------------------------------- MODULE Audit -------------------------------
(***************************************************************************)
(* The audit log: the hash chain every request appends to, the signed      *)
(* checkpoints over it, the pruning of a checkpointed prefix, the          *)
(* verification of what is left, and the shipper that copies the log to an *)
(* external sink (internal/audit, internal/auditship, the repositories     *)
(* under internal/store, api/audit_checkpoint_handlers.go).                *)
(*                                                                         *)
(* Append is one transaction under an advisory lock, hence one step. A     *)
(* checkpoint, a prune and a verification each take several statements,    *)
(* outside any transaction, and the calls below may stop between any two.  *)
(* The chain hash is collision free: it is the sequence of the bodies it   *)
(* covers. Checkpoint rows carry one ghost field, "unsound".               *)
(***************************************************************************)
EXTENDS Integers, Sequences, FiniteSets, FiniteSetsExt

CONSTANTS
    AuditCalls,     \* requests under way: checkpoint, prune, verify
    MaxEvents,      \* bound: events ever appended
    MaxAlterations, \* bound: rows changed behind the program's back
    ShipBatch,      \* the shipper's batch size
    RetainEvents    \* the values JANUS_AUDIT_RETAIN_MIN_EVENTS may have; 0 is off

ASSUME AuditAssumption ==
    /\ MaxEvents \in Nat /\ MaxAlterations \in Nat
    /\ ShipBatch \in Nat \ {0} /\ RetainEvents \subseteq Nat

VARIABLES
    rows,      \* audit_events: seq |-> [prev, hash, body, aged]
    anchors,   \* audit_checkpoints
    mark,      \* audit_ship_state.last_seq
    shipper,   \* the shipper's pass: [at, from, batch]
    floor,     \* the retention settings: [events, days]
    acall,     \* the calls under way
    born,      \* ghost: number of events ever appended
    seeded,    \* ghost: the mark the migration wrote
    sent,      \* ghost: bodies the sink has received
    lost,      \* ghost: bodies a prune that saw a positive mark removed unsent
    cut,       \* ghost: a prune removed one of the newest rows it had to keep
    emptied,   \* ghost: a prune left the table without a row
    altered    \* ghost: number of alterations

avars == <<rows, anchors, mark, shipper, floor, acall, born, seeded, sent,
           lost, cut, emptied, altered>>

ghosts == <<born, seeded, sent, lost, cut, emptied, altered>>

Genesis == <<>>
Forged  == 0

Idle    == [op |-> "none", at |-> "idle"]
Resting == [at |-> "idle", from |-> 0, batch |-> {}]

Seqs(r)   == DOMAIN r
HeadSeq(r) == IF r = <<>> THEN 0 ELSE Max(Seqs(r))

\* The event a row was written for, whatever its body says now.
EventOf(row) == row.hash[Len(row.hash)]

\* The latest checkpoint: the one with the highest through_seq.
NoAnchor == [through |-> 0, hash |-> Genesis, count |-> 0, mac |-> TRUE,
             unsound |-> {}]
Latest(cs) == IF cs = {} THEN NoAnchor
              ELSE CHOOSE a \in cs : \A b \in cs : b.through <= a.through

\* A fresh install, or an upgrade that finds one event and seeds the mark.
AuditInit ==
    /\ born \in {0, 1} /\ seeded = born /\ mark = born
    /\ rows = [s \in 1..born |->
                [prev |-> Genesis, hash |-> <<s>>, body |-> s, aged |-> FALSE]]
    /\ anchors = {} /\ shipper = Resting
    /\ floor \in [events : RetainEvents, days : BOOLEAN]
    /\ acall = [c \in AuditCalls |-> Idle]
    /\ sent = {} /\ lost = {} /\ cut = FALSE /\ emptied = FALSE /\ altered = 0

----------------------------------------------------------------------------
(* Appending. *)

\* Record: the next row continues the highest one, or starts the chain when
\* the table has none.
Appended(r) ==
    LET head == HeadSeq(r)
        prev == IF head = 0 THEN Genesis ELSE r[head].hash
    IN [s \in Seqs(r) \cup {head + 1} |->
          IF s = head + 1
          THEN [prev |-> prev, hash |-> Append(prev, born + 1),
                body |-> born + 1, aged |-> FALSE]
          ELSE r[s]]

\* Any audited request.
Record ==
    /\ born < MaxEvents
    /\ rows' = Appended(rows) /\ born' = born + 1
    /\ UNCHANGED <<anchors, mark, shipper, floor, acall, seeded, sent, lost,
                   cut, emptied, altered>>

\* A day passes for the oldest row that is still young.
EventAges ==
    /\ floor.days
    /\ \E s \in Seqs(rows) :
         /\ ~rows[s].aged /\ \A t \in Seqs(rows) : t < s => rows[t].aged
         /\ rows' = [rows EXCEPT ![s].aged = TRUE]
    /\ UNCHANGED <<anchors, mark, shipper, floor, acall, ghosts>>

----------------------------------------------------------------------------
(* Walking the chain. *)

\* The walk from an anchor over the rows of one query, up to "through" when
\* that is positive: the first row that is not the next seq, does not link
\* to its predecessor or does not hash to what it stores breaks it.

\* Mutant of LinksAt: a row is compared with whatever row comes before it.
LinksAtTheRowBefore(r, a, s) ==
    /\ s = 1 \/ s - 1 \in Seqs(r)
    /\ r[s].prev = IF s = 1 THEN Genesis ELSE r[s - 1].hash
    /\ r[s].hash = Append(r[s].prev, r[s].body)
LinksAt(r, a, s) ==
    /\ s = a.through + 1 \/ s - 1 \in Seqs(r)
    /\ r[s].prev = IF s = a.through + 1 THEN a.hash ELSE r[s - 1].hash
    /\ r[s].hash = Append(r[s].prev, r[s].body)

Walked(r, a, through) ==
    {s \in Seqs(r) : s > a.through /\ (through > 0 => s <= through)}

WalkChain(r, a, through) ==
    LET seen == Walked(r, a, through)
        top  == IF seen = {} THEN a.through ELSE Max(seen)
    IN [intact |-> \A s \in seen : LinksAt(r, a, s),
        head   |-> top,
        hash   |-> IF seen = {} THEN a.hash ELSE r[top].hash,
        count  |-> a.count + Cardinality(seen)]

Finished(c) == acall' = [acall EXCEPT ![c] = Idle]
GoesOn(c, rec) == acall' = [acall EXCEPT ![c] = rec]

\* Verify reads the latest checkpoint; one whose MAC is wrong ends it.
VerifyAnchor(c) ==
    /\ acall[c] = Idle
    /\ LET a == Latest(anchors)
       IN GoesOn(c, [op |-> "verify", anchor |-> a,
                     at |-> IF a.mac THEN "walk" ELSE "answered",
                     valid |-> FALSE, count |-> 0, hash |-> Genesis])
    /\ UNCHANGED <<rows, anchors, mark, shipper, floor, ghosts>>

\* ... and walks what lies past it.
VerifyWalk(c) ==
    /\ acall[c].at = "walk"
    /\ LET w == WalkChain(rows, acall[c].anchor, 0)
       IN GoesOn(c, [acall[c] EXCEPT !.at = "answered", !.valid = w.intact,
                                     !.count = w.count, !.hash = w.hash])
    /\ UNCHANGED <<rows, anchors, mark, shipper, floor, ghosts>>

----------------------------------------------------------------------------
(* Checkpoints. *)

\* Head: the highest seq and, in a second statement, its hash. A table with
\* no row has nothing to anchor.
CheckpointMax(c) ==
    /\ acall[c] = Idle /\ rows # <<>>
    /\ GoesOn(c, [op |-> "checkpoint", at |-> "hash", seq |-> HeadSeq(rows)])
    /\ UNCHANGED <<rows, anchors, mark, shipper, floor, ghosts>>

CheckpointHead(c) ==
    /\ acall[c].at = "hash"
    /\ \/ /\ acall[c].seq \notin Seqs(rows) /\ Finished(c)
       \/ /\ acall[c].seq \in Seqs(rows)
          /\ GoesOn(c, [op |-> "checkpoint", at |-> "anchored",
                        seq |-> acall[c].seq, hash |-> rows[acall[c].seq].hash])
    /\ UNCHANGED <<rows, anchors, mark, shipper, floor, ghosts>>

\* verifyBeforeAnchor, its first query: the anchor to walk from. A forged
\* anchor, a head below it, or a head at it with another hash is refused.
CheckpointAnchor(c) ==
    /\ acall[c].at = "anchored"
    /\ LET a == Latest(anchors)  k == acall[c]
           refused == \/ ~a.mac \/ a.through > k.seq
                      \/ a.through = k.seq /\ a.hash # k.hash
       IN \/ /\ refused /\ Finished(c)
          \/ /\ ~refused
             /\ GoesOn(c, [op |-> "checkpoint", at |-> "sound", seq |-> k.seq,
                           hash |-> k.hash, anchor |-> a])
    /\ UNCHANGED <<rows, anchors, mark, shipper, floor, ghosts>>

\* ... and its walk, which must be intact and end at the head that was read.
\* Walked(..) are the rows the signature is going to vouch for.

\* Mutant of SoundToSign: the walk may stop short of the head it signs.
SoundToSignTheHead(r, a, seq, hash) ==
    LET w == WalkChain(r, a, seq) IN w.head = seq /\ w.hash = hash
SoundToSign(r, a, seq, hash) ==
    LET w == WalkChain(r, a, seq)
    IN w.intact /\ w.head = seq /\ w.hash = hash

CheckpointWalk(c) ==
    /\ acall[c].at = "sound"
    /\ LET k == acall[c]
           same == k.anchor.through = k.seq
           w == WalkChain(rows, k.anchor, k.seq)
           bad == {s \in Walked(rows, k.anchor, k.seq) : rows[s].body = Forged}
       IN \/ /\ ~same /\ ~SoundToSign(rows, k.anchor, k.seq, k.hash)
             /\ Finished(c)
          \/ /\ same \/ SoundToSign(rows, k.anchor, k.seq, k.hash)
             /\ GoesOn(c, [op |-> "checkpoint", at |-> "insert",
                  row |-> [through |-> k.seq, hash |-> k.hash, mac |-> TRUE,
                           count |-> IF same THEN k.anchor.count ELSE w.count,
                           unsound |-> IF same THEN {} ELSE bad]])
    /\ UNCHANGED <<rows, anchors, mark, shipper, floor, ghosts>>

\* The insert; through_seq is unique. The event that records the checkpoint
\* is appended afterwards, by a Record of its own that a stop leaves out.
CheckpointInsert(c) ==
    /\ acall[c].at = "insert"
    /\ \/ /\ \E a \in anchors : a.through = acall[c].row.through
          /\ UNCHANGED anchors /\ Finished(c)
       \/ /\ \A a \in anchors : a.through # acall[c].row.through
          /\ anchors' = anchors \cup {acall[c].row}
          /\ GoesOn(c, [op |-> "checkpoint", at |-> "record"])
    /\ UNCHANGED <<rows, mark, shipper, floor, ghosts>>

\* The handler's own event: after a checkpoint, after a prune.
RecordOwn(c) ==
    /\ acall[c].at = "record" /\ born < MaxEvents
    /\ rows' = Appended(rows) /\ born' = born + 1 /\ Finished(c)
    /\ UNCHANGED <<anchors, mark, shipper, floor, seeded, sent, lost, cut,
                   emptied, altered>>

\* A call stops: the server is sealed (no MAC key), the store fails, the
\* client is gone, the process dies. An answered verification is read.
AuditCallEnds(c) ==
    /\ acall[c] # Idle /\ Finished(c)
    /\ UNCHANGED <<rows, anchors, mark, shipper, floor, ghosts>>

----------------------------------------------------------------------------
(* Pruning. *)

Unbounded == -1

\* combinePruneCeilings: the smallest active ceiling.
Combined(cs) == LET on == cs \ {Unbounded}
                IN IF on = {} THEN Unbounded ELSE Min(on)

SeqOlderThanDays(r) ==
    LET old == {s \in Seqs(r) : r[s].aged} IN IF old = {} THEN 0 ELSE Max(old)

Newest(r, n) == {s \in Seqs(r) : Cardinality({t \in Seqs(r) : t > s}) < n}


SeqRetainingNewest(r, n) ==
    LET keep == Newest(r, n)
    IN IF keep = {} \/ Min(keep) <= 1 THEN 0 ELSE Min(keep) - 1

\* handleAuditPrune reads the mark; a mark of 0 means nothing was ever
\* shipped and imposes no ceiling, whatever the shipper's configuration.
PruneShipCeiling(c) ==
    /\ acall[c] = Idle
    /\ GoesOn(c, [op |-> "prune", at |-> "retention",
                  ship |-> IF mark <= 0 THEN Unbounded ELSE mark])
    /\ UNCHANGED <<rows, anchors, mark, shipper, floor, ghosts>>

\* ... then the retention floor; a floor that keeps everything refuses.
PruneRetention(c) ==
    /\ acall[c].at = "retention"
    /\ LET days == IF floor.days THEN SeqOlderThanDays(rows) ELSE Unbounded
           keep == IF floor.events > 0
                   THEN SeqRetainingNewest(rows, floor.events) ELSE Unbounded
           retention == Combined({days, keep})
       IN \/ /\ retention = 0 /\ Finished(c)
          \/ /\ retention # 0
             /\ GoesOn(c, [op |-> "prune", at |-> "boundary",
                           ship |-> acall[c].ship,
                           ceiling |-> Combined({acall[c].ship, retention})])
    /\ UNCHANGED <<rows, anchors, mark, shipper, floor, ghosts>>

\* Prune: the latest checkpoint must exist and verify.
PruneAnchor(c) ==
    /\ acall[c].at = "boundary"
    /\ LET a == Latest(anchors)
       IN \/ /\ anchors = {} \/ ~a.mac
             /\ Finished(c)
          \/ /\ anchors # {} /\ a.mac
             /\ GoesOn(c, [op |-> "prune", at |-> "delete", anchor |-> a,
                           ship |-> acall[c].ship, ceiling |-> acall[c].ceiling])
    /\ UNCHANGED <<rows, anchors, mark, shipper, floor, ghosts>>

\* checkAnchorBoundary: the first row past the anchor links to it.
BoundaryHolds(r, a) ==
    LET past == Walked(r, a, 0)
    IN past # {} => /\ Min(past) = a.through + 1
                    /\ r[a.through + 1].prev = a.hash

Clamp(a, ceiling) ==
    IF ceiling >= 0 /\ ceiling < a.through THEN ceiling ELSE a.through

PruneBoundary(c) ==
    /\ acall[c].at = "delete"
    /\ LET k == acall[c]
           through == Clamp(k.anchor, k.ceiling)
           ok == BoundaryHolds(rows, k.anchor) /\ through >= 1
       IN \/ /\ ~ok /\ Finished(c)
          \/ /\ ok /\ GoesOn(c, [op |-> "prune", at |-> "gone",
                                 through |-> through, ship |-> k.ship])
    /\ UNCHANGED <<rows, anchors, mark, shipper, floor, ghosts>>

\* The delete. Its own event comes last and may be missing.
PruneThrough(c) ==
    /\ acall[c].at = "gone"
    /\ LET k == acall[c]
           gone == {s \in Seqs(rows) : s <= k.through}
           left == Seqs(rows) \ gone
       IN /\ rows' = [s \in left |-> rows[s]]
          /\ lost' = IF k.ship = Unbounded THEN lost
                     ELSE lost \cup ({EventOf(rows[s]) : s \in gone}
                                \ (sent \cup 1..seeded))
          /\ cut' = (cut \/ gone \cap Newest(rows, floor.events) # {})
          /\ emptied' = (emptied \/ (left = {} /\ gone # {}))
    /\ GoesOn(c, [op |-> "prune", at |-> "record"])
    /\ UNCHANGED <<anchors, mark, shipper, floor, born, seeded, sent, altered>>

----------------------------------------------------------------------------
(* Shipping. One goroutine, one pass at a time. *)

ShipRead ==
    /\ shipper.at = "idle"
    /\ shipper' = [at |-> "tail", from |-> mark, batch |-> {}]
    /\ UNCHANGED <<rows, anchors, mark, floor, acall, ghosts>>

\* ListSince: the first ShipBatch rows past the mark, in one query.
ListSince(r, from) ==
    {s \in Seqs(r) : s > from
        /\ Cardinality({t \in Seqs(r) : from < t /\ t < s}) < ShipBatch}

ShipTail ==
    /\ shipper.at = "tail"
    /\ LET seqs == ListSince(rows, shipper.from)
       IN \/ /\ seqs = {} /\ shipper' = Resting
          \/ /\ seqs # {}
             /\ shipper' = [at |-> "send", from |-> shipper.from,
                  batch |-> {[seq |-> s,
                              id |-> EventOf(rows[s])] : s \in seqs}]
    /\ UNCHANGED <<rows, anchors, mark, floor, acall, ghosts>>

\* A send that fails may have delivered a first part (syslog writes event by
\* event); the mark stays and the next pass sends the batch again.
ShipSend ==
    /\ shipper.at = "send"
    /\ \/ /\ sent' = sent \cup {e.id : e \in shipper.batch}
          /\ shipper' = [shipper EXCEPT !.at = "advance"]
       \/ /\ \E e \in shipper.batch :
               sent' = sent \cup {d.id : d \in {f \in shipper.batch : f.seq < e.seq}}
          /\ shipper' = Resting
    /\ UNCHANGED <<rows, anchors, mark, floor, acall, born, seeded, lost, cut,
                   emptied, altered>>

\* AdvanceHighWater moves the mark forward only. The mutant advances to the
\* head instead of the last seq of the batch.

\* Mutant of ShipAdvance: the high water moves to the head and not to the last event sent.
ShipAdvanceToHead ==
    /\ shipper.at = "advance"
    /\ mark' = Max({mark, HeadSeq(rows)}) /\ shipper' = Resting
    /\ UNCHANGED <<rows, anchors, floor, acall, ghosts>>
ShipAdvance ==
    /\ shipper.at = "advance"
    /\ mark' = Max({mark} \cup {e.seq : e \in shipper.batch})
    /\ shipper' = Resting
    /\ UNCHANGED <<rows, anchors, floor, acall, ghosts>>

\* The pass stops at a store error or with the process.
ShipStops ==
    /\ shipper.at # "idle" /\ shipper' = Resting
    /\ UNCHANGED <<rows, anchors, mark, floor, acall, ghosts>>

----------------------------------------------------------------------------
(* What the chain exists to expose: a row or an anchor changed in the       *)
(* database by something other than this program.                           *)

Alter ==
    /\ altered < MaxAlterations /\ altered' = altered + 1
    /\ \/ /\ \E s \in Seqs(rows) : rows' = [rows EXCEPT ![s].body = Forged]
          /\ UNCHANGED anchors
       \/ /\ \E a \in anchors :
               anchors' = (anchors \ {a}) \cup {[a EXCEPT !.mac = FALSE]}
          /\ UNCHANGED rows
    /\ UNCHANGED <<mark, shipper, floor, acall, born, seeded, sent, lost, cut,
                   emptied>>

AuditNext ==
    \/ Record \/ EventAges \/ Alter
    \/ ShipRead \/ ShipTail \/ ShipSend \/ ShipAdvance \/ ShipStops
    \/ \E c \in AuditCalls :
         \/ VerifyAnchor(c) \/ VerifyWalk(c)
         \/ CheckpointMax(c) \/ CheckpointHead(c) \/ CheckpointAnchor(c)
         \/ CheckpointWalk(c) \/ CheckpointInsert(c) \/ RecordOwn(c)
         \/ PruneShipCeiling(c) \/ PruneRetention(c) \/ PruneAnchor(c)
         \/ PruneBoundary(c) \/ PruneThrough(c) \/ AuditCallEnds(c)

AuditSpec == AuditInit /\ [][AuditNext]_avars

----------------------------------------------------------------------------
(* Properties. *)

\* No checkpoint vouches for a row that had been changed when the chain was
\* walked, and its event_count is the number of events its hash covers, a
\* lifetime total that no prune lowers (CreateCheckpoint, verifyBeforeAnchor):
\* whatever checkpoints, prunes and appends happen around the walk.
CheckpointsVouchForIntactEvents ==
    \A a \in anchors : a.unsound = {} /\ a.count = Len(a.hash)

\* A verification that reports a break on a log nobody changed read an anchor
\* that a newer checkpoint had replaced, or a log that a prune had emptied;
\* one that reports success counts every event ever appended up to the head
\* it saw (Verify, walkChain).
VerdictIsEarned ==
    \A c \in AuditCalls :
      acall[c].op = "verify" /\ acall[c].at = "answered" =>
        /\ ~acall[c].valid => \/ altered > 0 \/ emptied
                              \/ acall[c].anchor # Latest(anchors)
        /\ acall[c].valid => acall[c].count = Len(acall[c].hash)

\* The sink has every event the mark has passed and every event a prune that
\* saw a positive mark removed, except those the migration's seed skips
\* (RunDue, shipPruneCeiling, Prune).
SinkHasNoGap ==
    ~emptied =>
      /\ lost = {}
      /\ \A s \in Seqs(rows) : s <= mark =>
           EventOf(rows[s]) \in sent \cup 1..seeded

\* A prune keeps the newest events the retention floor asks for, counted when
\* the rows go and not when the ceiling was computed (retentionPruneCeiling,
\* SeqRetainingNewest).
FloorOutlastsThePrune == ~cut

\* Pruning takes nothing that is still needed: not what the sink has not got, nor what the
\* retention floor promises to keep.
PruneTakesNothingNeeded == SinkHasNoGap /\ FloorOutlastsThePrune

=============================================================================
