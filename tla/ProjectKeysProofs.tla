------------------------- MODULE ProjectKeysProofs -------------------------
(***************************************************************************)
(* For any number of rows, requests, writers, sweepers, readers and KEK     *)
(* versions: ProjectKeys is type-correct, and a DEK is stranded only by a   *)
(* retire that overtook a call still holding the version.                   *)
(***************************************************************************)
EXTENDS ProjectKeys, TLAPS

\* An unfinished write or sweep holds a version that is live, or that was
\* retired under it: what StrandedOnlyByRetiringAHeldVersion lacks to be
\* inductive, since the held version is what the call will write into a row.
HeldKnown ==
    /\ \A w \in Writers : writer[w] # 0 => writer[w] \in Live \cup lost
    /\ \A s \in Sweepers : sweep[s].pc # "idle" => sweep[s].latest \in Live \cup lost

\* The inductive invariant.
KeyInv == TypeOK /\ StrandedOnlyByRetiringAHeldVersion /\ HeldKnown

\* The local states a finished sweep and a finished read return to are typed.
LEMMA IdleTyped == IdleSweep \in SweepState /\ IdleReader \in ReaderState
BY ConstantsAssumption DEF IdleSweep, SweepState, IdleReader, ReaderState, Rows

\* Each of a sweep's own steps leaves it in a typed local state.
LEMMA SweepTyped ==
    ASSUME TypeOK, NEW s \in Sweepers, BeginSweep(s) \/ SweepStep(s)
    PROVE  sweep' \in [Sweepers -> SweepState]
<1> USE ConstantsAssumption DEF TypeOK, Versions
<1>0. sweep[s] \in SweepState
  OBVIOUS
<1>1. CASE BeginSweep(s)
  <2>1. [pc |-> "select", latest |-> kekVersion, passed |-> {},
         batch |-> {}, need |-> {}, cache |-> {kekVersion}] \in SweepState
    BY DEF SweepState
  <2> QED
    BY <1>1, <2>1 DEF BeginSweep
<1>2. CASE SelectBatch(s)
  <2> DEFINE need == {dek[r] : r \in Page(s)}
  <2>1. Page(s) \in SUBSET Rows
    BY DEF Page, Candidates
  <2>2. \A r \in Page(s) : dek[r] \in Versions
    <3>1. \A r \in Page(s) : r \in Rows /\ dek[r] # 0
      BY DEF Page, Candidates
    <3> QED
      BY <3>1
  <2>3. need \in SUBSET Versions
    BY <2>2
  <2> HIDE DEF need
  <2>4. \A p \in {"retire", "load"} :
          [sweep[s] EXCEPT !.batch = Page(s), !.need = need, !.pc = p] \in SweepState
    BY <1>0, <2>1, <2>3 DEF SweepState
  <2>5. \E p \in {"retire", "load"} : sweep' = [sweep EXCEPT ![s] =
          [sweep[s] EXCEPT !.batch = Page(s), !.need = need, !.pc = p]]
    BY <1>2 DEF SelectBatch, need
  <2> QED
    BY <2>4, <2>5
<1>3. CASE LoadKEKs(s)
  <2>1. [sweep[s] EXCEPT !.cache = @ \cup sweep[s].need, !.pc = "commit"] \in SweepState
    BY <1>0 DEF SweepState
  <2> QED
    BY <1>3, <2>1, IdleTyped DEF LoadKEKs
<1>4. CASE CommitBatch(s)
  <2> DEFINE passed == {x \in Rows : \E r \in sweep[s].batch : x <= r}
  <2>1. passed \in SUBSET Rows
    OBVIOUS
  <2> HIDE DEF passed
  <2>2. \A p \in {"retire", "select"} :
          [sweep[s] EXCEPT !.pc = p, !.passed = passed, !.batch = {}, !.need = {}] \in SweepState
    BY <1>0, <2>1 DEF SweepState
  <2>3. \/ sweep' = [sweep EXCEPT ![s] = IdleSweep]
        \/ \E p \in {"retire", "select"} : sweep' = [sweep EXCEPT ![s] =
          [sweep[s] EXCEPT !.pc = p, !.passed = passed, !.batch = {}, !.need = {}]]
    BY <1>4 DEF CommitBatch, passed
  <2> QED
    BY <2>2, <2>3, IdleTyped
<1>5. CASE DeleteEmpty(s)
  BY <1>5, IdleTyped DEF DeleteEmpty
<1>6. CASE AbortSweep(s)
  BY <1>6, IdleTyped DEF AbortSweep
<1> QED
  BY <1>1, <1>2, <1>3, <1>4, <1>5, <1>6 DEF SweepStep

\* Each of a read's own steps leaves it in a typed local state.
LEMMA ReaderTyped ==
    ASSUME TypeOK, NEW g \in Readers, ReaderStep(g)
    PROVE  reader' \in [Readers -> ReaderState]
<1> USE ConstantsAssumption DEF TypeOK
<1>0. reader[g] \in ReaderState /\ kekVersion \in 0 .. MaxVersion
  BY DEF Versions
<1>1. CASE BeginRead(g)
  <2>1. PICK r \in Rows : reader' = [reader EXCEPT ![g] =
            [pc |-> "row", row |-> r, rver |-> 0, pver |-> kekVersion]]
    BY <1>1 DEF BeginRead
  <2>2. [pc |-> "row", row |-> r, rver |-> 0, pver |-> kekVersion] \in ReaderState
    <3>1. 0 \in 0 .. MaxVersion
      OBVIOUS
    <3> QED
      BY <1>0, <3>1 DEF ReaderState
  <2> QED
    BY <2>1, <2>2
<1>2. ASSUME ReadRow(g) \/ RereadRow(g) PROVE reader' \in [Readers -> ReaderState]
  <2>1. dek[reader[g].row] # 0 => dek[reader[g].row] \in 0 .. MaxVersion
    BY <1>0 DEF ReaderState
  <2>2. \A p \in {"kek", "project2"}, v \in 0 .. MaxVersion :
          [reader[g] EXCEPT !.rver = v, !.pc = p] \in ReaderState
    BY <1>0 DEF ReaderState
  <2>3. CASE dek[reader[g].row] = 0
    BY <1>2, <2>3, IdleTyped DEF ReadRow, RereadRow
  <2>4. CASE dek[reader[g].row] # 0
    <3>1. CASE ReadRow(g)
      BY <2>1, <2>2, <2>4, <3>1 DEF ReadRow
    <3>2. CASE RereadRow(g)
      BY <2>1, <2>2, <2>4, <3>2 DEF RereadRow
    <3> QED
      BY <1>2, <3>1, <3>2
  <2> QED
    BY <2>3, <2>4
<1>3. CASE ResolveKEK(g)
  <2>1. \A p \in {"row2", "ErrDecrypt"} : [reader[g] EXCEPT !.pc = p] \in ReaderState
    BY <1>0 DEF ReaderState
  <2>2. \/ reader' = [reader EXCEPT ![g] = IdleReader]
        \/ \E p \in {"row2", "ErrDecrypt"} :
              reader' = [reader EXCEPT ![g] = [reader[g] EXCEPT !.pc = p]]
    BY <1>3 DEF ResolveKEK
  <2> QED
    BY <2>1, <2>2, IdleTyped
<1>4. CASE RereadProject(g)
  <2>1. [reader[g] EXCEPT !.pver = kekVersion, !.pc = "kek2"] \in ReaderState
    BY <1>0 DEF ReaderState
  <2> QED
    BY <1>4, <2>1 DEF RereadProject
<1>5. CASE ReportError(g)
  BY <1>5, IdleTyped DEF ReportError
<1> QED
  BY <1>1, <1>2, <1>3, <1>4, <1>5 DEF ReaderStep

\* Every variable of the key hierarchy keeps its type, whatever the calls do.
THEOREM TypeCorrect == Spec => []TypeOK
<1> USE ConstantsAssumption
<1>1. Init => TypeOK
  BY IdleTyped DEF Init, TypeOK, Rows, Versions
<1>2. TypeOK /\ [Next]_vars => TypeOK'
  <2> SUFFICES ASSUME TypeOK, [Next]_vars PROVE TypeOK'
    OBVIOUS
  <2> USE DEF TypeOK, Versions
  <2>1. CASE Rotate
    BY <2>1 DEF Rotate
  <2>2. ASSUME NEW w \in Writers, WriterStep(w) PROVE TypeOK'
    <3>1. CASE BeginWrite(w)
      BY <3>1 DEF BeginWrite
    <3>2. CASE CommitSecret(w)
      BY <3>2 DEF CommitSecret
    <3>3. CASE CommitRequest(w)
      BY <3>3 DEF CommitRequest
    <3>4. CASE AbortWrite(w)
      BY <3>4 DEF AbortWrite
    <3> QED
      BY <2>2, <3>1, <3>2, <3>3, <3>4 DEF WriterStep
  <2>3. ASSUME NEW s \in Sweepers, BeginSweep(s) \/ SweepStep(s) PROVE TypeOK'
    <3>1. sweep' \in [Sweepers -> SweepState]
      BY <2>3, SweepTyped
    <3>2. CASE CommitBatch(s)
      <4>1. sweep[s].latest \in 0 .. MaxVersion
        BY DEF SweepState
      <4>2. dek' \in [Rows -> 0 .. MaxVersion]
        BY <3>2, <4>1, ZenonT(40) DEF CommitBatch
      <4> QED
        BY <3>1, <3>2, <4>2 DEF CommitBatch
    <3>3. CASE DeleteEmpty(s)
      BY <3>1, <3>3 DEF DeleteEmpty
    <3> QED
      BY <2>3, <3>1, <3>2, <3>3
         DEF BeginSweep, SweepStep, SelectBatch, LoadKEKs, AbortSweep
  <2>4. ASSUME NEW g \in Readers, ReaderStep(g) PROVE TypeOK'
    <3>1. reader' \in [Readers -> ReaderState]
      BY <2>4, ReaderTyped
    <3> QED
      BY <2>4, <3>1 DEF ReaderStep, BeginRead, ReadRow, ResolveKEK, RereadRow,
                        RereadProject, ReportError
  <2>5. ASSUME NEW q \in Requests, CloseRequest(q) PROVE TypeOK'
    BY <2>5 DEF CloseRequest
  <2>6. ASSUME NEW r \in Rows, PruneValue(r) PROVE TypeOK'
    BY <2>6 DEF PruneValue
  <2>7. CASE UNCHANGED vars
    BY <2>7 DEF vars
  <2> QED
    BY <2>1, <2>2, <2>3, <2>4, <2>5, <2>6, <2>7 DEF Next
<1> QED
  BY <1>1, <1>2, PTL DEF Spec

\* The three parts of KeyInv are kept by every step; IInv' is shown one action
\* at a time, by what the action does to dek, req, the held versions and Live.
LEMMA KeyInvStep == TypeOK' /\ KeyInv /\ [Next]_vars => KeyInv'
<1> SUFFICES ASSUME TypeOK', KeyInv, [Next]_vars
             PROVE  StrandedOnlyByRetiringAHeldVersion' /\ HeldKnown'
  BY DEF KeyInv
<1> USE ConstantsAssumption DEF KeyInv, StrandedOnlyByRetiringAHeldVersion, HeldKnown, Live
<1>1. CASE Rotate
  BY <1>1 DEF Rotate
<1>2. ASSUME NEW w \in Writers, WriterStep(w)
      PROVE  StrandedOnlyByRetiringAHeldVersion' /\ HeldKnown'
  <2>0. UNCHANGED <<kekVersion, kept, sweep, lost>>
    BY <1>2 DEF WriterStep, BeginWrite, CommitSecret, CommitRequest, AbortWrite
  <2>1. CASE BeginWrite(w)
    BY <2>0, <2>1 DEF BeginWrite, TypeOK
  <2>2. CASE CommitSecret(w)
    BY <2>0, <2>2 DEF CommitSecret, TypeOK
  <2>3. CASE CommitRequest(w)
    BY <2>0, <2>3 DEF CommitRequest, TypeOK
  <2>4. CASE AbortWrite(w)
    BY <2>0, <2>4 DEF AbortWrite, TypeOK
  <2> QED
    BY <1>2, <2>1, <2>2, <2>3, <2>4 DEF WriterStep
<1>3. ASSUME NEW s \in Sweepers, BeginSweep(s) \/ SweepStep(s)
      PROVE  StrandedOnlyByRetiringAHeldVersion' /\ HeldKnown'
  <2>0. \A t \in Sweepers : t # s => sweep'[t] = sweep[t]
    BY <1>3 DEF BeginSweep, SweepStep, SelectBatch, LoadKEKs, CommitBatch,
                DeleteEmpty, AbortSweep, TypeOK
  <2>1. CASE BeginSweep(s)
    <3>1. sweep'[s].latest = kekVersion
      BY <2>1 DEF BeginSweep, TypeOK
    <3> QED
      BY <2>0, <2>1, <3>1 DEF BeginSweep
  <2>2. CASE SelectBatch(s) \/ LoadKEKs(s) \/ AbortSweep(s)
    <3>1. sweep'[s].pc # "idle" => /\ sweep[s].pc # "idle"
                                   /\ sweep'[s].latest = sweep[s].latest
      <4>1. CASE SelectBatch(s)
        BY <4>1 DEF SelectBatch, TypeOK, SweepState
      <4>2. CASE LoadKEKs(s)
        BY <4>2 DEF LoadKEKs, IdleSweep, TypeOK, SweepState
      <4>3. CASE AbortSweep(s)
        BY <4>3 DEF AbortSweep, IdleSweep, TypeOK, SweepState
      <4> QED
        BY <2>2, <4>1, <4>2, <4>3
    <3> QED
      BY <2>0, <2>2, <3>1 DEF SelectBatch, LoadKEKs, AbortSweep
  <2>3. CASE CommitBatch(s)
    <3>1. sweep'[s].pc # "idle" => sweep'[s].latest = sweep[s].latest
      <4>1. CASE \A r \in sweep[s].batch : dek[r] # 0
        <5> DEFINE passed == {x \in Rows : \E r \in sweep[s].batch : x <= r}
        <5>1. \E p \in {"retire", "select"} : sweep' = [sweep EXCEPT ![s] =
            [sweep[s] EXCEPT !.pc = p, !.passed = passed, !.batch = {}, !.need = {}]]
          BY <2>3, <4>1 DEF CommitBatch
        <5> HIDE DEF passed
        <5>2. sweep \in [Sweepers -> SweepState]
          BY DEF TypeOK
        <5>3. PICK p \in {"retire", "select"} : sweep'[s] =
            [sweep[s] EXCEPT !.pc = p, !.passed = passed, !.batch = {}, !.need = {}]
          BY <5>1, <5>2
        <5>4. sweep[s] \in SweepState
          BY <5>2
        <5> QED
          BY <5>3, <5>4 DEF SweepState
      <4>2. CASE ~ \A r \in sweep[s].batch : dek[r] # 0
        <5>1. sweep' = [sweep EXCEPT ![s] = IdleSweep]
          BY <2>3, <4>2 DEF CommitBatch
        <5> QED
          BY <5>1 DEF IdleSweep, TypeOK
      <4> QED
        BY <4>1, <4>2
    <3>2. \A r \in Rows : dek'[r] # dek[r] => dek'[r] = sweep[s].latest
      <4>1. \/ dek' = dek
            \/ dek' = [r \in Rows |-> IF r \in sweep[s].batch
                                      THEN sweep[s].latest ELSE dek[r]]
        BY <2>3 DEF CommitBatch
      <4> QED
        BY <4>1
    <3>3. sweep[s].latest \in Live \cup lost
      BY <2>3 DEF CommitBatch
    <3>4. Live' = Live /\ lost' = lost
      BY <2>3 DEF CommitBatch
    <3>5. UNCHANGED <<kekVersion, kept, req, writer, lost>> /\ sweep[s].pc # "idle"
      BY <2>3 DEF CommitBatch
    <3>6. \A t \in Sweepers : sweep'[t].pc # "idle" =>
             sweep[t].pc # "idle" /\ sweep'[t].latest = sweep[t].latest
      BY <2>0, <3>1, <3>5
    <3>7. StrandedOnlyByRetiringAHeldVersion'
      <4> HIDE DEF Live
      <4>1. ASSUME NEW r \in Rows, dek'[r] # 0 PROVE dek'[r] \in Live \cup lost
        BY <3>2, <3>3, <4>1
      <4> QED
        BY <3>5, <3>4, <4>1
    <3>8. HeldKnown'
      <4> HIDE DEF Live
      <4> QED
        BY <3>5, <3>6, <3>4
    <3> QED
      BY <3>7, <3>8
  <2>4. CASE DeleteEmpty(s)
    <3>1. sweep'[s].pc = "idle"
      BY <2>4 DEF DeleteEmpty, IdleSweep, TypeOK
    <3>2. \A r \in Rows : dek[r] # 0 => dek[r] \notin kept \ kept'
      BY <2>4 DEF DeleteEmpty, Referenced
    <3>3. \A q \in Requests : req[q] # 0 => req[q] \notin kept \ kept'
      BY <2>4 DEF DeleteEmpty, Referenced
    <3>4. \A w \in Writers : writer[w] # 0 => writer[w] \in kept' \cup lost' \cup {kekVersion}
      BY <2>4 DEF DeleteEmpty
    <3>5. \A t \in Sweepers \ {s} : sweep[t].pc # "idle" =>
             sweep[t].latest \in kept' \cup lost' \cup {kekVersion}
      BY <2>4 DEF DeleteEmpty
    <3> QED
      BY <2>0, <2>4, <3>1, <3>2, <3>3, <3>4, <3>5 DEF DeleteEmpty
  <2> QED
    BY <1>3, <2>1, <2>2, <2>3, <2>4 DEF SweepStep
<1>4. ASSUME NEW g \in Readers, ReaderStep(g)
      PROVE  StrandedOnlyByRetiringAHeldVersion' /\ HeldKnown'
  BY <1>4 DEF ReaderStep, BeginRead, ReadRow, ResolveKEK, RereadRow,
              RereadProject, ReportError
<1>5. ASSUME NEW q \in Requests, CloseRequest(q)
      PROVE  StrandedOnlyByRetiringAHeldVersion' /\ HeldKnown'
  BY <1>5 DEF CloseRequest, TypeOK
<1>6. ASSUME NEW r \in Rows, PruneValue(r)
      PROVE  StrandedOnlyByRetiringAHeldVersion' /\ HeldKnown'
  BY <1>6 DEF PruneValue, TypeOK
<1>7. CASE UNCHANGED vars
  BY <1>7 DEF vars
<1> QED
  BY <1>1, <1>2, <1>3, <1>4, <1>5, <1>6, <1>7 DEF Next

\* A stored value or an open edit request loses its KEK only when a retire
\* removes a version some unfinished call holds: for every number of rows,
\* calls, page sizes and rotations, no other schedule can make it undecryptable.
THEOREM StrandingIsOnlyThatRace == Spec => []StrandedOnlyByRetiringAHeldVersion
<1>1. Init => KeyInv
  <2>1. Init => TypeOK
    BY ConstantsAssumption, IdleTyped DEF Init, TypeOK, Rows, Versions
  <2> QED
    BY <2>1 DEF Init, KeyInv, StrandedOnlyByRetiringAHeldVersion, HeldKnown, IdleSweep
<1>2. KeyInv /\ TypeOK' /\ [Next]_vars => KeyInv'
  BY KeyInvStep
<1>3. KeyInv => StrandedOnlyByRetiringAHeldVersion
  BY DEF KeyInv
<1> QED
  BY <1>1, <1>2, <1>3, TypeCorrect, PTL DEF Spec

\* A retry that has read its row again: the row's version is live or lost, or a retire has
\* overtaken the retry since; with the project read again, the version is the project's,
\* a kept one or a lost one.
RetryKnown ==
    /\ \A g \in Readers : reader[g].pc = "project2" =>
          g \in overtaken \/ reader[g].rver \in Live \cup lost
    /\ \A g \in Readers : reader[g].pc = "kek2" =>
          g \in overtaken \/ reader[g].rver \in kept \cup lost \cup {reader[g].pver}
    /\ RetryFailsOnlyWhenOvertaken

\* RetryKnown is inductive on top of KeyInv, which says where a row's version can be.
LEMMA RetryStep == KeyInv /\ RetryKnown /\ [Next]_vars => RetryKnown'
<1> SUFFICES ASSUME KeyInv, RetryKnown, [Next]_vars PROVE RetryKnown'
  OBVIOUS
<1> USE DEF KeyInv, RetryKnown, RetryFailsOnlyWhenOvertaken, Live
<1>0. reader \in [Readers -> ReaderState]
  BY DEF TypeOK
<1>1. CASE Rotate
  BY <1>1 DEF Rotate
<1>2. ASSUME NEW w \in Writers, WriterStep(w) PROVE RetryKnown'
  BY <1>2 DEF WriterStep, BeginWrite, CommitSecret, CommitRequest, AbortWrite
<1>3. ASSUME NEW s \in Sweepers, BeginSweep(s) \/ SweepStep(s) PROVE RetryKnown'
  <2>1. CASE DeleteEmpty(s)
    <3>1. /\ UNCHANGED <<kekVersion, reader>> /\ lost \subseteq lost' /\ overtaken \subseteq overtaken'
          /\ kept' \subseteq kept
          /\ \A g \in Readers :
                reader[g].pc \in {"project2", "kek2"} /\ reader[g].rver \in kept \ kept' => g \in overtaken'
      BY <2>1 DEF DeleteEmpty
    <3> QED
      BY <3>1
  <2>2. CASE ~DeleteEmpty(s)
    BY <1>3, <2>2 DEF BeginSweep, SweepStep, SelectBatch, LoadKEKs, CommitBatch, AbortSweep
  <2> QED
    BY <2>1, <2>2
<1>4. ASSUME NEW g \in Readers, ReaderStep(g) PROVE RetryKnown'
  <2>1. /\ UNCHANGED <<kekVersion, kept, lost>>
        /\ \A h \in Readers : h # g => reader'[h] = reader[h] /\ (h \in overtaken' <=> h \in overtaken)
    BY <1>0, <1>4 DEF ReaderStep, BeginRead, ReadRow, ResolveKEK, RereadRow, RereadProject, ReportError
  <2>2. reader[g] \in ReaderState
    BY <1>0
  <2>3. ASSUME reader'[g].pc \notin {"project2", "kek2", "ErrDecrypt"} PROVE RetryKnown'
    BY <2>1, <2>3
  <2>4. CASE BeginRead(g)
    BY <1>0, <2>3, <2>4 DEF BeginRead
  <2>5. CASE ReadRow(g)
    BY <1>0, <2>2, <2>3, <2>5 DEF ReadRow, IdleReader, ReaderState
  <2>6. CASE ReportError(g)
    BY <1>0, <2>3, <2>6 DEF ReportError, IdleReader
  <2>7. CASE ResolveKEK(g)
    <3>1. CASE reader[g].rver = reader[g].pver \/ reader[g].rver \in kept
      BY <1>0, <2>3, <2>7, <3>1 DEF ResolveKEK, IdleReader
    <3>2. CASE ~(reader[g].rver = reader[g].pver \/ reader[g].rver \in kept)
      <4>1. CASE reader[g].pc = "kek"
        BY <1>0, <2>2, <2>3, <2>7, <3>2, <4>1 DEF ResolveKEK, ReaderState
      <4>2. CASE reader[g].pc = "kek2"
        <5>1. /\ reader'[g].pc = "ErrDecrypt" /\ reader'[g].rver = reader[g].rver
              /\ overtaken' = overtaken
          BY <1>0, <2>2, <2>7, <3>2, <4>2 DEF ResolveKEK, ReaderState
        <5>2. g \in overtaken \/ reader[g].rver \in lost
          BY <3>2, <4>2
        <5> QED
          BY <2>1, <5>1, <5>2
      <4> QED
        BY <2>7, <4>1, <4>2 DEF ResolveKEK
    <3> QED
      BY <3>1, <3>2
  <2>8. CASE RereadRow(g)
    <3>1. CASE dek[reader[g].row] = 0
      BY <1>0, <2>3, <2>8, <3>1 DEF RereadRow, IdleReader
    <3>2. CASE dek[reader[g].row] # 0
      <4>1. dek[reader[g].row] \in Live \cup lost
        BY <2>2, <3>2 DEF StrandedOnlyByRetiringAHeldVersion, ReaderState
      <4>2. reader'[g].pc = "project2" /\ reader'[g].rver = dek[reader[g].row]
        BY <1>0, <2>2, <2>8, <3>2 DEF RereadRow, ReaderState
      <4> QED
        BY <2>1, <4>1, <4>2
    <3> QED
      BY <3>1, <3>2
  <2>9. CASE RereadProject(g)
    <3>1. /\ reader[g].pc = "project2" /\ reader'[g].pc = "kek2" /\ overtaken' = overtaken
          /\ reader'[g].rver = reader[g].rver /\ reader'[g].pver = kekVersion
      BY <1>0, <2>2, <2>9 DEF RereadProject, ReaderState
    <3> QED
      BY <2>1, <3>1
  <2> QED
    BY <1>4, <2>4, <2>5, <2>6, <2>7, <2>8, <2>9 DEF ReaderStep
<1>5. ASSUME NEW q \in Requests, CloseRequest(q) PROVE RetryKnown'
  BY <1>5 DEF CloseRequest
<1>6. ASSUME NEW r \in Rows, PruneValue(r) PROVE RetryKnown'
  BY <1>6 DEF PruneValue
<1>7. CASE UNCHANGED vars
  BY <1>7 DEF vars
<1> QED
  BY <1>1, <1>2, <1>3, <1>4, <1>5, <1>6, <1>7 DEF Next

\* GetSecret's single retry is enough: a read of a value ends in ErrDecrypt only when the
\* value is stranded or one more retire took the version the retry had just read
\* (decryptValue).
THEOREM OneRetryIsEnough == Spec => []RetryFailsOnlyWhenOvertaken
<1>1. Init => RetryKnown /\ KeyInv
  <2>1. Init => TypeOK
    BY ConstantsAssumption, IdleTyped DEF Init, TypeOK, Rows, Versions
  <2> QED
    BY <2>1 DEF Init, KeyInv, StrandedOnlyByRetiringAHeldVersion, HeldKnown, IdleSweep,
                RetryKnown, RetryFailsOnlyWhenOvertaken, IdleReader
<1>2. KeyInv /\ TypeOK' /\ [Next]_vars => KeyInv'
  BY KeyInvStep
<1>3. RetryKnown => RetryFailsOnlyWhenOvertaken
  BY DEF RetryKnown
<1> QED
  BY <1>1, <1>2, <1>3, RetryStep, TypeCorrect, PTL DEF Spec

=============================================================================
