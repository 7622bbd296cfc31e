-------------------------- MODULE MasterKeyProofs --------------------------
(***************************************************************************)
(* For any number of handlers, rows, shares and rotations: MasterKey is    *)
(* type-correct, the rotation itself leaves no row behind, the keyring     *)
(* holds the seal's master, and the shares of the seal are accounted for.  *)
(***************************************************************************)
EXTENDS MasterKey, TLAPS

\* Before init there is nothing to lose: an init may set the seal to a new key.
NothingBeforeInit ==
    seal = 0 => /\ master = 0 /\ ceremony = "closed"
                /\ \A b \in Rows : row[b] = << >>
                /\ \A r \in Requests : pc[r] = "idle"

\* The keyring's write lock admits one rotation, which starts from a master in
\* memory; from the commit to the swap its key is the seal's.
OneRotation ==
    /\ \A r, q \in Requests : Rotating(r) /\ Rotating(q) => r = q
    /\ \A r \in Requests : Rotating(r) => master # 0
    /\ \A r \in Requests : pc[r] = "swap" => cand[r] = seal

\* A handler that is about to use a key, or a row, has one.
Holding ==
    /\ \A r \in Requests :
          pc[r] \in {"install", "store", "select", "commit"} \cup Carriers => cand[r] # 0
    /\ \A r \in Requests : pc[r] \in {"store", "kek"} => item[r] \in Rows

\* The inductive invariant.
MasterInv ==
    /\ TypeOK /\ NothingBeforeInit /\ OneRotation /\ Holding
    /\ UnopenableOnlyIfOvertaken /\ KeyringIsTheSeals /\ SharesAreAccountedFor

----------------------------------------------------------------------------
\* RewrapAllUnderNewMaster: the rows stay sequences of masters, the locked ones
\* are wrapped under the new master and the others are left alone.
LEMMA RewrappedRows ==
    ASSUME row \in [Rows -> Seq(Masters)], NEW m \in Masters
    PROVE  /\ Rewrapped(m) \in [Rows -> Seq(Masters)]
           /\ \A b \in Rows : /\ DOMAIN Rewrapped(m)[b] = DOMAIN row[b]
                              /\ b \in locked => \A i \in DOMAIN row[b] : Rewrapped(m)[b][i] = m
                              /\ b \notin locked => Rewrapped(m)[b] = row[b]
<1>1. \A b \in Rows : [i \in DOMAIN row[b] |-> m] \in Seq(Masters)
  <2> TAKE b \in Rows
  <2>1. row[b] \in Seq(Masters)
    OBVIOUS
  <2>2. Len(row[b]) \in Nat /\ DOMAIN row[b] = 1 .. Len(row[b])
    BY <2>1
  <2>3. [i \in 1 .. Len(row[b]) |-> m] \in Seq(Masters)
    BY <2>2
  <2> QED
    BY <2>2, <2>3
<1> QED
  BY <1>1 DEF Rewrapped

\* A handler that finishes is back in a typed local state.
LEMMA FinishTyped ==
    ASSUME TypeOK, NEW r \in Requests, Finish(r)
    PROVE  /\ pc' \in [Requests -> {"idle", "submit", "recheck", "threshold", "combine",
                            "install", "hmac", "store", "kek", "prove", "rotate", "select",
                            "commit", "failed"} \cup Carriers]
           /\ cand' \in [Requests -> 0 .. MaxMaster]
           /\ item' \in [Requests -> Rows \cup {NoRow}]
           /\ parts' \in [Requests -> SUBSET AllShares]
BY MasterKeyAssumption DEF TypeOK, Finish, Goto

\* What operators submit are shares.
LEMMA KnownTyped == ASSUME TypeOK PROVE KnownShares \subseteq AllShares
<1>1. held \subseteq 0 .. MaxMaster /\ 0 \in 0 .. MaxMaster /\ Mistyped \subseteq Shares
  BY MasterKeyAssumption DEF TypeOK, Masters
<1> QED
  BY <1>1 DEF KnownShares, AllShares

\* The masters that handlers carry are keys.
LEMMA CarriedTyped ==
    ASSUME TypeOK, Holding
    PROVE  \A r \in Requests :
              pc[r] \in {"install", "store", "select", "commit"} \cup Carriers => cand[r] \in Masters
BY MasterKeyAssumption DEF TypeOK, Holding, Masters

\* Every step preserves the types.
LEMMA TypeStep ==
    ASSUME TypeOK, OneRotation, Holding, Next
    PROVE  TypeOK'
<1> USE MasterKeyAssumption DEF TypeOK,
      database, ceremonies, handler, history, Goto, Finish, Drop
<1>1. ASSUME NEW r \in Requests, InitSeal(r) PROVE TypeOK'
  BY <1>1 DEF InitSeal, Carriers
<1>2. ASSUME NEW r \in Requests, BootstrapAdmin(r) PROVE TypeOK'
  <2>1. \E q \in {"deliver", "combine"} : pc' = [pc EXCEPT ![r] = q]
    BY <1>2 DEF BootstrapAdmin
  <2>2. cand' \in {cand, [cand EXCEPT ![r] = 0]}
    BY <1>2 DEF BootstrapAdmin
  <2>3. UNCHANGED <<type, seal, row, locked, master, minted, submitted, ceremony, collected,
                    item, parts, held, lost, late, stale>>
    BY <1>2 DEF BootstrapAdmin
  <2> QED
    BY <2>1, <2>2, <2>3 DEF Carriers
<1>3. ASSUME NEW r \in Requests, BootstrapFails(r) PROVE TypeOK'
  <2>1. cand[r] \in Masters
    BY <1>3, CarriedTyped DEF BootstrapFails, Carriers
  <2> QED
    BY <1>3, <2>1, FinishTyped DEF BootstrapFails
<1>4. ASSUME NEW r \in Requests, Deliver(r) PROVE TypeOK'
  <2>1. cand[r] \in Masters
    BY <1>4, CarriedTyped DEF Deliver, Carriers
  <2> QED
    BY <1>4, <2>1, FinishTyped DEF Deliver
<1>5. ASSUME NEW r \in Requests, ResponseLost(r) PROVE TypeOK'
  <2>1. cand[r] \in Masters
    BY <1>5, CarriedTyped DEF ResponseLost, Carriers
  <2> QED
    BY <1>5, <2>1, FinishTyped DEF ResponseLost
<1>6. ASSUME NEW r \in Requests, UnsealByKMS(r) PROVE TypeOK'
  BY <1>6 DEF UnsealByKMS
<1>7. ASSUME NEW r \in Requests, SubmitShare(r) PROVE TypeOK'
  BY <1>7 DEF SubmitShare
<1>8. ASSUME NEW r \in Requests, Recheck(r) PROVE TypeOK'
  BY <1>8 DEF Recheck
<1>9. ASSUME NEW r \in Requests, UnsealOK(r) PROVE TypeOK'
  BY <1>9 DEF UnsealOK
<1>10. ASSUME NEW r \in Requests, UnsealFails(r) PROVE TypeOK'
  BY <1>10 DEF UnsealFails
<1>11. ASSUME NEW r \in Requests, Install(r) PROVE TypeOK'
  <2>1. cand[r] \in Masters
    BY <1>11, CarriedTyped DEF Install
  <2>2. master' \in 0 .. MaxMaster /\ stale' \subseteq Masters
    BY <1>11, <2>1 DEF Install, Masters
  <2>3. pc' = [pc EXCEPT ![r] = "hmac"] /\ cand' = [cand EXCEPT ![r] = 0]
    BY <1>11 DEF Install
  <2>4. UNCHANGED <<type, seal, row, locked, minted, submitted, ceremony, collected,
                    item, parts, held, lost, late>>
    BY <1>11 DEF Install
  <2> QED
    BY <2>2, <2>3, <2>4
<1>12. ASSUME NEW r \in Requests, EnsureHMACKey(r) PROVE TypeOK'
  <2>1. CASE WrapRow(r, AuthKey) /\ UNCHANGED parts
    <3>1. AuthKey \in Rows
      BY DEF Rows
    <3> QED
      BY <1>12, <2>1, <3>1 DEF EnsureHMACKey, WrapRow
  <2>2. CASE Finish(r)
    BY <1>12, <2>2, FinishTyped DEF EnsureHMACKey
  <2> QED
    BY <1>12, <2>1, <2>2 DEF EnsureHMACKey
<1>13. ASSUME NEW r \in Requests, StoreRow(r) PROVE TypeOK'
  BY <1>13 DEF StoreRow, Holding, Masters, Rows
<1>14. ASSUME NEW r \in Requests, StoreFails(r) PROVE TypeOK'
  BY <1>14 DEF StoreFails
<1>15. ASSUME NEW r \in Requests, RotateKEK(r) PROVE TypeOK'
  BY <1>15 DEF RotateKEK, Holding, Masters, Rows
<1>16. ASSUME NEW r \in Requests, Prove(r) PROVE TypeOK'
  BY <1>16 DEF Prove
<1>17. ASSUME NEW r \in Requests, RotateByKMS(r) PROVE TypeOK'
  BY <1>17 DEF RotateByKMS
<1>18. ASSUME NEW r \in Requests, RotateMaster(r) PROVE TypeOK'
  <2>1. minted' \in 0 .. MaxMaster
    BY <1>18 DEF RotateMaster
  <2>2. cand' \in {cand, [cand EXCEPT ![r] = minted']}
    BY <1>18 DEF RotateMaster
  <2>3. \E q \in {"failed", "select"} : pc' = [pc EXCEPT ![r] = q]
    BY <1>18 DEF RotateMaster
  <2>4. UNCHANGED <<type, seal, row, locked, master, submitted, ceremony, collected,
                    item, parts, held, lost, late, stale>>
    BY <1>18 DEF RotateMaster
  <2> QED
    BY <2>1, <2>2, <2>3, <2>4
<1>19. ASSUME NEW r \in Requests, SelectRows(r) PROVE TypeOK'
  BY <1>19 DEF SelectRows
<1>20. ASSUME NEW r \in Requests, CommitOK(r) PROVE TypeOK'
  <2>1. cand[r] \in Masters
    BY <1>20, CarriedTyped DEF CommitOK
  <2>2. row' \in [Rows -> Seq(Masters)]
    BY <1>20, <2>1, RewrappedRows DEF CommitOK, CommitRotation
  <2>3. master \in Masters
    BY <1>20 DEF CommitOK, OneRotation, Rotating, Masters
  <2>4. seal' \in 0 .. MaxMaster /\ late' \subseteq Rows /\ locked' \subseteq Rows
    BY <1>20, <2>1 DEF CommitOK, CommitRotation, Masters
  <2>5. lost' \subseteq Masters /\ stale' \subseteq Masters
    BY <1>20, <2>1, <2>3 DEF CommitOK
  <2>6. pc' = [pc EXCEPT ![r] = "swap"] /\ type' = type
    BY <1>20 DEF CommitOK, CommitRotation
  <2>7. UNCHANGED <<master, minted, submitted, ceremony, collected, cand, item, parts, held>>
    BY <1>20 DEF CommitOK
  <2> QED
    BY <2>2, <2>4, <2>5, <2>6, <2>7 DEF Carriers
<1>21. ASSUME NEW r \in Requests, CommitUnanswered(r) PROVE TypeOK'
  <2>1. cand[r] \in Masters
    BY <1>21, CarriedTyped DEF CommitUnanswered
  <2>2. row' \in [Rows -> Seq(Masters)]
    BY <1>21, <2>1, RewrappedRows DEF CommitUnanswered, CommitRotation
  <2>3. master \in Masters
    BY <1>21 DEF CommitUnanswered, OneRotation, Rotating, Masters
  <2>4. seal' \in 0 .. MaxMaster /\ late' \subseteq Rows /\ locked' \subseteq Rows
    BY <1>21, <2>1 DEF CommitUnanswered, CommitRotation, Masters
  <2>5. lost' \subseteq Masters /\ stale' \subseteq Masters
    BY <1>21, <2>1, <2>3 DEF CommitUnanswered
  <2>6. pc' = [pc EXCEPT ![r] = "failed"] /\ type' = type
    BY <1>21 DEF CommitUnanswered, CommitRotation
  <2>7. UNCHANGED <<master, minted, submitted, ceremony, collected, cand, item, parts, held>>
    BY <1>21 DEF CommitUnanswered
  <2> QED
    BY <2>2, <2>4, <2>5, <2>6, <2>7 DEF Carriers
<1>22. ASSUME NEW r \in Requests, RotationFails(r) PROVE TypeOK'
  BY <1>22 DEF RotationFails
<1>23. ASSUME NEW r \in Requests, Swap(r) PROVE TypeOK'
  <2>1. \E q \in {"close", "idle"} : pc' = [pc EXCEPT ![r] = q]
    BY <1>23 DEF Swap
  <2>2. cand' \in {cand, [cand EXCEPT ![r] = 0]}
    BY <1>23 DEF Swap
  <2>3. master' = cand[r] /\ UNCHANGED <<type, seal, row, locked, minted, submitted, ceremony,
                    collected, item, parts, held, lost, late, stale>>
    BY <1>23 DEF Swap
  <2> QED
    BY <2>1, <2>2, <2>3 DEF Carriers
<1>24. ASSUME NEW r \in Requests, CloseRekey(r) PROVE TypeOK'
  <2>1. \E q \in {"deliver", "idle"} : pc' = [pc EXCEPT ![r] = q]
    BY <1>24 DEF CloseRekey
  <2>2. cand' \in {cand, [cand EXCEPT ![r] = 0]}
    BY <1>24 DEF CloseRekey
  <2>3. /\ ceremony' \in {"closed", "open"} /\ collected' \subseteq AllShares
        /\ UNCHANGED <<type, seal, row, locked, master, minted, submitted,
                       item, parts, held, lost, late, stale>>
    BY <1>24 DEF CloseRekey
  <2> QED
    BY <2>1, <2>2, <2>3 DEF Carriers
<1>25. ASSUME NEW r \in Requests, NEW s \in KnownShares, UnsealWithShare(r, s)
      PROVE  TypeOK'
  <2>1. s \in AllShares
    BY KnownTyped
  <2> QED
    BY <1>25, <2>1 DEF UnsealWithShare
<1>26. ASSUME NEW r \in Requests, NEW b \in Projects \cup Settings, BeginPut(r, b)
      PROVE  TypeOK'
  BY <1>26 DEF BeginPut, WrapRow, Rows
<1>27. ASSUME NEW r \in Requests, NEW p \in Projects, LockProject(r, p)
      PROVE  TypeOK'
  BY <1>27 DEF LockProject, Rows
<1>28. ASSUME NEW r \in Requests, NEW s \in KnownShares, RekeySubmit(r, s)
      PROVE  TypeOK'
  <2>1. s \in AllShares
    BY KnownTyped
  <2>2. collected' \subseteq AllShares
    BY <1>28, <2>1 DEF RekeySubmit
  <2>3. /\ UNCHANGED <<type, seal, row, locked, master, minted, submitted, held, lost, late, stale>>
        /\ UNCHANGED <<cand, item>>
    BY <1>28 DEF RekeySubmit
  <2>4. /\ ceremony' \in {"closed", "open"}
        /\ pc' \in {pc, [pc EXCEPT ![r] = "prove"]}
        /\ parts' \in {parts, [parts EXCEPT ![r] = collected']}
    BY <1>28 DEF RekeySubmit
  <2> QED
    BY <2>2, <2>3, <2>4
<1>29. CASE UnsealReset
  BY <1>29 DEF UnsealReset
<1>30. CASE Seal
  BY <1>30 DEF Seal
<1>31. CASE RekeyInit
  BY <1>31 DEF RekeyInit
<1>32. CASE RekeyCancel
  BY <1>32 DEF RekeyCancel
<1>33. CASE Crash
  <2>1. \A q \in Requests : pc[q] \in Carriers => cand[q] \in Masters
    BY CarriedTyped
  <2>2. lost' \subseteq Masters
    BY <1>33, <2>1 DEF Crash
  <2> QED
    BY <1>33, <2>2 DEF Crash
<1> QED
  BY <1>1, <1>2, <1>3, <1>4, <1>5, <1>6, <1>7, <1>8, <1>9, <1>10, <1>11,
     <1>12, <1>13, <1>14, <1>15, <1>16, <1>17, <1>18, <1>19, <1>20, <1>21, <1>22,
     <1>23, <1>24, <1>25, <1>26, <1>27, <1>28, <1>29, <1>30, <1>31, <1>32, <1>33
     DEF Next, InitStep, UnsealStep, WriteStep, RotateStep

\* Every step leaves an uninitialized instance empty.
LEMMA BeforeInitStep ==
    ASSUME MasterInv, Next
    PROVE  NothingBeforeInit'
<1> USE MasterKeyAssumption DEF MasterInv, TypeOK, NothingBeforeInit, Holding, Carriers, Masters, Rows,
      database, ceremonies, handler, history, Goto, Finish, Drop
<1>1. ASSUME NEW r \in Requests, InitSeal(r) PROVE NothingBeforeInit'
  BY <1>1 DEF InitSeal
<1>2. ASSUME NEW r \in Requests, BootstrapAdmin(r) PROVE NothingBeforeInit'
  BY <1>2 DEF BootstrapAdmin
<1>3. ASSUME NEW r \in Requests, BootstrapFails(r) PROVE NothingBeforeInit'
  BY <1>3 DEF BootstrapFails
<1>4. ASSUME NEW r \in Requests, Deliver(r) PROVE NothingBeforeInit'
  BY <1>4 DEF Deliver
<1>5. ASSUME NEW r \in Requests, ResponseLost(r) PROVE NothingBeforeInit'
  BY <1>5 DEF ResponseLost
<1>6. ASSUME NEW r \in Requests, UnsealByKMS(r) PROVE NothingBeforeInit'
  BY <1>6 DEF UnsealByKMS
<1>7. ASSUME NEW r \in Requests, SubmitShare(r) PROVE NothingBeforeInit'
  BY <1>7 DEF SubmitShare
<1>8. ASSUME NEW r \in Requests, Recheck(r) PROVE NothingBeforeInit'
  BY <1>8 DEF Recheck
<1>9. ASSUME NEW r \in Requests, UnsealOK(r) PROVE NothingBeforeInit'
  BY <1>9 DEF UnsealOK
<1>10. ASSUME NEW r \in Requests, UnsealFails(r) PROVE NothingBeforeInit'
  BY <1>10 DEF UnsealFails
<1>11. ASSUME NEW r \in Requests, Install(r) PROVE NothingBeforeInit'
  BY <1>11 DEF Install
<1>12. ASSUME NEW r \in Requests, EnsureHMACKey(r) PROVE NothingBeforeInit'
  BY <1>12 DEF EnsureHMACKey, WrapRow
<1>13. ASSUME NEW r \in Requests, StoreRow(r) PROVE NothingBeforeInit'
  BY <1>13 DEF StoreRow
<1>14. ASSUME NEW r \in Requests, StoreFails(r) PROVE NothingBeforeInit'
  BY <1>14 DEF StoreFails
<1>15. ASSUME NEW r \in Requests, RotateKEK(r) PROVE NothingBeforeInit'
  BY <1>15 DEF RotateKEK
<1>16. ASSUME NEW r \in Requests, Prove(r) PROVE NothingBeforeInit'
  BY <1>16 DEF Prove
<1>17. ASSUME NEW r \in Requests, RotateByKMS(r) PROVE NothingBeforeInit'
  BY <1>17 DEF RotateByKMS
<1>18. ASSUME NEW r \in Requests, RotateMaster(r) PROVE NothingBeforeInit'
  BY <1>18 DEF RotateMaster
<1>19. ASSUME NEW r \in Requests, SelectRows(r) PROVE NothingBeforeInit'
  BY <1>19 DEF SelectRows
<1>20. ASSUME NEW r \in Requests, CommitOK(r) PROVE NothingBeforeInit'
  BY <1>20 DEF CommitOK, CommitRotation
<1>21. ASSUME NEW r \in Requests, CommitUnanswered(r) PROVE NothingBeforeInit'
  BY <1>21 DEF CommitUnanswered, CommitRotation
<1>22. ASSUME NEW r \in Requests, RotationFails(r) PROVE NothingBeforeInit'
  BY <1>22 DEF RotationFails
<1>23. ASSUME NEW r \in Requests, Swap(r) PROVE NothingBeforeInit'
  BY <1>23 DEF Swap
<1>24. ASSUME NEW r \in Requests, CloseRekey(r) PROVE NothingBeforeInit'
  BY <1>24 DEF CloseRekey
<1>25. ASSUME NEW r \in Requests, NEW s \in KnownShares, UnsealWithShare(r, s)
      PROVE  NothingBeforeInit'
  BY <1>25 DEF UnsealWithShare
<1>26. ASSUME NEW r \in Requests, NEW b \in Projects \cup Settings, BeginPut(r, b)
      PROVE  NothingBeforeInit'
  BY <1>26 DEF BeginPut, WrapRow
<1>27. ASSUME NEW r \in Requests, NEW p \in Projects, LockProject(r, p)
      PROVE  NothingBeforeInit'
  BY <1>27 DEF LockProject
<1>28. ASSUME NEW r \in Requests, NEW s \in KnownShares, RekeySubmit(r, s)
      PROVE  NothingBeforeInit'
  BY <1>28 DEF RekeySubmit
<1>29. CASE UnsealReset
  BY <1>29 DEF UnsealReset
<1>30. CASE Seal
  BY <1>30 DEF Seal
<1>31. CASE RekeyInit
  BY <1>31 DEF RekeyInit
<1>32. CASE RekeyCancel
  BY <1>32 DEF RekeyCancel
<1>33. CASE Crash
  BY <1>33 DEF Crash
<1> QED
  BY <1>1, <1>2, <1>3, <1>4, <1>5, <1>6, <1>7, <1>8, <1>9, <1>10, <1>11,
     <1>12, <1>13, <1>14, <1>15, <1>16, <1>17, <1>18, <1>19, <1>20, <1>21, <1>22,
     <1>23, <1>24, <1>25, <1>26, <1>27, <1>28, <1>29, <1>30, <1>31, <1>32, <1>33
     DEF Next, InitStep, UnsealStep, WriteStep, RotateStep

\* Every step preserves the exclusion of rotations.
LEMMA RotationStep ==
    ASSUME MasterInv, Next
    PROVE  OneRotation'
<1> USE MasterKeyAssumption DEF MasterInv, TypeOK, NothingBeforeInit, OneRotation,
      Rotating, KeyringFree, Carriers, Masters,
      database, ceremonies, handler, history, Goto, Finish, Drop
<1>1. ASSUME NEW r \in Requests, InitSeal(r) PROVE OneRotation'
  BY <1>1 DEF InitSeal
<1>2. ASSUME NEW r \in Requests, BootstrapAdmin(r) PROVE OneRotation'
  BY <1>2 DEF BootstrapAdmin
<1>3. ASSUME NEW r \in Requests, BootstrapFails(r) PROVE OneRotation'
  BY <1>3 DEF BootstrapFails
<1>4. ASSUME NEW r \in Requests, Deliver(r) PROVE OneRotation'
  BY <1>4 DEF Deliver
<1>5. ASSUME NEW r \in Requests, ResponseLost(r) PROVE OneRotation'
  BY <1>5 DEF ResponseLost
<1>6. ASSUME NEW r \in Requests, UnsealByKMS(r) PROVE OneRotation'
  BY <1>6 DEF UnsealByKMS
<1>7. ASSUME NEW r \in Requests, SubmitShare(r) PROVE OneRotation'
  BY <1>7 DEF SubmitShare
<1>8. ASSUME NEW r \in Requests, Recheck(r) PROVE OneRotation'
  BY <1>8 DEF Recheck
<1>9. ASSUME NEW r \in Requests, UnsealOK(r) PROVE OneRotation'
  BY <1>9 DEF UnsealOK
<1>10. ASSUME NEW r \in Requests, UnsealFails(r) PROVE OneRotation'
  BY <1>10 DEF UnsealFails
<1>11. ASSUME NEW r \in Requests, Install(r) PROVE OneRotation'
  BY <1>11 DEF Install
<1>12. ASSUME NEW r \in Requests, EnsureHMACKey(r) PROVE OneRotation'
  BY <1>12 DEF EnsureHMACKey, WrapRow
<1>13. ASSUME NEW r \in Requests, StoreRow(r) PROVE OneRotation'
  BY <1>13 DEF StoreRow
<1>14. ASSUME NEW r \in Requests, StoreFails(r) PROVE OneRotation'
  BY <1>14 DEF StoreFails
<1>15. ASSUME NEW r \in Requests, RotateKEK(r) PROVE OneRotation'
  BY <1>15 DEF RotateKEK
<1>16. ASSUME NEW r \in Requests, Prove(r) PROVE OneRotation'
  BY <1>16 DEF Prove
<1>17. ASSUME NEW r \in Requests, RotateByKMS(r) PROVE OneRotation'
  BY <1>17 DEF RotateByKMS
<1>18. ASSUME NEW r \in Requests, RotateMaster(r) PROVE OneRotation'
  BY <1>18 DEF RotateMaster
<1>19. ASSUME NEW r \in Requests, SelectRows(r) PROVE OneRotation'
  BY <1>19 DEF SelectRows
<1>20. ASSUME NEW r \in Requests, CommitOK(r) PROVE OneRotation'
  BY <1>20 DEF CommitOK, CommitRotation
<1>21. ASSUME NEW r \in Requests, CommitUnanswered(r) PROVE OneRotation'
  BY <1>21 DEF CommitUnanswered, CommitRotation
<1>22. ASSUME NEW r \in Requests, RotationFails(r) PROVE OneRotation'
  BY <1>22 DEF RotationFails
<1>23. ASSUME NEW r \in Requests, Swap(r) PROVE OneRotation'
  BY <1>23 DEF Swap
<1>24. ASSUME NEW r \in Requests, CloseRekey(r) PROVE OneRotation'
  BY <1>24 DEF CloseRekey
<1>25. ASSUME NEW r \in Requests, NEW s \in KnownShares, UnsealWithShare(r, s)
      PROVE  OneRotation'
  BY <1>25 DEF UnsealWithShare
<1>26. ASSUME NEW r \in Requests, NEW b \in Projects \cup Settings, BeginPut(r, b)
      PROVE  OneRotation'
  BY <1>26 DEF BeginPut, WrapRow
<1>27. ASSUME NEW r \in Requests, NEW p \in Projects, LockProject(r, p)
      PROVE  OneRotation'
  BY <1>27 DEF LockProject
<1>28. ASSUME NEW r \in Requests, NEW s \in KnownShares, RekeySubmit(r, s)
      PROVE  OneRotation'
  BY <1>28 DEF RekeySubmit
<1>29. CASE UnsealReset
  BY <1>29 DEF UnsealReset
<1>30. CASE Seal
  BY <1>30 DEF Seal
<1>31. CASE RekeyInit
  BY <1>31 DEF RekeyInit
<1>32. CASE RekeyCancel
  BY <1>32 DEF RekeyCancel
<1>33. CASE Crash
  BY <1>33 DEF Crash
<1> QED
  BY <1>1, <1>2, <1>3, <1>4, <1>5, <1>6, <1>7, <1>8, <1>9, <1>10, <1>11,
     <1>12, <1>13, <1>14, <1>15, <1>16, <1>17, <1>18, <1>19, <1>20, <1>21, <1>22,
     <1>23, <1>24, <1>25, <1>26, <1>27, <1>28, <1>29, <1>30, <1>31, <1>32, <1>33
     DEF Next, InitStep, UnsealStep, WriteStep, RotateStep

\* Every step leaves each handler with what it will use.
LEMMA HoldingStep ==
    ASSUME MasterInv, Next
    PROVE  Holding'
<1> USE MasterKeyAssumption DEF MasterInv, TypeOK, NothingBeforeInit, OneRotation, Holding,
      Rotating, KeyringFree, Carriers, Masters, Rows,
      database, ceremonies, handler, history, Goto, Finish, Drop
<1>1. ASSUME NEW r \in Requests, InitSeal(r) PROVE Holding'
  BY <1>1 DEF InitSeal
<1>2. ASSUME NEW r \in Requests, BootstrapAdmin(r) PROVE Holding'
  BY <1>2 DEF BootstrapAdmin
<1>3. ASSUME NEW r \in Requests, BootstrapFails(r) PROVE Holding'
  BY <1>3 DEF BootstrapFails
<1>4. ASSUME NEW r \in Requests, Deliver(r) PROVE Holding'
  BY <1>4 DEF Deliver
<1>5. ASSUME NEW r \in Requests, ResponseLost(r) PROVE Holding'
  BY <1>5 DEF ResponseLost
<1>6. ASSUME NEW r \in Requests, UnsealByKMS(r) PROVE Holding'
  BY <1>6 DEF UnsealByKMS
<1>7. ASSUME NEW r \in Requests, SubmitShare(r) PROVE Holding'
  BY <1>7 DEF SubmitShare
<1>8. ASSUME NEW r \in Requests, Recheck(r) PROVE Holding'
  BY <1>8 DEF Recheck
<1>9. ASSUME NEW r \in Requests, UnsealOK(r) PROVE Holding'
  BY <1>9 DEF UnsealOK
<1>10. ASSUME NEW r \in Requests, UnsealFails(r) PROVE Holding'
  BY <1>10 DEF UnsealFails
<1>11. ASSUME NEW r \in Requests, Install(r) PROVE Holding'
  BY <1>11 DEF Install
<1>12. ASSUME NEW r \in Requests, EnsureHMACKey(r) PROVE Holding'
  <2>1. CASE row[AuthKey] = << >> /\ master # 0 /\ WrapRow(r, AuthKey)
    BY <1>12, <2>1 DEF EnsureHMACKey, WrapRow
  <2>2. CASE Finish(r)
    BY <1>12, <2>2 DEF EnsureHMACKey
  <2> QED
    BY <1>12, <2>1, <2>2 DEF EnsureHMACKey
<1>13. ASSUME NEW r \in Requests, StoreRow(r) PROVE Holding'
  BY <1>13 DEF StoreRow
<1>14. ASSUME NEW r \in Requests, StoreFails(r) PROVE Holding'
  BY <1>14 DEF StoreFails
<1>15. ASSUME NEW r \in Requests, RotateKEK(r) PROVE Holding'
  BY <1>15 DEF RotateKEK
<1>16. ASSUME NEW r \in Requests, Prove(r) PROVE Holding'
  BY <1>16 DEF Prove
<1>17. ASSUME NEW r \in Requests, RotateByKMS(r) PROVE Holding'
  BY <1>17 DEF RotateByKMS
<1>18. ASSUME NEW r \in Requests, RotateMaster(r) PROVE Holding'
  BY <1>18 DEF RotateMaster
<1>19. ASSUME NEW r \in Requests, SelectRows(r) PROVE Holding'
  BY <1>19 DEF SelectRows
<1>20. ASSUME NEW r \in Requests, CommitOK(r) PROVE Holding'
  BY <1>20 DEF CommitOK, CommitRotation
<1>21. ASSUME NEW r \in Requests, CommitUnanswered(r) PROVE Holding'
  BY <1>21 DEF CommitUnanswered, CommitRotation
<1>22. ASSUME NEW r \in Requests, RotationFails(r) PROVE Holding'
  BY <1>22 DEF RotationFails
<1>23. ASSUME NEW r \in Requests, Swap(r) PROVE Holding'
  BY <1>23 DEF Swap
<1>24. ASSUME NEW r \in Requests, CloseRekey(r) PROVE Holding'
  BY <1>24 DEF CloseRekey
<1>25. ASSUME NEW r \in Requests, NEW s \in KnownShares, UnsealWithShare(r, s)
      PROVE  Holding'
  BY <1>25 DEF UnsealWithShare
<1>26. ASSUME NEW r \in Requests, NEW b \in Projects \cup Settings, BeginPut(r, b)
      PROVE  Holding'
  BY <1>26 DEF BeginPut, WrapRow
<1>27. ASSUME NEW r \in Requests, NEW p \in Projects, LockProject(r, p)
      PROVE  Holding'
  BY <1>27 DEF LockProject
<1>28. ASSUME NEW r \in Requests, NEW s \in KnownShares, RekeySubmit(r, s)
      PROVE  Holding'
  BY <1>28 DEF RekeySubmit
<1>29. CASE UnsealReset
  BY <1>29 DEF UnsealReset
<1>30. CASE Seal
  BY <1>30 DEF Seal
<1>31. CASE RekeyInit
  BY <1>31 DEF RekeyInit
<1>32. CASE RekeyCancel
  BY <1>32 DEF RekeyCancel
<1>33. CASE Crash
  BY <1>33 DEF Crash
<1> QED
  BY <1>1, <1>2, <1>3, <1>4, <1>5, <1>6, <1>7, <1>8, <1>9, <1>10, <1>11,
     <1>12, <1>13, <1>14, <1>15, <1>16, <1>17, <1>18, <1>19, <1>20, <1>21, <1>22,
     <1>23, <1>24, <1>25, <1>26, <1>27, <1>28, <1>29, <1>30, <1>31, <1>32, <1>33
     DEF Next, InitStep, UnsealStep, WriteStep, RotateStep

\* Every step leaves behind only the rows of writers that were overtaken: the
\* commit of a rotation is the step that could strand one.
LEMMA OpenableStep ==
    ASSUME MasterInv, Next
    PROVE  UnopenableOnlyIfOvertaken'
<1> USE MasterKeyAssumption DEF MasterInv, TypeOK, NothingBeforeInit, OneRotation, Holding,
      UnopenableOnlyIfOvertaken, KeyringIsTheSeals, Rotating, KeyringFree, Carriers,
      database, ceremonies, handler, history, Goto, Finish, Drop
<1>1. ASSUME NEW r \in Requests, InitSeal(r) PROVE UnopenableOnlyIfOvertaken'
  BY <1>1 DEF InitSeal
<1>2. ASSUME NEW r \in Requests, BootstrapAdmin(r) PROVE UnopenableOnlyIfOvertaken'
  BY <1>2 DEF BootstrapAdmin
<1>3. ASSUME NEW r \in Requests, BootstrapFails(r) PROVE UnopenableOnlyIfOvertaken'
  BY <1>3 DEF BootstrapFails
<1>4. ASSUME NEW r \in Requests, Deliver(r) PROVE UnopenableOnlyIfOvertaken'
  BY <1>4 DEF Deliver
<1>5. ASSUME NEW r \in Requests, ResponseLost(r) PROVE UnopenableOnlyIfOvertaken'
  BY <1>5 DEF ResponseLost
<1>6. ASSUME NEW r \in Requests, UnsealByKMS(r) PROVE UnopenableOnlyIfOvertaken'
  BY <1>6 DEF UnsealByKMS
<1>7. ASSUME NEW r \in Requests, SubmitShare(r) PROVE UnopenableOnlyIfOvertaken'
  BY <1>7 DEF SubmitShare
<1>8. ASSUME NEW r \in Requests, Recheck(r) PROVE UnopenableOnlyIfOvertaken'
  BY <1>8 DEF Recheck
<1>9. ASSUME NEW r \in Requests, UnsealOK(r) PROVE UnopenableOnlyIfOvertaken'
  BY <1>9 DEF UnsealOK
<1>10. ASSUME NEW r \in Requests, UnsealFails(r) PROVE UnopenableOnlyIfOvertaken'
  BY <1>10 DEF UnsealFails
<1>11. ASSUME NEW r \in Requests, Install(r) PROVE UnopenableOnlyIfOvertaken'
  BY <1>11 DEF Install
<1>12. ASSUME NEW r \in Requests, EnsureHMACKey(r) PROVE UnopenableOnlyIfOvertaken'
  BY <1>12 DEF EnsureHMACKey, WrapRow
<1>13. ASSUME NEW r \in Requests, StoreRow(r) PROVE UnopenableOnlyIfOvertaken'
  BY <1>13 DEF StoreRow
<1>14. ASSUME NEW r \in Requests, StoreFails(r) PROVE UnopenableOnlyIfOvertaken'
  BY <1>14 DEF StoreFails
<1>15. ASSUME NEW r \in Requests, RotateKEK(r) PROVE UnopenableOnlyIfOvertaken'
  BY <1>15 DEF RotateKEK
<1>16. ASSUME NEW r \in Requests, Prove(r) PROVE UnopenableOnlyIfOvertaken'
  BY <1>16 DEF Prove
<1>17. ASSUME NEW r \in Requests, RotateByKMS(r) PROVE UnopenableOnlyIfOvertaken'
  BY <1>17 DEF RotateByKMS
<1>18. ASSUME NEW r \in Requests, RotateMaster(r) PROVE UnopenableOnlyIfOvertaken'
  BY <1>18 DEF RotateMaster
<1>19. ASSUME NEW r \in Requests, SelectRows(r) PROVE UnopenableOnlyIfOvertaken'
  BY <1>19 DEF SelectRows
<1>20. ASSUME NEW r \in Requests, CommitOK(r) PROVE UnopenableOnlyIfOvertaken'
  <2>1. cand[r] \in Masters
    BY <1>20, CarriedTyped DEF CommitOK
  <2>2. seal' = cand[r] /\ row' = Rewrapped(cand[r])
        /\ late' = late \cup {b \in Rows : row[b] # << >> /\ b \notin locked}
    BY <1>20 DEF CommitOK, CommitRotation
  <2>3. ASSUME NEW b \in Rows, NEW i \in DOMAIN row'[b], row'[b][i] # seal'
        PROVE  b \in late'
    <3>1. b \notin locked /\ row'[b] = row[b]
      BY <2>1, <2>2, <2>3, RewrappedRows
    <3>2. row[b] # << >>
      BY <2>3, <3>1
    <3> QED
      BY <2>2, <3>1, <3>2
  <2> QED
    BY <2>3
<1>21. ASSUME NEW r \in Requests, CommitUnanswered(r) PROVE UnopenableOnlyIfOvertaken'
  <2>1. cand[r] \in Masters
    BY <1>21, CarriedTyped DEF CommitUnanswered
  <2>2. seal' = cand[r] /\ row' = Rewrapped(cand[r])
        /\ late' = late \cup {b \in Rows : row[b] # << >> /\ b \notin locked}
    BY <1>21 DEF CommitUnanswered, CommitRotation
  <2>3. ASSUME NEW b \in Rows, NEW i \in DOMAIN row'[b], row'[b][i] # seal'
        PROVE  b \in late'
    <3>1. b \notin locked /\ row'[b] = row[b]
      BY <2>1, <2>2, <2>3, RewrappedRows
    <3>2. row[b] # << >>
      BY <2>3, <3>1
    <3> QED
      BY <2>2, <3>1, <3>2
  <2> QED
    BY <2>3
<1>22. ASSUME NEW r \in Requests, RotationFails(r) PROVE UnopenableOnlyIfOvertaken'
  BY <1>22 DEF RotationFails
<1>23. ASSUME NEW r \in Requests, Swap(r) PROVE UnopenableOnlyIfOvertaken'
  BY <1>23 DEF Swap
<1>24. ASSUME NEW r \in Requests, CloseRekey(r) PROVE UnopenableOnlyIfOvertaken'
  BY <1>24 DEF CloseRekey
<1>25. ASSUME NEW r \in Requests, NEW s \in KnownShares, UnsealWithShare(r, s)
      PROVE  UnopenableOnlyIfOvertaken'
  BY <1>25 DEF UnsealWithShare
<1>26. ASSUME NEW r \in Requests, NEW b \in Projects \cup Settings, BeginPut(r, b)
      PROVE  UnopenableOnlyIfOvertaken'
  BY <1>26 DEF BeginPut, WrapRow
<1>27. ASSUME NEW r \in Requests, NEW p \in Projects, LockProject(r, p)
      PROVE  UnopenableOnlyIfOvertaken'
  BY <1>27 DEF LockProject
<1>28. ASSUME NEW r \in Requests, NEW s \in KnownShares, RekeySubmit(r, s)
      PROVE  UnopenableOnlyIfOvertaken'
  BY <1>28 DEF RekeySubmit
<1>29. CASE UnsealReset
  BY <1>29 DEF UnsealReset
<1>30. CASE Seal
  BY <1>30 DEF Seal
<1>31. CASE RekeyInit
  BY <1>31 DEF RekeyInit
<1>32. CASE RekeyCancel
  BY <1>32 DEF RekeyCancel
<1>33. CASE Crash
  BY <1>33 DEF Crash
<1> QED
  BY <1>1, <1>2, <1>3, <1>4, <1>5, <1>6, <1>7, <1>8, <1>9, <1>10, <1>11,
     <1>12, <1>13, <1>14, <1>15, <1>16, <1>17, <1>18, <1>19, <1>20, <1>21, <1>22,
     <1>23, <1>24, <1>25, <1>26, <1>27, <1>28, <1>29, <1>30, <1>31, <1>32, <1>33
     DEF Next, InitStep, UnsealStep, WriteStep, RotateStep

\* Every step keeps the keyring in agreement with the seal.
LEMMA KeyringStep ==
    ASSUME MasterInv, Next
    PROVE  KeyringIsTheSeals'
<1> USE MasterKeyAssumption DEF MasterInv, TypeOK, NothingBeforeInit, OneRotation, Holding,
      KeyringIsTheSeals, Rotating, KeyringFree, Carriers,
      database, ceremonies, handler, history, Goto, Finish, Drop
<1>1. ASSUME NEW r \in Requests, InitSeal(r) PROVE KeyringIsTheSeals'
  BY <1>1 DEF InitSeal
<1>2. ASSUME NEW r \in Requests, BootstrapAdmin(r) PROVE KeyringIsTheSeals'
  BY <1>2 DEF BootstrapAdmin
<1>3. ASSUME NEW r \in Requests, BootstrapFails(r) PROVE KeyringIsTheSeals'
  BY <1>3 DEF BootstrapFails
<1>4. ASSUME NEW r \in Requests, Deliver(r) PROVE KeyringIsTheSeals'
  BY <1>4 DEF Deliver
<1>5. ASSUME NEW r \in Requests, ResponseLost(r) PROVE KeyringIsTheSeals'
  BY <1>5 DEF ResponseLost
<1>6. ASSUME NEW r \in Requests, UnsealByKMS(r) PROVE KeyringIsTheSeals'
  BY <1>6 DEF UnsealByKMS
<1>7. ASSUME NEW r \in Requests, SubmitShare(r) PROVE KeyringIsTheSeals'
  BY <1>7 DEF SubmitShare
<1>8. ASSUME NEW r \in Requests, Recheck(r) PROVE KeyringIsTheSeals'
  BY <1>8 DEF Recheck
<1>9. ASSUME NEW r \in Requests, UnsealOK(r) PROVE KeyringIsTheSeals'
  BY <1>9 DEF UnsealOK
<1>10. ASSUME NEW r \in Requests, UnsealFails(r) PROVE KeyringIsTheSeals'
  BY <1>10 DEF UnsealFails
<1>11. ASSUME NEW r \in Requests, Install(r) PROVE KeyringIsTheSeals'
  BY <1>11 DEF Install
<1>12. ASSUME NEW r \in Requests, EnsureHMACKey(r) PROVE KeyringIsTheSeals'
  BY <1>12 DEF EnsureHMACKey, WrapRow
<1>13. ASSUME NEW r \in Requests, StoreRow(r) PROVE KeyringIsTheSeals'
  BY <1>13 DEF StoreRow
<1>14. ASSUME NEW r \in Requests, StoreFails(r) PROVE KeyringIsTheSeals'
  BY <1>14 DEF StoreFails
<1>15. ASSUME NEW r \in Requests, RotateKEK(r) PROVE KeyringIsTheSeals'
  BY <1>15 DEF RotateKEK
<1>16. ASSUME NEW r \in Requests, Prove(r) PROVE KeyringIsTheSeals'
  BY <1>16 DEF Prove
<1>17. ASSUME NEW r \in Requests, RotateByKMS(r) PROVE KeyringIsTheSeals'
  BY <1>17 DEF RotateByKMS
<1>18. ASSUME NEW r \in Requests, RotateMaster(r) PROVE KeyringIsTheSeals'
  BY <1>18 DEF RotateMaster
<1>19. ASSUME NEW r \in Requests, SelectRows(r) PROVE KeyringIsTheSeals'
  BY <1>19 DEF SelectRows
<1>20. ASSUME NEW r \in Requests, CommitOK(r) PROVE KeyringIsTheSeals'
  BY <1>20 DEF CommitOK, CommitRotation
<1>21. ASSUME NEW r \in Requests, CommitUnanswered(r) PROVE KeyringIsTheSeals'
  BY <1>21 DEF CommitUnanswered, CommitRotation
<1>22. ASSUME NEW r \in Requests, RotationFails(r) PROVE KeyringIsTheSeals'
  BY <1>22 DEF RotationFails
<1>23. ASSUME NEW r \in Requests, Swap(r) PROVE KeyringIsTheSeals'
  BY <1>23 DEF Swap
<1>24. ASSUME NEW r \in Requests, CloseRekey(r) PROVE KeyringIsTheSeals'
  BY <1>24 DEF CloseRekey
<1>25. ASSUME NEW r \in Requests, NEW s \in KnownShares, UnsealWithShare(r, s)
      PROVE  KeyringIsTheSeals'
  BY <1>25 DEF UnsealWithShare
<1>26. ASSUME NEW r \in Requests, NEW b \in Projects \cup Settings, BeginPut(r, b)
      PROVE  KeyringIsTheSeals'
  BY <1>26 DEF BeginPut, WrapRow
<1>27. ASSUME NEW r \in Requests, NEW p \in Projects, LockProject(r, p)
      PROVE  KeyringIsTheSeals'
  BY <1>27 DEF LockProject
<1>28. ASSUME NEW r \in Requests, NEW s \in KnownShares, RekeySubmit(r, s)
      PROVE  KeyringIsTheSeals'
  BY <1>28 DEF RekeySubmit
<1>29. CASE UnsealReset
  BY <1>29 DEF UnsealReset
<1>30. CASE Seal
  BY <1>30 DEF Seal
<1>31. CASE RekeyInit
  BY <1>31 DEF RekeyInit
<1>32. CASE RekeyCancel
  BY <1>32 DEF RekeyCancel
<1>33. CASE Crash
  BY <1>33 DEF Crash
<1> QED
  BY <1>1, <1>2, <1>3, <1>4, <1>5, <1>6, <1>7, <1>8, <1>9, <1>10, <1>11,
     <1>12, <1>13, <1>14, <1>15, <1>16, <1>17, <1>18, <1>19, <1>20, <1>21, <1>22,
     <1>23, <1>24, <1>25, <1>26, <1>27, <1>28, <1>29, <1>30, <1>31, <1>32, <1>33
     DEF Next, InitStep, UnsealStep, WriteStep, RotateStep

\* Every step keeps the seal's shares accounted for.
LEMMA SharesStep ==
    ASSUME MasterInv, Next
    PROVE  SharesAreAccountedFor'
<1> USE MasterKeyAssumption DEF MasterInv, TypeOK, NothingBeforeInit, Holding,
      SharesAreAccountedFor, Carriers,
      database, ceremonies, handler, history, Goto, Finish, Drop
<1>1. ASSUME NEW r \in Requests, InitSeal(r) PROVE SharesAreAccountedFor'
  BY <1>1 DEF InitSeal
<1>2. ASSUME NEW r \in Requests, BootstrapAdmin(r) PROVE SharesAreAccountedFor'
  BY <1>2 DEF BootstrapAdmin
<1>3. ASSUME NEW r \in Requests, BootstrapFails(r) PROVE SharesAreAccountedFor'
  BY <1>3 DEF BootstrapFails
<1>4. ASSUME NEW r \in Requests, Deliver(r) PROVE SharesAreAccountedFor'
  BY <1>4 DEF Deliver
<1>5. ASSUME NEW r \in Requests, ResponseLost(r) PROVE SharesAreAccountedFor'
  BY <1>5 DEF ResponseLost
<1>6. ASSUME NEW r \in Requests, UnsealByKMS(r) PROVE SharesAreAccountedFor'
  BY <1>6 DEF UnsealByKMS
<1>7. ASSUME NEW r \in Requests, SubmitShare(r) PROVE SharesAreAccountedFor'
  BY <1>7 DEF SubmitShare
<1>8. ASSUME NEW r \in Requests, Recheck(r) PROVE SharesAreAccountedFor'
  BY <1>8 DEF Recheck
<1>9. ASSUME NEW r \in Requests, UnsealOK(r) PROVE SharesAreAccountedFor'
  BY <1>9 DEF UnsealOK
<1>10. ASSUME NEW r \in Requests, UnsealFails(r) PROVE SharesAreAccountedFor'
  BY <1>10 DEF UnsealFails
<1>11. ASSUME NEW r \in Requests, Install(r) PROVE SharesAreAccountedFor'
  BY <1>11 DEF Install
<1>12. ASSUME NEW r \in Requests, EnsureHMACKey(r) PROVE SharesAreAccountedFor'
  BY <1>12 DEF EnsureHMACKey, WrapRow
<1>13. ASSUME NEW r \in Requests, StoreRow(r) PROVE SharesAreAccountedFor'
  BY <1>13 DEF StoreRow
<1>14. ASSUME NEW r \in Requests, StoreFails(r) PROVE SharesAreAccountedFor'
  BY <1>14 DEF StoreFails
<1>15. ASSUME NEW r \in Requests, RotateKEK(r) PROVE SharesAreAccountedFor'
  BY <1>15 DEF RotateKEK
<1>16. ASSUME NEW r \in Requests, Prove(r) PROVE SharesAreAccountedFor'
  BY <1>16 DEF Prove
<1>17. ASSUME NEW r \in Requests, RotateByKMS(r) PROVE SharesAreAccountedFor'
  BY <1>17 DEF RotateByKMS
<1>18. ASSUME NEW r \in Requests, RotateMaster(r) PROVE SharesAreAccountedFor'
  BY <1>18 DEF RotateMaster
<1>19. ASSUME NEW r \in Requests, SelectRows(r) PROVE SharesAreAccountedFor'
  BY <1>19 DEF SelectRows
<1>20. ASSUME NEW r \in Requests, CommitOK(r) PROVE SharesAreAccountedFor'
  BY <1>20 DEF CommitOK, CommitRotation
<1>21. ASSUME NEW r \in Requests, CommitUnanswered(r) PROVE SharesAreAccountedFor'
  BY <1>21 DEF CommitUnanswered, CommitRotation
<1>22. ASSUME NEW r \in Requests, RotationFails(r) PROVE SharesAreAccountedFor'
  BY <1>22 DEF RotationFails
<1>23. ASSUME NEW r \in Requests, Swap(r) PROVE SharesAreAccountedFor'
  BY <1>23 DEF Swap
<1>24. ASSUME NEW r \in Requests, CloseRekey(r) PROVE SharesAreAccountedFor'
  BY <1>24 DEF CloseRekey
<1>25. ASSUME NEW r \in Requests, NEW s \in KnownShares, UnsealWithShare(r, s)
      PROVE  SharesAreAccountedFor'
  BY <1>25 DEF UnsealWithShare
<1>26. ASSUME NEW r \in Requests, NEW b \in Projects \cup Settings, BeginPut(r, b)
      PROVE  SharesAreAccountedFor'
  BY <1>26 DEF BeginPut, WrapRow
<1>27. ASSUME NEW r \in Requests, NEW p \in Projects, LockProject(r, p)
      PROVE  SharesAreAccountedFor'
  BY <1>27 DEF LockProject
<1>28. ASSUME NEW r \in Requests, NEW s \in KnownShares, RekeySubmit(r, s)
      PROVE  SharesAreAccountedFor'
  BY <1>28 DEF RekeySubmit
<1>29. CASE UnsealReset
  BY <1>29 DEF UnsealReset
<1>30. CASE Seal
  BY <1>30 DEF Seal
<1>31. CASE RekeyInit
  BY <1>31 DEF RekeyInit
<1>32. CASE RekeyCancel
  BY <1>32 DEF RekeyCancel
<1>33. CASE Crash
  BY <1>33 DEF Crash
<1> QED
  BY <1>1, <1>2, <1>3, <1>4, <1>5, <1>6, <1>7, <1>8, <1>9, <1>10, <1>11,
     <1>12, <1>13, <1>14, <1>15, <1>16, <1>17, <1>18, <1>19, <1>20, <1>21, <1>22,
     <1>23, <1>24, <1>25, <1>26, <1>27, <1>28, <1>29, <1>30, <1>31, <1>32, <1>33
     DEF Next, InitStep, UnsealStep, WriteStep, RotateStep

----------------------------------------------------------------------------
\* The inductive argument: initially, and across every step and every stutter.
LEMMA MasterInductive == Spec => []MasterInv
<1>1. Init => MasterInv
  BY MasterKeyAssumption DEF Init, MasterInv, TypeOK, NothingBeforeInit, OneRotation, Holding,
     UnopenableOnlyIfOvertaken, KeyringIsTheSeals, SharesAreAccountedFor, Rotating, Carriers
<1>2. ASSUME MasterInv, [Next]_vars PROVE MasterInv'
  <2>1. CASE Next
    <3>1. TypeOK /\ OneRotation /\ Holding
      BY <1>2 DEF MasterInv
    <3>2. TypeOK'
      BY <2>1, <3>1, TypeStep
    <3>3. NothingBeforeInit' /\ OneRotation' /\ Holding'
      BY <1>2, <2>1, BeforeInitStep, RotationStep, HoldingStep
    <3>4. UnopenableOnlyIfOvertaken' /\ KeyringIsTheSeals' /\ SharesAreAccountedFor'
      BY <1>2, <2>1, OpenableStep, KeyringStep, SharesStep
    <3> QED
      BY <3>2, <3>3, <3>4 DEF MasterInv
  <2>2. CASE UNCHANGED vars
    BY <1>2, <2>2 DEF vars, database, ceremonies, handler, history, MasterInv, TypeOK,
       NothingBeforeInit, OneRotation, Holding, UnopenableOnlyIfOvertaken,
       KeyringIsTheSeals, SharesAreAccountedFor, Rotating
  <2> QED
    BY <1>2, <2>1, <2>2
<1> QED
  BY <1>1, <1>2, PTL DEF Spec

\* The seal, the keyring, both ceremonies and every handler keep their types.
THEOREM MasterTypeCorrect == Spec => []TypeOK
<1>1. MasterInv => TypeOK
  BY DEF MasterInv
<1> QED
  BY <1>1, MasterInductive, PTL

\* However many rows, KEK versions and rotations: RewrapAllUnderNewMaster leaves
\* no row behind; only a writer that wrapped under a key the seal no longer has,
\* and stored it later, does.
THEOREM RotationStrandsNothing == Spec => []UnopenableOnlyIfOvertaken
<1>1. MasterInv => UnopenableOnlyIfOvertaken
  BY DEF MasterInv
<1> QED
  BY <1>1, MasterInductive, PTL

\* The keyring serves the seal's master, outside the commit-to-swap window and
\* the two ways in which a stale key gets, or stays, there.
THEOREM KeyringFollowsTheSeal == Spec => []KeyringIsTheSeals
<1>1. MasterInv => KeyringIsTheSeals
  BY DEF MasterInv
<1> QED
  BY <1>1, MasterInductive, PTL

\* No step of a ceremony forgets the shares of a key that is already sealed:
\* whoever seals it carries them until they are delivered or visibly lost.
THEOREM NoSharesForgotten == Spec => []SharesAreAccountedFor
<1>1. MasterInv => SharesAreAccountedFor
  BY DEF MasterInv
<1> QED
  BY <1>1, MasterInductive, PTL

=============================================================================
