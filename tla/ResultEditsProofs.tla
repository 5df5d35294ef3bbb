------------------------- MODULE ResultEditsProofs --------------------------
(***************************************************************************)
(* The reviews of ResultEdits are kept whole for any number of concurrent  *)
(* requests and of judged fields.                                          *)
(***************************************************************************)
EXTENDS ResultEdits, TLAPS

USE ResultEditsAssumption

(* A row written in an open transaction is locked against the others.       *)
LocksExclude ==
  \A p, q \in Patches : \A f \in upserted[p] : f \in upserted[q] => p = q

(* The rows are taken in the order of _EDIT_FIELDS. *)
LocksInOrder ==
  \A p \in Patches : \A f \in upserted[p] : \A g \in Fields : g < f => g \in upserted[p]

OlderAnswered == \A p \in Patches : \A q \in older[p] : pc[q] = "recorded"

(* What the calibration has read is of one review. *)
BatchIsOneReview ==
  \E p \in Patches : \A f \in DOMAIN batch : batch[f].edited = (f \in changed[p])

(* The table holds all fields of one recorded review, or nothing ...        *)
WholeReview ==
  rows # Nothing =>
    \E p \in Patches :
      /\ pc[p] = "recorded"
      /\ rows = [f \in Fields |-> rows[f]]
      /\ \A f \in Fields : rows[f].corrected = p

(* ... and a row's flag, content and time are of the same review.           *)
RowsAgree ==
  \A f \in DOMAIN rows : rows[f] = NewRow(rows[f].corrected, f)

Inv ==
  /\ TypeOK /\ LocksExclude /\ LocksInOrder /\ OlderAnswered
  /\ WholeReview /\ RowsAgree /\ LastEditWins
  /\ BatchIsOneReview /\ LabelsAreOneReview

-----------------------------------------------------------------------------
LEMMA InvInit == Init => Inv
<1> SUFFICES ASSUME Init PROVE Inv
  OBVIOUS
<1>1. DOMAIN Nothing = {}
  BY DEF Nothing
<1>2. TypeOK
  BY <1>1 DEF Init, TypeOK, PCs
<1>3. LocksExclude /\ LocksInOrder /\ OlderAnswered
  BY DEF Init, LocksExclude, LocksInOrder, OlderAnswered
<1>4. WholeReview /\ RowsAgree /\ LastEditWins
  BY <1>1 DEF Init, WholeReview, RowsAgree, LastEditWins
<1>5. BatchIsOneReview /\ LabelsAreOneReview
  BY <1>1 DEF Init, BatchIsOneReview, LabelsAreOneReview
<1> QED BY <1>2, <1>3, <1>4, <1>5 DEF Inv

(* The requests leave the calibration alone, and it them. *)
LEMMA CalibrationKept ==
  ASSUME Inv, changed' = changed, batch' = batch, labels' = labels
  PROVE  BatchIsOneReview' /\ LabelsAreOneReview'
BY DEF Inv, BatchIsOneReview, LabelsAreOneReview

(* The table keeps its review while nobody commits: the request it came     *)
(* with has ended and takes no other time.                                  *)
LEMMA TableKept ==
  ASSUME Inv, rows' = rows, changed' = changed,
         \A p \in Patches : pc[p] = "recorded" => pc'[p] = "recorded" /\ now'[p] = now[p]
  PROVE  WholeReview' /\ RowsAgree'
<1>1. WholeReview'
  BY DEF Inv, WholeReview
<1>2. ASSUME NEW f \in DOMAIN rows
      PROVE  rows[f] = NewRow(rows[f].corrected, f)'
  <2>1. PICK p \in Patches : pc[p] = "recorded" /\ rows[f].corrected = p
    <3>1. rows # Nothing
      BY <1>2 DEF Nothing
    <3> QED BY <1>2, <3>1 DEF Inv, WholeReview
  <2>2. rows[f] = NewRow(p, f)
    BY <1>2, <2>1 DEF Inv, RowsAgree
  <2> QED BY <2>1, <2>2 DEF NewRow
<1> QED BY <1>1, <1>2 DEF RowsAgree

LEMMA LocksKept ==
  ASSUME Inv, NEW p \in Patches,
         upserted' = upserted \/ upserted' = [upserted EXCEPT ![p] = {}]
  PROVE  LocksExclude' /\ LocksInOrder'
BY DEF Inv, TypeOK, LocksExclude, LocksInOrder

-----------------------------------------------------------------------------
LEMMA ReadJobInv ==
  ASSUME Inv, NEW p \in Patches, ReadJob(p)
  PROVE  Inv'
<1>1. /\ pc[p] = "sent" /\ pc' \in [Patches -> PCs]
      /\ \A q \in Patches \ {p} : pc'[q] = pc[q]
      /\ pc'[p] \in {"read", "refused"}
  BY DEF ReadJob, Goto, Inv, TypeOK, PCs
<1>2. /\ older' = [older EXCEPT ![p] = {q \in Patches : pc[q] = "recorded"}]
      /\ changed' = changed /\ now' = now /\ upserted' = upserted /\ rows' = rows
      /\ clock' = clock /\ done' = done /\ fieldScores' = fieldScores
      /\ batch' = batch /\ labels' = labels
  BY DEF ReadJob, calibrationVars
<1>3. TypeOK'
  BY <1>1, <1>2 DEF Inv, TypeOK
<1>4. OlderAnswered'
  BY <1>1, <1>2 DEF Inv, TypeOK, OlderAnswered
<1>5. LastEditWins'
  BY <1>1, <1>2 DEF Inv, TypeOK, LastEditWins
<1>6. LocksExclude' /\ LocksInOrder'
  BY <1>2, LocksKept
<1>7. WholeReview' /\ RowsAgree'
  BY <1>1, <1>2, TableKept
<1>8. BatchIsOneReview' /\ LabelsAreOneReview'
  BY <1>2, CalibrationKept
<1> QED BY <1>3, <1>4, <1>5, <1>6, <1>7, <1>8 DEF Inv

(* A request that neither starts nor commits. *)
LEMMA QuietInv ==
  ASSUME Inv, NEW p \in Patches, NEW label \in PCs,
         pc[p] # "recorded", label # "recorded",
         pc' = [pc EXCEPT ![p] = label],
         upserted' = upserted \/ upserted' = [upserted EXCEPT ![p] = {}],
         \A q \in Patches : upserted'[q] # {} => pc'[q] = "writing",
         now' \in [Patches -> Nat], \A q \in Patches \ {p} : now'[q] = now[q],
         clock' \in Nat, changed' = changed, older' = older, rows' = rows,
         done' = done, fieldScores' = fieldScores, batch' = batch, labels' = labels
  PROVE  Inv'
<1>1. /\ pc' \in [Patches -> PCs] /\ pc'[p] = label
      /\ \A q \in Patches \ {p} : pc'[q] = pc[q]
  BY DEF Inv, TypeOK
<1>2. TypeOK'
  BY <1>1 DEF Inv, TypeOK
<1>3. OlderAnswered'
  BY <1>1 DEF Inv, TypeOK, OlderAnswered
<1>4. LastEditWins'
  BY <1>1 DEF Inv, TypeOK, LastEditWins
<1>5. LocksExclude' /\ LocksInOrder'
  BY LocksKept
<1>6. WholeReview' /\ RowsAgree'
  BY <1>1, TableKept
<1>7. BatchIsOneReview' /\ LabelsAreOneReview'
  BY CalibrationKept
<1> QED BY <1>2, <1>3, <1>4, <1>5, <1>6, <1>7 DEF Inv

LEMMA UpsertInv ==
  ASSUME Inv, NEW p \in Patches, Upsert(p)
  PROVE  Inv'
<1>1. PICK f \in Fields :
        /\ IsNext(p, f) /\ ~Locked(f, p)
        /\ upserted' = [upserted EXCEPT ![p] = @ \cup {f}]
        /\ UNCHANGED <<changed, pc, now, older, rows, clock, done, fieldScores,
                       calibrationVars>>
  BY DEF Upsert
<1>2. /\ upserted' \in [Patches -> SUBSET Fields]
      /\ upserted'[p] = upserted[p] \cup {f}
      /\ \A q \in Patches \ {p} : upserted'[q] = upserted[q]
  BY <1>1 DEF Inv, TypeOK
<1>3. /\ changed' = changed /\ pc' = pc /\ now' = now /\ older' = older /\ rows' = rows
      /\ clock' = clock /\ done' = done /\ fieldScores' = fieldScores
      /\ batch' = batch /\ labels' = labels
  BY <1>1 DEF calibrationVars
<1>4. TypeOK'
  <2>1. \A q \in Patches : upserted'[q] # {} => pc'[q] = "writing"
    BY <1>1, <1>2, <1>3 DEF IsNext, Inv, TypeOK
  <2> QED BY <1>2, <1>3, <2>1 DEF Inv, TypeOK
<1>5. LocksExclude'
  <2>1. \A q \in Patches \ {p} : f \notin upserted[q]
    BY <1>1 DEF Locked
  <2> QED BY <1>2, <2>1 DEF Inv, LocksExclude
<1>6. LocksInOrder'
  BY <1>1, <1>2 DEF IsNext, Inv, LocksInOrder
<1>7. OlderAnswered' /\ LastEditWins'
  BY <1>3 DEF Inv, OlderAnswered, LastEditWins
<1>8. WholeReview' /\ RowsAgree'
  BY <1>3, TableKept
<1>9. BatchIsOneReview' /\ LabelsAreOneReview'
  BY <1>3, CalibrationKept
<1> QED BY <1>4, <1>5, <1>6, <1>7, <1>8, <1>9 DEF Inv

LEMMA CommitInv ==
  ASSUME Inv, NEW p \in Patches, Commit(p)
  PROVE  Inv'
<1>1. /\ pc[p] = "writing" /\ pc' \in [Patches -> PCs] /\ pc'[p] = "recorded"
      /\ \A q \in Patches \ {p} : pc'[q] = pc[q]
  BY DEF Commit, Goto, Inv, TypeOK, PCs
<1>2. /\ rows' = [f \in Fields |-> NewRow(p, f)]
      /\ upserted' = [upserted EXCEPT ![p] = {}]
      /\ changed' = changed /\ now' = now /\ older' = older
      /\ clock' = clock /\ done' = done /\ fieldScores' = fieldScores
      /\ batch' = batch /\ labels' = labels
  BY DEF Commit, Written, calibrationVars
<1>3. /\ DOMAIN rows' = Fields
      /\ \A f \in Fields : /\ rows'[f] = NewRow(p, f) /\ rows'[f] \in Row
                           /\ rows'[f].corrected = p
  BY <1>2 DEF NewRow, Row, Inv, TypeOK
<1>4. TypeOK'
  BY <1>1, <1>2, <1>3 DEF Inv, TypeOK
<1>5. LocksExclude' /\ LocksInOrder'
  BY <1>2, LocksKept
<1>6. OlderAnswered'
  BY <1>1, <1>2 DEF Inv, TypeOK, OlderAnswered
<1>7. WholeReview'
  <2>1. rows' = [f \in Fields |-> rows'[f]]
    BY <1>2
  <2> QED BY <1>1, <1>3, <2>1 DEF WholeReview
<1>8. RowsAgree'
  BY <1>2, <1>3 DEF RowsAgree, NewRow
<1>9. LastEditWins'
  <2>1. \A q \in Patches : p \notin older[q]
    BY <1>1 DEF Inv, OlderAnswered
  <2> QED BY <1>2, <1>3, <2>1 DEF LastEditWins
<1>10. BatchIsOneReview' /\ LabelsAreOneReview'
  BY <1>2, CalibrationKept
<1> QED BY <1>4, <1>5, <1>6, <1>7, <1>8, <1>9, <1>10 DEF Inv

LEMMA PatchInv ==
  ASSUME Inv, NEW p \in Patches, Patch(p)
  PROVE  Inv'
<1>1. CASE LoadSummary(p)
  <2>1. /\ pc[p] = "read" /\ pc' = [pc EXCEPT ![p] = "writing"]
        /\ now' = [now EXCEPT ![p] = clock + 1] /\ clock' = clock + 1
        /\ changed' = changed /\ upserted' = upserted /\ older' = older /\ rows' = rows
        /\ done' = done /\ fieldScores' = fieldScores /\ batch' = batch /\ labels' = labels
    BY <1>1 DEF LoadSummary, Goto, calibrationVars
  <2>2. /\ clock' \in Nat /\ now' \in [Patches -> Nat]
        /\ \A q \in Patches \ {p} : now'[q] = now[q]
    BY <2>1 DEF Inv, TypeOK
  <2>3. \A q \in Patches : upserted'[q] # {} => pc'[q] = "writing"
    BY <2>1 DEF Inv, TypeOK
  <2>4. "writing" \in PCs
    BY DEF PCs
  <2> QED BY <2>1, <2>2, <2>3, <2>4, QuietInv
<1>2. CASE LoadFails(p)
  BY <1>2, QuietInv DEF LoadFails, Goto, calibrationVars, Inv, TypeOK, PCs
<1>3. CASE Abort(p)
  BY <1>3, QuietInv DEF Abort, Goto, calibrationVars, Inv, TypeOK, PCs
<1> QED BY <1>1, <1>2, <1>3, ReadJobInv, UpsertInv, CommitInv DEF Patch

-----------------------------------------------------------------------------
LEMMA ReadEditsInv ==
  ASSUME Inv, ReadEdits
  PROVE  Inv'
<1>1. /\ UNCHANGED patchVars /\ done' = done /\ fieldScores' = fieldScores
      /\ labels' = labels /\ batch' = rows /\ rows # Nothing
  BY DEF ReadEdits
<1>2. /\ changed' = changed /\ pc' = pc /\ now' = now /\ upserted' = upserted
      /\ older' = older /\ rows' = rows /\ clock' = clock
  BY <1>1 DEF patchVars
<1>3. TypeOK'
  BY <1>1, <1>2 DEF Inv, TypeOK
<1>4. /\ LocksExclude' /\ LocksInOrder' /\ OlderAnswered' /\ WholeReview' /\ LastEditWins'
  BY <1>2 DEF Inv, LocksExclude, LocksInOrder, OlderAnswered, WholeReview, LastEditWins
<1>5. RowsAgree' /\ LabelsAreOneReview'
  BY <1>1, <1>2 DEF Inv, RowsAgree, NewRow, LabelsAreOneReview
<1>6. BatchIsOneReview'
  <2>1. PICK p \in Patches : \A f \in DOMAIN rows : f \in Fields /\ rows[f].corrected = p
    BY <1>1 DEF Inv, WholeReview
  <2>2. \A f \in DOMAIN rows : rows[f].edited = (f \in changed[p])
    BY <2>1 DEF Inv, RowsAgree, NewRow
  <2> QED BY <1>1, <1>2, <2>2 DEF BatchIsOneReview
<1> QED BY <1>3, <1>4, <1>5, <1>6 DEF Inv

LEMMA ReadScoresInv ==
  ASSUME Inv, ReadScores
  PROVE  Inv'
<1>1. /\ UNCHANGED patchVars /\ done' = done /\ fieldScores' = fieldScores
      /\ labels' = [f \in DOMAIN batch \cap fieldScores |-> batch[f].edited]
      /\ batch' = Nothing
  BY DEF ReadScores
<1>2. /\ changed' = changed /\ pc' = pc /\ now' = now /\ upserted' = upserted
      /\ older' = older /\ rows' = rows /\ clock' = clock
  BY <1>1 DEF patchVars
<1>3. DOMAIN batch' = {}
  BY <1>1 DEF Nothing
<1>4. TypeOK'
  BY <1>1, <1>2, <1>3 DEF Inv, TypeOK, Row
<1>5. /\ LocksExclude' /\ LocksInOrder' /\ OlderAnswered' /\ WholeReview' /\ LastEditWins'
  BY <1>2 DEF Inv, LocksExclude, LocksInOrder, OlderAnswered, WholeReview, LastEditWins
<1>6. RowsAgree'
  BY <1>2 DEF Inv, RowsAgree, NewRow
<1>7. BatchIsOneReview' /\ LabelsAreOneReview'
  BY <1>1, <1>2, <1>3 DEF Inv, BatchIsOneReview, LabelsAreOneReview
<1> QED BY <1>4, <1>5, <1>6, <1>7 DEF Inv

LEMMA JobInv ==
  ASSUME Inv, JobDone \/ JudgeStores
  PROVE  Inv'
<1>1. /\ UNCHANGED <<patchVars, calibrationVars>>
      /\ done' \in BOOLEAN /\ fieldScores' \subseteq Fields
  BY DEF JobDone, JudgeStores, Inv, TypeOK
<1>2. /\ changed' = changed /\ pc' = pc /\ now' = now /\ upserted' = upserted
      /\ older' = older /\ rows' = rows /\ clock' = clock
      /\ batch' = batch /\ labels' = labels
  BY <1>1 DEF patchVars, calibrationVars
<1>3. TypeOK'
  BY <1>1, <1>2 DEF Inv, TypeOK
<1>4. /\ LocksExclude' /\ LocksInOrder' /\ OlderAnswered' /\ WholeReview' /\ LastEditWins'
  BY <1>2 DEF Inv, LocksExclude, LocksInOrder, OlderAnswered, WholeReview, LastEditWins
<1>5. RowsAgree'
  BY <1>2 DEF Inv, RowsAgree, NewRow
<1> QED BY <1>2, <1>3, <1>4, <1>5, CalibrationKept DEF Inv

THEOREM Invariance == Spec => []Inv
<1>1. Init => Inv
  BY InvInit
<1>2. Inv /\ [Next]_vars => Inv'
  <2>1. ASSUME Inv, UNCHANGED vars
        PROVE  Inv'
    BY <2>1 DEF vars, patchVars, calibrationVars, Inv, TypeOK, LocksExclude, LocksInOrder,
       OlderAnswered, WholeReview, RowsAgree, NewRow, LastEditWins, BatchIsOneReview,
       LabelsAreOneReview
  <2> QED BY <2>1, PatchInv, ReadEditsInv, ReadScoresInv, JobInv DEF Next
<1> QED BY <1>1, <1>2, PTL DEF Spec

(* Transactions that are not open hold no row, and rows are of the fields.  *)
THEOREM TypeCorrect == Spec => []TypeOK
BY Invariance, PTL DEF Inv

-----------------------------------------------------------------------------
(* The table is a register of reviews                                       *)

(* No two requests have the same rows.                                      *)
LEMMA ReadingIsUnique == \A p \in Patches : Holds(p) => Reading = p
<1> SUFFICES ASSUME NEW p \in Patches, Holds(p) PROVE Reading = p
  OBVIOUS
<1>1. 1 \in Fields
  BY DEF Fields
<1>2. rows # Nothing
  <2>1. DOMAIN rows = Fields /\ DOMAIN Nothing = {}
    BY DEF Holds, Nothing
  <2> QED BY <1>1, <2>1
<1>3. ASSUME NEW q \in Patches, Holds(q) PROVE q = p
  BY <1>1, <1>3 DEF Holds, NewRow
<1>4. Reading = CHOOSE q \in Patches : Holds(q)
  BY <1>2 DEF Reading
<1> QED BY <1>3, <1>4

LEMMA ReadingIsUniqueNext == (\A p \in Patches : Holds(p) => Reading = p)'
BY ReadingIsUnique, PTL

LEMMA TableHolds ==
  ASSUME Inv, rows # Nothing
  PROVE  \E p \in Patches : pc[p] = "recorded" /\ Holds(p)
<1>1. PICK p \in Patches :
        /\ pc[p] = "recorded"
        /\ rows = [f \in Fields |-> rows[f]]
        /\ \A f \in Fields : rows[f].corrected = p
  BY DEF Inv, WholeReview
<1>2. \A f \in Fields : rows[f] = NewRow(p, f)
  BY <1>1 DEF Inv, RowsAgree
<1>3. rows = [f \in Fields |-> NewRow(p, f)]
  BY <1>1, <1>2
<1> QED BY <1>1, <1>3 DEF Holds

(* No step but a commit changes what a reader finds.                        *)
LEMMA ReadingKept ==
  ASSUME Inv, rows' = rows, changed' = changed,
         \A p \in Patches : pc[p] = "recorded" <=> pc'[p] = "recorded",
         \A p \in Patches : pc[p] = "recorded" => now'[p] = now[p]
  PROVE  UNCHANGED <<Reading, {p \in Patches : pc[p] = "recorded"}>>
<1>1. Reading' = Reading
  <2>1. CASE rows = Nothing
    BY <2>1 DEF Reading, Nothing
  <2>2. CASE rows # Nothing
    <3>1. PICK p \in Patches : pc[p] = "recorded" /\ Holds(p)
      BY <2>2, TableHolds
    <3>2. Holds(p)'
      BY <3>1 DEF Holds, NewRow
    <3> QED BY <3>1, <3>2, ReadingIsUnique, ReadingIsUniqueNext
  <2> QED BY <2>1, <2>2
<1> QED BY <1>1

LEMMA CommitRecords ==
  ASSUME Inv, NEW p \in Patches, Commit(p)
  PROVE  Register!Record(p)
<1>1. Holds(p)'
  BY DEF Commit, Written, Holds, NewRow
<1>2. Reading' = p
  BY <1>1, ReadingIsUniqueNext
<1>3. /\ pc[p] # "recorded" /\ pc'[p] = "recorded"
      /\ \A q \in Patches \ {p} : pc'[q] = pc[q]
  BY DEF Commit, Goto, Inv, TypeOK
<1>4. {q \in Patches : pc'[q] = "recorded"} = {q \in Patches : pc[q] = "recorded"} \cup {p}
  BY <1>3
<1> QED BY <1>2, <1>3, <1>4 DEF Register!Record

(* Whatever the number of requests and fields, the upserts, waits, commits  *)
(* and rollbacks are to a reader one register of whole reviews.             *)
THEOREM TableIsARegister == Spec => ReviewsAreAtomic
<1>1. Init => Register!RegisterInit
  <2> SUFFICES ASSUME Init PROVE Register!RegisterInit
    OBVIOUS
  <2>1. Reading = "nothing"
    BY DEF Init, Reading
  <2> QED BY <2>1 DEF Init, Register!RegisterInit
<1>2. Inv /\ [Next]_vars
        => [Register!RegisterNext]_<<Reading, {p \in Patches : pc[p] = "recorded"}>>
  <2> SUFFICES ASSUME Inv, [Next]_vars
               PROVE  \/ \E p \in Patches : Commit(p)
                      \/ UNCHANGED <<Reading, {p \in Patches : pc[p] = "recorded"}>>
    BY CommitRecords DEF Register!RegisterNext
  <2>1. CASE UNCHANGED <<rows, changed, pc, now>>
    BY <2>1, ReadingKept
  <2>2. ASSUME NEW p \in Patches, ReadJob(p) \/ LoadSummary(p) \/ LoadFails(p) \/ Abort(p)
        PROVE  UNCHANGED <<Reading, {q \in Patches : pc[q] = "recorded"}>>
    <3>1. /\ rows' = rows /\ changed' = changed
          /\ pc[p] # "recorded" /\ \E label \in PCs \ {"recorded"} : Goto(p, label)
          /\ now' = now \/ now' = [now EXCEPT ![p] = clock + 1]
      BY <2>2 DEF ReadJob, LoadSummary, LoadFails, Abort, PCs
    <3>2. \A q \in Patches : pc[q] = "recorded" <=> pc'[q] = "recorded"
      BY <3>1 DEF Goto, Inv, TypeOK
    <3>3. \A q \in Patches : pc[q] = "recorded" => now'[q] = now[q]
      BY <3>1 DEF Inv, TypeOK
    <3> QED BY <3>1, <3>2, <3>3, ReadingKept
  <2>3. ASSUME NEW p \in Patches, Upsert(p)
        PROVE  UNCHANGED <<rows, changed, pc, now>>
    BY <2>3 DEF Upsert
  <2>4. CASE JobDone \/ JudgeStores \/ ReadEdits \/ ReadScores \/ UNCHANGED vars
    BY <2>1, <2>4 DEF JobDone, JudgeStores, ReadEdits, ReadScores, vars, patchVars
  <2> QED BY <2>1, <2>2, <2>3, <2>4 DEF Next, Patch
<1> QED BY <1>1, <1>2, Invariance, PTL DEF Spec, ReviewsAreAtomic, Register!RegisterSpec

(* A review answered before another was sent does not outlast it.           *)
THEOREM LastEditStays == Spec => []LastEditWins
BY Invariance, PTL DEF Inv

(* A transaction that waits for a row holds none: there is no deadlock,     *)
(* whatever the number of requests and fields.                              *)
THEOREM NoDeadlock == Spec => []WaitingHoldsNothing
<1>1. Inv => WaitingHoldsNothing
  <2> SUFFICES ASSUME Inv, NEW p \in Patches, NEW f \in Fields, IsNext(p, f), Locked(f, p),
                      NEW g \in upserted[p]
               PROVE  FALSE
    BY DEF WaitingHoldsNothing
  <2>1. PICK q \in Patches \ {p} : f \in upserted[q]
    BY DEF Locked
  <2>2. g \in Fields /\ f \notin upserted[p]
    BY DEF IsNext, Inv, TypeOK
  <2>3. g < f
    <3>1. f \in Int /\ g \in Int /\ f # g
      BY <2>2 DEF Fields
    <3>2. ~(f < g)
      BY <2>2 DEF Inv, LocksInOrder
    <3> QED BY <3>1, <3>2
  <2>4. g \in upserted[q]
    BY <2>1, <2>2, <2>3 DEF Inv, LocksInOrder
  <2> QED BY <2>1, <2>4 DEF Inv, LocksExclude
<1> QED BY <1>1, Invariance, PTL

(* A fit is never made of two reviews.                                      *)
THEOREM LabelsAreConsistent == Spec => []LabelsAreOneReview
BY Invariance, PTL DEF Inv
=============================================================================
