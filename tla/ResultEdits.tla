---------------------------- MODULE ResultEdits ----------------------------
(***************************************************************************)
(* Reviews of a summary: record_result_edits of core/job_store.py, behind  *)
(* PATCH /v1/jobs/{id}/result, and the monthly calibrate_edit_scores of    *)
(* worker/worker.py that joins the edits to the judge's scores.            *)
(*                                                                         *)
(* A PATCH reads the job in one transaction, downloads the summary the     *)
(* judge scored, and writes its rows in another: an upsert per judged      *)
(* field, in the order of _EDIT_FIELDS, each of which waits for a          *)
(* transaction that wrote the same row and has not ended (PostgreSQL).     *)
(* The content of a correction is left out: corrected is the PATCH it came *)
(* with, and a PATCH is the set of fields it changes.                      *)
(***************************************************************************)
EXTENDS Integers, FiniteSets

CONSTANTS
  Patches,       \* the PATCH requests
  NumFields      \* how many fields are judged: four in the code

ASSUME ResultEditsAssumption ==
  /\ Patches # {}
  /\ NumFields \in Nat \ {0}

VARIABLES
  changed,       \* the fields in which a PATCH differs from the stored summary
  pc,            \* of each PATCH
  now,           \* its timestamp
  upserted,      \* the fields it wrote in its open transaction
  older,         \* the reviews that had been answered when it arrived
  rows,          \* job_field_edits: the committed row of a field
  clock,
  done,          \* the job's status is done
  fieldScores,   \* quality_eval.field_scores: the fields with a score
  batch,         \* the rows the calibration has read
  labels         \* the labels it fitted last, by field

patchVars == <<changed, pc, now, upserted, older, rows, clock>>
calibrationVars == <<batch, labels>>
vars == <<patchVars, done, fieldScores, calibrationVars>>

Fields == 1 .. NumFields

Row == [edited : BOOLEAN, corrected : Patches, createdAt : Nat]

(* A table or a batch holds at most one row for a field; this one none. *)
Nothing == [f \in {} |-> 0]

PCs == {"sent", "read", "writing", "recorded", "refused", "failed"}
Ended == {"recorded", "refused", "failed"}

(* A transaction that is not open holds no row.                             *)
TypeOK ==
  /\ changed \in [Patches -> SUBSET Fields]
  /\ pc \in [Patches -> PCs]
  /\ now \in [Patches -> Nat]
  /\ upserted \in [Patches -> SUBSET Fields]
  /\ \A p \in Patches : upserted[p] # {} => pc[p] = "writing"
  /\ older \in [Patches -> SUBSET Patches]
  /\ DOMAIN rows \subseteq Fields
  /\ \A f \in DOMAIN rows : rows[f] \in Row
  /\ clock \in Nat
  /\ done \in BOOLEAN
  /\ fieldScores \subseteq Fields
  /\ DOMAIN batch \subseteq Fields
  /\ \A f \in DOMAIN batch : batch[f] \in Row
  /\ DOMAIN labels \subseteq Fields
  /\ \A f \in DOMAIN labels : labels[f] \in BOOLEAN

Init ==
  /\ changed \in [Patches -> SUBSET Fields]
  /\ pc = [p \in Patches |-> "sent"]
  /\ now = [p \in Patches |-> 0]
  /\ upserted = [p \in Patches |-> {}]
  /\ older = [p \in Patches |-> {}]
  /\ rows = Nothing
  /\ clock = 0
  /\ done = FALSE
  /\ fieldScores = {}
  /\ batch = Nothing
  /\ labels = Nothing

-----------------------------------------------------------------------------
(* What other parts of the system do to the job: it becomes done, and the   *)
(* judge stores the scores of the fields that have claims, or none.         *)
JobDone ==
  /\ ~done
  /\ done' = TRUE
  /\ UNCHANGED <<patchVars, fieldScores, calibrationVars>>

JudgeStores ==
  /\ done
  /\ fieldScores = {}
  /\ fieldScores' \in SUBSET Fields
  /\ UNCHANGED <<patchVars, done, calibrationVars>>

-----------------------------------------------------------------------------
Goto(p, label) == pc' = [pc EXCEPT ![p] = label]

(* The first transaction: not DONE is answered 409 (an unknown id 404).     *)
ReadJob(p) ==
  /\ pc[p] = "sent"
  /\ IF done THEN Goto(p, "read") ELSE Goto(p, "refused")
  /\ older' = [older EXCEPT ![p] = {q \in Patches : pc[q] = "recorded"}]
  /\ UNCHANGED <<changed, now, upserted, rows, clock, done, fieldScores, calibrationVars>>

(* The summary is loaded and compared, the time is taken, and only then     *)
(* does the second transaction begin.                                       *)
LoadSummary(p) ==
  /\ pc[p] = "read"
  /\ Goto(p, "writing")
  /\ clock' = clock + 1
  /\ now' = [now EXCEPT ![p] = clock + 1]
  /\ UNCHANGED <<changed, upserted, older, rows, done, fieldScores, calibrationVars>>

(* The artifact is absent or cannot be read: 409. *)
LoadFails(p) ==
  /\ pc[p] = "read"
  /\ Goto(p, "refused")
  /\ UNCHANGED <<changed, now, upserted, older, rows, clock, done, fieldScores,
                 calibrationVars>>

(* Another open transaction has written the row. *)
Locked(f, p) == \E q \in Patches \ {p} : f \in upserted[q]

NewRow(p, f) == [edited |-> f \in changed[p], corrected |-> p, createdAt |-> now[p]]

(* Faulty variants, for showing that a property can fail.                   *)

(* The rows are written in the order of the submitted body. *)
IsNextInAnyOrder(p, f) == pc[p] = "writing" /\ f \in Fields \ upserted[p]

(* A conflict leaves the row alone. *)
WrittenOnce(p, f) == IF f \in DOMAIN rows THEN rows[f] ELSE NewRow(p, f)

(* The session goes back to a pool with its transaction open. *)
AbortUnended(p) ==
  /\ pc[p] \in {"sent", "read", "writing"}
  /\ Goto(p, "failed")
  /\ UNCHANGED <<changed, now, upserted, older, rows, clock, done, fieldScores,
                 calibrationVars>>

(* Each upsert is a transaction of its own. *)
UpsertCommitted(p) ==
  \E f \in Fields :
    /\ pc[p] = "writing"
    /\ f \notin {g \in DOMAIN rows : rows[g].corrected = p}
    /\ \A g \in Fields : g < f => g \in DOMAIN rows
    /\ rows' = [g \in DOMAIN rows \cup {f} |-> IF g = f THEN NewRow(p, f) ELSE rows[g]]
    /\ UNCHANGED <<changed, pc, now, upserted, older, clock, done, fieldScores,
                   calibrationVars>>

(* The edits are read page by page. *)
ReadEditsPaged ==
  /\ \E f \in DOMAIN rows :
       batch' = [g \in DOMAIN batch \cup {f} |-> IF g = f THEN rows[f] ELSE batch[g]]
  /\ UNCHANGED <<patchVars, done, fieldScores, labels>>

-----------------------------------------------------------------------------
(* _EDIT_FIELDS gives the order. *)
IsNext(p, f) ==
  /\ pc[p] = "writing"
  /\ f \in Fields \ upserted[p]
  /\ \A g \in Fields : g < f => g \in upserted[p]

(* ON CONFLICT DO UPDATE: what the row of f holds when p commits. *)
Written(p, f) == NewRow(p, f)

Upsert(p) ==
  \E f \in Fields :
    /\ IsNext(p, f)
    /\ ~Locked(f, p)
    /\ upserted' = [upserted EXCEPT ![p] = @ \cup {f}]
    /\ UNCHANGED <<changed, pc, now, older, rows, clock, done, fieldScores, calibrationVars>>

Commit(p) ==
  /\ pc[p] = "writing"
  /\ upserted[p] = Fields
  /\ rows' = [f \in Fields |-> Written(p, f)]
  /\ upserted' = [upserted EXCEPT ![p] = {}]
  /\ Goto(p, "recorded")
  /\ UNCHANGED <<changed, now, older, clock, done, fieldScores, calibrationVars>>

(* The database, the connection or the API process fails: rolled back.      *)
Abort(p) ==
  /\ pc[p] \in {"sent", "read", "writing"}
  /\ upserted' = [upserted EXCEPT ![p] = {}]
  /\ Goto(p, "failed")
  /\ UNCHANGED <<changed, now, older, rows, clock, done, fieldScores, calibrationVars>>

Patch(p) ==
  ReadJob(p) \/ LoadSummary(p) \/ LoadFails(p) \/ Upsert(p) \/ Commit(p) \/ Abort(p)

-----------------------------------------------------------------------------
(* The calibration: a statement for the edits, one for the scores of their  *)
(* jobs, and a label for every edit whose field has a score.                *)
ReadEdits ==
  /\ batch = Nothing
  /\ rows # Nothing
  /\ batch' = rows
  /\ UNCHANGED <<patchVars, done, fieldScores, labels>>

ReadScores ==
  /\ batch # Nothing
  /\ labels' = [f \in DOMAIN batch \cap fieldScores |-> batch[f].edited]
  /\ batch' = Nothing
  /\ UNCHANGED <<patchVars, done, fieldScores>>

Next ==
  \/ JobDone \/ JudgeStores
  \/ \E p \in Patches : Patch(p)
  \/ ReadEdits \/ ReadScores

Spec == Init /\ [][Next]_vars

-----------------------------------------------------------------------------
(* What a reader of the table finds: no rows, all of one request, or        *)
(* something that no request sent.                                          *)
Holds(p) == rows = [f \in Fields |-> NewRow(p, f)]

Reading ==
  IF rows = Nothing THEN "nothing"
  ELSE IF \E p \in Patches : Holds(p) THEN CHOOSE p \in Patches : Holds(p)
  ELSE "no review"

(* "A PATCH is one review event": however the requests interleave and fail, *)
(* the table is a register that holds the review recorded last, in all its  *)
(* fields and columns, and that changes when one is recorded and only then. *)
Register ==
  INSTANCE ReviewRegister
    WITH Reviews <- Patches,
         NoReview <- "nothing",
         current <- Reading,
         recorded <- {p \in Patches : pc[p] = "recorded"}

ReviewsAreAtomic == Register!RegisterSpec

(* "last edit wins": a review that had been answered before another one was *)
(* sent is not in the table once that one is recorded.  Reviews that        *)
(* overlap may end up in either order, whatever their created_at says.      *)
LastEditWins ==
  \A p, q \in Patches :
    pc[p] = "recorded" /\ q \in older[p] => \A f \in DOMAIN rows : rows[f].corrected # q

(* Transactions cannot wait for one another: one that waits holds no row.   *)
WaitingHoldsNothing ==
  \A p \in Patches :
    (\E f \in Fields : IsNext(p, f) /\ Locked(f, p)) => upserted[p] = {}

(* The labels of a fit are a review: changed fields are positive, untouched *)
(* ones negative, never the one from one review and the other from another. *)
LabelsAreOneReview ==
  \E p \in Patches : \A f \in DOMAIN labels : labels[f] = (f \in changed[p])
=============================================================================
