--------------------------- MODULE ReviewRegister ---------------------------
(***************************************************************************)
(* What the comments of record_result_edits and of the job_field_edits     *)
(* table promise: "a PATCH is one review event".  Whoever reads the edits  *)
(* of a job finds none, or all of the one review recorded last; a review   *)
(* is recorded in one instant, once, and a PATCH that was not answered as  *)
(* recorded left no trace.  Nothing here says that a review is four rows,  *)
(* or that others are being written at the same time; ResultEdits does.    *)
(***************************************************************************)
CONSTANTS
  Reviews,
  NoReview

VARIABLES
  current,     \* the review a reader finds
  recorded     \* the reviews answered as recorded

RegisterInit ==
  /\ current = NoReview
  /\ recorded = {}

Record(r) ==
  /\ r \notin recorded
  /\ current' = r
  /\ recorded' = recorded \cup {r}

RegisterNext == \E r \in Reviews : Record(r)

RegisterSpec == RegisterInit /\ [][RegisterNext]_<<current, recorded>>
=============================================================================
