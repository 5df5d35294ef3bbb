---------------------------- MODULE JobLifecycle ----------------------------
(***************************************************************************)
(* What a client that polls GET /v1/jobs/{id} is promised about a job's    *)
(* status (docstring of JobStatus in core/job_store.py): it moves forward  *)
(* through the active states, it settles in a terminal one, and a terminal *)
(* status is final.  Nothing here says how the API, the broker, the worker *)
(* and the reaper bring this about; JobPipeline does.                      *)
(***************************************************************************)

CONSTANT Jobs

VARIABLE status

Active == {"queued", "asr_running", "summary_running"}
Terminal == {"done", "failed", "email_failed"}
Status == {"non_existing"} \union Active \union Terminal

LifecycleInit == status = [j \in Jobs |-> "non_existing"]

Submit(j) ==
  /\ status[j] = "non_existing"
  /\ status' = [status EXCEPT ![j] = "queued"]

(* The forward moves of a run that succeeds, or that loses only its email. *)
Successor(s) ==
  CASE s = "queued"          -> {"asr_running"}
    [] s = "asr_running"     -> {"summary_running"}
    [] s = "summary_running" -> {"done", "email_failed"}
    [] OTHER                 -> {}

Advance(j) ==
  \E s \in Successor(status[j]) : status' = [status EXCEPT ![j] = s]

(* Any active job can fail: a stage failed, or the reaper gave the job up. *)
Fail(j) ==
  /\ status[j] \in Active
  /\ status' = [status EXCEPT ![j] = "failed"]

(* What comes after a status, when something does. *)
Following(s) ==
  (IF s = "non_existing" THEN {"queued"} ELSE Successor(s))
  \union (IF s \in Active THEN {"failed"} ELSE {})

(* One reaper transaction may fail several jobs in a single step. *)
FailMany ==
  \E S \in SUBSET {j \in Jobs : status[j] \in Active} :
    /\ S # {}
    /\ status' = [j \in Jobs |-> IF j \in S THEN "failed" ELSE status[j]]

LifecycleNext == FailMany \/ \E j \in Jobs : Submit(j) \/ Advance(j)

LifecycleSafety == LifecycleInit /\ [][LifecycleNext]_status

(* A job that was accepted does not stay active for ever. *)
LifecycleSpec ==
  /\ LifecycleSafety
  /\ \A j \in Jobs : WF_status(Advance(j) \/ Fail(j))
=============================================================================
