------------------------------ MODULE JobStore ------------------------------
(***************************************************************************)
(* The state the API, the worker and the reaper share: the jobs table in   *)
(* PostgreSQL (core/models.py) and the objects of each job in S3           *)
(* (storage/storage.py), with the operations of core/job_store.py on them. *)
(*                                                                         *)
(* Every row write of the program goes through update_job or the reaper,   *)
(* and both are blind: an UPDATE of the given columns by primary key, from *)
(* a session that does not lock the row and does not refresh what it read  *)
(* earlier.  So a write is an assignment to one column of one job, and     *)
(* nothing ties it to the status the writer believes the job to have.      *)
(*                                                                         *)
(* The content of an object or of a quality signal is abstracted to the    *)
(* delivery of the task message that produced it: two runs of the pipeline *)
(* over one job call the ASR and LLM providers twice and store different   *)
(* texts.                                                                  *)
(***************************************************************************)
EXTENDS Integers

CONSTANTS
  Jobs,            \* job ids
  MaxDeliveries    \* bound: deliveries of one job's process_job message

ASSUME JobStoreAssumption ==
  /\ Jobs # {}
  /\ MaxDeliveries \in Nat \ {0}

Deliveries == 1 .. MaxDeliveries

Absent == -1                        \* no such object
Original == 0                       \* written by the API, from the upload
Version == {Absent, Original} \union Deliveries

Active == {"queued", "asr_running", "summary_running"}
Terminal == {"done", "failed", "email_failed"}
Status == {"non_existing"} \union Active \union Terminal

Result == {"summary", "transcript", "summary_json"}
Artifact == {"source", "preprocessed"} \union Result

Evals == {"quality_eval", "summq_eval"}
SignalColumn == {"quality_flags"} \union Evals

(* Who produced a quality signal, and of which delivery's summary. *)
Signal == [by : {"nobody", "pipeline", "task"}, of : Version]
NoSignal == [by |-> "nobody", of |-> Absent]

VARIABLES
  status,      \* jobs.status, "non_existing" while there is no row
  emails,      \* jobs.emails, abstracted to whether there is a recipient
  artifacts,   \* the keys present in jobs.artifacts
  signals,     \* jobs.quality_flags, jobs.quality_eval, jobs.summq_eval
  stale,       \* jobs.updated_at is older than the reaper's threshold
  object       \* the S3 objects of a job, by artifact name

storeVars == <<status, emails, artifacts, signals, stale, object>>

StoreTypeOK ==
  /\ status \in [Jobs -> Status]
  /\ emails \in [Jobs -> BOOLEAN]
  /\ artifacts \in [Jobs -> SUBSET Artifact]
  /\ signals \in [Jobs -> [SignalColumn -> Signal]]
  /\ stale \in [Jobs -> BOOLEAN]
  /\ object \in [Jobs -> [Artifact -> Version]]

StoreInit ==
  /\ status = [j \in Jobs |-> "non_existing"]
  /\ emails = [j \in Jobs |-> FALSE]
  /\ artifacts = [j \in Jobs |-> {}]
  /\ signals = [j \in Jobs |-> [c \in SignalColumn |-> NoSignal]]
  /\ stale = [j \in Jobs |-> FALSE]
  /\ object = [j \in Jobs |-> [k \in Artifact |-> Absent]]

-----------------------------------------------------------------------------
(* create_job's transaction: the row with its source key, before the source *)
(* itself is uploaded.                                                      *)
InsertJob(j, recipients) ==
  /\ status' = [status EXCEPT ![j] = "queued"]
  /\ emails' = [emails EXCEPT ![j] = recipients]
  /\ artifacts' = [artifacts EXCEPT ![j] = {"source"}]
  /\ UNCHANGED <<signals, stale, object>>

(* update_job(status=...).  updated_at has no onupdate: stale is unchanged. *)
UpdateStatus(j, s) ==
  /\ status' = [status EXCEPT ![j] = s]
  /\ UNCHANGED <<emails, artifacts, signals, stale, object>>

(* upload_file: an object is replaced as a whole. *)
UploadFile(j, k, version) ==
  /\ object' = [object EXCEPT ![j] = [@ EXCEPT ![k] = version]]
  /\ UNCHANGED <<status, emails, artifacts, signals, stale>>

(* What GET /v1/jobs/{id}/result answers.  "error" is the KeyError on a row *)
(* without a summary key, which get_result does not catch.                  *)
GetResult(j) ==
  IF status[j] = "non_existing" THEN "not_found"
  ELSE IF status[j] # "done" THEN "conflict"
  ELSE IF "summary" \notin artifacts[j] THEN "error"
  ELSE IF object[j]["summary"] = Absent THEN "conflict"
  ELSE "ok"
=============================================================================
