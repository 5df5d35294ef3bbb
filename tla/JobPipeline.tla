---------------------------- MODULE JobPipeline -----------------------------
(***************************************************************************)
(* The life of a job: POST /v1/jobs (api/api.py, core/job_store.py), the   *)
(* Celery process_job task and the pipeline it runs (worker/worker.py,     *)
(* pipeline.py), and the beat-scheduled reaper (worker/worker.py).         *)
(*                                                                         *)
(* A step is one call another process can observe: a transaction, an       *)
(* upload, an email, a message sent.  What lies between two such calls     *)
(* (ffmpeg, the ASR and LLM requests) is part of the step that publishes   *)
(* its outcome.  Between any two steps of a run the reaper, another        *)
(* delivery of the same message, or the loss of the worker can come.       *)
(***************************************************************************)
EXTENDS JobStore

CONSTANTS
  Overrun,       \* a job may wait or run longer than REAPER_STALE_SECONDS
  Redelivery,    \* the broker may deliver an unacknowledged message again
  RegenColumns,  \* columns regeneration fills: {} when LLM_SUMMQ_REGEN is off
  EnabledEvals   \* LLM_JUDGE_ENABLED, LLM_SUMMQ_ENABLED

ASSUME JobPipelineAssumption ==
  /\ Overrun \in BOOLEAN
  /\ Redelivery \in BOOLEAN
  /\ RegenColumns \in {{}, {"summq_eval"}, Evals}
  /\ EnabledEvals \subseteq Evals

Request == {"new", "inserted", "uploaded", "accepted", "failed"}

(* Where a run of the task is: the call it makes next.  "none" is a         *)
(* delivery the broker has not made; the last four have ended.              *)
Uploading == {"upload_summary", "upload_transcript", "upload_summary_json"}
PipelineStage == {"preprocess", "preprocessed", "asr", "summarize"}
                 \union Uploading \union {"persist", "email", "finish"}
Running == PipelineStage \union {"dispatch", "delay"}
Ended == {"returned", "raised", "killed", "lost"}
Stage == {"none"} \union Running \union Ended

VARIABLES
  request,    \* how far the POST request that creates the job has come
  inbox,      \* copies of the job's process_job message not yet delivered
  delivered,  \* deliveries of it so far
  stage,      \* the state of each delivery's run
  todo,       \* signal columns a run has computed, or evals it will send
  mailed,     \* deliveries whose run got an email to the recipients
  reaping,    \* jobs the reaper's open transaction has selected
  evalSent    \* messages for the post-terminal eval tasks

runVars == <<stage, todo>>
pipelineVars == <<request, inbox, delivered, stage, todo, mailed, reaping, evalSent>>
vars == <<storeVars, pipelineVars>>

EvalMessage == [job : Jobs, delivery : Deliveries, eval : Evals]

PipelineTypeOK ==
  /\ request \in [Jobs -> Request]
  /\ inbox \in [Jobs -> 0 .. MaxDeliveries]
  /\ delivered \in [Jobs -> 0 .. MaxDeliveries]
  /\ stage \in [Jobs -> [Deliveries -> Stage]]
  /\ todo \in [Jobs -> [Deliveries -> SUBSET SignalColumn]]
  /\ mailed \in [Jobs -> SUBSET Deliveries]
  /\ reaping \in SUBSET Jobs
  /\ evalSent \in SUBSET EvalMessage

TypeOK == StoreTypeOK /\ PipelineTypeOK

PipelineInit ==
  /\ request = [j \in Jobs |-> "new"]
  /\ inbox = [j \in Jobs |-> 0]
  /\ delivered = [j \in Jobs |-> 0]
  /\ stage = [j \in Jobs |-> [n \in Deliveries |-> "none"]]
  /\ todo = [j \in Jobs |-> [n \in Deliveries |-> {}]]
  /\ mailed = [j \in Jobs |-> {}]
  /\ reaping = {}
  /\ evalSent = {}

Init == StoreInit /\ PipelineInit

-----------------------------------------------------------------------------
(* Two shapes of step                                                       *)

(* The run of delivery n makes the call it stands before. *)
Goto(j, n, from, to) ==
  /\ stage[j][n] = from
  /\ stage' = [stage EXCEPT ![j][n] = to]

(* A worker takes the message and process_job reads the row.                *)
Deliver(j, n, first) ==
  /\ inbox[j] > 0
  /\ n = delivered[j] + 1
  /\ inbox' = [inbox EXCEPT ![j] = @ - 1]
  /\ delivered' = [delivered EXCEPT ![j] = n]
  /\ stage' = [stage EXCEPT ![j][n] = first]
  /\ UNCHANGED <<storeVars, request, todo, mailed, reaping, evalSent>>

-----------------------------------------------------------------------------
(* Faulty variants of steps below, for showing that a property can fail.    *)

(* The message goes out before the upload. *)
EnqueueEarly(j) ==
  /\ request[j] \in {"inserted", "uploaded"}
  /\ request' = [request EXCEPT ![j] = "accepted"]
  /\ inbox' = [inbox EXCEPT ![j] = 1]
  /\ UNCHANGED <<storeVars, delivered, stage, todo, mailed, reaping, evalSent>>

(* No idempotency guard. *)
BeginAlways(j, n) == Deliver(j, n, "preprocess")

(* A guard that lets the runs of lost workers start over. *)
BeginUnlessTerminal(j, n) ==
  /\ status[j] \in Active
  /\ Deliver(j, n, "preprocess")

(* A failed upload of the transcript is passed over. *)
UploadResultLossy(j, n) ==
  /\ \/ Goto(j, n, "upload_summary", "upload_transcript")
        /\ UploadFile(j, "summary", n)
     \/ Goto(j, n, "upload_transcript", "upload_summary_json")
        /\ UNCHANGED storeVars
     \/ Goto(j, n, "upload_summary_json", "persist")
        /\ UploadFile(j, "summary_json", n)
  /\ UNCHANGED <<request, inbox, delivered, todo, mailed, reaping, evalSent>>

(* A failure of the mail server is swallowed. *)
EmailFailsSilently(j, n) ==
  /\ Goto(j, n, "email", "finish")
  /\ UNCHANGED <<storeVars, request, inbox, delivered, todo, mailed, reaping, evalSent>>

(* A status the enum does not have: the column is a plain string. *)
MarkCompleted(j, n) ==
  /\ Goto(j, n, "finish", "dispatch")
  /\ UpdateStatus(j, "completed")
  /\ UNCHANGED <<request, inbox, delivered, todo, mailed, reaping, evalSent>>

(* Every enabled eval is sent, whatever is stored already. *)
ReadNothing(j, n) ==
  /\ Goto(j, n, "dispatch", "delay")
  /\ todo' = [todo EXCEPT ![j][n] = EnabledEvals]
  /\ UNCHANGED <<storeVars, request, inbox, delivered, mailed, reaping, evalSent>>

(* Only the evals that regeneration is not configured to compute. *)
ReadSettings(j, n) ==
  /\ Goto(j, n, "dispatch", "delay")
  /\ todo' = [todo EXCEPT ![j][n] = EnabledEvals \ RegenColumns]
  /\ UNCHANGED <<storeVars, request, inbox, delivered, mailed, reaping, evalSent>>

(* A list of active statuses that lacks one. *)
ReapableShort == {j \in Jobs : status[j] \in {"queued", "asr_running"} /\ stale[j]}

-----------------------------------------------------------------------------
(* POST /v1/jobs                                                            *)

CreateRow(j) ==
  /\ request[j] = "new"
  /\ request' = [request EXCEPT ![j] = "inserted"]
  /\ \E recipients \in BOOLEAN : InsertJob(j, recipients)
  /\ UNCHANGED <<inbox, delivered, stage, todo, mailed, reaping, evalSent>>

UploadSource(j) ==
  /\ request[j] = "inserted"
  /\ request' = [request EXCEPT ![j] = "uploaded"]
  /\ UploadFile(j, "source", Original)
  /\ UNCHANGED <<inbox, delivered, stage, todo, mailed, reaping, evalSent>>

Enqueue(j) ==
  /\ request[j] = "uploaded"
  /\ request' = [request EXCEPT ![j] = "accepted"]
  /\ inbox' = [inbox EXCEPT ![j] = 1]
  /\ UNCHANGED <<storeVars, delivered, stage, todo, mailed, reaping, evalSent>>

(* The transaction, the upload or the broker refuses, or the API process    *)
(* dies: the client gets no job id, and a row already inserted stays.       *)
RequestFails(j) ==
  /\ request[j] \in {"new", "inserted", "uploaded"}
  /\ request' = [request EXCEPT ![j] = "failed"]
  /\ UNCHANGED <<storeVars, inbox, delivered, stage, todo, mailed, reaping, evalSent>>

-----------------------------------------------------------------------------
(* The broker                                                               *)

Unacknowledged(j) == inbox[j] > 0 \/ \E n \in Deliveries : stage[j][n] \in Running

(* Bound: a message is queued again only while a delivery is left for it.   *)
CanRequeue(j) == inbox[j] + delivered[j] < MaxDeliveries

(* The visibility timeout of the Redis broker runs out on a message that a  *)
(* worker holds but has not acknowledged (acks_late).                       *)
Redeliver(j) ==
  /\ Redelivery
  /\ Unacknowledged(j)
  /\ CanRequeue(j)
  /\ inbox' = [inbox EXCEPT ![j] = @ + 1]
  /\ UNCHANGED <<storeVars, request, delivered, stage, todo, mailed, reaping, evalSent>>

Begin(j, n) ==
  /\ status[j] = "queued"
  /\ Deliver(j, n, "preprocess")

(* The idempotency guard.  The early return still dispatches the evals.     *)
SkipProcessed(j, n) ==
  /\ status[j] # "queued"
  /\ Deliver(j, n, "dispatch")

-----------------------------------------------------------------------------
(* The pipeline of delivery n                                               *)

(* The caller goes on with the row it read in Begin: the session keeps it   *)
(* across commits, and its later writes extend the keys in that copy.  A    *)
(* queued row has the key "source" alone (theorem QueuedRowsAreFresh), so   *)
(* what StartAsr and Persist write is the same for every run.               *)
Preprocess(j, n) ==
  /\ Goto(j, n, "preprocess", "preprocessed")
  /\ object[j]["source"] # Absent
  /\ UploadFile(j, "preprocessed", n)
  /\ UNCHANGED <<request, inbox, delivered, todo, mailed, reaping, evalSent>>

StartAsr(j, n) ==
  /\ Goto(j, n, "preprocessed", "asr")
  /\ status' = [status EXCEPT ![j] = "asr_running"]
  /\ artifacts' = [artifacts EXCEPT ![j] = {"source", "preprocessed"}]
  /\ UNCHANGED <<emails, signals, stale, object>>
  /\ UNCHANGED <<request, inbox, delivered, todo, mailed, reaping, evalSent>>

Transcribed(j, n) ==
  /\ Goto(j, n, "asr", "summarize")
  /\ object[j]["preprocessed"] # Absent
  /\ UpdateStatus(j, "summary_running")
  /\ UNCHANGED <<request, inbox, delivered, todo, mailed, reaping, evalSent>>

(* summarize_transcript, then regeneration and the inline guards.  The last *)
(* two never fail the job: on an error their columns are just not written.  *)
Summarized(j, n) ==
  /\ Goto(j, n, "summarize", "upload_summary")
  /\ \E flags \in {{}, {"quality_flags"}}, regen \in {{}, RegenColumns} :
       todo' = [todo EXCEPT ![j][n] = flags \union regen]
  /\ UNCHANGED <<storeVars, request, inbox, delivered, mailed, reaping, evalSent>>

UploadResult(j, n) ==
  /\ \/ Goto(j, n, "upload_summary", "upload_transcript")
        /\ UploadFile(j, "summary", n)
     \/ Goto(j, n, "upload_transcript", "upload_summary_json")
        /\ UploadFile(j, "transcript", n)
     \/ Goto(j, n, "upload_summary_json", "persist")
        /\ UploadFile(j, "summary_json", n)
  /\ UNCHANGED <<request, inbox, delivered, todo, mailed, reaping, evalSent>>

(* One update_job for the keys, the flags and the regeneration's metrics.   *)
Persist(j, n) ==
  /\ Goto(j, n, "persist", "email")
  /\ artifacts' = [artifacts EXCEPT ![j] = Artifact]
  /\ signals' = [signals EXCEPT ![j] =
       [c \in SignalColumn |-> IF c \in todo[j][n]
                               THEN [by |-> "pipeline", of |-> n]
                               ELSE signals[j][c]]]
  /\ todo' = [todo EXCEPT ![j][n] = {}]
  /\ UNCHANGED <<status, emails, stale, object>>
  /\ UNCHANGED <<request, inbox, delivered, mailed, reaping, evalSent>>

(* send_email: nothing is sent, and nothing can fail, without recipients.   *)
EmailSent(j, n) ==
  /\ Goto(j, n, "email", "finish")
  /\ mailed' = [mailed EXCEPT ![j] = IF emails[j] THEN @ \union {n} ELSE @]
  /\ UNCHANGED <<storeVars, request, inbox, delivered, todo, reaping, evalSent>>

(* The exception may come after the server has taken the message.           *)
EmailFails(j, n) ==
  /\ Goto(j, n, "email", "dispatch")
  /\ emails[j]
  /\ \E taken \in {{}, {n}} : mailed' = [mailed EXCEPT ![j] = @ \union taken]
  /\ UpdateStatus(j, "email_failed")
  /\ UNCHANGED <<request, inbox, delivered, todo, reaping, evalSent>>

MarkDone(j, n) ==
  /\ Goto(j, n, "finish", "dispatch")
  /\ UpdateStatus(j, "done")
  /\ UNCHANGED <<request, inbox, delivered, todo, mailed, reaping, evalSent>>

(* An exception in one of the three guarded stages, or an empty transcript. *)
StageFails(j, n) ==
  /\ \E s \in {"preprocess", "asr", "summarize"} : Goto(j, n, s, "dispatch")
  /\ UpdateStatus(j, "failed")
  /\ UNCHANGED <<request, inbox, delivered, todo, mailed, reaping, evalSent>>

-----------------------------------------------------------------------------
(* _dispatch_post_terminal: one read of the row, then the messages          *)

ReadSignals(j, n) ==
  /\ Goto(j, n, "dispatch", "delay")
  /\ todo' = [todo EXCEPT ![j][n] = {e \in EnabledEvals : signals[j][e].by = "nobody"}]
  /\ UNCHANGED <<storeVars, request, inbox, delivered, mailed, reaping, evalSent>>

SendEval(j, n, e) ==
  /\ stage[j][n] = "delay"
  /\ e \in todo[j][n]
  /\ e = "summq_eval" => "quality_eval" \notin todo[j][n]
  /\ todo' = [todo EXCEPT ![j][n] = @ \ {e}]
  /\ evalSent' = evalSent \union {[job |-> j, delivery |-> n, eval |-> e]}
  /\ UNCHANGED <<storeVars, request, inbox, delivered, stage, mailed, reaping>>

(* The task returns and the worker acknowledges the message.                *)
Return(j, n) ==
  /\ Goto(j, n, "delay", "returned")
  /\ todo[j][n] = {}
  /\ UNCHANGED <<storeVars, request, inbox, delivered, todo, mailed, reaping, evalSent>>

-----------------------------------------------------------------------------
(* A run that does not end by returning                                     *)

(* An exception leaves the task, which acknowledges the message: one of the *)
(* uploads of the results, any update_job, the handler of the first stage,  *)
(* which decodes a stderr that may be None, or the dispatch.                *)
Raise(j, n) ==
  /\ \E s \in Running : Goto(j, n, s, "raised")
  /\ UNCHANGED <<storeVars, request, inbox, delivered, todo, mailed, reaping, evalSent>>

(* The hard time limit: the process is killed and the message acknowledged. *)
HardTimeLimit(j, n) ==
  /\ \E s \in Running : Goto(j, n, s, "killed")
  /\ UNCHANGED <<storeVars, request, inbox, delivered, todo, mailed, reaping, evalSent>>

(* The worker process dies: reject_on_worker_lost queues the message again. *)
WorkerLost(j, n) ==
  /\ \E s \in Running : Goto(j, n, s, "lost")
  /\ CanRequeue(j)
  /\ inbox' = [inbox EXCEPT ![j] = @ + 1]
  /\ UNCHANGED <<storeVars, request, delivered, todo, mailed, reaping, evalSent>>

-----------------------------------------------------------------------------
(* The clock and the reaper                                                 *)

(* Nobody is working on the job, nor about to. *)
Settled(j) ==
  /\ request[j] \in {"accepted", "failed"}
  /\ ~Unacknowledged(j)

(* REAPER_STALE_SECONDS (30 minutes) pass since updated_at, which only the  *)
(* insertion and the reaper set.  JOB_SOFT_TIMEOUT allows a run 6 hours, so *)
(* Overrun is the deployed configuration; its negation is the assumption    *)
(* that every job ends within the threshold.                                *)
Age(j) ==
  /\ status[j] # "non_existing"
  /\ ~stale[j]
  /\ Overrun \/ Settled(j)
  /\ stale' = [stale EXCEPT ![j] = TRUE]
  /\ UNCHANGED <<status, emails, artifacts, signals, object, pipelineVars>>

Reapable == {j \in Jobs : status[j] \in Active /\ stale[j]}

ReapSelect ==
  /\ reaping = {}
  /\ Reapable # {}
  /\ reaping' = Reapable
  /\ UNCHANGED <<storeVars, request, inbox, delivered, stage, todo, mailed, evalSent>>

(* The UPDATE at commit is by primary key, whatever the status is by then.  *)
ReapCommit ==
  /\ reaping # {}
  /\ status' = [j \in Jobs |-> IF j \in reaping THEN "failed" ELSE status[j]]
  /\ stale' = [j \in Jobs |-> IF j \in reaping THEN FALSE ELSE stale[j]]
  /\ reaping' = {}
  /\ UNCHANGED <<emails, artifacts, signals, object>>
  /\ UNCHANGED <<request, inbox, delivered, stage, todo, mailed, evalSent>>

-----------------------------------------------------------------------------
Api(j) == CreateRow(j) \/ UploadSource(j) \/ Enqueue(j) \/ RequestFails(j)

Pipeline(j, n) ==
  \/ Preprocess(j, n) \/ StartAsr(j, n) \/ Transcribed(j, n) \/ Summarized(j, n)
  \/ UploadResult(j, n) \/ Persist(j, n) \/ EmailSent(j, n) \/ EmailFails(j, n)
  \/ MarkDone(j, n) \/ StageFails(j, n)

Dispatch(j, n) ==
  ReadSignals(j, n) \/ Return(j, n) \/ \E e \in Evals : SendEval(j, n, e)

Run(j, n) == Pipeline(j, n) \/ Dispatch(j, n)

Abort(j, n) == Raise(j, n) \/ HardTimeLimit(j, n) \/ WorkerLost(j, n)

Next ==
  \/ \E j \in Jobs : Api(j) \/ Redeliver(j) \/ Age(j)
  \/ \E j \in Jobs, n \in Deliveries :
       Begin(j, n) \/ SkipProcessed(j, n) \/ Run(j, n) \/ Abort(j, n)
  \/ ReapSelect
  \/ ReapCommit

Spec == Init /\ [][Next]_vars

(* The clock runs on, and beat schedules the reaper every 300 s: the worker *)
(* container that runs it restarts unless it is stopped.                    *)
ReaperFairness ==
  /\ \A j \in Jobs : WF_vars(Age(j))
  /\ WF_vars(ReapSelect)
  /\ WF_vars(ReapCommit)

ReaperSpec == Spec /\ ReaperFairness

(* A POST ends, a worker takes a waiting message, and no run stands still:  *)
(* the hard time limit ends one that does.                                  *)
WorkFairness ==
  \A j \in Jobs :
    /\ WF_vars(request[j] # "new" /\ Api(j))
    /\ \A n \in Deliveries :
         /\ WF_vars(Begin(j, n) \/ SkipProcessed(j, n))
         /\ WF_vars(Run(j, n) \/ HardTimeLimit(j, n))

FairSpec == ReaperSpec /\ WorkFairness

-----------------------------------------------------------------------------
(* Safety                                                                   *)

(* The keys in the copy of the row that a run before a call works with. *)
KeysCached(s) ==
  IF s \in {"preprocess", "preprocessed"} THEN {"source"}
  ELSE IF s \in {"email", "finish"} THEN Artifact
  ELSE {"source", "preprocessed"}

(* process_job works with the copy of the row that it read while the job    *)
(* was queued and that its own writes alone update: it saves the keys of    *)
(* the copy with its own, and an empty signal in the copy counts as one in  *)
(* the row (a None set to None is not written).  The copy agrees with the   *)
(* row, so no key is lost and no other run's signal is left beside this     *)
(* run's output, whatever lost runs, requeued messages, the evals and the   *)
(* reaper do.                                                               *)
CachedRowHolds ==
  \A j \in Jobs, n \in Deliveries :
    stage[j][n] \in PipelineStage =>
      /\ artifacts[j] = KeysCached(stage[j][n])
      /\ stage[j][n] \notin {"email", "finish"} =>
           \A c \in SignalColumn : signals[j][c] = NoSignal

(* The order of create_job_api, upload and then delay: a worker that holds  *)
(* a message finds the source in S3, though the row precedes both.          *)
EnqueuedHasSource ==
  \A j \in Jobs : Unacknowledged(j) => object[j]["source"] # Absent

(* A job is DONE only when every object its row can name is in S3, under    *)
(* duplicate deliveries, lost workers and a reaper that overwrites states.  *)
(* The row's keys may be gone all the same: see DoneIsReadable.             *)
DoneIsStored ==
  \A j \in Jobs :
    status[j] = "done" => \A k \in Artifact : object[j][k] # Absent

(* Nor before its summary was sent to the recipients, if it has any.        *)
DoneWasMailed ==
  \A j \in Jobs : status[j] = "done" /\ emails[j] => mailed[j] # {}

(* "Safe under Celery redelivery" (docstring of pipeline.process_job): the  *)
(* guard on QUEUED lets the recipients get one email for a job.             *)
MailedAtMostOnce ==
  \A j \in Jobs : \A m, n \in mailed[j] : m = n

(* The same guard keeps two runs of a job from working side by side.        *)
OneRunAtATime ==
  \A j \in Jobs : \A m, n \in Deliveries :
    stage[j][m] \in Running /\ stage[j][n] \in Running => m = n

(* A client that sees DONE gets the result: GET /result answers 200, and    *)
(* what it and PATCH /result serve is one run's output, the one the         *)
(* recipients were sent.                                                    *)
ServedIsMailed ==
  \A j \in Jobs :
    status[j] = "done" =>
      /\ GetResult(j) = "ok"
      /\ \E n \in Deliveries :
           /\ \A k \in Result : object[j][k] = n
           /\ emails[j] => n \in mailed[j]

(* "Keying off the persisted state (not the regen config flag) also         *)
(* self-heals" (docstring of _dispatch_post_terminal): once a run returned, *)
(* each enabled eval has its score or was sent, though regeneration wrote   *)
(* nothing, and though another delivery or the reaper got in between.       *)
EvalsNotForgotten ==
  \A j \in Jobs, n \in Deliveries, e \in EnabledEvals :
    stage[j][n] = "returned" =>
      \/ signals[j][e] # NoSignal
      \/ \E m \in evalSent : m.job = j /\ m.eval = e

(* "Safe under Celery redelivery" (pipeline.process_job), and "available    *)
(* only when status is done" (README, GET /result): a client that sees DONE *)
(* is answered with the summary.                                            *)
DoneIsReadable ==
  \A j \in Jobs : status[j] = "done" => GetResult(j) = "ok"

-----------------------------------------------------------------------------
(* Action and temporal properties                                           *)

(* "DONE/FAILED/EMAIL_FAILED are terminal" (docstring of JobStatus).        *)
TerminalIsFinal ==
  [][\A j \in Jobs : status[j] \in Terminal => status'[j] = status[j]]_vars

(* "any failure drives the job to a terminal FAILED/EMAIL_FAILED state      *)
(* instead of raising out of the task" (docstring of pipeline.py), for a    *)
(* failure of S3 while the results are uploaded.                            *)
UploadFailureIsTerminal ==
  [][\A j \in Jobs, n \in Deliveries :
       stage[j][n] \in Uploading /\ stage'[j][n] = "raised"
         => status'[j] \in Terminal]_vars

Lifecycle == INSTANCE JobLifecycle WITH Jobs <- Jobs, status <- status

(* The status a row has while its run stands before a call. *)
StatusAt(s) ==
  IF s \in {"preprocess", "preprocessed"} THEN "queued"
  ELSE IF s = "asr" THEN "asr_running" ELSE "summary_running"

(* Where a run may outlast the reaper's threshold but no message comes      *)
(* again while its run is alive, two things alone move a status out of the  *)
(* order of JobLifecycle: the reaper, which fails a job whatever has become *)
(* of it since it was selected, and the run of a job the reaper has failed, *)
(* which writes what comes next as though nothing had happened.  A job that *)
(* has left "queued" does not start over when its worker is lost.           *)
ReaperAloneDisturbs ==
  [][\A j \in Jobs :
       \/ status'[j] \in {status[j]} \union Lifecycle!Following(status[j])
       \/ j \in reaping /\ status'[j] = "failed"
       \/ /\ status[j] = "failed"
          /\ \E n \in Deliveries :
               /\ stage[j][n] \in PipelineStage
               /\ status'[j] \in Lifecycle!Following(StatusAt(stage[j][n]))]_vars

(* The reaper is a sufficient backstop: whatever the API, the broker and    *)
(* the workers do or cease to do, a job settles in a terminal status.       *)
Settles ==
  \A j \in Jobs : status[j] = "queued" ~> [](status[j] \in Terminal)

(* When every job ends within the staleness threshold and no message is     *)
(* delivered twice, the whole system keeps the promise of JobLifecycle.     *)
LifecycleSafety == Lifecycle!LifecycleSafety
LifecycleSpec == Lifecycle!LifecycleSpec
=============================================================================
