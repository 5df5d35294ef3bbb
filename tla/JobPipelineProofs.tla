------------------------- MODULE JobPipelineProofs --------------------------
(***************************************************************************)
(* Theorems about JobPipeline for every set of jobs, every bound on the    *)
(* deliveries and every configuration: Overrun, Redelivery, RegenColumns   *)
(* and EnabledEvals are arbitrary here.                                    *)
(***************************************************************************)
EXTENDS JobPipeline, TLAPS

USE JobStoreAssumption, JobPipelineAssumption

-----------------------------------------------------------------------------
(* Type correctness                                                         *)

LEMMA TypeInit == Init => TypeOK
BY DEF Init, StoreInit, PipelineInit, TypeOK, StoreTypeOK, PipelineTypeOK,
       Deliveries, Version, Signal, NoSignal, Status, Active, Terminal,
       Request, Stage, Absent

LEMMA TypeApi ==
  ASSUME TypeOK, NEW j \in Jobs, Api(j)
  PROVE  TypeOK'
<1> USE DEF TypeOK, StoreTypeOK, PipelineTypeOK, storeVars, Request
<1>1. CASE CreateRow(j)
  <2>1. PICK recipients \in BOOLEAN : InsertJob(j, recipients)
    BY <1>1 DEF CreateRow
  <2>2. emails' \in [Jobs -> BOOLEAN]
    BY <2>1 DEF InsertJob
  <2>3. /\ status' \in [Jobs -> Status]
        /\ artifacts' \in [Jobs -> SUBSET Artifact]
    BY <2>1 DEF InsertJob, Status, Active, Artifact
  <2> QED
    BY <1>1, <2>1, <2>2, <2>3 DEF CreateRow, InsertJob
<1>2. CASE UploadSource(j)
  BY <1>2 DEF UploadSource, UploadFile, Version, Original, Artifact
<1>3. CASE Enqueue(j)
  BY <1>3 DEF Enqueue
<1>4. CASE RequestFails(j)
  BY <1>4 DEF RequestFails
<1> QED
  BY <1>1, <1>2, <1>3, <1>4 DEF Api

LEMMA TypeRedeliver ==
  ASSUME TypeOK, NEW j \in Jobs, Redeliver(j)
  PROVE  TypeOK'
BY DEF Redeliver, CanRequeue, TypeOK, StoreTypeOK, PipelineTypeOK, storeVars

LEMMA TypeBroker ==
  ASSUME TypeOK, NEW j \in Jobs, NEW n \in Deliveries, Begin(j, n) \/ SkipProcessed(j, n)
  PROVE  TypeOK'
<1>1. ASSUME NEW first \in Stage, Deliver(j, n, first) PROVE TypeOK'
  BY <1>1 DEF Deliver, Deliveries, TypeOK, StoreTypeOK, PipelineTypeOK, storeVars
<1> QED
  BY <1>1 DEF Begin, SkipProcessed, Stage, Running, PipelineStage

LEMMA TypePipeline ==
  ASSUME TypeOK, NEW j \in Jobs, NEW n \in Deliveries, Pipeline(j, n)
  PROVE  TypeOK'
<1> USE DEF TypeOK, StoreTypeOK, PipelineTypeOK, storeVars, Goto, Stage, Running, PipelineStage
<1>1. CASE Preprocess(j, n)
  BY <1>1 DEF Preprocess, UploadFile, Version, Artifact
<1>2. CASE StartAsr(j, n)
  BY <1>2 DEF StartAsr, Status, Active, Artifact
<1>3. CASE Transcribed(j, n)
  BY <1>3 DEF Transcribed, UpdateStatus, Status, Active
<1>4. CASE Summarized(j, n)
  <2>1. PICK flags \in {{}, {"quality_flags"}}, regen \in {{}, RegenColumns} :
          todo' = [todo EXCEPT ![j][n] = flags \union regen]
    BY <1>4 DEF Summarized
  <2>2. flags \union regen \in SUBSET SignalColumn
    BY DEF SignalColumn, Evals
  <2>3. todo' \in [Jobs -> [Deliveries -> SUBSET SignalColumn]]
    BY <2>1, <2>2
  <2> QED
    BY <1>4, <2>3 DEF Summarized, Uploading
<1>5. CASE UploadResult(j, n)
  <2>1. PICK k \in Artifact : UploadFile(j, k, n)
    BY <1>5 DEF UploadResult, Artifact, Result
  <2>2. \E to \in Uploading \union {"persist"} : stage' = [stage EXCEPT ![j][n] = to]
    BY <1>5 DEF UploadResult, Uploading
  <2> QED
    BY <1>5, <2>1, <2>2 DEF UploadResult, UploadFile, Version
<1>6. CASE Persist(j, n)
  <2>1. [by |-> "pipeline", of |-> n] \in Signal
    BY DEF Signal, Version
  <2>2. signals' \in [Jobs -> [SignalColumn -> Signal]]
    BY <1>6, <2>1 DEF Persist
  <2> QED
    BY <1>6, <2>2 DEF Persist
<1>7. CASE EmailSent(j, n)
  BY <1>7 DEF EmailSent
<1>8. CASE EmailFails(j, n)
  BY <1>8 DEF EmailFails, UpdateStatus, Status, Terminal
<1>9. CASE MarkDone(j, n)
  BY <1>9 DEF MarkDone, UpdateStatus, Status, Terminal
<1>10. CASE StageFails(j, n)
  BY <1>10 DEF StageFails, UpdateStatus, Status, Terminal
<1> QED
  BY <1>1, <1>2, <1>3, <1>4, <1>5, <1>6, <1>7, <1>8, <1>9, <1>10 DEF Pipeline

LEMMA TypeEnd ==
  ASSUME TypeOK, NEW j \in Jobs, NEW n \in Deliveries, Dispatch(j, n) \/ Abort(j, n)
  PROVE  TypeOK'
<1> USE DEF TypeOK, StoreTypeOK, PipelineTypeOK, storeVars, Goto, Stage, Running, Ended
<1>1. CASE ReadSignals(j, n)
  <2>1. {e \in EnabledEvals : signals[j][e].by = "nobody"} \in SUBSET SignalColumn
    BY DEF SignalColumn
  <2> QED
    BY <1>1, <2>1 DEF ReadSignals
<1>2. CASE Return(j, n)
  BY <1>2 DEF Return
<1>3. ASSUME NEW e \in Evals, SendEval(j, n, e) PROVE TypeOK'
  BY <1>3 DEF SendEval, EvalMessage
<1>4. CASE Raise(j, n)
  BY <1>4 DEF Raise
<1>5. CASE HardTimeLimit(j, n)
  BY <1>5 DEF HardTimeLimit
<1>6. CASE WorkerLost(j, n)
  BY <1>6 DEF WorkerLost, CanRequeue
<1> QED
  BY <1>1, <1>2, <1>3, <1>4, <1>5, <1>6 DEF Dispatch, Abort

LEMMA TypeReaper ==
  ASSUME TypeOK, ReapSelect \/ ReapCommit \/ \E j \in Jobs : Age(j)
  PROVE  TypeOK'
<1> USE DEF TypeOK, StoreTypeOK, PipelineTypeOK, storeVars
<1>1. ASSUME NEW j \in Jobs, Age(j) PROVE TypeOK'
  BY <1>1 DEF Age, pipelineVars
<1>2. CASE ReapSelect
  BY <1>2 DEF ReapSelect, Reapable
<1>3. CASE ReapCommit
  BY <1>3 DEF ReapCommit, Status, Terminal
<1> QED
  BY <1>1, <1>2, <1>3

LEMMA TypeNext == TypeOK /\ [Next]_vars => TypeOK'
<1>1. ASSUME TypeOK, UNCHANGED vars PROVE TypeOK'
  BY <1>1 DEF vars, storeVars, pipelineVars, TypeOK, StoreTypeOK, PipelineTypeOK
<1> QED
  <2>1. ASSUME TypeOK, NEW j \in Jobs, Api(j) \/ Redeliver(j) \/ Age(j)
        PROVE  TypeOK'
    BY <2>1, TypeApi, TypeRedeliver, TypeReaper
  <2>2. ASSUME TypeOK, NEW j \in Jobs, NEW n \in Deliveries,
               Begin(j, n) \/ SkipProcessed(j, n) \/ Run(j, n) \/ Abort(j, n)
        PROVE  TypeOK'
    BY <2>2, TypeBroker, TypePipeline, TypeEnd DEF Run
  <2> QED
    BY <1>1, <2>1, <2>2, TypeReaper DEF Next

(* Every reachable state is one the declarations of the schema allow, and   *)
(* the bound on deliveries is kept: no step can leave its variables' types. *)
THEOREM TypeCorrect == Spec => []TypeOK
BY TypeInit, TypeNext, PTL DEF Spec

-----------------------------------------------------------------------------
(* The safety invariant of every configuration                              *)

(* Past a stage, what the stage had to leave behind. *)
SummaryStored == {"upload_transcript", "upload_summary_json", "persist", "email", "finish"}
TranscriptStored == SummaryStored \ {"upload_transcript"}
AllStored == TranscriptStored \ {"upload_summary_json"}
AsrStarted == Running \ {"preprocess", "preprocessed"}
InPipeline == PipelineStage \ {"preprocess"}

RequestInv(j) ==
  /\ request[j] = "new" =>
       /\ status[j] = "non_existing"
       /\ j \notin reaping
       /\ \A c \in SignalColumn : signals[j][c] = NoSignal
  /\ request[j] # "accepted" => inbox[j] = 0 /\ delivered[j] = 0
  /\ request[j] \in {"uploaded", "accepted"} => object[j]["source"] # Absent

RunInv(j, n) ==
  /\ stage[j][n] # "none" => n <= delivered[j]
  /\ stage[j][n] \in AsrStarted => status[j] # "queued"
  /\ stage[j][n] \in InPipeline => object[j]["preprocessed"] # Absent
  /\ stage[j][n] \in SummaryStored => object[j]["summary"] # Absent
  /\ stage[j][n] \in TranscriptStored => object[j]["transcript"] # Absent
  /\ stage[j][n] \in AllStored => object[j]["summary_json"] # Absent
  /\ stage[j][n] = "finish" /\ emails[j] => mailed[j] # {}

StatusInv(j) ==
  /\ status[j] = "queued" =>
       /\ artifacts[j] = {"source"}
       /\ \A c \in SignalColumn : signals[j][c] = NoSignal
  /\ status[j] = "done" =>
       /\ \A k \in Artifact : object[j][k] # Absent
       /\ emails[j] => mailed[j] # {}

JobInv(j) == RequestInv(j) /\ StatusInv(j) /\ \A n \in Deliveries : RunInv(j, n)

Inv == TypeOK /\ \A j \in Jobs : JobInv(j)

LEMMA InvInit == Init => Inv
<1> SUFFICES ASSUME Init PROVE \A j \in Jobs : JobInv(j)
  BY TypeInit DEF Inv
<1> QED
  BY DEF Init, StoreInit, PipelineInit, JobInv, RequestInv, StatusInv, RunInv, AsrStarted,
         InPipeline, PipelineStage, Uploading, Running, SummaryStored, TranscriptStored,
         AllStored, Deliveries

(* A step of one job leaves the others as they are. *)
Same(i) ==
  /\ status'[i] = status[i] /\ emails'[i] = emails[i] /\ artifacts'[i] = artifacts[i]
  /\ signals'[i] = signals[i] /\ object'[i] = object[i] /\ request'[i] = request[i]
  /\ inbox'[i] = inbox[i] /\ delivered'[i] = delivered[i] /\ stage'[i] = stage[i]
  /\ mailed'[i] = mailed[i] /\ stale'[i] = stale[i] /\ todo'[i] = todo[i]
  /\ (i \in reaping' => i \in reaping)

JobStep(j, n) ==
  \/ Api(j) \/ Redeliver(j) \/ Age(j)
  \/ Begin(j, n) \/ SkipProcessed(j, n) \/ Run(j, n) \/ Abort(j, n)

LEMMA OthersSame ==
  ASSUME TypeOK, NEW j \in Jobs, NEW n \in Deliveries, JobStep(j, n),
         NEW i \in Jobs, i # j
  PROVE  Same(i)
<1> USE DEF Same, TypeOK, StoreTypeOK, PipelineTypeOK, storeVars, pipelineVars, Goto
<1>1. CASE Api(j)
  BY <1>1 DEF Api, CreateRow, UploadSource, Enqueue, RequestFails, InsertJob, UploadFile
<1>2. CASE Redeliver(j) \/ Age(j) \/ Begin(j, n) \/ SkipProcessed(j, n)
  <2>1. CASE Redeliver(j)
    BY <2>1 DEF Redeliver
  <2>2. CASE Age(j)
    BY <2>2 DEF Age
  <2>3. CASE Begin(j, n) \/ SkipProcessed(j, n)
    BY <2>3 DEF Begin, SkipProcessed, Deliver
  <2> QED
    BY <1>2, <2>1, <2>2, <2>3
<1>3. CASE Preprocess(j, n) \/ StartAsr(j, n) \/ Transcribed(j, n) \/ Summarized(j, n)
  BY <1>3 DEF Preprocess, StartAsr, Transcribed, Summarized, UploadFile, UpdateStatus
<1>4. CASE UploadResult(j, n) \/ Persist(j, n) \/ EmailSent(j, n)
  BY <1>4 DEF UploadResult, Persist, EmailSent, UploadFile
<1>5. CASE EmailFails(j, n) \/ MarkDone(j, n) \/ StageFails(j, n)
  BY <1>5 DEF EmailFails, MarkDone, StageFails, UpdateStatus
<1>6. CASE Dispatch(j, n)
  BY <1>6 DEF Dispatch, ReadSignals, Return, SendEval
<1>7. CASE Abort(j, n)
  BY <1>7 DEF Abort, Raise, HardTimeLimit, WorkerLost
<1> QED
  BY <1>1, <1>2, <1>3, <1>4, <1>5, <1>6, <1>7 DEF JobStep, Run, Pipeline

LEMMA SameInv ==
  ASSUME NEW i \in Jobs, JobInv(i), Same(i)
  PROVE  JobInv(i)'
BY DEF Same, JobInv, RequestInv, StatusInv, RunInv

(* Once a job's row is inserted nothing a run relies on goes away. *)
Grows(j) ==
  /\ request[j] # "new" /\ request'[j] # "new"
  /\ status'[j] = "queued" => status[j] = "queued"
  /\ emails'[j] = emails[j]
  /\ delivered[j] <= delivered'[j]
  /\ \A k \in Artifact : object[j][k] # Absent => object'[j][k] # Absent
  /\ mailed[j] \subseteq mailed'[j]

LEMMA RunStable ==
  ASSUME TypeOK, TypeOK', NEW j \in Jobs, NEW n \in Deliveries,
         RunInv(j, n), Grows(j), stage'[j][n] = stage[j][n]
  PROVE  RunInv(j, n)'
<1>1. /\ stage'[j][n] # "none" => n <= delivered'[j]
      /\ stage'[j][n] \in AsrStarted => status'[j] # "queued"
  BY DEF RunInv, Grows, TypeOK, PipelineTypeOK, Deliveries
<1>2. /\ stage'[j][n] \in InPipeline => object'[j]["preprocessed"] # Absent
      /\ stage'[j][n] \in SummaryStored => object'[j]["summary"] # Absent
      /\ stage'[j][n] \in TranscriptStored => object'[j]["transcript"] # Absent
      /\ stage'[j][n] \in AllStored => object'[j]["summary_json"] # Absent
  BY DEF RunInv, Grows, Artifact, Result
<1>3. stage'[j][n] = "finish" /\ emails'[j] => mailed'[j] # {}
  BY DEF RunInv, Grows
<1> QED
  BY <1>1, <1>2, <1>3 DEF RunInv

LEMMA NewJob ==
  ASSUME Inv, TypeOK', NEW j \in Jobs, NEW n \in Deliveries, JobStep(j, n), request[j] = "new"
  PROVE  JobInv(j)'
<1>1. /\ status[j] = "non_existing" /\ j \notin reaping /\ inbox[j] = 0 /\ delivered[j] = 0
      /\ \A c \in SignalColumn : signals[j][c] = NoSignal
  BY DEF Inv, JobInv, RequestInv
<1>2. \A m \in Deliveries : stage[j][m] = "none"
  BY <1>1 DEF Inv, JobInv, RunInv, Deliveries, TypeOK, PipelineTypeOK
<1>3. CreateRow(j) \/ RequestFails(j)
  <2>1. ~ UploadSource(j) /\ ~ Enqueue(j)
    BY DEF UploadSource, Enqueue
  <2>2. ~ Begin(j, n) /\ ~ SkipProcessed(j, n)
    BY <1>1 DEF Begin, SkipProcessed, Deliver
  <2>3. ~ Redeliver(j) /\ ~ Age(j)
    BY <1>1, <1>2 DEF Redeliver, Unacknowledged, Age, Running, PipelineStage, Uploading
  <2>4. stage[j][n] = "none"
    BY <1>2, Zenon
  <2>5. ~ Preprocess(j, n) /\ ~ StartAsr(j, n) /\ ~ Transcribed(j, n) /\ ~ Summarized(j, n)
    BY <2>4 DEF Preprocess, StartAsr, Transcribed, Summarized, Goto
  <2>6. ~ UploadResult(j, n) /\ ~ Persist(j, n) /\ ~ EmailSent(j, n) /\ ~ EmailFails(j, n)
    BY <2>4 DEF UploadResult, Persist, EmailSent, EmailFails, Goto, Uploading
  <2>7. ~ MarkDone(j, n) /\ ~ StageFails(j, n)
    BY <2>4 DEF MarkDone, StageFails, Goto
  <2>8. ~ Dispatch(j, n)
    BY <2>4 DEF Dispatch, ReadSignals, Return, SendEval, Goto
  <2>9. ~ Abort(j, n)
    BY <2>4 DEF Abort, Raise, HardTimeLimit, WorkerLost, Goto, Running, PipelineStage, Uploading
  <2> QED
    BY <2>1, <2>2, <2>3, <2>5, <2>6, <2>7, <2>8, <2>9 DEF JobStep, Api, Run, Pipeline
<1>4. /\ stage' = stage /\ inbox' = inbox /\ delivered' = delivered /\ request'[j] # "new"
      /\ request'[j] \notin {"uploaded", "accepted"} /\ signals' = signals
      /\ status'[j] = "queued" => artifacts'[j] = {"source"}
      /\ status'[j] # "done"
  BY <1>1, <1>3 DEF CreateRow, RequestFails, InsertJob, storeVars, Inv, TypeOK, StoreTypeOK,
     PipelineTypeOK
<1>5. RequestInv(j)' /\ StatusInv(j)'
  BY <1>1, <1>4 DEF RequestInv, StatusInv
<1>6. \A m \in Deliveries : RunInv(j, m)'
  BY <1>2, <1>4 DEF RunInv, AsrStarted, InPipeline, SummaryStored, TranscriptStored, AllStored,
     Running, PipelineStage, Uploading
<1> QED
  BY <1>5, <1>6 DEF JobInv

LEMMA BegunAccepted ==
  ASSUME Inv, NEW j \in Jobs, NEW n \in Deliveries, stage[j][n] # "none" \/ inbox[j] > 0
  PROVE  request[j] = "accepted"
BY DEF Inv, JobInv, RequestInv, RunInv, Deliveries, TypeOK, PipelineTypeOK

LEMMA StepGrows ==
  ASSUME Inv, TypeOK', NEW j \in Jobs, NEW n \in Deliveries, JobStep(j, n), request[j] # "new"
  PROVE  Grows(j)
<1> USE DEF Grows, Inv, TypeOK, StoreTypeOK, PipelineTypeOK, storeVars, pipelineVars, Goto
<1>1. CASE Api(j)
  BY <1>1 DEF Api, CreateRow, UploadSource, Enqueue, RequestFails, UploadFile, Original, Absent
<1>2. CASE Redeliver(j) \/ Age(j) \/ Begin(j, n) \/ SkipProcessed(j, n)
  <2>1. CASE Redeliver(j)
    BY <2>1 DEF Redeliver
  <2>2. CASE Age(j)
    BY <2>2 DEF Age
  <2>3. CASE Begin(j, n) \/ SkipProcessed(j, n)
    BY <2>3 DEF Begin, SkipProcessed, Deliver
  <2> QED
    BY <1>2, <2>1, <2>2, <2>3
<1>3. CASE Preprocess(j, n) \/ StartAsr(j, n) \/ Transcribed(j, n) \/ Summarized(j, n)
  <2>1. CASE Preprocess(j, n)
    BY <2>1 DEF Preprocess, UploadFile, Deliveries, Absent
  <2>2. CASE StartAsr(j, n)
    BY <2>2 DEF StartAsr
  <2>3. CASE Transcribed(j, n)
    BY <2>3 DEF Transcribed, UpdateStatus
  <2>4. CASE Summarized(j, n)
    BY <2>4 DEF Summarized
  <2> QED
    BY <1>3, <2>1, <2>2, <2>3, <2>4
<1>4. CASE UploadResult(j, n)
  BY <1>4 DEF UploadResult, UploadFile, Deliveries, Absent
<1>5. CASE Persist(j, n) \/ EmailSent(j, n) \/ EmailFails(j, n)
  BY <1>5 DEF Persist, EmailSent, EmailFails, UpdateStatus
<1>6. CASE MarkDone(j, n) \/ StageFails(j, n)
  BY <1>6 DEF MarkDone, StageFails, UpdateStatus
<1>7. CASE Dispatch(j, n)
  BY <1>7 DEF Dispatch, ReadSignals, Return, SendEval
<1>8. CASE Abort(j, n)
  BY <1>8 DEF Abort, Raise, HardTimeLimit, WorkerLost
<1> QED
  BY <1>1, <1>2, <1>3, <1>4, <1>5, <1>6, <1>7, <1>8 DEF JobStep, Run, Pipeline

LEMMA StepRequest ==
  ASSUME Inv, TypeOK', NEW j \in Jobs, NEW n \in Deliveries, JobStep(j, n), request[j] # "new"
  PROVE  RequestInv(j)'
<1> USE DEF Inv, TypeOK, StoreTypeOK, PipelineTypeOK, storeVars, pipelineVars
<1>1. Grows(j)
  BY StepGrows
<1>2. CASE Api(j)
  BY <1>1, <1>2 DEF Api, CreateRow, UploadSource, Enqueue, RequestFails, UploadFile, Original,
     Absent, JobInv, RequestInv, Grows, Artifact
<1>3. CASE Age(j)
  BY <1>1, <1>3 DEF Age, JobInv, RequestInv
<1>4. CASE Redeliver(j) \/ Begin(j, n) \/ SkipProcessed(j, n) \/ Run(j, n) \/ Abort(j, n)
  <2>1. request' = request
    BY <1>4 DEF Redeliver, Begin, SkipProcessed, Deliver, Run, Pipeline, Preprocess, StartAsr,
       Transcribed, Summarized, UploadResult, Persist, EmailSent, EmailFails, MarkDone,
       StageFails, Dispatch, ReadSignals, Return, SendEval, Abort, Raise, HardTimeLimit, WorkerLost
  <2>2. inbox[j] > 0 \/ \E m \in Deliveries : stage[j][m] # "none"
    BY <1>4 DEF Redeliver, Unacknowledged, Begin, SkipProcessed, Deliver, Run, Pipeline,
       Preprocess, StartAsr, Transcribed, Summarized, UploadResult, Persist, EmailSent,
       EmailFails, MarkDone, StageFails, Dispatch, ReadSignals, Return, SendEval, Abort, Raise,
       HardTimeLimit, WorkerLost, Goto, Running, PipelineStage, Uploading
  <2>3. request[j] = "accepted"
    BY <2>2, BegunAccepted
  <2> QED
    BY <1>1, <2>1, <2>3 DEF JobInv, RequestInv, Grows, Artifact
<1> QED
  BY <1>2, <1>3, <1>4 DEF JobStep

(* Only MarkDone makes a job DONE, and only a run that is past the queued   *)
(* state writes the keys or the signals.                                    *)
LEMMA StepStatus ==
  ASSUME Inv, TypeOK', NEW j \in Jobs, NEW n \in Deliveries, JobStep(j, n), request[j] # "new"
  PROVE  StatusInv(j)'
<1> USE DEF Inv, JobInv, TypeOK, StoreTypeOK, PipelineTypeOK, storeVars, pipelineVars, Goto
<1>1. Grows(j)
  BY StepGrows
<1>2. \/ UNCHANGED <<status, artifacts, signals>>
      \/ /\ artifacts' = artifacts /\ signals' = signals
         /\ status'[j] \notin {"queued", "done"}
      \/ StartAsr(j, n) \/ Persist(j, n) \/ MarkDone(j, n)
  <2>1. CASE Api(j)
    BY <2>1 DEF Api, CreateRow, UploadSource, Enqueue, RequestFails, UploadFile
  <2>2. CASE Redeliver(j) \/ Age(j) \/ Begin(j, n) \/ SkipProcessed(j, n)
    BY <2>2 DEF Redeliver, Age, Begin, SkipProcessed, Deliver
  <2>3. CASE Pipeline(j, n)
    BY <2>3 DEF Pipeline, Preprocess, Transcribed, Summarized, UploadResult, EmailSent,
       EmailFails, StageFails, UploadFile, UpdateStatus
  <2>4. CASE Dispatch(j, n) \/ Abort(j, n)
    BY <2>4 DEF Dispatch, ReadSignals, Return, SendEval, Abort, Raise, HardTimeLimit, WorkerLost
  <2> QED
    BY <2>1, <2>2, <2>3, <2>4 DEF JobStep, Run
<1>3. CASE UNCHANGED <<status, artifacts, signals>>
  BY <1>1, <1>3 DEF StatusInv, Grows
<1>4. CASE artifacts' = artifacts /\ signals' = signals /\ status'[j] \notin {"queued", "done"}
  BY <1>4 DEF StatusInv
<1>5. CASE StartAsr(j, n)
  BY <1>5 DEF StartAsr, StatusInv
<1>6. CASE Persist(j, n)
  <2>1. status'[j] = status[j] /\ status[j] # "queued"
    BY <1>6 DEF Persist, RunInv, AsrStarted, Running, PipelineStage
  <2> QED
    BY <1>1, <2>1 DEF StatusInv, Grows
<1>7. CASE MarkDone(j, n)
  <2>1. /\ stage[j][n] = "finish" /\ status'[j] = "done"
        /\ object' = object /\ mailed' = mailed /\ emails' = emails
    BY <1>7 DEF MarkDone, UpdateStatus
  <2>2. RunInv(j, n) /\ object[j]["source"] # Absent
    BY <2>1, BegunAccepted DEF RequestInv
  <2>3. \A k \in Artifact : object[j][k] # Absent
    BY <2>1, <2>2 DEF RunInv, Artifact, Result, InPipeline, PipelineStage, SummaryStored,
       TranscriptStored, AllStored
  <2> QED
    BY <2>1, <2>2, <2>3 DEF StatusInv, RunInv
<1> QED
  BY <1>2, <1>3, <1>4, <1>5, <1>6, <1>7

(* What the acting run has left behind when it comes to its next stage.     *)
LEMMA RunAdvances ==
  ASSUME TypeOK, TypeOK', NEW j \in Jobs, NEW n \in Deliveries, RunInv(j, n), Grows(j),
         stage[j][n] # "none",
         stage'[j][n] \in AsrStarted => status'[j] # "queued",
         stage'[j][n] \in InPipeline =>
           stage[j][n] \in InPipeline \/ object'[j]["preprocessed"] # Absent,
         stage'[j][n] \in SummaryStored =>
           stage[j][n] \in SummaryStored \/ object'[j]["summary"] # Absent,
         stage'[j][n] \in TranscriptStored =>
           stage[j][n] \in TranscriptStored \/ object'[j]["transcript"] # Absent,
         stage'[j][n] \in AllStored =>
           stage[j][n] \in AllStored \/ object'[j]["summary_json"] # Absent,
         stage'[j][n] = "finish" /\ emails'[j] => mailed'[j] # {}
  PROVE  RunInv(j, n)'
<1>1. n <= delivered'[j]
  BY DEF RunInv, Grows, TypeOK, PipelineTypeOK, Deliveries
<1>2. /\ stage[j][n] \in InPipeline => object'[j]["preprocessed"] # Absent
      /\ stage[j][n] \in SummaryStored => object'[j]["summary"] # Absent
      /\ stage[j][n] \in TranscriptStored => object'[j]["transcript"] # Absent
      /\ stage[j][n] \in AllStored => object'[j]["summary_json"] # Absent
  BY DEF RunInv, Grows, Artifact, Result
<1> QED
  BY <1>1, <1>2 DEF RunInv

LEMMA StepRun ==
  ASSUME Inv, TypeOK', NEW j \in Jobs, NEW n \in Deliveries, JobStep(j, n), request[j] # "new"
  PROVE  RunInv(j, n)'
<1> USE DEF Inv, JobInv, TypeOK, StoreTypeOK, PipelineTypeOK, Goto
<1>1. Grows(j)
  BY StepGrows
<1>2. CASE stage'[j][n] = stage[j][n]
  BY <1>1, <1>2, RunStable
<1>3. CASE Begin(j, n) \/ SkipProcessed(j, n)
  BY <1>3 DEF Begin, SkipProcessed, Deliver, storeVars, RunInv, AsrStarted, InPipeline,
     SummaryStored, TranscriptStored, AllStored, PipelineStage, Uploading, Deliveries
<1>4. ASSUME stage[j][n] # "none", stage'[j][n] \notin InPipeline,
             stage'[j][n] \in AsrStarted => status'[j] # "queued"
      PROVE  RunInv(j, n)'
  BY <1>1, <1>4 DEF RunInv, Grows, InPipeline, PipelineStage, SummaryStored, TranscriptStored,
     AllStored, Uploading, Deliveries
<1>5. CASE Preprocess(j, n)
  <2>1. /\ stage[j][n] = "preprocess" /\ stage'[j][n] = "preprocessed"
        /\ object'[j]["preprocessed"] # Absent
    BY <1>5 DEF Preprocess, UploadFile, Deliveries, Absent, Artifact
  <2> QED
    BY <1>1, <2>1, RunAdvances DEF AsrStarted, SummaryStored, TranscriptStored, AllStored
<1>6. CASE StartAsr(j, n) \/ Transcribed(j, n) \/ Summarized(j, n)
  <2>1. /\ \/ stage[j][n] = "preprocessed" /\ stage'[j][n] = "asr"
           \/ stage[j][n] = "asr" /\ stage'[j][n] = "summarize"
           \/ stage[j][n] = "summarize" /\ stage'[j][n] = "upload_summary"
        /\ status'[j] \in {"asr_running", "summary_running", status[j]}
        /\ stage[j][n] = "preprocessed" => status'[j] = "asr_running"
    BY <1>6 DEF StartAsr, Transcribed, Summarized, UpdateStatus, storeVars
  <2>2. stage'[j][n] \in AsrStarted => status'[j] # "queued"
    BY <2>1 DEF RunInv, AsrStarted, Running, PipelineStage
  <2> QED
    BY <1>1, <2>1, <2>2, RunAdvances DEF InPipeline, PipelineStage, SummaryStored,
       TranscriptStored, AllStored
<1>7. CASE UploadResult(j, n)
  <2>1. /\ \/ /\ stage[j][n] = "upload_summary" /\ stage'[j][n] = "upload_transcript"
              /\ object'[j]["summary"] # Absent
           \/ /\ stage[j][n] = "upload_transcript" /\ stage'[j][n] = "upload_summary_json"
              /\ object'[j]["transcript"] # Absent
           \/ /\ stage[j][n] = "upload_summary_json" /\ stage'[j][n] = "persist"
              /\ object'[j]["summary_json"] # Absent
        /\ status' = status
    BY <1>7 DEF UploadResult, UploadFile, Deliveries, Absent, Artifact, Result
  <2>2. stage'[j][n] \in AsrStarted => status'[j] # "queued"
    BY <2>1 DEF RunInv, AsrStarted, Running, PipelineStage, Uploading
  <2> QED
    BY <1>1, <2>1, <2>2, RunAdvances DEF InPipeline, PipelineStage, Uploading, SummaryStored,
       TranscriptStored, AllStored
<1>8. CASE Persist(j, n) \/ EmailSent(j, n)
  <2>1. /\ \/ stage[j][n] = "persist" /\ stage'[j][n] = "email"
           \/ stage[j][n] = "email" /\ stage'[j][n] = "finish"
        /\ status' = status
    BY <1>8 DEF Persist, EmailSent, storeVars
  <2>2. stage'[j][n] = "finish" /\ emails'[j] => n \in mailed'[j]
    BY <1>8, <2>1 DEF Persist, EmailSent, storeVars
  <2>3. stage'[j][n] \in AsrStarted => status'[j] # "queued"
    BY <2>1 DEF RunInv, AsrStarted, Running, PipelineStage
  <2> QED
    BY <1>1, <2>1, <2>2, <2>3, RunAdvances DEF InPipeline, PipelineStage, SummaryStored,
       TranscriptStored, AllStored
<1>9. CASE EmailFails(j, n) \/ MarkDone(j, n) \/ StageFails(j, n)
  BY <1>4, <1>9 DEF EmailFails, MarkDone, StageFails, UpdateStatus, InPipeline, PipelineStage,
     Uploading
<1>10. CASE Dispatch(j, n)
  BY <1>2, <1>4, <1>10 DEF Dispatch, ReadSignals, Return, SendEval, storeVars, RunInv, InPipeline,
     PipelineStage, Uploading, AsrStarted, Running
<1>11. CASE Abort(j, n)
  BY <1>4, <1>11 DEF Abort, Raise, HardTimeLimit, WorkerLost, storeVars, InPipeline,
     PipelineStage, Uploading, AsrStarted, Running
<1>12. CASE Api(j) \/ Redeliver(j) \/ Age(j)
  BY <1>2, <1>12 DEF Api, CreateRow, UploadSource, Enqueue, RequestFails, Redeliver, Age,
     pipelineVars
<1> QED
  BY <1>3, <1>5, <1>6, <1>7, <1>8, <1>9, <1>10, <1>11, <1>12
  DEF JobStep, Run, Pipeline

LEMMA OtherRunsWait ==
  ASSUME TypeOK, NEW j \in Jobs, NEW n \in Deliveries, JobStep(j, n),
         NEW m \in Deliveries, m # n
  PROVE  stage'[j][m] = stage[j][m]
BY DEF JobStep, Api, CreateRow, UploadSource, Enqueue, RequestFails, Redeliver, Age, Begin,
   SkipProcessed, Deliver, Run, Pipeline, Preprocess, StartAsr, Transcribed, Summarized,
   UploadResult, Persist, EmailSent, EmailFails, MarkDone, StageFails, Dispatch, ReadSignals,
   Return, SendEval, Abort, Raise, HardTimeLimit, WorkerLost, Goto, pipelineVars,
   TypeOK, PipelineTypeOK

LEMMA StepOtherRun ==
  ASSUME Inv, TypeOK', NEW j \in Jobs, NEW n \in Deliveries, JobStep(j, n), request[j] # "new",
         NEW m \in Deliveries, m # n
  PROVE  RunInv(j, m)'
BY OtherRunsWait, StepGrows, RunStable DEF Inv, JobInv

LEMMA InvReaper ==
  ASSUME Inv, TypeOK', ReapSelect \/ ReapCommit, NEW j \in Jobs
  PROVE  JobInv(j)'
<1> USE DEF Inv, TypeOK, StoreTypeOK, PipelineTypeOK, storeVars
<1>1. CASE ReapSelect
  BY <1>1 DEF ReapSelect, Reapable, Active, JobInv, RequestInv, StatusInv, RunInv
<1>2. CASE ReapCommit
  <2>1. status'[j] = status[j] \/ (status'[j] = "failed" /\ j \in reaping)
    BY <1>2 DEF ReapCommit
  <2> QED
    BY <1>2, <2>1 DEF ReapCommit, JobInv, RequestInv, StatusInv, RunInv
<1> QED
  BY <1>1, <1>2

LEMMA InvNext == Inv /\ [Next]_vars => Inv'
<1> SUFFICES ASSUME Inv, [Next]_vars PROVE Inv'
  OBVIOUS
<1>1. TypeOK'
  BY TypeNext DEF Inv
<1>2. ASSUME NEW j \in Jobs, NEW n \in Deliveries, JobStep(j, n), NEW i \in Jobs
      PROVE  JobInv(i)'
  <2>1. CASE i # j
    BY <1>2, <2>1, OthersSame, SameInv DEF Inv
  <2>2. CASE i = j /\ request[j] = "new"
    BY <1>1, <1>2, <2>2, NewJob
  <2>3. CASE i = j /\ request[j] # "new"
    BY <1>1, <1>2, <2>3, StepRequest, StepStatus, StepRun, StepOtherRun DEF JobInv
  <2> QED
    BY <2>1, <2>2, <2>3
<1>3. CASE UNCHANGED vars
  BY <1>1, <1>3 DEF vars, storeVars, pipelineVars, Inv, JobInv, RequestInv, StatusInv, RunInv
<1>4. CASE ReapSelect \/ ReapCommit
  BY <1>1, <1>4, InvReaper DEF Inv
<1>5. ASSUME NEW j \in Jobs, Api(j) \/ Redeliver(j) \/ Age(j)
      PROVE  Inv'
  <2>1. 1 \in Deliveries
    BY DEF Deliveries
  <2> QED
    BY <1>1, <1>2, <1>5, <2>1 DEF JobStep, Inv
<1> QED
  BY <1>1, <1>2, <1>3, <1>4, <1>5 DEF Next, JobStep, Inv

THEOREM Invariance == Spec => []Inv
BY InvInit, InvNext, PTL DEF Spec

(* A queued row is as create_job inserted it: the actions of the pipeline   *)
(* may write out which keys a run has read.  Whether they are still the     *)
(* row's when the run writes is another matter (CachedRowsHold).            *)
QueuedFresh ==
  \A j \in Jobs :
    status[j] = "queued" =>
      /\ artifacts[j] = {"source"}
      /\ \A c \in SignalColumn : signals[j][c] = NoSignal

THEOREM QueuedRowsAreFresh == Spec => []QueuedFresh
<1>1. Inv => QueuedFresh
  BY DEF Inv, JobInv, StatusInv, QueuedFresh
<1> QED
  BY <1>1, Invariance, PTL

(* A worker that holds a message finds the job's source in S3.              *)
THEOREM MessagesHaveSource == Spec => []EnqueuedHasSource
<1>1. Inv => EnqueuedHasSource
  BY BegunAccepted DEF Inv, JobInv, RequestInv, EnqueuedHasSource, Unacknowledged, Running,
     PipelineStage, Uploading
<1> QED
  BY <1>1, Invariance, PTL

(* However many deliveries, crashes and reapings a job sees, when it is     *)
(* DONE its objects are all stored ...                                      *)
THEOREM DoneJobsAreStored == Spec => []DoneIsStored
<1>1. Inv => DoneIsStored
  BY DEF Inv, JobInv, StatusInv, DoneIsStored
<1> QED
  BY <1>1, Invariance, PTL

(* ... and its recipients, if it has any, were sent a summary.              *)
THEOREM DoneJobsWereMailed == Spec => []DoneWasMailed
<1>1. Inv => DoneWasMailed
  BY DEF Inv, JobInv, StatusInv, DoneWasMailed
<1> QED
  BY <1>1, Invariance, PTL

-----------------------------------------------------------------------------
(* No eval is forgotten                                                     *)

(* The eval e of job j has its score, or its message was sent. *)
Accounted(j, e) ==
  \/ signals[j][e] # NoSignal
  \/ \E m \in evalSent : m.job = j /\ m.eval = e

(* What a run will not send any more is accounted for. *)
DispatchInv ==
  \A j \in Jobs, n \in Deliveries, e \in EnabledEvals :
    \/ stage[j][n] = "returned"
    \/ stage[j][n] = "delay" /\ e \notin todo[j][n]
    => Accounted(j, e)

(* A score may be replaced and is never removed; a message was sent for good. *)
LEMMA AccountedStays ==
  ASSUME TypeOK, [Next]_vars, NEW j \in Jobs, NEW e \in Evals, Accounted(j, e)
  PROVE  Accounted(j, e)'
<1>1. ASSUME signals' = signals, evalSent \subseteq evalSent'
      PROVE  Accounted(j, e)'
  BY <1>1 DEF Accounted
<1>2. CASE UNCHANGED vars \/ ReapSelect \/ ReapCommit
  BY <1>1, <1>2 DEF vars, storeVars, pipelineVars, ReapSelect, ReapCommit
<1>3. ASSUME NEW i \in Jobs, Api(i) \/ Redeliver(i) \/ Age(i)
      PROVE  Accounted(j, e)'
  BY <1>1, <1>3 DEF Api, CreateRow, InsertJob, UploadSource, UploadFile, Enqueue, RequestFails,
     Redeliver, Age, storeVars, pipelineVars
<1>4. ASSUME NEW i \in Jobs, NEW n \in Deliveries,
             Begin(i, n) \/ SkipProcessed(i, n) \/ Dispatch(i, n) \/ Abort(i, n)
      PROVE  Accounted(j, e)'
  BY <1>1, <1>4 DEF Begin, SkipProcessed, Deliver, Dispatch, ReadSignals, Return, SendEval,
     Abort, Raise, HardTimeLimit, WorkerLost, storeVars
<1>5. ASSUME NEW i \in Jobs, NEW n \in Deliveries, Pipeline(i, n), ~Persist(i, n)
      PROVE  Accounted(j, e)'
  <2>1. CASE Preprocess(i, n) \/ StartAsr(i, n) \/ Transcribed(i, n) \/ Summarized(i, n)
    BY <1>1, <2>1 DEF Preprocess, StartAsr, Transcribed, Summarized, UploadFile, UpdateStatus,
       storeVars
  <2>2. CASE UploadResult(i, n)
    BY <1>1, <2>2 DEF UploadResult, UploadFile
  <2>3. CASE EmailSent(i, n) \/ EmailFails(i, n) \/ MarkDone(i, n) \/ StageFails(i, n)
    BY <1>1, <2>3 DEF EmailSent, EmailFails, MarkDone, StageFails, UpdateStatus, storeVars
  <2> QED BY <1>5, <2>1, <2>2, <2>3 DEF Pipeline
<1>6. ASSUME NEW i \in Jobs, NEW n \in Deliveries, Persist(i, n)
      PROVE  Accounted(j, e)'
  <2>1. [by |-> "pipeline", of |-> n] # NoSignal
    BY DEF NoSignal
  <2>2. signals'[j][e] \in {signals[j][e], [by |-> "pipeline", of |-> n]}
    <3>1. e \in SignalColumn
      BY DEF SignalColumn
    <3> QED BY <1>6, <3>1 DEF Persist, TypeOK, StoreTypeOK
  <2>3. evalSent' = evalSent
    BY <1>6 DEF Persist
  <2> QED BY <2>1, <2>2, <2>3 DEF Accounted
<1> QED BY <1>2, <1>3, <1>4, <1>5, <1>6 DEF Next, Run

(* The run of delivery n comes to "delay" by reading the signals and leaves *)
(* it by returning with nothing left to send; no other step reaches these.  *)
LEMMA DispatchSteps ==
  ASSUME TypeOK, [Next]_vars, NEW j \in Jobs, NEW n \in Deliveries
  PROVE  \/ stage'[j][n] = stage[j][n] /\ todo'[j][n] = todo[j][n]
         \/ ReadSignals(j, n) \/ Return(j, n) \/ \E e \in Evals : SendEval(j, n, e)
         \/ stage'[j][n] \notin {"delay", "returned"}
<1> USE DEF TypeOK, PipelineTypeOK
<1>1. CASE UNCHANGED vars \/ ReapSelect \/ ReapCommit
  BY <1>1 DEF vars, pipelineVars, ReapSelect, ReapCommit
<1>2. ASSUME NEW i \in Jobs, Api(i) \/ Redeliver(i) \/ Age(i)
      PROVE  stage' = stage /\ todo' = todo
  BY <1>2 DEF Api, CreateRow, UploadSource, Enqueue, RequestFails, Redeliver, Age, pipelineVars
<1>3. ASSUME NEW i \in Jobs, NEW m \in Deliveries,
             Begin(i, m) \/ SkipProcessed(i, m) \/ Pipeline(i, m) \/ Abort(i, m)
      PROVE  \/ stage'[j][n] = stage[j][n] /\ todo'[j][n] = todo[j][n]
             \/ stage'[j][n] \notin {"delay", "returned"}
  <2> USE DEF Goto
  <2>1. CASE Begin(i, m) \/ SkipProcessed(i, m)
    BY <2>1 DEF Begin, SkipProcessed, Deliver
  <2>2. ASSUME Pipeline(i, m) \/ Abort(i, m), i # j \/ m # n
        PROVE  stage'[j][n] = stage[j][n] /\ todo'[j][n] = todo[j][n]
    <3>1. CASE Preprocess(i, m) \/ StartAsr(i, m) \/ Transcribed(i, m)
      BY <2>2, <3>1 DEF Preprocess, StartAsr, Transcribed
    <3>2. CASE Summarized(i, m)
      <4>1. stage'[j][n] = stage[j][n]
        BY <2>2, <3>2 DEF Summarized
      <4>2. PICK S : todo' = [todo EXCEPT ![i] = [todo[i] EXCEPT ![m] = S]]
        BY <3>2 DEF Summarized
      <4>3. CASE i # j
        BY <4>1, <4>2, <4>3
      <4>4. CASE i = j
        <5>1. todo'[j] = [todo[j] EXCEPT ![m] = S]
          BY <4>2, <4>4
        <5> QED BY <2>2, <4>1, <4>4, <5>1
      <4> QED BY <4>3, <4>4
    <3>3. CASE UploadResult(i, m)
      <4>1. todo' = todo /\ \E from, to \in Stage : Goto(i, m, from, to)
        BY <3>3 DEF UploadResult, Stage, Running, PipelineStage, Uploading
      <4> QED BY <2>2, <4>1
    <3>4. CASE Persist(i, m) \/ EmailSent(i, m) \/ EmailFails(i, m)
      BY <2>2, <3>4 DEF Persist, EmailSent, EmailFails
    <3>5. CASE MarkDone(i, m) \/ StageFails(i, m) \/ Abort(i, m)
      BY <2>2, <3>5 DEF MarkDone, StageFails, Abort, Raise, HardTimeLimit, WorkerLost
    <3> QED BY <2>2, <3>1, <3>2, <3>3, <3>4, <3>5 DEF Pipeline
  <2>3. ASSUME Pipeline(j, n) \/ Abort(j, n)
        PROVE  stage'[j][n] \notin {"delay", "returned"}
    <3>1. CASE Preprocess(j, n) \/ StartAsr(j, n) \/ Transcribed(j, n)
      BY <3>1 DEF Preprocess, StartAsr, Transcribed
    <3>2. CASE Summarized(j, n) \/ UploadResult(j, n)
      BY <3>2 DEF Summarized, UploadResult
    <3>3. CASE Persist(j, n) \/ EmailSent(j, n) \/ EmailFails(j, n)
      BY <3>3 DEF Persist, EmailSent, EmailFails
    <3>4. CASE MarkDone(j, n) \/ StageFails(j, n) \/ Abort(j, n)
      BY <3>4 DEF MarkDone, StageFails, Abort, Raise, HardTimeLimit, WorkerLost
    <3> QED BY <2>3, <3>1, <3>2, <3>3, <3>4 DEF Pipeline
  <2> QED BY <1>3, <2>1, <2>2, <2>3
<1>4. ASSUME NEW i \in Jobs, NEW m \in Deliveries, Dispatch(i, m), ~(i = j /\ m = n)
      PROVE  stage'[j][n] = stage[j][n] /\ todo'[j][n] = todo[j][n]
  <2>1. CASE ReadSignals(i, m) \/ Return(i, m)
    BY <1>4, <2>1 DEF ReadSignals, Return, Goto
  <2>2. ASSUME NEW e \in Evals, SendEval(i, m, e)
        PROVE  stage'[j][n] = stage[j][n] /\ todo'[j][n] = todo[j][n]
    BY <1>4, <2>2 DEF SendEval
  <2> QED BY <1>4, <2>1, <2>2 DEF Dispatch
<1> QED BY <1>1, <1>2, <1>3, <1>4 DEF Next, Run, Dispatch

LEMMA DispatchNext == TypeOK /\ DispatchInv /\ [Next]_vars => DispatchInv'
<1> SUFFICES ASSUME TypeOK, DispatchInv, [Next]_vars,
                    NEW j \in Jobs, NEW n \in Deliveries, NEW e \in EnabledEvals,
                    \/ stage'[j][n] = "returned"
                    \/ stage'[j][n] = "delay" /\ e \notin todo'[j][n]
             PROVE  Accounted(j, e)'
  BY DEF DispatchInv
<1> USE DEF TypeOK, PipelineTypeOK, Goto
<1>1. e \in Evals
  BY DEF SignalColumn
<1>2. SUFFICES ASSUME ~Accounted(j, e)
               PROVE  Accounted(j, e)'
  BY <1>1, AccountedStays
<1>3. signals[j][e] = NoSignal
  BY <1>2 DEF Accounted
<1>4. CASE stage'[j][n] = stage[j][n] /\ todo'[j][n] = todo[j][n]
  BY <1>2, <1>4 DEF DispatchInv
<1>5. CASE ReadSignals(j, n)
  <2>1. stage'[j][n] = "delay"
    BY <1>5 DEF ReadSignals
  <2>2. e \in todo'[j][n]
    BY <1>3, <1>5 DEF ReadSignals, NoSignal
  <2> QED BY <2>1, <2>2
<1>6. CASE Return(j, n)
  BY <1>2, <1>6 DEF Return, DispatchInv
<1>7. ASSUME NEW d \in Evals, SendEval(j, n, d)
      PROVE  Accounted(j, e)'
  <2>1. CASE d = e
    <3>1. [job |-> j, delivery |-> n, eval |-> e] \in evalSent'
      BY <1>7, <2>1 DEF SendEval
    <3> QED BY <3>1 DEF Accounted
  <2>2. CASE d # e
    <3>1. stage'[j][n] = "delay" /\ e \notin todo'[j][n]
      BY <1>7 DEF SendEval
    <3>2. stage[j][n] = "delay" /\ e \notin todo[j][n]
      BY <1>7, <2>2, <3>1 DEF SendEval
    <3> QED BY <1>2, <3>2 DEF DispatchInv
  <2> QED BY <2>1, <2>2
<1> QED BY <1>4, <1>5, <1>6, <1>7, DispatchSteps

(* However a run came to its dispatch, regeneration failing or another      *)
(* delivery in between: once it returned, no enabled eval is forgotten.     *)
THEOREM EvalsAreNotForgotten == Spec => []EvalsNotForgotten
<1>1. Init => DispatchInv
  BY DEF Init, PipelineInit, DispatchInv
<1>2. DispatchInv => EvalsNotForgotten
  BY DEF DispatchInv, Accounted, EvalsNotForgotten
<1> QED
  BY <1>1, <1>2, TypeInit, TypeNext, DispatchNext, PTL DEF Spec
-----------------------------------------------------------------------------
(***************************************************************************)
(* What holds when the broker delivers a message again only after its      *)
(* worker was lost (Redelivery = FALSE).                                   *)
(*                                                                         *)
(* A job then has one message or one run at most.  Everything else follows *)
(* from whose output is where: up to a stage the run that is under way has *)
(* written an object, mailed nobody, and so on, and no other run is there  *)
(* to disturb it.                                                          *)
(***************************************************************************)

(* Running and waiting exclude each other, and the run under way is that of *)
(* the last delivery.                                                       *)
TokenInv(j) ==
  /\ inbox[j] <= 1
  /\ \A n \in Deliveries : stage[j][n] \in Running => n = delivered[j] /\ inbox[j] = 0

(* The keys of the row are those in the copy that run n works with. *)
KeysInv(j, n) == stage[j][n] \in PipelineStage => artifacts[j] = KeysCached(stage[j][n])

(* Whose output is stored, persisted and mailed at a stage of run n. *)
OutputInv(j, n) ==
  /\ stage[j][n] \in PipelineStage => status[j] # "done"
  /\ stage[j][n] \in PipelineStage \ {"finish"} => mailed[j] = {}
  /\ stage[j][n] = "finish" => mailed[j] = (IF emails[j] THEN {n} ELSE {})
  /\ stage[j][n] \in SummaryStored => object[j]["summary"] = n
  /\ stage[j][n] \in TranscriptStored => object[j]["transcript"] = n
  /\ stage[j][n] \in AllStored => object[j]["summary_json"] = n
  /\ KeysInv(j, n)

(* What a client is served is the output of run n, and so is what was sent. *)
Published(j, n) ==
  /\ \A k \in Result : object[j][k] = n
  /\ emails[j] => mailed[j] = {n}

MailInv(j) ==
  /\ request[j] = "new" \/ status[j] = "queued" => mailed[j] = {}
  /\ \A m, n \in mailed[j] : m = n

DoneInv(j) ==
  status[j] = "done" =>
    artifacts[j] = Artifact /\ \E n \in Deliveries : Published(j, n)

SoleInv(j) ==
  TokenInv(j) /\ MailInv(j) /\ DoneInv(j) /\ \A n \in Deliveries : OutputInv(j, n)

SingleInv == Inv /\ \A j \in Jobs : SoleInv(j)

LEMMA SingleInit == Init => SingleInv
<1> SUFFICES ASSUME Init, NEW j \in Jobs PROVE SoleInv(j)
  BY InvInit DEF SingleInv
<1> QED
  BY DEF Init, StoreInit, PipelineInit, SoleInv, TokenInv, MailInv, DoneInv, OutputInv, KeysInv, Running,
     PipelineStage, Uploading, SummaryStored, TranscriptStored, AllStored

LEMMA SameSole ==
  ASSUME NEW i \in Jobs, SoleInv(i), Same(i)
  PROVE  SoleInv(i)'
<1>1. TokenInv(i)' /\ \A n \in Deliveries : OutputInv(i, n)'
  BY DEF Same, SoleInv, TokenInv, OutputInv, KeysInv
<1>2. MailInv(i)' /\ DoneInv(i)'
  BY DEF Same, SoleInv, MailInv, DoneInv, Published
<1> QED
  BY <1>1, <1>2 DEF SoleInv

-----------------------------------------------------------------------------
(* One message or one run                                                   *)

(* A step of a run neither takes nor sends a process_job message. *)
LEMMA RunKeepsToken ==
  ASSUME TypeOK, NEW j \in Jobs, NEW n \in Deliveries, Run(j, n)
  PROVE  /\ stage[j][n] \in Running
         /\ UNCHANGED <<request, inbox, delivered, emails>>
<1> USE DEF Goto, storeVars, Running, PipelineStage, Uploading
<1>1. CASE Preprocess(j, n) \/ StartAsr(j, n) \/ Transcribed(j, n) \/ Summarized(j, n)
  BY <1>1 DEF Preprocess, StartAsr, Transcribed, Summarized, UploadFile, UpdateStatus
<1>2. CASE UploadResult(j, n) \/ Persist(j, n) \/ EmailSent(j, n) \/ EmailFails(j, n)
  BY <1>2 DEF UploadResult, Persist, EmailSent, EmailFails, UploadFile, UpdateStatus
<1>3. CASE MarkDone(j, n) \/ StageFails(j, n)
  BY <1>3 DEF MarkDone, StageFails, UpdateStatus
<1>4. CASE Dispatch(j, n)
  BY <1>4 DEF Dispatch, ReadSignals, Return, SendEval
<1> QED
  BY <1>1, <1>2, <1>3, <1>4 DEF Run, Pipeline

LEMMA AbortEnds ==
  ASSUME TypeOK, NEW j \in Jobs, NEW n \in Deliveries, Abort(j, n)
  PROVE  /\ stage[j][n] \in Running /\ stage'[j][n] \notin Running
         /\ inbox'[j] \in {inbox[j], inbox[j] + 1}
         /\ UNCHANGED <<storeVars, request, delivered, todo, mailed, evalSent>>
BY DEF Abort, Raise, HardTimeLimit, WorkerLost, Goto, Running, PipelineStage, Uploading,
   TypeOK, PipelineTypeOK

LEMMA TokenStep ==
  ASSUME ~Redelivery, Inv, TypeOK', NEW j \in Jobs, NEW n \in Deliveries, JobStep(j, n),
         TokenInv(j)
  PROVE  TokenInv(j)'
<1> USE DEF Inv, TypeOK, PipelineTypeOK
<1>1. CASE Api(j)
  <2>1. CASE Enqueue(j)
    <3>1. \A m \in Deliveries : stage[j][m] = "none"
      BY <2>1, BegunAccepted DEF Enqueue
    <3> QED
      BY <2>1, <3>1 DEF Enqueue, TokenInv, Running, PipelineStage, Uploading
  <2>2. CASE CreateRow(j) \/ UploadSource(j) \/ RequestFails(j)
    BY <2>2 DEF CreateRow, UploadSource, RequestFails, TokenInv
  <2> QED
    BY <1>1, <2>1, <2>2 DEF Api
<1>2. CASE Redeliver(j)
  BY <1>2 DEF Redeliver
<1>3. CASE Age(j)
  BY <1>3 DEF Age, pipelineVars, TokenInv
<1>4. CASE Begin(j, n) \/ SkipProcessed(j, n)
  <2>1. PICK first : Deliver(j, n, first)
    BY <1>4 DEF Begin, SkipProcessed
  <2>2. inbox[j] = 1 /\ inbox'[j] = 0 /\ delivered'[j] = n
    BY <2>1 DEF Deliver, TokenInv
  <2>3. \A m \in Deliveries : m # n => stage'[j][m] \notin Running
    BY <1>4, <2>2, OtherRunsWait DEF TokenInv, JobStep
  <2> QED
    BY <2>2, <2>3 DEF TokenInv
<1>5. CASE Run(j, n)
  <2>1. \A m \in Deliveries : stage'[j][m] \in Running => stage[j][m] \in Running
    BY <1>5, RunKeepsToken, OtherRunsWait, ZenonT(40)
  <2> QED
    BY <1>5, <2>1, RunKeepsToken DEF TokenInv
<1>6. CASE Abort(j, n)
  <2>1. /\ stage[j][n] \in Running /\ stage'[j][n] \notin Running
        /\ inbox'[j] \in {inbox[j], inbox[j] + 1}
    BY <1>6, AbortEnds
  <2>2. inbox[j] = 0 /\ \A m \in Deliveries : m # n => stage[j][m] \notin Running
    BY <2>1 DEF TokenInv
  <2>3. \A m \in Deliveries : stage'[j][m] \notin Running
    BY <2>1, <2>2, OtherRunsWait
  <2> QED
    BY <2>1, <2>2, <2>3 DEF TokenInv
<1> QED
  BY <1>1, <1>2, <1>3, <1>4, <1>5, <1>6 DEF JobStep

(* While a run steps, no other one is under way. *)
LEMMA OthersIdle ==
  ASSUME TypeOK, NEW j \in Jobs, NEW n \in Deliveries, JobStep(j, n), TokenInv(j),
         stage[j][n] \in Running \/ inbox[j] > 0,
         NEW m \in Deliveries, m # n
  PROVE  stage'[j][m] \notin Running
BY OtherRunsWait DEF TokenInv
-----------------------------------------------------------------------------
(* Whose output is where                                                    *)

LEMMA SoleKept ==
  ASSUME NEW j \in Jobs, SoleInv(j), TokenInv(j)', request'[j] # "new",
         UNCHANGED <<status[j], emails[j], artifacts[j], mailed[j], stage[j]>>,
         \A k \in Result : object'[j][k] = object[j][k]
  PROVE  SoleInv(j)'
<1>1. MailInv(j)' /\ DoneInv(j)'
  BY DEF SoleInv, MailInv, DoneInv, Published
<1>2. \A n \in Deliveries : OutputInv(j, n)'
  BY DEF SoleInv, OutputInv, KeysInv, Result
<1> QED
  BY <1>1, <1>2 DEF SoleInv

(* A run has nothing to answer for once it has left the pipeline. *)
LEMMA NoOutput ==
  ASSUME NEW j \in Jobs, NEW n \in Deliveries, stage[j][n] \notin PipelineStage
  PROVE  OutputInv(j, n)
BY DEF OutputInv, KeysInv, PipelineStage, Uploading, SummaryStored, TranscriptStored, AllStored

LEMMA NoOutputNext ==
  ASSUME NEW j \in Jobs, NEW n \in Deliveries, stage'[j][n] \notin PipelineStage
  PROVE  OutputInv(j, n)'
BY DEF OutputInv, KeysInv, PipelineStage, Uploading, SummaryStored, TranscriptStored, AllStored

(* A step of the pipeline writes the keys of the run's copy and its own. *)
LEMMA PipelineKeys ==
  ASSUME TypeOK, NEW j \in Jobs, NEW n \in Deliveries, Pipeline(j, n), KeysInv(j, n)
  PROVE  KeysInv(j, n)'
<1> USE DEF Goto, storeVars
<1>1. /\ artifacts \in [Jobs -> SUBSET Artifact]
      /\ stage \in [Jobs -> [Deliveries -> Stage]]
  BY DEF TypeOK, StoreTypeOK, PipelineTypeOK
<1>2. ASSUME artifacts' = artifacts, stage[j][n] \in PipelineStage,
             \/ stage'[j][n] \notin PipelineStage
             \/ KeysCached(stage'[j][n]) = KeysCached(stage[j][n])
      PROVE  KeysInv(j, n)'
  BY <1>2 DEF KeysInv
<1>3. CASE Preprocess(j, n) \/ Transcribed(j, n) \/ Summarized(j, n)
  BY <1>1, <1>2, <1>3 DEF Preprocess, Transcribed, Summarized, UploadFile, UpdateStatus,
     KeysCached, PipelineStage, Uploading
<1>4. CASE UploadResult(j, n) \/ EmailSent(j, n)
  BY <1>1, <1>2, <1>4 DEF UploadResult, EmailSent, UploadFile, KeysCached, PipelineStage,
     Uploading
<1>5. CASE EmailFails(j, n) \/ MarkDone(j, n) \/ StageFails(j, n)
  BY <1>1, <1>5 DEF EmailFails, MarkDone, StageFails, KeysInv, PipelineStage, Uploading
<1>6. CASE StartAsr(j, n)
  BY <1>1, <1>6 DEF StartAsr, KeysInv, KeysCached
<1>7. CASE Persist(j, n)
  BY <1>1, <1>7 DEF Persist, KeysInv, KeysCached
<1> QED
  BY <1>3, <1>4, <1>5, <1>6, <1>7 DEF Pipeline

(* What a step of the pipeline does, as far as outputs are concerned. *)
LEMMA PipelineStores ==
  ASSUME Inv, NEW j \in Jobs, NEW n \in Deliveries, Pipeline(j, n), OutputInv(j, n)
  PROVE  \/ stage'[j][n] \notin PipelineStage
         \/ OutputInv(j, n)' /\ status'[j] # "done"
<1>0. KeysInv(j, n)'
  BY PipelineKeys DEF OutputInv, Inv
<1> USE DEF Inv, TypeOK, StoreTypeOK, PipelineTypeOK, Goto, OutputInv, PipelineStage, Uploading,
            SummaryStored, TranscriptStored, AllStored, Artifact, Result, storeVars
<1>1. CASE Preprocess(j, n)
  BY <1>0, <1>1 DEF Preprocess, UploadFile
<1>2. CASE StartAsr(j, n) \/ Transcribed(j, n) \/ Summarized(j, n)
  BY <1>0, <1>2 DEF StartAsr, Transcribed, Summarized, UpdateStatus
<1>3. CASE UploadResult(j, n)
  BY <1>0, <1>3 DEF UploadResult, UploadFile
<1>4. CASE Persist(j, n)
  BY <1>0, <1>4 DEF Persist
<1>5. CASE EmailSent(j, n)
  BY <1>0, <1>5, ZenonT(40) DEF EmailSent
<1>6. CASE EmailFails(j, n) \/ MarkDone(j, n) \/ StageFails(j, n)
  BY <1>0, <1>6 DEF EmailFails, MarkDone, StageFails
<1> QED
  BY <1>1, <1>2, <1>3, <1>4, <1>5, <1>6 DEF Pipeline

(* Nobody is mailed twice, since a run mails at a stage it reaches once and *)
(* no other run reaches it.                                                 *)
LEMMA PipelineMails ==
  ASSUME Inv, Inv', NEW j \in Jobs, NEW n \in Deliveries, Pipeline(j, n), OutputInv(j, n),
         MailInv(j)
  PROVE  MailInv(j)'
<1> USE DEF Inv, TypeOK, PipelineTypeOK, Goto, storeVars
<1>1. stage[j][n] \in PipelineStage /\ request[j] # "new" /\ request'[j] = request[j]
  <2>1. stage[j][n] \in PipelineStage
    BY DEF Pipeline, Preprocess, StartAsr, Transcribed, Summarized, UploadResult, Persist,
       EmailSent, EmailFails, MarkDone, StageFails, PipelineStage, Uploading
  <2>2. request[j] = "accepted"
    BY <2>1, BegunAccepted DEF PipelineStage, Uploading
  <2> QED
    BY <2>1, <2>2, RunKeepsToken DEF Run
<1>2. CASE EmailSent(j, n) \/ EmailFails(j, n)
  <2>1. status[j] # "queued" /\ mailed[j] = {}
    BY <1>2 DEF EmailSent, EmailFails, OutputInv, PipelineStage, JobInv, RunInv, AsrStarted, Running
  <2>2. status'[j] # "queued" /\ mailed'[j] \in {{}, {n}}
    BY <1>2, <2>1 DEF EmailSent, EmailFails, UpdateStatus, StoreTypeOK
  <2> QED
    BY <1>1, <2>2 DEF MailInv
<1>3. CASE ~EmailSent(j, n) /\ ~EmailFails(j, n)
  <2>1. mailed' = mailed /\ (status'[j] = "queued" => status[j] = "queued")
    BY <1>1, <1>3, StepGrows DEF Pipeline, Preprocess, StartAsr, Transcribed, Summarized,
       UploadResult, Persist, MarkDone, StageFails, JobStep, Run, Grows
  <2> QED
    BY <1>1, <2>1 DEF MailInv
<1> QED
  BY <1>2, <1>3

(* MarkDone publishes what the run has stored, saved and sent. *)
LEMMA PipelinePublishes ==
  ASSUME Inv, NEW j \in Jobs, NEW n \in Deliveries, Pipeline(j, n), OutputInv(j, n)
  PROVE  DoneInv(j)'
<1> USE DEF Inv, TypeOK, StoreTypeOK, Goto
<1>1. CASE MarkDone(j, n)
  <2>1. /\ stage[j][n] = "finish"
        /\ UNCHANGED <<artifacts, object, emails, mailed>>
    BY <1>1 DEF MarkDone, UpdateStatus
  <2>2. artifacts[j] = Artifact /\ Published(j, n)
    BY <2>1 DEF OutputInv, Published, KeysInv, PipelineStage, KeysCached, SummaryStored, TranscriptStored,
       AllStored, Result
  <2> QED
    BY <2>1, <2>2 DEF DoneInv, Published
<1>2. CASE ~MarkDone(j, n)
  <2>1. stage'[j][n] \notin PipelineStage => status'[j] # "done"
    BY <1>2 DEF Pipeline, Preprocess, StartAsr, Transcribed, Summarized, UploadResult, Persist,
       EmailSent, EmailFails, StageFails, UpdateStatus, PipelineTypeOK, PipelineStage, Uploading
  <2> QED
    BY <2>1, PipelineStores DEF DoneInv
<1> QED
  BY <1>1, <1>2

LEMMA SoleStep ==
  ASSUME ~Redelivery, SingleInv, Inv', NEW j \in Jobs, NEW n \in Deliveries, JobStep(j, n)
  PROVE  SoleInv(j)'
<1> USE DEF TypeOK, StoreTypeOK, PipelineTypeOK, storeVars, pipelineVars
<1>1. Inv /\ SoleInv(j) /\ TypeOK /\ TypeOK'
  BY DEF SingleInv, Inv
<1>2. TokenInv(j)'
  BY <1>1, TokenStep DEF SoleInv
<1>3. ASSUME NEW m \in Deliveries, m # n, stage[j][n] \in Running \/ inbox[j] > 0
      PROVE  OutputInv(j, m)'
  BY <1>1, <1>3, OthersIdle, NoOutputNext DEF SoleInv, Running
<1>4. CASE Api(j)
  <2>1. CASE CreateRow(j)
    <3>1. \A m \in Deliveries : stage'[j][m] = "none"
      BY <1>1, <2>1, BegunAccepted DEF CreateRow
    <3>2. /\ status'[j] = "queued" /\ mailed'[j] = mailed[j] /\ request[j] = "new"
      BY <1>1, <2>1 DEF CreateRow, InsertJob
    <3>3. \A m \in Deliveries : OutputInv(j, m)'
      BY <3>1, NoOutputNext DEF PipelineStage, Uploading
    <3> QED
      BY <1>1, <1>2, <3>2, <3>3 DEF SoleInv, MailInv, DoneInv
  <2>2. CASE UploadSource(j) \/ Enqueue(j) \/ RequestFails(j)
    <3>1. UNCHANGED <<status, emails, artifacts, mailed, stage>> /\ request'[j] # "new"
      BY <1>1, <2>2 DEF UploadSource, UploadFile, Enqueue, RequestFails
    <3>2. object' = object \/ object'[j] = [object[j] EXCEPT !["source"] = Original]
      BY <1>1, <2>2 DEF UploadSource, UploadFile, Enqueue, RequestFails
    <3>3. \A k \in Result : object'[j][k] = object[j][k]
      BY <1>1, <3>2 DEF Result, Artifact
    <3> QED
      BY <1>1, <1>2, <3>1, <3>3, SoleKept
  <2> QED
    BY <1>4, <2>1, <2>2 DEF Api
<1>5. CASE Age(j) /\ request[j] # "new"
  BY <1>1, <1>2, <1>5, SoleKept DEF Age
<1>6. CASE Age(j) /\ request[j] = "new"
  BY <1>1, <1>6 DEF Age, Inv, JobInv, RequestInv
<1>7. CASE Begin(j, n) \/ SkipProcessed(j, n)
  <2>1. inbox[j] > 0 /\ UNCHANGED <<storeVars, request, mailed>> /\ request[j] # "new"
    BY <1>1, <1>7, BegunAccepted DEF Begin, SkipProcessed, Deliver
  <2>2. MailInv(j)' /\ DoneInv(j)'
    BY <1>1, <2>1 DEF SoleInv, MailInv, DoneInv, Published
  <2>3. CASE Begin(j, n)
    <3>1. stage'[j][n] = "preprocess" /\ status'[j] = "queued"
      BY <1>1, <2>3 DEF Begin, Deliver
    <3>2. artifacts'[j] = {"source"}
      BY <1>1, <2>1, <2>3 DEF Begin, Inv, JobInv, StatusInv
    <3>3. OutputInv(j, n)'
      BY <1>1, <2>2, <3>1, <3>2 DEF MailInv, OutputInv, SummaryStored, TranscriptStored, AllStored,
         KeysInv, KeysCached
    <3> QED
      BY <1>2, <1>3, <2>1, <2>2, <3>3 DEF SoleInv
  <2>4. CASE SkipProcessed(j, n)
    <3>1. stage'[j][n] = "dispatch"
      BY <1>1, <2>4 DEF SkipProcessed, Deliver
    <3>2. OutputInv(j, n)'
      BY <3>1, NoOutputNext DEF PipelineStage, Uploading
    <3> QED
      BY <1>2, <1>3, <2>1, <2>2, <3>2 DEF SoleInv
  <2> QED
    BY <1>7, <2>3, <2>4
<1>8. CASE Pipeline(j, n)
  <2>1. stage[j][n] \in Running
    BY <1>1, <1>8, RunKeepsToken DEF Run
  <2>2. MailInv(j)' /\ DoneInv(j)'
    BY <1>1, <1>8, PipelineMails, PipelinePublishes DEF SoleInv
  <2>3. OutputInv(j, n)'
    BY <1>1, <1>8, PipelineStores, NoOutputNext DEF SoleInv
  <2> QED
    BY <1>2, <1>3, <2>1, <2>2, <2>3 DEF SoleInv
<1>9. CASE Dispatch(j, n) \/ Abort(j, n)
  <2>1. /\ stage[j][n] \in Running /\ stage'[j][n] \notin PipelineStage
        /\ UNCHANGED <<storeVars, request, mailed>>
    <3>1. CASE Dispatch(j, n)
      BY <1>1, <3>1 DEF Dispatch, ReadSignals, Return, SendEval, Goto, Running, PipelineStage,
         Uploading
    <3>2. CASE Abort(j, n)
      BY <1>1, <3>2, AbortEnds DEF Running
    <3> QED
      BY <1>9, <3>1, <3>2
  <2>2. MailInv(j)' /\ DoneInv(j)'
    BY <1>1, <2>1 DEF SoleInv, MailInv, DoneInv, Published
  <2>3. OutputInv(j, n)'
    BY <2>1, NoOutputNext
  <2> QED
    BY <1>2, <1>3, <2>1, <2>2, <2>3 DEF SoleInv
<1> QED
  BY <1>4, <1>5, <1>6, <1>7, <1>8, <1>9 DEF JobStep, Run, Redeliver

LEMMA SoleReaper ==
  ASSUME SingleInv, TypeOK', ReapSelect \/ ReapCommit, NEW j \in Jobs
  PROVE  SoleInv(j)'
<1> USE DEF SingleInv, Inv, TypeOK, StoreTypeOK, PipelineTypeOK, storeVars
<1>1. /\ UNCHANGED <<emails, artifacts, object, request, inbox, delivered, stage, mailed>>
      /\ status'[j] \in {status[j], "failed"}
  BY DEF ReapSelect, ReapCommit
<1>2. TokenInv(j)' /\ \A n \in Deliveries : OutputInv(j, n)'
  BY <1>1 DEF SoleInv, TokenInv, OutputInv, KeysInv
<1>3. MailInv(j)' /\ DoneInv(j)'
  BY <1>1, ZenonT(40) DEF SoleInv, MailInv, DoneInv, Published
<1> QED
  BY <1>2, <1>3 DEF SoleInv

LEMMA SingleNext ==
  ASSUME ~Redelivery
  PROVE  SingleInv /\ [Next]_vars => SingleInv'
<1> SUFFICES ASSUME SingleInv, [Next]_vars PROVE SingleInv'
  OBVIOUS
<1>1. Inv' /\ TypeOK /\ TypeOK'
  BY InvNext DEF SingleInv, Inv
<1>2. ASSUME NEW j \in Jobs, NEW n \in Deliveries, JobStep(j, n)
      PROVE  SingleInv'
  <2>1. \A i \in Jobs : i # j => SoleInv(i)'
    BY <1>1, <1>2, OthersSame, SameSole DEF SingleInv
  <2> QED
    BY <1>1, <1>2, <2>1, SoleStep DEF SingleInv
<1>3. CASE UNCHANGED vars
  <2>1. ASSUME NEW j \in Jobs PROVE Same(j)
    BY <1>3 DEF vars, storeVars, pipelineVars, Same
  <2> QED
    BY <1>1, <2>1, SameSole DEF SingleInv
<1>4. CASE ReapSelect \/ ReapCommit
  BY <1>1, <1>4, SoleReaper DEF SingleInv
<1>5. ASSUME NEW j \in Jobs, Api(j) \/ Redeliver(j) \/ Age(j)
      PROVE  SingleInv'
  <2>1. 1 \in Deliveries
    BY DEF Deliveries
  <2> QED
    BY <1>2, <1>5, <2>1 DEF JobStep
<1> QED
  BY <1>2, <1>3, <1>4, <1>5 DEF Next, JobStep

(* While the broker keeps to one delivery at a time, a job never has two    *)
(* runs under way nor one beside a message: the invariant of the rest.      *)
THEOREM SingleInvariance == ~Redelivery => (Spec => []SingleInv)
<1> SUFFICES ASSUME ~Redelivery PROVE Spec => []SingleInv
  OBVIOUS
<1>1. SingleInv /\ [Next]_vars => SingleInv'
  BY SingleNext
<1> QED
  BY <1>1, SingleInit, PTL DEF Spec

LEMMA SinglePromises ==
  SingleInv => OneRunAtATime /\ MailedAtMostOnce /\ ServedIsMailed
<1> SUFFICES ASSUME SingleInv
             PROVE  OneRunAtATime /\ MailedAtMostOnce /\ ServedIsMailed
  OBVIOUS
<1>1. OneRunAtATime
  BY DEF SingleInv, SoleInv, TokenInv, OneRunAtATime
<1>2. MailedAtMostOnce
  BY DEF SingleInv, SoleInv, MailInv, MailedAtMostOnce
<1>3. ASSUME NEW j \in Jobs, status[j] = "done"
      PROVE  GetResult(j) = "ok"
  <2>1. "summary" \in artifacts[j] /\ object[j]["summary"] # Absent
    BY <1>3 DEF SingleInv, SoleInv, DoneInv, Inv, JobInv, StatusInv, Artifact, Result
  <2> QED
    BY <1>3, <2>1 DEF GetResult
<1>4. ASSUME NEW j \in Jobs, status[j] = "done"
      PROVE  \E n \in Deliveries : /\ \A k \in Result : object[j][k] = n
                                   /\ emails[j] => n \in mailed[j]
  BY <1>4 DEF SingleInv, SoleInv, DoneInv, Published
<1> QED
  BY <1>1, <1>2, <1>3, <1>4 DEF ServedIsMailed

(* The guard on QUEUED and the requeueing of lost messages never let two    *)
(* runs of the task work on one job.                                        *)
THEOREM RunsAreAlone == ~Redelivery => (Spec => []OneRunAtATime)
BY SinglePromises, SingleInvariance, PTL

(* Recipients get one email for a job, however many workers are lost, at    *)
(* whatever stage, and whatever the reaper does to the status meanwhile.    *)
THEOREM OneMailPerJob == ~Redelivery => (Spec => []MailedAtMostOnce)
BY SinglePromises, SingleInvariance, PTL

(* A DONE job's row names a summary that S3 has, and the objects the job    *)
(* serves are all of one run, the one that mailed.                          *)
THEOREM ServedOutputWasMailed == ~Redelivery => (Spec => []ServedIsMailed)
BY SinglePromises, SingleInvariance, PTL

-----------------------------------------------------------------------------
(* What a run writes to the status                                          *)

LEMMA RunWrites ==
  ASSUME TypeOK, NEW j \in Jobs, NEW n \in Deliveries, Pipeline(j, n)
  PROVE  /\ stage[j][n] \in PipelineStage
         /\ UNCHANGED <<stale, reaping>>
         /\ \/ /\ status' = status
               /\ stage'[j][n] \in PipelineStage => StatusAt(stage'[j][n]) = StatusAt(stage[j][n])
            \/ \E s \in Lifecycle!Following(StatusAt(stage[j][n])) :
                 /\ status' = [status EXCEPT ![j] = s]
                 /\ stage'[j][n] \in PipelineStage => s = StatusAt(stage'[j][n])
<1> USE DEF TypeOK, StoreTypeOK, PipelineTypeOK, Goto, StatusAt, PipelineStage, Uploading, storeVars
<1>1. /\ "asr_running" \in Lifecycle!Following("queued")
      /\ "summary_running" \in Lifecycle!Following("asr_running")
      /\ {"done", "email_failed"} \subseteq Lifecycle!Following("summary_running")
      /\ \A s \in {"queued", "asr_running", "summary_running"} : "failed" \in Lifecycle!Following(s)
  BY DEF Lifecycle!Following, Lifecycle!Successor, Lifecycle!Active
<1>2. CASE Preprocess(j, n)
  BY <1>2 DEF Preprocess, UploadFile
<1>3. CASE StartAsr(j, n)
  BY <1>1, <1>3 DEF StartAsr
<1>4. CASE Transcribed(j, n)
  BY <1>1, <1>4 DEF Transcribed, UpdateStatus
<1>5. CASE Summarized(j, n) \/ Persist(j, n) \/ EmailSent(j, n)
  BY <1>5 DEF Summarized, Persist, EmailSent
<1>6. CASE UploadResult(j, n)
  BY <1>6 DEF UploadResult, UploadFile
<1>7. CASE EmailFails(j, n) \/ MarkDone(j, n)
  BY <1>1, <1>7 DEF EmailFails, MarkDone, UpdateStatus
<1>8. CASE StageFails(j, n)
  <2>1. /\ stage[j][n] \in {"preprocess", "asr", "summarize"} /\ stage'[j][n] = "dispatch"
        /\ status' = [status EXCEPT ![j] = "failed"]
        /\ UNCHANGED <<stale, reaping>>
    BY <1>8 DEF StageFails, UpdateStatus
  <2>2. StatusAt(stage[j][n]) \in {"queued", "asr_running", "summary_running"}
    BY <2>1
  <2> HIDE DEF StatusAt
  <2> QED
    BY <1>1, <2>1, <2>2
<1> QED
  BY <1>2, <1>3, <1>4, <1>5, <1>6, <1>7, <1>8 DEF Pipeline

(* Only a run and the insertion change the status of a job. *)
LEMMA JobStepWrites ==
  ASSUME TypeOK, NEW j \in Jobs, NEW n \in Deliveries, JobStep(j, n)
  PROVE  CreateRow(j) \/ Pipeline(j, n) \/ status' = status
BY DEF JobStep, Api, UploadSource, UploadFile, Enqueue, RequestFails, Redeliver, Age, Begin,
   SkipProcessed, Deliver, Run, Dispatch, ReadSignals, Return, SendEval, Abort, Raise,
   HardTimeLimit, WorkerLost, storeVars

(* In the pipeline a run stays at one status or writes the next.  It begins *)
(* with a queued job, and there is no other run to write in between.        *)
LEMMA StatusFollows ==
  ASSUME ~Redelivery, Inv, TypeOK', NEW j \in Jobs, NEW n \in Deliveries, JobStep(j, n),
         TokenInv(j), NEW m \in Deliveries, stage'[j][m] \in PipelineStage
  PROVE  \/ status'[j] = StatusAt(stage'[j][m])
         \/ /\ stage[j][m] \in PipelineStage
            /\ StatusAt(stage'[j][m]) = StatusAt(stage[j][m])
            /\ status'[j] = status[j]
<1>1. TypeOK
  BY DEF Inv
<1> USE <1>1 DEF TypeOK, StoreTypeOK, PipelineTypeOK
<1>2. CASE stage' = stage /\ status' = status
  BY <1>2
<1>3. CASE Api(j)
  <2>1. request[j] # "accepted" /\ stage' = stage
    BY <1>3 DEF Api, CreateRow, UploadSource, Enqueue, RequestFails
  <2>2. stage[j][m] = "none"
    BY <2>1, BegunAccepted
  <2> QED
    BY <2>1, <2>2 DEF PipelineStage, Uploading
<1>4. ASSUME stage[j][n] \in Running \/ inbox[j] > 0
      PROVE  m = n
  BY <1>4, OthersIdle DEF Running
<1>5. CASE Begin(j, n) \/ SkipProcessed(j, n)
  <2>1. m = n /\ status' = status
    BY <1>4, <1>5 DEF Begin, SkipProcessed, Deliver, storeVars
  <2> QED
    BY <1>5, <2>1 DEF Begin, SkipProcessed, Deliver, StatusAt, PipelineStage, Uploading
<1>6. CASE Pipeline(j, n)
  <2>1. m = n
    BY <1>4, <1>6, RunKeepsToken DEF Run
  <2>2. ASSUME NEW s, status' = [status EXCEPT ![j] = s]
        PROVE  status'[j] = s
    BY <2>2
  <2> QED
    BY <1>1, <1>6, <2>1, <2>2, RunWrites, Zenon
<1>7. CASE Dispatch(j, n)
  <2>1. m = n
    BY <1>4, <1>7, RunKeepsToken DEF Run
  <2>2. stage'[j][n] \in {"delay", "returned"}
    BY <1>7 DEF Dispatch, ReadSignals, Return, SendEval, Goto
  <2> QED
    BY <2>1, <2>2 DEF PipelineStage, Uploading
<1>8. CASE Abort(j, n)
  <2>1. m = n
    BY <1>4, <1>8, AbortEnds
  <2> QED
    BY <1>8, <2>1, AbortEnds DEF Running
<1>9. CASE Age(j)
  BY <1>2, <1>9 DEF Age, pipelineVars
<1> QED
  BY <1>3, <1>5, <1>6, <1>7, <1>8, <1>9 DEF JobStep, Run, Redeliver

-----------------------------------------------------------------------------
(* The deployed configuration: the reaper meets jobs that are worked on     *)

(* A run finds the status it wrote, unless the reaper has failed the job.   *)
DriftInv(j) ==
  \A n \in Deliveries :
    stage[j][n] \in PipelineStage => status[j] \in {StatusAt(stage[j][n]), "failed"}

OverrunInv == SingleInv /\ \A j \in Jobs : DriftInv(j)

LEMMA OverrunInit == Init => OverrunInv
BY SingleInit DEF OverrunInv, DriftInv, Init, StoreInit, PipelineInit, PipelineStage, Uploading

LEMMA DriftStep ==
  ASSUME ~Redelivery, OverrunInv, SingleInv', NEW j \in Jobs, NEW n \in Deliveries, JobStep(j, n)
  PROVE  DriftInv(j)'
<1> SUFFICES ASSUME NEW m \in Deliveries, stage'[j][m] \in PipelineStage
             PROVE  status'[j] \in {StatusAt(stage'[j][m]), "failed"}
  BY DEF DriftInv, StatusAt
<1>1. Inv /\ TypeOK' /\ TokenInv(j) /\ DriftInv(j)
  BY DEF OverrunInv, SingleInv, SoleInv, Inv
<1> QED
  BY <1>1, StatusFollows DEF DriftInv

LEMMA OverrunNext == ~Redelivery /\ OverrunInv /\ [Next]_vars => OverrunInv'
<1> SUFFICES ASSUME ~Redelivery, OverrunInv, [Next]_vars PROVE OverrunInv'
  OBVIOUS
<1>1. SingleInv' /\ TypeOK
  BY SingleNext DEF OverrunInv, SingleInv, Inv
<1>2. ASSUME NEW i \in Jobs, Same(i)
      PROVE  DriftInv(i)'
  BY <1>2 DEF OverrunInv, DriftInv, Same
<1>3. ASSUME NEW j \in Jobs, NEW n \in Deliveries, JobStep(j, n)
      PROVE  OverrunInv'
  BY <1>1, <1>2, <1>3, OthersSame, DriftStep DEF OverrunInv
<1>4. CASE UNCHANGED vars
  BY <1>1, <1>2, <1>4 DEF OverrunInv, vars, storeVars, pipelineVars, Same
<1>5. CASE ReapSelect \/ ReapCommit
  <2>1. stage' = stage /\ \A j \in Jobs : status'[j] \in {status[j], "failed"}
    BY <1>1, <1>5 DEF ReapSelect, ReapCommit, storeVars
  <2> QED
    BY <1>1, <2>1 DEF OverrunInv, DriftInv
<1>6. ASSUME NEW j \in Jobs, Api(j) \/ Redeliver(j) \/ Age(j)
      PROVE  OverrunInv'
  <2>1. 1 \in Deliveries
    BY DEF Deliveries
  <2> QED
    BY <1>3, <1>6, <2>1 DEF JobStep
<1> QED
  BY <1>3, <1>4, <1>5, <1>6 DEF Next, JobStep

THEOREM OverrunInvariance == ~Redelivery => (Spec => []OverrunInv)
<1> SUFFICES ASSUME ~Redelivery PROVE Spec => []OverrunInv
  OBVIOUS
<1>1. OverrunInv /\ [Next]_vars => OverrunInv'
  BY OverrunNext
<1> QED
  BY <1>1, OverrunInit, PTL DEF Spec

(* How a step may change the status of a job. *)
StatusMoves(j) ==
  \/ status'[j] \in {status[j]} \union Lifecycle!Following(status[j])
  \/ j \in reaping /\ status'[j] = "failed"
  \/ /\ status[j] = "failed"
     /\ \E n \in Deliveries :
          /\ stage[j][n] \in PipelineStage
          /\ status'[j] \in Lifecycle!Following(StatusAt(stage[j][n]))

LEMMA StatusStep ==
  ASSUME OverrunInv, NEW j \in Jobs, NEW n \in Deliveries, JobStep(j, n)
  PROVE  StatusMoves(j)
<1>1. TypeOK /\ JobInv(j) /\ DriftInv(j)
  BY DEF OverrunInv, SingleInv, Inv
<1>2. CASE CreateRow(j)
  <2>1. status[j] = "non_existing" /\ status'[j] = "queued"
    BY <1>1, <1>2 DEF CreateRow, InsertJob, JobInv, RequestInv, TypeOK, StoreTypeOK
  <2> QED
    BY <2>1 DEF StatusMoves, Lifecycle!Following
<1>3. CASE Pipeline(j, n)
  <2>1. status[j] \in {StatusAt(stage[j][n]), "failed"} /\ stage[j][n] \in PipelineStage
    BY <1>1, <1>3, RunWrites DEF DriftInv
  <2>2. \/ status'[j] = status[j]
        \/ status'[j] \in Lifecycle!Following(StatusAt(stage[j][n]))
    BY <1>1, <1>3, RunWrites DEF TypeOK, StoreTypeOK
  <2> QED
    BY <2>1, <2>2 DEF StatusMoves
<1>4. CASE status' = status
  BY <1>4 DEF StatusMoves
<1> QED
  BY <1>1, <1>2, <1>3, <1>4, JobStepWrites

(* With the reaper's threshold below what a job may take, as deployed: a    *)
(* status moves as in JobLifecycle, but for the reaper's blind UPDATE and   *)
(* for the run that goes on after it.                                       *)
THEOREM OnlyTheReaperDisturbs == ~Redelivery => (Spec => ReaperAloneDisturbs)
<1> SUFFICES ASSUME ~Redelivery PROVE Spec => ReaperAloneDisturbs
  OBVIOUS
<1>1. ASSUME OverrunInv, [Next]_vars, NEW j \in Jobs
      PROVE  StatusMoves(j)
  <2>1. TypeOK
    BY <1>1 DEF OverrunInv, SingleInv, Inv
  <2>2. ASSUME NEW i \in Jobs, NEW n \in Deliveries, JobStep(i, n)
        PROVE  StatusMoves(j)
    BY <1>1, <2>1, <2>2, StatusStep, OthersSame DEF StatusMoves, Same
  <2>3. CASE UNCHANGED vars \/ ReapSelect
    BY <2>3 DEF StatusMoves, vars, storeVars, ReapSelect
  <2>4. CASE ReapCommit
    BY <2>4 DEF ReapCommit, StatusMoves
  <2>5. ASSUME NEW i \in Jobs, Api(i) \/ Redeliver(i) \/ Age(i)
        PROVE  StatusMoves(j)
    <3>1. 1 \in Deliveries
      BY DEF Deliveries
    <3> QED
      BY <2>2, <2>5, <3>1 DEF JobStep
  <2> QED
    BY <1>1, <2>2, <2>3, <2>4, <2>5 DEF Next, JobStep
<1>2. OverrunInv /\ [Next]_vars => [\A j \in Jobs : StatusMoves(j)]_vars
  BY <1>1
<1>3. Spec => []OverrunInv
  BY OverrunInvariance
<1> QED
  BY <1>2, <1>3, PTL DEF Spec, ReaperAloneDisturbs, StatusMoves

-----------------------------------------------------------------------------
(* The lifecycle                                                            *)
(*                                                                          *)
(* If moreover every job ends within the threshold of the reaper (Overrun = *)
(* FALSE), status follows the run: what the row says is what the run under  *)
(* way last wrote, and the reaper meets only jobs nobody works on.          *)

QuietInv(j) ==
  /\ \A n \in Deliveries : stage[j][n] \in PipelineStage => status[j] = StatusAt(stage[j][n])
  /\ stale[j] => Settled(j)
  /\ j \in reaping => stale[j] /\ status[j] \in Active

LifecycleInv == SingleInv /\ \A j \in Jobs : QuietInv(j)

LEMMA QuietInit == Init => LifecycleInv
BY SingleInit DEF LifecycleInv, QuietInv, Init, StoreInit, PipelineInit, PipelineStage, Uploading

LEMMA SameQuiet ==
  ASSUME NEW i \in Jobs, QuietInv(i), Same(i)
  PROVE  QuietInv(i)'
BY DEF Same, QuietInv, Settled, Unacknowledged

(* A settled job has come to rest: only its age changes. *)
LEMMA SettledRests ==
  ASSUME ~Redelivery, TypeOK, NEW j \in Jobs, NEW n \in Deliveries, JobStep(j, n), Settled(j)
  PROVE  /\ Age(j)
         /\ UNCHANGED <<status, request, inbox, stage, reaping>>
<1>1. inbox[j] = 0 /\ stage[j][n] \notin Running /\ request[j] \in {"accepted", "failed"}
  BY DEF Settled, Unacknowledged, TypeOK, PipelineTypeOK
<1>2. ~Run(j, n) /\ ~Abort(j, n)
  BY <1>1, RunKeepsToken, AbortEnds
<1>3. ~Api(j) /\ ~Redeliver(j) /\ ~Begin(j, n) /\ ~SkipProcessed(j, n)
  BY <1>1 DEF Api, CreateRow, UploadSource, Enqueue, RequestFails, Redeliver, Begin,
     SkipProcessed, Deliver
<1> QED
  BY <1>2, <1>3 DEF JobStep, Age, pipelineVars

(* A run writes the status that goes with its next stage. *)
LEMMA PipelineMoves ==
  ASSUME TypeOK, NEW j \in Jobs, NEW n \in Deliveries, Pipeline(j, n), QuietInv(j)
  PROVE  /\ stage'[j][n] \in PipelineStage => status'[j] = StatusAt(stage'[j][n])
         /\ \/ status' = status
            \/ /\ status[j] \in {"queued", "asr_running", "summary_running"}
               /\ status' = [status EXCEPT ![j] = "failed"]
            \/ status[j] = "queued" /\ status' = [status EXCEPT ![j] = "asr_running"]
            \/ status[j] = "asr_running" /\ status' = [status EXCEPT ![j] = "summary_running"]
            \/ /\ status[j] = "summary_running"
               /\ \E s \in {"done", "email_failed"} : status' = [status EXCEPT ![j] = s]
         /\ UNCHANGED <<stale, reaping>>
<1>1. stage[j][n] \in PipelineStage /\ status[j] = StatusAt(stage[j][n])
  BY RunWrites DEF QuietInv
<1>2. /\ Lifecycle!Following("queued") = {"asr_running", "failed"}
      /\ Lifecycle!Following("asr_running") = {"summary_running", "failed"}
      /\ Lifecycle!Following("summary_running") = {"done", "email_failed", "failed"}
  BY DEF Lifecycle!Following, Lifecycle!Successor, Lifecycle!Active
<1>3. status[j] \in {"queued", "asr_running", "summary_running"}
  BY <1>1 DEF StatusAt
<1> QED
  BY <1>1, <1>2, <1>3, RunWrites DEF TypeOK, StoreTypeOK

LEMMA QuietStep ==
  ASSUME ~Redelivery, ~Overrun, LifecycleInv, SingleInv', NEW j \in Jobs, NEW n \in Deliveries,
         JobStep(j, n)
  PROVE  QuietInv(j)'
<1> USE DEF TypeOK, StoreTypeOK, PipelineTypeOK
<1>1. TypeOK /\ TypeOK' /\ QuietInv(j) /\ TokenInv(j) /\ Inv
  BY DEF LifecycleInv, SingleInv, Inv, SoleInv
<1>2. CASE Settled(j)
  <2>1. Age(j) /\ UNCHANGED <<status, request, inbox, stage, reaping>>
    BY <1>1, <1>2, SettledRests
  <2>2. stale'[j]
    BY <1>1, <2>1 DEF Age
  <2> QED
    BY <1>1, <1>2, <2>1, <2>2 DEF QuietInv, Settled, Unacknowledged
<1>3. CASE ~Settled(j)
  <2>1. ~stale[j] /\ j \notin reaping /\ ~Age(j)
    BY <1>1, <1>3 DEF QuietInv, Age
  <2>2. UNCHANGED <<stale, reaping>>
    <3>1. CASE Api(j)
      BY <3>1 DEF Api, CreateRow, InsertJob, UploadSource, UploadFile, Enqueue, RequestFails,
         storeVars
    <3>2. CASE Begin(j, n) \/ SkipProcessed(j, n)
      BY <3>2 DEF Begin, SkipProcessed, Deliver, storeVars
    <3>3. CASE Pipeline(j, n)
      BY <1>1, <3>3, PipelineMoves
    <3>4. CASE Dispatch(j, n) \/ Abort(j, n)
      BY <3>4 DEF Dispatch, ReadSignals, Return, SendEval, Abort, Raise, HardTimeLimit,
         WorkerLost, storeVars
    <3> QED
      BY <2>1, <3>1, <3>2, <3>3, <3>4 DEF JobStep, Run, Redeliver
  <2>3. ASSUME NEW m \in Deliveries, stage'[j][m] \in PipelineStage
        PROVE  status'[j] = StatusAt(stage'[j][m])
    BY <1>1, <2>3, StatusFollows DEF QuietInv
  <2> QED
    BY <2>1, <2>2, <2>3 DEF QuietInv
<1> QED
  BY <1>2, <1>3

(* The reaper gives up jobs whose run has ended. *)
LEMMA QuietReaper ==
  ASSUME LifecycleInv, ReapSelect \/ ReapCommit, NEW j \in Jobs
  PROVE  QuietInv(j)'
<1> USE DEF LifecycleInv, SingleInv, Inv, TypeOK, StoreTypeOK, PipelineTypeOK
<1>1. CASE ReapSelect
  BY <1>1 DEF ReapSelect, Reapable, QuietInv, Settled, Unacknowledged, storeVars
<1>2. CASE ReapCommit /\ j \notin reaping
  BY <1>2 DEF ReapCommit, QuietInv, Settled, Unacknowledged
<1>3. CASE ReapCommit /\ j \in reaping
  <2>1. \A n \in Deliveries : stage[j][n] \notin PipelineStage
    BY <1>3 DEF QuietInv, Settled, Unacknowledged, Running
  <2> QED
    BY <1>3, <2>1 DEF ReapCommit, QuietInv
<1> QED
  BY <1>1, <1>2, <1>3

LEMMA LifecycleInvNext ==
  ASSUME ~Redelivery, ~Overrun
  PROVE  LifecycleInv /\ [Next]_vars => LifecycleInv'
<1> SUFFICES ASSUME LifecycleInv, [Next]_vars PROVE LifecycleInv'
  OBVIOUS
<1>1. SingleInv' /\ TypeOK
  BY SingleNext DEF LifecycleInv, SingleInv, Inv
<1>2. ASSUME NEW j \in Jobs, NEW n \in Deliveries, JobStep(j, n)
      PROVE  LifecycleInv'
  <2>1. \A i \in Jobs : i # j => QuietInv(i)'
    BY <1>1, <1>2, OthersSame, SameQuiet DEF LifecycleInv
  <2> QED
    BY <1>1, <1>2, <2>1, QuietStep DEF LifecycleInv
<1>3. CASE UNCHANGED vars
  <2>1. ASSUME NEW j \in Jobs PROVE Same(j)
    BY <1>3 DEF vars, storeVars, pipelineVars, Same
  <2> QED
    BY <1>1, <2>1, SameQuiet DEF LifecycleInv
<1>4. CASE ReapSelect \/ ReapCommit
  BY <1>1, <1>4, QuietReaper DEF LifecycleInv
<1>5. ASSUME NEW j \in Jobs, Api(j) \/ Redeliver(j) \/ Age(j)
      PROVE  LifecycleInv'
  <2>1. 1 \in Deliveries
    BY DEF Deliveries
  <2> QED
    BY <1>2, <1>5, <2>1 DEF JobStep
<1> QED
  BY <1>2, <1>3, <1>4, <1>5 DEF Next, JobStep

-----------------------------------------------------------------------------
(* Every step is a step of JobLifecycle or leaves the statuses alone.       *)

LEMMA FailOne ==
  ASSUME TypeOK, NEW j \in Jobs, status[j] \in Active,
         status' = [status EXCEPT ![j] = "failed"]
  PROVE  Lifecycle!FailMany
<1>1. status' = [i \in Jobs |-> IF i \in {j} THEN "failed" ELSE status[i]]
  BY DEF TypeOK, StoreTypeOK
<1> QED
  BY <1>1 DEF Lifecycle!FailMany, Lifecycle!Active, Active

LEMMA JobStepRefines ==
  ASSUME LifecycleInv, NEW j \in Jobs, NEW n \in Deliveries, JobStep(j, n)
  PROVE  [Lifecycle!LifecycleNext]_status
<1>1. TypeOK /\ QuietInv(j) /\ JobInv(j)
  BY DEF LifecycleInv, SingleInv, Inv
<1>2. CASE CreateRow(j)
  <2>1. status[j] = "non_existing" /\ status' = [status EXCEPT ![j] = "queued"]
    BY <1>1, <1>2 DEF CreateRow, InsertJob, JobInv, RequestInv
  <2> QED
    BY <2>1 DEF Lifecycle!LifecycleNext, Lifecycle!Submit
<1>3. CASE Pipeline(j, n)
  <2>1. CASE /\ status[j] \in {"queued", "asr_running", "summary_running"}
             /\ status' = [status EXCEPT ![j] = "failed"]
    BY <1>1, <2>1, FailOne DEF Active, Lifecycle!LifecycleNext
  <2>2. ASSUME NEW s \in Status, s \in Lifecycle!Successor(status[j]),
               status' = [status EXCEPT ![j] = s]
        PROVE  Lifecycle!LifecycleNext
    BY <2>2 DEF Lifecycle!LifecycleNext, Lifecycle!Advance
  <2>3. /\ Lifecycle!Successor("queued") = {"asr_running"}
        /\ Lifecycle!Successor("asr_running") = {"summary_running"}
        /\ Lifecycle!Successor("summary_running") = {"done", "email_failed"}
    BY DEF Lifecycle!Successor
  <2> QED
    BY <1>1, <1>3, <2>1, <2>2, <2>3, PipelineMoves DEF Status, Active, Terminal
<1>4. CASE UploadSource(j) \/ Enqueue(j) \/ RequestFails(j) \/ Redeliver(j) \/ Age(j)
  BY <1>4 DEF UploadSource, UploadFile, Enqueue, RequestFails, Redeliver, Age, storeVars
<1>5. CASE Begin(j, n) \/ SkipProcessed(j, n) \/ Dispatch(j, n) \/ Abort(j, n)
  BY <1>5 DEF Begin, SkipProcessed, Deliver, Dispatch, ReadSignals, Return, SendEval, Abort,
     Raise, HardTimeLimit, WorkerLost, storeVars
<1> QED
  BY <1>2, <1>3, <1>4, <1>5 DEF JobStep, Api, Run

LEMMA StepRefines == LifecycleInv /\ [Next]_vars => [Lifecycle!LifecycleNext]_status
<1> SUFFICES ASSUME LifecycleInv, [Next]_vars PROVE [Lifecycle!LifecycleNext]_status
  OBVIOUS
<1>1. CASE UNCHANGED vars \/ ReapSelect
  BY <1>1 DEF vars, storeVars, ReapSelect
<1>2. CASE ReapCommit
  <2>1. reaping # {} /\ reaping \subseteq {j \in Jobs : status[j] \in Lifecycle!Active}
    BY <1>2 DEF ReapCommit, LifecycleInv, QuietInv, SingleInv, Inv, TypeOK, PipelineTypeOK,
       Active, Lifecycle!Active
  <2> QED
    BY <1>2, <2>1 DEF ReapCommit, Lifecycle!LifecycleNext, Lifecycle!FailMany
<1>3. ASSUME NEW j \in Jobs, Api(j) \/ Redeliver(j) \/ Age(j)
      PROVE  [Lifecycle!LifecycleNext]_status
  <2>1. 1 \in Deliveries
    BY DEF Deliveries
  <2> QED
    BY <1>3, <2>1, JobStepRefines DEF JobStep
<1> QED
  BY <1>1, <1>2, <1>3, JobStepRefines DEF Next, JobStep

THEOREM LifecycleInvariance == ~Redelivery /\ ~Overrun => (Spec => []LifecycleInv)
<1> SUFFICES ASSUME ~Redelivery, ~Overrun PROVE Spec => []LifecycleInv
  OBVIOUS
<1>1. LifecycleInv /\ [Next]_vars => LifecycleInv'
  BY LifecycleInvNext
<1> QED
  BY <1>1, QuietInit, PTL DEF Spec

(* In the quiet regime a client sees the statuses of a job move forward, as *)
(* the docstring of JobStatus has them: the system implements the safety    *)
(* part of JobLifecycle.                                                    *)
THEOREM StatusesMoveForward == ~Redelivery /\ ~Overrun => (Spec => LifecycleSafety)
<1> SUFFICES ASSUME ~Redelivery, ~Overrun PROVE Spec => LifecycleSafety
  OBVIOUS
<1>1. Init => Lifecycle!LifecycleInit
  BY DEF Init, StoreInit, Lifecycle!LifecycleInit
<1>2. Spec => []LifecycleInv
  BY LifecycleInvariance
<1> QED
  BY <1>1, <1>2, StepRefines, PTL DEF Spec, LifecycleSafety, Lifecycle!LifecycleSafety

(* There a terminal status is final, which run terminal_not_final refutes   *)
(* for the deployed configuration.                                          *)
THEOREM TerminalStatusIsFinal == ~Redelivery /\ ~Overrun => (Spec => TerminalIsFinal)
<1> SUFFICES ASSUME ~Redelivery, ~Overrun PROVE Spec => TerminalIsFinal
  OBVIOUS
<1>1. ASSUME TypeOK, [Lifecycle!LifecycleNext]_status, NEW j \in Jobs, status[j] \in Terminal
      PROVE  status'[j] = status[j]
  BY <1>1 DEF TypeOK, StoreTypeOK, Terminal, Lifecycle!LifecycleNext, Lifecycle!FailMany,
     Lifecycle!Active, Lifecycle!Submit, Lifecycle!Advance, Lifecycle!Successor
<1>2. LifecycleInv /\ [Next]_vars =>
        [\A j \in Jobs : status[j] \in Terminal => status'[j] = status[j]]_vars
  BY <1>1, StepRefines DEF LifecycleInv, SingleInv, Inv
<1>3. Spec => []LifecycleInv
  BY LifecycleInvariance
<1> QED
  BY <1>2, <1>3, PTL DEF Spec, TerminalIsFinal
=============================================================================
