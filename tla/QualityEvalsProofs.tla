------------------------- MODULE QualityEvalsProofs -------------------------
(***************************************************************************)
(* What a quality score says, when the broker delivers a message again     *)
(* only after its worker was lost (Redelivery = FALSE), for every set of   *)
(* jobs, every bound on deliveries and every other setting.                *)
(*                                                                         *)
(* An eval's message is sent by a run that has left the pipeline, and with *)
(* one run at a time no other will enter it: from then on the objects, the *)
(* mail and the pipeline's own scores of the job are fixed.                *)
(***************************************************************************)
EXTENDS QualityEvals, JobPipelineProofs

USE JobStoreAssumption, JobPipelineAssumption

-----------------------------------------------------------------------------
(* No run is in the job's pipeline, nor will one be. *)
Finished(j) ==
  /\ request[j] = "accepted"
  /\ status[j] # "queued"
  /\ \A n \in Deliveries : stage[j][n] \notin PipelineStage

PublishedBySome(j) == \E n \in Deliveries : Published(j, n)

Persisted == {"email", "finish"}

UnsavedInv(j) ==
  \A n \in Deliveries :
    stage[j][n] \in PipelineStage \ Persisted => \A c \in SignalColumn : signals[j][c] = NoSignal

GradeInv(j) ==
  \A c \in SignalColumn :
    signals[j][c] # NoSignal => signals[j][c].of = object[j]["summary_json"]

DelayInv(j) ==
  \A n \in Deliveries : \A e \in todo[j][n] :
    stage[j][n] = "delay" => signals[j][e].by # "pipeline"

ScoreInv(j) ==
  \A e \in Evals : signals[j][e].by = "task" => Finished(j) /\ PublishedBySome(j)

SignalInv(j) == UnsavedInv(j) /\ GradeInv(j) /\ DelayInv(j) /\ ScoreInv(j)

MessageInv(m) == Finished(m.job) /\ signals[m.job][m.eval].by # "pipeline"

EvalRun == [job : Jobs, delivery : Deliveries, eval : Evals,
            transcript : Version, summary : Version]

TaskInv(r) ==
  /\ Finished(r.job)
  /\ PublishedBySome(r.job)
  /\ signals[r.job][r.eval].by # "pipeline"
  /\ r.transcript \in {Absent, object[r.job]["transcript"]}
  /\ r.summary \in {Absent, object[r.job]["summary_json"]}
  /\ r.summary # Absent => r.transcript # Absent

EvalInv ==
  /\ SingleInv
  /\ evalRuns \subseteq EvalRun
  /\ \A j \in Jobs : SignalInv(j)
  /\ \A m \in evalSent : MessageInv(m)
  /\ \A r \in evalRuns : TaskInv(r)

LEMMA EvalInvInit == EvalInit => EvalInv
<1> SUFFICES ASSUME EvalInit PROVE EvalInv
  OBVIOUS
<1>1. ASSUME NEW j \in Jobs PROVE SignalInv(j)
  BY DEF EvalInit, Init, StoreInit, PipelineInit, SignalInv, UnsavedInv, GradeInv, DelayInv,
     ScoreInv, NoSignal, Evals, SignalColumn
<1> QED
  BY <1>1, SingleInit DEF EvalInit, EvalInv, Init, PipelineInit

-----------------------------------------------------------------------------
(* A finished job stays finished                                            *)

LEMMA FinishedStays ==
  ASSUME Inv, [Next]_vars, NEW j \in Jobs, Finished(j)
  PROVE  /\ Finished(j)'
         /\ UNCHANGED <<emails[j], artifacts[j], signals[j], object[j], mailed[j]>>
<1> USE DEF Inv, TypeOK, StoreTypeOK, PipelineTypeOK, Finished
<1>1. ASSUME Same(j)
      PROVE  /\ Finished(j)'
             /\ UNCHANGED <<emails[j], artifacts[j], signals[j], object[j], mailed[j]>>
  BY <1>1 DEF Same
<1>2. CASE UNCHANGED vars
  BY <1>1, <1>2 DEF vars, storeVars, pipelineVars, Same
<1>3. CASE ReapSelect \/ ReapCommit
  BY <1>3 DEF ReapSelect, ReapCommit, storeVars
<1>4. ASSUME NEW n \in Deliveries, JobStep(j, n)
      PROVE  /\ Finished(j)'
             /\ UNCHANGED <<emails[j], artifacts[j], signals[j], object[j], mailed[j]>>
  <2>1. ~Api(j) /\ ~Begin(j, n)
    BY DEF Api, CreateRow, UploadSource, Enqueue, RequestFails, Begin
  <2>2. ~Pipeline(j, n)
    BY DEF Pipeline, Preprocess, StartAsr, Transcribed, Summarized, UploadResult, Persist,
       EmailSent, EmailFails, MarkDone, StageFails, Goto, PipelineStage, Uploading
  <2>3. /\ UNCHANGED <<status, emails, artifacts, signals, object, request, mailed>>
        /\ stage'[j][n] = stage[j][n] \/ stage'[j][n] \notin PipelineStage
    <3>1. CASE Redeliver(j) \/ Age(j)
      BY <3>1 DEF Redeliver, Age, storeVars, pipelineVars
    <3>2. CASE SkipProcessed(j, n)
      BY <3>2 DEF SkipProcessed, Deliver, storeVars, PipelineStage, Uploading
    <3>3. CASE Dispatch(j, n)
      BY <3>3 DEF Dispatch, ReadSignals, Return, SendEval, Goto, storeVars, PipelineStage,
         Uploading
    <3>4. CASE Abort(j, n)
      BY <3>4, AbortEnds DEF storeVars, Running
    <3> QED
      BY <1>4, <2>1, <2>2, <3>1, <3>2, <3>3, <3>4 DEF JobStep, Run
  <2> QED
    BY <1>4, <2>3, OtherRunsWait
<1>5. ASSUME NEW i \in Jobs, NEW n \in Deliveries, JobStep(i, n)
      PROVE  /\ Finished(j)'
             /\ UNCHANGED <<emails[j], artifacts[j], signals[j], object[j], mailed[j]>>
  BY <1>1, <1>4, <1>5, OthersSame
<1>6. ASSUME NEW i \in Jobs, Api(i) \/ Redeliver(i) \/ Age(i)
      PROVE  /\ Finished(j)'
             /\ UNCHANGED <<emails[j], artifacts[j], signals[j], object[j], mailed[j]>>
  <2>1. 1 \in Deliveries
    BY DEF Deliveries
  <2> QED
    BY <1>5, <1>6, <2>1 DEF JobStep
<1> QED
  BY <1>2, <1>3, <1>5, <1>6 DEF Next, JobStep

LEMMA PublishedStays ==
  ASSUME NEW j \in Jobs, PublishedBySome(j), UNCHANGED <<emails[j], object[j], mailed[j]>>
  PROVE  PublishedBySome(j)'
BY DEF PublishedBySome, Published

-----------------------------------------------------------------------------
(* Steps of the pipeline                                                    *)

Early == PipelineStage \ Persisted

(* Signals are written by Persist, and the object they grade before that.   *)
LEMMA SignalWrites ==
  ASSUME Inv, NEW j \in Jobs, NEW n \in Deliveries, JobStep(j, n)
  PROVE  /\ UNCHANGED signals \/ Persist(j, n)
         /\ object'[j]["summary_json"] = object[j]["summary_json"] \/ stage[j][n] \in Early
         /\ stage'[j][n] \in Early => stage[j][n] \in Early \/ Begin(j, n)
<1> USE DEF Inv, TypeOK, StoreTypeOK, PipelineTypeOK, storeVars, pipelineVars, Goto, Early,
            Persisted, PipelineStage, Uploading
<1>1. CASE CreateRow(j) \/ UploadSource(j) \/ Enqueue(j) \/ RequestFails(j)
  <2>1. UNCHANGED <<signals, stage>>
    BY <1>1 DEF CreateRow, InsertJob, UploadSource, UploadFile, Enqueue, RequestFails
  <2>2. object'[j]["summary_json"] = object[j]["summary_json"]
    BY <1>1 DEF CreateRow, InsertJob, UploadSource, UploadFile, Enqueue, RequestFails, Artifact,
       Result
  <2> QED
    BY <2>1, <2>2
<1>2. CASE Redeliver(j) \/ Age(j)
  BY <1>2 DEF Redeliver, Age
<1>3. CASE Begin(j, n) \/ SkipProcessed(j, n)
  BY <1>3 DEF Begin, SkipProcessed, Deliver
<1>4. CASE Preprocess(j, n)
  BY <1>4 DEF Preprocess, UploadFile
<1>5. CASE StartAsr(j, n) \/ Transcribed(j, n)
  BY <1>5 DEF StartAsr, Transcribed, UpdateStatus
<1>6. CASE Summarized(j, n)
  BY <1>6 DEF Summarized
<1>7. CASE UploadResult(j, n)
  BY <1>7 DEF UploadResult, UploadFile
<1>8. CASE Persist(j, n)
  BY <1>8 DEF Persist
<1>9. CASE EmailSent(j, n) \/ EmailFails(j, n)
  BY <1>9 DEF EmailSent, EmailFails, UpdateStatus
<1>10. CASE MarkDone(j, n) \/ StageFails(j, n)
  BY <1>10 DEF MarkDone, StageFails, UpdateStatus
<1>11. CASE Dispatch(j, n)
  BY <1>11 DEF Dispatch, ReadSignals, Return, SendEval
<1>12. CASE Abort(j, n)
  BY <1>12, AbortEnds DEF Running
<1> QED
  BY <1>1, <1>2, <1>3, <1>4, <1>5, <1>6, <1>7, <1>8, <1>9, <1>10, <1>11, <1>12
  DEF JobStep, Api, Run, Pipeline

LEMMA PersistWrites ==
  ASSUME SingleInv, NEW j \in Jobs, NEW n \in Deliveries, Persist(j, n), SignalInv(j)
  PROVE  /\ stage[j][n] = "persist" /\ stage'[j][n] = "email"
         /\ UNCHANGED object /\ object[j]["summary_json"] = n
         /\ \A c \in SignalColumn :
              /\ signals[j][c] = NoSignal
              /\ signals'[j][c] \in {NoSignal, [by |-> "pipeline", of |-> n]}
<1> USE DEF SingleInv, Inv, TypeOK, StoreTypeOK, PipelineTypeOK, Goto
<1>1. stage[j][n] = "persist" /\ stage'[j][n] = "email" /\ UNCHANGED object
  BY DEF Persist
<1>2. object[j]["summary_json"] = n
  BY <1>1 DEF SoleInv, OutputInv, AllStored, TranscriptStored, SummaryStored
<1>3. \A c \in SignalColumn : signals[j][c] = NoSignal
  BY <1>1 DEF SignalInv, UnsavedInv, PipelineStage, Persisted
<1>4. \A c \in SignalColumn : signals'[j][c] \in {NoSignal, [by |-> "pipeline", of |-> n]}
  BY <1>3 DEF Persist
<1> QED
  BY <1>1, <1>2, <1>3, <1>4

LEMMA SignalStep ==
  ASSUME EvalInv, [Next]_vars, NEW j \in Jobs, NEW n \in Deliveries, JobStep(j, n)
  PROVE  SignalInv(j)'
<1> DEFINE Same2(m) == stage'[j][m] = stage[j][m] /\ todo'[j][m] = todo[j][m]
<1>1. /\ SingleInv /\ SoleInv(j) /\ TokenInv(j) /\ SignalInv(j)
      /\ Inv /\ TypeOK /\ JobInv(j)
  BY DEF EvalInv, SingleInv, SoleInv, Inv
<1>2. ASSUME NEW m \in Deliveries, m # n, Persist(j, n)
      PROVE  stage'[j][m] \notin Running
  BY <1>1, <1>2, PersistWrites, OthersIdle DEF Running, PipelineStage
<1>3. UnsavedInv(j)'
  <2> SUFFICES ASSUME NEW m \in Deliveries, stage'[j][m] \in Early, NEW c \in SignalColumn
               PROVE  signals'[j][c] = NoSignal
    BY DEF UnsavedInv, Early
  <2>1. ~Persist(j, n)
    BY <1>1, <1>2, PersistWrites DEF Early, Persisted, Running
  <2>2. signals' = signals
    BY <1>1, <2>1, SignalWrites
  <2>3. CASE stage[j][m] \in Early
    BY <1>1, <2>2, <2>3 DEF SignalInv, UnsavedInv, Early
  <2>4. CASE m = n /\ Begin(j, n)
    BY <1>1, <2>2, <2>4 DEF Begin, JobInv, StatusInv
  <2> QED
    BY <1>1, <2>3, <2>4, SignalWrites, OtherRunsWait
<1>4. GradeInv(j)'
  <2>1. CASE Persist(j, n)
    BY <1>1, <2>1, PersistWrites DEF GradeInv, NoSignal
  <2>2. CASE UNCHANGED signals /\ object'[j]["summary_json"] = object[j]["summary_json"]
    BY <1>1, <2>2 DEF SignalInv, GradeInv
  <2>3. CASE UNCHANGED signals /\ stage[j][n] \in Early
    BY <1>1, <2>3 DEF SignalInv, UnsavedInv, GradeInv, Early
  <2> QED
    BY <1>1, <2>1, <2>2, <2>3, SignalWrites
<1>5. DelayInv(j)'
  <2> SUFFICES ASSUME NEW m \in Deliveries, NEW e \in todo'[j][m], stage'[j][m] = "delay"
               PROVE  signals'[j][e].by # "pipeline"
    BY DEF DelayInv
  <2>1. ~Persist(j, n)
    BY <1>1, <1>2, PersistWrites DEF Running
  <2>2. signals' = signals
    BY <1>1, <2>1, SignalWrites
  <2>3. CASE Same2(m)
    BY <1>1, <2>2, <2>3 DEF SignalInv, DelayInv
  <2>4. CASE ReadSignals(j, m)
    BY <1>1, <2>2, <2>4 DEF ReadSignals, TypeOK, PipelineTypeOK
  <2>5. CASE Return(j, m)
    BY <1>1, <2>5 DEF Return, Goto, TypeOK, PipelineTypeOK
  <2>6. ASSUME NEW d \in Evals, SendEval(j, m, d)
        PROVE  signals'[j][e].by # "pipeline"
    BY <1>1, <2>2, <2>6 DEF SendEval, TypeOK, PipelineTypeOK, SignalInv, DelayInv
  <2> QED
    BY <1>1, <2>3, <2>4, <2>5, <2>6, DispatchSteps
<1>6. ScoreInv(j)'
  <2> SUFFICES ASSUME NEW e \in Evals, signals'[j][e].by = "task"
               PROVE  (Finished(j) /\ PublishedBySome(j))'
    BY DEF ScoreInv
  <2>1. ~Persist(j, n)
    <3>1. e \in SignalColumn
      BY DEF SignalColumn
    <3>2. Persist(j, n) => signals'[j][e] \in {NoSignal, [by |-> "pipeline", of |-> n]}
      BY <1>1, <3>1, PersistWrites
    <3>3. NoSignal.by = "nobody"
      BY DEF NoSignal
    <3> QED
      BY <3>2, <3>3
  <2>2. signals' = signals
    BY <1>1, <2>1, SignalWrites
  <2>3. Finished(j) /\ PublishedBySome(j)
    BY <1>1, <2>2 DEF SignalInv, ScoreInv
  <2> QED
    BY <1>1, <2>3, FinishedStays, PublishedStays
<1> QED
  BY <1>3, <1>4, <1>5, <1>6 DEF SignalInv

LEMMA SameSignals ==
  ASSUME NEW i \in Jobs, SignalInv(i), Same(i)
  PROVE  SignalInv(i)'
<1>1. UnsavedInv(i)' /\ GradeInv(i)' /\ DelayInv(i)'
  BY DEF SignalInv, UnsavedInv, GradeInv, DelayInv, Same
<1>2. ScoreInv(i)'
  BY DEF SignalInv, ScoreInv, Finished, PublishedBySome, Published, Same
<1> QED
  BY <1>1, <1>2 DEF SignalInv

LEMMA SignalReaper ==
  ASSUME EvalInv, [Next]_vars, ReapSelect \/ ReapCommit, NEW j \in Jobs
  PROVE  SignalInv(j)'
<1>1. UNCHANGED <<emails, artifacts, signals, object, stage, todo, mailed>> /\ SignalInv(j)
  BY DEF ReapSelect, ReapCommit, storeVars, EvalInv
<1>2. UnsavedInv(j)' /\ GradeInv(j)' /\ DelayInv(j)'
  BY <1>1 DEF SignalInv, UnsavedInv, GradeInv, DelayInv
<1>3. ScoreInv(j)'
  BY <1>1, FinishedStays, PublishedStays DEF SignalInv, ScoreInv, EvalInv, SingleInv
<1> QED
  BY <1>2, <1>3 DEF SignalInv

LEMMA OnlyPersistWrites ==
  ASSUME Inv, [Next]_vars
  PROVE  UNCHANGED signals \/ \E j \in Jobs, n \in Deliveries : Persist(j, n)
<1>1. CASE UNCHANGED vars \/ ReapSelect \/ ReapCommit
  BY <1>1 DEF vars, storeVars, ReapSelect, ReapCommit
<1>2. ASSUME NEW j \in Jobs, Api(j) \/ Redeliver(j) \/ Age(j)
      PROVE  UNCHANGED signals \/ \E n \in Deliveries : Persist(j, n)
  <2>1. 1 \in Deliveries
    BY DEF Deliveries
  <2> QED
    BY <1>2, <2>1, SignalWrites DEF JobStep
<1> QED
  BY <1>1, <1>2, SignalWrites DEF Next, JobStep

-----------------------------------------------------------------------------
(* Messages                                                                 *)

LEMMA OnlySendEvalSends ==
  ASSUME [Next]_vars
  PROVE  \/ evalSent' = evalSent
         \/ \E j \in Jobs, n \in Deliveries, e \in Evals : SendEval(j, n, e)
<1>1. CASE UNCHANGED vars \/ ReapSelect \/ ReapCommit
  BY <1>1 DEF vars, pipelineVars, ReapSelect, ReapCommit
<1>2. ASSUME NEW j \in Jobs, Api(j) \/ Redeliver(j) \/ Age(j)
      PROVE  evalSent' = evalSent
  BY <1>2 DEF Api, CreateRow, UploadSource, Enqueue, RequestFails, Redeliver, Age, pipelineVars
<1>3. ASSUME NEW j \in Jobs, NEW n \in Deliveries,
             Begin(j, n) \/ SkipProcessed(j, n) \/ Pipeline(j, n) \/ Abort(j, n)
      PROVE  evalSent' = evalSent
  <2>1. CASE Begin(j, n) \/ SkipProcessed(j, n) \/ Abort(j, n)
    BY <2>1 DEF Begin, SkipProcessed, Deliver, Abort, Raise, HardTimeLimit, WorkerLost
  <2>2. CASE Pipeline(j, n)
    BY <2>2 DEF Pipeline, Preprocess, StartAsr, Transcribed, Summarized, UploadResult, Persist,
       EmailSent, EmailFails, MarkDone, StageFails
  <2> QED
    BY <1>3, <2>1, <2>2
<1>4. ASSUME NEW j \in Jobs, NEW n \in Deliveries, Dispatch(j, n)
      PROVE  evalSent' = evalSent \/ \E e \in Evals : SendEval(j, n, e)
  BY <1>4 DEF Dispatch, ReadSignals, Return
<1> QED
  BY <1>1, <1>2, <1>3, <1>4 DEF Next, Run

(* A run that sends has left the pipeline, and there is no other. *)
LEMMA SenderIsFinished ==
  ASSUME SingleInv, NEW j \in Jobs, NEW n \in Deliveries, stage[j][n] = "delay"
  PROVE  Finished(j)
<1>1. Inv /\ TokenInv(j) /\ RunInv(j, n)
  BY DEF SingleInv, SoleInv, Inv, JobInv
<1>2. request[j] = "accepted" /\ status[j] # "queued"
  BY <1>1, BegunAccepted DEF RunInv, AsrStarted, Running, PipelineStage, Uploading
<1>3. \A m \in Deliveries : stage[j][m] \notin PipelineStage
  BY <1>1 DEF TokenInv, Running, PipelineStage, Uploading
<1> QED
  BY <1>2, <1>3 DEF Finished

LEMMA MessagesNext ==
  ASSUME EvalInv, [Next]_vars, NEW m \in evalSent'
  PROVE  MessageInv(m)'
<1>1. SingleInv /\ Inv /\ TypeOK
  BY DEF EvalInv, SingleInv, Inv
<1>2. ASSUME m.job \in Jobs, Finished(m.job), signals[m.job][m.eval].by # "pipeline"
      PROVE  MessageInv(m)'
  BY <1>1, <1>2, FinishedStays DEF MessageInv
<1>3. CASE m \in evalSent
  BY <1>1, <1>2, <1>3 DEF EvalInv, MessageInv, TypeOK, PipelineTypeOK, EvalMessage
<1>4. ASSUME NEW j \in Jobs, NEW n \in Deliveries, NEW e \in Evals, SendEval(j, n, e),
             m \notin evalSent
      PROVE  MessageInv(m)'
  <2>1. m.job = j /\ m.eval = e
    BY <1>4 DEF SendEval
  <2>2. Finished(j) /\ signals[j][e].by # "pipeline"
    BY <1>1, <1>4, SenderIsFinished DEF SendEval, EvalInv, SignalInv, DelayInv
  <2> QED
    BY <1>2, <2>1, <2>2
<1> QED
  BY <1>3, <1>4, OnlySendEvalSends

-----------------------------------------------------------------------------
(* Every step                                                               *)

LEMMA PipelineKeepsEvals ==
  ASSUME ~Redelivery, EvalInv, [Next]_vars, UNCHANGED evalRuns
  PROVE  EvalInv'
<1>1. SingleInv /\ SingleInv' /\ Inv /\ TypeOK
  BY SingleNext DEF EvalInv, SingleInv, Inv
<1>2. ASSUME NEW i \in Jobs PROVE SignalInv(i)'
  <2>1. SignalInv(i)
    BY DEF EvalInv
  <2>2. CASE UNCHANGED vars
    BY <2>1, <2>2, SameSignals DEF vars, storeVars, pipelineVars, Same
  <2>3. CASE ReapSelect \/ ReapCommit
    BY <2>3, SignalReaper
  <2>4. ASSUME NEW j \in Jobs, NEW n \in Deliveries, JobStep(j, n)
        PROVE  SignalInv(i)'
    BY <1>1, <2>1, <2>4, SignalStep, OthersSame, SameSignals
  <2>5. ASSUME NEW j \in Jobs, Api(j) \/ Redeliver(j) \/ Age(j)
        PROVE  SignalInv(i)'
    <3>1. 1 \in Deliveries
      BY DEF Deliveries
    <3> QED
      BY <2>4, <2>5, <3>1 DEF JobStep
  <2> QED
    BY <2>2, <2>3, <2>4, <2>5 DEF Next, JobStep
<1>3. ASSUME NEW r \in evalRuns PROVE TaskInv(r)'
  <2>1. TaskInv(r) /\ r.job \in Jobs
    BY DEF EvalInv, EvalRun
  <2>2. Finished(r.job)' /\ UNCHANGED <<emails[r.job], signals[r.job], object[r.job],
                                       mailed[r.job]>>
    BY <1>1, <2>1, FinishedStays DEF TaskInv
  <2>3. PublishedBySome(r.job)'
    BY <2>1, <2>2, PublishedStays DEF TaskInv
  <2> QED
    BY <2>1, <2>2, <2>3 DEF TaskInv
<1> QED
  BY <1>1, <1>2, <1>3, MessagesNext DEF EvalInv

(* A task grades a DONE job, and a DONE job is published. *)
LEMMA StartKeepsEvals ==
  ASSUME EvalInv, NEW m \in evalSent, StartEval(m)
  PROVE  EvalInv'
<1>1. /\ UNCHANGED <<storeVars, request, inbox, delivered, stage, todo, mailed, reaping>>
      /\ evalSent' \subseteq evalSent
  BY DEF StartEval
<1>2. SingleInv /\ Inv /\ TypeOK
  BY DEF EvalInv, SingleInv, Inv
<1>3. SingleInv'
  <2>1. TypeOK'
    BY <1>1, <1>2 DEF TypeOK, StoreTypeOK, PipelineTypeOK, storeVars
  <2>2. ASSUME NEW j \in Jobs PROVE Same(j)
    BY <1>1 DEF storeVars, Same
  <2> QED
    BY <1>2, <2>1, <2>2, SameInv, SameSole DEF SingleInv, Inv
<1>4. ASSUME NEW j \in Jobs PROVE SignalInv(j)'
  BY <1>1, SameSignals DEF EvalInv, storeVars, Same
<1>5. \A x \in evalSent' : MessageInv(x)'
  BY <1>1 DEF EvalInv, MessageInv, Finished, storeVars
<1>6. ASSUME NEW r \in evalRuns, TaskInv(r) PROVE TaskInv(r)'
  BY <1>1, <1>6 DEF TaskInv, Finished, PublishedBySome, Published, storeVars
<1>7. CASE UNCHANGED evalRuns
  BY <1>3, <1>4, <1>5, <1>6, <1>7 DEF EvalInv
<1>8. ASSUME Gradable(m.job), NEW r,
             r = [job |-> m.job, delivery |-> m.delivery, eval |-> m.eval,
                  transcript |-> Absent, summary |-> Absent],
             evalRuns' = evalRuns \union {r}
      PROVE  EvalInv'
  <2>1. m \in EvalMessage /\ m.job \in Jobs
    BY <1>2 DEF TypeOK, PipelineTypeOK, EvalMessage
  <2>2. r \in EvalRun
    BY <1>8, <2>1 DEF EvalMessage, EvalRun, Version
  <2>3. PublishedBySome(m.job)
    BY <1>2, <1>8, <2>1 DEF Gradable, SingleInv, SoleInv, DoneInv, PublishedBySome
  <2>4. TaskInv(r)
    BY <1>8, <2>3 DEF EvalInv, MessageInv, TaskInv
  <2>5. TaskInv(r)'
    BY <1>1, <2>4 DEF TaskInv, Finished, PublishedBySome, Published, storeVars
  <2> QED
    BY <1>3, <1>4, <1>5, <1>6, <1>8, <2>2, <2>5 DEF EvalInv
<1> QED
  BY <1>7, <1>8 DEF StartEval

(* The score is of the summary that the job will always serve. *)
LEMMA StoreKeepsEvals ==
  ASSUME EvalInv, NEW r \in evalRuns, StoreSignal(r)
  PROVE  EvalInv'
<1> DEFINE score == [by |-> "task", of |-> r.summary]
<1>1. /\ SingleInv /\ Inv /\ TypeOK /\ TaskInv(r)
      /\ r.job \in Jobs /\ r.eval \in Evals /\ r.eval \in SignalColumn
  BY DEF EvalInv, SingleInv, Inv, EvalRun, SignalColumn
<1>2. /\ UNCHANGED <<status, emails, artifacts, stale, object, pipelineVars>>
      /\ evalRuns' \subseteq evalRuns
  BY DEF StoreSignal
<1>3. /\ Finished(r.job) /\ PublishedBySome(r.job)
      /\ score.of = object[r.job]["summary_json"] /\ score \in Signal
  BY <1>1 DEF StoreSignal, TaskInv, TypeOK, StoreTypeOK, Artifact, Result, Signal
<1>4. ASSUME NEW j \in Jobs, NEW c \in SignalColumn
      PROVE  \/ signals'[j][c] = signals[j][c]
             \/ j = r.job /\ c = r.eval /\ signals'[j][c] = score
  BY <1>1 DEF StoreSignal, TypeOK, StoreTypeOK
<1>5. \A j \in Jobs : /\ Finished(j)' <=> Finished(j)
                      /\ PublishedBySome(j)' <=> PublishedBySome(j)
  BY <1>2 DEF Finished, PublishedBySome, Published, pipelineVars
<1>6. SingleInv'
  <2>1. TypeOK'
    <3>1. signals' = [signals EXCEPT ![r.job] = [signals[r.job] EXCEPT ![r.eval] = score]]
      BY DEF StoreSignal
    <3>2. signals' \in [Jobs -> [SignalColumn -> Signal]]
      BY <1>1, <1>3, <3>1 DEF TypeOK, StoreTypeOK
    <3> QED
      BY <1>1, <1>2, <3>2 DEF TypeOK, StoreTypeOK, PipelineTypeOK, pipelineVars
  <2>2. ASSUME NEW j \in Jobs PROVE JobInv(j)'
    <3>1. JobInv(j) /\ (request[j] = "new" \/ status[j] = "queued" => j # r.job)
      BY <1>1, <1>3 DEF Inv, Finished
    <3>2. j # r.job => \A c \in SignalColumn : signals'[j][c] = signals[j][c]
      BY <1>4
    <3>3. RequestInv(j)' /\ StatusInv(j)'
      BY <1>2, <3>1, <3>2 DEF JobInv, RequestInv, StatusInv, pipelineVars
    <3>4. \A n \in Deliveries : RunInv(j, n)'
      BY <1>2, <3>1 DEF JobInv, RunInv, pipelineVars
    <3> QED
      BY <3>3, <3>4 DEF JobInv
  <2>3. ASSUME NEW j \in Jobs PROVE SoleInv(j)'
    <3>1. SoleInv(j)
      BY <1>1 DEF SingleInv
    <3>2. TokenInv(j)' /\ MailInv(j)' /\ DoneInv(j)'
      BY <1>2, <3>1 DEF SoleInv, TokenInv, MailInv, DoneInv, Published, pipelineVars
    <3>3. \A n \in Deliveries : OutputInv(j, n)'
      BY <1>2, <3>1 DEF SoleInv, OutputInv, KeysInv, pipelineVars
    <3> QED
      BY <3>2, <3>3 DEF SoleInv
  <2> QED
    BY <2>1, <2>2, <2>3 DEF SingleInv, Inv
<1>7. ASSUME NEW j \in Jobs PROVE SignalInv(j)'
  <2>1. SignalInv(j)
    BY DEF EvalInv
  <2>2. UnsavedInv(j)'
    <3>1. j = r.job => \A n \in Deliveries : stage[j][n] \notin PipelineStage
      BY <1>3 DEF Finished
    <3> QED
      BY <1>2, <1>4, <2>1, <3>1 DEF SignalInv, UnsavedInv, pipelineVars
  <2>3. GradeInv(j)'
    BY <1>2, <1>3, <1>4, <2>1 DEF SignalInv, GradeInv
  <2>4. DelayInv(j)'
    <3>1. todo[j] \in [Deliveries -> SUBSET SignalColumn]
      BY <1>1 DEF TypeOK, PipelineTypeOK
    <3>2. score.by # "pipeline"
      OBVIOUS
    <3> QED
      BY <1>2, <1>4, <2>1, <3>1, <3>2 DEF SignalInv, DelayInv, pipelineVars
  <2>5. ScoreInv(j)'
    BY <1>3, <1>4, <1>5, <2>1 DEF SignalInv, ScoreInv, SignalColumn
  <2> QED
    BY <2>2, <2>3, <2>4, <2>5 DEF SignalInv
<1>8. ASSUME NEW j \in Jobs, NEW e \in Evals, signals[j][e].by # "pipeline"
      PROVE  signals'[j][e].by # "pipeline"
  <2>1. e \in SignalColumn /\ score.by # "pipeline"
    BY DEF SignalColumn
  <2> QED
    BY <1>4, <1>8, <2>1
<1>9. ASSUME NEW m \in evalSent' PROVE MessageInv(m)'
  <2>1. m \in evalSent /\ m.job \in Jobs /\ m.eval \in Evals
    BY <1>1, <1>2 DEF TypeOK, PipelineTypeOK, EvalMessage, pipelineVars
  <2> QED
    BY <1>5, <1>8, <2>1 DEF EvalInv, MessageInv
<1>10. ASSUME NEW q \in evalRuns PROVE TaskInv(q)'
  <2>1. TaskInv(q) /\ q.job \in Jobs /\ q.eval \in Evals
    BY DEF EvalInv, EvalRun
  <2> QED
    BY <1>2, <1>5, <1>8, <2>1 DEF TaskInv
<1> QED
  BY <1>2, <1>6, <1>7, <1>9, <1>10 DEF EvalInv

(* What a task downloads is the output of the run that published. *)
LEMMA LoadKeepsEvals ==
  ASSUME EvalInv, NEW r \in evalRuns, LoadTranscript(r) \/ LoadSummary(r) \/ EvalFails(r)
  PROVE  EvalInv'
<1>1. UNCHANGED vars
  BY DEF LoadTranscript, LoadSummary, EvalFails
<1>2. SingleInv' /\ \A j \in Jobs : SignalInv(j)'
  <2>1. ASSUME NEW j \in Jobs PROVE Same(j)
    BY <1>1 DEF vars, storeVars, pipelineVars, Same
  <2>2. TypeOK'
    BY <1>1, TypeNext DEF EvalInv, SingleInv, Inv
  <2> QED
    BY <2>1, <2>2, SameInv, SameSole, SameSignals DEF EvalInv, SingleInv, Inv
<1>3. \A m \in evalSent' : MessageInv(m)'
  BY <1>1 DEF EvalInv, MessageInv, Finished, vars, storeVars, pipelineVars
<1>4. ASSUME NEW q, TaskInv(q) PROVE TaskInv(q)'
  BY <1>1, <1>4 DEF TaskInv, Finished, PublishedBySome, Published, vars, storeVars, pipelineVars
<1>5. ASSUME NEW s \in EvalRun, TaskInv(s), evalRuns' \subseteq evalRuns \union {s}
      PROVE  EvalInv'
  BY <1>2, <1>3, <1>4, <1>5 DEF EvalInv
<1>6. /\ TaskInv(r) /\ r \in EvalRun
      /\ object[r.job]["transcript"] \in Version /\ object[r.job]["summary_json"] \in Version
  BY DEF EvalInv, SingleInv, Inv, TypeOK, StoreTypeOK, EvalRun, Artifact, Result
<1>7. CASE LoadTranscript(r)
  <2> DEFINE s == [r EXCEPT !.transcript = object[r.job]["transcript"]]
  <2>1. /\ s \in EvalRun /\ s.job = r.job /\ s.eval = r.eval /\ s.summary = r.summary
        /\ s.transcript = object[r.job]["transcript"]
    BY <1>6 DEF EvalRun
  <2>2. TaskInv(s) /\ evalRuns' \subseteq evalRuns \union {s}
    BY <1>6, <1>7, <2>1 DEF TaskInv, LoadTranscript, Replace
  <2> QED
    BY <1>5, <2>1, <2>2
<1>8. CASE LoadSummary(r)
  <2> DEFINE s == [r EXCEPT !.summary = object[r.job]["summary_json"]]
  <2>1. /\ s \in EvalRun /\ s.job = r.job /\ s.eval = r.eval /\ s.transcript = r.transcript
        /\ s.summary = object[r.job]["summary_json"]
    BY <1>6 DEF EvalRun
  <2>2. TaskInv(s) /\ evalRuns' \subseteq evalRuns \union {s}
    BY <1>6, <1>8, <2>1 DEF TaskInv, LoadSummary, Replace
  <2> QED
    BY <1>5, <2>1, <2>2
<1>9. CASE EvalFails(r)
  BY <1>5, <1>6, <1>9 DEF EvalFails
<1> QED
  BY <1>7, <1>8, <1>9

LEMMA EvalInvNext ==
  ASSUME ~Redelivery
  PROVE  EvalInv /\ [EvalNext]_evalVars => EvalInv'
<1> SUFFICES ASSUME EvalInv, [EvalNext]_evalVars PROVE EvalInv'
  OBVIOUS
<1>1. CASE UNCHANGED evalVars \/ (Next /\ UNCHANGED evalRuns)
  BY <1>1, PipelineKeepsEvals DEF evalVars
<1>2. ASSUME NEW m \in evalSent, StartEval(m) PROVE EvalInv'
  BY <1>2, StartKeepsEvals
<1>3. ASSUME NEW r \in evalRuns, EvalStep(r) PROVE EvalInv'
  BY <1>3, StoreKeepsEvals, LoadKeepsEvals DEF EvalStep
<1> QED
  BY <1>1, <1>2, <1>3 DEF EvalNext

(* With the tasks beside the pipeline, the reaper and the API: what a score *)
(* and a task under way owe to the run that published the job.              *)
THEOREM EvalInvariance == ~Redelivery => (EvalSpec => []EvalInv)
<1> SUFFICES ASSUME ~Redelivery PROVE EvalSpec => []EvalInv
  OBVIOUS
<1>1. EvalInv /\ [EvalNext]_evalVars => EvalInv'
  BY EvalInvNext
<1> QED
  BY <1>1, EvalInvInit, PTL DEF EvalSpec

(* The eval tasks disturb none of what a job promises without them.         *)
THEOREM TasksDisturbNoJob ==
  ~Redelivery => (EvalSpec => [](MailedAtMostOnce /\ ServedIsMailed))
<1>1. EvalInv => SingleInv
  BY DEF EvalInv
<1> QED
  BY <1>1, SinglePromises, EvalInvariance, PTL

(* What a run saves extends what the row says at that moment, and an empty  *)
(* signal in its copy of the row is empty in the row.                       *)
THEOREM CachedRowsHold == ~Redelivery => (EvalSpec => []CachedRowHolds)
<1>1. EvalInv => CachedRowHolds
  BY DEF EvalInv, SingleInv, SoleInv, OutputInv, KeysInv, SignalInv, UnsavedInv, Persisted,
     CachedRowHolds
<1> QED
  BY <1>1, EvalInvariance, PTL

(* The quality signals in a DONE job's response grade the summary in it:    *)
(* flags and scores of a lost run are never left beside another's output.   *)
THEOREM ScoresAreOfServed == ~Redelivery => (EvalSpec => []SignalsGradeServed)
<1>1. EvalInv => SignalsGradeServed
  BY DEF EvalInv, SignalInv, GradeInv, SignalsGradeServed
<1> QED
  BY <1>1, EvalInvariance, PTL

(* A judge gets a transcript and a summary of one run, though the task      *)
(* downloads them one after the other while workers and reaper go on.       *)
THEOREM JudgesReadOneRun == ~Redelivery => (EvalSpec => []JudgedOnOwnTranscript)
<1>1. EvalInv => JudgedOnOwnTranscript
  <2> SUFFICES ASSUME EvalInv, NEW r \in evalRuns, r.summary # Absent
               PROVE  r.transcript = r.summary
    BY DEF JudgedOnOwnTranscript
  <2>1. TaskInv(r)
    BY DEF EvalInv
  <2>2. PICK n \in Deliveries : \A k \in Result : object[r.job][k] = n
    BY <2>1 DEF TaskInv, PublishedBySome, Published
  <2> QED
    BY <2>1, <2>2 DEF TaskInv, Result
<1> QED
  BY <1>1, EvalInvariance, PTL

(* What a post-terminal eval graded is what the recipients were sent.       *)
THEOREM ScoresComeAfterMail == ~Redelivery => (EvalSpec => []GradedAfterMail)
<1>1. EvalInv => GradedAfterMail
  <2> SUFFICES ASSUME EvalInv, NEW j \in Jobs, NEW e \in Evals,
                      signals[j][e].by = "task", emails[j]
               PROVE  signals[j][e].of \in mailed[j]
    BY DEF GradedAfterMail
  <2>1. signals[j][e].of = object[j]["summary_json"]
    <3>1. e \in SignalColumn /\ NoSignal.by # "task"
      BY DEF SignalColumn, NoSignal
    <3> QED
      BY <3>1 DEF EvalInv, SignalInv, GradeInv
  <2>2. PICK n \in Deliveries : Published(j, n)
    BY DEF EvalInv, SignalInv, ScoreInv, PublishedBySome
  <2> QED
    BY <2>1, <2>2 DEF Published, Result
<1> QED
  BY <1>1, EvalInvariance, PTL

(* Neither a later run nor a task takes a score that regeneration persisted *)
(* away: who sent the message had read the column, and it stays as read.    *)
THEOREM RegenerationHasTheLastWord == ~Redelivery => (EvalSpec => SingleSourceOfTruth)
<1> SUFFICES ASSUME ~Redelivery PROVE EvalSpec => SingleSourceOfTruth
  OBVIOUS
<1> DEFINE Kept == \A j \in Jobs, e \in Evals :
                     signals[j][e].by = "pipeline" => signals'[j][e] = signals[j][e]
<1>1. ASSUME EvalInv, [EvalNext]_evalVars, NEW j \in Jobs, NEW e \in Evals,
             signals[j][e].by = "pipeline"
      PROVE  signals'[j][e] = signals[j][e]
  <2>1. SingleInv /\ TypeOK /\ SignalInv(j) /\ e \in SignalColumn
    BY <1>1 DEF EvalInv, SingleInv, Inv, SignalColumn
  <2>2. CASE [Next]_vars
    <3>1. UNCHANGED signals \/ \E i \in Jobs, n \in Deliveries : Persist(i, n)
      BY <2>1, <2>2, OnlyPersistWrites DEF SingleInv
    <3>2. ASSUME NEW i \in Jobs, NEW n \in Deliveries, Persist(i, n)
          PROVE  signals'[j][e] = signals[j][e]
      <4>1. CASE i = j
        BY <1>1, <2>1, <3>2, <4>1, PersistWrites DEF NoSignal
      <4>2. CASE i # j
        BY <2>1, <3>2, <4>2 DEF Persist, TypeOK, StoreTypeOK
      <4> QED
        BY <4>1, <4>2
    <3> QED
      BY <3>1, <3>2
  <2>3. ASSUME NEW m \in evalSent, StartEval(m)
        PROVE  signals' = signals
    BY <2>3 DEF StartEval, storeVars
  <2>4. ASSUME NEW r \in evalRuns, EvalStep(r)
        PROVE  signals'[j][e] = signals[j][e]
    <3>1. CASE StoreSignal(r)
      <4>1. TaskInv(r) /\ r.job \in Jobs
        BY <1>1 DEF EvalInv, EvalRun
      <4>2. r.job # j \/ r.eval # e
        BY <1>1, <4>1 DEF TaskInv
      <4> QED
        BY <2>1, <3>1, <4>1, <4>2 DEF StoreSignal, TypeOK, StoreTypeOK
    <3>2. CASE ~StoreSignal(r)
      BY <2>4, <3>2 DEF EvalStep, LoadTranscript, LoadSummary, EvalFails, vars, storeVars
    <3> QED
      BY <3>1, <3>2
  <2> QED
    BY <1>1, <2>2, <2>3, <2>4 DEF EvalNext, evalVars
<1>2. EvalInv /\ [EvalNext]_evalVars => [Kept]_evalVars
  BY <1>1
<1> QED
  BY <1>2, EvalInvariance, PTL DEF EvalSpec, SingleSourceOfTruth
=============================================================================
