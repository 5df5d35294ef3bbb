---------------------------- MODULE QualityEvals ----------------------------
(***************************************************************************)
(* The post-terminal evals of worker/worker.py on top of JobPipeline: the  *)
(* Celery tasks evaluate_summary (quality_eval) and verify_summq           *)
(* (summq_eval), one protocol with two judges.  A task reads the row,      *)
(* downloads the transcript and the structured summary, asks the judge,    *)
(* and writes one column: four steps with the rest of the system between.  *)
(* Its message is acknowledged when a worker takes it, so a task is not    *)
(* run again after its worker is lost.                                     *)
(***************************************************************************)
EXTENDS JobPipeline

(* The tasks under way, each with its message's job, delivery and eval and  *)
(* the versions of transcript and summary it has downloaded.                *)
VARIABLE evalRuns

evalVars == <<vars, evalRuns>>

EvalInit == Init /\ evalRuns = {}

-----------------------------------------------------------------------------
(* Faulty variants of steps below, for showing that a property can fail.    *)

(* The task looks for the artifacts only. *)
GradableUnlessMissing(j) == {"transcript", "summary_json"} \subseteq artifacts[j]

-----------------------------------------------------------------------------
Gradable(j) ==
  status[j] = "done" /\ {"transcript", "summary_json"} \subseteq artifacts[j]

(* The task takes its message and reads the row.  A job that is not DONE,   *)
(* or lacks an artifact, is left ungraded.                                  *)
StartEval(m) ==
  /\ evalSent' = evalSent \ {m}
  /\ \/ /\ Gradable(m.job)
        /\ evalRuns' = evalRuns \union
             {[job |-> m.job, delivery |-> m.delivery, eval |-> m.eval,
               transcript |-> Absent, summary |-> Absent]}
     \/ /\ ~Gradable(m.job)
        /\ UNCHANGED evalRuns
  /\ UNCHANGED <<storeVars, request, inbox, delivered, stage, todo, mailed, reaping>>

Replace(r, s) == evalRuns' = (evalRuns \ {r}) \union {s}

LoadTranscript(r) ==
  /\ r.transcript = Absent
  /\ object[r.job]["transcript"] # Absent
  /\ Replace(r, [r EXCEPT !.transcript = object[r.job]["transcript"]])
  /\ UNCHANGED vars

LoadSummary(r) ==
  /\ r.transcript # Absent
  /\ r.summary = Absent
  /\ object[r.job]["summary_json"] # Absent
  /\ Replace(r, [r EXCEPT !.summary = object[r.job]["summary_json"]])
  /\ UNCHANGED vars

(* update_job of the task's one column, from a row read before the judge.   *)
StoreSignal(r) ==
  /\ r.summary # Absent
  /\ evalRuns' = evalRuns \ {r}
  /\ signals' = [signals EXCEPT ![r.job] =
       [@ EXCEPT ![r.eval] = [by |-> "task", of |-> r.summary]]]
  /\ UNCHANGED <<status, emails, artifacts, stale, object, pipelineVars>>

(* Any error is logged and swallowed; a lost worker leaves the same trace.  *)
EvalFails(r) ==
  /\ evalRuns' = evalRuns \ {r}
  /\ UNCHANGED vars

EvalStep(r) == LoadTranscript(r) \/ LoadSummary(r) \/ StoreSignal(r) \/ EvalFails(r)

EvalNext ==
  \/ Next /\ UNCHANGED evalRuns
  \/ \E m \in evalSent : StartEval(m)
  \/ \E r \in evalRuns : EvalStep(r)

EvalSpec == EvalInit /\ [][EvalNext]_evalVars

-----------------------------------------------------------------------------
(* A quality signal that GET /result serves with a DONE summary grades that *)
(* summary, not the text of another run.                                    *)
SignalsGradeServed ==
  \A j \in Jobs, c \in SignalColumn :
    status[j] = "done" /\ signals[j][c] # NoSignal
      => signals[j][c].of = object[j]["summary_json"]

(* A summary is judged against the transcript it was made from, though the  *)
(* two are uploaded and downloaded one after the other.                     *)
JudgedOnOwnTranscript ==
  \A r \in evalRuns : r.summary # Absent => r.transcript = r.summary

(* The post-terminal evals come after the mail: a score they store is of a  *)
(* summary that was sent, never of one that can still be changed.           *)
GradedAfterMail ==
  \A j \in Jobs, e \in Evals :
    signals[j][e].by = "task" /\ emails[j] => signals[j][e].of \in mailed[j]

(* "Single source of truth" (docstring of _dispatch_post_terminal): a score *)
(* that regeneration persisted is not overwritten by a post-terminal eval.  *)
SingleSourceOfTruth ==
  [][\A j \in Jobs, e \in Evals :
       signals[j][e].by = "pipeline" => signals'[j][e] = signals[j][e]]_evalVars
=============================================================================
