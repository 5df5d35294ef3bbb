----------------------------- MODULE Summarize -----------------------------
(***************************************************************************)
(* summarize_transcript of summarize/summarize.py: one call of the model   *)
(* for a transcript that fits its context; for a longer one a map over the *)
(* chunks in a thread pool, then a reduce.  An answer without JSON is      *)
(* asked for again, at every level: each chunk has its attempts, and a     *)
(* reduce answer that does not parse starts a new round, map included.     *)
(*                                                                         *)
(* Chunks are tasks of a concurrent.futures pool: its threads take them in *)
(* order, the caller collects the results in order, and the first one that *)
(* raises cancels the tasks nobody has taken and waits for the others.     *)
(***************************************************************************)
EXTENDS Integers, FiniteSets

CONSTANTS
  MaxChunks,       \* bound: chunks of a transcript
  MaxWorkers,      \* bound: values of LLM_MAX_WORKERS
  MaxAttempts      \* bound: values of LLM_PARSE_MAX_ATTEMPTS

ASSUME SummarizeAssumption ==
  /\ MaxChunks \in Nat \ {0}
  /\ MaxWorkers \in Nat
  /\ MaxAttempts \in Nat

VARIABLES
  numChunks, workers, maxAttempts,    \* the transcript and the settings
  caller,        \* what summarize_transcript does
  round,         \* _attempt of build_summary or _summarize_single_pass
  task,          \* of each chunk
  attempt,       \* _attempt of summarize_chunk
  answered,      \* the round in which a chunk was last summarized
  next,          \* the chunk whose result the caller waits for
  calls          \* of the model

config == <<numChunks, workers, maxAttempts>>
mapVars == <<task, attempt, answered, next>>
vars == <<config, caller, round, mapVars, calls>>

Chunks == 1 .. numChunks
Running == {c \in Chunks : task[c] = "running"}

(* There is always one attempt, whatever the setting. *)
Attempts(n) == IF n < 1 THEN 1 ELSE n

(* The calls a summary can cost. *)
MostCalls(n, a) == Attempts(a) * (n * Attempts(a) + 1)
CallCap == MostCalls(MaxChunks, MaxAttempts) + 1

(* Attempts stay below the limit.                                           *)
TypeOK ==
  /\ numChunks \in 1 .. MaxChunks
  /\ workers \in 0 .. MaxWorkers
  /\ maxAttempts \in 0 .. MaxAttempts
  /\ caller \in {"start", "single", "map", "raising", "reduce", "done", "raised"}
  /\ round \in 0 .. Attempts(maxAttempts) - 1
  /\ task \in [Chunks -> {"queued", "running", "parsed", "raised", "cancelled"}]
  /\ attempt \in [Chunks -> 0 .. Attempts(maxAttempts) - 1]
  /\ answered \in [Chunks -> -1 .. round]
  /\ next \in 1 .. numChunks + 1
  /\ calls \in 0 .. CallCap

Init ==
  /\ numChunks \in 1 .. MaxChunks
  /\ workers \in 0 .. MaxWorkers
  /\ maxAttempts \in 0 .. MaxAttempts
  /\ caller = "start"
  /\ round = 0
  /\ task = [c \in Chunks |-> "cancelled"]
  /\ attempt = [c \in Chunks |-> 0]
  /\ answered = [c \in Chunks |-> -1]
  /\ next = 1
  /\ calls = 0

(* Faulty variants, for showing that a property can fail.                   *)

(* One attempt more than the setting. *)
LastAttemptLate(n) == n >= maxAttempts

(* What was summarized is not summarized again, nor submitted. *)
SubmitFailed ==
  /\ caller' = "map"
  /\ task' = [c \in Chunks |-> IF task[c] = "parsed" THEN "parsed" ELSE "queued"]
  /\ attempt' = [c \in Chunks |-> 0]
  /\ next' = 1
  /\ UNCHANGED answered

-----------------------------------------------------------------------------
Call == calls' = IF calls < CallCap THEN calls + 1 ELSE calls

LastAttempt(n) == n + 1 >= maxAttempts

(* executor.map submits every chunk; a pool of no threads is refused.       *)
SubmitAll ==
  IF workers = 0
  THEN caller' = "raised" /\ UNCHANGED mapVars
  ELSE /\ caller' = "map"
       /\ task' = [c \in Chunks |-> "queued"]
       /\ attempt' = [c \in Chunks |-> 0]
       /\ next' = 1
       /\ UNCHANGED answered

(* The transcript fits the context of the model, or it does not.            *)
Start ==
  /\ caller = "start"
  /\ \/ caller' = "single" /\ UNCHANGED mapVars
     \/ SubmitAll
  /\ UNCHANGED <<config, round, calls>>

SinglePass ==
  /\ caller = "single"
  /\ Call
  /\ \/ caller' = "done" /\ UNCHANGED round
     \/ ~LastAttempt(round) /\ round' = round + 1 /\ UNCHANGED caller
     \/ caller' = "raised" /\ UNCHANGED round
  /\ UNCHANGED <<config, mapVars>>

-----------------------------------------------------------------------------
(* A free thread takes the first chunk in the queue.                        *)
Take(c) ==
  /\ task[c] = "queued"
  /\ \A d \in Chunks : d < c => task[d] # "queued"
  /\ Cardinality(Running) < workers
  /\ task' = [task EXCEPT ![c] = "running"]
  /\ UNCHANGED <<config, caller, round, attempt, answered, next, calls>>

Parsed(c) ==
  /\ task[c] = "running"
  /\ Call
  /\ task' = [task EXCEPT ![c] = "parsed"]
  /\ answered' = [answered EXCEPT ![c] = round]
  /\ UNCHANGED <<config, caller, round, attempt, next>>

(* Faulty variants of what follows. *)

(* The round is not counted. *)
ReduceUncounted ==
  /\ caller = "reduce"
  /\ Call
  /\ \/ caller' \in {"done", "raised"} /\ UNCHANGED mapVars
     \/ ~LastAttempt(round) /\ SubmitAll
  /\ UNCHANGED <<config, round>>

(* A failed chunk is seen as soon as it fails, and nobody waits. *)
PropagateAtOnce ==
  /\ caller = "raising"
  /\ caller' = "raised"
  /\ UNCHANGED <<config, round, mapVars, calls>>

-----------------------------------------------------------------------------
Unparsed(c) ==
  /\ task[c] = "running"
  /\ ~LastAttempt(attempt[c])
  /\ Call
  /\ attempt' = [attempt EXCEPT ![c] = @ + 1]
  /\ UNCHANGED <<config, caller, round, task, answered, next>>

(* The provider's error is not caught; nor is the last parse error.         *)
ChunkRaises(c) ==
  /\ task[c] = "running"
  /\ Call
  /\ task' = [task EXCEPT ![c] = "raised"]
  /\ UNCHANGED <<config, caller, round, attempt, answered, next>>

Collect ==
  /\ caller = "map"
  /\ task[next] = "parsed"
  /\ next' = next + 1
  /\ caller' = IF next = numChunks THEN "reduce" ELSE "map"
  /\ UNCHANGED <<config, round, task, attempt, answered, calls>>

(* The result waited for is an exception: the queue is cancelled.           *)
CollectRaises ==
  /\ caller = "map"
  /\ task[next] = "raised"
  /\ task' = [c \in Chunks |-> IF task[c] = "queued" THEN "cancelled" ELSE task[c]]
  /\ caller' = "raising"
  /\ UNCHANGED <<config, round, attempt, answered, next, calls>>

(* Leaving the pool waits for its threads. *)
Propagate ==
  /\ caller = "raising"
  /\ Running = {}
  /\ caller' = "raised"
  /\ UNCHANGED <<config, round, mapVars, calls>>

Reduce ==
  /\ caller = "reduce"
  /\ Call
  /\ \/ caller' \in {"done", "raised"} /\ UNCHANGED <<round, mapVars>>
     \/ ~LastAttempt(round) /\ round' = round + 1 /\ SubmitAll
  /\ UNCHANGED config

Next ==
  \/ Start \/ SinglePass
  \/ \E c \in Chunks : Take(c) \/ Parsed(c) \/ Unparsed(c) \/ ChunkRaises(c)
  \/ Collect \/ CollectRaises \/ Propagate \/ Reduce

(* Every call has a timeout and a number of retries: it returns or raises.  *)
Spec == Init /\ [][Next]_vars /\ WF_vars(Next)

-----------------------------------------------------------------------------
(* The reduce merges a partial summary of every chunk, all of its round.    *)
ReduceSeesItsRound ==
  caller = "reduce" => \A c \in Chunks : task[c] = "parsed" /\ answered[c] = round

(* When the stage has returned or raised, no thread is left that could call *)
(* the model, and none is in the queue: the job can be failed.              *)
NothingRunsAfterwards ==
  caller \in {"reduce", "done", "raised"} =>
    \A c \in Chunks : task[c] \notin {"queued", "running"}

(* What the retries can cost: the attempts of the reduce multiply those of  *)
(* the chunks, and no more than that.                                       *)
CallsBounded == calls <= MostCalls(numChunks, maxAttempts)

(* Nothing waits for ever, for every number of workers and attempts.        *)
Ends == <>(caller \in {"done", "raised"})
=============================================================================
