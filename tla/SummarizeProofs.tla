--------------------------- MODULE SummarizeProofs ---------------------------
(***************************************************************************)
(* Summarize, for every number of chunks, of threads and of attempts.      *)
(***************************************************************************)
EXTENDS Summarize, FiniteSetTheorems, TLAPS

USE SummarizeAssumption

-----------------------------------------------------------------------------
(* What the tasks of the pool are doing, by what the caller does. *)
PoolInv ==
  /\ caller = "start" => round = 0
  /\ caller \in {"start", "single"} =>
       \A c \in Chunks : task[c] = "cancelled" /\ attempt[c] = 0
  /\ caller = "map" =>
       next <= numChunks /\ \A c \in Chunks : c < next => task[c] = "parsed"
  /\ caller = "reduce" => \A c \in Chunks : task[c] = "parsed"
  /\ caller \in {"map", "reduce"} =>
       \A c \in Chunks : task[c] = "parsed" => answered[c] = round
  /\ caller = "raising" => \A c \in Chunks : task[c] # "queued"
  /\ caller \in {"done", "raised"} => \A c \in Chunks : task[c] \notin {"queued", "running"}

PhaseInv == TypeOK /\ PoolInv

LEMMA AttemptLimit ==
  ASSUME NEW a \in Nat
  PROVE  /\ Attempts(a) \in Nat \ {0}
         /\ \A n \in Nat : n + 1 < a => n + 1 \in 0 .. Attempts(a) - 1
BY DEF Attempts

LEMMA Limits ==
  ASSUME TypeOK
  PROVE  /\ maxAttempts \in Nat /\ round \in Nat /\ numChunks \in Nat /\ calls \in Nat
         /\ Attempts(maxAttempts) \in Nat \ {0}
         /\ round < Attempts(maxAttempts)
         /\ \A n \in Nat : ~LastAttempt(n) => n + 1 \in 0 .. Attempts(maxAttempts) - 1
<1>1. maxAttempts \in Nat /\ round \in Nat /\ numChunks \in Nat /\ calls \in Nat
  BY DEF TypeOK
<1>2. Attempts(maxAttempts) \in Nat \ {0}
  BY <1>1, AttemptLimit
<1>3. round < Attempts(maxAttempts)
  BY <1>2 DEF TypeOK
<1>4. \A n \in Nat : ~LastAttempt(n) => n + 1 \in 0 .. Attempts(maxAttempts) - 1
  BY <1>1, AttemptLimit DEF LastAttempt
<1> QED
  BY <1>1, <1>2, <1>3, <1>4

LEMMA ProductIsNat == \A m, n \in Nat : m * n \in Nat
OBVIOUS

LEMMA CallType == TypeOK => CallCap \in Nat /\ (Call => calls' \in 0 .. CallCap /\ calls' <= calls + 1)
<1>1. Attempts(MaxAttempts) \in Nat
  BY AttemptLimit
<1>2. MaxChunks * Attempts(MaxAttempts) + 1 \in Nat
  BY <1>1, ProductIsNat
<1>3. MostCalls(MaxChunks, MaxAttempts) \in Nat
  BY <1>1, <1>2, ProductIsNat DEF MostCalls
<1> QED
  BY <1>3 DEF CallCap, TypeOK, Call

LEMMA PhaseInit == Init => PhaseInv
<1> SUFFICES ASSUME Init PROVE PhaseInv
  OBVIOUS
<1>1. Attempts(maxAttempts) \in Nat \ {0} /\ CallCap \in Nat
  <2>1. MaxAttempts \in Nat /\ maxAttempts \in Nat
    BY DEF Init
  <2>2. Attempts(maxAttempts) \in Nat \ {0} /\ Attempts(MaxAttempts) \in Nat
    BY <2>1, AttemptLimit
  <2>3. MaxChunks * Attempts(MaxAttempts) + 1 \in Nat
    BY <2>2, ProductIsNat
  <2> QED
    BY <2>2, <2>3, ProductIsNat DEF CallCap, MostCalls
<1> QED
  BY <1>1 DEF Init, PhaseInv, TypeOK, PoolInv, Chunks

(* Running tasks are under a caller that waits for them. *)
LEMMA RunningTask ==
  ASSUME PhaseInv, NEW c \in Chunks, task[c] \in {"queued", "running"}
  PROVE  caller \in {"map", "raising"}
BY DEF PhaseInv, TypeOK, PoolInv

LEMMA SubmitKeepsPhase ==
  ASSUME PhaseInv, SubmitAll, UNCHANGED config, calls' \in 0 .. CallCap,
         \/ caller = "start" /\ round' = round
         \/ caller = "reduce" /\ ~LastAttempt(round) /\ round' = round + 1
  PROVE  PhaseInv'
<1>1. /\ round' \in 0 .. Attempts(maxAttempts) - 1 /\ round <= round'
      /\ Attempts(maxAttempts) \in Nat \ {0}
  <2>1. /\ round \in Nat /\ Attempts(maxAttempts) \in Nat \ {0} /\ round < Attempts(maxAttempts)
        /\ ~LastAttempt(round) => round + 1 \in 0 .. Attempts(maxAttempts) - 1
    BY Limits DEF PhaseInv
  <2>2. CASE round' = round
    BY <2>1, <2>2
  <2>3. CASE ~LastAttempt(round) /\ round' = round + 1
    BY <2>1, <2>3
  <2> QED
    BY <2>1, <2>2, <2>3
<1> USE DEF PhaseInv, TypeOK, config, Chunks
<1>2. answered \in [Chunks -> -1 .. round']
  BY <1>1, SMTT(20)
<1>3. CASE workers = 0
  <2>1. caller' = "raised" /\ UNCHANGED <<config, mapVars>>
    BY <1>3 DEF SubmitAll
  <2>2. \A c \in Chunks : task[c] \notin {"queued", "running"}
    BY DEF PoolInv
  <2> QED
    BY <1>1, <1>2, <2>1, <2>2 DEF PoolInv, mapVars
<1>4. CASE workers # 0
  <2>1. /\ caller' = "map" /\ next' = 1 /\ UNCHANGED <<config, answered>>
        /\ task' = [c \in Chunks |-> "queued"]
        /\ attempt' = [c \in Chunks |-> 0]
    BY <1>4 DEF SubmitAll
  <2>2. attempt' \in [Chunks -> 0 .. Attempts(maxAttempts) - 1] /\ 1 \in 1 .. numChunks + 1
    BY <1>1, <2>1
  <2>3. TypeOK'
    BY <1>1, <1>2, <2>1, <2>2
  <2>4. PoolInv'
    BY <1>1, <2>1 DEF PoolInv
  <2> QED
    BY <2>3, <2>4
<1> QED
  BY <1>3, <1>4

(* A step of one task. *)
LEMMA TaskKeepsPhase ==
  ASSUME PhaseInv, NEW c \in Chunks,
         Take(c) \/ Parsed(c) \/ Unparsed(c) \/ ChunkRaises(c)
  PROVE  PhaseInv'
<1> USE DEF PhaseInv, TypeOK, config, Chunks
<1>1. caller \in {"map", "raising"} /\ UNCHANGED <<config, caller, round, next>>
  BY RunningTask DEF Take, Parsed, Unparsed, ChunkRaises
<1>2. calls' \in 0 .. CallCap
  BY CallType DEF Take, Parsed, Unparsed, ChunkRaises
<1>3. attempt' \in [Chunks -> 0 .. Attempts(maxAttempts) - 1]
  <2>1. CASE UNCHANGED attempt
    BY <2>1
  <2>2. CASE Unparsed(c)
    <3>1. attempt[c] \in Nat
      BY Limits, SMTT(20)
    <3>2. attempt[c] + 1 \in 0 .. Attempts(maxAttempts) - 1
      BY <2>2, <3>1, Limits DEF Unparsed
    <3> QED
      BY <2>2, <3>2 DEF Unparsed
  <2> QED
    BY <2>1, <2>2 DEF Take, Parsed, ChunkRaises
<1>4. CASE Take(c)
  <2>1. task' = [task EXCEPT ![c] = "running"] /\ task[c] = "queued" /\ UNCHANGED answered
    BY <1>4 DEF Take
  <2> QED
    BY <1>1, <1>2, <1>3, <2>1 DEF PoolInv
<1>5. CASE Parsed(c)
  <2>1. /\ task' = [task EXCEPT ![c] = "parsed"] /\ task[c] = "running"
        /\ answered' = [answered EXCEPT ![c] = round]
    BY <1>5 DEF Parsed
  <2> QED
    BY <1>1, <1>2, <1>3, <2>1, SMTT(20) DEF PoolInv
<1>6. CASE Unparsed(c)
  <2>1. UNCHANGED <<task, answered>>
    BY <1>6 DEF Unparsed
  <2> QED
    BY <1>1, <1>2, <1>3, <2>1 DEF PoolInv
<1>7. CASE ChunkRaises(c)
  <2>1. task' = [task EXCEPT ![c] = "raised"] /\ task[c] = "running" /\ UNCHANGED answered
    BY <1>7 DEF ChunkRaises
  <2> QED
    BY <1>1, <1>2, <1>3, <2>1 DEF PoolInv
<1> QED
  BY <1>4, <1>5, <1>6, <1>7

LEMMA PhaseNext == PhaseInv /\ [Next]_vars => PhaseInv'
<1> SUFFICES ASSUME PhaseInv, [Next]_vars PROVE PhaseInv'
  OBVIOUS
<1> USE DEF PhaseInv, TypeOK, config, Chunks
<1>1. CASE UNCHANGED vars
  BY <1>1 DEF vars, mapVars, PoolInv
<1>2. CASE Start
  <2>1. CASE caller' = "single" /\ UNCHANGED mapVars
    BY <1>2, <2>1 DEF Start, PoolInv, mapVars
  <2>2. CASE SubmitAll
    BY <1>2, <2>2, SubmitKeepsPhase DEF Start
  <2> QED
    BY <1>2, <2>1, <2>2 DEF Start
<1>3. CASE SinglePass
  <2>1. calls' \in 0 .. CallCap /\ caller' \in {"single", "done", "raised"} /\ UNCHANGED mapVars
    BY <1>3, CallType DEF SinglePass
  <2>2. round' \in 0 .. Attempts(maxAttempts) - 1 /\ round <= round'
    BY <1>3, Limits, SMTT(20) DEF SinglePass
  <2>3. -1 .. round \subseteq -1 .. round'
    BY <2>2, Limits
  <2> QED
    BY <1>3, <2>1, <2>2, <2>3 DEF SinglePass, PoolInv, mapVars
<1>4. CASE Collect
  BY <1>4 DEF Collect, PoolInv
<1>5. CASE CollectRaises
  BY <1>5 DEF CollectRaises, PoolInv
<1>6. CASE Propagate
  BY <1>6 DEF Propagate, PoolInv, Running, mapVars
<1>7. CASE Reduce
  <2>1. calls' \in 0 .. CallCap
    BY <1>7, CallType DEF Reduce
  <2>2. CASE caller' \in {"done", "raised"} /\ UNCHANGED <<round, mapVars>>
    BY <1>7, <2>1, <2>2 DEF Reduce, PoolInv, mapVars
  <2>3. CASE ~LastAttempt(round) /\ round' = round + 1 /\ SubmitAll
    BY <1>7, <2>1, <2>3, SubmitKeepsPhase DEF Reduce
  <2> QED
    BY <1>7, <2>2, <2>3 DEF Reduce
<1> QED
  BY <1>1, <1>2, <1>3, <1>4, <1>5, <1>6, <1>7, TaskKeepsPhase DEF Next

(* Attempts stay below their limits, on every path of the retries. *)
THEOREM PhasesAreTyped == Spec => []TypeOK
<1>1. PhaseInv => TypeOK
  BY DEF PhaseInv
<1> QED
  BY <1>1, PhaseInit, PhaseNext, PTL DEF Spec

(* The reduce merges summaries of every chunk, all made in its own round:   *)
(* none is missing and none is left from a round whose reduce failed.       *)
THEOREM ReduceIsOfOneRound == Spec => []ReduceSeesItsRound
<1>1. PhaseInv => ReduceSeesItsRound
  BY DEF PhaseInv, PoolInv, ReduceSeesItsRound
<1> QED
  BY <1>1, PhaseInit, PhaseNext, PTL DEF Spec

(* A stage that has returned or raised leaves no thread behind.             *)
THEOREM NoThreadIsLeft == Spec => []NothingRunsAfterwards
<1>1. PhaseInv => NothingRunsAfterwards
  BY DEF PhaseInv, PoolInv, NothingRunsAfterwards
<1> QED
  BY <1>1, PhaseInit, PhaseNext, PTL DEF Spec

-----------------------------------------------------------------------------
(* The cost of the retries                                                  *)

(* The calls made for chunk c in this round, one pair each. *)
Used(c) == attempt[c] + IF task[c] \in {"parsed", "raised"} THEN 1 ELSE 0

Budget == Chunks \X (1 .. Attempts(maxAttempts))
Spent == {p \in Budget : p[2] <= Used(p[1])}

(* A round costs the pairs spent and, at its end, the call of the reduce.   *)
RoundCost == numChunks * Attempts(maxAttempts) + 1

CallInv ==
  calls <= round * RoundCost + Cardinality(Spent)
           + IF caller \in {"done", "raised"} THEN 1 ELSE 0

CostInv == PhaseInv /\ CallInv

LEMMA SpentIsFinite ==
  ASSUME TypeOK
  PROVE  /\ IsFiniteSet(Budget) /\ IsFiniteSet(Spent)
         /\ Cardinality(Spent) \in Nat
         /\ Cardinality(Spent) <= numChunks * Attempts(maxAttempts)
         /\ RoundCost \in Nat \ {0} /\ round * RoundCost \in Nat
<1>1. /\ numChunks \in Nat /\ Attempts(maxAttempts) \in Nat \ {0} /\ round \in Nat
  BY Limits
<1>2. /\ IsFiniteSet(Chunks) /\ Cardinality(Chunks) = numChunks
      /\ IsFiniteSet(1 .. Attempts(maxAttempts))
      /\ Cardinality(1 .. Attempts(maxAttempts)) = Attempts(maxAttempts)
  BY <1>1, FS_Interval, SMTT(20) DEF Chunks
<1>3. IsFiniteSet(Budget) /\ Cardinality(Budget) = numChunks * Attempts(maxAttempts)
  BY <1>2, FS_Product DEF Budget
<1>4. IsFiniteSet(Spent) /\ Cardinality(Spent) <= Cardinality(Budget)
  BY <1>3, FS_Subset DEF Spent
<1>5. RoundCost \in Nat \ {0}
  BY <1>1, ProductIsNat DEF RoundCost
<1> QED
  BY <1>1, <1>3, <1>4, <1>5, FS_CardinalityType, ProductIsNat

(* One more round. *)
LEMMA NextRound == \A r, cost \in Nat : (r + 1) * cost = r * cost + cost
OBVIOUS

LEMMA ProductGrows == \A m, n, cost \in Nat : m <= n => m * cost <= n * cost
OBVIOUS

LEMMA CostInit == Init => CostInv
<1> SUFFICES ASSUME Init PROVE CallInv
  BY PhaseInit DEF CostInv
<1>1. PhaseInv
  BY PhaseInit
<1> QED
  BY <1>1, SpentIsFinite DEF PhaseInv, Init, CallInv

(* A call made for a chunk spends one of its attempts. *)
LEMMA TaskCost ==
  ASSUME CostInv, NEW c \in Chunks, Parsed(c) \/ Unparsed(c) \/ ChunkRaises(c)
  PROVE  CallInv'
<1>1. TypeOK /\ TypeOK' /\ caller \in {"map", "raising"} /\ UNCHANGED <<config, caller, round>>
  BY RunningTask, TaskKeepsPhase DEF CostInv, PhaseInv, Parsed, Unparsed, ChunkRaises
<1>2. UNCHANGED <<Chunks, RoundCost, Budget>>
  BY <1>1 DEF config, Chunks, RoundCost, Budget
<1>3. attempt \in [Chunks -> Nat] /\ attempt' \in [Chunks -> Nat]
      /\ task \in [Chunks -> {"queued", "running", "parsed", "raised", "cancelled"}]
  BY <1>1, <1>2 DEF TypeOK
<1>4. /\ Used(c) \in Nat /\ Used(c)' = Used(c) + 1
      /\ \A d \in Chunks : d # c => Used(d)' = Used(d)
  BY <1>3 DEF Parsed, Unparsed, ChunkRaises, Used
<1>5. Used(c) + 1 \in 1 .. Attempts(maxAttempts)
  <2>1. attempt[c] \in 0 .. Attempts(maxAttempts) - 1 /\ task[c] = "running"
    BY DEF CostInv, PhaseInv, TypeOK, Parsed, Unparsed, ChunkRaises
  <2> QED
    BY <1>1, <2>1, Limits DEF Used
<1> DEFINE call == <<c, Used(c) + 1>>
<1>6. call \in Budget /\ call \notin Spent
  BY <1>4, <1>5 DEF Budget, Spent
<1>7. Spent' = Spent \union {call}
  <2>1. \A p \in Budget : p[1] \in Chunks /\ p[2] \in Nat /\ p = <<p[1], p[2]>>
    BY <1>1, Limits DEF Budget
  <2>2. \A p \in Budget : p[2] <= Used(p[1])' <=> p[2] <= Used(p[1]) \/ p = call
    BY <1>4, <2>1
  <2>3. Spent' = {p \in Budget : p[2] <= Used(p[1])'}
    BY <1>2 DEF Spent
  <2> QED
    BY <1>6, <2>2, <2>3 DEF Spent
<1>8. Cardinality(Spent') = Cardinality(Spent) + 1 /\ Cardinality(Spent) \in Nat
  BY <1>1, <1>6, <1>7, SpentIsFinite, FS_AddElement
<1>9. calls' <= calls + 1 /\ calls' \in Nat /\ calls \in Nat
  BY <1>1, Limits, CallType DEF Parsed, Unparsed, ChunkRaises, TypeOK
<1>10. round * RoundCost \in Nat
  BY <1>1, SpentIsFinite
<1> QED
  BY <1>1, <1>2, <1>8, <1>9, <1>10 DEF CostInv, CallInv

(* A step that makes no call, in the same round. *)
LEMMA NoCost ==
  ASSUME CostInv, TypeOK', UNCHANGED <<config, round, calls>>,
         caller \in {"done", "raised"} => caller' \in {"done", "raised"},
         \A c \in Chunks : Used(c)' = Used(c)
  PROVE  CallInv'
<1>1. UNCHANGED <<Chunks, RoundCost, Budget>>
  BY DEF config, Chunks, RoundCost, Budget
<1>2. Spent' = Spent
  BY <1>1 DEF Spent, Budget
<1>3. TypeOK /\ calls \in Nat /\ Cardinality(Spent) \in Nat /\ round * RoundCost \in Nat
  BY Limits, SpentIsFinite DEF CostInv, PhaseInv
<1> QED
  BY <1>1, <1>2, <1>3 DEF CostInv, CallInv

(* The call of a reduce, or of a single pass, that is not the last of its   *)
(* stage pays for the round.                                                *)
LEMMA RoundIsPaid ==
  ASSUME CostInv, TypeOK', UNCHANGED config, calls' <= calls + 1, round' = round + 1,
         caller \notin {"done", "raised"}
  PROVE  CallInv'
<1>1. /\ TypeOK /\ calls \in Nat /\ calls' \in Nat /\ round \in Nat /\ RoundCost \in Nat
      /\ Cardinality(Spent) \in Nat /\ Cardinality(Spent') \in Nat
      /\ round * RoundCost \in Nat
      /\ Cardinality(Spent) + 1 <= RoundCost
  <2>1. TypeOK
    BY DEF CostInv, PhaseInv
  <2>2. Cardinality(Spent') \in Nat
    <3>1. Spent' \in SUBSET Budget
      BY DEF Spent, Budget, config, Chunks
    <3> QED
      BY <2>1, <3>1, SpentIsFinite, FS_Subset, FS_CardinalityType
  <2>3. numChunks * Attempts(maxAttempts) \in Nat
    BY <2>1, Limits, ProductIsNat
  <2> QED
    BY <2>1, <2>2, <2>3, Limits, SpentIsFinite DEF TypeOK, RoundCost
<1>2. RoundCost' = RoundCost
  BY DEF config, RoundCost
<1>3. round' * RoundCost = round * RoundCost + RoundCost
  BY <1>1, NextRound
<1>4. calls <= round * RoundCost + Cardinality(Spent)
  BY <1>1 DEF CostInv, CallInv
<1>5. calls' <= round' * RoundCost' + Cardinality(Spent')
  BY <1>1, <1>2, <1>3, <1>4
<1>6. round' * RoundCost' \in Nat
  BY <1>1, <1>2, <1>3
<1> QED
  BY <1>1, <1>5, <1>6 DEF CallInv

LEMMA CostNext == CostInv /\ [Next]_vars => CostInv'
<1> SUFFICES ASSUME CostInv, [Next]_vars PROVE CallInv'
  BY PhaseNext DEF CostInv
<1>1. /\ PhaseInv /\ TypeOK /\ PhaseInv' /\ TypeOK'
      /\ calls \in Nat /\ calls' \in Nat /\ (Call => calls' <= calls + 1)
  BY PhaseNext, CallType, Limits DEF CostInv, PhaseInv, TypeOK
<1>2. ASSUME NEW c \in Chunks PROVE Used(c) \in Nat
  <2>1. attempt[c] \in Nat
    BY <1>1, Limits DEF TypeOK
  <2> QED
    BY <2>1 DEF Used
<1>3. ASSUME UNCHANGED <<config, round, calls, task, attempt>>,
             caller \in {"done", "raised"} => caller' \in {"done", "raised"}
      PROVE  CallInv'
  BY <1>1, <1>3, NoCost DEF Used
<1>4. CASE UNCHANGED vars
  BY <1>3, <1>4 DEF vars, mapVars
<1>5. CASE Start
  <2>1. CASE UNCHANGED mapVars
    BY <1>3, <1>5, <2>1 DEF Start, SubmitAll, mapVars
  <2>2. CASE ~UNCHANGED mapVars
    <3>1. SubmitAll /\ workers # 0 /\ caller = "start" /\ UNCHANGED <<config, round, calls>>
      BY <1>5, <2>2 DEF Start, SubmitAll
    <3>2. \A c \in Chunks : Used(c)' = Used(c)
      BY <1>1, <3>1 DEF SubmitAll, Used, PhaseInv, PoolInv, config, Chunks
    <3> QED
      BY <1>1, <3>1, <3>2, NoCost
  <2> QED
    BY <2>1, <2>2
<1>6. ASSUME UNCHANGED <<config, round, task, attempt>>, Call,
             caller \notin {"done", "raised"}, caller' \in {"done", "raised"}
      PROVE  CallInv'
  <2>1. UNCHANGED <<Chunks, RoundCost, Spent>>
    BY <1>6 DEF config, Chunks, RoundCost, Spent, Budget, Used
  <2>2. Cardinality(Spent) \in Nat /\ round * RoundCost \in Nat
    BY <1>1, SpentIsFinite
  <2> QED
    BY <1>1, <1>6, <2>1, <2>2 DEF CostInv, CallInv
<1>7. CASE SinglePass
  <2>1. CASE caller' \in {"done", "raised"} /\ UNCHANGED round
    BY <1>6, <1>7, <2>1 DEF SinglePass, mapVars
  <2>2. CASE round' = round + 1 /\ caller' = caller
    BY <1>1, <1>7, <2>2, RoundIsPaid DEF SinglePass
  <2> QED
    BY <1>7, <2>1, <2>2 DEF SinglePass
<1>8. ASSUME NEW c \in Chunks, Take(c) PROVE CallInv'
  <2>1. \A d \in Chunks : Used(d)' = Used(d)
    BY <1>1, <1>8 DEF Take, Used, TypeOK
  <2> QED
    BY <1>1, <1>8, <2>1, NoCost DEF Take
<1>9. CASE Collect
  BY <1>3, <1>9 DEF Collect
<1>10. CASE CollectRaises
  <2>1. \A d \in Chunks : Used(d)' = Used(d)
    BY <1>1, <1>10 DEF CollectRaises, Used, TypeOK, config, Chunks
  <2> QED
    BY <1>1, <1>10, <2>1, NoCost DEF CollectRaises
<1>11. CASE Propagate
  BY <1>3, <1>11 DEF Propagate, mapVars
<1>12. CASE Reduce
  <2>1. CASE caller' \in {"done", "raised"} /\ UNCHANGED <<round, mapVars>>
    BY <1>6, <1>12, <2>1 DEF Reduce, mapVars
  <2>2. CASE round' = round + 1
    BY <1>1, <1>12, <2>2, RoundIsPaid DEF Reduce
  <2> QED
    BY <1>12, <2>1, <2>2 DEF Reduce
<1> QED
  BY <1>4, <1>5, <1>7, <1>8, <1>9, <1>10, <1>11, <1>12, TaskCost DEF Next

(* The attempts of the reduce multiply those of the chunks, and no retry    *)
(* costs more than that: a transcript of n chunks with a attempts takes at  *)
(* most a * (n * a + 1) calls of the model.                                 *)
THEOREM RetriesAreBounded == Spec => []CallsBounded
<1>1. CostInv => CallsBounded
  <2> SUFFICES ASSUME CostInv PROVE CallsBounded
    OBVIOUS
  <2> DEFINE a == Attempts(maxAttempts)
  <2>1. /\ TypeOK /\ a \in Nat \ {0} /\ round \in Nat /\ round + 1 <= a
        /\ RoundCost \in Nat /\ Cardinality(Spent) \in Nat
        /\ round * RoundCost \in Nat /\ calls \in Nat /\ numChunks \in Nat
        /\ Cardinality(Spent) + 1 <= RoundCost
    <3>1. TypeOK
      BY DEF CostInv, PhaseInv
    <3>2. numChunks * a \in Nat
      BY <3>1, Limits, ProductIsNat
    <3> QED
      BY <3>1, <3>2, Limits, SpentIsFinite DEF RoundCost
  <2>2. calls <= round * RoundCost + RoundCost
    BY <2>1 DEF CostInv, CallInv
  <2>3. round * RoundCost + RoundCost = (round + 1) * RoundCost
    BY <2>1, NextRound
  <2>4. (round + 1) * RoundCost <= a * RoundCost
    BY <2>1, ProductGrows
  <2>5. a * RoundCost \in Nat
    BY <2>1, ProductIsNat
  <2>6. MostCalls(numChunks, maxAttempts) = a * RoundCost
    BY DEF MostCalls, RoundCost
  <2> QED
    BY <2>1, <2>2, <2>3, <2>4, <2>5, <2>6 DEF CallsBounded
<1> QED
  BY <1>1, CostInit, CostNext, PTL DEF Spec
=============================================================================
