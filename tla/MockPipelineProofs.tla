------------------------- MODULE MockPipelineProofs -------------------------
(***************************************************************************)
(* What a failed reset means for MockPipeline, for every set of faults.    *)
(* The invariant gives the state of the engine at every stage of a run; a  *)
(* run only gets past prepare while no reset has failed.                   *)
(***************************************************************************)
EXTENDS MockPipeline, TLAPS

InRun == {"process", "processing", "recover", "metrics", "measuring", "reset"}

\* The engine's state at each stage of the pipeline.
StageInv ==
  /\ pc \in Stages
  /\ pc \in {"idle", "prepare"} => state = IF wedged THEN "Prepared" ELSE "ModelLoaded"
  /\ pc \in InRun => state = "Prepared" /\ ~wedged
  /\ pc \in {"create", "load_model", "discard"} => ~wedged
  /\ pc = "recover" => status # "Success"

WedgeInv == WedgedForGood /\ OnlyExhaustionWedges /\ generation \in 0 .. MaxGeneration

IInv == StageInv /\ WedgeInv /\ ReadyBetweenRuns

LEMMA FailureIsNoSuccess == \A code : code # "Success" => Failure(code).code # "Success"
BY DEF Failure

-----------------------------------------------------------------------------
\* What the calls of a run do to the engine's state and epoch.

LEMMA PluginFailsEffect ==
  ASSUME NEW op, PluginFails(op)
  PROVE  ~Succeeded /\ UNCHANGED <<state, generation>> /\ reply'.code = "EngineFailure"
BY DEF PluginFails, Succeeded, Returned, handleVars

LEMMA ResetEffect ==
  ASSUME Reset(TRUE), state = "Prepared", generation \in 0 .. MaxGeneration
  PROVE  \/ Succeeded /\ state' = "ModelLoaded" /\ generation' \in 0 .. MaxGeneration
         \/ /\ ~Succeeded /\ UNCHANGED <<state, generation>>
            /\ generation = MaxGeneration /\ reply'.code = "InvalidState"
<1>1. CASE CanAdvance
  <2>1. Verdict(TRUE, state = "Prepared" /\ CanAdvance) = "Success"
    BY <1>1 DEF Verdict
  <2>2. /\ state' = "ModelLoaded" /\ generation' = NextGeneration
        /\ reply' = [Returned("Success") EXCEPT !.generation = NextGeneration]
    BY <2>1 DEF Reset, AdvanceEpoch
  <2>3. NextGeneration \in 0 .. MaxGeneration
    BY <1>1, EngineAssumption DEF NextGeneration, CanAdvance
  <2> QED BY <2>2, <2>3 DEF Succeeded, Returned
<1>2. CASE ~CanAdvance
  <2>1. Verdict(TRUE, state = "Prepared" /\ CanAdvance) = "InvalidState"
    BY <1>2 DEF Verdict
  <2>2. UNCHANGED <<state, generation>> /\ reply' = Returned("InvalidState")
    BY <2>1 DEF Reset, AdvanceEpoch
  <2>3. generation = MaxGeneration
    BY <1>2, EngineAssumption DEF CanAdvance
  <2> QED BY <2>2, <2>3 DEF Succeeded, Returned
<1> QED BY <1>1, <1>2

LEMMA PrepareEffect ==
  ASSUME PrepareStream(TRUE, MaxFrames), generation \in 0 .. MaxGeneration
  PROVE  \/ /\ Succeeded /\ state = "ModelLoaded" /\ state' = "Prepared"
            /\ generation' \in 0 .. MaxGeneration
         \/ ~Succeeded /\ UNCHANGED <<state, generation>>
<1> DEFINE code == Verdict(TRUE, state = "ModelLoaded" /\ CanAdvance)
<1>1. CASE code = "Success"
  <2>1. state = "ModelLoaded" /\ CanAdvance
    BY <1>1 DEF Verdict
  <2>2. /\ state' = "Prepared" /\ generation' = NextGeneration
        /\ reply' = [Returned("Success") EXCEPT !.generation = NextGeneration]
    BY <1>1 DEF PrepareStream, AdvanceEpoch
  <2>3. NextGeneration \in 0 .. MaxGeneration
    BY <2>1, EngineAssumption DEF NextGeneration, CanAdvance
  <2> QED BY <2>1, <2>2, <2>3 DEF Succeeded, Returned
<1>2. CASE code # "Success"
  <2>1. UNCHANGED <<state, generation>> /\ reply' = Returned(code)
    BY <1>2 DEF PrepareStream, AdvanceEpoch
  <2> QED BY <1>2, <2>1 DEF Succeeded, Returned
<1> QED BY <1>1, <1>2

-----------------------------------------------------------------------------

LEMMA InitInv == Init => IInv
BY EngineAssumption
   DEF Init, EngineInit, IInv, StageInv, WedgeInv, WedgedForGood, Available, OnlyExhaustionWedges,
       ReadyBetweenRuns, Stages, InRun

\* A step that stays out of prepare and reset leaves the engine's epoch alone.
LEMMA OrdinaryStep ==
  ASSUME IInv, UNCHANGED <<state, generation, wedged>>, faulted => faulted',
         pc \in Stages, pc' \in Stages,
         result' = result \/ result'.code # "Success",
         pc' = "recover" => status' # "Success",
         \/ pc \in {"idle", "prepare"} /\ pc' \in {"idle", "prepare", "gone"}
         \/ pc \in InRun /\ pc' \in InRun
  PROVE  IInv'
BY DEF IInv, StageInv, WedgeInv, WedgedForGood, Available, OnlyExhaustionWedges, ReadyBetweenRuns,
       InRun, Live

\* The last step of a run, a reset: it succeeds, or wedges the pipeline.
LEMMA LastStep ==
  ASSUME IInv, pc \in {"recover", "reset"}, Calls("reset", Reset(TRUE)), pc' = "idle",
         wedged' = (wedged \/ ~Succeeded), ~Succeeded => result'.code # "Success"
  PROVE  IInv'
<1>1. state = "Prepared" /\ ~wedged /\ generation \in 0 .. MaxGeneration
  BY DEF IInv, StageInv, WedgeInv, InRun
<1>2. CASE Reset(TRUE) /\ UNCHANGED faulted
  BY <1>1, <1>2, ResetEffect
     DEF IInv, StageInv, WedgeInv, WedgedForGood, Available, OnlyExhaustionWedges, ReadyBetweenRuns,
         Live, Stages, InRun
<1>3. CASE PluginFails("reset") /\ faulted' = TRUE
  <2>1. ~Succeeded /\ UNCHANGED <<state, generation>>
    BY <1>3, PluginFailsEffect
  <2> QED BY <1>1, <1>3, <2>1
          DEF IInv, StageInv, WedgeInv, WedgedForGood, Available, OnlyExhaustionWedges,
              ReadyBetweenRuns, Live, Stages, InRun
<1> QED BY <1>2, <1>3 DEF Calls

\* Creation: nothing has been reset yet.
LEMMA CreateInv == IInv /\ (Create \/ CreateModel \/ Destroy) => IInv'
<1> SUFFICES ASSUME IInv, Create \/ CreateModel \/ Destroy PROVE IInv'
  OBVIOUS
<1>1. UNCHANGED <<wedged, result>> /\ (faulted => faulted')
  <2>1. UNCHANGED <<wedged, result>>
    BY DEF Create, CreateModel, Destroy
  <2>2. faulted' = faulted \/ faulted' = TRUE
    BY DEF Create, CreateModel, Destroy, Calls
  <2>3. faulted => faulted'
    BY <2>2, Zenon
  <2> QED BY <2>1, <2>3
<1>2. generation \in 0 .. MaxGeneration /\ WedgedForGood /\ OnlyExhaustionWedges
  BY DEF IInv, WedgeInv
<1>3. CASE Create
  <2>1. pc = "create" /\ ~wedged /\ pc' \in {"load_model", "gone"}
    BY <1>3 DEF Create, IInv, StageInv
  <2>2. generation' \in 0 .. MaxGeneration
    BY <1>2, <1>3, EngineAssumption, PluginFailsEffect
       DEF Create, Calls, Initialize, handleVars, engineVars
  <2> QED BY <1>1, <2>1, <2>2
          DEF IInv, StageInv, WedgeInv, WedgedForGood, Available, OnlyExhaustionWedges,
              ReadyBetweenRuns, Stages, InRun
<1>4. CASE CreateModel
  <2>1. /\ pc = "load_model" /\ ~wedged
        /\ pc' = "discard" \/ (Succeeded /\ pc' = "idle")
    BY <1>4 DEF CreateModel, IInv, StageInv
  <2>2. UNCHANGED generation /\ (Succeeded => state' = "ModelLoaded")
    <3>1. CASE LoadModel(TRUE)
      BY <3>1 DEF LoadModel, Succeeded, Returned
    <3>2. CASE PluginFails("load_model")
      BY <3>2, PluginFailsEffect
    <3> QED BY <1>4, <3>1, <3>2 DEF CreateModel, Calls
  <2> QED BY <1>1, <1>2, <2>1, <2>2
          DEF IInv, StageInv, WedgeInv, WedgedForGood, Available, OnlyExhaustionWedges,
              ReadyBetweenRuns, Stages, InRun, Live
<1>5. CASE Destroy
  <2>1. pc' = "gone" /\ UNCHANGED generation
    BY <1>5, PluginFailsEffect DEF Destroy, Calls, Shutdown
  <2> QED BY <1>1, <1>2, <2>1
          DEF IInv, StageInv, WedgeInv, WedgedForGood, Available, OnlyExhaustionWedges,
              ReadyBetweenRuns, Stages, InRun
<1> QED BY <1>3, <1>4, <1>5

LEMMA PrepareInv == IInv /\ RunPrepare => IInv'
<1> SUFFICES ASSUME IInv, RunPrepare PROVE IInv'
  OBVIOUS
<1>1. /\ pc = "prepare" /\ UNCHANGED <<status, wedged>>
      /\ generation \in 0 .. MaxGeneration /\ (faulted => faulted')
      /\ state = IF wedged THEN "Prepared" ELSE "ModelLoaded"
  <2>1. faulted' = faulted \/ faulted' = TRUE
    BY DEF RunPrepare, Calls
  <2>2. faulted => faulted'
    BY <2>1, Zenon
  <2>3. state = IF wedged THEN "Prepared" ELSE "ModelLoaded"
    BY DEF RunPrepare, IInv, ReadyBetweenRuns
  <2>4. pc = "prepare" /\ UNCHANGED <<status, wedged>> /\ generation \in 0 .. MaxGeneration
    BY DEF RunPrepare, IInv, WedgeInv
  <2> QED BY <2>2, <2>3, <2>4
<1>2. CASE Succeeded
  <2>1. pc' = "process" /\ UNCHANGED result
    BY <1>2 DEF RunPrepare
  <2>2. state = "ModelLoaded" /\ state' = "Prepared" /\ generation' \in 0 .. MaxGeneration
    BY <1>1, <1>2, PrepareEffect, PluginFailsEffect DEF RunPrepare, Calls
  <2> QED BY <1>1, <2>1, <2>2
          DEF IInv, StageInv, WedgeInv, WedgedForGood, Available, OnlyExhaustionWedges,
              ReadyBetweenRuns, Stages, InRun
<1>3. CASE ~Succeeded
  <2>1. pc' = "idle" /\ result' = Failure(reply'.code) /\ reply'.code # "Success"
    BY <1>3 DEF RunPrepare, Answers, Succeeded
  <2>2. UNCHANGED <<state, generation>>
    BY <1>1, <1>3, PrepareEffect, PluginFailsEffect DEF RunPrepare, Calls
  <2> QED BY <1>1, <2>1, <2>2, FailureIsNoSuccess, OrdinaryStep DEF Stages
<1> QED BY <1>2, <1>3

\* The middle of a run.
LEMMA MiddleInv == IInv /\ (RunProcess \/ RunProcessing \/ RunMetrics \/ RunMeasuring) => IInv'
<1> SUFFICES ASSUME IInv, RunProcess \/ RunProcessing \/ RunMetrics \/ RunMeasuring
             PROVE  IInv'
  OBVIOUS
<1>1. pc \in InRun /\ pc' \in InRun /\ UNCHANGED <<result, wedged>> /\ (faulted => faulted')
  BY DEF RunProcess, RunProcessing, RunMetrics, RunMeasuring, InRun
<1>2. UNCHANGED <<state, generation>>
  BY PluginFailsEffect
     DEF RunProcess, ProcessFails, RunProcessing, RunMetrics, RunMeasuring, ProcessBegins, ProcessCounts,
         ProcessReturns, MetricsBegin, MetricsLoad, MetricsReturn, handleVars
<1>3. pc' = "recover" => status' # "Success"
  <2>1. CASE RunProcess
    BY <2>1 DEF RunProcess, ProcessFails, Returned
  <2>2. CASE RunProcessing
    BY <2>2 DEF RunProcessing, Succeeded
  <2>3. CASE RunMetrics \/ RunMeasuring
    BY <2>3 DEF RunMetrics, RunMeasuring
  <2> QED BY <2>1, <2>2, <2>3
<1> QED BY <1>1, <1>2, <1>3, OrdinaryStep DEF InRun, Stages

LEMMA Inductive == IInv /\ [Next]_vars => IInv'
<1> SUFFICES ASSUME IInv, [Next]_vars PROVE IInv'
  OBVIOUS
<1>1. CASE UNCHANGED vars
  BY <1>1 DEF vars, engineVars, handleVars, pipelineVars, IInv, StageInv, WedgeInv,
              WedgedForGood, Available, OnlyExhaustionWedges, ReadyBetweenRuns, Live
<1>2. CASE \E empty \in BOOLEAN : Run(empty)
  <2>1. PICK empty \in BOOLEAN : Run(empty)
    BY <1>2
  <2>2. /\ pc = "idle" /\ pc' \in {"idle", "prepare"}
        /\ result' = result \/ result'.code # "Success"
        /\ UNCHANGED <<state, generation, wedged, faulted, status>>
    BY <2>1, FailureIsNoSuccess DEF Run, Answers, engineVars, handleVars
  <2> QED BY <2>2, OrdinaryStep DEF Stages
<1>3. CASE RunRecover
  <2>1. status # "Success"
    BY <1>3 DEF RunRecover, IInv, StageInv
  <2> QED BY <1>3, <2>1, LastStep, FailureIsNoSuccess DEF RunRecover, Answers
<1>4. CASE RunReset
  <2>1. ~Succeeded => result'.code # "Success"
    BY <1>4 DEF RunReset, Answers, Succeeded, Failure
  <2> QED BY <1>4, <2>1, LastStep DEF RunReset, Answers
<1> QED BY <1>1, <1>2, <1>3, <1>4, CreateInv, PrepareInv, MiddleInv DEF Next

LEMMA Invariance == Spec => []IInv
BY InitInv, Inductive, PTL DEF Spec

-----------------------------------------------------------------------------

\* MockPipeline::run resets the engine on every way out of it that got past prepare.
THEOREM ReadyBetweenRunsHolds == Spec => []ReadyBetweenRuns
<1>1. IInv => ReadyBetweenRuns
  BY DEF IInv
<1> QED BY <1>1, Invariance, PTL

\* MockPipeline::run does not recover from a reset that failed.
THEOREM WedgedForGoodHolds == Spec => []WedgedForGood
<1>1. IInv => WedgedForGood
  BY DEF IInv, WedgeInv
<1> QED BY <1>1, Invariance, PTL

\* With the Mock engine a reset only fails at the greatest generation.
THEOREM OnlyExhaustionWedgesHolds == Spec => []OnlyExhaustionWedges
<1>1. IInv => OnlyExhaustionWedges
  BY DEF IInv, WedgeInv
<1> QED BY <1>1, Invariance, PTL

-----------------------------------------------------------------------------
(* The summary.  What the engine has counted, and is about to count, is one     *)
(* buffer for every call; the steps of a run keep to the stream they prepared.  *)

Due(c) == counters[c] + pending[c]

CountInv ==
  /\ counters \in [Counters -> Nat] /\ pending \in [Counters -> Nat]
  /\ Due("input") = MaxFrames * Due("calls") /\ Due("output") = MaxFrames * Due("calls")
  /\ ~faulted => Due("errors") = 0
  /\ pc # "processing" => pending = Zero

RunInv ==
  /\ pc \in InRun => stream = generation /\ generation # 0 /\ limit = MaxFrames
  /\ pc \in {"processing", "metrics", "measuring", "reset"} => Due("calls") > 0
  /\ pc \in {"metrics", "measuring"} => status = "Success"
  /\ pc = "measuring" => /\ DOMAIN seen \subseteq Counters
                         /\ seen = [c \in DOMAIN seen |-> counters[c]]
  /\ pc = "reset" /\ status = "Success" => snapshot.metrics = counters
  /\ pc \in {"create", "load_model"} => result.code # "Success"

SInv == CountInv /\ RunInv /\ SummaryIsCurrent

LEMMA SummaryInit == Init => SInv
BY EngineAssumption, PipelineAssumption
   DEF Init, EngineInit, Failure, SInv, CountInv, RunInv, SummaryIsCurrent, Due, Zero, Counters, InRun


\* A step between two calls of process leaves the counters as they are.
LEMMA KeepsCounts ==
  ASSUME SInv, UNCHANGED <<counters, pending>>, faulted => faulted',
         pc # "processing", pc' # "processing"
  PROVE  CountInv' /\ Due("calls")' = Due("calls")
BY DEF SInv, CountInv, Due

\* A run that is over: the summary is kept, or there is none.
LEMMA NoSummary ==
  ASSUME SInv, CountInv', pc' \notin InRun,
         pc' \in {"idle", "create", "load_model"} => result'.code # "Success"
  PROVE  SInv'
BY DEF SInv, RunInv, InRun, SummaryIsCurrent

\* The calls that begin and end a stream, with all that they return.
LEMMA StreamBegins ==
  ASSUME PrepareStream(TRUE, MaxFrames), Succeeded, generation \in Nat
  PROVE  /\ reply'.generation = generation' /\ generation' # 0
         /\ limit' = MaxFrames /\ UNCHANGED countVars
<1> DEFINE code == Verdict(TRUE, state = "ModelLoaded" /\ CanAdvance)
<1>1. code = "Success"
  <2> SUFFICES ASSUME code # "Success" PROVE ~Succeeded
    OBVIOUS
  <2>1. reply' = Returned(code)
    BY DEF PrepareStream, AdvanceEpoch
  <2> QED BY <2>1 DEF Succeeded, Returned
<1>2. CanAdvance
  BY <1>1 DEF Verdict
<1>3. /\ generation' = NextGeneration /\ reply'.code = "Success"
      /\ reply'.generation = NextGeneration
  BY <1>1 DEF PrepareStream, AdvanceEpoch, Returned
<1>4. NextGeneration # 0
  BY <1>2, EngineAssumption DEF NextGeneration, CanAdvance
<1> QED BY <1>3, <1>4 DEF PrepareStream

LEMMA StreamEnds ==
  ASSUME Reset(TRUE), Succeeded
  PROVE  generation' = generation + 1
<1> DEFINE code == Verdict(TRUE, state = "Prepared" /\ CanAdvance)
<1>1. code = "Success"
  <2> SUFFICES ASSUME code # "Success" PROVE ~Succeeded
    OBVIOUS
  <2>1. reply' = Returned(code)
    BY DEF Reset, AdvanceEpoch
  <2> QED BY <2>1 DEF Succeeded, Returned
<1>2. CanAdvance
  BY <1>1 DEF Verdict
<1>3. generation' = NextGeneration
  BY <1>1 DEF Reset, AdvanceEpoch
<1> QED BY <1>2, <1>3, EngineAssumption DEF NextGeneration, CanAdvance

\* Creation and the destructor touch no summary and no counter but a new handle's.
LEMMA SummaryCreate == SInv /\ (Create \/ CreateModel \/ Destroy) => SInv'
<1> SUFFICES ASSUME SInv, Create \/ CreateModel \/ Destroy PROVE SInv'
  OBVIOUS
<1>1. faulted => faulted'
  <2>1. faulted' = faulted \/ faulted' = TRUE
    BY DEF Create, CreateModel, Destroy, Calls
  <2> QED BY <2>1, Zenon
<1>2. CASE UNCHANGED <<counters, pending>>
  <2>1. pc # "processing" /\ pc' # "processing" /\ pc' \notin InRun
    BY DEF Create, CreateModel, Destroy, InRun
  <2>2. CountInv'
    BY <1>1, <1>2, <2>1, KeepsCounts
  <2>3. pc' \in {"idle", "create", "load_model"} => result'.code # "Success"
    BY DEF Create, CreateModel, Destroy, SInv, RunInv
  <2> QED BY <2>1, <2>2, <2>3, NoSummary
<1>3. CASE counters' = Zero /\ UNCHANGED pending /\ pc = "create" /\ pc' \in {"load_model", "gone"}
  <2>1. CountInv'
    BY <1>1, <1>3, EngineAssumption DEF SInv, CountInv, Due, Zero, Counters
  <2>2. pc' = "load_model" => result'.code # "Success"
    BY <1>3 DEF Create, CreateModel, Destroy, SInv, RunInv
  <2> QED BY <1>3, <2>1, <2>2, NoSummary DEF InRun
<1>4. Create => (counters' = Zero \/ UNCHANGED counters) /\ UNCHANGED pending
  BY DEF Create, Calls, Initialize, PluginFails, engineVars, countVars
<1>5. CreateModel \/ Destroy => UNCHANGED <<counters, pending>>
  BY DEF CreateModel, Destroy, Calls, LoadModel, Shutdown, PluginFails, countVars
<1> QED BY <1>2, <1>3, <1>4, <1>5 DEF Create

\* A run that begins finds the stream it prepares, and no other is in its way.
LEMMA SummaryBegins == SInv /\ IInv /\ ((\E empty \in BOOLEAN : Run(empty)) \/ RunPrepare) => SInv'
<1> SUFFICES ASSUME SInv, IInv, (\E empty \in BOOLEAN : Run(empty)) \/ RunPrepare
             PROVE  SInv'
  OBVIOUS
<1>1. CASE \E empty \in BOOLEAN : Run(empty)
  <2>1. PICK empty \in BOOLEAN : Run(empty)
    BY <1>1
  <2>2. /\ pc = "idle" /\ pc' \in {"idle", "prepare"} /\ UNCHANGED <<counters, pending, faulted>>
        /\ pc' = "idle" => result'.code # "Success"
    BY <2>1 DEF Run, Answers, Failure, engineVars, countVars
  <2>3. CountInv'
    BY <2>2, KeepsCounts
  <2> QED BY <2>2, <2>3, NoSummary DEF InRun
<1>2. CASE RunPrepare
  <2>1. PrepareStream(TRUE, MaxFrames) \/ (PluginFails("prepare_stream") /\ ~Succeeded)
    BY <1>2, PluginFailsEffect DEF RunPrepare, Calls
  <2>2. UNCHANGED <<counters, pending>> /\ pc = "prepare" /\ pc' \in {"process", "idle"}
    BY <1>2, <2>1 DEF RunPrepare, PrepareStream, PluginFails, countVars, Answers
  <2>3. faulted => faulted'
    <3>1. faulted' = faulted \/ faulted' = TRUE
      BY <1>2 DEF RunPrepare, Calls
    <3> QED BY <3>1, Zenon
  <2>4. CountInv'
    BY <2>2, <2>3, KeepsCounts
  <2>5. CASE Succeeded
    <3>1. pc' = "process" /\ stream' = generation' /\ generation' # 0 /\ limit' = MaxFrames
      BY <1>2, <2>1, <2>5, StreamBegins DEF RunPrepare, IInv, WedgeInv
    <3> QED BY <2>4, <3>1 DEF SInv, RunInv, SummaryIsCurrent
  <2>6. CASE ~Succeeded
    <3>1. pc' = "idle" /\ result'.code # "Success"
      BY <1>2, <2>6 DEF RunPrepare, Answers, Failure, Succeeded
    <3> QED BY <2>4, <3>1, NoSummary DEF InRun
  <2> QED BY <2>5, <2>6
<1> QED BY <1>1, <1>2

\* The process call of a run is one the engine accepts: it takes one more buffer.
LEMMA SummaryProcess == SInv /\ IInv /\ RunProcess => SInv'
<1> SUFFICES ASSUME SInv, IInv, RunProcess PROVE SInv'
  OBVIOUS
<1>1. /\ pc = "process" /\ pending = Zero /\ state = "Prepared" /\ counters \in [Counters -> Nat]
      /\ stream = generation /\ generation # 0 /\ limit = MaxFrames /\ UNCHANGED <<stream, result>>
      /\ generation \in 0 .. MaxGeneration
  BY DEF RunProcess, SInv, CountInv, RunInv, IInv, StageInv, WedgeInv, InRun
<1>2. CASE ProcessBegins(Request) /\ pc' = "processing" /\ UNCHANGED faulted
  <2>1. ProcessCode(Request) = "Success" /\ Request.frames = MaxFrames
    BY <1>1, EngineAssumption DEF ProcessCode, Request
  <2>2. /\ pending' = [calls |-> 1, input |-> MaxFrames, output |-> MaxFrames, errors |-> 0]
        /\ UNCHANGED <<counters, generation, limit>>
    BY <1>2, <2>1 DEF ProcessBegins, Additions, handleVars
  <2>3. counters["input"] = MaxFrames * counters["calls"]
        /\ counters["output"] = MaxFrames * counters["calls"]
        /\ (~faulted => counters["errors"] = 0)
    BY <1>1 DEF SInv, CountInv, Due, Zero, Counters
  <2>4. MaxFrames * (counters["calls"] + 1) = MaxFrames * counters["calls"] + MaxFrames
    BY <1>1, EngineAssumption DEF Counters
  <2>5. CountInv' /\ Due("calls")' > 0
    <3>1. pending' \in [Counters -> Nat]
      BY <2>2, EngineAssumption DEF Counters
    <3>2. /\ Due("calls")' = counters["calls"] + 1
          /\ Due("input")' = counters["input"] + MaxFrames
          /\ Due("output")' = counters["output"] + MaxFrames
          /\ Due("errors")' = counters["errors"] + 0
      BY <2>2 DEF Due
    <3> QED BY <1>1, <1>2, <2>2, <2>3, <2>4, <3>1, <3>2 DEF CountInv, Counters
  <2> QED BY <1>1, <1>2, <2>2, <2>5 DEF SInv, RunInv, InRun, SummaryIsCurrent
<1>3. CASE ProcessFails /\ faulted' = TRUE /\ pc' = "recover"
  <2>1. /\ counters' \in [Counters -> Nat] /\ UNCHANGED <<pending, generation, limit>>
        /\ \A c \in Counters \ {"errors"} : counters'[c] = counters[c]
    BY <1>1, <1>3 DEF ProcessFails, handleVars, Counters
  <2>2. CountInv'
    BY <1>1, <1>3, <2>1 DEF SInv, CountInv, Due, Zero, Counters
  <2> QED BY <1>1, <1>3, <2>1, <2>2 DEF SInv, RunInv, InRun, SummaryIsCurrent
<1> QED BY <1>2, <1>3 DEF RunProcess

\* Counting one counter moves it from pending; the call returns when all are moved.
LEMMA SummaryProcessing == SInv /\ RunProcessing => SInv'
<1> SUFFICES ASSUME SInv, RunProcessing PROVE SInv'
  OBVIOUS
<1>1. /\ pc = "processing" /\ pc' \in {"processing", "metrics", "recover"}
      /\ UNCHANGED <<stream, generation, limit, result, faulted>>
      /\ pc' = "metrics" => status' = "Success"
  BY DEF RunProcessing, ProcessCounts, ProcessReturns, handleVars, Succeeded
<1>2. \A c \in Counters : Due(c)' = Due(c)
  <2>1. CASE \E c \in Counters : ProcessCounts(c)
    <3>1. PICK d \in Counters : ProcessCounts(d)
      BY <2>1
    <3> QED BY <3>1 DEF ProcessCounts, SInv, CountInv, Due
  <2>2. CASE ProcessReturns
    BY <2>2 DEF ProcessReturns, Due
  <2> QED BY <2>1, <2>2 DEF RunProcessing
<1>3. counters' \in [Counters -> Nat] /\ pending' \in [Counters -> Nat]
      /\ (pc' # "processing" => pending' = Zero)
  BY <1>1 DEF RunProcessing, ProcessCounts, ProcessReturns, SInv, CountInv
<1>4. CountInv'
  BY <1>1, <1>2, <1>3 DEF SInv, CountInv, Counters
<1> QED BY <1>1, <1>2, <1>4 DEF SInv, RunInv, InRun, SummaryIsCurrent, Counters

\* The metrics are read one by one while nothing else is going on.
LEMMA SummaryMetrics == SInv /\ (RunMetrics \/ RunMeasuring) => SInv'
<1> SUFFICES ASSUME SInv, RunMetrics \/ RunMeasuring PROVE SInv'
  OBVIOUS
<1>1. /\ pc \in {"metrics", "measuring"} /\ pc' \in {"measuring", "reset"}
      /\ UNCHANGED <<counters, pending, stream, generation, limit, result>>
      /\ faulted => faulted'
  <2>1. CASE RunMetrics
    <3>1. faulted' = faulted \/ faulted' = TRUE
      BY <2>1 DEF RunMetrics
    <3>2. faulted => faulted'
      BY <3>1, Zenon
    <3> QED BY <2>1, <3>2 DEF RunMetrics, MetricsBegin, handleVars, countVars
  <2>2. CASE RunMeasuring
    BY <2>2 DEF RunMeasuring, MetricsLoad, MetricsReturn, handleVars, countVars
  <2> QED BY <2>1, <2>2
<1>2. CountInv' /\ Due("calls")' = Due("calls")
  BY <1>1, KeepsCounts
<1>3. /\ pc' = "measuring" => /\ status' = "Success" /\ DOMAIN seen' \subseteq Counters
                              /\ seen' = [c \in DOMAIN seen' |-> counters[c]]
      /\ pc' = "reset" /\ status' = "Success" => snapshot'.metrics = counters
  <2>1. CASE RunMetrics
    BY <2>1 DEF RunMetrics, MetricsBegin, NothingSeen, SInv, RunInv
  <2>2. CASE RunMeasuring /\ (\E c \in Counters : MetricsLoad(c)) /\ UNCHANGED pc
    <3>1. PICK d \in Counters : MetricsLoad(d)
      BY <2>2
    <3>2. pc = "measuring" /\ pc' = "measuring" /\ UNCHANGED status
      BY <2>2 DEF RunMeasuring
    <3> QED BY <3>1, <3>2 DEF MetricsLoad, SInv, RunInv
  <2>3. CASE RunMeasuring /\ MetricsReturn /\ pc' = "reset"
    <3>1. snapshot'.metrics = seen /\ DOMAIN seen = Counters /\ pc = "measuring"
      BY <2>3 DEF RunMeasuring, MetricsReturn
    <3>2. seen = counters
      BY <3>1 DEF SInv, RunInv, CountInv
    <3> QED BY <2>3, <3>1, <3>2 DEF RunMeasuring, MetricsReturn
  <2> QED BY <2>1, <2>2, <2>3 DEF RunMeasuring
<1> QED BY <1>1, <1>2, <1>3 DEF SInv, RunInv, InRun, SummaryIsCurrent

\* The reset that ends a run ends the stream that its summary names.
LEMMA SummaryEnds == SInv /\ IInv /\ (RunRecover \/ RunReset) => SInv'
<1> SUFFICES ASSUME SInv, IInv, RunRecover \/ RunReset PROVE SInv'
  OBVIOUS
<1>1. Reset(TRUE) \/ (PluginFails("reset") /\ ~Succeeded)
  BY PluginFailsEffect DEF RunRecover, RunReset, Calls
<1>2. /\ UNCHANGED <<counters, pending>> /\ pc' = "idle" /\ pc \in {"recover", "reset"}
  BY <1>1 DEF RunRecover, RunReset, Reset, PluginFails, countVars, Answers
<1>3. faulted => faulted'
  <2>1. faulted' = faulted \/ faulted' = TRUE
    BY DEF RunRecover, RunReset, Calls
  <2> QED BY <2>1, Zenon
<1>4. CountInv' /\ Due("calls")' = Due("calls")
  BY <1>2, <1>3, KeepsCounts
<1>5. CASE result'.code # "Success"
  BY <1>2, <1>4, <1>5, NoSummary DEF InRun
<1>6. CASE result'.code = "Success"
  <2>1. RunReset /\ Succeeded /\ status = "Success" /\ result' = Summary
    <3>1. RunRecover => result'.code # "Success"
      BY FailureIsNoSuccess DEF RunRecover, Answers, IInv, StageInv
    <3>2. RunReset
      BY <1>6, <3>1
    <3>3. PICK answer : result' = answer /\ answer.code = "Success" /\
            \/ answer = (CASE status # "Success" -> Failure(status)
                         [] status = "Success" /\ ~Succeeded -> Failure(reply'.code)
                         [] OTHER -> Summary)
            \/ answer = Failure("InternalError")
      BY <1>6, <3>2 DEF RunReset, Answers
    <3>4. status = "Success" /\ Succeeded
      BY <3>3 DEF Failure, Succeeded
    <3>5. answer = Summary
      BY <3>3, <3>4 DEF Failure
    <3> QED BY <3>2, <3>3, <3>4, <3>5
  <2>2. generation' = generation + 1 /\ pc = "reset"
    BY <1>1, <2>1, StreamEnds DEF RunReset
  <2>3. /\ result'.generation = generation /\ result'.metrics = counters /\ generation # 0
        /\ Due("calls") > 0 /\ pending = Zero
    BY <2>1, <2>2 DEF Summary, SInv, CountInv, RunInv, InRun
  <2>4. HostAccepts(result)' <=> counters["errors"] = 0
    BY <2>3 DEF HostAccepts, ExpectedFrames, SInv, CountInv, Due, Zero, Counters
  <2>5. counters["errors"] # 0 => faulted
    BY <2>3 DEF SInv, CountInv, Due, Zero, Counters
  <2> QED BY <1>2, <1>3, <1>4, <2>2, <2>3, <2>4, <2>5 DEF SInv, RunInv, InRun, SummaryIsCurrent
<1> QED BY <1>5, <1>6

\* The summary a run answers is about that run, and the manager accepts it exactly
\* if no error was ever counted: every run adds one buffer, whatever their number.
THEOREM SummaryIsCurrentHolds == Spec => []SummaryIsCurrent
<1>1. SInv /\ IInv /\ [Next]_vars => SInv'
  <2> SUFFICES ASSUME SInv, IInv, [Next]_vars PROVE SInv'
    OBVIOUS
  <2>1. CASE UNCHANGED vars
    BY <2>1 DEF vars, engineVars, handleVars, countVars, readVars, pipelineVars, SInv,
                CountInv, RunInv, SummaryIsCurrent, HostAccepts, ExpectedFrames, Due
  <2> QED BY <2>1, SummaryCreate, SummaryBegins, SummaryProcess, SummaryProcessing,
             SummaryMetrics, SummaryEnds DEF Next
<1>2. SInv => SummaryIsCurrent
  BY DEF SInv
<1> QED BY <1>1, <1>2, SummaryInit, Invariance, PTL DEF Spec

-----------------------------------------------------------------------------
(* The types *)

Answer == [code : Codes, generation : 0 .. MaxGeneration]
Metered == [code : Codes, metrics : [Counters -> Nat], made : 0 .. MaxCalls,
            overlapped : BOOLEAN]

\* The values that calls start from, and those they return.
LEMMA TypedValues ==
  /\ Zero \in [Counters -> Nat]
  /\ \A code \in Codes : Returned(code) \in Answer
  /\ {"Success", "InvalidArgument", "InvalidState", "EngineFailure", "InternalError"} \subseteq Codes
  /\ <<>> \in Seq(0 .. MaxGeneration)
  /\ NoMetrics \in Metered
  /\ [NoMetrics EXCEPT !.code = "EngineFailure"] \in Metered
  /\ DOMAIN NothingSeen = {} /\ NothingSeen \in [{} -> Nat]
<1>1. Zero \in [Counters -> Nat]
  BY DEF Zero
<1>2. \A code \in Codes : Returned(code) \in Answer
  BY EngineAssumption DEF Returned, Answer
<1>3. {"Success", "InvalidArgument", "InvalidState", "EngineFailure", "InternalError"} \subseteq Codes
  BY DEF Codes
<1>4. NoMetrics \in Metered
  BY <1>1, <1>3, EngineAssumption DEF NoMetrics, Metered
<1>5. [NoMetrics EXCEPT !.code = "EngineFailure"] \in Metered
  BY <1>3, <1>4 DEF Metered
<1>6. DOMAIN NothingSeen = {} /\ NothingSeen \in [{} -> Nat]
  BY DEF NothingSeen
<1>7. <<>> \in Seq(0 .. MaxGeneration)
  OBVIOUS
<1> QED BY <1>1, <1>2, <1>3, <1>4, <1>5, <1>6, <1>7

\* The controls of a run keep the types of the engine.
LEMMA TypedControls ==
  ASSUME EngineTypeOK,
         \/ Initialize(TRUE) \/ LoadModel(TRUE) \/ Shutdown(TRUE) \/ Reset(TRUE)
         \/ PrepareStream(TRUE, MaxFrames) \/ \E op \in Faults : PluginFails(op)
         \/ UNCHANGED engineVars
  PROVE  EngineTypeOK'
<1>1. \A code \in Codes : Returned(code) \in Answer
  BY EngineAssumption DEF Returned, Answer
<1>2. UNCHANGED <<pending, running, outcome, reading, seen, overlapped>>
  BY DEF Initialize, LoadModel, Shutdown, Reset, PrepareStream, PluginFails, engineVars,
         countVars, readVars
<1>3. reply' \in Answer
  <2>1. \A from, to : AdvanceEpoch(TRUE, from, to) => reply' \in Answer
    <3> SUFFICES ASSUME NEW from, NEW to, AdvanceEpoch(TRUE, from, to) PROVE reply' \in Answer
      OBVIOUS
    <3>1. CASE state = from /\ CanAdvance
      <4>1. /\ Verdict(TRUE, state = from /\ CanAdvance) = "Success"
            /\ NextGeneration \in 0 .. MaxGeneration
        BY <3>1, EngineAssumption DEF Verdict, CanAdvance, NextGeneration, EngineTypeOK
      <4> QED BY <4>1 DEF AdvanceEpoch, Returned, Answer, Codes
    <3>2. CASE ~(state = from /\ CanAdvance)
      <4>1. Verdict(TRUE, state = from /\ CanAdvance) = "InvalidState"
        BY <3>2 DEF Verdict
      <4> QED BY <4>1, <1>1 DEF AdvanceEpoch, Codes
    <3> QED BY <3>1, <3>2
  <2>2. Initialize(TRUE) \/ LoadModel(TRUE) \/ Shutdown(TRUE) => reply' \in Answer
    BY <1>1 DEF Initialize, LoadModel, Shutdown, Verdict, Codes
  <2>3. (\E op \in Faults : PluginFails(op)) \/ UNCHANGED engineVars => reply' \in Answer
    BY <1>1 DEF PluginFails, Codes, engineVars, EngineTypeOK, Answer
  <2> QED BY <2>1, <2>2, <2>3 DEF Reset, PrepareStream
<1>4. /\ state' \in EngineStates \cup {"none"} /\ generation' \in 0 .. MaxGeneration
      /\ limit' \in 0 .. MaxFrames /\ epochs' \in Seq(0 .. MaxGeneration)
  <2>1. ASSUME NEW from, NEW to \in EngineStates, AdvanceEpoch(TRUE, from, to)
        PROVE  /\ state' \in EngineStates \cup {"none"} /\ generation' \in 0 .. MaxGeneration
               /\ epochs' \in Seq(0 .. MaxGeneration)
    <3>1. CASE state = from /\ CanAdvance
      <4>1. /\ Verdict(TRUE, state = from /\ CanAdvance) = "Success"
            /\ NextGeneration \in 0 .. MaxGeneration
        BY <3>1, EngineAssumption DEF Verdict, CanAdvance, NextGeneration, EngineTypeOK
      <4>2. state' = to /\ generation' = NextGeneration /\ epochs' = Append(epochs, NextGeneration)
        BY <2>1, <4>1 DEF AdvanceEpoch
      <4>3. Append(epochs, NextGeneration) \in Seq(0 .. MaxGeneration)
        BY <4>1 DEF EngineTypeOK
      <4> QED BY <4>1, <4>2, <4>3
    <3>2. CASE ~(state = from /\ CanAdvance)
      <4>1. Verdict(TRUE, state = from /\ CanAdvance) = "InvalidState"
        BY <3>2 DEF Verdict
      <4>2. UNCHANGED <<state, generation, epochs>>
        BY <2>1, <4>1 DEF AdvanceEpoch
      <4> QED BY <4>2 DEF EngineTypeOK
    <3> QED BY <3>1, <3>2
  <2>2. CASE Initialize(TRUE)
    <3>1. \/ /\ state' = "Initialized" /\ generation' = 0 /\ limit' = 0 /\ epochs' = <<>>
          \/ UNCHANGED <<state, generation, limit, epochs>>
      BY <2>2 DEF Initialize, handleVars
    <3>2. 0 \in 0 .. MaxGeneration /\ 0 \in 0 .. MaxFrames
      BY EngineAssumption
    <3> QED BY <3>1, <3>2, TypedValues DEF EngineTypeOK, EngineStates
  <2>3. CASE LoadModel(TRUE) \/ Shutdown(TRUE)
    BY <2>3 DEF LoadModel, Shutdown, EngineTypeOK, EngineStates
  <2>4. CASE Reset(TRUE)
    BY <2>1, <2>4 DEF Reset, EngineTypeOK, EngineStates
  <2>5. CASE PrepareStream(TRUE, MaxFrames)
    <3>1. AdvanceEpoch(TRUE, "ModelLoaded", "Prepared") /\ limit' \in {limit, MaxFrames}
      BY <2>5 DEF PrepareStream
    <3>2. MaxFrames \in 0 .. MaxFrames
      BY EngineAssumption
    <3> QED BY <2>1, <3>1, <3>2 DEF EngineTypeOK, EngineStates
  <2>6. CASE (\E op \in Faults : PluginFails(op)) \/ UNCHANGED engineVars
    BY <2>6 DEF PluginFails, engineVars, handleVars, EngineTypeOK
  <2> QED BY <2>2, <2>3, <2>4, <2>5, <2>6
<1>5. /\ counters' \in [Counters -> Nat] /\ made' \in 0 .. MaxCalls
      /\ snapshot' \in [code : Codes, metrics : [Counters -> Nat], made : 0 .. MaxCalls,
                        overlapped : BOOLEAN]
  <2>1. CASE Initialize(TRUE)
    <3>1. \/ counters' = Zero /\ made' = 0 /\ snapshot' = NoMetrics
          \/ UNCHANGED <<counters, made, snapshot>>
      BY <2>1 DEF Initialize
    <3>2. 0 \in 0 .. MaxCalls
      BY EngineAssumption
    <3> QED BY <3>1, <3>2, TypedValues DEF EngineTypeOK, Metered
  <2>2. CASE ~Initialize(TRUE)
    BY <2>2 DEF LoadModel, Shutdown, Reset, PrepareStream, PluginFails, engineVars, countVars,
                readVars, EngineTypeOK
  <2> QED BY <2>1, <2>2
<1> QED BY <1>2, <1>3, <1>4, <1>5 DEF EngineTypeOK, Answer

\* So do the process and metrics calls, and their failures.
LEMMA TypedProcess ==
  ASSUME EngineTypeOK, pc \in Stages, stream \in 0 .. MaxGeneration,
         RunProcess \/ RunProcessing
  PROVE  EngineTypeOK'
<1>1. UNCHANGED <<state, generation, limit, reading, seen, snapshot, epochs>>
  BY DEF RunProcess, RunProcessing, ProcessBegins, ProcessFails, ProcessCounts, ProcessReturns,
         handleVars, readVars
<1>2. CASE RunProcess /\ ProcessBegins(Request)
  <2>1. ProcessCode(Request) \in Codes
    BY DEF ProcessCode, Request, Codes
  <2>2. outcome' \in Answer
    <3>1. outcome' = [Returned(ProcessCode(Request)) EXCEPT
                        !.generation = IF ProcessCode(Request) = "Success" THEN generation ELSE 0]
      BY <1>2 DEF ProcessBegins
    <3>2. generation \in 0 .. MaxGeneration /\ 0 \in 0 .. MaxGeneration
      BY EngineAssumption DEF EngineTypeOK
    <3> QED BY <2>1, <3>1, <3>2 DEF Returned, Answer
  <2>3. pending' \in [Counters -> Nat]
    BY <1>2, EngineAssumption DEF ProcessBegins, Additions, Request, Zero, Counters
  <2>4. UNCHANGED <<counters, reply>> /\ made' \in 0 .. MaxCalls
        /\ running' \in BOOLEAN /\ overlapped' \in BOOLEAN
    BY <1>2, EngineAssumption DEF ProcessBegins, EngineTypeOK
  <2> QED BY <1>1, <2>2, <2>3, <2>4 DEF EngineTypeOK, Answer
<1>3. CASE RunProcess /\ ProcessFails
  <2>1. reply' \in Answer
    BY <1>3, TypedValues DEF ProcessFails
  <2>2. counters' \in [Counters -> Nat]
    <3>1. counters' \in {counters, [counters EXCEPT !["errors"] = @ + 1]}
      BY <1>3 DEF ProcessFails
    <3>2. counters \in [Counters -> Nat] /\ "errors" \in Counters
      BY DEF EngineTypeOK, Counters
    <3> QED BY <3>1, <3>2
  <2>3. UNCHANGED <<pending, running, outcome, made, overlapped>>
    BY <1>3 DEF ProcessFails, readVars
  <2> QED BY <1>1, <2>1, <2>2, <2>3 DEF EngineTypeOK, Answer
<1>4. CASE RunProcessing
  <2>1. CASE \E c \in Counters : ProcessCounts(c)
    BY <1>1, <2>1 DEF ProcessCounts, EngineTypeOK, readVars
  <2>2. CASE ProcessReturns
    BY <1>1, <2>2 DEF ProcessReturns, EngineTypeOK, readVars
  <2> QED BY <1>4, <2>1, <2>2 DEF RunProcessing
<1> QED BY <1>2, <1>3, <1>4 DEF RunProcess

LEMMA TypedMetrics ==
  ASSUME EngineTypeOK, RunMetrics \/ RunMeasuring
  PROVE  EngineTypeOK'
<1>1. UNCHANGED <<state, generation, limit, counters, pending, running, outcome, made, reply, epochs>>
  BY DEF RunMetrics, RunMeasuring, MetricsBegin, MetricsLoad, MetricsReturn, handleVars, countVars
<1>2. reading' \in BOOLEAN /\ overlapped' \in BOOLEAN
  BY DEF RunMetrics, RunMeasuring, MetricsBegin, MetricsLoad, MetricsReturn, EngineTypeOK
<1>3. DOMAIN seen' \subseteq Counters /\ seen' \in [DOMAIN seen' -> Nat]
  <2>1. CASE RunMetrics
    BY <2>1 DEF RunMetrics, MetricsBegin, NothingSeen, EngineTypeOK
  <2>2. CASE RunMeasuring
    <3>1. ASSUME NEW c \in Counters, MetricsLoad(c)
          PROVE  DOMAIN seen' \subseteq Counters /\ seen' \in [DOMAIN seen' -> Nat]
      BY <3>1 DEF MetricsLoad, EngineTypeOK
    <3>2. MetricsReturn => UNCHANGED seen
      BY DEF MetricsReturn
    <3> QED BY <2>2, <3>1, <3>2 DEF RunMeasuring, EngineTypeOK
  <2> QED BY <2>1, <2>2
<1>4. snapshot' \in [code : Codes, metrics : [Counters -> Nat], made : 0 .. MaxCalls,
                     overlapped : BOOLEAN]
  <2>1. CASE RunMetrics
    <3>1. snapshot' \in {snapshot, [NoMetrics EXCEPT !.code = "EngineFailure"]}
      BY <2>1 DEF RunMetrics, MetricsBegin
    <3> QED BY <3>1, TypedValues DEF EngineTypeOK, Metered
  <2>2. CASE RunMeasuring
    <3>1. MetricsReturn => snapshot' \in Metered
      <4>1. DOMAIN seen = Counters => seen \in [Counters -> Nat]
        BY DEF EngineTypeOK
      <4> QED BY <4>1, TypedValues DEF MetricsReturn, EngineTypeOK, Metered
    <3>2. (\E c \in Counters : MetricsLoad(c)) => UNCHANGED snapshot
      BY DEF MetricsLoad
    <3> QED BY <2>2, <3>1, <3>2 DEF RunMeasuring, EngineTypeOK, Metered
  <2> QED BY <2>1, <2>2
<1> QED BY <1>1, <1>2, <1>3, <1>4 DEF EngineTypeOK

\* The variables of the pipeline and of its engine keep their types, whatever number
\* of runs and whatever calls fail.
THEOREM TypeCorrect == Spec => []TypeOK
<1>1. Init => TypeOK
  <2> SUFFICES ASSUME Init PROVE TypeOK
    OBVIOUS
  <2>1. EngineTypeOK
    <3>1. 0 \in 0 .. MaxGeneration /\ 0 \in 0 .. MaxFrames /\ 0 \in 0 .. MaxCalls
      BY EngineAssumption
    <3>2. /\ counters = Zero /\ pending = Zero /\ outcome = Returned("Success")
          /\ reply = Returned("Success") /\ seen = NothingSeen /\ snapshot = NoMetrics
          /\ epochs = <<>>
      BY DEF Init, EngineInit
    <3>3. /\ state = "none" /\ generation = 0 /\ limit = 0 /\ made = 0
          /\ running = FALSE /\ reading = FALSE /\ overlapped = FALSE
      BY DEF Init, EngineInit
    <3> QED BY <3>1, <3>2, <3>3, TypedValues DEF EngineTypeOK, Answer, Metered
  <2>2. 0 \in 0 .. MaxGeneration /\ 0 \in 0 .. MaxRuns
    BY EngineAssumption, PipelineAssumption
  <2>3. Failure("InternalError") \in Results
    BY <2>2, TypedValues DEF Failure, Results
  <2> QED BY <2>1, <2>2, <2>3, TypedValues DEF Init, TypeOK, Stages
<1>2. TypeOK /\ [Next]_vars => TypeOK'
  <2> SUFFICES ASSUME TypeOK, [Next]_vars PROVE TypeOK'
    OBVIOUS
  <2>1. EngineTypeOK'
    <3>1. RunProcess \/ RunProcessing => EngineTypeOK'
      BY TypedProcess DEF TypeOK
    <3>2. RunMetrics \/ RunMeasuring => EngineTypeOK'
      BY TypedMetrics DEF TypeOK
    <3>3. \A op : PluginFails(op) => op \in Faults
      BY DEF PluginFails
    <3>4. CASE ~(RunProcess \/ RunProcessing \/ RunMetrics \/ RunMeasuring)
      <4>1. \/ Initialize(TRUE) \/ LoadModel(TRUE) \/ Shutdown(TRUE) \/ Reset(TRUE)
            \/ PrepareStream(TRUE, MaxFrames) \/ \E op \in Faults : PluginFails(op)
            \/ UNCHANGED engineVars
        BY <3>3, <3>4 DEF Next, Create, CreateModel, Destroy, Run, RunPrepare, RunRecover, RunReset,
                          Calls, vars
      <4> QED BY <4>1, TypedControls DEF TypeOK
    <3> QED BY <3>1, <3>2, <3>4
  <2>2. pc' \in Stages /\ runs' \in 0 .. MaxRuns
    <3>1. runs' = runs \/ (runs < MaxRuns /\ runs' = runs + 1)
      BY DEF Next, Create, CreateModel, Destroy, Run, RunPrepare, RunProcess, RunProcessing,
             RunRecover, RunMetrics, RunMeasuring, RunReset, vars, pipelineVars
    <3>2. runs' \in 0 .. MaxRuns
      BY <3>1, PipelineAssumption DEF TypeOK
    <3>3. pc' \in Stages
      <4>1. CASE Create \/ CreateModel \/ Destroy \/ UNCHANGED vars
        BY <4>1 DEF TypeOK, Create, CreateModel, Destroy, Stages, vars, pipelineVars
      <4>2. CASE (\E empty \in BOOLEAN : Run(empty)) \/ RunPrepare \/ RunProcess \/ RunProcessing
        BY <4>2 DEF TypeOK, Run, RunPrepare, RunProcess, RunProcessing, Answers, Stages
      <4>3. CASE RunRecover \/ RunMetrics \/ RunMeasuring \/ RunReset
        BY <4>3 DEF TypeOK, RunRecover, RunMetrics, RunMeasuring, RunReset, Answers, Stages
      <4> QED BY <4>1, <4>2, <4>3 DEF Next
    <3> QED BY <3>2, <3>3
  <2>3. stream' \in 0 .. MaxGeneration /\ status' \in Codes
    BY <2>1
       DEF TypeOK, EngineTypeOK, Next, Create, CreateModel, Destroy, Run, RunPrepare, RunProcess,
           RunProcessing, RunRecover, RunMetrics, RunMeasuring, RunReset, Codes, vars, pipelineVars
  <2>4. result' \in Results
    <3>1. \A code \in Codes : Failure(code) \in Results
      BY EngineAssumption, TypedValues DEF Failure, Results
    <3>2. Summary \in Results /\ reply'.code \in Codes /\ status \in Codes
      BY <2>1, TypedValues DEF Summary, Results, TypeOK, EngineTypeOK
    <3>3. CASE RunReset
      <4>1. \/ \E code \in {status, reply'.code, "InternalError"} : result' = Failure(code)
            \/ result' = Summary
        BY <3>3 DEF RunReset, Answers
      <4> QED BY <3>1, <3>2, <4>1, TypedValues
    <3>4. CASE ~RunReset
      BY <3>1, <3>2, <3>4
         DEF TypeOK, Next, Create, CreateModel, Destroy, Run, RunPrepare, RunProcess, RunProcessing,
             RunRecover, RunMetrics, RunMeasuring, Answers, Codes, vars, pipelineVars
    <3> QED BY <3>3, <3>4
  <2>5. wedged' \in BOOLEAN /\ faulted' \in BOOLEAN
    <3>1. wedged' \in BOOLEAN
      BY DEF TypeOK, Next, Create, CreateModel, Destroy, Run, RunPrepare, RunProcess, RunProcessing,
             RunRecover, RunMetrics, RunMeasuring, RunReset, vars, pipelineVars
    <3>2. faulted' \in {faulted, TRUE}
      BY DEF Next, Create, CreateModel, Destroy, Run, RunPrepare, RunProcess, RunProcessing,
             RunRecover, RunMetrics, RunMeasuring, RunReset, Calls, vars, pipelineVars
    <3> QED BY <3>1, <3>2 DEF TypeOK
  <2> QED BY <2>1, <2>2, <2>3, <2>4, <2>5 DEF TypeOK
<1> QED BY <1>1, <1>2, PTL DEF Spec

=============================================================================
