---------------------------- MODULE MockPipeline ----------------------------
(***************************************************************************)
(* MockPipeline: creates one engine, and for each request takes it through *)
(* prepare, process, metrics and reset, one call after the other.  The     *)
(* plugin is the Mock engine, or another that keeps the ABI's promises and *)
(* may fail a call the Mock engine would not.                              *)
(***************************************************************************)
EXTENDS MockEngine

CONSTANTS
  Faults,    \* the calls the plugin may fail, leaving its state as it was
  MaxRuns    \* bound of the model: requests

ASSUME PipelineAssumption == MaxRuns \in Nat /\ MaxRuns <= MaxCalls /\ MaxFrames > 0

Stages == {"create", "load_model", "discard", "idle", "prepare", "process",
           "processing", "recover", "metrics", "measuring", "reset", "gone"}

VARIABLES
  pc,
  stream,     \* prepared.stream_generation
  status,     \* of the process or metrics call, until it is reported
  result,     \* PipelineRunResult of the last run
  runs,
  wedged,     \* history: a reset has failed
  faulted     \* history: the plugin has failed a call on its own account

pipelineVars == <<pc, stream, status, result, runs, wedged, faulted>>
vars == <<engineVars, pipelineVars>>

Failure(code) == [code |-> code, generation |-> 0, metrics |-> Zero]
Summary == [code |-> "Success", generation |-> stream, metrics |-> snapshot.metrics]

Init ==
  /\ EngineInit
  /\ pc = "create"
  /\ stream = 0
  /\ status = "Success"
  /\ result = Failure("InternalError")
  /\ runs = 0
  /\ wedged = FALSE
  /\ faulted = FALSE

\* A failure of the plugin's own: nothing of the engine changes.
PluginFails(op) ==
  /\ op \in Faults
  /\ reply' = Returned("EngineFailure")
  /\ UNCHANGED <<handleVars, countVars, readVars, epochs>>

\* A process call that fails may be counted.
ProcessFails ==
  /\ "process_audio" \in Faults
  /\ reply' = Returned("EngineFailure")
  /\ counters' \in {counters, [counters EXCEPT !["errors"] = @ + 1]}
  /\ UNCHANGED <<handleVars, pending, running, outcome, made, readVars, epochs>>

\* A call of the engine, which succeeds or fails, or fails by the plugin's fault.
Calls(op, Call) ==
  \/ Call /\ UNCHANGED faulted
  \/ PluginFails(op) /\ faulted' = TRUE

Succeeded == reply'.code = "Success"

\* MockPipeline::available looks at the handle alone.
Available == Live

\* A run ends with its answer.
Answers(r) ==
  /\ pc' = "idle"
  /\ result' = r

-----------------------------------------------------------------------------
(* MockPipeline::create *)

\* The library is loaded, or not, and the engine initialized.
Create ==
  /\ pc = "create"
  /\ \/ /\ Calls("initialize", Initialize(TRUE))
        /\ pc' = IF Succeeded THEN "load_model" ELSE "gone"
     \/ pc' = "gone" /\ UNCHANGED <<engineVars, faulted>>
  /\ UNCHANGED <<stream, status, result, runs, wedged>>

\* The pipeline has its engine, or the model is refused, or it cannot be allocated.
CreateModel ==
  /\ pc = "load_model"
  /\ Calls("load_model", LoadModel(TRUE))
  /\ pc' \in IF Succeeded THEN {"idle", "discard"} ELSE {"discard"}
  /\ UNCHANGED <<stream, status, result, runs, wedged>>

\* The instance's destructor, after a creation that failed and at the end.
Destroy ==
  /\ pc \in {"discard", "idle"}
  /\ Calls("shutdown", Shutdown(TRUE))
  /\ pc' = "gone"
  /\ UNCHANGED <<stream, status, result, runs, wedged>>

-----------------------------------------------------------------------------
(* MockPipeline::run *)

\* A request has no payload, or is refused.
Run(empty) ==
  /\ pc = "idle"
  /\ runs < MaxRuns
  /\ runs' = runs + 1
  /\ IF empty THEN pc' = "prepare" /\ UNCHANGED result
              ELSE Answers(Failure("InvalidArgument"))
  /\ UNCHANGED <<engineVars, stream, status, wedged, faulted>>

RunPrepare ==
  /\ pc = "prepare"
  /\ Calls("prepare_stream", PrepareStream(TRUE, MaxFrames))
  /\ IF Succeeded
     THEN /\ pc' = "process"
          /\ stream' = reply'.generation
          /\ UNCHANGED result
     ELSE /\ Answers(Failure(reply'.code))
          /\ UNCHANGED stream
  /\ UNCHANGED <<status, runs, wedged>>

Request == [valid |-> TRUE, generation |-> stream, sameFormat |-> TRUE,
            frames |-> MaxFrames, capacity |-> MaxFrames]

RunProcess ==
  /\ pc = "process"
  /\ \/ /\ ProcessBegins(Request)
        /\ pc' = "processing"
        /\ UNCHANGED <<status, faulted>>
     \/ /\ ProcessFails
        /\ faulted' = TRUE
        /\ status' = reply'.code
        /\ pc' = "recover"
  /\ UNCHANGED <<stream, result, runs, wedged>>

RunProcessing ==
  /\ pc = "processing"
  /\ \/ /\ \E c \in Counters : ProcessCounts(c)
        /\ UNCHANGED <<pc, status>>
     \/ /\ ProcessReturns
        /\ status' = reply'.code
        /\ pc' = IF Succeeded THEN "metrics" ELSE "recover"
  /\ UNCHANGED <<stream, result, runs, wedged, faulted>>

\* The engine is reset, whatever comes of it; the run answers what process said.
\* Mutant: the run answers at once.
RunRecoverUnreset ==
  /\ pc = "recover"
  /\ Answers(Failure(status))
  /\ UNCHANGED <<engineVars, stream, status, runs, wedged, faulted>>

RunRecover ==
  /\ pc = "recover"
  /\ Calls("reset", Reset(TRUE))
  /\ wedged' = (wedged \/ ~Succeeded)
  /\ Answers(Failure(status))
  /\ UNCHANGED <<stream, status, runs>>

\* A metrics call that fails hands out zeros.  Mutant: and nobody looks.
RunMetricsUnchecked ==
  /\ pc = "metrics"
  /\ \/ /\ MetricsBegin
        /\ pc' = "measuring"
        /\ UNCHANGED <<status, faulted>>
     \/ /\ "get_metrics" \in Faults
        /\ snapshot' = [NoMetrics EXCEPT !.code = "EngineFailure"]
        /\ faulted' = TRUE
        /\ pc' = "reset"
        /\ UNCHANGED <<handleVars, countVars, reading, seen, overlapped, reply, epochs, status>>
  /\ UNCHANGED <<stream, result, runs, wedged>>

RunMetrics ==
  /\ pc = "metrics"
  /\ \/ /\ MetricsBegin
        /\ pc' = "measuring"
        /\ UNCHANGED <<status, faulted>>
     \/ /\ "get_metrics" \in Faults
        /\ snapshot' = [NoMetrics EXCEPT !.code = "EngineFailure"]
        /\ status' = "EngineFailure"
        /\ faulted' = TRUE
        /\ pc' = "reset"
        /\ UNCHANGED <<handleVars, countVars, reading, seen, overlapped, reply, epochs>>
  /\ UNCHANGED <<stream, result, runs, wedged>>

RunMeasuring ==
  /\ pc = "measuring"
  /\ \/ /\ \E c \in Counters : MetricsLoad(c)
        /\ UNCHANGED pc
     \/ /\ MetricsReturn
        /\ pc' = "reset"
  /\ UNCHANGED <<stream, status, result, runs, wedged, faulted>>

\* The engine is reset before the metrics call's failure is reported.  The summary
\* is the answer if both went well and it can be built.  Mutant: a reset that
\* fails is not reported.
RunResetUnchecked ==
  /\ pc = "reset"
  /\ Calls("reset", Reset(TRUE))
  /\ wedged' = (wedged \/ ~Succeeded)
  /\ Answers(IF status # "Success" THEN Failure(status) ELSE Summary)
  /\ UNCHANGED <<stream, status, runs>>

RunReset ==
  /\ pc = "reset"
  /\ Calls("reset", Reset(TRUE))
  /\ wedged' = (wedged \/ ~Succeeded)
  /\ \/ Answers(CASE status # "Success" -> Failure(status)
                  [] status = "Success" /\ ~Succeeded -> Failure(reply'.code)
                  [] OTHER -> Summary)
     \/ status = "Success" /\ Succeeded /\ Answers(Failure("InternalError"))
  /\ UNCHANGED <<stream, status, runs>>

Next ==
  \/ Create \/ CreateModel \/ Destroy
  \/ \E empty \in BOOLEAN : Run(empty)
  \/ RunPrepare \/ RunProcess \/ RunProcessing \/ RunRecover
  \/ RunMetrics \/ RunMeasuring \/ RunReset

Spec == Init /\ [][Next]_vars

-----------------------------------------------------------------------------

Results == [code : Codes, generation : 0 .. MaxGeneration, metrics : [Counters -> Nat]]

TypeOK ==
  /\ EngineTypeOK
  /\ pc \in Stages
  /\ stream \in 0 .. MaxGeneration
  /\ status \in Codes
  /\ result \in Results
  /\ runs \in 0 .. MaxRuns
  /\ wedged \in BOOLEAN
  /\ faulted \in BOOLEAN

\* Between two runs the engine waits for a prepare, however the last run ended,
\* unless a reset failed: then it stays Prepared.
ReadyBetweenRuns ==
  pc \in {"idle", "prepare"} => Live /\ state = IF wedged THEN "Prepared" ELSE "ModelLoaded"

\* After a failed reset no run succeeds any more: none begins with a reset.  The
\* capabilities that Session reports go on calling the pipeline available.
WedgedForGood == wedged => result.code # "Success" /\ (pc = "idle" => Available)

\* With the Mock engine that is only so at the end of the epoch.
OnlyExhaustionWedges == wedged /\ ~faulted => generation = MaxGeneration

\* What the manager makes of the summary: parse_mock_pipeline_summary expects every
\* call since the engine was created to have gone well, with all its frames.
ExpectedFrames(r) == MaxFrames * r.metrics["calls"]
HostAccepts(r) ==
  /\ r.generation # 0 /\ r.metrics["calls"] # 0
  /\ r.metrics["input"] = ExpectedFrames(r) /\ r.metrics["output"] = ExpectedFrames(r)
  /\ r.metrics["errors"] = 0

\* The summary of a run is about that run: its stream is the one just reset, and
\* its metrics are what the engine has counted up to now.  The manager, which takes
\* the connection down for a summary it does not expect, accepts it exactly if the
\* engine never counted an error; an error that it once counted, which only a plugin
\* that fails on its own account does, makes the manager refuse every later success.
SummaryIsCurrent ==
  pc = "idle" /\ result.code = "Success" =>
    /\ result.generation + 1 = generation
    /\ result.metrics = counters
    /\ HostAccepts(result) <=> counters["errors"] = 0
    /\ counters["errors"] # 0 => faulted

=============================================================================
