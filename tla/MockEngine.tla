----------------------------- MODULE MockEngine -----------------------------
(***************************************************************************)
(* The Mock VoiceEngine behind the C ABI: one handle from initialize to    *)
(* shutdown, its lifecycle, the epoch of its streams and the counters that *)
(* a metrics call reads one by one while process_audio updates them.       *)
(* Callers keep the ABI's rule: controls one at a time, one process call,  *)
(* and only metrics overlap process.  Requests may be wrong in any way.    *)
(***************************************************************************)
EXTENDS Integers, Sequences

CONSTANTS
  MaxGeneration,   \* UINT64_MAX
  MaxFrames,       \* bound of the model: frames of the longest buffer
  MaxCalls         \* bound of the model: process calls of a handle

\* Generations start at 0 and run up to the greatest value of an unsigned type.
ASSUME EngineAssumption ==
  /\ MaxGeneration \in Nat /\ MaxGeneration % 2 = 1
  /\ MaxFrames \in Nat /\ MaxCalls \in Nat

Counters == {"calls", "input", "output", "errors"}
Zero == [c \in Counters |-> 0]

EngineStates == {"Initialized", "ModelLoaded", "Prepared"}
Codes == {"Success", "InvalidArgument", "InvalidState", "BufferTooSmall",
          "EngineFailure", "InternalError"}

\* valid: pointers, prefixes, reserved words, versions, enums and ranges are.
ProcessRequests == [valid : BOOLEAN, generation : 0 .. MaxGeneration,
                    sameFormat : BOOLEAN, frames : 0 .. MaxFrames + 1,
                    capacity : 0 .. MaxFrames + 1]

VARIABLES
  state,          \* of the handle; none before initialize and after shutdown
  generation,     \* stream_generation
  limit,          \* maximum_frame_count
  counters,
  pending,        \* what the process call that runs has yet to add to them
  running,        \* a process call runs
  outcome,        \* what it will return
  reading, seen,  \* a metrics call runs; the counters it has loaded
  reply,          \* of the last control or process call to return
  snapshot,       \* of the last metrics call to return
  epochs,         \* history: the generations returned by this handle, in order
  made,           \* history: process calls made
  overlapped      \* history: a process call runs, or ran, beside the metrics call

handleVars == <<state, generation, limit>>
countVars == <<counters, pending, running, outcome, made>>
readVars == <<reading, seen, overlapped, snapshot>>
engineVars == <<handleVars, countVars, readVars, reply, epochs>>

Returned(code) == [code |-> code, generation |-> 0]

\* A metrics call that fails hands out zeros.  How many process calls had been
\* made, and whether one ran beside it, is history.
NoMetrics == [code |-> "InvalidArgument", metrics |-> Zero, made |-> 0, overlapped |-> FALSE]

NothingSeen == [c \in {} |-> 0]

EngineInit ==
  /\ state = "none"
  /\ generation = 0
  /\ limit = 0
  /\ counters = Zero
  /\ pending = Zero
  /\ running = FALSE
  /\ outcome = Returned("Success")
  /\ reading = FALSE
  /\ seen = NothingSeen
  /\ reply = Returned("Success")
  /\ snapshot = NoMetrics
  /\ epochs = <<>>
  /\ made = 0
  /\ overlapped = FALSE

\* Controls are serialized with every other call on the handle.
Quiet == ~running /\ ~reading
Live == state # "none"

-----------------------------------------------------------------------------
(* Controls *)

\* A new handle, with everything at its default; or the configuration is wrong,
\* or the allocation fails.
Initialize(valid) ==
  /\ ~Live
  /\ \/ /\ valid
        /\ state' = "Initialized"
        /\ generation' = 0
        /\ limit' = 0
        /\ counters' = Zero
        /\ epochs' = <<>>
        /\ made' = 0
        /\ snapshot' = NoMetrics
        /\ reply' = Returned("Success")
     \/ /\ reply' = Returned(IF valid THEN "InternalError" ELSE "InvalidArgument")
        /\ UNCHANGED <<handleVars, counters, epochs, made, snapshot>>
  /\ UNCHANGED <<pending, running, outcome, reading, seen, overlapped>>

Shutdown(valid) ==
  /\ Live /\ Quiet
  /\ IF valid
     THEN /\ state' = "none"
          /\ reply' = Returned("Success")
     ELSE /\ reply' = Returned("InvalidArgument")
          /\ UNCHANGED state
  /\ UNCHANGED <<generation, limit, countVars, readVars, epochs>>

\* Info looks at no state of the handle.
GetEngineInfo(valid, room) ==
  /\ Live /\ Quiet
  /\ reply' = Returned(CASE ~valid -> "InvalidArgument"
                         [] valid /\ ~room -> "BufferTooSmall"
                         [] OTHER -> "Success")
  /\ UNCHANGED <<handleVars, countVars, readVars, epochs>>

\* The code of a control that is allowed in one state only.
Verdict(valid, allowed) ==
  CASE ~valid -> "InvalidArgument"
    [] valid /\ ~allowed -> "InvalidState"
    [] OTHER -> "Success"

LoadModel(valid) ==
  /\ Live /\ Quiet
  /\ LET code == Verdict(valid, state = "Initialized")
     IN  /\ reply' = Returned(code)
         /\ state' = IF code = "Success" THEN "ModelLoaded" ELSE state
  /\ UNCHANGED <<generation, limit, countVars, readVars, epochs>>

\* aivs_voice_engine_generation_advance.  Mutants: the check is left out, and the
\* generation wraps; a reset is refused one epoch early.
CanAlwaysAdvance == TRUE
CanAdvanceBeforeLast == generation + 2 < MaxGeneration
CanAdvance == generation < MaxGeneration

\* Unsigned arithmetic.
NextGeneration == IF generation = MaxGeneration THEN 0 ELSE generation + 1

\* A success advances the epoch, takes the handle to another state and returns
\* the new generation; a failure leaves the handle as it is and returns none.
AdvanceEpoch(valid, from, to) ==
  LET code == Verdict(valid, state = from /\ CanAdvance)
  IN  IF code = "Success"
      THEN /\ state' = to
           /\ generation' = NextGeneration
           /\ epochs' = Append(epochs, NextGeneration)
           /\ reply' = [Returned(code) EXCEPT !.generation = NextGeneration]
      ELSE /\ reply' = Returned(code)
           /\ UNCHANGED <<state, generation, epochs>>

PrepareStream(valid, frames) ==
  /\ Live /\ Quiet
  /\ AdvanceEpoch(valid, "ModelLoaded", "Prepared")
  /\ limit' = IF reply'.code = "Success" THEN frames ELSE limit
  /\ UNCHANGED <<countVars, readVars>>

\* Mutant: a reset that stays in Prepared, ready for the next buffer.
ResetStaysPrepared(valid) ==
  /\ Live /\ Quiet
  /\ AdvanceEpoch(valid, "Prepared", "Prepared")
  /\ UNCHANGED <<limit, countVars, readVars>>

Reset(valid) ==
  /\ Live /\ Quiet
  /\ AdvanceEpoch(valid, "Prepared", "ModelLoaded")
  /\ UNCHANGED <<limit, countVars, readVars>>

-----------------------------------------------------------------------------
(* Process and metrics *)

ProcessCode(r) ==
  CASE ~r.valid -> "InvalidArgument"
    [] r.valid /\ (\/ state # "Prepared" \/ r.generation # generation
                   \/ ~r.sameFormat \/ r.frames > limit) -> "InvalidState"
    [] OTHER -> IF r.capacity < r.frames THEN "BufferTooSmall" ELSE "Success"

\* What a process call adds to each counter, once each and one at a time.
\* Mutant: a failed call is a call as well.
AdditionsOfEveryCall(code, frames) ==
  IF code = "Success"
  THEN [calls |-> 1, input |-> frames, output |-> frames, errors |-> 0]
  ELSE [calls |-> 1, input |-> 0, output |-> 0, errors |-> 1]

Additions(code, frames) ==
  IF code = "Success"
  THEN [calls |-> 1, input |-> frames, output |-> frames, errors |-> 0]
  ELSE [Zero EXCEPT !["errors"] = 1]

ProcessBegins(r) ==
  /\ Live /\ ~running
  /\ made < MaxCalls
  /\ running' = TRUE
  /\ made' = made + 1
  /\ pending' = Additions(ProcessCode(r), r.frames)
  /\ outcome' = [Returned(ProcessCode(r)) EXCEPT
                   !.generation = IF ProcessCode(r) = "Success" THEN generation ELSE 0]
  /\ overlapped' = (overlapped \/ reading)
  /\ UNCHANGED <<handleVars, counters, reading, seen, snapshot, reply, epochs>>

\* The counters are relaxed atomics: others may see them change in any order.
ProcessCounts(c) ==
  /\ running
  /\ pending[c] > 0
  /\ counters' = [counters EXCEPT ![c] = @ + pending[c]]
  /\ pending' = [pending EXCEPT ![c] = 0]
  /\ UNCHANGED <<handleVars, running, outcome, made, readVars, reply, epochs>>

\* Mutant: the call returns before it has counted.
ProcessReturnsUncounted ==
  /\ running
  /\ running' = FALSE
  /\ reply' = outcome
  /\ UNCHANGED <<handleVars, counters, pending, outcome, made, readVars, epochs>>

ProcessReturns ==
  /\ running
  /\ pending = Zero
  /\ running' = FALSE
  /\ reply' = outcome
  /\ UNCHANGED <<handleVars, counters, pending, outcome, made, readVars, epochs>>

MetricsBegin ==
  /\ Live /\ ~reading
  /\ reading' = TRUE
  /\ seen' = NothingSeen
  /\ overlapped' = running
  /\ UNCHANGED <<handleVars, countVars, snapshot, reply, epochs>>

MetricsLoad(c) ==
  /\ reading
  /\ c \notin DOMAIN seen
  /\ seen' = [d \in DOMAIN seen \cup {c} |-> IF d = c THEN counters[c] ELSE seen[d]]
  /\ UNCHANGED <<handleVars, countVars, reading, overlapped, snapshot, reply, epochs>>

MetricsReturn ==
  /\ reading
  /\ DOMAIN seen = Counters
  /\ reading' = FALSE
  /\ snapshot' = [code |-> "Success", metrics |-> seen, made |-> made,
                  overlapped |-> overlapped]
  /\ UNCHANGED <<handleVars, countVars, seen, overlapped, reply, epochs>>

\* A malformed request is refused at once.
MetricsRefused ==
  /\ Live /\ ~reading
  /\ snapshot' = NoMetrics
  /\ UNCHANGED <<handleVars, countVars, reading, seen, overlapped, reply, epochs>>

-----------------------------------------------------------------------------

Control(valid) ==
  \/ Initialize(valid) \/ Shutdown(valid) \/ LoadModel(valid) \/ Reset(valid)
  \/ \E room \in BOOLEAN : GetEngineInfo(valid, room)
  \/ \E frames \in 1 .. MaxFrames : PrepareStream(valid, frames)

Process ==
  \/ \E r \in ProcessRequests : ProcessBegins(r)
  \/ \E c \in Counters : ProcessCounts(c)
  \/ ProcessReturns

Metrics ==
  \/ MetricsBegin
  \/ \E c \in Counters : MetricsLoad(c)
  \/ MetricsReturn
  \/ MetricsRefused

EngineNext == (\E valid \in BOOLEAN : Control(valid)) \/ Process \/ Metrics

EngineSpec == EngineInit /\ [][EngineNext]_engineVars

-----------------------------------------------------------------------------

EngineTypeOK ==
  /\ state \in EngineStates \cup {"none"}
  /\ generation \in 0 .. MaxGeneration
  /\ limit \in 0 .. MaxFrames
  /\ counters \in [Counters -> Nat]
  /\ pending \in [Counters -> Nat]
  /\ running \in BOOLEAN
  /\ outcome \in [code : Codes, generation : 0 .. MaxGeneration]
  /\ reading \in BOOLEAN
  /\ DOMAIN seen \subseteq Counters
  /\ seen \in [DOMAIN seen -> Nat]
  /\ reply \in [code : Codes, generation : 0 .. MaxGeneration]
  /\ snapshot \in [code : Codes, metrics : [Counters -> Nat], made : 0 .. MaxCalls,
                   overlapped : BOOLEAN]
  /\ epochs \in Seq(0 .. MaxGeneration)
  /\ made \in 0 .. MaxCalls
  /\ overlapped \in BOOLEAN

\* A handle is prepared exactly when its generation is odd: every stream takes one
\* step of the epoch to begin and one to end.  As UINT64_MAX is odd, it is always
\* a reset that finds the epoch exhausted, and the handle stays Prepared.
EpochParity == Live => (state = "Prepared" <=> generation % 2 = 1)

\* A generation is never handed out twice by a handle, so that a process request
\* kept from an earlier stream never names a later one.
EpochsNeverReused ==
  \A i, j \in DOMAIN epochs : i < j => epochs[i] < epochs[j]

\* The counters lose nothing and count nothing twice: every process call made is
\* in calls or in errors, and every frame taken in was put out, but for what the
\* call that runs has yet to add.
CountersAddUp ==
  LET due == [c \in Counters |-> counters[c] + pending[c]]
  IN  Live => /\ due["calls"] + due["errors"] = made
              /\ due["input"] = due["output"]
              /\ running \/ pending = Zero

\* A metrics call that no process call overlapped is exact, although it loads
\* the counters one at a time.
SnapshotExact ==
  snapshot.code = "Success" /\ ~snapshot.overlapped =>
    /\ snapshot.metrics["calls"] + snapshot.metrics["errors"] = snapshot.made
    /\ snapshot.metrics["input"] = snapshot.metrics["output"]

\* The contract's table: in Prepared only process, reset, metrics and shutdown are
\* allowed, and any other call returns INVALID_STATE.
InfoRefusedWhenPrepared ==
  [][\A valid, room \in BOOLEAN :
       GetEngineInfo(valid, room) /\ state = "Prepared" => reply'.code # "Success"]_engineVars

=============================================================================
