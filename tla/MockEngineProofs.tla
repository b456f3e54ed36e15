-------------------------- MODULE MockEngineProofs --------------------------
(***************************************************************************)
(* The Mock VoiceEngine's epoch and counters, for every greatest           *)
(* generation, buffer and number of calls.  The invariant says where the   *)
(* epoch is (the i-th generation handed out is i), and that a metrics call *)
(* nothing overlaps sees counters that do not move.                        *)
(***************************************************************************)
EXTENDS MockEngine, SequenceTheorems, TLAPS

EpochInv ==
  /\ Len(epochs) = generation
  /\ \A i \in 1 .. generation : epochs[i] = i

\* Calls only run on a live handle, and what they leave due is added in the end.
CallInv ==
  /\ running \/ reading => Live
  /\ running \/ pending = Zero
  /\ running => pending["input"] + counters["input"] = pending["output"] + counters["output"]

\* A metrics call on its own.
ReadInv ==
  reading /\ ~overlapped =>
    ~running /\ \A c \in DOMAIN seen : seen[c] = counters[c]

IInv == EngineTypeOK /\ EpochInv /\ EpochParity /\ CallInv /\ CountersAddUp
        /\ ReadInv /\ SnapshotExact

LEMMA ZeroType == Zero \in [Counters -> Nat] /\ \A c \in Counters : Zero[c] = 0
BY DEF Zero

LEMMA InitInv == EngineInit => IInv
<1> SUFFICES ASSUME EngineInit PROVE IInv
  OBVIOUS
<1>1. EngineTypeOK
  <2>1. /\ Returned("Success") \in [code : Codes, generation : 0 .. MaxGeneration]
        /\ NoMetrics \in [code : Codes, metrics : [Counters -> Nat], made : 0 .. MaxCalls,
                         overlapped : BOOLEAN]
    BY ZeroType, EngineAssumption DEF Returned, Codes, NoMetrics
  <2>2. DOMAIN NothingSeen = {} /\ NothingSeen \in [DOMAIN NothingSeen -> Nat]
    BY DEF NothingSeen
  <2>3. DOMAIN seen \subseteq Counters /\ seen \in [DOMAIN seen -> Nat]
    BY <2>2 DEF EngineInit
  <2>4. outcome = Returned("Success") /\ reply = Returned("Success") /\ snapshot = NoMetrics
    BY DEF EngineInit
  <2>5. 0 \in 0 .. MaxGeneration /\ 0 \in 0 .. MaxFrames /\ 0 \in 0 .. MaxCalls
    BY EngineAssumption
  <2>6. epochs \in Seq(0 .. MaxGeneration)
    BY DEF EngineInit
  <2> QED BY <2>1, <2>3, <2>4, <2>5, <2>6, ZeroType DEF EngineInit, EngineTypeOK
<1>2. EpochInv /\ EpochParity /\ CallInv /\ CountersAddUp /\ ReadInv /\ SnapshotExact
  BY DEF EngineInit, EpochInv, EpochParity, CallInv, CountersAddUp, ReadInv,
         SnapshotExact, Live, NoMetrics
<1> QED BY <1>1, <1>2 DEF IInv

-----------------------------------------------------------------------------

\* What a control does: it runs alone, and touches the counters only to give a new
\* handle its own.
LEMMA InitializeInv == ASSUME IInv, NEW valid \in BOOLEAN, Initialize(valid) PROVE IInv'
<1>1. ~Live /\ ~running /\ ~reading
  BY DEF Initialize, IInv, CallInv
<1>2. UNCHANGED <<pending, running, outcome, reading, seen, overlapped>>
  BY DEF Initialize
<1>3. CASE /\ state' = "Initialized" /\ generation' = 0 /\ limit' = 0 /\ counters' = Zero
           /\ epochs' = <<>> /\ made' = 0 /\ snapshot' = NoMetrics
           /\ reply' = Returned("Success")
  <2>1. EngineTypeOK'
    BY <1>2, <1>3, ZeroType, EngineAssumption
       DEF IInv, EngineTypeOK, EngineStates, Returned, Codes, NoMetrics
  <2>2. pending = Zero
    BY <1>1 DEF IInv, CallInv
  <2>3. EpochInv' /\ EpochParity' /\ CallInv' /\ CountersAddUp' /\ ReadInv' /\ SnapshotExact'
    BY <1>1, <1>2, <1>3, <2>2, ZeroType
       DEF EpochInv, EpochParity, CallInv, CountersAddUp, ReadInv, SnapshotExact, Live,
           NoMetrics, Counters
  <2> QED BY <2>1, <2>3 DEF IInv
<1>4. CASE /\ reply' \in {Returned("InternalError"), Returned("InvalidArgument")}
           /\ UNCHANGED <<handleVars, counters, epochs, made, snapshot>>
  <2>1. EngineTypeOK'
    BY <1>2, <1>4, EngineAssumption DEF IInv, EngineTypeOK, Returned, Codes, handleVars
  <2>2. EpochInv' /\ EpochParity' /\ CallInv' /\ CountersAddUp' /\ ReadInv' /\ SnapshotExact'
    BY <1>2, <1>4
       DEF IInv, EpochInv, EpochParity, CallInv, CountersAddUp, ReadInv, SnapshotExact, Live,
           handleVars
  <2> QED BY <2>1, <2>2 DEF IInv
<1> QED BY <1>3, <1>4 DEF Initialize

\* The controls that neither advance the epoch nor create a handle.
LEMMA PlainControlInv ==
  ASSUME IInv, NEW code \in Codes, reply' = Returned(code), Live, Quiet,
         state' \in {state, "none"}
                    \cup (IF state = "Initialized" THEN {"ModelLoaded"} ELSE {}),
         UNCHANGED <<generation, limit, countVars, readVars, epochs>>
  PROVE  IInv'
<1>1. UNCHANGED <<generation, limit, counters, pending, running, outcome, made, reading,
                  seen, overlapped, snapshot, epochs>>
  BY DEF countVars, readVars
<1>2. ~running /\ ~reading
  BY DEF Quiet
<1>3. EngineTypeOK'
  BY <1>1, EngineAssumption DEF IInv, EngineTypeOK, EngineStates, Returned
<1>4. EpochInv' /\ CallInv' /\ ReadInv' /\ SnapshotExact'
  BY <1>1, <1>2 DEF IInv, EpochInv, CallInv, ReadInv, SnapshotExact
<1>5. EpochParity' /\ CountersAddUp'
  BY <1>1 DEF IInv, EpochParity, CountersAddUp, Live
<1> QED BY <1>3, <1>4, <1>5 DEF IInv

LEMMA AdvanceInv ==
  ASSUME IInv, NEW valid \in BOOLEAN, NEW from, NEW to, Live, Quiet,
         <<from, to>> \in {<<"ModelLoaded", "Prepared">>, <<"Prepared", "ModelLoaded">>},
         AdvanceEpoch(valid, from, to), limit' \in 0 .. MaxFrames,
         UNCHANGED <<countVars, readVars>>
  PROVE  IInv'
<1>1. UNCHANGED <<counters, pending, running, outcome, made, reading, seen, overlapped,
                  snapshot>>
  BY DEF countVars, readVars
<1>2. ~running /\ ~reading
  BY DEF Quiet
<1> DEFINE code == Verdict(valid, state = from /\ CanAdvance)
<1>3. code \in Codes
  BY DEF Verdict, Codes
<1>4. CASE code = "Success"
  <2>1. state = from /\ generation < MaxGeneration
    BY <1>4 DEF Verdict, CanAdvance
  <2>2. NextGeneration = generation + 1 /\ generation \in 0 .. MaxGeneration
    BY <2>1, EngineAssumption DEF NextGeneration, IInv, EngineTypeOK
  <2>3. /\ state' = to /\ generation' = generation + 1
        /\ epochs' = Append(epochs, generation + 1)
        /\ reply' = [Returned(code) EXCEPT !.generation = generation + 1]
    BY <1>4, <2>2 DEF AdvanceEpoch
  <2>4. /\ epochs \in Seq(0 .. MaxGeneration) /\ generation + 1 \in 0 .. MaxGeneration
        /\ Len(epochs) = generation
    BY <2>1, <2>2, EngineAssumption DEF IInv, EngineTypeOK, EpochInv
  <2>5. EpochInv' /\ epochs' \in Seq(0 .. MaxGeneration)
    <3>1. /\ epochs' \in Seq(0 .. MaxGeneration) /\ Len(epochs') = generation + 1
          /\ \A i \in 1 .. generation : epochs'[i] = epochs[i]
          /\ epochs'[generation + 1] = generation + 1
      BY <2>2, <2>3, <2>4, AppendProperties
    <3> QED BY <2>2, <2>3, <3>1 DEF IInv, EpochInv
  <2>6. EngineTypeOK'
    BY <1>1, <1>3, <2>3, <2>4, <2>5 DEF IInv, EngineTypeOK, EngineStates, Returned
  <2>7. EpochParity'
    BY <2>1, <2>2, <2>3 DEF IInv, EpochParity, Live
  <2>8. CallInv' /\ ReadInv' /\ SnapshotExact' /\ CountersAddUp'
    BY <1>1, <1>2 DEF IInv, CallInv, ReadInv, SnapshotExact, CountersAddUp
  <2> QED BY <2>5, <2>6, <2>7, <2>8 DEF IInv
<1>5. CASE code # "Success"
  <2>1. UNCHANGED <<state, generation, epochs>> /\ reply' = Returned(code)
    BY <1>5 DEF AdvanceEpoch
  <2>2. EngineTypeOK'
    BY <1>1, <1>3, <2>1, EngineAssumption DEF IInv, EngineTypeOK, Returned
  <2>3. /\ EpochInv' /\ EpochParity' /\ CallInv' /\ ReadInv' /\ SnapshotExact'
        /\ CountersAddUp'
    BY <1>1, <1>2, <2>1 DEF IInv, EpochInv, EpochParity, CallInv, ReadInv, SnapshotExact,
                            CountersAddUp, Live
  <2> QED BY <2>2, <2>3 DEF IInv
<1> QED BY <1>4, <1>5

LEMMA ControlInv == ASSUME IInv, NEW valid \in BOOLEAN, Control(valid) PROVE IInv'
<1>1. CASE Initialize(valid)
  BY <1>1, InitializeInv
<1>2. CASE Shutdown(valid)
  <2>1. reply' \in {Returned("Success"), Returned("InvalidArgument")}
        /\ state' \in {state, "none"}
    BY <1>2 DEF Shutdown
  <2> QED BY <1>2, <2>1, PlainControlInv DEF Shutdown, Codes
<1>3. CASE LoadModel(valid)
  <2>1. PICK code \in Codes :
          /\ code = Verdict(valid, state = "Initialized")
          /\ reply' = Returned(code)
          /\ state' = IF code = "Success" THEN "ModelLoaded" ELSE state
    BY <1>3 DEF LoadModel, Verdict, Codes
  <2>2. code = "Success" => state = "Initialized"
    BY <2>1 DEF Verdict
  <2> QED BY <1>3, <2>1, <2>2, PlainControlInv DEF LoadModel
<1>4. CASE \E room \in BOOLEAN : GetEngineInfo(valid, room)
  <2>1. PICK room \in BOOLEAN : GetEngineInfo(valid, room)
    BY <1>4
  <2>2. \E code \in Codes : reply' = Returned(code)
    BY <2>1 DEF GetEngineInfo, Codes
  <2>3. state' = state /\ UNCHANGED <<generation, limit, countVars, readVars, epochs>>
    BY <2>1 DEF GetEngineInfo, handleVars
  <2> QED BY <2>1, <2>2, <2>3, PlainControlInv DEF GetEngineInfo
<1>5. CASE Reset(valid)
  <2>1. limit' \in 0 .. MaxFrames
    BY <1>5 DEF Reset, IInv, EngineTypeOK
  <2> QED BY <1>5, <2>1, AdvanceInv DEF Reset
<1>6. CASE \E frames \in 1 .. MaxFrames : PrepareStream(valid, frames)
  <2>1. PICK frames \in 1 .. MaxFrames : PrepareStream(valid, frames)
    BY <1>6
  <2>2. limit' \in 0 .. MaxFrames
    BY <2>1, EngineAssumption DEF PrepareStream, IInv, EngineTypeOK
  <2> QED BY <2>1, <2>2, AdvanceInv DEF PrepareStream
<1> QED BY <1>1, <1>2, <1>3, <1>4, <1>5, <1>6 DEF Control

-----------------------------------------------------------------------------

LEMMA ProcessInv == IInv /\ Process => IInv'
<1> SUFFICES ASSUME IInv, Process PROVE IInv'
  OBVIOUS
<1>1. CASE \E r \in ProcessRequests : ProcessBegins(r)
  <2>1. PICK r \in ProcessRequests : ProcessBegins(r)
    BY <1>1
  <2> DEFINE code == ProcessCode(r)
  <2>2. /\ Live /\ ~running /\ made < MaxCalls /\ running' /\ made' = made + 1
        /\ pending' = Additions(code, r.frames)
        /\ outcome' = [Returned(code) EXCEPT !.generation = IF code = "Success" THEN generation ELSE 0]
        /\ overlapped' = (overlapped \/ reading)
        /\ UNCHANGED <<state, generation, limit, counters, reading, seen, snapshot, reply,
                       epochs>>
        /\ running' = TRUE
    BY <2>1 DEF ProcessBegins, handleVars
  <2>3. code \in Codes /\ r.frames \in Nat
    BY EngineAssumption DEF ProcessCode, Codes, ProcessRequests
  <2>4. /\ pending' \in [Counters -> Nat]
        /\ pending'["calls"] + pending'["errors"] = 1
        /\ pending'["input"] = pending'["output"]
    <3>1. Counters = {"calls", "input", "output", "errors"}
      BY DEF Counters
    <3>2. CASE code = "Success"
      BY <2>2, <2>3, <3>1, <3>2 DEF Additions
    <3>3. CASE code # "Success"
      <4>1. pending' = [Zero EXCEPT !["errors"] = 1]
        BY <2>2, <3>3 DEF Additions
      <4> QED BY <3>1, <4>1, ZeroType
    <3> QED BY <3>2, <3>3
  <2>5. EngineTypeOK'
    <3>1. outcome' \in [code : Codes, generation : 0 .. MaxGeneration]
      <4>1. generation \in 0 .. MaxGeneration /\ 0 \in 0 .. MaxGeneration
        BY EngineAssumption DEF IInv, EngineTypeOK
      <4> DEFINE g == IF code = "Success" THEN generation ELSE 0
      <4>2. g \in 0 .. MaxGeneration
        BY <4>1
      <4>3. outcome' = [code |-> code, generation |-> g]
        BY <2>2 DEF Returned
      <4> QED BY <2>3, <4>2, <4>3
    <3>2. made' \in 0 .. MaxCalls /\ overlapped' \in BOOLEAN
      BY <2>2, EngineAssumption DEF IInv, EngineTypeOK
    <3> QED BY <2>2, <2>4, <3>1, <3>2 DEF IInv, EngineTypeOK
  <2>6. EpochInv' /\ EpochParity' /\ SnapshotExact'
    BY <2>2 DEF IInv, EpochInv, EpochParity, SnapshotExact, Live
  <2>7. pending = Zero /\ counters \in [Counters -> Nat] /\ made \in Nat
    BY <2>2, EngineAssumption DEF IInv, CallInv, EngineTypeOK
  <2>8. /\ counters["calls"] + counters["errors"] = made
        /\ counters["input"] = counters["output"]
    BY <2>2, <2>7, ZeroType DEF IInv, CountersAddUp, Counters
  <2>9. CallInv' /\ CountersAddUp'
    BY <2>2, <2>4, <2>7, <2>8 DEF CallInv, CountersAddUp, Live, Counters
  <2>10. ReadInv'
    BY <2>2 DEF ReadInv
  <2> QED BY <2>5, <2>6, <2>9, <2>10 DEF IInv
<1>2. CASE \E c \in Counters : ProcessCounts(c)
  <2>1. PICK c \in Counters : ProcessCounts(c)
    BY <1>2
  <2>2. /\ running /\ counters' = [counters EXCEPT ![c] = @ + pending[c]]
        /\ pending' = [pending EXCEPT ![c] = 0]
        /\ UNCHANGED <<state, generation, limit, running, outcome, made, reading, seen,
                       overlapped, snapshot, reply, epochs>>
    BY <2>1 DEF ProcessCounts, handleVars, readVars
  <2>3. counters \in [Counters -> Nat] /\ pending \in [Counters -> Nat]
    BY DEF IInv, EngineTypeOK
  <2>4. /\ counters' \in [Counters -> Nat] /\ pending' \in [Counters -> Nat]
        /\ \A d \in Counters : counters'[d] + pending'[d] = counters[d] + pending[d]
    BY <2>2, <2>3
  <2>5. EngineTypeOK'
    BY <2>2, <2>4 DEF IInv, EngineTypeOK
  <2>6. EpochInv' /\ EpochParity' /\ SnapshotExact' /\ ReadInv'
    BY <2>2 DEF IInv, EpochInv, EpochParity, SnapshotExact, ReadInv, Live
  <2>7. CallInv' /\ CountersAddUp'
    BY <2>2, <2>3, <2>4 DEF IInv, CallInv, CountersAddUp, Live, Counters
  <2> QED BY <2>5, <2>6, <2>7 DEF IInv
<1>3. CASE ProcessReturns
  <2>1. /\ running /\ pending = Zero /\ running' = FALSE /\ reply' = outcome
        /\ UNCHANGED <<state, generation, limit, counters, pending, outcome, made, reading,
                       seen, overlapped, snapshot, epochs>>
    BY <1>3 DEF ProcessReturns, handleVars, readVars
  <2>2. EngineTypeOK'
    BY <2>1 DEF IInv, EngineTypeOK
  <2>3. EpochInv' /\ EpochParity' /\ SnapshotExact' /\ ReadInv' /\ CallInv' /\ CountersAddUp'
    BY <2>1 DEF IInv, EpochInv, EpochParity, SnapshotExact, ReadInv, CallInv, CountersAddUp, Live
  <2> QED BY <2>2, <2>3 DEF IInv
<1> QED BY <1>1, <1>2, <1>3 DEF Process

LEMMA MetricsInv == IInv /\ Metrics => IInv'
<1> SUFFICES ASSUME IInv, Metrics PROVE IInv'
  OBVIOUS
<1>1. /\ UNCHANGED <<state, generation, limit, counters, pending, running, outcome, made,
                     reply, epochs>>
  BY DEF Metrics, MetricsBegin, MetricsLoad, MetricsReturn, MetricsRefused, handleVars, countVars
<1>2. EpochInv' /\ EpochParity' /\ CountersAddUp'
  BY <1>1 DEF IInv, EpochInv, EpochParity, CountersAddUp, Live
<1>3. CASE MetricsBegin
  <2>1. /\ Live /\ reading' = TRUE /\ seen' = NothingSeen /\ overlapped' = running
        /\ UNCHANGED snapshot
    BY <1>3 DEF MetricsBegin
  <2>2. EngineTypeOK'
    BY <1>1, <2>1 DEF IInv, EngineTypeOK, NothingSeen
  <2>3. CallInv' /\ ReadInv' /\ SnapshotExact'
    BY <1>1, <2>1 DEF IInv, CallInv, ReadInv, SnapshotExact, Live, NothingSeen
  <2> QED BY <1>2, <2>2, <2>3 DEF IInv
<1>4. CASE \E c \in Counters : MetricsLoad(c)
  <2>1. PICK c \in Counters : MetricsLoad(c)
    BY <1>4
  <2>2. /\ reading
        /\ seen' = [d \in DOMAIN seen \cup {c} |-> IF d = c THEN counters[c] ELSE seen[d]]
        /\ UNCHANGED <<reading, overlapped, snapshot>>
    BY <2>1 DEF MetricsLoad
  <2>3. counters \in [Counters -> Nat] /\ seen \in [DOMAIN seen -> Nat]
        /\ DOMAIN seen \subseteq Counters
    BY DEF IInv, EngineTypeOK
  <2>4. DOMAIN seen' \subseteq Counters /\ seen' \in [DOMAIN seen' -> Nat]
    BY <2>2, <2>3
  <2>5. EngineTypeOK'
    BY <1>1, <2>2, <2>4 DEF IInv, EngineTypeOK
  <2>6. CallInv' /\ ReadInv' /\ SnapshotExact'
    BY <1>1, <2>2 DEF IInv, CallInv, ReadInv, SnapshotExact, Live
  <2> QED BY <1>2, <2>5, <2>6 DEF IInv
<1>5. CASE MetricsReturn
  <2>1. /\ reading /\ DOMAIN seen = Counters /\ reading' = FALSE
        /\ snapshot' = [code |-> "Success", metrics |-> seen, made |-> made,
                        overlapped |-> overlapped]
        /\ UNCHANGED <<seen, overlapped>>
    BY <1>5 DEF MetricsReturn
  <2>2. EngineTypeOK'
    BY <1>1, <2>1 DEF IInv, EngineTypeOK, Codes
  <2>3. CallInv' /\ ReadInv'
    BY <1>1, <2>1 DEF IInv, CallInv, ReadInv, Live
  <2>4. SnapshotExact'
    <3> SUFFICES ASSUME ~overlapped
                 PROVE  seen["calls"] + seen["errors"] = made /\ seen["input"] = seen["output"]
      BY <2>1 DEF SnapshotExact
    <3>1. \A c \in Counters : seen[c] = counters[c]
      BY <2>1 DEF IInv, ReadInv
    <3>2. Live /\ pending = Zero
      BY <2>1 DEF IInv, ReadInv, CallInv
    <3>3. counters \in [Counters -> Nat]
      BY DEF IInv, EngineTypeOK
    <3> QED BY <3>1, <3>2, <3>3, ZeroType DEF IInv, CountersAddUp, Counters
  <2> QED BY <1>2, <2>2, <2>3, <2>4 DEF IInv
<1>6. CASE MetricsRefused
  <2>1. Live /\ ~reading /\ snapshot' = NoMetrics /\ UNCHANGED <<reading, seen, overlapped>>
    BY <1>6 DEF MetricsRefused
  <2>2. EngineTypeOK'
    BY <1>1, <2>1, ZeroType, EngineAssumption DEF IInv, EngineTypeOK, NoMetrics, Codes
  <2>3. CallInv' /\ ReadInv' /\ SnapshotExact'
    BY <1>1, <2>1 DEF IInv, CallInv, ReadInv, SnapshotExact, Live, NoMetrics
  <2> QED BY <1>2, <2>2, <2>3 DEF IInv
<1> QED BY <1>3, <1>4, <1>5, <1>6 DEF Metrics

LEMMA Inductive == IInv /\ [EngineNext]_engineVars => IInv'
<1> SUFFICES ASSUME IInv, [EngineNext]_engineVars PROVE IInv'
  OBVIOUS
<1>1. CASE UNCHANGED engineVars
  <2>1. UNCHANGED <<state, generation, limit, counters, pending, running, outcome, made,
                    reading, seen, overlapped, snapshot, reply, epochs>>
    BY <1>1 DEF engineVars, handleVars, countVars, readVars
  <2>2. EngineTypeOK'
    BY <2>1 DEF IInv, EngineTypeOK
  <2>3. EpochInv' /\ EpochParity' /\ SnapshotExact' /\ ReadInv' /\ CallInv' /\ CountersAddUp'
    BY <2>1 DEF IInv, EpochInv, EpochParity, SnapshotExact, ReadInv, CallInv, CountersAddUp, Live
  <2> QED BY <2>2, <2>3 DEF IInv
<1>2. CASE EngineNext
  BY <1>2, ControlInv, ProcessInv, MetricsInv DEF EngineNext
<1> QED BY <1>1, <1>2

LEMMA Invariance == EngineSpec => []IInv
BY InitInv, Inductive, PTL DEF EngineSpec

-----------------------------------------------------------------------------

\* Every variable of the handle keeps its type; no generation leaves its width.
THEOREM TypeCorrect == EngineSpec => []EngineTypeOK
<1>1. IInv => EngineTypeOK
  BY DEF IInv
<1> QED BY <1>1, Invariance, PTL

\* mock_prepare_stream and mock_reset alternate, each taking one step of the epoch.
THEOREM EpochParityHolds == EngineSpec => []EpochParity
<1>1. IInv => EpochParity
  BY DEF IInv
<1> QED BY <1>1, Invariance, PTL

\* aivs_voice_engine_generation_advance never hands out a generation twice.
THEOREM EpochsNeverReusedHolds == EngineSpec => []EpochsNeverReused
<1>1. IInv => EpochsNeverReused
  BY DEF IInv, EpochInv, EpochsNeverReused, EngineTypeOK
<1> QED BY <1>1, Invariance, PTL

\* mock_process_audio counts every call, and every frame on both sides.
THEOREM CountersAddUpHolds == EngineSpec => []CountersAddUp
<1>1. IInv => CountersAddUp
  BY DEF IInv
<1> QED BY <1>1, Invariance, PTL

\* mock_get_metrics, on its own, reports what was counted.
THEOREM SnapshotExactHolds == EngineSpec => []SnapshotExact
<1>1. IInv => SnapshotExact
  BY DEF IInv
<1> QED BY <1>1, Invariance, PTL

=============================================================================
