------------------------- MODULE VoiceRuntimeProofs -------------------------
(***************************************************************************)
(* The safety properties of the voice-runtime process, for any number of   *)
(* frames.  The invariant places the loop in the stream of requests: what  *)
(* has been answered, what is being sent and what is still in the batch    *)
(* are consecutive, and end at the last frame that was read.               *)
(***************************************************************************)
EXTENDS VoiceRuntime, SequenceTheorems, TLAPS

\* Before Hello there is nothing.
SetupInv ==
  stage \in SetupSet \cup {"hello"} =>
    /\ session = [state |-> "Starting", reason |-> "None"]
    /\ stdout = <<>> /\ ~torn
    /\ batch = <<>> /\ taken = 0 /\ ~partial

ExitInv ==
  /\ exitCode = None <=> stage # "exited"
  /\ stage # "exited" => ~torn
  /\ stage \in {"stdio", "hello", "reading", "dispatching", "sending"} => pipeline # "requested"

\* Nothing is written and no session starts before the whole setup is through.
SetupBeforeHello ==
  /\ session.state # "Starting" \/ stdout # <<>> \/ torn =>
       pipeline # "requested" /\ stage \notin SetupSet
  /\ stage = "exited" /\ session.state = "Starting" => exitCode = 4

\* Running, until a Shutdown is being answered.
SessionInv ==
  /\ stage \in {"reading", "dispatching"} =>
       session = [state |-> "Running", reason |-> "None"]
  /\ stage = "sending" =>
       session = IF response.command = "Shutdown"
                 THEN [state |-> "Stopping", reason |-> "RequestedShutdown"]
                 ELSE [state |-> "Running", reason |-> "None"]

\* The loop's place among the requests.
PlaceInv ==
  /\ Answered <= taken
  /\ stage \in {"reading", "dispatching", "sending"} => stdout # <<>>
  /\ stage = "reading" => taken = Answered
  /\ stage = "dispatching" =>
       /\ Len(batch) = taken - Answered /\ batch # <<>>
       /\ \A k \in 1 .. Len(batch) : batch[k] = Answered + k
  /\ stage = "sending" =>
       /\ Len(batch) = taken - Answered - 1
       /\ \A k \in 1 .. Len(batch) : batch[k] = Answered + 1 + k
       /\ response.kind = "Response"
       /\ response.id = Answered + 1
       /\ response.id <= taken
       /\ response.command = written[Answered + 1]
       /\ response.code \notin {"RuntimeShuttingDown", "RuntimeUnavailable"}
       /\ response.command = "Shutdown" => response.code = "Success"

CutInv == /\ cut => closed /\ written # <<>>
          /\ partial => taken < Len(written)
          /\ taken <= Whole

IInv == /\ TypeOK /\ SetupInv /\ ExitInv /\ SessionInv /\ PlaceInv /\ CutInv
        /\ AnswersInOrder /\ ShutdownIsLast /\ SetupBeforeHello
        /\ ExitVerdict /\ SessionAgrees

-----------------------------------------------------------------------------

LEMMA InitInv == Init => IInv
<1> SUFFICES ASSUME Init PROVE IInv
  OBVIOUS
<1>1. TypeOK
  <2>1. /\ written \in Seq(Inbound) /\ Len(written) = 0
        /\ batch \in Seq(1 .. Len(written)) /\ stdout \in Seq(Sent)
    BY DEF Init
  <2>2. Hello \in Sent
    BY DEF Hello, Sent, Codes
  <2>3. session \in [state : SessionStates, reason : ExitReasons]
    BY DEF Init, SessionStates, ExitReasons, Failures
  <2>4. Len(written) <= MaxFrames /\ taken \in 0 .. Len(written)
    BY <2>1, RuntimeAssumption DEF Init
  <2>5. stage \in Stages
    BY DEF Init, Stages, SetupSet
  <2> QED BY <2>1, <2>2, <2>3, <2>4, <2>5 DEF Init, TypeOK
<1>2. SetupInv /\ ExitInv /\ SessionInv
  BY DEF Init, SetupInv, ExitInv, SessionInv, SetupSet, None
<1>3. PlaceInv /\ CutInv
  <2>1. Len(stdout) = 0 /\ Len(written) = 0
    BY DEF Init
  <2> QED BY <2>1 DEF Init, PlaceInv, CutInv, Whole, Answered
<1>4. AnswersInOrder /\ ShutdownIsLast /\ SetupBeforeHello /\ ExitVerdict /\ SessionAgrees
  BY DEF Init, AnswersInOrder, ShutdownIsLast, SetupBeforeHello, ExitVerdict, SessionAgrees
<1> QED BY <1>1, <1>2, <1>3, <1>4 DEF IInv

\* Nothing on stdout answers a Shutdown while the process runs.
LEMMA NotShutDown ==
  ASSUME IInv, stage # "exited"
  PROVE  \A i \in DOMAIN stdout : stdout[i].command # "Shutdown"
BY DEF IInv, ShutdownIsLast

\* A failure ends the process; what was wrong is what its exit code says.
LEMMA FailsInv ==
  ASSUME IInv, NEW f \in Failures, Fails(f),
         stage \in {"hello", "reading", "dispatching", "sending"},
         UNCHANGED <<peerVars, pipeline, stdout, response>>,
         taken' \in 0 .. Len(written), taken' <= Whole, Answered <= taken',
         partial' \in BOOLEAN, partial' => taken' < Len(written),
         batch' \in Seq(1 .. Len(written)), torn' \in BOOLEAN, UNCHANGED room,
         torn' => f = "OutputFailure",
         f = "OutputFailure" => ~readable,
         f = "ProtocolFailure" =>
           cut \/ \E k \in 1 .. Begun' : written[k] \notin Requests
  PROVE  IInv'
<1>1. /\ stage' = "exited" /\ exitCode' = ExitCode(f)
      /\ session' = [state |-> "Error", reason |-> f]
      /\ UNCHANGED <<written, closed, cut, readable, pipeline, stdout, room, response>>
  BY DEF Fails, MarkFailure, Exit, peerVars
<1>2. /\ ExitCode(f) \in {2, 3, 4}
      /\ ExitCode(f) = 2 <=> f = "ProtocolFailure"
      /\ ExitCode(f) = 3 <=> f = "OutputFailure"
  BY DEF ExitCode, Failures
<1>3. TypeOK'
  <2>1. session' \in [state : SessionStates, reason : ExitReasons]
    BY <1>1 DEF SessionStates, ExitReasons
  <2> QED BY <1>1, <1>2, <2>1 DEF IInv, TypeOK, Stages
<1>4. SetupInv' /\ ExitInv' /\ SessionInv' /\ PlaceInv'
  <2>1. Answered' <= taken'
    BY <1>1 DEF Answered
  <2> QED BY <1>1, <1>2, <2>1 DEF SetupInv, ExitInv, SessionInv, PlaceInv, SetupSet, None
<1>5. CutInv'
  BY <1>1 DEF IInv, CutInv, Whole
<1>6. AnswersInOrder' /\ ShutdownIsLast'
  <2>1. \A i \in DOMAIN stdout : stdout[i].command # "Shutdown"
    BY NotShutDown
  <2> QED BY <1>1, <2>1 DEF IInv, AnswersInOrder, ShutdownIsLast
<1>7. SetupBeforeHello'
  BY <1>1 DEF IInv, ExitInv, SetupBeforeHello, SetupSet
<1>8. ExitVerdict'
  BY <1>1, <1>2 DEF ExitVerdict
<1>9. SessionAgrees'
  BY <1>1 DEF SessionAgrees, Failures
<1> QED BY <1>3, <1>4, <1>5, <1>6, <1>7, <1>8, <1>9 DEF IInv

-----------------------------------------------------------------------------

LEMMA PeerWritesInv == IInv /\ (\E f \in Inbound : PeerWrites(f)) => IInv'
<1> SUFFICES ASSUME IInv, NEW f \in Inbound, PeerWrites(f) PROVE IInv'
  OBVIOUS
<1>1. /\ ~closed /\ written' = Append(written, f) /\ Len(written) < MaxFrames
      /\ UNCHANGED <<closed, cut, readable, stage, pipeline, taken, partial, batch,
                     response, session, stdout, torn, room, exitCode>>
  BY DEF PeerWrites, inputVars, outputVars
<1>2. /\ written' \in Seq(Inbound) /\ Len(written') = Len(written) + 1
      /\ written' # <<>>
      /\ \A k \in 1 .. Len(written) : written'[k] = written[k]
  BY <1>1, AppendProperties DEF IInv, TypeOK
<1>3. TypeOK'
  <2>1. batch' \in Seq(1 .. Len(written'))
    BY <1>1, <1>2 DEF IInv, TypeOK
  <2>2. taken' \in 0 .. Len(written')
    BY <1>1, <1>2 DEF IInv, TypeOK
  <2>3. Len(written') <= MaxFrames
    BY <1>1, <1>2, RuntimeAssumption DEF IInv, TypeOK
  <2> QED BY <1>1, <1>2, <2>1, <2>2, <2>3 DEF IInv, TypeOK
<1>4. SetupInv' /\ ExitInv' /\ SessionInv'
  BY <1>1 DEF IInv, SetupInv, ExitInv, SessionInv
<1>5. PlaceInv'
  <2>1. stage = "sending" => Answered + 1 \in 1 .. Len(written)
    BY DEF IInv, PlaceInv, TypeOK, Answered
  <2> QED BY <1>1, <1>2, <2>1 DEF IInv, PlaceInv, Answered
<1>6. CutInv'
  BY <1>1, <1>2 DEF IInv, CutInv, Whole, TypeOK
<1>7. \A i \in DOMAIN stdout : i # 1 => i - 1 \in 1 .. Len(written)
  <2>1. Len(stdout) - 1 <= Len(written) /\ Len(stdout) \in Nat
    BY DEF IInv, PlaceInv, Answered, TypeOK
  <2> QED BY <2>1 DEF IInv, TypeOK
<1>8. AnswersInOrder'
  BY <1>1, <1>2, <1>7 DEF IInv, AnswersInOrder
<1>9. ShutdownIsLast' /\ SetupBeforeHello' /\ SessionAgrees'
  BY <1>1 DEF IInv, ShutdownIsLast, SetupBeforeHello, SessionAgrees
<1>10. ExitVerdict'
  <2>1. Begun \in Nat /\ Begun <= Len(written) /\ UNCHANGED Begun
    BY <1>1 DEF IInv, TypeOK, CutInv, Begun
  <2>2. \A k \in 1 .. Begun : written'[k] = written[k]
    BY <1>2, <2>1 DEF IInv, TypeOK
  <2> QED BY <1>1, <2>1, <2>2 DEF IInv, ExitVerdict, Answered
<1> QED BY <1>3, <1>4, <1>5, <1>6, <1>8, <1>9, <1>10 DEF IInv

\* The peer's other steps, and a process that has ended, leave the loop alone.
LEMMA PeerEndsInv == IInv /\ (PeerCloses \/ PeerReads \/ PeerClosesStdout) => IInv'
<1> SUFFICES ASSUME IInv, PeerCloses \/ PeerReads \/ PeerClosesStdout PROVE IInv'
  OBVIOUS
<1>1. /\ UNCHANGED <<written, stage, pipeline, taken, partial, batch, response,
                     session, stdout, torn, exitCode>>
      /\ closed => closed'
      /\ readable' => readable
      /\ closed' \in BOOLEAN /\ cut' \in BOOLEAN /\ readable' \in BOOLEAN
      /\ room' \in 0 .. MaxRoom
      /\ cut' => closed' /\ (cut \/ taken < Len(written))
      /\ cut => cut'
      /\ closed => cut' = cut
  <2>1. closed \in BOOLEAN /\ cut \in BOOLEAN /\ readable \in BOOLEAN /\ (cut => closed)
         /\ room \in 0 .. MaxRoom
    BY DEF IInv, TypeOK, CutInv
  <2>2. CASE PeerCloses
    <3>1. /\ UNCHANGED <<written, readable, stage, pipeline, taken, partial, batch,
                         response, session, stdout, torn, room, exitCode>>
          /\ ~closed /\ closed' = TRUE
          /\ cut' = cut \/ (taken < Len(written) /\ cut' = TRUE)
      BY <2>2 DEF PeerCloses, inputVars, outputVars
    <3>2. ~cut
      BY <2>1, <3>1
    <3>3. cut' => taken < Len(written)
      BY <3>1, <3>2
    <3>4. cut' \in BOOLEAN
      BY <2>1, <3>1
    <3> QED BY <2>1, <3>1, <3>2, <3>3, <3>4
  <2>3. CASE PeerClosesStdout
    BY <2>1, <2>3 DEF PeerClosesStdout, inputVars, outputVars, IInv, TypeOK
  <2>4. CASE PeerReads
    <3>1. room' \in 0 .. MaxRoom
      BY <2>4, RuntimeAssumption DEF PeerReads, IInv, TypeOK
    <3> QED BY <2>1, <2>4, <3>1 DEF PeerReads, peerVars, inputVars
  <2> QED BY <2>2, <2>3, <2>4
<1>2. TypeOK' /\ SetupInv' /\ ExitInv' /\ SessionInv'
  BY <1>1 DEF IInv, TypeOK, SetupInv, ExitInv, SessionInv
<1>3. PlaceInv' /\ AnswersInOrder' /\ ShutdownIsLast' /\ SetupBeforeHello' /\ SessionAgrees'
  BY <1>1 DEF IInv, PlaceInv, Answered, AnswersInOrder, ShutdownIsLast,
              SetupBeforeHello, SessionAgrees
<1>4. CutInv'
  BY <1>1 DEF IInv, CutInv, Whole, TypeOK
<1>5. ExitVerdict'
  BY <1>1 DEF IInv, ExitVerdict, Answered, Begun
<1> QED BY <1>2, <1>3, <1>4, <1>5 DEF IInv

LEMMA SetupStepInv == IInv /\ Setup => IInv'
<1> SUFFICES ASSUME IInv, Setup PROVE IInv'
  OBVIOUS
<1>1. /\ stage \in SetupSet
      /\ UNCHANGED <<written, closed, cut, readable, taken, partial, batch, response,
                     session, stdout, torn, room>>
      /\ session = [state |-> "Starting", reason |-> "None"]
      /\ stdout = <<>> /\ ~torn /\ batch = <<>> /\ taken = 0 /\ ~partial
  BY DEF Setup, peerVars, inputVars, outputVars, IInv, SetupInv
<1>2. \/ /\ stage' \in SetupSet \cup {"hello"}
         /\ stage' \in {"stdio", "hello"} => pipeline' # "requested"
         /\ exitCode' = exitCode
      \/ stage' = "exited" /\ exitCode' = 4
  <2>1. CASE Exit(4)
    BY <2>1 DEF Exit
  <2>2. CASE stage' = NextStage(stage) /\ exitCode' = exitCode
    <3>1. stage' \in SetupSet \cup {"hello"} /\ (stage' = "hello" <=> stage = "stdio")
          /\ (stage' = "stdio" <=> stage = "plugin")
      <4>1. stage = "options" => stage' = "logging"
        BY <2>2 DEF NextStage
      <4>2. stage = "logging" => stage' = "plugin"
        BY <2>2 DEF NextStage
      <4>3. stage = "plugin" => stage' = "stdio"
        BY <2>2 DEF NextStage
      <4>4. stage = "stdio" => stage' = "hello"
        BY <2>2 DEF NextStage
      <4> QED BY <1>1, <4>1, <4>2, <4>3, <4>4 DEF SetupSet
    <3>2. stage = "stdio" => pipeline # "requested"
      BY DEF IInv, ExitInv
    <3>3. stage = "stdio" => pipeline' = pipeline
      BY DEF Setup, Exit
    <3>4. stage = "plugin" => pipeline' # "requested"
      BY <2>2, <3>1 DEF Setup, Exit
    <3> QED BY <2>2, <3>1, <3>2, <3>3, <3>4
  <2> QED BY <2>1, <2>2 DEF Setup
<1>3. pipeline' \in {"none", "requested", "ready"}
  BY DEF Setup, IInv, TypeOK
<1>4. TypeOK'
  BY <1>1, <1>2, <1>3 DEF IInv, TypeOK, Stages
<1>5. SetupInv' /\ SessionInv' /\ CutInv'
  BY <1>1, <1>2 DEF IInv, SetupInv, SessionInv, CutInv, Whole, SetupSet
<1>6. ExitInv'
  BY <1>1, <1>2 DEF IInv, ExitInv, SetupSet, None
<1>7. PlaceInv'
  <2>1. Answered' = Answered
    BY <1>1 DEF Answered
  <2> QED BY <1>1, <1>2, <2>1 DEF IInv, PlaceInv, SetupSet
<1>8. AnswersInOrder' /\ ShutdownIsLast' /\ SetupBeforeHello' /\ SessionAgrees'
  BY <1>1, <1>2 DEF AnswersInOrder, ShutdownIsLast, SetupBeforeHello, SessionAgrees,
                    Failures, SetupSet
<1>9. ExitVerdict'
  BY <1>1, <1>2 DEF ExitVerdict, SetupSet
<1> QED BY <1>4, <1>5, <1>6, <1>7, <1>8, <1>9 DEF IInv

\* What a send, of Hello or of a response, leaves if it fails.
LEMMA SendFailsInv ==
  ASSUME IInv, stage \in {"hello", "sending"},
         UNCHANGED <<peerVars, pipeline, inputVars, response>>,
         \/ WriteFails
         \/ Fails("UnexpectedFailure") /\ UNCHANGED outputVars
  PROVE  IInv'
<1>1. /\ taken' \in 0 .. Len(written) /\ taken' <= Whole /\ Answered <= taken'
      /\ partial' \in BOOLEAN /\ (partial' => taken' < Len(written)) /\ batch' \in Seq(1 .. Len(written))
  BY DEF inputVars, IInv, TypeOK, CutInv, PlaceInv
<1>2. UNCHANGED <<peerVars, pipeline, stdout, room, response>>
  BY DEF WriteFails, outputVars
<1>3. CASE WriteFails
  BY <1>1, <1>2, <1>3, FailsInv DEF Failures, WriteFails
<1>4. CASE Fails("UnexpectedFailure") /\ UNCHANGED outputVars
  <2>1. ~torn' /\ torn' \in BOOLEAN
    BY <1>4 DEF IInv, ExitInv, TypeOK, outputVars
  <2>2. "UnexpectedFailure" \in Failures
    BY DEF Failures
  <2>3. stage \in {"hello", "reading", "dispatching", "sending"}
    OBVIOUS
  <2> QED BY <1>1, <1>2, <1>4, <2>1, <2>2, <2>3, FailsInv
<1> QED BY <1>3, <1>4

\* A frame that is written takes its place in the pipe.
LEMMA RoomTaken == ASSUME IInv, NEW frame, Writes(frame) PROVE room' \in 0 .. MaxRoom
BY RuntimeAssumption DEF IInv, TypeOK, Writes

LEMMA StartSessionInv == IInv /\ StartSession => IInv'
<1> SUFFICES ASSUME IInv, StartSession PROVE IInv'
  OBVIOUS
<1>1. /\ stage = "hello" /\ UNCHANGED <<peerVars, pipeline, inputVars, response>>
      /\ stdout = <<>> /\ ~torn /\ batch = <<>> /\ taken = 0 /\ ~partial
      /\ pipeline # "requested" /\ exitCode = None
  BY DEF StartSession, IInv, SetupInv, ExitInv
<1>2. CASE /\ Writes(Hello)
           /\ session' = [state |-> "Running", reason |-> "None"]
           /\ stage' = "reading"
           /\ UNCHANGED exitCode
  <2>1. UNCHANGED <<written, closed, cut, readable, pipeline, taken, partial, batch, response>>
    BY <1>1 DEF peerVars, inputVars
  <2>2. stdout' = <<Hello>> /\ Len(stdout') = 1 /\ stdout' \in Seq(Sent) /\ stdout' # <<>>
    <3>1. Hello \in Sent
      BY DEF Hello, Sent, Codes
    <3> QED BY <1>1, <1>2, <3>1 DEF Writes
  <2>3. TypeOK'
    <3>1. session' \in [state : SessionStates, reason : ExitReasons]
      BY <1>2 DEF SessionStates, ExitReasons
    <3>2. room' \in 0 .. MaxRoom /\ torn' = torn
      BY <1>2, RoomTaken DEF Writes
    <3> QED BY <1>2, <2>1, <2>2, <3>1, <3>2 DEF IInv, TypeOK, Stages
  <2>4. SetupInv' /\ ExitInv' /\ SessionInv' /\ CutInv'
    BY <1>1, <1>2, <2>1 DEF Writes, IInv, SetupInv, ExitInv, SessionInv, CutInv, Whole, SetupSet, None
  <2>5. PlaceInv'
    BY <1>1, <1>2, <2>1, <2>2 DEF PlaceInv, Answered
  <2>6. AnswersInOrder' /\ ShutdownIsLast'
    BY <2>2 DEF AnswersInOrder, ShutdownIsLast, Hello
  <2>7. SetupBeforeHello' /\ ExitVerdict' /\ SessionAgrees'
    BY <1>1, <1>2, <2>1 DEF SetupBeforeHello, ExitVerdict, SessionAgrees, SetupSet
  <2> QED BY <2>3, <2>4, <2>5, <2>6, <2>7 DEF IInv
<1>3. CASE WriteFails \/ (Fails("UnexpectedFailure") /\ UNCHANGED outputVars)
  BY <1>1, <1>3, SendFailsInv
<1> QED BY <1>2, <1>3 DEF StartSession

LEMMA ReadInv == IInv /\ Reads => IInv'
<1> SUFFICES ASSUME IInv, NEW n \in 0 .. MaxFrames, NEW more \in BOOLEAN, Read(n, more)
             PROVE  IInv'
  BY DEF Reads
<1>1. /\ stage = "reading"
      /\ UNCHANGED <<written, closed, cut, readable, pipeline, response, stdout, torn, room>>
      /\ taken' = taken + n /\ taken + n <= Whole /\ partial' = more
      /\ more => taken + n < Len(written)
      /\ taken = Answered /\ n \in Nat /\ taken \in Nat
      /\ session = [state |-> "Running", reason |-> "None"]
      /\ stdout # <<>> /\ ~torn /\ exitCode = None /\ pipeline # "requested"
  BY RuntimeAssumption
     DEF Read, peerVars, outputVars, IInv, TypeOK, PlaceInv, SessionInv, ExitInv
<1>2. /\ Whole \in Int /\ Whole <= Len(written) /\ Len(written) \in Nat
      /\ taken' \in 0 .. Len(written) /\ Answered \in Int
  BY <1>1 DEF Whole, IInv, TypeOK, Answered
<1>3. CASE /\ \E k \in taken + 1 .. Begun' : written[k] = "malformed"
           /\ Fails("ProtocolFailure") /\ UNCHANGED batch
  <2>1. Fails("ProtocolFailure") /\ UNCHANGED batch
    BY <1>3
  <2>2. PICK k \in taken + 1 .. Begun' : written[k] = "malformed"
    BY <1>3
  <2>3. k \in 1 .. Begun' /\ written[k] \notin Requests
    BY <1>1, <2>2 DEF Requests, Begun
  <2>4. batch' \in Seq(1 .. Len(written)) /\ torn' \in BOOLEAN /\ ~torn'
    BY <1>1, <2>1 DEF IInv, TypeOK
  <2>5. UNCHANGED <<peerVars, pipeline, stdout, response>>
    BY <1>1 DEF peerVars
  <2>6. Answered <= taken' /\ taken' <= Whole /\ (partial' => taken' < Len(written))
    BY <1>1, <1>2
  <2> QED BY <1>1, <1>2, <2>1, <2>3, <2>4, <2>5, <2>6, FailsInv DEF Failures
<1>4. CASE /\ batch' = [k \in 1 .. n |-> taken + k]
           /\ stage' = IF n = 0 THEN "reading" ELSE "dispatching"
           /\ UNCHANGED <<session, exitCode>>
  <2>1. /\ batch' = [k \in 1 .. n |-> taken + k]
        /\ stage' = IF n = 0 THEN "reading" ELSE "dispatching"
        /\ UNCHANGED <<session, exitCode>>
    BY <1>4
  <2>2. batch' \in Seq(1 .. Len(written)) /\ Len(batch') = n
        /\ \A k \in 1 .. n : batch'[k] = taken + k
    <3>1. \A k \in 1 .. n : taken + k \in 1 .. Len(written)
      BY <1>1, <1>2
    <3>2. batch' \in [1 .. n -> 1 .. Len(written)]
      BY <2>1, <3>1
    <3> QED BY <1>1, <2>1, <3>2
  <2>3. TypeOK'
    BY <1>1, <1>2, <2>1, <2>2 DEF IInv, TypeOK, Stages
  <2>4. SetupInv' /\ ExitInv' /\ SessionInv'
    BY <1>1, <2>1 DEF IInv, SetupInv, ExitInv, SessionInv, SetupSet
  <2>5. PlaceInv'
    <3>1. Answered' = Answered
      BY <1>1 DEF Answered
    <3>2. n = 0 => taken' = Answered
      BY <1>1
    <3>3. n # 0 => batch' # <<>>
      BY <2>2
    <3>4. taken' - Answered = n /\ Answered <= taken'
      BY <1>1, <1>2
    <3> QED BY <1>1, <2>1, <2>2, <3>1, <3>2, <3>3, <3>4 DEF PlaceInv
  <2>6. CutInv'
    BY <1>1 DEF IInv, CutInv, Whole
  <2>7. AnswersInOrder' /\ ShutdownIsLast'
    BY <1>1, <2>1, NotShutDown DEF IInv, AnswersInOrder, ShutdownIsLast
  <2>8. SetupBeforeHello' /\ ExitVerdict' /\ SessionAgrees'
    BY <1>1, <2>1 DEF SetupBeforeHello, ExitVerdict, SessionAgrees, SetupSet
  <2> QED BY <2>3, <2>4, <2>5, <2>6, <2>7, <2>8 DEF IInv
<1> QED BY <1>3, <1>4 DEF Read

\* Failures of the loop that read nothing and write nothing.
LEMMA LoopFailsInv ==
  ASSUME IInv, NEW f \in {"ProtocolFailure", "UnexpectedFailure"}, Fails(f),
         stage \in {"reading", "dispatching"},
         UNCHANGED <<peerVars, pipeline, inputVars, response, outputVars>>,
         f = "ProtocolFailure" =>
           cut \/ \E k \in 1 .. Begun : written[k] \notin Requests
  PROVE  IInv'
<1>1. /\ taken' \in 0 .. Len(written) /\ taken' <= Whole /\ Answered <= taken'
      /\ partial' \in BOOLEAN /\ (partial' => taken' < Len(written)) /\ batch' \in Seq(1 .. Len(written))
  BY DEF inputVars, IInv, TypeOK, CutInv, PlaceInv
<1>2. ~torn' /\ torn' \in BOOLEAN /\ Begun' = Begun
  BY DEF outputVars, inputVars, IInv, ExitInv, TypeOK, Begun
<1>3. UNCHANGED <<peerVars, pipeline, stdout, room, response>>
  BY DEF outputVars
<1>4. f \in Failures /\ f # "OutputFailure"
  BY DEF Failures
<1> QED BY <1>1, <1>2, <1>3, <1>4, FailsInv

LEMMA EofInv == IInv /\ Eof => IInv'
<1> SUFFICES ASSUME IInv, Eof PROVE IInv'
  OBVIOUS
<1>1. /\ stage = "reading" /\ closed /\ taken = Whole /\ (cut => partial)
      /\ UNCHANGED <<peerVars, pipeline, inputVars, response, outputVars>>
      /\ UNCHANGED <<written, closed, cut, readable, pipeline, taken, partial, batch,
                     response, stdout, torn, room>>
      /\ session = [state |-> "Running", reason |-> "None"]
      /\ taken = Answered /\ pipeline # "requested" /\ ~torn /\ stdout # <<>>
  BY DEF Eof, AtEof, peerVars, inputVars, outputVars, IInv, PlaceInv, SessionInv, ExitInv
<1>2. CASE ~partial
  <2>1. /\ stage' = "exited" /\ exitCode' = 0
        /\ session' = [state |-> "Stopped", reason |-> "CleanEof"]
    BY <1>1, <1>2 DEF Eof, MarkCleanEof, Exit
  <2>2. ~cut /\ Answered = Len(written)
    BY <1>1, <1>2 DEF Whole
  <2>3. TypeOK'
    <3>1. session' \in [state : SessionStates, reason : ExitReasons]
      BY <2>1 DEF SessionStates, ExitReasons
    <3> QED BY <1>1, <2>1, <3>1 DEF IInv, TypeOK, Stages
  <2>4. SetupInv' /\ ExitInv' /\ SessionInv' /\ CutInv'
    BY <1>1, <2>1 DEF IInv, SetupInv, ExitInv, SessionInv, CutInv, Whole, SetupSet, None
  <2>5. PlaceInv'
    BY <1>1, <2>1 DEF IInv, PlaceInv, Answered
  <2>6. AnswersInOrder' /\ ShutdownIsLast'
    BY <1>1, NotShutDown DEF IInv, AnswersInOrder, ShutdownIsLast
  <2>7. SetupBeforeHello' /\ SessionAgrees'
    <3>1. session'.state = "Stopped" /\ session'.reason = "CleanEof"
      BY <2>1
    <3>2. SetupBeforeHello'
      BY <1>1, <2>1, <3>1 DEF SetupBeforeHello, SetupSet
    <3>3. SessionAgrees'
      BY <2>1, <3>1 DEF SessionAgrees, Failures
    <3> QED BY <3>2, <3>3
  <2>8. ExitVerdict'
    <3>1. closed' /\ ~cut' /\ Answered' = Len(written') /\ ~torn' /\ exitCode' = 0
      BY <1>1, <2>1, <2>2 DEF Answered
    <3> QED BY <3>1 DEF ExitVerdict
  <2> QED BY <2>3, <2>4, <2>5, <2>6, <2>7, <2>8 DEF IInv
<1>3. CASE partial
  <2>1. cut
    BY <1>1, <1>3 DEF Whole, IInv, CutInv
  <2>2. Fails("ProtocolFailure")
    BY <1>3 DEF Eof
  <2> QED BY <1>1, <2>1, <2>2, LoopFailsInv
<1> QED BY <1>2, <1>3

\* The code of a response sent by a running session.
LEMMA RunningCodes ==
  ASSUME session.state = "Running", NEW command, NEW code \in CodesFor(command)
  PROVE  /\ code \in Codes /\ code \notin {"RuntimeShuttingDown", "RuntimeUnavailable"}
         /\ command = "Shutdown" => code = "Success"
<1>1. CodesFor(command) = IF command = "RunMockPipeline" THEN RunCodes ELSE {"Success"}
  BY DEF CodesFor
<1>2. RunCodes \subseteq {"Success", "EngineFailure", "EngineUnavailable"}
  BY DEF RunCodes
<1>3. code \in {"Success", "EngineFailure", "EngineUnavailable"}
      /\ (command = "Shutdown" => code = "Success")
  BY <1>1, <1>2
<1> QED BY <1>3 DEF Codes

LEMMA DispatchInv == IInv /\ (Dispatch \/ DispatchThrows) => IInv'
<1> SUFFICES ASSUME IInv, Dispatch \/ DispatchThrows PROVE IInv'
  OBVIOUS
<1> DEFINE id == Head(batch)
           command == written[id]
<1>1. /\ stage = "dispatching" /\ stdout # <<>> /\ exitCode = None
      /\ session = [state |-> "Running", reason |-> "None"]
      /\ batch # <<>> /\ Len(batch) = taken - Answered
      /\ \A k \in 1 .. Len(batch) : batch[k] = Answered + k
      /\ batch \in Seq(1 .. Len(written)) /\ written \in Seq(Inbound)
      /\ taken \in 0 .. Len(written) /\ Answered \in Int /\ Len(stdout) \in Nat
      /\ pipeline # "requested" /\ ~torn
  <2>1. stage = "dispatching"
    BY DEF Dispatch, DispatchThrows
  <2> QED BY <2>1 DEF IInv, TypeOK, PlaceInv, SessionInv, ExitInv, Answered
<1>2. id = Answered + 1 /\ id \in 1 .. Len(written) /\ id <= taken
      /\ id \in 1 .. taken /\ command \in Inbound
  <2>1. Head(batch) = batch[1] /\ Len(batch) >= 1 /\ Len(batch) \in Nat
    BY <1>1
  <2>2. id = Answered + 1 /\ id \in 1 .. Len(written)
    BY <1>1, <2>1
  <2> QED BY <1>1, <2>1, <2>2
<1>3. CASE DispatchThrows
  BY <1>1, <1>3, LoopFailsInv DEF DispatchThrows
<1>4. CASE Dispatch /\ command \notin Requests
  <2>1. /\ Fails("ProtocolFailure")
        /\ UNCHANGED <<peerVars, pipeline, inputVars, response, outputVars>>
    BY <1>4 DEF Dispatch, inputVars
  <2>2. \E k \in 1 .. Begun : written[k] \notin Requests
    BY <1>1, <1>2, <1>4 DEF IInv, TypeOK, Begun
  <2> QED BY <1>1, <2>1, <2>2, LoopFailsInv
<1>5. CASE Dispatch /\ command \in Requests
  <2>1. PICK code \in CodesFor(command) :
          response' = [kind |-> "Response", id |-> id, command |-> command, code |-> code]
    BY <1>5 DEF Dispatch
  <2>2. /\ session' = IF command = "Shutdown"
                      THEN [state |-> "Stopping", reason |-> "RequestedShutdown"]
                      ELSE session
        /\ stage' = "sending" /\ batch' = Tail(batch)
        /\ UNCHANGED <<written, closed, cut, readable, pipeline, taken, partial,
                       stdout, torn, room, exitCode>>
    BY <1>1, <1>5 DEF Dispatch, peerVars, outputVars
  <2>3. code \in Codes /\ code \notin {"RuntimeShuttingDown", "RuntimeUnavailable"}
        /\ (command = "Shutdown" => code = "Success")
    <3>1. session.state = "Running"
      BY <1>1
    <3> HIDE DEF command
    <3> QED BY <3>1, <2>1, RunningCodes
  <2>4. batch' \in Seq(1 .. Len(written)) /\ Len(batch') = Len(batch) - 1
        /\ \A k \in 1 .. Len(batch') : batch'[k] = batch[k + 1]
    BY <1>1, <2>2
  <2>5. Answered' = Answered /\ response' \in Sent
    <3>1. id \in Nat
      BY <1>2
    <3> QED BY <1>5, <2>1, <2>2, <2>3, <3>1 DEF Answered, Sent
  <2>6. TypeOK'
    <3>1. session' \in [state : SessionStates, reason : ExitReasons]
      BY <1>1, <2>2 DEF SessionStates, ExitReasons
    <3> QED BY <2>2, <2>4, <2>5, <3>1 DEF IInv, TypeOK, Stages
  <2>7. SetupInv' /\ ExitInv' /\ CutInv'
    BY <1>1, <2>2 DEF IInv, SetupInv, ExitInv, CutInv, Whole, SetupSet
  <2>8. SessionInv'
    BY <1>1, <2>1, <2>2 DEF SessionInv
  <2>9. PlaceInv'
    <3>1. Len(batch') = taken' - Answered' - 1
      BY <1>1, <2>2, <2>4, <2>5
    <3>2. \A k \in 1 .. Len(batch') : batch'[k] = Answered' + 1 + k
      BY <1>1, <2>4, <2>5
    <3>3. /\ response'.kind = "Response" /\ response'.id = Answered' + 1
          /\ response'.id <= taken' /\ response'.command = written'[Answered' + 1]
          /\ response'.code = code
          /\ response'.command = command
      BY <1>2, <2>1, <2>2, <2>5
    <3>4. Answered' <= taken'
      BY <2>2, <2>5 DEF IInv, PlaceInv
    <3> HIDE DEF command
    <3> QED BY <1>1, <2>2, <2>3, <3>1, <3>2, <3>3, <3>4 DEF PlaceInv
  <2>10. AnswersInOrder' /\ ShutdownIsLast'
    BY <1>1, <2>2, NotShutDown DEF IInv, AnswersInOrder, ShutdownIsLast
  <2>11. SetupBeforeHello' /\ ExitVerdict' /\ SessionAgrees'
    BY <1>1, <2>2 DEF SetupBeforeHello, ExitVerdict, SessionAgrees, SetupSet
  <2> QED BY <2>6, <2>7, <2>8, <2>9, <2>10, <2>11 DEF IInv
<1> QED BY <1>3, <1>4, <1>5

LEMMA SendInv == IInv /\ Send => IInv'
<1> SUFFICES ASSUME IInv, Send PROVE IInv'
  OBVIOUS
<1>1. /\ stage = "sending" /\ UNCHANGED <<peerVars, pipeline, inputVars, response>>
      /\ UNCHANGED <<written, closed, cut, readable, pipeline, taken, partial, batch, response>>
      /\ stdout # <<>> /\ exitCode = None /\ pipeline # "requested" /\ ~torn
      /\ taken \in 0 .. Len(written) /\ Answered <= taken
      /\ stdout \in Seq(Sent) /\ response \in Sent /\ Len(stdout) \in Nat
      /\ Answered = Len(stdout) - 1
      /\ batch \in Seq(1 .. Len(written)) /\ Len(batch) = taken - Answered - 1
      /\ \A k \in 1 .. Len(batch) : batch[k] = Answered + 1 + k
      /\ response.kind = "Response" /\ response.id = Answered + 1
      /\ response.id <= taken /\ response.command = written[Answered + 1]
      /\ response.code \notin {"RuntimeShuttingDown", "RuntimeUnavailable"}
      /\ response.command = "Shutdown" => response.code = "Success"
      /\ session = IF response.command = "Shutdown"
                   THEN [state |-> "Stopping", reason |-> "RequestedShutdown"]
                   ELSE [state |-> "Running", reason |-> "None"]
  <2>1. stage = "sending"
    BY DEF Send
  <2>2. UNCHANGED <<peerVars, pipeline, inputVars, response>>
    BY DEF Send
  <2>3. UNCHANGED <<written, closed, cut, readable, pipeline, taken, partial, batch, response>>
    BY <2>2 DEF peerVars, inputVars
  <2>4. /\ stdout # <<>> /\ exitCode = None /\ pipeline # "requested" /\ ~torn
        /\ taken \in 0 .. Len(written) /\ Answered <= taken
        /\ stdout \in Seq(Sent) /\ response \in Sent /\ Len(stdout) \in Nat
        /\ Answered = Len(stdout) - 1 /\ batch \in Seq(1 .. Len(written))
    BY <2>1 DEF IInv, TypeOK, PlaceInv, ExitInv, Answered
  <2> QED BY <2>1, <2>2, <2>3, <2>4 DEF IInv, PlaceInv, SessionInv
<1>2. CASE /\ Writes(response)
           /\ IF response.command = "Shutdown" /\ response.code = "Success"
              THEN MarkShutdownResponseWritten /\ Exit(0)
              ELSE Continue
  <2>1. /\ stdout' \in Seq(Sent) /\ Len(stdout') = Len(stdout) + 1 /\ stdout' # <<>>
        /\ \A i \in 1 .. Len(stdout) : stdout'[i] = stdout[i]
        /\ stdout'[Len(stdout')] = response /\ stdout'[Len(stdout) + 1] = response
    BY <1>1, <1>2, AppendProperties DEF Writes
  <2>2. Answered' = Answered + 1 /\ Answered' = response.id /\ Answered' <= taken'
    BY <1>1, <2>1 DEF Answered
  <2>3. AnswersInOrder'
    <3>1. SUFFICES ASSUME NEW i \in DOMAIN stdout'
                   PROVE  IF i = 1 THEN stdout'[i] = Hello
                          ELSE /\ stdout'[i].kind = "Response"
                               /\ stdout'[i].id = i - 1
                               /\ stdout'[i].command = written[i - 1]
      BY <1>1 DEF AnswersInOrder
    <3>2. i \in 1 .. Len(stdout) + 1
      BY <2>1
    <3>3. CASE i \in 1 .. Len(stdout)
      BY <2>1, <3>3 DEF IInv, AnswersInOrder
    <3>4. CASE i = Len(stdout) + 1
      <4>1. i # 1 /\ i - 1 = Answered + 1
        BY <1>1, <3>4
      <4> QED BY <1>1, <2>1, <3>4, <4>1
    <3> QED BY <3>2, <3>3, <3>4, <1>1
  <2>4. \A i \in DOMAIN stdout' :
          /\ stdout'[i].command = "Shutdown" =>
               i = Len(stdout') /\ response.command = "Shutdown"
          /\ stdout'[i].code \notin {"RuntimeShuttingDown", "RuntimeUnavailable"}
    <3>1. SUFFICES ASSUME NEW i \in DOMAIN stdout'
                   PROVE  /\ stdout'[i].command = "Shutdown" =>
                               i = Len(stdout') /\ response.command = "Shutdown"
                          /\ stdout'[i].code \notin {"RuntimeShuttingDown", "RuntimeUnavailable"}
      OBVIOUS
    <3>2. i \in 1 .. Len(stdout) + 1
      BY <2>1
    <3>3. CASE i \in 1 .. Len(stdout)
      BY <1>1, <2>1, <3>3, NotShutDown DEF IInv, ShutdownIsLast
    <3>4. CASE i = Len(stdout) + 1
      BY <1>1, <2>1, <3>4
    <3> QED BY <1>1, <3>2, <3>3, <3>4
  <2>10. room' \in 0 .. MaxRoom /\ UNCHANGED torn
    BY <1>2, RoomTaken DEF Writes
  <2>5. CASE response.command = "Shutdown"
    <3>1. /\ stage' = "exited" /\ exitCode' = 0
          /\ session' = [state |-> "Stopped", reason |-> "RequestedShutdown"]
      BY <1>1, <1>2, <2>5 DEF MarkShutdownResponseWritten, Exit
    <3>2. session'.state = "Stopped" /\ session'.reason = "RequestedShutdown"
      BY <3>1
    <3>3. TypeOK'
      <4>1. session' \in [state : SessionStates, reason : ExitReasons]
        BY <3>1 DEF SessionStates, ExitReasons
      <4> QED BY <1>1, <2>1, <2>10, <3>1, <4>1 DEF IInv, TypeOK, Stages
    <3>4. SetupInv' /\ ExitInv' /\ SessionInv' /\ CutInv'
      BY <1>1, <3>1 DEF IInv, SetupInv, ExitInv, SessionInv, CutInv, Whole, SetupSet, None
    <3>5. PlaceInv'
      BY <2>2, <3>1 DEF PlaceInv
    <3>6. ShutdownIsLast'
      <4>1. ~torn'
        BY <1>1, <2>10
      <4> QED BY <2>4, <3>1, <4>1 DEF ShutdownIsLast
    <3>7. SetupBeforeHello'
      BY <1>1, <3>1, <3>2 DEF SetupBeforeHello, SetupSet
    <3>8. ExitVerdict'
      <4>1. ~torn'
        BY <1>1, <2>10
      <4>2. stdout'[Len(stdout')].command = "Shutdown" /\ exitCode' = 0
        BY <2>1, <2>5, <3>1
      <4> QED BY <4>1, <4>2 DEF ExitVerdict
    <3>9. SessionAgrees'
      BY <3>1, <3>2 DEF SessionAgrees, Failures
    <3> QED BY <2>3, <3>3, <3>4, <3>5, <3>6, <3>7, <3>8, <3>9 DEF IInv
  <2>6. CASE response.command # "Shutdown"
    <3>1. /\ stage' = IF batch = <<>> THEN "reading" ELSE "dispatching"
          /\ UNCHANGED <<session, exitCode, torn>>
      BY <1>2, <2>6, <2>10 DEF Continue
    <3>2. session = [state |-> "Running", reason |-> "None"]
      BY <1>1, <2>6
    <3>3. TypeOK'
      BY <1>1, <2>1, <2>10, <3>1 DEF IInv, TypeOK, Stages
    <3>4. SetupInv' /\ ExitInv' /\ SessionInv' /\ CutInv'
      BY <1>1, <3>1, <3>2 DEF IInv, SetupInv, ExitInv, SessionInv, CutInv, Whole, SetupSet, None
    <3>5. PlaceInv'
      <4>1. batch = <<>> => taken' = Answered'
        BY <1>1, <2>2
      <4>2. Len(batch') = taken' - Answered'
        BY <1>1, <2>2
      <4>3. \A k \in 1 .. Len(batch') : batch'[k] = Answered' + k
        BY <1>1, <2>2
      <4> QED BY <1>1, <2>1, <2>2, <3>1, <4>1, <4>2, <4>3 DEF PlaceInv
    <3>6. ShutdownIsLast'
      BY <2>4, <2>6 DEF ShutdownIsLast
    <3>7. SetupBeforeHello' /\ ExitVerdict' /\ SessionAgrees'
      BY <1>1, <3>1 DEF SetupBeforeHello, ExitVerdict, SessionAgrees, SetupSet
    <3> QED BY <2>3, <3>3, <3>4, <3>5, <3>6, <3>7 DEF IInv
  <2> QED BY <2>5, <2>6
<1>3. CASE WriteFails \/ (Fails("UnexpectedFailure") /\ UNCHANGED outputVars)
  BY <1>1, <1>3, SendFailsInv
<1> QED BY <1>2, <1>3 DEF Send

LEMMA Inductive == IInv /\ [Next]_vars => IInv'
<1> SUFFICES ASSUME IInv, [Next]_vars PROVE IInv'
  OBVIOUS
<1>1. CASE UNCHANGED vars
  <2>1. /\ UNCHANGED <<written, closed, cut, readable, stage, pipeline, taken, partial>>
        /\ UNCHANGED <<batch, response, session, stdout, torn, room, exitCode>>
    BY <1>1 DEF vars, peerVars, inputVars, outputVars
  <2>2. TypeOK'
    BY <2>1 DEF IInv, TypeOK
  <2>3. SetupInv' /\ ExitInv' /\ SessionInv'
    BY <2>1 DEF IInv, SetupInv, ExitInv, SessionInv
  <2>4. PlaceInv' /\ CutInv'
    BY <2>1 DEF IInv, PlaceInv, CutInv, Whole, Answered
  <2>5. AnswersInOrder' /\ ShutdownIsLast'
    BY <2>1 DEF IInv, AnswersInOrder, ShutdownIsLast
  <2>6. SetupBeforeHello' /\ ExitVerdict' /\ SessionAgrees'
    BY <2>1 DEF IInv, SetupBeforeHello, ExitVerdict, SessionAgrees, Answered, Begun
  <2> QED BY <2>2, <2>3, <2>4, <2>5, <2>6 DEF IInv
<1>2. CASE ReadFails
  <2>1. stage = "reading" /\ Fails("UnexpectedFailure")
        /\ UNCHANGED <<peerVars, pipeline, inputVars, response, outputVars>>
    BY <1>2 DEF ReadFails
  <2> QED BY <2>1, LoopFailsInv
<1>3. CASE Next /\ ~ReadFails
  BY <1>3, PeerWritesInv, PeerEndsInv, SetupStepInv, StartSessionInv, ReadInv, EofInv,
     DispatchInv, SendInv DEF Next, Runtime
<1> QED BY <1>1, <1>2, <1>3

LEMMA Invariance == Spec => []IInv
BY InitInv, Inductive, PTL DEF Spec

-----------------------------------------------------------------------------

\* Every variable of the process keeps its type.
THEOREM TypeCorrect == Spec => []TypeOK
<1>1. IInv => TypeOK
  BY DEF IInv
<1> QED BY <1>1, Invariance, PTL

\* run_stdio answers the requests in order, once each, however they were cut into
\* reads and whenever the peer goes away.
THEOREM AnswersInOrderHolds == Spec => []AnswersInOrder
<1>1. IInv => AnswersInOrder
  BY DEF IInv
<1> QED BY <1>1, Invariance, PTL

\* After the response to Shutdown nothing follows but exit code 0, and the state
\* errors of Session::handle are never sent by the process.
THEOREM ShutdownIsLastHolds == Spec => []ShutdownIsLast
<1>1. IInv => ShutdownIsLast
  BY DEF IInv
<1> QED BY <1>1, Invariance, PTL

\* Each exit code of run_stdio means what the contract of the process says.
THEOREM ExitVerdictHolds == Spec => []ExitVerdict
<1>1. IInv => ExitVerdict
  BY DEF IInv
<1> QED BY <1>1, Invariance, PTL

\* The last snapshot of the session and the exit code agree, and a setup that fails
\* leaves no byte on stdout.
THEOREM SessionAgreesHolds == Spec => []SessionAgrees
<1>1. IInv => SessionAgrees
  BY DEF IInv
<1> QED BY <1>1, Invariance, PTL

=============================================================================
