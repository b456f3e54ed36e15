---------------------------- MODULE VoiceRuntime ----------------------------
(***************************************************************************)
(* The voice-runtime process: its setup, the Session state machine and the *)
(* stdio loop that reads requests, dispatches them one by one and writes   *)
(* the responses, up to its exit code.  One thread; what interleaves is    *)
(* the peer, which writes, reads and closes either pipe whenever it likes, *)
(* or never.  A write to stdout waits while the pipe is full.  The i-th    *)
(* frame the peer writes has request ID i.                                 *)
(***************************************************************************)
EXTENDS Integers, Sequences

CONSTANTS
  MaxFrames,  \* bound of the model: frames the peer writes
  MaxRoom     \* bound of the model: frames stdout takes that the peer has not read

ASSUME RuntimeAssumption == MaxFrames \in Nat /\ MaxRoom \in Nat \ {0}

Requests == {"Ping", "GetCapabilities", "RunMockPipeline", "Shutdown"}

\* A frame may also decode to a Hello or a Response, or not decode at all.
Inbound == Requests \cup {"wrong_direction", "malformed"}

Codes == {"Success", "EngineUnavailable", "EngineFailure",
          "RuntimeShuttingDown", "RuntimeUnavailable"}
Sent == [kind : {"Hello", "Response"}, id : Nat, command : Requests \cup {"None"},
         code : Codes]
Hello == [kind |-> "Hello", id |-> 0, command |-> "None", code |-> "Success"]

SessionStates == {"Starting", "Running", "Stopping", "Stopped", "Error"}
Failures == {"ProtocolFailure", "OutputFailure", "UnexpectedFailure"}
ExitReasons == {"None", "CleanEof", "RequestedShutdown"} \cup Failures

\* ProcessExitCode, with none for a process that is still running.
None == -1
ExitCode(failure) ==
  CASE failure = "ProtocolFailure" -> 2
    [] failure = "OutputFailure" -> 3
    [] failure = "UnexpectedFailure" -> 4

\* The setup in order, then the loop.
SetupSet == {"options", "logging", "plugin", "stdio"}
Stages == SetupSet \cup {"hello", "reading", "dispatching", "sending", "exited"}

VARIABLES
  written, closed, cut,   \* the peer: frames written; no more; the last is incomplete
  readable,               \* the peer still has its end of stdout
  stage,
  pipeline,               \* PipelineService: none, requested, ready
  taken, partial,         \* frames read whole; the start of the next one too
  batch,                  \* decoded frames of this read, by ID
  response,               \* the frame being sent
  session,                \* SessionSnapshot
  stdout, torn,           \* whole frames written; a piece of one after them
  room,                   \* frames the pipe takes before the peer reads on
  exitCode

peerVars == <<written, closed, cut, readable>>
inputVars == <<taken, partial, batch>>
outputVars == <<stdout, torn, room>>
vars == <<peerVars, stage, pipeline, inputVars, response, session, outputVars, exitCode>>

Init ==
  /\ written = <<>>
  /\ closed = FALSE
  /\ cut = FALSE
  /\ readable = TRUE
  /\ stage = "options"
  /\ pipeline = "none"
  /\ taken = 0
  /\ partial = FALSE
  /\ batch = <<>>
  /\ response = Hello
  /\ session = [state |-> "Starting", reason |-> "None"]
  /\ stdout = <<>>
  /\ torn = FALSE
  /\ room \in 0 .. MaxRoom
  /\ exitCode = None

-----------------------------------------------------------------------------
(* The peer (external) *)

PeerWrites(f) ==
  /\ ~closed
  /\ Len(written) < MaxFrames
  /\ written' = Append(written, f)
  /\ UNCHANGED <<closed, cut, readable, stage, pipeline, inputVars, response,
                 session, outputVars, exitCode>>

\* The peer closes stdin, or dies in the middle of its last frame.
PeerCloses ==
  /\ ~closed
  /\ closed' = TRUE
  /\ \/ UNCHANGED cut
     \/ taken < Len(written) /\ cut' = TRUE
  /\ UNCHANGED <<written, readable, stage, pipeline, inputVars, response,
                 session, outputVars, exitCode>>

PeerReads ==
  /\ readable
  /\ room < MaxRoom
  /\ room' = room + 1
  /\ UNCHANGED <<peerVars, stage, pipeline, inputVars, response, session,
                 stdout, torn, exitCode>>

PeerClosesStdout ==
  /\ readable
  /\ readable' = FALSE
  /\ UNCHANGED <<written, closed, cut, stage, pipeline, inputVars, response,
                 session, outputVars, exitCode>>

-----------------------------------------------------------------------------
(* Session *)

MarkFailure(reason) == session' = [state |-> "Error", reason |-> reason]

MarkCleanEof ==
  session' = IF session.state = "Running"
             THEN [state |-> "Stopped", reason |-> "CleanEof"]
             ELSE session

MarkShutdownResponseWritten ==
  session' = IF session.state = "Stopping"
             THEN [session EXCEPT !.state = "Stopped"]
             ELSE [state |-> "Error", reason |-> "UnexpectedFailure"]

\* The code a request is answered with; a run of the pipeline may also fail.
RunCodes == IF pipeline = "ready" THEN {"Success", "EngineFailure"}
            ELSE {"EngineUnavailable"}
CodesFor(command) ==
  CASE session.state = "Running" ->
         IF command = "RunMockPipeline" THEN RunCodes ELSE {"Success"}
    [] session.state = "Stopping" -> {"RuntimeShuttingDown"}
    [] OTHER -> {"RuntimeUnavailable"}

Exit(code) ==
  /\ stage' = "exited"
  /\ exitCode' = code

\* A failure is recorded in the session and decides the exit code.
Fails(failure) ==
  /\ MarkFailure(failure)
  /\ Exit(ExitCode(failure))

-----------------------------------------------------------------------------
(* Setup: run_native_with_options *)

NextStage(s) ==
  CASE s = "options" -> "logging"
    [] s = "logging" -> "plugin"
    [] s = "plugin" -> "stdio"
    [] s = "stdio" -> "hello"

\* Parse the options, open the log, create the pipeline if a plugin was asked
\* for, configure stdio.  A failure ends the process before there is a session.
Setup ==
  /\ stage \in SetupSet
  /\ \/ /\ stage' = NextStage(stage)
        /\ pipeline' \in IF stage = "options" THEN {"none", "requested"}
                          ELSE IF stage = "plugin" /\ pipeline = "requested"
                          THEN {"ready"} ELSE {pipeline}
        /\ UNCHANGED exitCode
     \/ /\ stage = "plugin" => pipeline = "requested"
        /\ Exit(4)
        /\ UNCHANGED pipeline
  /\ UNCHANGED <<peerVars, inputVars, response, session, outputVars>>

\* write_all and flush of one frame: they wait while the pipe is full, and fail,
\* perhaps with a piece of the frame written, when the peer has closed its end.
Writes(frame) ==
  /\ readable
  /\ room > 0
  /\ stdout' = Append(stdout, frame)
  /\ room' = room - 1
  /\ UNCHANGED torn

WriteFails ==
  /\ ~readable
  /\ Fails("OutputFailure")
  /\ torn' \in BOOLEAN
  /\ UNCHANGED <<stdout, room>>

\* The process waits in write_all for a peer that has its end open.
Blocked == stage \in {"hello", "sending"} /\ readable /\ room = 0

StartSession ==
  /\ stage = "hello"
  /\ \/ /\ Writes(Hello)
        /\ session' = [state |-> "Running", reason |-> "None"]
        /\ stage' = "reading"
        /\ UNCHANGED exitCode
     \/ WriteFails
     \/ /\ Fails("UnexpectedFailure")
        /\ UNCHANGED outputVars
  /\ UNCHANGED <<peerVars, pipeline, inputVars, response>>

-----------------------------------------------------------------------------
(* The loop of run_stdio *)

\* Frames that are, or will be, whole.
Whole == IF cut THEN Len(written) - 1 ELSE Len(written)

\* The frames of which something has been read.
Begun == IF partial THEN taken + 1 ELSE taken

\* One read and one feed: n frames come to their end in it, and perhaps another
\* one begins or goes on.  If one of them does not decode the feed fails, and the
\* frames decoded before it in the same read are dropped with it; a frame can
\* show that it does not decode before it has been read whole.
Read(n, more) ==
  /\ stage = "reading"
  /\ taken + n <= Whole
  /\ more => taken + n < Len(written)
  /\ n > 0 \/ more
  /\ taken' = taken + n
  /\ partial' = more
  /\ \/ /\ \E k \in taken + 1 .. Begun' : written[k] = "malformed"
        /\ Fails("ProtocolFailure")
        /\ UNCHANGED batch
     \/ /\ \A k \in taken + 1 .. taken + n : written[k] # "malformed"
        /\ batch' = [k \in 1 .. n |-> taken + k]
        /\ stage' = IF n = 0 THEN "reading" ELSE "dispatching"
        /\ UNCHANGED <<session, exitCode>>
  /\ UNCHANGED <<peerVars, pipeline, response, outputVars>>

\* The read fails, or the decoder cannot allocate.
ReadFails ==
  /\ stage = "reading"
  /\ Fails("UnexpectedFailure")
  /\ UNCHANGED <<peerVars, pipeline, inputVars, response, outputVars>>

\* Mutant: the end of stdin is only noticed between two frames.
AtEofBetweenFrames == closed /\ taken = Whole /\ ~partial

AtEof == closed /\ taken = Whole /\ (cut => partial)

\* Mutant: what the decoder still holds is not looked at.
EofAlwaysClean ==
  /\ stage = "reading"
  /\ AtEof
  /\ MarkCleanEof
  /\ Exit(0)
  /\ UNCHANGED <<peerVars, pipeline, inputVars, response, outputVars>>

Eof ==
  /\ stage = "reading"
  /\ AtEof
  /\ IF partial THEN Fails("ProtocolFailure") ELSE MarkCleanEof /\ Exit(0)
  /\ UNCHANGED <<peerVars, pipeline, inputVars, response, outputVars>>

\* Session::handle for the first frame of the batch.  Mutant: a frame in the
\* wrong direction ends the loop but not the session.
DispatchUnmarked ==
  /\ stage = "dispatching"
  /\ LET id == Head(batch)
         command == written[id]
     IN  IF command \notin Requests
         THEN /\ Exit(2)
              /\ UNCHANGED <<session, response, batch>>
         ELSE /\ \E code \in CodesFor(command) :
                   response' = [kind |-> "Response", id |-> id,
                                command |-> command, code |-> code]
              /\ session' = IF command = "Shutdown" /\ session.state = "Running"
                            THEN [state |-> "Stopping", reason |-> "RequestedShutdown"]
                            ELSE session
              /\ stage' = "sending"
              /\ batch' = Tail(batch)
              /\ UNCHANGED exitCode
  /\ UNCHANGED <<peerVars, pipeline, taken, partial, outputVars>>

Dispatch ==
  /\ stage = "dispatching"
  /\ LET id == Head(batch)
         command == written[id]
     IN  IF command \notin Requests
         THEN /\ Fails("ProtocolFailure")
              /\ UNCHANGED <<response, batch>>
         ELSE /\ \E code \in CodesFor(command) :
                   response' = [kind |-> "Response", id |-> id,
                                command |-> command, code |-> code]
              /\ session' = IF command = "Shutdown" /\ session.state = "Running"
                            THEN [state |-> "Stopping", reason |-> "RequestedShutdown"]
                            ELSE session
              /\ stage' = "sending"
              /\ batch' = Tail(batch)
              /\ UNCHANGED exitCode
  /\ UNCHANGED <<peerVars, pipeline, taken, partial, outputVars>>

\* Building the response throws, in the pipeline for example.
DispatchThrows ==
  /\ stage = "dispatching"
  /\ Fails("UnexpectedFailure")
  /\ UNCHANGED <<peerVars, pipeline, inputVars, response, outputVars>>

\* The loop goes on with the batch, or reads.  Mutant: it reads after every
\* response, and forgets the rest of the batch.
ContinueReading ==
  /\ stage' = "reading"
  /\ UNCHANGED <<session, exitCode>>

Continue ==
  /\ stage' = IF batch = <<>> THEN "reading" ELSE "dispatching"
  /\ UNCHANGED <<session, exitCode>>

\* The response is encoded and written.  A response to Shutdown is the last.
\* Mutant: the frames of the same read are dispatched first.
SendThenDrain ==
  /\ stage = "sending"
  /\ \/ /\ Writes(response)
        /\ IF session.state = "Stopping" /\ batch = <<>>
           THEN MarkShutdownResponseWritten /\ Exit(0)
           ELSE Continue
     \/ WriteFails
     \/ /\ Fails("UnexpectedFailure")
        /\ UNCHANGED outputVars
  /\ UNCHANGED <<peerVars, pipeline, inputVars, response>>

Send ==
  /\ stage = "sending"
  /\ \/ /\ Writes(response)
        /\ IF response.command = "Shutdown" /\ response.code = "Success"
           THEN MarkShutdownResponseWritten /\ Exit(0)
           ELSE Continue
     \/ WriteFails
     \/ /\ Fails("UnexpectedFailure")
        /\ UNCHANGED outputVars
  /\ UNCHANGED <<peerVars, pipeline, inputVars, response>>

Reads == \E n \in 0 .. MaxFrames, more \in BOOLEAN : Read(n, more)
Runtime == Setup \/ StartSession \/ Reads \/ ReadFails \/ Eof \/ Dispatch
           \/ DispatchThrows \/ Send

Next ==
  \/ \E f \in Inbound : PeerWrites(f)
  \/ PeerCloses \/ PeerReads \/ PeerClosesStdout
  \/ Runtime

Spec == Init /\ [][Next]_vars

\* The process takes its steps, except that a write waits for as long as the pipe
\* is full.  Of the peer nothing is assumed: it may leave both pipes open and never
\* read again.  Calls of the logger and of the plugin return.
FairSpec == /\ Spec
            /\ WF_vars(Setup) /\ WF_vars(Reads) /\ WF_vars(Eof) /\ WF_vars(Dispatch)
            /\ WF_vars(~Blocked /\ StartSession) /\ WF_vars(~Blocked /\ Send)

-----------------------------------------------------------------------------

TypeOK ==
  /\ written \in Seq(Inbound)
  /\ Len(written) <= MaxFrames
  /\ closed \in BOOLEAN
  /\ cut \in BOOLEAN
  /\ readable \in BOOLEAN
  /\ stage \in Stages
  /\ pipeline \in {"none", "requested", "ready"}
  /\ taken \in 0 .. Len(written)
  /\ partial \in BOOLEAN
  /\ batch \in Seq(1 .. Len(written))
  /\ response \in Sent
  /\ session \in [state : SessionStates, reason : ExitReasons]
  /\ stdout \in Seq(Sent)
  /\ torn \in BOOLEAN
  /\ room \in 0 .. MaxRoom
  /\ exitCode \in {None, 0, 2, 3, 4}

Answered == Len(stdout) - 1

\* What is on stdout is Hello, then one response for each request in the order
\* they were written, none left out and none answered twice, each with its
\* request's own command, up to the point where the process gave up.
AnswersInOrder ==
  \A i \in DOMAIN stdout :
    IF i = 1 THEN stdout[i] = Hello
    ELSE /\ stdout[i].kind = "Response"
         /\ stdout[i].id = i - 1
         /\ stdout[i].command = written[i - 1]

\* The response to Shutdown is the last thing the process writes, and it exits
\* with it whatever else was in the same read; no request of the loop is ever
\* answered with a state error.
ShutdownIsLast ==
  \A i \in DOMAIN stdout :
    /\ stdout[i].command = "Shutdown" =>
         /\ i = Len(stdout) /\ ~torn
         /\ stage = "exited" /\ exitCode = 0
    /\ stdout[i].code \notin {"RuntimeShuttingDown", "RuntimeUnavailable"}

\* The exit code says what happened: 0 after an answered Shutdown, or at an end
\* of stdin between frames with every frame answered; 2 for a stream that broke
\* off or held something other than requests; 3 only when stdout was closed, the
\* only case that leaves a piece of a frame behind.
ExitVerdict ==
  stage = "exited" =>
    /\ exitCode = 0 =>
         \/ stdout[Len(stdout)].command = "Shutdown"
         \/ closed /\ ~cut /\ Answered = Len(written)
    /\ exitCode = 2 => \/ cut \/ \E k \in 1 .. Begun : written[k] \notin Requests
    /\ exitCode = 3 => ~readable
    /\ torn => exitCode = 3

\* The exit code and the session's last snapshot tell the same story; a session
\* that never ran, because the setup failed, was silent on stdout, and ends with 4.
SessionAgrees ==
  stage = "exited" =>
    CASE session.reason \in {"CleanEof", "RequestedShutdown"} ->
           exitCode = 0 /\ session.state = "Stopped"
      [] session.reason \in Failures ->
           exitCode = ExitCode(session.reason) /\ session.state = "Error"
      [] session.reason = "None" -> /\ exitCode = 4 /\ session.state = "Starting"
                                    /\ stdout = <<>> /\ ~torn

\* Once stdin is closed the process ends, unless the peer keeps its end of stdout
\* open and leaves it full for ever: run_stdio has no timeout for a write.
Ends == <>[]Blocked \/ (closed ~> stage = "exited")

\* A frame that was read is answered unless the process ends, with the same
\* exception: a peer that sends requests and never reads an answer stops the loop.
Settles == \A k \in 1 .. MaxFrames :
  <>[]Blocked \/ (taken >= k ~> (Answered >= k \/ stage = "exited"))

=============================================================================
