--------------------------- MODULE RuntimeManager ---------------------------
(***************************************************************************)
(* The RuntimeManager actor of apps/runtime-host: one task that owns at    *)
(* most one Runtime child process, serialises the callers' commands, pairs *)
(* responses with requests and answers every caller through a oneshot      *)
(* channel.  A handler runs alone in its task, but it can be suspended at  *)
(* an await: `phase' names the await the actor is suspended at, and while  *)
(* it is there the callers, the child, the pipe tasks and the detached     *)
(* reaper move, or the whole task is aborted.                              *)
(*                                                                         *)
(* The child is external here: it may write any frame, close its pipe or   *)
(* exit at any time.                                                       *)
(***************************************************************************)
EXTENDS Integers, Sequences, FiniteSets

CONSTANTS
  Calls,                 \* call tickets: one oneshot reply channel each
  None,                  \* the Option::None of a reply slot
  Operations,            \* the operations callers may ask for
  MaxInFlight,           \* config.max_in_flight
  CommandQueueCapacity,  \* config.command_queue_capacity
  MaxGeneration,         \* the largest process generation (u64::MAX)
  MaxRequestId,          \* the largest request ID (u64::MAX)
  MaxBacklog             \* bound of the model: unread stdout events

Queries == {"Request", "Observe"}
AllOperations == {"Start", "Stop", "Status", "NotEvaluated"} \cup Queries

ASSUME ManagerAssumption ==
  /\ None \notin Calls
  /\ IsFiniteSet(Calls)
  /\ Operations \subseteq AllOperations
  /\ MaxInFlight \in Nat \ {0}
  /\ CommandQueueCapacity \in Nat \ {0}
  /\ MaxGeneration \in Nat \ {0}
  /\ MaxRequestId \in Nat \ {0}
  /\ MaxBacklog \in Nat \ {0}

Ids == 1 .. MaxRequestId
Generations == 1 .. MaxGeneration
MaxWaiters == CommandQueueCapacity + 1
WriterCapacity == MaxInFlight + 1

States == {"Stopped", "Starting", "Connected", "Stopping", "Crashed", "Error"}

\* A oneshot before it is created, while unanswered, and with its answer.
\* "abandoned": the caller dropped the receiver before any answer.
Replies == {"idle", "waiting", "Ok", "Remote", "Rejected", "Failed",
            "Cancelled", "Closed", "abandoned"}

\* Where the actor task is suspended; "aborted" is Drop for Actor at work,
\* "closed" is after the task's end.
Phases == {"select", "snapshot", "eofWait", "reap", "barrier", "drain",
           "aborted", "closed"}
Continuations == {"fail", "crash", "cancelStart", "graceful", "dropped"}

\* The operating system's view of the child of one generation.
Unreaped == {"running", "exitedOk", "exitedBad"}
OsStates == Unreaped \cup {"unborn", "reaped"}
Exits == {"unknown", "ok", "bad"}

Results == {"ok", "remote", "bad"}
Response(g, i, r) == [gen |-> g, kind |-> "response", id |-> i, result |-> r]
Plain(g, k) == [gen |-> g, kind |-> k, id |-> 0, result |-> "ok"]
WriteFailure(g, i) == [gen |-> g, kind |-> "writeFailure", id |-> i, result |-> "ok"]
Events == [gen : 0 .. MaxGeneration,
           kind : {"hello", "response", "eof", "broken", "writeFailure"},
           id : 0 .. MaxRequestId, result : Results]

NoStop == [id |-> 0, response |-> FALSE, eof |-> FALSE, waiters |-> {}]
NewStop(i, c) == [id |-> i, response |-> FALSE, eof |-> FALSE, waiters |-> {c}]
StopContexts == [id : 0 .. MaxRequestId, response : BOOLEAN, eof : BOOLEAN,
                 waiters : SUBSET Calls]

VARIABLES
  op, reply,        \* per call: its operation and its oneshot
  bound,            \* history: the generation a call was accepted for, 0 before
  managerDropped,   \* every RuntimeManager handle and call future is gone
  commands,         \* the bounded mpsc queue of commands
  state, generation,
  nextId,           \* RequestIds.next, 0 once exhausted
  pending,          \* PendingRequests.entries: request ID -> reply slot
  start, stop,      \* the active StartContext and StopContext
  activeStatus, primary, deferredStop,   \* the slots kept for the abort owner
  phase, cont,      \* the await, and what runs after reap_process
  hasProcess, exitStatus, draining,      \* ProcessResources
  writer, writerAlive, readerAlive,      \* its stdin queue and its two pipe tasks
  events,           \* stdout pipe and ProcessEvent queue as one FIFO
  barrier,          \* the ReapBarrier: none, waiting, done
  os                \* per generation: the child as the operating system has it

clientVars == <<op, reply, bound, managerDropped>>
slotVars == <<start, stop, activeStatus, primary, deferredStop>>
controlVars == <<phase, cont, barrier>>
processVars == <<hasProcess, exitStatus, draining, writer, writerAlive, readerAlive>>
vars == <<op, reply, bound, managerDropped, commands, state, generation, nextId,
          pending, start, stop, activeStatus, primary, deferredStop, phase, cont,
          hasProcess, exitStatus, draining, writer, writerAlive, readerAlive,
          events, barrier, os>>

Init ==
  /\ op = [c \in Calls |-> "none"]
  /\ reply = [c \in Calls |-> "idle"]
  /\ bound = [c \in Calls |-> 0]
  /\ managerDropped = FALSE
  /\ commands = <<>>
  /\ state = "Stopped"
  /\ generation = 0
  /\ nextId = 1
  /\ pending = [i \in Ids |-> None]
  /\ start = None
  /\ stop = NoStop
  /\ activeStatus = None
  /\ primary = None
  /\ deferredStop = None
  /\ phase = "select"
  /\ cont = "fail"
  /\ hasProcess = FALSE
  /\ exitStatus = "unknown"
  /\ draining = FALSE
  /\ writer = <<>>
  /\ writerAlive = FALSE
  /\ readerAlive = FALSE
  /\ events = <<>>
  /\ barrier = "none"
  /\ os = [g \in Generations |-> "unborn"]

-----------------------------------------------------------------------------
(* Slots and answers *)

Slot(x) == {x} \ {None}
PendingIds == {i \in Ids : pending[i] # None}
PendingCalls == {pending[i] : i \in PendingIds}

\* PendingRequests::take
Taken(i) == IF i \in PendingIds THEN pending[i] ELSE None

\* Mutant: the failure path forgets the request that failed first.
StreamCallsWithoutPrimary ==
  PendingCalls \cup Slot(start) \cup stop.waiters \cup Slot(deferredStop)

\* Every reply the stream of the current process owes.
StreamCalls ==
  PendingCalls \cup Slot(primary) \cup Slot(start) \cup stop.waiters
    \cup Slot(deferredStop)

Queued == {commands[k] : k \in DOMAIN commands}

\* oneshot::Sender::send on each sender of S: only a caller that still waits
\* sees it.
Answer(S, r) ==
  reply' = [c \in Calls |-> IF c \in S /\ reply[c] = "waiting" THEN r ELSE reply[c]]

Answer2(S, r, T, q) ==
  reply' = [c \in Calls |->
              IF reply[c] # "waiting" THEN reply[c]
              ELSE IF c \in S THEN r ELSE IF c \in T THEN q ELSE reply[c]]

Bind(c, g) == bound' = [bound EXCEPT ![c] = g]

ClearStream ==
  /\ pending' = [i \in Ids |-> None]
  /\ primary' = None
  /\ start' = None
  /\ stop' = NoStop
  /\ deferredStop' = None

-----------------------------------------------------------------------------
(* Callers *)

\* A call whose send().await got its place in the command queue; after the
\* actor has gone the send fails and the call is ManagerClosed.
Submit(c, o) ==
  /\ reply[c] = "idle"
  /\ ~managerDropped
  /\ op' = [op EXCEPT ![c] = o]
  /\ IF phase = "closed"
     THEN /\ reply' = [reply EXCEPT ![c] = "Closed"]
          /\ UNCHANGED commands
     ELSE /\ Len(commands) < CommandQueueCapacity
          /\ reply' = [reply EXCEPT ![c] = "waiting"]
          /\ commands' = Append(commands, c)
  /\ UNCHANGED <<bound, managerDropped, state, generation, nextId, pending,
                 slotVars, controlVars, processVars, events, os>>

\* Every call future is dropped, and then the last RuntimeManager handle.
DropManager ==
  /\ ~managerDropped
  /\ managerDropped' = TRUE
  /\ reply' = [c \in Calls |-> IF reply[c] = "waiting" THEN "abandoned" ELSE reply[c]]
  /\ UNCHANGED <<op, bound, commands, state, generation, nextId, pending,
                 slotVars, controlVars, processVars, events, os>>

-----------------------------------------------------------------------------
(* reap_process up to its first await: with the exit already recorded it     *)
(* goes on to finish_process_tasks, else it kills the child and waits for it *)

BeginReap(k, exit) ==
  /\ cont' = k
  /\ phase' = IF exit = "unknown" THEN "reap" ELSE "drain"
  /\ UNCHANGED barrier

\* Mutant: any recorded exit counts as a graceful one.
TryCompleteShutdownAnyExit(s, e) ==
  \/ s.eof /\ ~s.response /\ BeginReap("fail", e)
  \/ ~s.eof /\ UNCHANGED controlVars
  \/ /\ s.eof /\ s.response
     /\ IF e = "unknown" THEN UNCHANGED controlVars ELSE BeginReap("graceful", e)

(***************************************************************************)
(* try_complete_shutdown, with the StopContext s and the exit status e     *)
(* that its caller has just stored.                                        *)
(***************************************************************************)
TryCompleteShutdown(s, e) ==
  \/ /\ s.eof /\ ~s.response
     /\ BeginReap("fail", e)
  \/ /\ ~(s.eof /\ ~s.response)
     /\ ~(s.eof /\ s.response) \/ e = "unknown"
     /\ UNCHANGED controlVars
  \/ /\ s.eof /\ s.response
     /\ e # "unknown"
     /\ BeginReap(IF e = "ok" THEN "graceful" ELSE "fail", e)

-----------------------------------------------------------------------------
(* Commands *)

TakeCommand(c, o) ==
  /\ phase = "select"
  /\ commands # <<>>
  /\ c = Head(commands)
  /\ op[c] = o
  /\ commands' = Tail(commands)

\* queue_frame: try_send fails when the queue is full or the writer has ended.
FrameAccepted == hasProcess /\ writerAlive /\ Len(writer) < WriterCapacity
QueueFrame(i) == writer' = IF FrameAccepted THEN Append(writer, i) ELSE writer

\* RequestIds::allocate.  Mutants: without checked_add, and wrapping to 1.
AllocateIdUnchecked == nextId' = nextId + 1
AllocateIdWrapping == nextId' = IF nextId = MaxRequestId THEN 1 ELSE nextId + 1
AllocateId == nextId' = IF nextId = MaxRequestId THEN 0 ELSE nextId + 1

\* A fresh child with its three pipe tasks.
Spawned(g) ==
  /\ hasProcess' = TRUE
  /\ exitStatus' = "unknown"
  /\ draining' = FALSE
  /\ writer' = <<>>
  /\ writerAlive' = TRUE
  /\ readerAlive' = TRUE
  /\ os' = [os EXCEPT ![g] = "running"]

StartRuntime(c) ==
  /\ TakeCommand(c, "Start")
  /\ \/ /\ generation = MaxGeneration \/ state \notin {"Stopped", "Crashed", "Error"}
        /\ Answer({c}, "Rejected")
        /\ UNCHANGED <<bound, state, generation, start, processVars, os>>
     \/ /\ generation < MaxGeneration /\ state \in {"Stopped", "Crashed", "Error"}
        /\ generation' = generation + 1
        /\ Bind(c, generation')
        /\ \/ /\ state' = "Starting"          \* spawn_process succeeds
              /\ start' = c
              /\ Spawned(generation')
              /\ UNCHANGED reply
           \/ /\ state' = "Error"             \* spawn_process fails
              /\ Answer({c}, "Failed")
              /\ UNCHANGED <<start, processVars, os>>
  /\ UNCHANGED <<op, managerDropped, nextId, pending, stop, activeStatus, primary,
                 deferredStop, controlVars, events>>

\* stop_runtime with no process: an acknowledged failure goes back to Stopped.
StopIdle(c) ==
  /\ TakeCommand(c, "Stop")
  /\ state \in {"Stopped", "Crashed", "Error"}
  /\ state' = "Stopped"
  /\ Answer({c}, "Ok")
  /\ UNCHANGED <<op, bound, managerDropped, generation, nextId, pending, slotVars,
                 controlVars, processVars, events, os>>

\* stop_runtime before Hello: the start is cancelled once the child is reaped.
StopStarting(c) ==
  /\ TakeCommand(c, "Stop")
  /\ state = "Starting"
  /\ deferredStop' = c
  /\ Bind(c, generation)
  /\ BeginReap("cancelStart", exitStatus)
  /\ UNCHANGED <<op, reply, managerDropped, state, generation, nextId, pending,
                 start, stop, activeStatus, primary, processVars, events, os>>

\* Mutant: one waiter too many.
WaitersFullLate == Cardinality(stop.waiters) > MaxWaiters
WaitersFull == Cardinality(stop.waiters) >= MaxWaiters

\* stop_runtime while stopping joins the active StopContext, up to its bound.
StopJoin(c) ==
  /\ TakeCommand(c, "Stop")
  /\ state = "Stopping"
  /\ IF WaitersFull
     THEN /\ Answer({c}, "Rejected")
          /\ UNCHANGED <<stop, bound>>
     ELSE /\ stop' = [stop EXCEPT !.waiters = @ \cup {c}]
          /\ Bind(c, generation)
          /\ UNCHANGED reply
  /\ UNCHANGED <<op, managerDropped, state, generation, nextId, pending, start,
                 activeStatus, primary, deferredStop, controlVars, processVars,
                 events, os>>

\* stop_runtime while connected: with no request ID left, or no room for the
\* Shutdown frame, the stream fails and takes the child with it.
StopConnected(c) ==
  /\ TakeCommand(c, "Stop")
  /\ state = "Connected"
  /\ state' = "Stopping"
  /\ Bind(c, generation)
  /\ \/ /\ nextId = 0
        /\ deferredStop' = c
        /\ BeginReap("fail", exitStatus)
        /\ UNCHANGED <<nextId, stop, writer>>
     \/ /\ nextId # 0
        /\ AllocateId
        /\ stop' = NewStop(nextId, c)
        /\ QueueFrame(nextId)
        /\ IF FrameAccepted THEN UNCHANGED controlVars
                            ELSE BeginReap("fail", exitStatus)
        /\ UNCHANGED deferredStop
  /\ UNCHANGED <<op, reply, managerDropped, generation, pending, start, activeStatus,
                 primary, hasProcess, exitStatus, draining, writerAlive, readerAlive,
                 events, os>>

\* send_request for Ping, RunMockPipeline and GetCapabilities.
SendRequest(c) ==
  /\ \E o \in Queries : TakeCommand(c, o)
  /\ \/ /\ \/ state # "Connected"
           \/ Cardinality(PendingIds) >= MaxInFlight
           \/ nextId = 0
        /\ Answer({c}, "Rejected")
        /\ UNCHANGED <<bound, nextId, pending, primary, controlVars, writer>>
     \/ /\ state = "Connected"
        /\ Cardinality(PendingIds) < MaxInFlight
        /\ nextId # 0
        /\ AllocateId
        /\ Bind(c, generation)
        /\ QueueFrame(nextId)
        /\ IF FrameAccepted
           THEN /\ pending' = [pending EXCEPT ![nextId] = c]
                /\ UNCHANGED <<primary, controlVars>>
           ELSE /\ primary' = c
                /\ BeginReap("fail", exitStatus)
                /\ UNCHANGED pending
        /\ UNCHANGED reply
  /\ UNCHANGED <<op, managerDropped, state, generation, start, stop, activeStatus,
                 deferredStop, hasProcess, exitStatus, draining, writerAlive,
                 readerAlive, events, os>>

\* Status keeps its sender in the actor while it waits for the stderr tail of
\* a process; NotEvaluated never waits.
ReadStatus(c) ==
  /\ \/ /\ TakeCommand(c, "Status")
        /\ hasProcess
        /\ activeStatus' = c
        /\ phase' = "snapshot"
        /\ UNCHANGED <<reply, cont, barrier>>
     \/ /\ \/ TakeCommand(c, "Status") /\ ~hasProcess
           \/ TakeCommand(c, "NotEvaluated")
        /\ Answer({c}, "Ok")
        /\ UNCHANGED <<activeStatus, controlVars>>
  /\ UNCHANGED <<op, bound, managerDropped, state, generation, nextId, pending,
                 start, stop, primary, deferredStop, processVars, events, os>>

\* status() returns: to a Status call, or to the handshake that answers Start.
SnapshotDone ==
  /\ phase = "snapshot"
  /\ phase' = "select"
  /\ \/ /\ activeStatus # None
        /\ Answer({activeStatus}, "Ok")
        /\ activeStatus' = None
        /\ UNCHANGED start
     \/ /\ activeStatus = None
        /\ Answer(Slot(start), "Ok")
        /\ start' = None
        /\ UNCHANGED activeStatus
  /\ UNCHANGED <<op, bound, managerDropped, commands, state, generation, nextId,
                 pending, stop, primary, deferredStop, cont, barrier, processVars,
                 events, os>>

Command(c) ==
  \/ StartRuntime(c) \/ StopIdle(c) \/ StopStarting(c) \/ StopJoin(c)
  \/ StopConnected(c) \/ SendRequest(c) \/ ReadStatus(c)

-----------------------------------------------------------------------------
(* Process events *)

\* The event at the head of the queue, if it is of the current process.  Mutant:
\* of whichever process it is.
TakeEventOfAny(k) ==
  /\ phase = "select"
  /\ events # <<>>
  /\ events' = Tail(events)
  /\ Head(events).kind = k
  /\ hasProcess

TakeEvent(k) ==
  /\ phase = "select"
  /\ events # <<>>
  /\ events' = Tail(events)
  /\ Head(events).kind = k
  /\ Head(events).gen = generation
  /\ hasProcess

\* handle_event drops what an earlier process left in the queue.
DropStaleEvent ==
  /\ phase = "select"
  /\ events # <<>>
  /\ events' = Tail(events)
  /\ Head(events).gen # generation \/ ~hasProcess
  /\ UNCHANGED <<clientVars, commands, state, generation, nextId, pending, slotVars,
                 controlVars, processVars, os>>

\* A valid Hello while starting; anywhere else, and for any other first frame,
\* the stream fails.
HandleHello ==
  /\ TakeEvent("hello")
  /\ \/ /\ state = "Starting"
        /\ state' = "Connected"
        /\ phase' = "snapshot"
        /\ UNCHANGED <<cont, barrier>>
     \/ /\ state # "Starting"
        /\ BeginReap("fail", exitStatus)
        /\ UNCHANGED state
  /\ UNCHANGED <<clientVars, commands, generation, nextId, pending, slotVars,
                 processVars, os>>

NamesShutdown(i) == stop.id # 0 /\ i = stop.id

\* A response to anything but the active Shutdown: it completes the request it
\* names, successfully or with the remote error; "bad" is a command mismatch or
\* an invalid success payload.
HandleResponse ==
  /\ TakeEvent("response")
  /\ ~NamesShutdown(Head(events).id)
  /\ LET i == Head(events).id
         r == Head(events).result
         matched == /\ state # "Starting"
                    /\ r # "bad"
                    /\ i \in PendingIds
     IN  \/ /\ matched
            /\ Answer({pending[i]}, IF r = "ok" THEN "Ok" ELSE "Remote")
            /\ pending' = [pending EXCEPT ![i] = None]
            /\ UNCHANGED controlVars
         \/ /\ ~matched
            /\ BeginReap("fail", exitStatus)
            /\ UNCHANGED <<reply, pending>>
  /\ UNCHANGED <<op, bound, managerDropped, commands, state, generation, nextId,
                 slotVars, processVars, os>>

HandleShutdownResponse ==
  /\ TakeEvent("response")
  /\ NamesShutdown(Head(events).id)
  /\ \/ /\ stop.response \/ Head(events).result # "ok"
        /\ BeginReap("fail", exitStatus)
        /\ UNCHANGED stop
     \/ /\ ~stop.response /\ Head(events).result = "ok"
        /\ stop' = [stop EXCEPT !.response = TRUE]
        /\ TryCompleteShutdown(stop', exitStatus)
  /\ UNCHANGED <<clientVars, commands, state, generation, nextId, pending, start,
                 activeStatus, primary, deferredStop, processVars, os>>

\* A clean end of stdout: awaited while stopping, otherwise the actor gives the
\* child one poll interval to be seen exiting.
HandleEof ==
  /\ TakeEvent("eof")
  /\ \/ /\ state = "Stopping"
        /\ stop' = [stop EXCEPT !.eof = TRUE]
        /\ TryCompleteShutdown(stop', exitStatus)
     \/ /\ state # "Stopping"
        /\ IF exitStatus = "unknown"
           THEN phase' = "eofWait" /\ UNCHANGED <<cont, barrier>>
           ELSE BeginReap("crash", exitStatus)
        /\ UNCHANGED stop
  /\ UNCHANGED <<clientVars, commands, state, generation, nextId, pending, start,
                 activeStatus, primary, deferredStop, processVars, os>>

Exited(g) == os[g] \in {"exitedOk", "exitedBad"}

\* Child::wait or try_wait collects the exit of the current child.
CollectExit ==
  /\ Exited(generation)
  /\ exitStatus' = IF os[generation] = "exitedOk" THEN "ok" ELSE "bad"
  /\ os' = [os EXCEPT ![generation] = "reaped"]

EofWaitDone ==
  /\ phase = "eofWait"
  /\ \/ CollectExit /\ BeginReap("crash", exitStatus')
     \/ BeginReap("fail", exitStatus) /\ UNCHANGED <<exitStatus, os>>
  /\ UNCHANGED <<clientVars, commands, state, generation, nextId, pending, slotVars,
                 hasProcess, draining, writer, writerAlive, readerAlive, events>>

\* A truncated or malformed stream, or a read error.
HandleBroken ==
  /\ TakeEvent("broken")
  /\ BeginReap("fail", exitStatus)
  /\ UNCHANGED <<clientVars, commands, state, generation, nextId, pending, slotVars,
                 processVars, os>>

\* The request whose frame could not be written is the primary failure.
HandleWriteFailure ==
  /\ TakeEvent("writeFailure")
  /\ LET i == Head(events).id
     IN  /\ primary' = Taken(i)
         /\ pending' = [pending EXCEPT ![i] = None]
  /\ BeginReap("fail", exitStatus)
  /\ UNCHANGED <<clientVars, commands, state, generation, nextId, start, stop,
                 activeStatus, deferredStop, processVars, os>>

HandleEvent ==
  \/ DropStaleEvent \/ HandleHello \/ HandleResponse \/ HandleShutdownResponse
  \/ HandleEof \/ HandleBroken \/ HandleWriteFailure

-----------------------------------------------------------------------------
(* Deadlines and the exit poll *)

StartTimeout ==
  /\ phase = "select"
  /\ start # None
  /\ BeginReap("fail", exitStatus)
  /\ UNCHANGED <<clientVars, commands, state, generation, nextId, pending, slotVars,
                 processVars, events, os>>

ShutdownTimeout ==
  /\ phase = "select"
  /\ stop.id # 0
  /\ BeginReap("fail", exitStatus)
  /\ UNCHANGED <<clientVars, commands, state, generation, nextId, pending, slotVars,
                 processVars, events, os>>

\* All requests have the same timeout, so the oldest pending one expires first;
\* it is the primary failure and takes the stream with it.
RequestTimeout ==
  /\ phase = "select"
  /\ \E i \in PendingIds :
       /\ \A j \in PendingIds : i <= j
       /\ primary' = Taken(i)
       /\ pending' = [pending EXCEPT ![i] = None]
  /\ BeginReap("fail", exitStatus)
  /\ UNCHANGED <<clientVars, commands, state, generation, nextId, start, stop,
                 activeStatus, deferredStop, processVars, events, os>>

\* The child has exited, and its stdout did not end within the drain timeout.
DrainTimeout ==
  /\ phase = "select"
  /\ hasProcess /\ draining
  /\ BeginReap("crash", exitStatus)
  /\ UNCHANGED <<clientVars, commands, state, generation, nextId, pending, slotVars,
                 processVars, events, os>>

PollProcessExit ==
  /\ phase = "select"
  /\ hasProcess /\ exitStatus = "unknown"
  /\ \/ /\ CollectExit
        /\ \/ /\ state = "Stopping"
              /\ TryCompleteShutdown(stop, exitStatus')
              /\ UNCHANGED draining
           \/ /\ state # "Stopping"
              /\ draining' = TRUE
              /\ UNCHANGED controlVars
     \/ /\ BeginReap("fail", exitStatus)          \* try_wait fails
        /\ UNCHANGED <<exitStatus, draining, os>>
  /\ UNCHANGED <<clientVars, commands, state, generation, nextId, pending, slotVars,
                 hasProcess, writer, writerAlive, readerAlive, events>>

-----------------------------------------------------------------------------
(* The awaits of reap_process *)

ReapWait ==
  /\ phase = "reap"
  /\ CollectExit
  /\ phase' = "drain"
  /\ UNCHANGED <<clientVars, commands, state, generation, nextId, pending, slotVars,
                 cont, barrier, hasProcess, draining, writer, writerAlive,
                 readerAlive, events>>

\* Mutant: after the bounded waits the child is given up.
ReapTimeoutGivesUp ==
  /\ phase = "reap"
  /\ phase' = "drain"
  /\ UNCHANGED <<clientVars, commands, state, generation, nextId, pending, slotVars,
                 cont, barrier, processVars, events, os>>

\* Both bounded waits expire: the child moves to a detached reaper thread.
ReapTimeout ==
  /\ phase = "reap"
  /\ phase' = "barrier"
  /\ barrier' = "waiting"
  /\ UNCHANGED <<clientVars, commands, state, generation, nextId, pending, slotVars,
                 cont, processVars, events, os>>

\* Mutant: the detached reaper ends without completing the barrier.
DetachedReapSilent ==
  /\ barrier = "waiting"
  /\ CollectExit
  /\ UNCHANGED <<clientVars, commands, state, generation, nextId, pending, slotVars,
                 controlVars, hasProcess, draining, writer, writerAlive,
                 readerAlive, events>>

DetachedReap ==
  /\ barrier = "waiting"
  /\ CollectExit
  /\ barrier' = "done"
  /\ UNCHANGED <<clientVars, commands, state, generation, nextId, pending, slotVars,
                 phase, cont, hasProcess, draining, writer, writerAlive,
                 readerAlive, events>>

\* Mutant: the barrier is looked at but not waited for.
BarrierWaitSkipped ==
  /\ phase = "barrier"
  /\ phase' = "drain"
  /\ UNCHANGED <<clientVars, commands, state, generation, nextId, pending, slotVars,
                 cont, barrier, processVars, events, os>>

BarrierWait ==
  /\ phase = "barrier"
  /\ barrier = "done"
  /\ phase' = "drain"
  /\ UNCHANGED <<clientVars, commands, state, generation, nextId, pending, slotVars,
                 cont, barrier, processVars, events, os>>

\* finish_process_tasks: some of the queued events are discarded, the pipe tasks
\* are joined, and the process is let go.
FinishProcessTasks ==
  /\ phase = "drain"
  /\ \E k \in 0 .. Len(events) : events' = SubSeq(events, k + 1, Len(events))
  /\ hasProcess' = FALSE
  /\ exitStatus' = "unknown"
  /\ draining' = FALSE
  /\ writer' = <<>>
  /\ writerAlive' = FALSE
  /\ readerAlive' = FALSE
  /\ barrier' = "none"

\* fail_stream_deferred after reap_process.
FinishFail ==
  /\ FinishProcessTasks
  /\ cont = "fail"
  /\ state' = "Error"
  /\ Answer(StreamCalls, "Failed")
  /\ ClearStream
  /\ phase' = "select"
  /\ UNCHANGED <<op, bound, managerDropped, commands, generation, nextId,
                 activeStatus, cont, os>>

\* crash_stream after reap_process.
FinishCrash ==
  /\ FinishProcessTasks
  /\ cont = "crash"
  /\ state' = "Crashed"
  /\ Answer(PendingCalls \cup Slot(start) \cup stop.waiters, "Failed")
  /\ pending' = [i \in Ids |-> None]
  /\ start' = None
  /\ stop' = NoStop
  /\ phase' = "select"
  /\ UNCHANGED <<op, bound, managerDropped, commands, generation, nextId,
                 activeStatus, primary, deferredStop, cont, os>>

\* stop_runtime before Hello, after reap_process.
FinishCancelStart ==
  /\ FinishProcessTasks
  /\ cont = "cancelStart"
  /\ state' = "Stopped"
  /\ Answer2(Slot(start), "Cancelled", Slot(deferredStop), "Ok")
  /\ start' = None
  /\ deferredStop' = None
  /\ phase' = "select"
  /\ UNCHANGED <<op, bound, managerDropped, commands, generation, nextId, pending,
                 stop, activeStatus, primary, cont, os>>

\* try_complete_shutdown after reap_process.
FinishGraceful ==
  /\ FinishProcessTasks
  /\ cont = "graceful"
  /\ state' = "Stopped"
  /\ Answer2(PendingCalls, "Failed", stop.waiters, "Ok")
  /\ pending' = [i \in Ids |-> None]
  /\ stop' = NoStop
  /\ phase' = "select"
  /\ UNCHANGED <<op, bound, managerDropped, commands, generation, nextId, start,
                 activeStatus, primary, deferredStop, cont, os>>

\* manager_dropped after reap_process; run returns.
FinishDropped ==
  /\ FinishProcessTasks
  /\ cont = "dropped"
  /\ Answer(PendingCalls \cup Slot(start) \cup stop.waiters, "Failed")
  /\ pending' = [i \in Ids |-> None]
  /\ start' = None
  /\ stop' = NoStop
  /\ phase' = "closed"
  /\ UNCHANGED <<op, bound, managerDropped, commands, state, generation, nextId,
                 activeStatus, primary, deferredStop, cont, os>>

\* Mutant: the actor ends only on its own account.
ManagerDroppedIdle ==
  /\ phase = "select"
  /\ managerDropped /\ commands = <<>> /\ ~hasProcess
  /\ phase' = "closed"
  /\ UNCHANGED <<clientVars, commands, state, generation, nextId, pending, slotVars,
                 cont, barrier, processVars, events, os>>

\* commands.recv() returns None: every handle is gone and the queue is empty.
ManagerDropped ==
  /\ phase = "select"
  /\ managerDropped /\ commands = <<>>
  /\ IF hasProcess THEN BeginReap("dropped", exitStatus)
                   ELSE phase' = "closed" /\ UNCHANGED <<cont, barrier>>
  /\ UNCHANGED <<clientVars, commands, state, generation, nextId, pending, slotVars,
                 processVars, events, os>>

Finish ==
  FinishFail \/ FinishCrash \/ FinishCancelStart \/ FinishGraceful \/ FinishDropped

-----------------------------------------------------------------------------
(* The actor task is aborted at an await: Drop for Actor and ActorAbortOwner *)

OwnsNothing ==
  /\ ~hasProcess /\ barrier = "none"
  /\ StreamCalls = {} /\ activeStatus = None

\* Without anything to own, dropping the receiver drops the queued senders; else
\* the abort owner takes everything over and aborts the pipe tasks.
Abort ==
  /\ phase \notin {"aborted", "closed"}
  /\ IF OwnsNothing
     THEN /\ phase' = "closed"
          /\ Answer(Queued, "Closed")
          /\ commands' = <<>>
          /\ UNCHANGED <<writerAlive, readerAlive>>
     ELSE /\ phase' = "aborted"
          /\ writerAlive' = FALSE
          /\ readerAlive' = FALSE
          /\ UNCHANGED <<reply, commands>>
  /\ UNCHANGED <<op, bound, managerDropped, state, generation, nextId, pending,
                 slotVars, cont, barrier, hasProcess, exitStatus, draining, writer,
                 events, os>>

\* The owner reaps the child itself, unless a detached reaper already has it.
AbortReap ==
  /\ phase = "aborted"
  /\ hasProcess /\ exitStatus = "unknown" /\ barrier = "none"
  /\ CollectExit
  /\ UNCHANGED <<clientVars, commands, state, generation, nextId, pending, slotVars,
                 controlVars, hasProcess, draining, writer, writerAlive,
                 readerAlive, events>>

\* try_reap and the barrier.  Mutant: a child handed to the detached reaper counts
\* as reaped, as try_reap alone has it.
OwnerReapedIgnoringBarrier ==
  hasProcess /\ barrier = "none" => exitStatus # "unknown"
OwnerReaped ==
  /\ barrier # "none" => barrier = "done"
  /\ barrier = "none" /\ hasProcess => exitStatus # "unknown"

\* fail_replies, after the reap or the barrier: every held reply, then the
\* commands still queued.
AbortFinish ==
  /\ phase = "aborted"
  /\ OwnerReaped
  /\ LET evaluated == {c \in Queued : op[c] = "NotEvaluated"}
     IN  Answer2(evaluated, "Ok", StreamCalls \cup Slot(activeStatus) \cup Queued, "Closed")
  /\ ClearStream
  /\ activeStatus' = None
  /\ commands' = <<>>
  /\ hasProcess' = FALSE
  /\ barrier' = "none"
  /\ phase' = "closed"
  /\ UNCHANGED <<op, bound, managerDropped, state, generation, nextId, cont,
                 exitStatus, draining, writer, writerAlive, readerAlive, events, os>>

-----------------------------------------------------------------------------
(* The pipe tasks and the child (external) *)

Emit(e) ==
  /\ Len(events) < MaxBacklog
  /\ events' = Append(events, e)

\* read_stdout forwards a frame the child wrote: the Hello, or any response.
ChildWrites ==
  /\ readerAlive
  /\ os[generation] = "running"
  /\ \/ Emit(Plain(generation, "hello"))
     \/ \E i \in Ids, r \in Results : Emit(Response(generation, i, r))
  /\ UNCHANGED <<clientVars, commands, state, generation, nextId, pending, slotVars,
                 controlVars, processVars, os>>

\* read_stdout meets the end of the pipe, or an undecodable stream, and returns.
StdoutEnds ==
  /\ readerAlive
  /\ \E k \in {"eof", "broken"} : Emit(Plain(generation, k))
  /\ readerAlive' = FALSE
  /\ UNCHANGED <<clientVars, commands, state, generation, nextId, pending, slotVars,
                 controlVars, hasProcess, exitStatus, draining, writer,
                 writerAlive, os>>

\* write_stdin writes the oldest frame, or fails on a child that is not reading
\* and returns.  A completed write reports an event that changes nothing.
StdinWrite ==
  /\ writerAlive
  /\ writer # <<>>
  /\ writer' = Tail(writer)
  /\ \/ UNCHANGED <<writerAlive, events>>
     \/ /\ Emit(WriteFailure(generation, Head(writer)))
        /\ writerAlive' = FALSE
  /\ UNCHANGED <<clientVars, commands, state, generation, nextId, pending, slotVars,
                 controlVars, hasProcess, exitStatus, draining, readerAlive, os>>

ChildExits ==
  /\ \E g \in Generations :
       /\ os[g] = "running"
       /\ \E s \in {"exitedOk", "exitedBad"} : os' = [os EXCEPT ![g] = s]
  /\ UNCHANGED <<clientVars, commands, state, generation, nextId, pending, slotVars,
                 controlVars, processVars, events>>

-----------------------------------------------------------------------------

Reaping == ReapWait \/ ReapTimeout \/ DetachedReap \/ BarrierWait \/ Finish
Deadlines == StartTimeout \/ ShutdownTimeout \/ RequestTimeout \/ DrainTimeout

Next ==
  \/ \E c \in Calls, o \in Operations : Submit(c, o)
  \/ DropManager
  \/ \E c \in Calls : Command(c)
  \/ SnapshotDone
  \/ HandleEvent
  \/ EofWaitDone
  \/ Deadlines
  \/ PollProcessExit
  \/ Reaping
  \/ ManagerDropped
  \/ Abort \/ AbortReap \/ AbortFinish
  \/ ChildWrites \/ StdoutEnds \/ StdinWrite \/ ChildExits

Spec == Init /\ [][Next]_vars

(***************************************************************************)
(* Fairness.  Every branch of the select loop is polled again after each   *)
(* handler, timers fire, blocked waits are bounded, and a killed child     *)
(* exits.  Callers, frames, pipe ends, voluntary exits and aborts are      *)
(* never forced.                                                           *)
(***************************************************************************)
KilledChildExits == phase \in {"reap", "barrier", "aborted"} /\ ChildExits

Fairness ==
  /\ WF_vars(\E c \in Calls : Command(c))
  /\ WF_vars(SnapshotDone)
  /\ WF_vars(EofWaitDone)
  /\ WF_vars(StartTimeout)
  /\ WF_vars(ShutdownTimeout)
  /\ WF_vars(RequestTimeout)
  /\ WF_vars(Reaping)
  /\ WF_vars(ManagerDropped)
  /\ WF_vars(AbortReap)
  /\ WF_vars(AbortFinish)
  /\ WF_vars(KilledChildExits)

FairSpec == Spec /\ Fairness

-----------------------------------------------------------------------------
(* Safety *)

TypeOK ==
  /\ op \in [Calls -> AllOperations \cup {"none"}]
  /\ reply \in [Calls -> Replies]
  /\ bound \in [Calls -> 0 .. MaxGeneration]
  /\ managerDropped \in BOOLEAN
  /\ commands \in Seq(Calls)
  /\ state \in States
  /\ generation \in 0 .. MaxGeneration
  /\ nextId \in 0 .. MaxRequestId
  /\ pending \in [Ids -> Calls \cup {None}]
  /\ start \in Calls \cup {None}
  /\ stop \in StopContexts
  /\ activeStatus \in Calls \cup {None}
  /\ primary \in Calls \cup {None}
  /\ deferredStop \in Calls \cup {None}
  /\ phase \in Phases
  /\ cont \in Continuations
  /\ hasProcess \in BOOLEAN
  /\ exitStatus \in Exits
  /\ draining \in BOOLEAN
  /\ writer \in Seq(Ids)
  /\ writerAlive \in BOOLEAN
  /\ readerAlive \in BOOLEAN
  /\ events \in Seq(Events)
  /\ barrier \in {"none", "waiting", "done"}
  /\ os \in [Generations -> OsStates]

\* No child outlives its owner: an unreaped process is the current generation's,
\* the actor (or its abort owner) still holds it, and nobody has been told that
\* the task is over.  Hence there is never more than one.
NoOrphan ==
  \A g \in Generations :
    os[g] \in Unreaped =>
      g = generation /\ hasProcess /\ exitStatus = "unknown" /\ phase # "closed"

\* The answer of c says that the stream c was accepted for is over.
StreamEnded(c) ==
  \/ reply[c] \in {"Failed", "Cancelled"}
  \/ op[c] = "Stop" /\ reply[c] = "Ok"

\* The documented reap barrier: whoever learns that a stream failed, that its
\* start was cancelled, that a stop succeeded, or that the manager has closed,
\* learns it after the child concerned has been reaped.
ReplyAfterReap ==
  \A c \in Calls :
    /\ bound[c] # 0 /\ StreamEnded(c) => os[bound[c]] \notin Unreaped
    /\ reply[c] = "Closed" => \A g \in Generations : os[g] \notin Unreaped

\* The senders the actor owns.
Held == Queued \cup StreamCalls \cup Slot(activeStatus)

\* No accepted call is lost and none is answered twice: a caller that waits is
\* owned by exactly the queue or one slot of the actor, and an answered one by none.
ReplyConservation ==
  \A c \in Calls :
    /\ reply[c] = "waiting" => c \in Held
    /\ reply[c] \notin {"waiting", "abandoned"} => c \notin Held

\* What the handlers rely on between two awaits: the process, the contexts and
\* the state agree, and the slots of the failure path are free, which the
\* debug_asserts of fail_stream_deferred and start_detached_process_reap demand.
\* The end of stdout that the actor acts on is the current child's, not one that an
\* earlier child left in the queue; and a stream is only taken for crashed when the
\* exit has been seen, never while the child may be running.
StateMatchesContexts ==
  /\ phase \in {"select", "snapshot", "eofWait"} =>
       /\ hasProcess <=> state \in {"Starting", "Connected", "Stopping"}
       /\ stop.id # 0 <=> state = "Stopping"
       /\ start # None <=> \/ state = "Starting"
                           \/ phase = "snapshot" /\ activeStatus = None
       /\ PendingIds # {} => state \in {"Connected", "Stopping"}
       /\ primary = None /\ deferredStop = None /\ barrier = "none"
  /\ stop.eof \/ phase = "eofWait" => ~readerAlive
  /\ phase \in {"reap", "barrier"} => cont # "crash"

\* The two bounds callers are promised: requests in flight, and Stop callers
\* that share one shutdown.
Bounded ==
  /\ Cardinality(PendingIds) <= MaxInFlight
  /\ Cardinality(stop.waiters) <= MaxWaiters

\* An ID in use was handed out before and is never handed out again, in this
\* generation or a later one; Shutdown shares the counter with the requests.
RequestIdsFresh ==
  LET inUse == PendingIds \cup ({stop.id} \ {0})
  IN  /\ \A i \in inUse : nextId = 0 \/ i < nextId
      /\ stop.id \notin PendingIds

-----------------------------------------------------------------------------
(* Action properties and liveness *)

\* A Stop answered with anything but a refusal leaves no process behind, on the
\* graceful path, on a cancelled start and on every failure path.
StopLeavesNoChild ==
  [][\A c \in Calls :
       (/\ op[c] = "Stop"
        /\ reply[c] = "waiting"
        /\ reply'[c] \notin {"waiting", "abandoned", "Rejected"})
       => \A g \in Generations : os'[g] \notin Unreaped]_vars

\* A shutdown ends in Stopped only after the Shutdown response, the clean end of
\* stdout and a zero exit, in whichever order the actor saw them.
GracefulMeansComplete ==
  [][state = "Stopping" /\ state' = "Stopped" =>
       stop.response /\ stop.eof /\ exitStatus = "ok"]_vars

\* Every accepted call is answered or given up by its caller, whatever the child
\* and its pipes do and even if the actor task is aborted.
EveryCallAnswered ==
  \A c \in Calls : reply[c] = "waiting" ~> reply[c] # "waiting"

\* Once nobody holds the manager, or its task is aborted, the actor ends and no
\* child is left.
NoChildSurvivesManager ==
  (managerDropped \/ phase = "aborted") ~>
    (phase = "closed" /\ \A g \in Generations : os[g] \notin Unreaped)

-----------------------------------------------------------------------------
(* The service the actor implements *)

ChildUnreaped == \E g \in Generations : os[g] \in Unreaped

Service == INSTANCE RuntimeService WITH
  child <- ChildUnreaped,
  closed <- (phase = "closed")

\* Every behaviour of the actor is one of the service its callers were promised:
\* no state and no answer says that the process is over while it is unreaped, a
\* Start or a Stop is refused only for the reasons given there, and every call gets
\* at most one answer, of a kind its operation may have.
ImplementsService == Service!Spec

=============================================================================
