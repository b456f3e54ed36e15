------------------------------- MODULE Desktop -------------------------------
(***************************************************************************)
(* The desktop application on top of the RuntimeManager service: the page  *)
(* with its one pending action, the Tauri commands it invokes, each a Rust *)
(* task that goes on when the page that asked is gone, and the exit        *)
(* coordinator.  RuntimeService says what the manager may do meanwhile.    *)
(*                                                                         *)
(* A command is one call ticket of the service.  The capability query uses *)
(* its ticket twice, for an observation and then for a status; a restart   *)
(* can come between the two.                                               *)
(***************************************************************************)
EXTENDS RuntimeService

CONSTANTS
  ExitCall,    \* the ticket of the Stop that the exit's cleanup makes
  None

Commands == Calls \ {ExitCall}
Statuses == [state : States, generation : 0 .. MaxGeneration]
Observations == [generation : 0 .. MaxGeneration,
                 kind : {"inconclusive", "observed"},
                 seen : Statuses \cup {None}]

ASSUME DesktopAssumption ==
  ExitCall \in Calls /\ None \notin Statuses /\ None \notin Observations

Status(s, g) == [state |-> s, generation |-> g]

VARIABLES
  answer,        \* per call: the status its answer carries, None for a plain error
  observation,   \* per command: the CapabilityObservation of a query, or None
  shown,         \* ViewState.status, None before the page is first mounted
  pending,       \* the commands the page waits for: ViewState.pending
  capability,    \* ViewState.capability, or None
  exitPhase,     \* ExitCoordinator.phase
  cleanup,       \* the cleanup task: none, spawned, waiting, finishing
  expired,       \* history: its timeout came first
  exited         \* the event loop has ended, and with it the process

taskVars == <<answer, observation>>
pageVars == <<shown, pending, capability>>
exitVars == <<exitPhase, cleanup, expired, exited>>
vars == <<serviceVars, taskVars, pageVars, exitVars>>

InitialStatus == Status("Stopped", 0)

DesktopInit ==
  /\ Init
  /\ answer = [c \in Calls |-> None]
  /\ observation = [c \in Calls |-> None]
  /\ shown = None
  /\ pending = {}
  /\ capability = None
  /\ exitPhase = "ready"
  /\ cleanup = "none"
  /\ expired = FALSE
  /\ exited = FALSE

-----------------------------------------------------------------------------
(* The manager: a step of the service, and what its answers are made of.  An  *)
(* observation is stamped with a generation even when the query failed.       *)

ManagerStep ==
  \/ Launch \/ Advance \/ Reaped \/ Settle
  \/ \E c \in Calls : LaunchFails(c) \/ Acknowledge(c) \/ Respond(c)

Carries(c, r) == r = "Ok" \/ c = ExitCall \/ op[c] = "Observe"

Serve ==
  /\ ~exited
  /\ ManagerStep
  /\ LET told == {c \in Calls : reply[c] = "waiting" /\ reply'[c] # "waiting"}
     IN  answer' = [c \in Calls |-> IF c \in told /\ Carries(c, reply'[c])
                                    THEN Status(state', generation') ELSE answer[c]]
  /\ UNCHANGED <<observation, pageVars, exitVars>>

-----------------------------------------------------------------------------
(* Commands: the Tauri tasks *)

Answered(c) == reply[c] \notin {"idle", "waiting"}
Free(t) == reply[t] = "idle" /\ observation[t] = None

\* The command has its answer and lets the oneshot go.
Receive(t) ==
  /\ Collect(t)
  /\ answer' = [answer EXCEPT ![t] = None]

\* get_runtime_capabilities has its observation, and goes on to ask the status.
\* seen is history: the status at which a Runtime was really observed.
TakeObservation(t) ==
  /\ ~exited
  /\ op[t] = "Observe" /\ Answered(t)
  /\ observation' = [observation EXCEPT ![t] =
       [generation |-> answer[t].generation,
        kind |-> IF reply[t] = "Ok" THEN "observed" ELSE "inconclusive",
        seen |-> IF reply[t] = "Ok" THEN answer[t] ELSE None]]
  /\ Receive(t)
  /\ UNCHANGED <<pageVars, exitVars>>

AskStatus(t) ==
  /\ ~exited
  /\ observation[t] # None /\ reply[t] = "idle"
  /\ Submit(t, "Status")
  /\ UNCHANGED <<taskVars, pageVars, exitVars>>

Finished(t) == Answered(t) /\ op[t] # "Observe"

\* Mutant: the generations are not compared.
ProfileExistsUnchecked(s, o) == s.state = "Connected" \/ o.kind = "notEvaluated"

\* The errors of RuntimeStatus::capability_profile for the status s and the
\* observation o: StaleObservation, InvalidManagerGeneration, ObservationNotAllowed.
ProfileExists(s, o) ==
  /\ s.generation = o.generation
  /\ s.state = "Stopped" \/ s.generation # 0
  /\ s.state = "Connected" \/ o.kind = "notEvaluated"

\* "native" is what the Runtime itself reported of its engine.
EngineAvailability(health, kind) ==
  CASE health = "Starting" -> "notEvaluated"
    [] health = "Connected" /\ kind = "notEvaluated" -> "notEvaluated"
    [] health = "Connected" /\ kind = "inconclusive" -> "unknown"
    [] health = "Connected" /\ kind = "observed" -> "native"
    [] OTHER -> "unavailable"

\* What the page gets of a CapabilityProfile.
Profile(s, o) ==
  [generation |-> s.generation, engine |-> EngineAvailability(s.state, o.kind), seen |-> o.seen]

-----------------------------------------------------------------------------
(* The page *)

\* mountDesktop, with its first status call: when the window is created, and after
\* every reload, when what the commands still running answer is lost.
Mount(t) ==
  /\ exitPhase = "ready"
  /\ Free(t)
  /\ Submit(t, "Status")
  /\ shown' = InitialStatus
  /\ pending' = {t}
  /\ capability' = None
  /\ UNCHANGED <<taskVars, exitVars>>

\* The buttons that render leaves enabled, but for the pending action.
Enabled(o) ==
  /\ shown # None
  /\ \/ o = "Status"
     \/ o = "Start" /\ shown.state \in Idle
     \/ o \in {"Stop", "Request", "Observe"} /\ shown.state = "Connected"

\* Mutant: a second action while one is pending.
PressAnyTime(t, o) ==
  /\ ~exited
  /\ Enabled(o)
  /\ Free(t)
  /\ Submit(t, o)
  /\ pending' = pending \cup {t}
  /\ UNCHANGED <<taskVars, shown, capability, exitVars>>

\* action(): returns at once while another action is pending.
Press(t, o) ==
  /\ pending = {}
  /\ PressAnyTime(t, o)

\* The awaited command has finished: a status or a profile is accepted, an error
\* leaves what was shown, and the controls come back.
Accept(t) ==
  /\ ~exited
  /\ t \in pending /\ Finished(t)
  /\ pending' = pending \ {t}
  /\ LET status == op[t] \in {"Start", "Stop", "Status"} /\ reply[t] = "Ok"
         query  == observation[t] # None
     IN  /\ shown' = IF status /\ ~query THEN answer[t] ELSE shown
         /\ capability' = IF status /\ query /\ ProfileExists(answer[t], observation[t])
                          THEN Profile(answer[t], observation[t]) ELSE capability
  /\ observation' = [observation EXCEPT ![t] = None]
  /\ Receive(t)
  /\ UNCHANGED exitVars

\* A command of a page that is gone.
Lose(t) ==
  /\ ~exited
  /\ t \notin pending /\ Finished(t)
  /\ observation' = [observation EXCEPT ![t] = None]
  /\ Receive(t)
  /\ UNCHANGED <<pageVars, exitVars>>

-----------------------------------------------------------------------------
(* Exit *)

WindowCloses ==
  /\ shown' = None
  /\ pending' = {}
  /\ capability' = None

\* RunEvent::ExitRequested in the event loop: the first, when the window has been
\* closed, starts the cleanup; others during it are prevented; and in the final
\* phase the process ends.
RequestExit ==
  /\ ~exited
  /\ \/ /\ exitPhase = "ready"
        /\ exitPhase' = "cleaning"
        /\ cleanup' = "spawned"
        /\ WindowCloses
        /\ UNCHANGED exited
     \/ /\ exitPhase = "final"
        /\ exited' = TRUE
        /\ UNCHANGED <<exitPhase, cleanup, pageVars>>
  /\ UNCHANGED <<serviceVars, taskVars, expired>>

CleanupStops ==
  /\ ~exited
  /\ cleanup = "spawned"
  /\ cleanup' = "waiting"
  /\ Submit(ExitCall, "Stop")
  /\ UNCHANGED <<taskVars, pageVars, exitPhase, expired, exited>>

\* Mutant: the cleanup does not wait for the manager's answer.
CleanupDoneUnanswered ==
  /\ ~exited
  /\ cleanup = "waiting"
  /\ cleanup' = "finishing"
  /\ exitPhase' = "final"
  /\ UNCHANGED <<serviceVars, taskVars, pageVars, expired, exited>>

CleanupDone ==
  /\ Answered(ExitCall)
  /\ CleanupDoneUnanswered

\* Mutant: after the timeout the phase is left as it is.
CleanupExpiresCleaning ==
  /\ ~exited
  /\ cleanup \in {"spawned", "waiting"}
  /\ cleanup' = "finishing"
  /\ expired' = TRUE
  /\ UNCHANGED <<serviceVars, taskVars, pageVars, exitPhase, exited>>

\* EXIT_CLEANUP_TIMEOUT: the cleanup is dropped, wherever it is.
CleanupExpires ==
  /\ ~exited
  /\ cleanup \in {"spawned", "waiting"}
  /\ cleanup' = "finishing"
  /\ exitPhase' = "final"
  /\ expired' = TRUE
  /\ UNCHANGED <<serviceVars, taskVars, pageVars, exited>>

\* final_exit asks the event loop for an exit of its own, which is a request in the
\* final phase; one that came before it may have ended the process already.
FinalExit ==
  /\ cleanup = "finishing"
  /\ RequestExit

DesktopNext ==
  \/ Serve
  \/ \E t \in Commands :
       \/ TakeObservation(t) \/ AskStatus(t) \/ Mount(t) \/ Accept(t) \/ Lose(t)
       \/ \E o \in Operations : Press(t, o)
  \/ RequestExit \/ CleanupStops \/ CleanupDone \/ CleanupExpires

\* The timer of the cleanup task fires, and the event loop takes the request that the
\* task posts.  Nothing is assumed of the manager, the user or the page.
Fairness ==
  /\ WF_vars(CleanupDone \/ CleanupExpires)
  /\ WF_vars(FinalExit)

DesktopSpec == DesktopInit /\ [][DesktopNext]_vars /\ Fairness

-----------------------------------------------------------------------------

TypeOK ==
  /\ state \in States
  /\ generation \in 0 .. MaxGeneration
  /\ child \in BOOLEAN /\ closed = FALSE
  /\ op \in [Calls -> Operations \cup {"none", "Status", "Stop"}]
  /\ reply \in [Calls -> Replies]
  /\ answer \in [Calls -> Statuses \cup {None}]
  /\ observation \in [Calls -> Observations \cup {None}]
  /\ shown \in Statuses \cup {None}
  /\ pending \subseteq Commands
  /\ capability \in {None} \cup [generation : 0 .. MaxGeneration,
                                 engine : {"native", "unknown"},
                                 seen : Statuses \cup {None}]
  /\ exitPhase \in {"ready", "cleaning", "final"}
  /\ cleanup \in {"none", "spawned", "waiting", "finishing"}
  /\ expired \in BOOLEAN /\ exited \in BOOLEAN

\* Where a status stands in the life of the manager: generations follow each other,
\* each from starting to connected to stopping to not running.
Stage(st) ==
  CASE st = "Starting" -> 0
    [] st = "Connected" -> 1
    [] st = "Stopping" -> 2
    [] OTHER -> 3

Rank(s) == 4 * s.generation + Stage(s.state)

\* A profile with what the Runtime said of its engine was observed on the very
\* connection whose generation it carries, although two calls made it and the Runtime
\* may have been restarted between them.
ProfileOfOneConnection ==
  capability # None /\ capability.engine = "native" =>
    capability.seen = Status("Connected", capability.generation)

\* One page never shows a status older than the one it showed before.
ShownNeverGoesBack ==
  [][None \notin {shown, shown'} /\ pending' \subseteq pending =>
       Rank(shown') >= Rank(shown)]_vars

\* An application that ended without its timeout has the answer of the Stop its exit
\* made; unless the manager refused it, the child it stopped is gone, and a child
\* that is left was started after that.
ExitLeavesNoChild ==
  exited /\ ~expired =>
    /\ Answered(ExitCall)
    /\ reply[ExitCall] # "Rejected" /\ child => generation > answer[ExitCall].generation

\* Whatever the manager does, an application that was asked to exit exits.
ExitHappens == exitPhase # "ready" ~> exited

\* What a restart leaves on the page: the profile shown is of the generation shown.
ProfileIsCurrent == capability # None => capability.generation = shown.generation

=============================================================================
