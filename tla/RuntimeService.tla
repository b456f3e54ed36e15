--------------------------- MODULE RuntimeService ---------------------------
(***************************************************************************)
(* What RuntimeManager promises its callers, without queues, slots, pipes  *)
(* or awaits: a state and its generation, a child that exists or not, and  *)
(* one answer per call.  A state that says the Runtime is not running is   *)
(* only entered, and an answer that says so only given, when the child is  *)
(* gone.  RuntimeManager is checked to implement it; Desktop is its client.*)
(***************************************************************************)
EXTENDS Integers, FiniteSets

CONSTANTS
  Calls, Operations,
  MaxGeneration,   \* the largest process generation (u64::MAX)
  MaxWaiters       \* Stop callers that may share one shutdown

ASSUME ServiceAssumption == IsFiniteSet(Calls) /\ MaxGeneration \in Nat /\ MaxWaiters \in Nat

VARIABLES
  state, generation,   \* StateModel.state and .generation
  child,     \* an unreaped process exists
  closed,    \* the actor has ended
  op, reply  \* per call

serviceVars == <<state, generation, child, closed, op, reply>>

Idle == {"Stopped", "Crashed", "Error"}
Active == {"Starting", "Connected", "Stopping"}
States == Idle \cup Active
Replies == {"idle", "waiting", "Ok", "Remote", "Rejected", "Failed", "Cancelled",
            "Closed", "abandoned"}
Waiting == {c \in Calls : reply[c] = "waiting"}
Asked(o) == {c \in Calls : op[c] = o /\ reply[c] \in {"waiting", "abandoned"}}

Init ==
  /\ state = "Stopped"
  /\ generation = 0
  /\ child = FALSE
  /\ closed = FALSE
  /\ op = [c \in Calls |-> "none"]
  /\ reply = [c \in Calls |-> "idle"]

\* A caller that has given up is not told.
Reply(c, r) ==
  /\ reply[c] \in {"waiting", "abandoned"}
  /\ reply' = [reply EXCEPT ![c] = IF @ = "waiting" THEN r ELSE @]

Submit(c, o) ==
  /\ reply[c] = "idle"
  /\ op' = [op EXCEPT ![c] = o]
  /\ reply' = [reply EXCEPT ![c] = IF closed THEN "Closed" ELSE "waiting"]
  /\ UNCHANGED <<state, generation, child, closed>>

\* The caller takes its answer; its ticket may serve another call.
Collect(c) ==
  /\ reply[c] \notin {"idle", "waiting", "abandoned"}
  /\ op' = [op EXCEPT ![c] = "none"]
  /\ reply' = [reply EXCEPT ![c] = "idle"]
  /\ UNCHANGED <<state, generation, child, closed>>

CanLaunch ==
  state \in Idle /\ ~child /\ ~closed /\ generation < MaxGeneration

\* begin_start, with a process; and its failure to spawn one.
Launch ==
  /\ CanLaunch
  /\ Asked("Start") # {}
  /\ state' = "Starting"
  /\ generation' = generation + 1
  /\ child' = TRUE
  /\ UNCHANGED <<closed, op, reply>>

LaunchFails(c) ==
  /\ CanLaunch
  /\ op[c] = "Start"
  /\ state' = "Error"
  /\ generation' = generation + 1
  /\ Reply(c, "Failed")
  /\ UNCHANGED <<child, closed, op>>

\* connected and begin_stop
Advance ==
  /\ ~closed
  /\ \/ state = "Starting" /\ state' = "Connected"
     \/ state = "Connected" /\ Asked("Stop") # {} /\ state' = "Stopping"
  /\ UNCHANGED <<generation, child, closed, op, reply>>

Reaped ==
  /\ child
  /\ child' = FALSE
  /\ UNCHANGED <<state, generation, closed, op, reply>>

\* stopped, crashed and failed: what a caller is told when the process it was
\* waiting on has ended in state s.
Verdict(o, s) ==
  IF s = "Stopped" /\ o = "Stop" THEN "Ok"
  ELSE IF s = "Stopped" /\ o = "Start" THEN "Cancelled"
  ELSE "Failed"

\* Only a Stop ends a stream in Stopped, and never one that is still connected.
Outcomes ==
  {s \in Idle : s = "Stopped" => state # "Connected" /\ Asked("Stop") # {}}

SettledIn(s) ==
  /\ state \in Active /\ ~closed
  /\ state' = s
  /\ \E S \in SUBSET Waiting :
       reply' = [c \in Calls |-> IF c \in S THEN Verdict(op[c], s) ELSE reply[c]]
  /\ UNCHANGED <<generation, child, closed, op>>

\* Mutant: the callers are told while the child is still there.
SettleEarly == \E s \in Outcomes : SettledIn(s)

Settle == ~child /\ \E s \in Outcomes : SettledIn(s)

\* A Stop of what is not running acknowledges the failure, if there was one.
Acknowledge(c) ==
  /\ state \in Idle /\ ~child /\ ~closed
  /\ op[c] = "Stop"
  /\ state' = "Stopped"
  /\ Reply(c, "Ok")
  /\ UNCHANGED <<generation, child, closed, op>>

\* Enough other Stop callers to fill the waiter set of one shutdown.
OthersFillWaiters(c) ==
  Cardinality(Asked("Stop") \ {c}) >= MaxWaiters

\* An answer while the actor goes on: a result of a connected Runtime, a status,
\* or a refusal.
Respond(c) ==
  /\ ~closed
  /\ \/ /\ op[c] \in {"Request", "Observe"}
        /\ \/ state \in {"Connected", "Stopping"} /\ \E r \in {"Ok", "Remote"} : Reply(c, r)
           \/ Reply(c, "Rejected")
     \/ op[c] = "Start" /\ state = "Connected" /\ Reply(c, "Ok")
     \/ /\ op[c] = "Start" /\ Reply(c, "Rejected")
        /\ state \notin Idle \/ generation = MaxGeneration
     \/ op[c] = "Stop" /\ state = "Stopping" /\ OthersFillWaiters(c) /\ Reply(c, "Rejected")
     \/ op[c] \in {"Status", "NotEvaluated"} /\ Reply(c, "Ok")
  /\ UNCHANGED <<state, generation, child, closed, op>>

Abandon ==
  /\ reply' = [c \in Calls |-> IF c \in Waiting THEN "abandoned" ELSE reply[c]]
  /\ UNCHANGED <<state, generation, child, closed, op>>

\* The actor ends, after the child has, and leaves no caller waiting.
Close ==
  /\ ~closed /\ ~child
  /\ closed' = TRUE
  /\ \E S \in SUBSET {c \in Waiting : op[c] = "NotEvaluated"} :
       reply' = [c \in Calls |-> IF c \in S THEN "Ok"
                                 ELSE IF c \in Waiting THEN "Closed" ELSE reply[c]]
  /\ UNCHANGED <<state, generation, child, op>>

Next ==
  \/ \E c \in Calls, o \in Operations : Submit(c, o)
  \/ Launch \/ Advance \/ Reaped \/ Settle \/ Abandon \/ Close
  \/ \E c \in Calls : Collect(c) \/ LaunchFails(c) \/ Acknowledge(c) \/ Respond(c)

Spec == Init /\ [][Next]_serviceVars

-----------------------------------------------------------------------------

\* The state published to callers never hides a process: whatever Status says is
\* not running has no process.
NotRunningMeansGone == state \in Idle \/ closed => ~child

=============================================================================
