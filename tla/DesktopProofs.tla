---------------------------- MODULE DesktopProofs ----------------------------
(* What follows from the service alone, and for the desktop built on it *)
EXTENDS Desktop, TLAPS

\* A step of the manager never frees a state that says "not running" of its child.
LEMMA ManagerKeepsGone ==
  ASSUME NotRunningMeansGone,
         \/ ManagerStep \/ Abandon \/ Close \/ UNCHANGED serviceVars
         \/ \E c \in Calls : Collect(c) \/ \E o \in Operations : Submit(c, o)
  PROVE  NotRunningMeansGone'
<1> USE DEF NotRunningMeansGone
<1>1. CASE Launch
  BY <1>1 DEF Launch, CanLaunch, Idle
<1>2. CASE Advance
  BY <1>2 DEF Advance, Idle
<1>3. CASE Reaped
  BY <1>3 DEF Reaped
<1>4. CASE Settle
  BY <1>4 DEF Settle, SettledIn
<1>5. CASE Abandon \/ Close \/ UNCHANGED serviceVars
  BY <1>5 DEF Abandon, Close, serviceVars
<1>6. ASSUME NEW c \in Calls, LaunchFails(c) \/ Acknowledge(c) \/ Respond(c)
      PROVE  NotRunningMeansGone'
  BY <1>6 DEF LaunchFails, CanLaunch, Acknowledge, Respond
<1>7. ASSUME NEW c \in Calls, Collect(c) \/ \E o \in Operations : Submit(c, o)
      PROVE  NotRunningMeansGone'
  BY <1>7 DEF Collect, Submit
<1> QED
  BY <1>1, <1>2, <1>3, <1>4, <1>5, <1>6, <1>7 DEF ManagerStep

\* The state callers are shown never hides a process: neither a Runtime reported as
\* not running nor a closed manager has a child.
THEOREM NotRunningMeansGoneHolds == Spec => []NotRunningMeansGone
<1>1. Init => NotRunningMeansGone
  BY DEF Init, NotRunningMeansGone
<1>2. NotRunningMeansGone /\ [Next]_serviceVars => NotRunningMeansGone'
  BY ManagerKeepsGone DEF Next, ManagerStep
<1> QED
  BY <1>1, <1>2, PTL DEF Spec

-----------------------------------------------------------------------------
(* The inductive invariant of the desktop.  Rank orders what the manager says in  *)
(* time; every status held by somebody, an answer not yet taken, an observation   *)
(* or the page, lies in the past of the manager, and in the order it was got.     *)

Now == Status(state, generation)

NoGenerationIsIdle == generation = 0 => state \in Idle

\* What an answer carries, and that it is not newer than the manager.
AnswersSound ==
  \A c \in Calls :
    /\ reply[c] \in {"idle", "waiting"} => answer[c] = None
    /\ answer[c] # None => Rank(answer[c]) <= Rank(Now)
    /\ Answered(c) /\ (reply[c] = "Ok" \/ op[c] = "Observe" \/ c = ExitCall) => answer[c] # None
    /\ reply[c] = "Ok" /\ op[c] = "Observe" => answer[c].state \in {"Connected", "Stopping"}

\* What was observed was observed before the status that is put together with it.
ObservationsSound ==
  \A t \in Commands :
    observation[t] # None /\ observation[t].kind = "observed" =>
      /\ observation[t].seen \in Statuses
      /\ observation[t].seen.generation = observation[t].generation
      /\ observation[t].seen.state \in {"Connected", "Stopping"}
      /\ Rank(observation[t].seen) <= Rank(Now)
      /\ answer[t] # None => Rank(observation[t].seen) <= Rank(answer[t])

\* The page waits for one command, whose answer is not older than what it shows.
PageSound ==
  /\ shown # None => Rank(shown) <= Rank(Now)
  /\ \A t \in pending : ~Free(t) /\ (shown # None /\ answer[t] # None => Rank(shown) <= Rank(answer[t]))
  /\ \A t, u \in pending : t = u

\* The phase follows the cleanup, and the cleanup the answer to its Stop.
ExitSound ==
  /\ exitPhase = "ready" <=> cleanup = "none"
  /\ exitPhase = "final" <=> cleanup = "finishing"
  /\ exited => exitPhase = "final"
  /\ cleanup \in {"none", "spawned"} => reply[ExitCall] = "idle"
  /\ reply[ExitCall] # "idle" => op[ExitCall] = "Stop"
  /\ cleanup = "finishing" /\ ~expired => Answered(ExitCall)
  /\ Answered(ExitCall) /\ reply[ExitCall] # "Rejected" /\ child =>
       generation > answer[ExitCall].generation

Inv ==
  /\ TypeOK /\ NotRunningMeansGone /\ NoGenerationIsIdle
  /\ AnswersSound /\ ObservationsSound /\ PageSound /\ ExitSound
  /\ ProfileOfOneConnection

LEMMA StageRange ==
  ASSUME NEW s \in States  PROVE  Stage(s) \in 0 .. 3 /\ (s \in Idle <=> Stage(s) = 3)
BY DEF Stage, States, Idle, Active

LEMMA RankRange ==
  ASSUME NEW s \in Statuses
  PROVE  /\ Rank(s) \in Nat
         /\ 4 * s.generation <= Rank(s) /\ Rank(s) <= 4 * s.generation + 3
         /\ s.generation \in Nat /\ s.state \in States
BY StageRange, ServiceAssumption DEF Rank, Statuses

LEMMA Bounds == MaxGeneration \in Nat /\ 0 .. MaxGeneration \subseteq Nat
BY ServiceAssumption

-----------------------------------------------------------------------------
(* The service as the desktop relies on it *)

\* A caller that is told something was waiting, and is told it once.
Told(c) == reply[c] = "waiting" /\ reply'[c] \notin {"idle", "waiting"}

\* What a step of the manager may do, in the terms of the invariant.
ManagerFacts ==
  /\ op' = op /\ closed' = closed
  /\ state' \in States /\ generation' \in 0 .. MaxGeneration /\ child' \in BOOLEAN
  /\ reply' \in [Calls -> Replies]
  /\ \A c \in Calls : reply'[c] = reply[c] \/ Told(c)
  /\ Rank(Now) <= Rank(Now')
  /\ NoGenerationIsIdle'
  /\ child' => child \/ generation < generation'
  /\ generation <= generation'
  /\ \A c \in Calls : Told(c) =>
       /\ op[c] = "Observe" /\ reply'[c] = "Ok" => state' \in {"Connected", "Stopping"}
       /\ op[c] = "Stop" /\ reply'[c] # "Rejected" => ~child'

LEMMA ManagerKeepsFacts ==
  ASSUME TypeOK, NoGenerationIsIdle, ManagerStep
  PROVE  ManagerFacts
<1> USE Bounds DEF TypeOK, NoGenerationIsIdle, ManagerFacts, Told, Now, Rank, Status, Stage,
      States, Idle, Active, Replies
<1>1. CASE Launch
  BY <1>1 DEF Launch, CanLaunch
<1>2. CASE Advance
  BY <1>2 DEF Advance
<1>3. CASE Reaped
  <2>1. UNCHANGED <<state, generation, closed, op, reply>> /\ child' = FALSE
    BY <1>3 DEF Reaped
  <2>2. Rank(Now) <= Rank(Now') /\ NoGenerationIsIdle'
    BY <2>1, StageRange
  <2>3. generation <= generation' /\ state' \in States /\ generation' \in 0 .. MaxGeneration
    BY <2>1
  <2>4. \A c \in Calls : reply'[c] = reply[c] /\ ~Told(c)
    BY <2>1
  <2>5. op' = op /\ closed' = closed /\ reply' \in [Calls -> Replies]
    BY <2>1
  <2> HIDE DEF Now, NoGenerationIsIdle, Told, States, Replies
  <2> QED
    BY <2>1, <2>2, <2>3, <2>4, <2>5, Zenon
<1>4. CASE Settle
  BY <1>4 DEF Settle, SettledIn, Outcomes, Verdict, Waiting
<1>5. ASSUME NEW c \in Calls, LaunchFails(c)  PROVE  ManagerFacts
  BY <1>5 DEF LaunchFails, CanLaunch, Reply
<1>6. ASSUME NEW c \in Calls, Acknowledge(c)  PROVE  ManagerFacts
  BY <1>6 DEF Acknowledge, Reply
<1>7. ASSUME NEW c \in Calls, Respond(c)  PROVE  ManagerFacts
  BY <1>7 DEF Respond, Reply
<1> QED
  BY <1>1, <1>2, <1>3, <1>4, <1>5, <1>6, <1>7 DEF ManagerStep

-----------------------------------------------------------------------------
(* The steps of the desktop *)

LEMMA InitInv == DesktopInit => Inv
<1> SUFFICES ASSUME DesktopInit  PROVE Inv
  OBVIOUS
<1> USE Bounds, DesktopAssumption DEF DesktopInit, Init
<1>1. TypeOK
  <2>1. state \in States /\ generation \in 0 .. MaxGeneration /\ reply \in [Calls -> Replies]
    BY DEF States, Idle, Replies
  <2> QED
    BY <2>1 DEF TypeOK
<1>2. AnswersSound /\ ObservationsSound /\ PageSound
  BY DEF AnswersSound, ObservationsSound, PageSound, Answered, Commands
<1>3. ExitSound
  BY DEF ExitSound, Answered
<1> QED
  BY <1>1, <1>2, <1>3 DEF Inv, NotRunningMeansGone, NoGenerationIsIdle, Idle, ProfileOfOneConnection

LEMMA ServeKeeps ==
  ASSUME Inv, Serve  PROVE  Inv'
<1>1. TypeOK /\ NoGenerationIsIdle /\ ManagerStep /\ UNCHANGED <<observation, pageVars, exitVars>>
  BY DEF Inv, Serve
<1>2. ManagerFacts
  BY <1>1, ManagerKeepsFacts
<1>3. \A c \in Calls : answer'[c] = IF Told(c) /\ Carries(c, reply'[c]) THEN Now' ELSE answer[c]
  BY <1>2 DEF Serve, ManagerFacts, Told, Now, Status
<1>4. TypeOK'
  <2>1. Now' \in Statuses
    BY <1>2 DEF ManagerFacts, Now, Status, Statuses
  <2>2. answer' \in [Calls -> Statuses \cup {None}]
    BY <1>1, <1>2, <1>3, <2>1 DEF Serve, TypeOK, Now, Status
  <2> QED
    BY <1>1, <1>2, <2>2 DEF TypeOK, ManagerFacts, pageVars, exitVars
<1>5. NotRunningMeansGone'
  BY <1>1, ManagerKeepsGone DEF Inv
<1>6. /\ Now \in Statuses /\ Now' \in Statuses /\ Rank(Now) <= Rank(Now')
      /\ Rank(Now) \in Nat /\ Rank(Now') \in Nat /\ Now' # None
  <2>1. Now \in Statuses /\ Now' \in Statuses
    BY <1>1, <1>2 DEF TypeOK, ManagerFacts, Now, Status, Statuses
  <2> QED
    BY <1>2, <2>1, RankRange, DesktopAssumption DEF ManagerFacts
<1>7. AnswersSound'
  <2> SUFFICES ASSUME NEW c \in Calls
               PROVE  /\ reply'[c] \in {"idle", "waiting"} => answer'[c] = None
                      /\ answer'[c] # None => Rank(answer'[c]) <= Rank(Now')
                      /\ Answered(c)' /\ (reply'[c] = "Ok" \/ op'[c] = "Observe" \/ c = ExitCall)
                           => answer'[c] # None
                      /\ reply'[c] = "Ok" /\ op'[c] = "Observe"
                           => answer'[c].state \in {"Connected", "Stopping"}
    BY <1>1 DEF AnswersSound, Answered
  <2>1. CASE Told(c)
    BY <2>1, <1>2, <1>3, <1>6 DEF Inv, AnswersSound, ManagerFacts, Told, Answered, Carries, Now, Status
  <2>2. CASE reply'[c] = reply[c] /\ ~Told(c)
    <3>1. answer'[c] = answer[c] /\ op'[c] = op[c]
      BY <2>2, <1>2, <1>3 DEF ManagerFacts
    <3>2. answer[c] # None => Rank(answer[c]) \in Nat
      BY <1>1, RankRange DEF TypeOK
    <3> QED
      BY <2>2, <3>1, <3>2, <1>6 DEF Inv, AnswersSound, Answered
  <2> QED
    BY <2>1, <2>2, <1>2 DEF ManagerFacts
<1>8. ObservationsSound'
  <2> SUFFICES ASSUME NEW t \in Commands, observation[t] # None, observation[t].kind = "observed"
               PROVE  /\ observation[t].seen \in Statuses
                      /\ observation[t].seen.generation = observation[t].generation
                      /\ observation[t].seen.state \in {"Connected", "Stopping"}
                      /\ Rank(observation[t].seen) <= Rank(Now')
                      /\ answer'[t] # None => Rank(observation[t].seen) <= Rank(answer'[t])
    BY <1>1 DEF ObservationsSound
  <2>1. Rank(observation[t].seen) \in Nat /\ Rank(observation[t].seen) <= Rank(Now)
    BY RankRange DEF Inv, ObservationsSound
  <2> QED
    BY <2>1, <1>3, <1>6 DEF Inv, ObservationsSound, Commands
<1>9. PageSound'
  <2>1. shown # None => Rank(shown) \in Nat /\ Rank(shown) <= Rank(Now)
    BY <1>1, RankRange DEF Inv, PageSound, TypeOK
  <2>2. \A t \in Calls : reply'[t] = "idle" => reply[t] = "idle"
    BY <1>2 DEF ManagerFacts, Told
  <2>3. pending \subseteq Calls
    BY <1>1 DEF TypeOK, Commands
  <2> QED
    BY <1>1, <1>3, <1>6, <2>1, <2>2, <2>3 DEF Inv, PageSound, Free, pageVars
<1>10. ExitSound'
  <2> DEFINE x == ExitCall
  <2>1. x \in Calls
    BY DesktopAssumption
  <2>2. (reply'[x] = reply[x] /\ answer'[x] = answer[x]) \/ (Told(x) /\ answer'[x] = Now')
    BY <2>1, <1>2, <1>3 DEF ManagerFacts, Told, Carries
  <2>3. Answered(x) /\ reply[x] # "Rejected" =>
          answer[x] # None /\ answer[x] \in Statuses /\ Rank(answer[x]) <= Rank(Now)
    BY <2>1, <1>1 DEF Inv, AnswersSound, TypeOK
  <2>4. Answered(x) /\ reply[x] # "Rejected" => answer[x].generation <= generation
    <3> SUFFICES ASSUME Answered(x) /\ reply[x] # "Rejected"  PROVE answer[x].generation <= generation
      OBVIOUS
    <3>1. /\ 4 * answer[x].generation <= Rank(answer[x]) /\ Rank(Now) <= 4 * generation + 3
          /\ Rank(answer[x]) \in Nat /\ Rank(Now) \in Nat /\ answer[x].generation \in Nat
      BY <2>3, <1>6, RankRange DEF Now, Status
    <3>2. generation \in Nat
      BY <1>1, Bounds DEF TypeOK
    <3> QED
      BY <2>3, <3>1, <3>2
  <2>5. Answered(x)' /\ reply'[x] # "Rejected" /\ child' => generation' > answer'[x].generation
    <3>1. CASE Told(x)
      BY <3>1, <2>1, <1>2 DEF ManagerFacts, Inv, ExitSound, Told
    <3>2. CASE reply'[x] = reply[x] /\ answer'[x] = answer[x]
      <4>1. generation \in Nat /\ generation' \in Nat
        BY <1>1, <1>2, Bounds DEF TypeOK, ManagerFacts
      <4>2. Answered(x) /\ reply[x] # "Rejected" => answer[x].generation \in Nat
        BY <2>3, RankRange
      <4> QED
        BY <3>2, <4>1, <4>2, <2>4, <1>2 DEF ManagerFacts, Inv, ExitSound, Answered
    <3> QED
      BY <3>1, <3>2, <2>2
  <2>6. Answered(x) => Answered(x)'
    BY <2>2 DEF Answered, Told
  <2> QED
    BY <1>1, <1>2, <2>2, <2>5, <2>6 DEF Inv, ExitSound, ManagerFacts, exitVars, Told, Answered
<1>11. ProfileOfOneConnection'
  BY <1>1 DEF Inv, ProfileOfOneConnection, pageVars, Status
<1> QED
  BY <1>2, <1>4, <1>5, <1>7, <1>8, <1>9, <1>10, <1>11 DEF Inv, ManagerFacts

\* A step of one command, which asks the manager or takes its answer.
CommandStep(t) ==
  /\ UNCHANGED <<state, generation, child, closed, exitVars>>
  /\ \A c \in Calls \ {t} : UNCHANGED <<op[c], reply[c], answer[c], observation[c]>>
  /\ reply'[t] \in {"idle", "waiting"} /\ answer'[t] = None
  /\ op' \in [Calls -> Operations \cup {"none", "Status", "Stop"}]
  /\ reply' \in [Calls -> Replies]
  /\ answer' \in [Calls -> Statuses \cup {None}]

LEMMA CommandsInCalls == Commands \subseteq Calls /\ \A t \in Commands : t # ExitCall
BY DEF Commands

LEMMA SubmitIsCommandStep ==
  ASSUME TypeOK, AnswersSound, NEW t \in Commands, NEW o \in Operations \cup {"Status"}, Submit(t, o),
         UNCHANGED <<taskVars, exitVars>>
  PROVE  CommandStep(t) /\ reply'[t] = "waiting" /\ observation' = observation
<1> USE CommandsInCalls
<1>1. reply[t] = "idle" /\ answer[t] = None /\ closed = FALSE
  BY DEF Submit, AnswersSound, TypeOK
<1>2. op' \in [Calls -> Operations \cup {"none", "Status", "Stop"}] /\ reply' \in [Calls -> Replies]
  BY <1>1 DEF Submit, TypeOK, Replies
<1> QED
  BY <1>1, <1>2 DEF Submit, TypeOK, CommandStep, taskVars

LEMMA ReceiveIsCommandStep ==
  ASSUME TypeOK, NEW t \in Commands, Receive(t), UNCHANGED exitVars,
         \A c \in Calls \ {t} : observation'[c] = observation[c]
  PROVE  CommandStep(t) /\ reply'[t] = "idle"
<1> USE CommandsInCalls
<1>1. reply' \in [Calls -> Replies]
  BY DEF Receive, Collect, TypeOK, Replies
<1> QED
  BY <1>1 DEF Receive, Collect, TypeOK, CommandStep

LEMMA CommandKeeps ==
  ASSUME Inv, NEW t \in Commands, CommandStep(t)
  PROVE  /\ NotRunningMeansGone' /\ NoGenerationIsIdle' /\ AnswersSound' /\ ExitSound'
         /\ observation'[t] \in {observation[t], None} => ObservationsSound'
<1> USE CommandsInCalls, DesktopAssumption
<1>1. NotRunningMeansGone' /\ NoGenerationIsIdle'
  BY DEF CommandStep, Inv, NotRunningMeansGone, NoGenerationIsIdle
<1>2. UNCHANGED Now
  BY DEF CommandStep, Now, Status
<1>3. AnswersSound'
  BY <1>2 DEF CommandStep, Inv, AnswersSound, Answered
<1>4. ExitSound'
  <2>1. UNCHANGED <<op[ExitCall], reply[ExitCall], answer[ExitCall]>>
    BY DEF CommandStep
  <2> QED
    BY <2>1 DEF CommandStep, Inv, ExitSound, Answered, exitVars
<1>5. ASSUME observation'[t] \in {observation[t], None}  PROVE ObservationsSound'
  BY <1>2, <1>5 DEF CommandStep, Inv, ObservationsSound
<1> QED
  BY <1>1, <1>3, <1>4, <1>5

LEMMA TakeObservationKeeps ==
  ASSUME Inv, NEW t \in Commands, TakeObservation(t)  PROVE Inv'
<1> USE CommandsInCalls, DesktopAssumption
<1> DEFINE new == [generation |-> answer[t].generation,
                   kind |-> IF reply[t] = "Ok" THEN "observed" ELSE "inconclusive",
                   seen |-> IF reply[t] = "Ok" THEN answer[t] ELSE None]
<1>1. /\ Receive(t) /\ UNCHANGED <<pageVars, exitVars>>
      /\ TypeOK /\ Answered(t) /\ op[t] = "Observe"
      /\ observation' = [observation EXCEPT ![t] = new]
  BY DEF TakeObservation, Inv
<1>2. answer[t] \in Statuses /\ Rank(answer[t]) <= Rank(Now)
      /\ (reply[t] = "Ok" => answer[t].state \in {"Connected", "Stopping"})
  BY <1>1 DEF Inv, AnswersSound, TypeOK
<1>3. new \in Observations
  BY <1>2 DEF Observations, Statuses
<1> HIDE DEF new
<1>4. observation' \in [Calls -> Observations \cup {None}] /\ observation'[t] = new /\ new # None
  BY <1>1, <1>3 DEF TypeOK
<1>5. CommandStep(t) /\ reply'[t] = "idle"
  BY <1>1, ReceiveIsCommandStep DEF TypeOK
<1>6. TypeOK'
  BY <1>1, <1>4, <1>5 DEF TypeOK, CommandStep, pageVars, exitVars
<1>7. UNCHANGED Now
  BY <1>5 DEF CommandStep, Now, Status
<1>8. ObservationsSound'
  <2> SUFFICES ASSUME NEW u \in Commands, observation'[u] # None, observation'[u].kind = "observed"
               PROVE  /\ observation'[u].seen \in Statuses
                      /\ observation'[u].seen.generation = observation'[u].generation
                      /\ observation'[u].seen.state \in {"Connected", "Stopping"}
                      /\ Rank(observation'[u].seen) <= Rank(Now)
                      /\ answer'[u] # None => Rank(observation'[u].seen) <= Rank(answer'[u])
    BY <1>7 DEF ObservationsSound
  <2>1. CASE u = t
    BY <2>1, <1>2, <1>4, <1>5 DEF CommandStep, new
  <2>2. CASE u # t
    BY <2>2, <1>5 DEF CommandStep, Inv, ObservationsSound
  <2> QED
    BY <2>1, <2>2
<1>9. PageSound'
  BY <1>1, <1>4, <1>5, <1>7 DEF Inv, PageSound, Free, CommandStep, pageVars, TypeOK
<1> QED
  BY <1>1, <1>5, <1>6, <1>8, <1>9, CommandKeeps DEF Inv, ProfileOfOneConnection, pageVars, Status

LEMMA AskStatusKeeps ==
  ASSUME Inv, NEW t \in Commands, AskStatus(t)  PROVE Inv'
<1> USE CommandsInCalls
<1>1. /\ TypeOK /\ AnswersSound /\ Submit(t, "Status") /\ UNCHANGED <<taskVars, pageVars, exitVars>>
  BY DEF AskStatus, Inv
<1>2. CommandStep(t) /\ reply'[t] = "waiting" /\ observation' = observation
  BY <1>1, SubmitIsCommandStep
<1>3. TypeOK'
  BY <1>1, <1>2 DEF TypeOK, CommandStep, pageVars, exitVars
<1>4. UNCHANGED Now
  BY <1>2 DEF CommandStep, Now, Status
<1>5. PageSound'
  BY <1>1, <1>2, <1>4 DEF Inv, PageSound, Free, CommandStep, pageVars, TypeOK
<1> QED
  BY <1>1, <1>2, <1>3, <1>5, CommandKeeps DEF Inv, ProfileOfOneConnection, pageVars, Status

LEMMA MountKeeps ==
  ASSUME Inv, NEW t \in Commands, Mount(t)
  PROVE  Inv' /\ ~ pending' \subseteq pending
<1> USE CommandsInCalls
<1>1. /\ TypeOK /\ AnswersSound /\ Submit(t, "Status") /\ UNCHANGED <<taskVars, exitVars>>
      /\ Free(t) /\ shown' = InitialStatus /\ pending' = {t} /\ capability' = None
  BY DEF Mount, Inv
<1>2. CommandStep(t) /\ reply'[t] = "waiting" /\ observation' = observation
  BY <1>1, SubmitIsCommandStep
<1>3. UNCHANGED Now
  BY <1>2 DEF CommandStep, Now, Status
<1>4. InitialStatus \in Statuses /\ Rank(InitialStatus) <= Rank(Now)
  <2>1. InitialStatus \in Statuses /\ Rank(InitialStatus) = 3
    BY Bounds DEF InitialStatus, Status, Statuses, States, Idle, Rank, Stage
  <2>2. Rank(Now) >= 3
    BY Bounds DEF Inv, TypeOK, NoGenerationIsIdle, Now, Status, Rank, Stage, States, Idle, Active
  <2> QED
    BY <2>1, <2>2
<1>5. TypeOK'
  BY <1>1, <1>2, <1>4 DEF TypeOK, CommandStep, exitVars
<1>6. PageSound'
  BY <1>1, <1>2, <1>3, <1>4 DEF PageSound, Free, CommandStep
<1>7. t \notin pending
  BY <1>1 DEF Inv, PageSound
<1> QED
  BY <1>1, <1>2, <1>5, <1>6, <1>7, CommandKeeps DEF Inv, ProfileOfOneConnection

LEMMA PressKeeps ==
  ASSUME Inv, NEW t \in Commands, NEW o \in Operations, Press(t, o)
  PROVE  Inv' /\ shown' = shown
<1> USE CommandsInCalls
<1>1. /\ TypeOK /\ AnswersSound /\ Submit(t, o) /\ UNCHANGED <<taskVars, shown, capability, exitVars>>
      /\ pending' = {t}
  BY DEF Press, PressAnyTime, Inv
<1>2. CommandStep(t) /\ reply'[t] = "waiting" /\ observation' = observation
  BY <1>1, SubmitIsCommandStep
<1>3. UNCHANGED Now
  BY <1>2 DEF CommandStep, Now, Status
<1>4. TypeOK'
  BY <1>1, <1>2 DEF TypeOK, CommandStep, exitVars
<1>5. PageSound'
  BY <1>1, <1>2, <1>3 DEF Inv, PageSound, Free, CommandStep
<1> QED
  BY <1>1, <1>2, <1>4, <1>5, CommandKeeps DEF Inv, ProfileOfOneConnection, Status

\* What the page makes of a capability query of one connection is of that connection.
LEMMA ProfileIsOfOneConnection ==
  ASSUME NEW s \in Statuses, NEW o \in Observations, ProfileExists(s, o),
         o.kind = "observed" =>
           /\ o.seen \in Statuses
           /\ o.seen.generation = o.generation
           /\ o.seen.state \in {"Connected", "Stopping"}
           /\ Rank(o.seen) <= Rank(s)
  PROVE  /\ Profile(s, o) \in [generation : 0 .. MaxGeneration, engine : {"native", "unknown"},
                               seen : Statuses \cup {None}]
         /\ Profile(s, o).engine = "native" =>
              Profile(s, o).seen = Status("Connected", Profile(s, o).generation)
<1>1. s.state = "Connected" /\ s.generation = o.generation /\ s.generation \in 0 .. MaxGeneration
      /\ o.kind \in {"inconclusive", "observed"} /\ o.seen \in Statuses \cup {None}
  BY DEF ProfileExists, Observations, Statuses
<1>2. EngineAvailability(s.state, o.kind) = IF o.kind = "observed" THEN "native" ELSE "unknown"
  BY <1>1 DEF EngineAvailability
<1>3. ASSUME o.kind = "observed"  PROVE o.seen = Status("Connected", s.generation)
  <2>1. 4 * o.seen.generation + Stage(o.seen.state) <= 4 * s.generation + Stage("Connected")
    BY <1>1, <1>3 DEF Rank
  <2>2. Stage("Connected") = 1 /\ Stage("Stopping") = 2
    BY DEF Stage
  <2>3. s.generation \in Nat
    BY <1>1, Bounds
  <2>4. o.seen.state = "Connected"
    BY <1>1, <1>3, <2>1, <2>2, <2>3
  <2> QED
    BY <1>1, <1>3, <2>4 DEF Statuses, Status
<1> QED
  BY <1>1, <1>2, <1>3 DEF Profile

LEMMA AcceptKeeps ==
  ASSUME Inv, NEW t \in Commands, Accept(t)
  PROVE  Inv' /\ (None \notin {shown, shown'} => Rank(shown') >= Rank(shown))
<1> USE CommandsInCalls, DesktopAssumption
<1>1. /\ TypeOK /\ AnswersSound /\ Receive(t) /\ UNCHANGED exitVars
      /\ t \in pending /\ Finished(t) /\ pending' = pending \ {t}
      /\ observation' = [observation EXCEPT ![t] = None]
  BY DEF Accept, Inv
<1>2. CommandStep(t) /\ reply'[t] = "idle" /\ observation'[t] = None
  BY <1>1, ReceiveIsCommandStep DEF TypeOK
<1>3. UNCHANGED Now
  BY <1>2 DEF CommandStep, Now, Status
<1>4. reply[t] = "Ok" => answer[t] # None /\ answer[t] \in Statuses /\ Rank(answer[t]) <= Rank(Now)
  BY <1>1 DEF AnswersSound, Finished, Answered, TypeOK
<1>5. \/ shown' = shown
      \/ reply[t] = "Ok" /\ shown' = answer[t]
  BY DEF Accept
<1>6. \/ capability' = capability
      \/ /\ capability' \in [generation : 0 .. MaxGeneration, engine : {"native", "unknown"},
                             seen : Statuses \cup {None}]
         /\ capability'.engine = "native" =>
              capability'.seen = Status("Connected", capability'.generation)
  <2> SUFFICES ASSUME reply[t] = "Ok", observation[t] # None, ProfileExists(answer[t], observation[t]),
                      capability' = Profile(answer[t], observation[t])
               PROVE  /\ capability' \in [generation : 0 .. MaxGeneration, engine : {"native", "unknown"},
                                          seen : Statuses \cup {None}]
                      /\ capability'.engine = "native" =>
                           capability'.seen = Status("Connected", capability'.generation)
    BY DEF Accept
  <2>1. observation[t] \in Observations
    BY <1>1 DEF TypeOK
  <2> QED
    BY <1>4, <2>1, ProfileIsOfOneConnection DEF Inv, ObservationsSound
<1>7. TypeOK'
  <2>1. observation' \in [Calls -> Observations \cup {None}]
    BY <1>1 DEF TypeOK
  <2> QED
    BY <1>1, <1>2, <1>4, <1>5, <1>6, <2>1 DEF TypeOK, CommandStep, exitVars
<1>8. PageSound'
  BY <1>1, <1>2, <1>3, <1>4, <1>5 DEF Inv, PageSound, CommandStep
<1>9. ProfileOfOneConnection'
  BY <1>6 DEF Inv, ProfileOfOneConnection, Status
<1>10. None \notin {shown, shown'} => Rank(shown') >= Rank(shown)
  <2>1. shown # None => Rank(shown) \in Nat
    BY <1>1, RankRange DEF TypeOK
  <2> QED
    BY <1>1, <1>4, <1>5, <2>1 DEF Inv, PageSound
<1> QED
  BY <1>2, <1>7, <1>8, <1>9, <1>10, CommandKeeps DEF Inv

LEMMA LoseKeeps ==
  ASSUME Inv, NEW t \in Commands, Lose(t)  PROVE Inv'
<1> USE CommandsInCalls
<1>1. /\ TypeOK /\ AnswersSound /\ Receive(t) /\ UNCHANGED <<pageVars, exitVars>>
      /\ t \notin pending /\ observation' = [observation EXCEPT ![t] = None]
  BY DEF Lose, Inv
<1>2. CommandStep(t) /\ observation'[t] = None
  BY <1>1, ReceiveIsCommandStep DEF TypeOK
<1>3. UNCHANGED Now
  BY <1>2 DEF CommandStep, Now, Status
<1>4. TypeOK'
  <2>1. observation' \in [Calls -> Observations \cup {None}]
    BY <1>1 DEF TypeOK
  <2> QED
    BY <1>1, <1>2, <2>1 DEF TypeOK, CommandStep, pageVars, exitVars
<1>5. PageSound'
  BY <1>1, <1>2, <1>3 DEF Inv, PageSound, Free, CommandStep, pageVars, TypeOK
<1> QED
  BY <1>1, <1>2, <1>4, <1>5, CommandKeeps DEF Inv, ProfileOfOneConnection, pageVars, Status

\* The steps of the event loop and of the cleanup.
ExitStep == RequestExit \/ CleanupStops \/ CleanupDone \/ CleanupExpires

LEMMA ExitKeeps ==
  ASSUME Inv, ExitStep
  PROVE  Inv' /\ (shown' = shown \/ shown' = None)
<1> USE DesktopAssumption
<1>1. /\ UNCHANGED <<state, generation, child, closed, taskVars>>
      /\ \A c \in Commands : UNCHANGED <<op[c], reply[c]>>
      /\ op' \in [Calls -> Operations \cup {"none", "Status", "Stop"}] /\ reply' \in [Calls -> Replies]
  <2>1. CASE CleanupStops
    BY <2>1 DEF CleanupStops, Submit, Inv, TypeOK, Commands, Replies
  <2>2. CASE RequestExit \/ CleanupDone \/ CleanupExpires
    BY <2>2 DEF RequestExit, CleanupDone, CleanupDoneUnanswered, CleanupExpires, serviceVars, Inv, TypeOK
  <2> QED
    BY <2>1, <2>2 DEF ExitStep
<1>2. UNCHANGED Now
  BY <1>1 DEF Now, Status
<1>3. UNCHANGED pageVars \/ WindowCloses
  BY DEF ExitStep, RequestExit, CleanupStops, CleanupDone, CleanupDoneUnanswered, CleanupExpires
<1>4. TypeOK'
  <2>1. exitPhase' \in {"ready", "cleaning", "final"}
        /\ cleanup' \in {"none", "spawned", "waiting", "finishing"}
        /\ expired' \in BOOLEAN /\ exited' \in BOOLEAN
    BY DEF Inv, TypeOK, ExitStep, RequestExit, CleanupStops, CleanupDone, CleanupDoneUnanswered,
           CleanupExpires
  <2> QED
    BY <1>1, <1>3, <2>1 DEF Inv, TypeOK, pageVars, WindowCloses, taskVars
<1>5. UNCHANGED <<op, reply>> \/ (CleanupStops /\ reply'[ExitCall] = "waiting" /\ op'[ExitCall] = "Stop"
                                   /\ answer[ExitCall] = None)
  <2>1. CASE CleanupStops
    BY <2>1 DEF CleanupStops, Submit, Inv, TypeOK, AnswersSound
  <2>2. CASE RequestExit \/ CleanupDone \/ CleanupExpires
    BY <2>2 DEF RequestExit, CleanupDone, CleanupDoneUnanswered, CleanupExpires, serviceVars
  <2> QED
    BY <2>1, <2>2 DEF ExitStep
<1>6. AnswersSound'
  BY <1>1, <1>2, <1>5 DEF Inv, AnswersSound, Answered, taskVars, Commands
<1>7. ObservationsSound'
  BY <1>1, <1>2 DEF Inv, ObservationsSound, taskVars
<1>8. PageSound'
  BY <1>1, <1>2, <1>3 DEF Inv, PageSound, taskVars, pageVars, WindowCloses, Free, TypeOK
<1>9. ExitSound'
  <2>1. CASE RequestExit
    BY <2>1 DEF RequestExit, Inv, ExitSound, Answered, serviceVars, taskVars
  <2>2. CASE CleanupStops
    BY <2>2, <1>5 DEF CleanupStops, Inv, ExitSound, Answered, Submit, TypeOK, taskVars
  <2>3. CASE CleanupDone
    BY <2>3 DEF CleanupDone, CleanupDoneUnanswered, Inv, ExitSound, Answered, serviceVars, taskVars
  <2>4. CASE CleanupExpires
    BY <2>4 DEF CleanupExpires, Inv, ExitSound, Answered, serviceVars, taskVars
  <2> QED
    BY <2>1, <2>2, <2>3, <2>4 DEF ExitStep
<1>10. ProfileOfOneConnection'
  BY <1>3 DEF Inv, ProfileOfOneConnection, pageVars, WindowCloses, Status
<1>11. NotRunningMeansGone' /\ NoGenerationIsIdle'
  BY <1>1 DEF Inv, NotRunningMeansGone, NoGenerationIsIdle
<1> QED
  BY <1>3, <1>4, <1>6, <1>7, <1>8, <1>9, <1>10, <1>11 DEF Inv, pageVars, WindowCloses

LEMMA StutterKeeps ==
  ASSUME Inv, UNCHANGED vars
  PROVE  Inv' /\ shown' = shown
<1>1. UNCHANGED <<serviceVars, taskVars, pageVars, exitVars>> /\ UNCHANGED Now
  BY DEF vars, Now, Status, serviceVars
<1> USE <1>1 DEF Inv, serviceVars, taskVars, pageVars, exitVars
<1>2. TypeOK' /\ NotRunningMeansGone' /\ NoGenerationIsIdle'
  BY DEF TypeOK, NotRunningMeansGone, NoGenerationIsIdle
<1>3. AnswersSound' /\ ObservationsSound'
  BY DEF AnswersSound, ObservationsSound, Answered
<1>4. PageSound' /\ ExitSound' /\ ProfileOfOneConnection'
  BY DEF PageSound, ExitSound, Free, Answered, ProfileOfOneConnection, Status
<1> QED
  BY <1>2, <1>3, <1>4

\* What a step of the application may do to the status that a page shows.
Forward == None \notin {shown, shown'} /\ pending' \subseteq pending => Rank(shown') >= Rank(shown)

LEMMA StepKeeps ==
  ASSUME Inv, [DesktopNext]_vars
  PROVE  Inv' /\ Forward
<1>1. shown' = shown \/ shown' = None => Forward
  BY RankRange DEF Inv, TypeOK, Forward
<1>2. CASE Serve
  BY <1>1, <1>2, ServeKeeps DEF Serve, pageVars
<1>3. ASSUME NEW t \in Commands,
             \/ TakeObservation(t) \/ AskStatus(t) \/ Mount(t) \/ Accept(t) \/ Lose(t)
             \/ \E o \in Operations : Press(t, o)
      PROVE  Inv' /\ Forward
  <2>1. CASE TakeObservation(t)
    BY <1>1, <2>1, TakeObservationKeeps DEF TakeObservation, pageVars
  <2>2. CASE AskStatus(t)
    BY <1>1, <2>2, AskStatusKeeps DEF AskStatus, pageVars
  <2>3. CASE Mount(t)
    BY <2>3, MountKeeps DEF Forward
  <2>4. CASE Accept(t)
    BY <2>4, AcceptKeeps DEF Forward
  <2>5. CASE Lose(t)
    BY <1>1, <2>5, LoseKeeps DEF Lose, pageVars
  <2>6. ASSUME NEW o \in Operations, Press(t, o)  PROVE Inv' /\ Forward
    BY <1>1, <2>6, PressKeeps
  <2> QED
    BY <1>3, <2>1, <2>2, <2>3, <2>4, <2>5, <2>6
<1>4. CASE ExitStep
  BY <1>1, <1>4, ExitKeeps
<1>5. CASE UNCHANGED vars
  BY <1>1, <1>5, StutterKeeps
<1> QED
  BY <1>2, <1>3, <1>4, <1>5 DEF DesktopNext, ExitStep

\* The invariant holds of the desktop, whatever the manager, the user and the page do.
THEOREM Invariance == DesktopSpec => []Inv
BY InitInv, StepKeeps, PTL DEF DesktopSpec

\* Every variable keeps its type.
THEOREM TypeCorrect == DesktopSpec => []TypeOK
<1>1. Inv => TypeOK
  BY DEF Inv
<1> QED
  BY <1>1, Invariance, PTL

\* What the desktop shows as not running has no process.
THEOREM DesktopShowsNoHiddenProcess == DesktopSpec => []NotRunningMeansGone
<1>1. Inv => NotRunningMeansGone
  BY DEF Inv
<1> QED
  BY <1>1, Invariance, PTL

\* The two calls of a capability query never make one profile of two connections.
THEOREM ProfilesAreOfOneConnection == DesktopSpec => []ProfileOfOneConnection
<1>1. Inv => ProfileOfOneConnection
  BY DEF Inv
<1> QED
  BY <1>1, Invariance, PTL

\* An exit in time leaves no child that its Stop could have ended.
THEOREM ExitStopsTheChild == DesktopSpec => []ExitLeavesNoChild
<1>1. Inv => ExitLeavesNoChild
  BY DEF Inv, ExitSound, ExitLeavesNoChild
<1> QED
  BY <1>1, Invariance, PTL

\* A page never goes back to an older status.
THEOREM PageGoesForward == DesktopSpec => ShownNeverGoesBack
<1>1. Inv /\ [DesktopNext]_vars => [Forward]_vars
  BY StepKeeps
<1> QED
  BY <1>1, Invariance, PTL DEF DesktopSpec, ShownNeverGoesBack, Forward

=============================================================================
