------------------------ MODULE RuntimeManagerProofs ------------------------
(***************************************************************************)
(* Theorems about the RuntimeManager actor, for every number of calls,     *)
(* every queue bound and every range of generations and request IDs.       *)
(***************************************************************************)
EXTENDS RuntimeManager, TLAPS, SequenceTheorems, FiniteSetTheorems

-----------------------------------------------------------------------------
(* Type correctness *)

\* Each helper leaves what it assigns in its type.
LEMMA AnswerTyped ==
  ASSUME TypeOK, NEW S, NEW r \in Replies, Answer(S, r)
  PROVE  reply' \in [Calls -> Replies]
BY DEF TypeOK, Answer

LEMMA Answer2Typed ==
  ASSUME TypeOK, NEW S, NEW T, NEW r \in Replies, NEW q \in Replies,
         Answer2(S, r, T, q)
  PROVE  reply' \in [Calls -> Replies]
BY DEF TypeOK, Answer2

LEMMA BeginReapTyped ==
  ASSUME TypeOK, NEW k \in Continuations, NEW e, BeginReap(k, e)
  PROVE  phase' \in Phases /\ cont' \in Continuations
         /\ barrier' \in {"none", "waiting", "done"}
BY DEF TypeOK, BeginReap, Phases

LEMMA TryCompleteTyped ==
  ASSUME TypeOK, NEW s, NEW e, TryCompleteShutdown(s, e)
  PROVE  phase' \in Phases /\ cont' \in Continuations
         /\ barrier' \in {"none", "waiting", "done"}
<1>1. {"fail", "graceful"} \subseteq Continuations
  BY DEF Continuations
<1> QED
  BY <1>1, BeginReapTyped DEF TypeOK, TryCompleteShutdown, controlVars

LEMMA CollectExitTyped ==
  ASSUME TypeOK, CollectExit
  PROVE  exitStatus' \in Exits /\ os' \in [Generations -> OsStates]
BY DEF TypeOK, CollectExit, Exits, OsStates

LEMMA TakeCommandTyped ==
  ASSUME TypeOK, NEW c, NEW o, TakeCommand(c, o)
  PROVE  c \in Calls /\ commands' \in Seq(Calls)
BY HeadTailProperties DEF TypeOK, TakeCommand

LEMMA TakeEventTyped ==
  ASSUME TypeOK, NEW k, TakeEvent(k)
  PROVE  Head(events) \in Events /\ events' \in Seq(Events)
BY HeadTailProperties DEF TypeOK, TakeEvent

LEMMA QueueFrameTyped ==
  ASSUME TypeOK, NEW i \in Ids, QueueFrame(i)
  PROVE  writer' \in Seq(Ids)
BY DEF TypeOK, QueueFrame

LEMMA AllocateIdTyped ==
  ASSUME TypeOK, nextId # 0, AllocateId
  PROVE  nextId \in Ids /\ nextId' \in 0 .. MaxRequestId
BY ManagerAssumption DEF TypeOK, AllocateId, Ids

LEMMA ClearStreamTyped ==
  ASSUME TypeOK, ClearStream
  PROVE  /\ pending' \in [Ids -> Calls \cup {None}]
         /\ primary' \in Calls \cup {None}
         /\ start' \in Calls \cup {None}
         /\ stop' \in StopContexts
         /\ deferredStop' \in Calls \cup {None}
BY ManagerAssumption DEF ClearStream, NoStop, StopContexts

LEMMA NoStopTyped == NoStop \in StopContexts
BY ManagerAssumption DEF NoStop, StopContexts

LEMMA JoinTyped ==
  ASSUME NEW c \in Calls
  PROVE  /\ \A i \in 0 .. MaxRequestId : NewStop(i, c) \in StopContexts
         /\ \A s \in StopContexts :
              [s EXCEPT !.waiters = @ \cup {c}] \in StopContexts
BY DEF NewStop, StopContexts

LEMMA FinishProcessTasksTyped ==
  ASSUME TypeOK, FinishProcessTasks
  PROVE  /\ events' \in Seq(Events)
         /\ hasProcess' \in BOOLEAN /\ exitStatus' \in Exits /\ draining' \in BOOLEAN
         /\ writer' \in Seq(Ids)
         /\ writerAlive' \in BOOLEAN /\ readerAlive' \in BOOLEAN
         /\ barrier' \in {"none", "waiting", "done"}
<1>1. PICK k \in 0 .. Len(events) : events' = SubSeq(events, k + 1, Len(events))
  BY DEF FinishProcessTasks
<1>2. events \in Seq(Events) /\ Len(events) \in Nat
  BY LenProperties DEF TypeOK
<1>3. \A i \in (k + 1) .. Len(events) : events[i] \in Events
  BY <1>2, ElementOfSeq
<1>4. events' \in Seq(Events)
  BY <1>1, <1>2, <1>3, SubSeqProperties
<1>5. writer' \in Seq(Ids)
  BY DEF FinishProcessTasks
<1> QED
  BY <1>4, <1>5 DEF FinishProcessTasks, Exits

LEMMA EventsTyped ==
  ASSUME TypeOK
  PROVE  /\ \A k \in {"hello", "eof", "broken"} : Plain(generation, k) \in Events
         /\ \A i \in Ids, r \in Results : Response(generation, i, r) \in Events
         /\ \A i \in Ids : WriteFailure(generation, i) \in Events
BY ManagerAssumption DEF TypeOK, Plain, Response, WriteFailure, Events, Results, Ids

LEMMA EmitTyped ==
  ASSUME TypeOK, NEW e \in Events, Emit(e)
  PROVE  events' \in Seq(Events)
BY DEF TypeOK, Emit

LEMMA InitTypeOK == Init => TypeOK
<1> SUFFICES ASSUME Init PROVE TypeOK
  OBVIOUS
<1>1. generation \in 0 .. MaxGeneration /\ nextId \in 0 .. MaxRequestId
  BY ManagerAssumption DEF Init
<1>2. stop \in StopContexts
  BY ManagerAssumption DEF Init, NoStop, StopContexts
<1>3. bound \in [Calls -> 0 .. MaxGeneration]
  BY ManagerAssumption DEF Init
<1>4. commands \in Seq(Calls) /\ writer \in Seq(Ids) /\ events \in Seq(Events)
  BY DEF Init
<1>5. os \in [Generations -> OsStates] /\ pending \in [Ids -> Calls \cup {None}]
  BY DEF Init, OsStates, Unreaped
<1>6. op \in [Calls -> AllOperations \cup {"none"}] /\ reply \in [Calls -> Replies]
  BY DEF Init, Replies
<1>7. /\ start \in Calls \cup {None} /\ activeStatus \in Calls \cup {None}
      /\ primary \in Calls \cup {None} /\ deferredStop \in Calls \cup {None}
  BY DEF Init
<1>8. /\ managerDropped \in BOOLEAN /\ hasProcess \in BOOLEAN /\ draining \in BOOLEAN
      /\ writerAlive \in BOOLEAN /\ readerAlive \in BOOLEAN
      /\ state \in States /\ phase \in Phases /\ cont \in Continuations
      /\ exitStatus \in Exits /\ barrier \in {"none", "waiting", "done"}
  BY DEF Init, States, Phases, Continuations, Exits
<1> QED
  BY <1>1, <1>2, <1>3, <1>4, <1>5, <1>6, <1>7, <1>8 DEF TypeOK

LEMMA NextTypeOK == TypeOK /\ [Next]_vars => TypeOK'
<1> SUFFICES ASSUME TypeOK, [Next]_vars PROVE TypeOK'
  OBVIOUS
<1> USE DEF clientVars, slotVars, controlVars, processVars
<1>1. ASSUME NEW c \in Calls, NEW o \in Operations, Submit(c, o) PROVE TypeOK'
  <2>1. op' \in [Calls -> AllOperations \cup {"none"}]
    BY <1>1, ManagerAssumption DEF TypeOK, Submit
  <2>2. reply' \in [Calls -> Replies]
    BY <1>1 DEF TypeOK, Submit, Replies
  <2>3. commands' \in Seq(Calls)
    <3>1. Append(commands, c) \in Seq(Calls)
      BY DEF TypeOK
    <3>2. commands' = commands \/ commands' = Append(commands, c)
      BY <1>1 DEF Submit
    <3> QED
      BY <3>1, <3>2 DEF TypeOK
  <2> QED
    BY <1>1, <2>1, <2>2, <2>3 DEF TypeOK, Submit
<1>2. ASSUME NEW c \in Calls, StartRuntime(c) PROVE TypeOK'
  <2>1. reply' \in [Calls -> Replies]
    BY <1>2, AnswerTyped DEF StartRuntime, Replies, TypeOK
  <2>2. generation' \in 0 .. MaxGeneration
    BY <1>2, ManagerAssumption DEF StartRuntime, TypeOK
  <2>6. bound' \in [Calls -> 0 .. MaxGeneration]
    BY <1>2, <2>2 DEF StartRuntime, Bind, TypeOK
  <2>3. commands' \in Seq(Calls)
    BY <1>2, TakeCommandTyped DEF StartRuntime
  <2>4. /\ hasProcess' \in BOOLEAN /\ exitStatus' \in Exits /\ draining' \in BOOLEAN
        /\ writerAlive' \in BOOLEAN /\ readerAlive' \in BOOLEAN
        /\ state' \in States /\ start' \in Calls \cup {None}
    BY <1>2 DEF StartRuntime, Spawned, TypeOK, Exits, States
  <2>5. writer' \in Seq(Ids)
    <3>1. writer' = writer \/ writer' = <<>>
      BY <1>2 DEF StartRuntime, Spawned
    <3>2. <<>> \in Seq(Ids)
      OBVIOUS
    <3> QED
      BY <3>1, <3>2 DEF TypeOK
  <2>7. os' \in [Generations -> OsStates]
    BY <1>2 DEF StartRuntime, Spawned, TypeOK, OsStates, Unreaped
  <2> QED
    BY <1>2, <2>1, <2>2, <2>3, <2>4, <2>5, <2>6, <2>7 DEF TypeOK, StartRuntime
<1>3. ASSUME NEW c \in Calls, StopIdle(c) PROVE TypeOK'
  BY <1>3, TakeCommandTyped, AnswerTyped DEF TypeOK, StopIdle, Replies, States
<1>4. ASSUME NEW c \in Calls, StopStarting(c) PROVE TypeOK'
  BY <1>4, TakeCommandTyped, BeginReapTyped DEF TypeOK, StopStarting, Bind, Continuations
<1>5. ASSUME NEW c \in Calls, StopJoin(c) PROVE TypeOK'
  <2>1. reply' \in [Calls -> Replies] /\ bound' \in [Calls -> 0 .. MaxGeneration]
    BY <1>5, AnswerTyped DEF StopJoin, Bind, Replies, TypeOK
  <2>2. stop' \in StopContexts
    BY <1>5, JoinTyped DEF StopJoin, TypeOK
  <2> QED
    BY <1>5, <2>1, <2>2, TakeCommandTyped DEF TypeOK, StopJoin
<1>6. ASSUME NEW c \in Calls, StopConnected(c) PROVE TypeOK'
  <2>1. /\ phase' \in Phases /\ cont' \in Continuations
        /\ barrier' \in {"none", "waiting", "done"}
    BY <1>6, BeginReapTyped DEF TypeOK, StopConnected, Continuations
  <2>2. nextId' \in 0 .. MaxRequestId /\ writer' \in Seq(Ids)
    BY <1>6, AllocateIdTyped, QueueFrameTyped DEF TypeOK, StopConnected
  <2>3. stop' \in StopContexts /\ deferredStop' \in Calls \cup {None}
    BY <1>6, JoinTyped DEF TypeOK, StopConnected
  <2>4. bound' \in [Calls -> 0 .. MaxGeneration] /\ state' \in States
    BY <1>6 DEF TypeOK, StopConnected, Bind, States
  <2> QED
    BY <1>6, <2>1, <2>2, <2>3, <2>4, TakeCommandTyped DEF TypeOK, StopConnected
<1>7. ASSUME NEW c \in Calls, SendRequest(c) PROVE TypeOK'
  <2>1. /\ phase' \in Phases /\ cont' \in Continuations
        /\ barrier' \in {"none", "waiting", "done"}
    BY <1>7, BeginReapTyped DEF TypeOK, SendRequest, Continuations
  <2>2. nextId' \in 0 .. MaxRequestId /\ writer' \in Seq(Ids)
    BY <1>7, AllocateIdTyped, QueueFrameTyped DEF TypeOK, SendRequest
  <2>3. /\ bound' \in [Calls -> 0 .. MaxGeneration] /\ reply' \in [Calls -> Replies]
        /\ pending' \in [Ids -> Calls \cup {None}] /\ primary' \in Calls \cup {None}
    BY <1>7, AnswerTyped DEF TypeOK, SendRequest, Bind, Replies
  <2>4. commands' \in Seq(Calls)
    BY <1>7, TakeCommandTyped DEF SendRequest
  <2> QED
    BY <1>7, <2>1, <2>2, <2>3, <2>4 DEF TypeOK, SendRequest
<1>8. ASSUME NEW c \in Calls, ReadStatus(c) PROVE TypeOK'
  <2>1. commands' \in Seq(Calls)
    BY <1>8, TakeCommandTyped DEF ReadStatus
  <2>2. reply' \in [Calls -> Replies]
    BY <1>8, AnswerTyped DEF ReadStatus, Replies, TypeOK
  <2>3. phase' \in Phases /\ activeStatus' \in Calls \cup {None}
    BY <1>8 DEF ReadStatus, TypeOK, Phases
  <2> QED
    BY <1>8, <2>1, <2>2, <2>3 DEF TypeOK, ReadStatus
<1>9. ASSUME SnapshotDone PROVE TypeOK'
  BY <1>9, AnswerTyped DEF TypeOK, SnapshotDone, Replies, Phases
<1>10. ASSUME DropStaleEvent PROVE TypeOK'
  BY <1>10, HeadTailProperties DEF TypeOK, DropStaleEvent
<1>11. ASSUME HandleHello PROVE TypeOK'
  BY <1>11, TakeEventTyped, BeginReapTyped
     DEF TypeOK, HandleHello, Continuations, States, Phases
<1>12. ASSUME HandleResponse PROVE TypeOK'
  <2>1. /\ phase' \in Phases /\ cont' \in Continuations
        /\ barrier' \in {"none", "waiting", "done"}
    BY <1>12, BeginReapTyped DEF TypeOK, HandleResponse, Continuations
  <2>2. reply' \in [Calls -> Replies] /\ pending' \in [Ids -> Calls \cup {None}]
    BY <1>12, AnswerTyped DEF TypeOK, HandleResponse, Replies
  <2> QED
    BY <1>12, <2>1, <2>2, TakeEventTyped DEF TypeOK, HandleResponse
<1>13. ASSUME HandleShutdownResponse PROVE TypeOK'
  <2>1. /\ phase' \in Phases /\ cont' \in Continuations
        /\ barrier' \in {"none", "waiting", "done"}
    BY <1>13, BeginReapTyped, TryCompleteTyped
       DEF HandleShutdownResponse, Continuations
  <2>2. stop' \in StopContexts
    BY <1>13 DEF TypeOK, HandleShutdownResponse, StopContexts
  <2> QED
    BY <1>13, <2>1, <2>2, TakeEventTyped DEF TypeOK, HandleShutdownResponse
<1>14. ASSUME HandleEof PROVE TypeOK'
  <2>1. /\ phase' \in Phases /\ cont' \in Continuations
        /\ barrier' \in {"none", "waiting", "done"}
    BY <1>14, BeginReapTyped, TryCompleteTyped DEF TypeOK, HandleEof, Continuations, Phases
  <2>2. stop' \in StopContexts
    BY <1>14 DEF TypeOK, HandleEof, StopContexts
  <2> QED
    BY <1>14, <2>1, <2>2, TakeEventTyped DEF TypeOK, HandleEof
<1>15. ASSUME EofWaitDone PROVE TypeOK'
  BY <1>15, BeginReapTyped, CollectExitTyped DEF TypeOK, EofWaitDone, Continuations
<1>16. ASSUME HandleBroken PROVE TypeOK'
  BY <1>16, TakeEventTyped, BeginReapTyped DEF TypeOK, HandleBroken, Continuations
<1>17. ASSUME HandleWriteFailure PROVE TypeOK'
  <2>1. primary' \in Calls \cup {None} /\ pending' \in [Ids -> Calls \cup {None}]
    BY <1>17 DEF TypeOK, HandleWriteFailure, Taken, PendingIds
  <2> QED
    BY <1>17, <2>1, TakeEventTyped, BeginReapTyped
       DEF TypeOK, HandleWriteFailure, Continuations
<1>18. ASSUME StartTimeout PROVE TypeOK'
  BY <1>18, BeginReapTyped DEF TypeOK, StartTimeout, Continuations
<1>19. ASSUME ShutdownTimeout PROVE TypeOK'
  BY <1>19, BeginReapTyped DEF TypeOK, ShutdownTimeout, Continuations
<1>20. ASSUME RequestTimeout PROVE TypeOK'
  <2>1. primary' \in Calls \cup {None} /\ pending' \in [Ids -> Calls \cup {None}]
    BY <1>20 DEF TypeOK, RequestTimeout, Taken, PendingIds
  <2> QED
    BY <1>20, <2>1, BeginReapTyped DEF TypeOK, RequestTimeout, Continuations
<1>21. ASSUME DrainTimeout PROVE TypeOK'
  BY <1>21, BeginReapTyped DEF TypeOK, DrainTimeout, Continuations
<1>22. ASSUME PollProcessExit PROVE TypeOK'
  <2>1. /\ phase' \in Phases /\ cont' \in Continuations
        /\ barrier' \in {"none", "waiting", "done"}
    BY <1>22, BeginReapTyped, TryCompleteTyped DEF TypeOK, PollProcessExit, Continuations
  <2>2. /\ exitStatus' \in Exits /\ os' \in [Generations -> OsStates]
        /\ draining' \in BOOLEAN
    BY <1>22, CollectExitTyped DEF TypeOK, PollProcessExit
  <2> QED
    BY <1>22, <2>1, <2>2 DEF TypeOK, PollProcessExit
<1>23. ASSUME ReapWait PROVE TypeOK'
  BY <1>23, CollectExitTyped DEF TypeOK, ReapWait, Phases
<1>24. ASSUME ReapTimeout PROVE TypeOK'
  BY <1>24 DEF TypeOK, ReapTimeout, Phases
<1>25. ASSUME DetachedReap PROVE TypeOK'
  BY <1>25, CollectExitTyped DEF TypeOK, DetachedReap
<1>26. ASSUME BarrierWait PROVE TypeOK'
  BY <1>26 DEF TypeOK, BarrierWait, Phases
<1>27. ASSUME FinishFail PROVE TypeOK'
  BY <1>27, FinishProcessTasksTyped, ClearStreamTyped, AnswerTyped
     DEF TypeOK, FinishFail, Phases, States, Replies
<1>28. ASSUME FinishCrash PROVE TypeOK'
  BY <1>28, FinishProcessTasksTyped, NoStopTyped, AnswerTyped
     DEF TypeOK, FinishCrash, Phases, States, Replies
<1>29. ASSUME FinishCancelStart PROVE TypeOK'
  BY <1>29, FinishProcessTasksTyped, Answer2Typed
     DEF TypeOK, FinishCancelStart, Phases, States, Replies
<1>30. ASSUME FinishGraceful PROVE TypeOK'
  BY <1>30, FinishProcessTasksTyped, NoStopTyped, Answer2Typed
     DEF TypeOK, FinishGraceful, Phases, States, Replies
<1>31. ASSUME FinishDropped PROVE TypeOK'
  BY <1>31, FinishProcessTasksTyped, NoStopTyped, AnswerTyped
     DEF TypeOK, FinishDropped, Phases, Replies
<1>32. ASSUME ManagerDropped PROVE TypeOK'
  BY <1>32, BeginReapTyped DEF TypeOK, ManagerDropped, Continuations, Phases
<1>33. ASSUME Abort PROVE TypeOK'
  <2>1. reply' \in [Calls -> Replies]
    BY <1>33, AnswerTyped DEF TypeOK, Abort, Replies
  <2>2. commands' \in Seq(Calls)
    <3>1. commands' = commands \/ commands' = <<>>
      BY <1>33 DEF Abort
    <3>2. <<>> \in Seq(Calls)
      OBVIOUS
    <3> QED
      BY <3>1, <3>2 DEF TypeOK
  <2>3. phase' \in Phases /\ writerAlive' \in BOOLEAN /\ readerAlive' \in BOOLEAN
    BY <1>33 DEF TypeOK, Abort, Phases
  <2> QED
    BY <1>33, <2>1, <2>2, <2>3 DEF TypeOK, Abort
<1>34. ASSUME AbortReap PROVE TypeOK'
  BY <1>34, CollectExitTyped DEF TypeOK, AbortReap
<1>35. ASSUME AbortFinish PROVE TypeOK'
  <2>1. reply' \in [Calls -> Replies]
    BY <1>35, Answer2Typed DEF AbortFinish, OwnerReaped, Replies
  <2>2. commands' \in Seq(Calls)
    BY <1>35 DEF AbortFinish
  <2> QED
    BY <1>35, <2>1, <2>2, ClearStreamTyped, ManagerAssumption DEF TypeOK, AbortFinish, Phases
<1>36. ASSUME ChildWrites PROVE TypeOK'
  <2>1. events' \in Seq(Events)
    BY <1>36, EventsTyped, EmitTyped DEF ChildWrites
  <2> QED
    BY <1>36, <2>1 DEF TypeOK, ChildWrites
<1>37. ASSUME StdoutEnds PROVE TypeOK'
  <2>1. events' \in Seq(Events)
    BY <1>37, EventsTyped, EmitTyped DEF StdoutEnds
  <2> QED
    BY <1>37, <2>1 DEF TypeOK, StdoutEnds
<1>38. ASSUME StdinWrite PROVE TypeOK'
  <2>1. Head(writer) \in Ids /\ writer' \in Seq(Ids)
    BY <1>38, HeadTailProperties DEF TypeOK, StdinWrite
  <2>2. events' \in Seq(Events)
    BY <1>38, <2>1, EventsTyped, EmitTyped DEF StdinWrite, TypeOK
  <2> QED
    BY <1>38, <2>1, <2>2 DEF TypeOK, StdinWrite
<1>39. ASSUME ChildExits PROVE TypeOK'
  BY <1>39 DEF TypeOK, ChildExits, OsStates, Unreaped
<1>40. ASSUME DropManager PROVE TypeOK'
  BY <1>40 DEF TypeOK, DropManager, Replies
<1>41. CASE UNCHANGED vars
  BY <1>41 DEF TypeOK, vars
<1> QED
  BY <1>1, <1>2, <1>3, <1>4, <1>5, <1>6, <1>7, <1>8, <1>9, <1>10, <1>11, <1>12, <1>13,
     <1>14, <1>15, <1>16, <1>17, <1>18, <1>19, <1>20, <1>21, <1>22, <1>23, <1>24,
     <1>25, <1>26, <1>27, <1>28, <1>29, <1>30, <1>31, <1>32, <1>33, <1>34, <1>35,
     <1>36, <1>37, <1>38, <1>39, <1>40, <1>41
     DEF Next, Command, HandleEvent, Deadlines, Reaping, Finish

\* Every variable keeps its type: the queue holds calls, the slots hold a call or
\* None, and the counters stay in range.
THEOREM TypeCorrect == Spec => []TypeOK
BY InitTypeOK, NextTypeOK, PTL DEF Spec

-----------------------------------------------------------------------------
(* The control invariant *)

Settled == {"select", "snapshot", "eofWait"}
InReap == {"reap", "barrier", "drain"}

\* Where the actor holds a process, and what each await knows about its exit.
ProcessInv ==
  /\ phase \in {"snapshot", "eofWait"} \cup InReap => hasProcess
  /\ phase \in {"eofWait", "reap"} => exitStatus = "unknown"
  /\ phase = "drain" => exitStatus # "unknown"
  /\ phase = "barrier" => barrier # "none"
  /\ barrier # "none" => phase \in {"barrier", "drain", "aborted"} /\ hasProcess
  /\ barrier = "waiting" => exitStatus = "unknown"
  /\ barrier = "done" => exitStatus # "unknown"
  /\ phase = "closed" => ~hasProcess
  /\ draining => exitStatus # "unknown"
  /\ phase \in Settled =>
       (hasProcess <=> state \in {"Starting", "Connected", "Stopping"})

\* Which slots can be occupied where.
ContextInv ==
  /\ stop.id = 0 => stop = NoStop
  /\ phase \in Settled \cup InReap /\ activeStatus # None => phase = "snapshot"
  /\ phase \in Settled =>
       /\ stop.id # 0 <=> state = "Stopping"
       /\ start # None <=> \/ state = "Starting"
                           \/ phase = "snapshot" /\ activeStatus = None
       /\ PendingIds # {} => state \in {"Connected", "Stopping"}
       /\ primary = None /\ deferredStop = None
       /\ phase = "snapshot" /\ activeStatus = None => state = "Connected"
  /\ phase \in InReap /\ cont # "fail" => primary = None
  /\ phase \in InReap /\ cont \notin {"fail", "cancelStart"} => deferredStop = None
  /\ phase \in InReap /\ cont = "cancelStart" =>
       PendingIds = {} /\ stop = NoStop /\ state = "Starting"
  /\ phase \in InReap /\ cont = "graceful" =>
       /\ start = None
       /\ state = "Stopping"
       /\ stop.response /\ stop.eof /\ exitStatus = "ok"
  /\ phase \in InReap /\ cont = "dropped" => managerDropped /\ commands = <<>>
  /\ phase \in {"reap", "barrier"} => cont # "crash"

\* After the end of the task nothing is owned.
ClosedInv ==
  phase = "closed" =>
    /\ commands = <<>> /\ PendingIds = {} /\ stop = NoStop
    /\ start = None /\ primary = None /\ deferredStop = None /\ activeStatus = None

\* Collecting the exit of the current child leaves no unreaped process.
LEMMA CollectExitReaps ==
  ASSUME TypeOK, NoOrphan, CollectExit
  PROVE  \A g \in Generations : os'[g] \notin Unreaped
BY DEF TypeOK, NoOrphan, CollectExit, Unreaped

\* Without a process, or with its exit recorded, no child is unreaped.
LEMMA NothingUnreaped ==
  ASSUME NoOrphan, ~hasProcess \/ exitStatus # "unknown"
  PROVE  \A g \in Generations : os[g] \notin Unreaped
BY DEF NoOrphan

LEMMA InitControl == Init => ProcessInv /\ ContextInv /\ ClosedInv /\ NoOrphan
BY DEF Init, ProcessInv, ContextInv, ClosedInv, NoOrphan, Settled, InReap, PendingIds,
       NoStop, Unreaped

\* Every step keeps the process, its exit status and the barrier in agreement with
\* the await the actor is at.
LEMMA ProcessStep == ProcessInv /\ ContextInv /\ [Next]_vars => ProcessInv'
<1> SUFFICES ASSUME ProcessInv, ContextInv, [Next]_vars PROVE ProcessInv'
  OBVIOUS
<1> USE ManagerAssumption DEF clientVars, slotVars, controlVars, processVars, ProcessInv, ContextInv, Settled,
          InReap
<1>1. ASSUME NEW c \in Calls, NEW o \in Operations, Submit(c, o) PROVE ProcessInv'
  BY <1>1 DEF Submit
<1>2. ASSUME NEW c \in Calls, StartRuntime(c) PROVE ProcessInv'
  BY <1>2 DEF StartRuntime, TakeCommand, Spawned
<1>3. ASSUME NEW c \in Calls, StopIdle(c) PROVE ProcessInv'
  BY <1>3 DEF StopIdle, TakeCommand
<1>4. ASSUME NEW c \in Calls, StopStarting(c) PROVE ProcessInv'
  BY <1>4 DEF StopStarting, TakeCommand, BeginReap
<1>5. ASSUME NEW c \in Calls, StopJoin(c) PROVE ProcessInv'
  BY <1>5 DEF StopJoin, TakeCommand
<1>6. ASSUME NEW c \in Calls, StopConnected(c) PROVE ProcessInv'
  BY <1>6 DEF StopConnected, TakeCommand, BeginReap, NewStop
<1>7. ASSUME NEW c \in Calls, SendRequest(c) PROVE ProcessInv'
  BY <1>7 DEF SendRequest, TakeCommand, BeginReap
<1>8. ASSUME NEW c \in Calls, ReadStatus(c) PROVE ProcessInv'
  BY <1>8 DEF ReadStatus, TakeCommand
<1>9. ASSUME SnapshotDone PROVE ProcessInv'
  BY <1>9 DEF SnapshotDone
<1>10. ASSUME DropStaleEvent PROVE ProcessInv'
  BY <1>10 DEF DropStaleEvent
<1>11. ASSUME HandleHello PROVE ProcessInv'
  BY <1>11 DEF HandleHello, TakeEvent, BeginReap
<1>12. ASSUME HandleResponse PROVE ProcessInv'
  BY <1>12 DEF HandleResponse, TakeEvent, BeginReap, NamesShutdown
<1>13. ASSUME HandleShutdownResponse PROVE ProcessInv'
  BY <1>13 DEF HandleShutdownResponse, TakeEvent, BeginReap, TryCompleteShutdown,
     NamesShutdown
<1>14. ASSUME HandleEof PROVE ProcessInv'
  BY <1>14 DEF HandleEof, TakeEvent, BeginReap, TryCompleteShutdown
<1>15. ASSUME EofWaitDone PROVE ProcessInv'
  BY <1>15 DEF EofWaitDone, BeginReap, CollectExit, Exited
<1>16. ASSUME HandleBroken PROVE ProcessInv'
  BY <1>16 DEF HandleBroken, TakeEvent, BeginReap
<1>17. ASSUME HandleWriteFailure PROVE ProcessInv'
  BY <1>17 DEF HandleWriteFailure, TakeEvent, BeginReap, Taken
<1>18. ASSUME StartTimeout PROVE ProcessInv'
  BY <1>18 DEF StartTimeout, BeginReap
<1>19. ASSUME ShutdownTimeout PROVE ProcessInv'
  BY <1>19 DEF ShutdownTimeout, BeginReap
<1>20. ASSUME RequestTimeout PROVE ProcessInv'
  BY <1>20 DEF RequestTimeout, BeginReap, Taken
<1>21. ASSUME DrainTimeout PROVE ProcessInv'
  BY <1>21 DEF DrainTimeout, BeginReap
<1>22. ASSUME PollProcessExit PROVE ProcessInv'
  BY <1>22 DEF PollProcessExit, BeginReap, CollectExit, Exited, TryCompleteShutdown
<1>23. ASSUME ReapWait PROVE ProcessInv'
  BY <1>23 DEF ReapWait, CollectExit, Exited
<1>24. ASSUME ReapTimeout PROVE ProcessInv'
  BY <1>24 DEF ReapTimeout
<1>25. ASSUME DetachedReap PROVE ProcessInv'
  BY <1>25 DEF DetachedReap, CollectExit, Exited
<1>26. ASSUME BarrierWait PROVE ProcessInv'
  BY <1>26 DEF BarrierWait
<1>27. ASSUME FinishFail PROVE ProcessInv'
  BY <1>27 DEF FinishFail, FinishProcessTasks, ClearStream
<1>28. ASSUME FinishCrash PROVE ProcessInv'
  BY <1>28 DEF FinishCrash, FinishProcessTasks
<1>29. ASSUME FinishCancelStart PROVE ProcessInv'
  BY <1>29 DEF FinishCancelStart, FinishProcessTasks
<1>30. ASSUME FinishGraceful PROVE ProcessInv'
  BY <1>30 DEF FinishGraceful, FinishProcessTasks
<1>31. ASSUME FinishDropped PROVE ProcessInv'
  BY <1>31 DEF FinishDropped, FinishProcessTasks
<1>32. ASSUME ManagerDropped PROVE ProcessInv'
  BY <1>32 DEF ManagerDropped, BeginReap
<1>33. ASSUME Abort PROVE ProcessInv'
  BY <1>33 DEF Abort, OwnsNothing
<1>34. ASSUME AbortReap PROVE ProcessInv'
  BY <1>34 DEF AbortReap, CollectExit, Exited
<1>35. ASSUME AbortFinish PROVE ProcessInv'
  BY <1>35 DEF AbortFinish, OwnerReaped, ClearStream
<1>36. ASSUME ChildWrites PROVE ProcessInv'
  BY <1>36 DEF ChildWrites
<1>37. ASSUME StdoutEnds PROVE ProcessInv'
  BY <1>37 DEF StdoutEnds
<1>38. ASSUME StdinWrite PROVE ProcessInv'
  BY <1>38 DEF StdinWrite
<1>39. ASSUME ChildExits PROVE ProcessInv'
  BY <1>39 DEF ChildExits
<1>40. ASSUME DropManager PROVE ProcessInv'
  BY <1>40 DEF DropManager
<1>41. CASE UNCHANGED vars
  BY <1>41 DEF vars
<1> QED
  BY <1>1, <1>2, <1>3, <1>4, <1>5, <1>6, <1>7, <1>8, <1>9, <1>10, <1>11, <1>12, <1>13,
     <1>14, <1>15, <1>16, <1>17, <1>18, <1>19, <1>20, <1>21, <1>22, <1>23, <1>24,
     <1>25, <1>26, <1>27, <1>28, <1>29, <1>30, <1>31, <1>32, <1>33, <1>34, <1>35,
     <1>36, <1>37, <1>38, <1>39, <1>40, <1>41
     DEF Next, Command, HandleEvent, Deadlines, Reaping, Finish

\* Every step keeps the contexts and the failure slots where their await allows.
LEMMA ContextStep == stop \in StopContexts /\ ProcessInv /\ ContextInv /\ [Next]_vars => ContextInv'
<1> SUFFICES ASSUME stop \in StopContexts, ProcessInv, ContextInv, [Next]_vars PROVE ContextInv'
  OBVIOUS
<1> USE ManagerAssumption DEF clientVars, slotVars, controlVars, processVars, ProcessInv, ContextInv, Settled,
          InReap, PendingIds, NoStop, StopContexts
<1>1. ASSUME NEW c \in Calls, NEW o \in Operations, Submit(c, o) PROVE ContextInv'
  BY <1>1 DEF Submit
<1>2. ASSUME NEW c \in Calls, StartRuntime(c) PROVE ContextInv'
  BY <1>2 DEF StartRuntime, TakeCommand, Spawned
<1>3. ASSUME NEW c \in Calls, StopIdle(c) PROVE ContextInv'
  BY <1>3 DEF StopIdle, TakeCommand
<1>4. ASSUME NEW c \in Calls, StopStarting(c) PROVE ContextInv'
  BY <1>4 DEF StopStarting, TakeCommand, BeginReap
<1>5. ASSUME NEW c \in Calls, StopJoin(c) PROVE ContextInv'
  BY <1>5 DEF StopJoin, TakeCommand
<1>6. ASSUME NEW c \in Calls, StopConnected(c) PROVE ContextInv'
  BY <1>6 DEF StopConnected, TakeCommand, BeginReap, NewStop
<1>7. ASSUME NEW c \in Calls, SendRequest(c) PROVE ContextInv'
  BY <1>7 DEF SendRequest, TakeCommand, BeginReap
<1>8. ASSUME NEW c \in Calls, ReadStatus(c) PROVE ContextInv'
  BY <1>8 DEF ReadStatus, TakeCommand
<1>9. ASSUME SnapshotDone PROVE ContextInv'
  BY <1>9 DEF SnapshotDone
<1>10. ASSUME DropStaleEvent PROVE ContextInv'
  BY <1>10 DEF DropStaleEvent
<1>11. ASSUME HandleHello PROVE ContextInv'
  BY <1>11 DEF HandleHello, TakeEvent, BeginReap
<1>12. ASSUME HandleResponse PROVE ContextInv'
  BY <1>12 DEF HandleResponse, TakeEvent, BeginReap, NamesShutdown
<1>13. ASSUME HandleShutdownResponse PROVE ContextInv'
  BY <1>13 DEF HandleShutdownResponse, TakeEvent, BeginReap, TryCompleteShutdown,
     NamesShutdown
<1>14. ASSUME HandleEof PROVE ContextInv'
  BY <1>14 DEF HandleEof, TakeEvent, BeginReap, TryCompleteShutdown
<1>15. ASSUME EofWaitDone PROVE ContextInv'
  BY <1>15 DEF EofWaitDone, BeginReap, CollectExit, Exited
<1>16. ASSUME HandleBroken PROVE ContextInv'
  BY <1>16 DEF HandleBroken, TakeEvent, BeginReap
<1>17. ASSUME HandleWriteFailure PROVE ContextInv'
  BY <1>17 DEF HandleWriteFailure, TakeEvent, BeginReap, Taken
<1>18. ASSUME StartTimeout PROVE ContextInv'
  BY <1>18 DEF StartTimeout, BeginReap
<1>19. ASSUME ShutdownTimeout PROVE ContextInv'
  BY <1>19 DEF ShutdownTimeout, BeginReap
<1>20. ASSUME RequestTimeout PROVE ContextInv'
  BY <1>20 DEF RequestTimeout, BeginReap, Taken
<1>21. ASSUME DrainTimeout PROVE ContextInv'
  BY <1>21 DEF DrainTimeout, BeginReap
<1>22. ASSUME PollProcessExit PROVE ContextInv'
  BY <1>22 DEF PollProcessExit, BeginReap, CollectExit, Exited, TryCompleteShutdown
<1>23. ASSUME ReapWait PROVE ContextInv'
  BY <1>23 DEF ReapWait, CollectExit, Exited
<1>24. ASSUME ReapTimeout PROVE ContextInv'
  BY <1>24 DEF ReapTimeout
<1>25. ASSUME DetachedReap PROVE ContextInv'
  BY <1>25 DEF DetachedReap, CollectExit, Exited
<1>26. ASSUME BarrierWait PROVE ContextInv'
  BY <1>26 DEF BarrierWait
<1>27. ASSUME FinishFail PROVE ContextInv'
  BY <1>27 DEF FinishFail, FinishProcessTasks, ClearStream
<1>28. ASSUME FinishCrash PROVE ContextInv'
  BY <1>28 DEF FinishCrash, FinishProcessTasks
<1>29. ASSUME FinishCancelStart PROVE ContextInv'
  BY <1>29 DEF FinishCancelStart, FinishProcessTasks
<1>30. ASSUME FinishGraceful PROVE ContextInv'
  BY <1>30 DEF FinishGraceful, FinishProcessTasks
<1>31. ASSUME FinishDropped PROVE ContextInv'
  BY <1>31 DEF FinishDropped, FinishProcessTasks
<1>32. ASSUME ManagerDropped PROVE ContextInv'
  BY <1>32 DEF ManagerDropped, BeginReap
<1>33. ASSUME Abort PROVE ContextInv'
  BY <1>33 DEF Abort, OwnsNothing
<1>34. ASSUME AbortReap PROVE ContextInv'
  BY <1>34 DEF AbortReap, CollectExit, Exited
<1>35. ASSUME AbortFinish PROVE ContextInv'
  BY <1>35 DEF AbortFinish, OwnerReaped, ClearStream
<1>36. ASSUME ChildWrites PROVE ContextInv'
  BY <1>36 DEF ChildWrites
<1>37. ASSUME StdoutEnds PROVE ContextInv'
  BY <1>37 DEF StdoutEnds
<1>38. ASSUME StdinWrite PROVE ContextInv'
  BY <1>38 DEF StdinWrite
<1>39. ASSUME ChildExits PROVE ContextInv'
  BY <1>39 DEF ChildExits
<1>40. ASSUME DropManager PROVE ContextInv'
  BY <1>40 DEF DropManager
<1>41. CASE UNCHANGED vars
  BY <1>41 DEF vars
<1> QED
  BY <1>1, <1>2, <1>3, <1>4, <1>5, <1>6, <1>7, <1>8, <1>9, <1>10, <1>11, <1>12, <1>13,
     <1>14, <1>15, <1>16, <1>17, <1>18, <1>19, <1>20, <1>21, <1>22, <1>23, <1>24,
     <1>25, <1>26, <1>27, <1>28, <1>29, <1>30, <1>31, <1>32, <1>33, <1>34, <1>35,
     <1>36, <1>37, <1>38, <1>39, <1>40, <1>41
     DEF Next, Command, HandleEvent, Deadlines, Reaping, Finish

(* Which end of stdout the actor acts on *)

\* What the actor has not yet taken from stdout and the event queue.
Unread == {events[k] : k \in 1 .. Len(events)}

\* No event is from a child to come, and an end of stdout in the queue or acted on
\* is that of the current child only if its reader has returned.
EofInv ==
  /\ \A e \in Unread : e.gen <= generation
  /\ \A e \in Unread : e.kind = "eof" /\ e.gen = generation => ~readerAlive
  /\ stop.eof \/ phase = "eofWait" => ~readerAlive

LEMMA UnreadShrinks ==
  ASSUME events \in Seq(Events)
  PROVE  /\ events # <<>> => Head(events) \in Unread
         /\ events # <<>> /\ events' = Tail(events) => Unread' \subseteq Unread
         /\ \A k \in 0 .. Len(events) :
              events' = SubSeq(events, k + 1, Len(events)) => Unread' \subseteq Unread
<1>1. events # <<>> => Head(events) \in Unread
  BY DEF Unread
<1>2. ASSUME events # <<>>, events' = Tail(events) PROVE Unread' \subseteq Unread
  <2>1. Len(events') = Len(events) - 1 /\ \A k \in 1 .. Len(events') : events'[k] = events[k + 1]
    BY <1>2
  <2> QED BY <2>1 DEF Unread
<1>3. ASSUME NEW k \in 0 .. Len(events), events' = SubSeq(events, k + 1, Len(events))
      PROVE  Unread' \subseteq Unread
  <2>1. Len(events') = Len(events) - k /\ \A j \in 1 .. Len(events') : events'[j] = events[k + j]
    BY <1>3
  <2> QED BY <2>1 DEF Unread
<1> QED BY <1>1, <1>2, <1>3

LEMMA UnreadGrows ==
  ASSUME events \in Seq(Events), NEW e, Emit(e)
  PROVE  Unread' \subseteq Unread \cup {e}
BY DEF Unread, Emit

LEMMA InitEof == Init => EofInv
BY DEF Init, EofInv, Unread, NoStop

\* An event is only taken for the child that it is from.
LEMMA EofStep == TypeOK /\ ProcessInv /\ ContextInv /\ EofInv /\ [Next]_vars => EofInv'
<1> SUFFICES ASSUME TypeOK, ProcessInv, ContextInv, EofInv, [Next]_vars PROVE EofInv'
  OBVIOUS
<1> events \in Seq(Events) /\ generation \in Nat /\ stop \in StopContexts
    /\ \A e \in Events : e.gen \in Nat
  BY ManagerAssumption DEF TypeOK, Events
<1> /\ \A e \in Unread : e \in Events
    /\ events' = events => Unread' = Unread
  BY DEF Unread
<1> USE DEF clientVars, slotVars, controlVars, processVars, EofInv, StopContexts
<1>1. ASSUME NEW c \in Calls, NEW o \in Operations, Submit(c, o) PROVE EofInv'
  BY <1>1 DEF Submit
<1>2. ASSUME NEW c \in Calls, StartRuntime(c) PROVE EofInv'
  BY <1>2 DEF StartRuntime, TakeCommand, Spawned, Unread, NoStop, ContextInv, Settled
<1>3. ASSUME NEW c \in Calls, StopIdle(c) PROVE EofInv'
  BY <1>3 DEF StopIdle, TakeCommand
<1>4. ASSUME NEW c \in Calls, StopStarting(c) PROVE EofInv'
  BY <1>4 DEF StopStarting, TakeCommand, BeginReap
<1>5. ASSUME NEW c \in Calls, StopJoin(c) PROVE EofInv'
  BY <1>5 DEF StopJoin, TakeCommand
<1>6. ASSUME NEW c \in Calls, StopConnected(c) PROVE EofInv'
  BY <1>6 DEF StopConnected, TakeCommand, BeginReap, NewStop
<1>7. ASSUME NEW c \in Calls, SendRequest(c) PROVE EofInv'
  BY <1>7 DEF SendRequest, TakeCommand, BeginReap
<1>8. ASSUME NEW c \in Calls, ReadStatus(c) PROVE EofInv'
  BY <1>8 DEF ReadStatus, TakeCommand
<1>9. ASSUME SnapshotDone PROVE EofInv'
  BY <1>9 DEF SnapshotDone
<1>10. ASSUME DropStaleEvent PROVE EofInv'
  BY <1>10, UnreadShrinks DEF DropStaleEvent
<1>11. ASSUME HandleHello PROVE EofInv'
  BY <1>11, UnreadShrinks DEF HandleHello, TakeEvent, BeginReap
<1>12. ASSUME HandleResponse PROVE EofInv'
  BY <1>12, UnreadShrinks DEF HandleResponse, TakeEvent, BeginReap
<1>13. ASSUME HandleShutdownResponse PROVE EofInv'
  BY <1>13, UnreadShrinks DEF HandleShutdownResponse, TakeEvent, BeginReap, TryCompleteShutdown
<1>14. ASSUME HandleEof PROVE EofInv'
  BY <1>14, UnreadShrinks DEF HandleEof, TakeEvent, BeginReap, TryCompleteShutdown
<1>15. ASSUME EofWaitDone PROVE EofInv'
  BY <1>15 DEF EofWaitDone, BeginReap
<1>16. ASSUME HandleBroken PROVE EofInv'
  BY <1>16, UnreadShrinks DEF HandleBroken, TakeEvent, BeginReap
<1>17. ASSUME HandleWriteFailure PROVE EofInv'
  BY <1>17, UnreadShrinks DEF HandleWriteFailure, TakeEvent, BeginReap
<1>18. ASSUME StartTimeout PROVE EofInv'
  BY <1>18 DEF StartTimeout, BeginReap
<1>19. ASSUME ShutdownTimeout PROVE EofInv'
  BY <1>19 DEF ShutdownTimeout, BeginReap
<1>20. ASSUME RequestTimeout PROVE EofInv'
  BY <1>20 DEF RequestTimeout, BeginReap
<1>21. ASSUME DrainTimeout PROVE EofInv'
  BY <1>21 DEF DrainTimeout, BeginReap
<1>22. ASSUME PollProcessExit PROVE EofInv'
  BY <1>22 DEF PollProcessExit, BeginReap, TryCompleteShutdown, CollectExit
<1>23. ASSUME ReapWait PROVE EofInv'
  BY <1>23 DEF ReapWait
<1>24. ASSUME ReapTimeout PROVE EofInv'
  BY <1>24 DEF ReapTimeout
<1>25. ASSUME DetachedReap PROVE EofInv'
  BY <1>25 DEF DetachedReap
<1>26. ASSUME BarrierWait PROVE EofInv'
  BY <1>26 DEF BarrierWait
<1>27. ASSUME FinishFail PROVE EofInv'
  BY <1>27, UnreadShrinks DEF FinishFail, FinishProcessTasks, ClearStream
<1>28. ASSUME FinishCrash PROVE EofInv'
  BY <1>28, UnreadShrinks DEF FinishCrash, FinishProcessTasks
<1>29. ASSUME FinishCancelStart PROVE EofInv'
  BY <1>29, UnreadShrinks DEF FinishCancelStart, FinishProcessTasks
<1>30. ASSUME FinishGraceful PROVE EofInv'
  BY <1>30, UnreadShrinks DEF FinishGraceful, FinishProcessTasks
<1>31. ASSUME FinishDropped PROVE EofInv'
  BY <1>31, UnreadShrinks DEF FinishDropped, FinishProcessTasks
<1>32. ASSUME ManagerDropped PROVE EofInv'
  BY <1>32 DEF ManagerDropped, BeginReap
<1>33. ASSUME Abort PROVE EofInv'
  BY <1>33 DEF Abort
<1>34. ASSUME AbortReap PROVE EofInv'
  BY <1>34 DEF AbortReap
<1>35. ASSUME AbortFinish PROVE EofInv'
  BY <1>35 DEF AbortFinish, ClearStream, NoStop
<1>36. ASSUME ChildWrites PROVE EofInv'
  <2>1. PICK e : Emit(e) /\ e.gen = generation /\ e.kind # "eof"
    <3>1. \A i, q : /\ Plain(generation, "hello").gen = generation
                   /\ Plain(generation, "hello").kind # "eof"
                   /\ Response(generation, i, q).gen = generation
                   /\ Response(generation, i, q).kind # "eof"
      BY DEF Plain, Response
    <3> QED BY <1>36, <3>1 DEF ChildWrites
  <2>2. Unread' \subseteq Unread \cup {e}
    BY <2>1, UnreadGrows
  <2> QED BY <1>36, <2>1, <2>2 DEF ChildWrites
<1>37. ASSUME StdoutEnds PROVE EofInv'
  BY <1>37, UnreadGrows DEF StdoutEnds, Plain
<1>38. ASSUME StdinWrite PROVE EofInv'
  <2>1. UNCHANGED <<generation, stop, phase, readerAlive>>
    BY <1>38 DEF StdinWrite
  <2>2. CASE UNCHANGED events
    BY <2>1, <2>2
  <2>3. CASE Emit(WriteFailure(generation, Head(writer)))
    <3>1. Unread' \subseteq Unread \cup {WriteFailure(generation, Head(writer))}
      BY <2>3, UnreadGrows
    <3> QED BY <2>1, <3>1 DEF WriteFailure
  <2> QED BY <1>38, <2>2, <2>3 DEF StdinWrite
<1>39. ASSUME ChildExits PROVE EofInv'
  BY <1>39 DEF ChildExits
<1>40. ASSUME DropManager PROVE EofInv'
  BY <1>40 DEF DropManager
<1>41. CASE UNCHANGED vars
  BY <1>41 DEF vars
<1> QED
  BY <1>1, <1>2, <1>3, <1>4, <1>5, <1>6, <1>7, <1>8, <1>9, <1>10, <1>11, <1>12, <1>13,
     <1>14, <1>15, <1>16, <1>17, <1>18, <1>19, <1>20, <1>21, <1>22, <1>23, <1>24,
     <1>25, <1>26, <1>27, <1>28, <1>29, <1>30, <1>31, <1>32, <1>33, <1>34, <1>35,
     <1>36, <1>37, <1>38, <1>39, <1>40, <1>41
     DEF Next, Command, HandleEvent, Deadlines, Reaping, Finish

\* The task ends only once it owns nothing.
LEMMA ClosedStep == phase \in Phases /\ ProcessInv /\ ContextInv /\ ClosedInv /\ [Next]_vars => ClosedInv'
<1> SUFFICES ASSUME phase \in Phases, ProcessInv, ContextInv, ClosedInv, [Next]_vars PROVE ClosedInv'
  OBVIOUS
<1> USE ManagerAssumption DEF clientVars, slotVars, controlVars, processVars, ProcessInv, ContextInv, ClosedInv,
          Settled, InReap, PendingIds, Phases
<1>1. ASSUME NEW c \in Calls, NEW o \in Operations, Submit(c, o) PROVE ClosedInv'
  BY <1>1 DEF Submit
<1>2. ASSUME NEW c \in Calls, StartRuntime(c) PROVE ClosedInv'
  BY <1>2 DEF StartRuntime, TakeCommand, Spawned
<1>3. ASSUME NEW c \in Calls, StopIdle(c) PROVE ClosedInv'
  BY <1>3 DEF StopIdle, TakeCommand
<1>4. ASSUME NEW c \in Calls, StopStarting(c) PROVE ClosedInv'
  BY <1>4 DEF StopStarting, TakeCommand, BeginReap
<1>5. ASSUME NEW c \in Calls, StopJoin(c) PROVE ClosedInv'
  BY <1>5 DEF StopJoin, TakeCommand
<1>6. ASSUME NEW c \in Calls, StopConnected(c) PROVE ClosedInv'
  BY <1>6 DEF StopConnected, TakeCommand, BeginReap, NewStop
<1>7. ASSUME NEW c \in Calls, SendRequest(c) PROVE ClosedInv'
  BY <1>7 DEF SendRequest, TakeCommand, BeginReap
<1>8. ASSUME NEW c \in Calls, ReadStatus(c) PROVE ClosedInv'
  BY <1>8 DEF ReadStatus, TakeCommand
<1>9. ASSUME SnapshotDone PROVE ClosedInv'
  BY <1>9 DEF SnapshotDone
<1>10. ASSUME DropStaleEvent PROVE ClosedInv'
  BY <1>10 DEF DropStaleEvent
<1>11. ASSUME HandleHello PROVE ClosedInv'
  BY <1>11 DEF HandleHello, TakeEvent, BeginReap
<1>12. ASSUME HandleResponse PROVE ClosedInv'
  BY <1>12 DEF HandleResponse, TakeEvent, BeginReap, NamesShutdown
<1>13. ASSUME HandleShutdownResponse PROVE ClosedInv'
  BY <1>13 DEF HandleShutdownResponse, TakeEvent, BeginReap, TryCompleteShutdown,
     NamesShutdown
<1>14. ASSUME HandleEof PROVE ClosedInv'
  BY <1>14 DEF HandleEof, TakeEvent, BeginReap, TryCompleteShutdown
<1>15. ASSUME EofWaitDone PROVE ClosedInv'
  BY <1>15 DEF EofWaitDone, BeginReap, CollectExit, Exited
<1>16. ASSUME HandleBroken PROVE ClosedInv'
  BY <1>16 DEF HandleBroken, TakeEvent, BeginReap
<1>17. ASSUME HandleWriteFailure PROVE ClosedInv'
  BY <1>17 DEF HandleWriteFailure, TakeEvent, BeginReap, Taken
<1>18. ASSUME StartTimeout PROVE ClosedInv'
  BY <1>18 DEF StartTimeout, BeginReap
<1>19. ASSUME ShutdownTimeout PROVE ClosedInv'
  BY <1>19 DEF ShutdownTimeout, BeginReap
<1>20. ASSUME RequestTimeout PROVE ClosedInv'
  BY <1>20 DEF RequestTimeout, BeginReap, Taken
<1>21. ASSUME DrainTimeout PROVE ClosedInv'
  BY <1>21 DEF DrainTimeout, BeginReap
<1>22. ASSUME PollProcessExit PROVE ClosedInv'
  BY <1>22 DEF PollProcessExit, BeginReap, CollectExit, Exited, TryCompleteShutdown
<1>23. ASSUME ReapWait PROVE ClosedInv'
  BY <1>23 DEF ReapWait, CollectExit, Exited
<1>24. ASSUME ReapTimeout PROVE ClosedInv'
  BY <1>24 DEF ReapTimeout
<1>25. ASSUME DetachedReap PROVE ClosedInv'
  BY <1>25 DEF DetachedReap, CollectExit, Exited
<1>26. ASSUME BarrierWait PROVE ClosedInv'
  BY <1>26 DEF BarrierWait
<1>27. ASSUME FinishFail PROVE ClosedInv'
  BY <1>27 DEF FinishFail, FinishProcessTasks, ClearStream
<1>28. ASSUME FinishCrash PROVE ClosedInv'
  BY <1>28 DEF FinishCrash, FinishProcessTasks
<1>29. ASSUME FinishCancelStart PROVE ClosedInv'
  BY <1>29 DEF FinishCancelStart, FinishProcessTasks
<1>30. ASSUME FinishGraceful PROVE ClosedInv'
  BY <1>30 DEF FinishGraceful, FinishProcessTasks
<1>31. ASSUME FinishDropped PROVE ClosedInv'
  BY <1>31 DEF FinishDropped, FinishProcessTasks
<1>32. ASSUME ManagerDropped PROVE ClosedInv'
  BY <1>32 DEF ManagerDropped, BeginReap
<1>33. ASSUME Abort PROVE ClosedInv'
  BY <1>33 DEF Abort, OwnsNothing
<1>34. ASSUME AbortReap PROVE ClosedInv'
  BY <1>34 DEF AbortReap, CollectExit, Exited
<1>35. ASSUME AbortFinish PROVE ClosedInv'
  BY <1>35 DEF AbortFinish, OwnerReaped, ClearStream
<1>36. ASSUME ChildWrites PROVE ClosedInv'
  BY <1>36 DEF ChildWrites
<1>37. ASSUME StdoutEnds PROVE ClosedInv'
  BY <1>37 DEF StdoutEnds
<1>38. ASSUME StdinWrite PROVE ClosedInv'
  BY <1>38 DEF StdinWrite
<1>39. ASSUME ChildExits PROVE ClosedInv'
  BY <1>39 DEF ChildExits
<1>40. ASSUME DropManager PROVE ClosedInv'
  BY <1>40 DEF DropManager
<1>41. CASE UNCHANGED vars
  BY <1>41 DEF vars
<1> QED
  BY <1>1, <1>2, <1>3, <1>4, <1>5, <1>6, <1>7, <1>8, <1>9, <1>10, <1>11, <1>12, <1>13,
     <1>14, <1>15, <1>16, <1>17, <1>18, <1>19, <1>20, <1>21, <1>22, <1>23, <1>24,
     <1>25, <1>26, <1>27, <1>28, <1>29, <1>30, <1>31, <1>32, <1>33, <1>34, <1>35,
     <1>36, <1>37, <1>38, <1>39, <1>40, <1>41
     DEF Next, Command, HandleEvent, Deadlines, Reaping, Finish

\* An unreaped child stays with its owner: only StartRuntime adds one, when there is
\* none, and the process is let go only with its exit recorded.
LEMMA NoOrphanStep == TypeOK /\ NoOrphan /\ ProcessInv /\ ContextInv /\ [Next]_vars => NoOrphan'
<1> SUFFICES ASSUME TypeOK, NoOrphan, ProcessInv, ContextInv, [Next]_vars PROVE NoOrphan'
  OBVIOUS
<1> USE DEF clientVars, slotVars, controlVars, processVars
<1>1. ASSUME NEW c \in Calls, NEW o \in Operations, Submit(c, o) PROVE NoOrphan'
  BY <1>1 DEF Submit, NoOrphan, ProcessInv, ContextInv, Settled, InReap
<1>2. ASSUME NEW c \in Calls, StartRuntime(c) PROVE NoOrphan'
  <2>1. CASE generation' # generation /\ state' = "Starting"
    <3>1. \A g \in Generations : os[g] \notin Unreaped
      BY <1>2, <2>1, NothingUnreaped DEF StartRuntime, TakeCommand, ProcessInv, Settled
    <3>2. hasProcess' /\ exitStatus' = "unknown" /\ phase' # "closed"
      BY <1>2, <2>1 DEF StartRuntime, TakeCommand, Spawned, NoOrphan
    <3> QED
      BY <1>2, <2>1, <3>1, <3>2 DEF StartRuntime, Spawned, NoOrphan, TypeOK
  <2>2. CASE ~(generation' # generation /\ state' = "Starting")
    BY <1>2, <2>2, NothingUnreaped DEF StartRuntime, TakeCommand, ProcessInv, Settled, NoOrphan, TypeOK
  <2> QED
    BY <2>1, <2>2
<1>3. ASSUME NEW c \in Calls, StopIdle(c) PROVE NoOrphan'
  BY <1>3 DEF StopIdle, TakeCommand, NoOrphan, ProcessInv, ContextInv, Settled, InReap
<1>4. ASSUME NEW c \in Calls, StopStarting(c) PROVE NoOrphan'
  BY <1>4 DEF StopStarting, TakeCommand, BeginReap, NoOrphan, ProcessInv, ContextInv,
     Settled, InReap
<1>5. ASSUME NEW c \in Calls, StopJoin(c) PROVE NoOrphan'
  BY <1>5 DEF StopJoin, TakeCommand, NoOrphan, ProcessInv, ContextInv, Settled, InReap
<1>6. ASSUME NEW c \in Calls, StopConnected(c) PROVE NoOrphan'
  BY <1>6 DEF StopConnected, TakeCommand, BeginReap, NewStop, NoOrphan, ProcessInv,
     ContextInv, Settled, InReap
<1>7. ASSUME NEW c \in Calls, SendRequest(c) PROVE NoOrphan'
  BY <1>7 DEF SendRequest, TakeCommand, BeginReap, NoOrphan, ProcessInv, ContextInv,
     Settled, InReap
<1>8. ASSUME NEW c \in Calls, ReadStatus(c) PROVE NoOrphan'
  BY <1>8 DEF ReadStatus, TakeCommand, NoOrphan, ProcessInv, ContextInv, Settled,
     InReap
<1>9. ASSUME SnapshotDone PROVE NoOrphan'
  BY <1>9 DEF SnapshotDone, NoOrphan, ProcessInv, ContextInv, Settled, InReap
<1>10. ASSUME DropStaleEvent PROVE NoOrphan'
  BY <1>10 DEF DropStaleEvent, NoOrphan, ProcessInv, ContextInv, Settled, InReap
<1>11. ASSUME HandleHello PROVE NoOrphan'
  BY <1>11 DEF HandleHello, TakeEvent, BeginReap, NoOrphan, ProcessInv, ContextInv,
     Settled, InReap
<1>12. ASSUME HandleResponse PROVE NoOrphan'
  BY <1>12 DEF HandleResponse, TakeEvent, BeginReap, NamesShutdown, NoOrphan,
     ProcessInv, ContextInv, Settled, InReap
<1>13. ASSUME HandleShutdownResponse PROVE NoOrphan'
  BY <1>13 DEF HandleShutdownResponse, TakeEvent, BeginReap, TryCompleteShutdown,
     NamesShutdown, NoOrphan, ProcessInv, ContextInv, Settled, InReap
<1>14. ASSUME HandleEof PROVE NoOrphan'
  BY <1>14 DEF HandleEof, TakeEvent, BeginReap, TryCompleteShutdown, NoOrphan,
     ProcessInv, ContextInv, Settled, InReap
<1>15. ASSUME EofWaitDone PROVE NoOrphan'
  <2>1. CASE CollectExit
    BY <1>15, <2>1, CollectExitReaps DEF NoOrphan
  <2>2. CASE BeginReap("fail", exitStatus) /\ UNCHANGED <<exitStatus, os>>
    BY <1>15, <2>2 DEF EofWaitDone, BeginReap, NoOrphan
  <2> QED
    BY <1>15, <2>1, <2>2 DEF EofWaitDone
<1>16. ASSUME HandleBroken PROVE NoOrphan'
  BY <1>16 DEF HandleBroken, TakeEvent, BeginReap, NoOrphan, ProcessInv, ContextInv,
     Settled, InReap
<1>17. ASSUME HandleWriteFailure PROVE NoOrphan'
  BY <1>17 DEF HandleWriteFailure, TakeEvent, BeginReap, Taken, NoOrphan, ProcessInv,
     ContextInv, Settled, InReap
<1>18. ASSUME StartTimeout PROVE NoOrphan'
  BY <1>18 DEF StartTimeout, BeginReap, NoOrphan, ProcessInv, ContextInv, Settled,
     InReap
<1>19. ASSUME ShutdownTimeout PROVE NoOrphan'
  BY <1>19 DEF ShutdownTimeout, BeginReap, NoOrphan, ProcessInv, ContextInv, Settled,
     InReap
<1>20. ASSUME RequestTimeout PROVE NoOrphan'
  BY <1>20 DEF RequestTimeout, BeginReap, Taken, NoOrphan, ProcessInv, ContextInv,
     Settled, InReap
<1>21. ASSUME DrainTimeout PROVE NoOrphan'
  BY <1>21 DEF DrainTimeout, BeginReap, NoOrphan, ProcessInv, ContextInv, Settled,
     InReap
<1>22. ASSUME PollProcessExit PROVE NoOrphan'
  <2>1. CASE CollectExit
    BY <1>22, <2>1, CollectExitReaps DEF NoOrphan
  <2>2. CASE BeginReap("fail", exitStatus) /\ UNCHANGED <<exitStatus, draining, os>>
    BY <1>22, <2>2 DEF PollProcessExit, BeginReap, NoOrphan
  <2> QED
    BY <1>22, <2>1, <2>2 DEF PollProcessExit
<1>23. ASSUME ReapWait PROVE NoOrphan'
  BY <1>23, CollectExitReaps DEF ReapWait, NoOrphan
<1>24. ASSUME ReapTimeout PROVE NoOrphan'
  BY <1>24 DEF ReapTimeout, NoOrphan, ProcessInv, ContextInv, Settled, InReap
<1>25. ASSUME DetachedReap PROVE NoOrphan'
  BY <1>25, CollectExitReaps DEF DetachedReap, NoOrphan
<1>26. ASSUME BarrierWait PROVE NoOrphan'
  BY <1>26 DEF BarrierWait, NoOrphan, ProcessInv, ContextInv, Settled, InReap
<1>27. ASSUME FinishFail PROVE NoOrphan'
  BY <1>27 DEF FinishFail, FinishProcessTasks, ClearStream, NoOrphan, ProcessInv,
     ContextInv, Settled, InReap
<1>28. ASSUME FinishCrash PROVE NoOrphan'
  BY <1>28 DEF FinishCrash, FinishProcessTasks, NoOrphan, ProcessInv, ContextInv,
     Settled, InReap
<1>29. ASSUME FinishCancelStart PROVE NoOrphan'
  BY <1>29 DEF FinishCancelStart, FinishProcessTasks, NoOrphan, ProcessInv,
     ContextInv, Settled, InReap
<1>30. ASSUME FinishGraceful PROVE NoOrphan'
  BY <1>30 DEF FinishGraceful, FinishProcessTasks, NoOrphan, ProcessInv, ContextInv,
     Settled, InReap
<1>31. ASSUME FinishDropped PROVE NoOrphan'
  BY <1>31 DEF FinishDropped, FinishProcessTasks, NoOrphan, ProcessInv, ContextInv,
     Settled, InReap
<1>32. ASSUME ManagerDropped PROVE NoOrphan'
  BY <1>32 DEF ManagerDropped, BeginReap, NoOrphan, ProcessInv, ContextInv, Settled,
     InReap
<1>33. ASSUME Abort PROVE NoOrphan'
  BY <1>33 DEF Abort, OwnsNothing, NoOrphan, ProcessInv, ContextInv, Settled, InReap
<1>34. ASSUME AbortReap PROVE NoOrphan'
  BY <1>34, CollectExitReaps DEF AbortReap, NoOrphan
<1>35. ASSUME AbortFinish PROVE NoOrphan'
  BY <1>35 DEF AbortFinish, OwnerReaped, ClearStream, NoOrphan, ProcessInv, ContextInv, Settled,
     InReap
<1>36. ASSUME ChildWrites PROVE NoOrphan'
  BY <1>36 DEF ChildWrites, NoOrphan, ProcessInv, ContextInv, Settled, InReap
<1>37. ASSUME StdoutEnds PROVE NoOrphan'
  BY <1>37 DEF StdoutEnds, NoOrphan, ProcessInv, ContextInv, Settled, InReap
<1>38. ASSUME StdinWrite PROVE NoOrphan'
  BY <1>38 DEF StdinWrite, NoOrphan, ProcessInv, ContextInv, Settled, InReap
<1>39. ASSUME ChildExits PROVE NoOrphan'
  BY <1>39 DEF ChildExits, NoOrphan, TypeOK, Unreaped
<1>40. ASSUME DropManager PROVE NoOrphan'
  BY <1>40 DEF DropManager, NoOrphan, ProcessInv, ContextInv, Settled, InReap
<1>41. CASE UNCHANGED vars
  BY <1>41 DEF vars, NoOrphan
<1> QED
  BY <1>1, <1>2, <1>3, <1>4, <1>5, <1>6, <1>7, <1>8, <1>9, <1>10, <1>11, <1>12, <1>13,
     <1>14, <1>15, <1>16, <1>17, <1>18, <1>19, <1>20, <1>21, <1>22, <1>23, <1>24,
     <1>25, <1>26, <1>27, <1>28, <1>29, <1>30, <1>31, <1>32, <1>33, <1>34, <1>35,
     <1>36, <1>37, <1>38, <1>39, <1>40, <1>41
     DEF Next, Command, HandleEvent, Deadlines, Reaping, Finish

ControlInv == TypeOK /\ ProcessInv /\ ContextInv /\ EofInv /\ ClosedInv /\ NoOrphan

LEMMA ControlInvariant == Spec => []ControlInv
<1>1. Init => ControlInv
  BY InitTypeOK, InitControl, InitEof DEF ControlInv
<1>2. ControlInv /\ [Next]_vars => ControlInv'
  <2> SUFFICES ASSUME ControlInv, [Next]_vars PROVE ControlInv'
    OBVIOUS
  <2>1. TypeOK'
    BY NextTypeOK DEF ControlInv
  <2>2. ProcessInv'
    BY ProcessStep DEF ControlInv
  <2>3. ContextInv'
    BY ContextStep DEF ControlInv, TypeOK
  <2>4. ClosedInv'
    BY ClosedStep DEF ControlInv, TypeOK
  <2>5. NoOrphan'
    BY NoOrphanStep DEF ControlInv
  <2>6. EofInv'
    BY EofStep DEF ControlInv
  <2> QED
    BY <2>1, <2>2, <2>3, <2>4, <2>5, <2>6 DEF ControlInv
<1> QED
  BY <1>1, <1>2, PTL DEF Spec

\* No child outlives its owner: on every path, a timeout, a broken stream, a failed
\* wait, an aborted task, an unreaped process is still held by the actor, by its
\* abort owner or by the detached reaper, and it is the only one.
THEOREM NoOrphanHolds == Spec => []NoOrphan
<1>1. ControlInv => NoOrphan
  BY DEF ControlInv
<1> QED
  BY <1>1, ControlInvariant, PTL

\* At every await outside reap_process the process, the contexts and the state
\* agree, and the slots of the failure path are free: the debug_asserts of
\* fail_stream_deferred and start_detached_process_reap cannot fire.  The end of
\* stdout that it acts on, and the exit that makes a crash, are the current child's.
THEOREM StateMatchesContextsHolds == Spec => []StateMatchesContexts
<1>1. ControlInv => StateMatchesContexts
  BY DEF ControlInv, ProcessInv, ContextInv, EofInv, StateMatchesContexts, Settled
<1> QED
  BY <1>1, ControlInvariant, PTL

-----------------------------------------------------------------------------
(* The ownership invariant: who holds which reply *)

Open(c) == reply[c] \in {"waiting", "abandoned"}

NoDuplicates ==
  \A j, k \in 1 .. Len(commands) : commands[j] = commands[k] => j = k

\* No slot of the actor holds c.
InNoSlot(c) ==
  /\ \A i \in PendingIds : pending[i] # c
  /\ c \notin stop.waiters
  /\ c # start /\ c # primary /\ c # deferredStop /\ c # activeStatus

\* A queued call is open and in no slot.
QueueInv == \A c \in Queued : Open(c) /\ InNoSlot(c)

\* A slot holds a call of the operation it is for.
SlotOps ==
  /\ \A i \in PendingIds : op[pending[i]] \in Queries
  /\ \A c \in stop.waiters : op[c] = "Stop"
  /\ start # None => op[start] = "Start"
  /\ primary # None => op[primary] \in Queries
  /\ deferredStop # None => op[deferredStop] = "Stop"
  /\ activeStatus # None => op[activeStatus] = "Status"

\* Where two slots take the same operation they hold different calls.
SlotDistinct ==
  /\ \A i, j \in PendingIds : pending[i] = pending[j] => i = j
  /\ \A i \in PendingIds : pending[i] # primary
  /\ deferredStop \notin stop.waiters

\* A call in a slot is open.
SlotOpen == \A c \in Calls : InNoSlot(c) \/ Open(c)

LEMMA QueueSame ==
  ASSUME NoDuplicates, commands' = commands
  PROVE  Queued' = Queued /\ NoDuplicates'
BY DEF Queued, NoDuplicates

\* Taking a command takes exactly its call out of the queue.
LEMMA TakeCommandQueue ==
  ASSUME TypeOK, NoDuplicates, NEW c, NEW o, TakeCommand(c, o)
  PROVE  c \in Queued /\ Queued' = Queued \ {c} /\ NoDuplicates' /\ c \in Calls
<1>1. /\ c = commands[1] /\ Len(commands) \in Nat \ {0}
      /\ commands \in [1 .. Len(commands) -> Calls]
      /\ DOMAIN commands = 1 .. Len(commands)
  BY DEF TypeOK, TakeCommand
<1>2. /\ commands' \in Seq(Calls)
      /\ Len(commands') = Len(commands) - 1
      /\ \A i \in 1 .. Len(commands') : commands'[i] = commands[i + 1]
      /\ DOMAIN commands' = 1 .. Len(commands')
  BY HeadTailProperties DEF TypeOK, TakeCommand
<1>3. c \in Queued /\ c \in Calls
  BY <1>1 DEF Queued
<1>4. NoDuplicates'
  BY <1>1, <1>2 DEF NoDuplicates
<1>5. ASSUME NEW x \in Queued' PROVE x \in Queued \ {c}
  <2>1. PICK i \in 1 .. Len(commands') : x = commands'[i]
    BY <1>2 DEF Queued
  <2>2. x = commands[i + 1] /\ i + 1 \in 1 .. Len(commands) /\ i + 1 # 1
    BY <2>1, <1>1, <1>2
  <2> QED
    BY <2>2, <1>1 DEF Queued, NoDuplicates
<1>6. ASSUME NEW x \in Queued, x # c PROVE x \in Queued'
  <2>1. PICK i \in 1 .. Len(commands) : x = commands[i]
    BY <1>1 DEF Queued
  <2>2. i - 1 \in 1 .. Len(commands') /\ (i - 1) + 1 = i
    BY <2>1, <1>1, <1>2, <1>6
  <2>3. commands'[i - 1] = x
    BY <2>1, <2>2, <1>2
  <2> QED
    BY <2>2, <2>3, <1>2 DEF Queued
<1> QED
  BY <1>3, <1>4, <1>5, <1>6

\* Submitting appends exactly its call.
LEMMA SubmitQueue ==
  ASSUME TypeOK, NoDuplicates, NEW c \in Calls, c \notin Queued,
         commands' = Append(commands, c)
  PROVE  Queued' = Queued \cup {c} /\ NoDuplicates'
<1>1. /\ Len(commands) \in Nat /\ DOMAIN commands = 1 .. Len(commands)
      /\ Len(commands') = Len(commands) + 1
      /\ DOMAIN commands' = 1 .. (Len(commands) + 1)
      /\ \A i \in 1 .. Len(commands) : commands'[i] = commands[i]
      /\ commands'[Len(commands) + 1] = c
  BY AppendProperties DEF TypeOK
<1>2. NoDuplicates'
  BY <1>1 DEF NoDuplicates, Queued
<1> QED
  BY <1>1, <1>2 DEF Queued

\* What the ownership invariant needs of the types.
LEMMA OwnTypes ==
  ASSUME TypeOK
  PROVE  /\ Queued \subseteq Calls /\ stop.waiters \subseteq Calls
         /\ reply \in [Calls -> Replies] /\ bound \in [Calls -> 0 .. MaxGeneration]
         /\ pending \in [Ids -> Calls \cup {None}]
         /\ op \in [Calls -> AllOperations \cup {"none"}]
<1>1. Queued \subseteq Calls
  BY ElementOfSeq, LenProperties DEF TypeOK, Queued
<1>2. stop.waiters \subseteq Calls
  BY DEF TypeOK, StopContexts
<1> QED
  BY <1>1, <1>2 DEF TypeOK

OwnInv == NoDuplicates /\ QueueInv /\ SlotOps /\ SlotDistinct /\ SlotOpen

\* A step that moves no sender and answers none.
LEMMA OwnershipFrame ==
  ASSUME OwnInv, UNCHANGED <<op, reply, bound, commands, pending, start, activeStatus,
                             primary, deferredStop>>,
         stop'.waiters = stop.waiters
  PROVE  OwnInv'
<1> USE DEF OwnInv
<1>1. QueueInv' /\ NoDuplicates'
  BY QueueSame DEF QueueInv, InNoSlot, PendingIds, Open
<1>2. SlotOps'
  BY DEF SlotOps, PendingIds
<1>3. SlotDistinct'
  BY DEF SlotDistinct, PendingIds
<1>4. SlotOpen'
  BY DEF SlotOpen, InNoSlot, PendingIds, Open
<1> QED
  BY <1>1, <1>2, <1>3, <1>4

\* Every sender stays where it is, moves from the queue to one slot or from one slot
\* to another, or leaves with its answer.
LEMMA OwnStep == TypeOK /\ OwnInv /\ [Next]_vars => OwnInv'
<1> SUFFICES ASSUME TypeOK, OwnInv, [Next]_vars PROVE OwnInv'
  OBVIOUS
<1> USE DEF clientVars, slotVars
<1>1. ASSUME NEW c \in Calls, NEW o \in Operations, Submit(c, o) PROVE OwnInv'
  <2>1. c \notin Queued /\ InNoSlot(c)
    BY <1>1 DEF Submit, OwnInv, QueueInv, SlotOpen, Open
  <2>2. /\ \/ Queued' = Queued
           \/ Queued' = Queued \cup {c} /\ reply'[c] = "waiting"
        /\ NoDuplicates'
    BY <1>1, <2>1, SubmitQueue, QueueSame, OwnTypes DEF Submit, OwnInv
  <2>3. QueueInv'
    BY <1>1, <2>1, OwnTypes, ManagerAssumption, <2>2 DEF Submit, OwnInv, QueueInv,
       SlotDistinct, SlotOps, SlotOpen, Queries, PendingIds, InNoSlot, NoStop, Open,
       PendingCalls, StreamCalls, Slot
  <2>4. SlotOps'
    BY <1>1, <2>1, OwnTypes, ManagerAssumption, <2>2 DEF Submit, OwnInv, SlotOpen,
       SlotOps, Open, PendingIds, InNoSlot, NoStop
  <2>5. SlotDistinct'
    BY <1>1, <2>1, OwnTypes, ManagerAssumption, <2>2 DEF Submit, OwnInv, SlotDistinct,
       QueueInv, PendingIds, InNoSlot, NoStop
  <2>6. SlotOpen'
    BY <1>1, <2>1, OwnTypes, ManagerAssumption, <2>2 DEF Submit, OwnInv, SlotOpen,
       SlotOps, SlotDistinct, QueueInv, Queries, PendingIds, InNoSlot, NoStop, Open,
       PendingCalls, StreamCalls, Slot
  <2> QED
    BY <2>1, <2>2, <2>3, <2>4, <2>5, <2>6 DEF OwnInv
<1>2. ASSUME NEW c \in Calls, StartRuntime(c) PROVE OwnInv'
  <2>1. c \in Queued /\ Queued' = Queued \ {c} /\ NoDuplicates'
    BY <1>2, TakeCommandQueue DEF StartRuntime, OwnInv
  <2>3. QueueInv'
    BY <1>2, <2>1, OwnTypes, ManagerAssumption DEF StartRuntime, Bind, Answer, OwnInv,
       QueueInv, SlotDistinct, SlotOps, SlotOpen, Queries, PendingIds, InNoSlot,
       NoStop, Open, PendingCalls, StreamCalls, Slot
  <2>4. SlotOps'
    BY <1>2, <2>1, OwnTypes, ManagerAssumption DEF StartRuntime, Bind, TakeCommand,
       OwnInv, SlotOpen, SlotOps, Open, PendingIds, InNoSlot, NoStop
  <2>5. SlotDistinct'
    BY <1>2, <2>1, OwnTypes, ManagerAssumption DEF StartRuntime, Bind, OwnInv,
       SlotDistinct, QueueInv, PendingIds, InNoSlot, NoStop
  <2>6. SlotOpen'
    BY <1>2, <2>1, OwnTypes, ManagerAssumption DEF StartRuntime, Bind, Answer,
       TakeCommand, OwnInv, SlotOpen, SlotOps, SlotDistinct, QueueInv, Queries,
       PendingIds, InNoSlot, NoStop, Open, PendingCalls, StreamCalls, Slot
  <2> QED
    BY <2>1, <2>3, <2>4, <2>5, <2>6 DEF OwnInv
<1>3. ASSUME NEW c \in Calls, StopIdle(c) PROVE OwnInv'
  <2>1. c \in Queued /\ Queued' = Queued \ {c} /\ NoDuplicates'
    BY <1>3, TakeCommandQueue DEF StopIdle, OwnInv
  <2>3. QueueInv'
    BY <1>3, <2>1, OwnTypes, ManagerAssumption DEF StopIdle, Answer, OwnInv, QueueInv,
       SlotDistinct, SlotOps, SlotOpen, Queries, PendingIds, InNoSlot, NoStop, Open,
       PendingCalls, StreamCalls, Slot
  <2>4. SlotOps'
    BY <1>3, <2>1, OwnTypes, ManagerAssumption DEF StopIdle, TakeCommand, OwnInv,
       SlotOpen, SlotOps, Open, PendingIds, InNoSlot, NoStop
  <2>5. SlotDistinct'
    BY <1>3, <2>1, OwnTypes, ManagerAssumption DEF StopIdle, OwnInv, SlotDistinct,
       QueueInv, PendingIds, InNoSlot, NoStop
  <2>6. SlotOpen'
    BY <1>3, <2>1, OwnTypes, ManagerAssumption DEF StopIdle, Answer, TakeCommand,
       OwnInv, SlotOpen, SlotOps, SlotDistinct, QueueInv, Queries, PendingIds,
       InNoSlot, NoStop, Open, PendingCalls, StreamCalls, Slot
  <2> QED
    BY <2>1, <2>3, <2>4, <2>5, <2>6 DEF OwnInv
<1>4. ASSUME NEW c \in Calls, StopStarting(c) PROVE OwnInv'
  <2>1. c \in Queued /\ Queued' = Queued \ {c} /\ NoDuplicates'
    BY <1>4, TakeCommandQueue DEF StopStarting, OwnInv
  <2>3. QueueInv'
    BY <1>4, <2>1, OwnTypes, ManagerAssumption DEF StopStarting, Bind, OwnInv,
       QueueInv, SlotDistinct, SlotOps, SlotOpen, Queries, PendingIds, InNoSlot,
       NoStop, Open
  <2>4. SlotOps'
    BY <1>4, <2>1, OwnTypes, ManagerAssumption DEF StopStarting, Bind, TakeCommand,
       OwnInv, SlotOpen, SlotOps, Open, PendingIds, InNoSlot, NoStop
  <2>5. SlotDistinct'
    BY <1>4, <2>1, OwnTypes, ManagerAssumption DEF StopStarting, Bind, OwnInv,
       SlotDistinct, QueueInv, PendingIds, InNoSlot, NoStop
  <2>6. SlotOpen'
    BY <1>4, <2>1, OwnTypes, ManagerAssumption DEF StopStarting, Bind, TakeCommand,
       OwnInv, SlotOpen, SlotOps, SlotDistinct, QueueInv, Queries, PendingIds,
       InNoSlot, NoStop, Open
  <2> QED
    BY <2>1, <2>3, <2>4, <2>5, <2>6 DEF OwnInv
<1>5. ASSUME NEW c \in Calls, StopJoin(c) PROVE OwnInv'
  <2>1. c \in Queued /\ Queued' = Queued \ {c} /\ NoDuplicates'
    BY <1>5, TakeCommandQueue DEF StopJoin, OwnInv
  <2>7. stop \in StopContexts
    BY DEF TypeOK
  <2>8. \/ UNCHANGED stop
        \/ stop' = [stop EXCEPT !.waiters = @ \cup {c}] /\ UNCHANGED reply
    BY <1>5 DEF StopJoin
  <2>2. \/ stop'.waiters = stop.waiters
        \/ stop'.waiters = stop.waiters \cup {c} /\ UNCHANGED reply
    BY <2>7, <2>8 DEF StopContexts
  <2>3. QueueInv'
    BY <1>5, <2>1, OwnTypes, ManagerAssumption, <2>2 DEF StopJoin, Bind, Answer,
       OwnInv, QueueInv, SlotDistinct, SlotOps, SlotOpen, Queries, PendingIds,
       InNoSlot, NoStop, Open, PendingCalls, StreamCalls, Slot
  <2>4. SlotOps'
    BY <1>5, <2>1, OwnTypes, ManagerAssumption, <2>2 DEF StopJoin, Bind, TakeCommand,
       OwnInv, SlotOpen, SlotOps, Open, PendingIds, InNoSlot, NoStop
  <2>5. SlotDistinct'
    BY <1>5, <2>1, OwnTypes, ManagerAssumption, <2>2 DEF StopJoin, Bind, OwnInv,
       SlotDistinct, QueueInv, PendingIds, InNoSlot, NoStop
  <2>6. SlotOpen'
    BY <1>5, <2>1, OwnTypes, ManagerAssumption, <2>2 DEF StopJoin, Bind, Answer,
       TakeCommand, OwnInv, SlotOpen, SlotOps, SlotDistinct, QueueInv, Queries,
       PendingIds, InNoSlot, NoStop, Open, PendingCalls, StreamCalls, Slot
  <2> QED
    BY <2>1, <2>2, <2>3, <2>4, <2>5, <2>6 DEF OwnInv
<1>6. ASSUME NEW c \in Calls, StopConnected(c) PROVE OwnInv'
  <2>1. c \in Queued /\ Queued' = Queued \ {c} /\ NoDuplicates'
    BY <1>6, TakeCommandQueue DEF StopConnected, OwnInv
  <2>3. QueueInv'
    BY <1>6, <2>1, OwnTypes, ManagerAssumption DEF StopConnected, Bind, NewStop,
       OwnInv, QueueInv, SlotDistinct, SlotOps, SlotOpen, Queries, PendingIds,
       InNoSlot, NoStop, Open
  <2>4. SlotOps'
    BY <1>6, <2>1, OwnTypes, ManagerAssumption DEF StopConnected, Bind, NewStop,
       TakeCommand, OwnInv, SlotOpen, SlotOps, Open, PendingIds, InNoSlot, NoStop
  <2>5. SlotDistinct'
    BY <1>6, <2>1, OwnTypes, ManagerAssumption DEF StopConnected, Bind, NewStop,
       OwnInv, SlotDistinct, QueueInv, PendingIds, InNoSlot, NoStop
  <2>6. SlotOpen'
    BY <1>6, <2>1, OwnTypes, ManagerAssumption DEF StopConnected, Bind, NewStop,
       TakeCommand, OwnInv, SlotOpen, SlotOps, SlotDistinct, QueueInv, Queries,
       PendingIds, InNoSlot, NoStop, Open
  <2> QED
    BY <2>1, <2>3, <2>4, <2>5, <2>6 DEF OwnInv
<1>7. ASSUME NEW c \in Calls, SendRequest(c) PROVE OwnInv'
  <2>1. c \in Queued /\ Queued' = Queued \ {c} /\ NoDuplicates'
    BY <1>7, TakeCommandQueue DEF SendRequest, OwnInv
  <2>2. /\ \/ UNCHANGED <<pending, primary>>
           \/ /\ pending' = [pending EXCEPT ![nextId] = c]
              /\ UNCHANGED <<primary, reply>>
           \/ primary' = c /\ UNCHANGED <<pending, reply>>
        /\ \A d \in Calls : d # c => reply'[d] = reply[d]
        /\ UNCHANGED <<op, start, stop, activeStatus, deferredStop>>
    BY <1>7, OwnTypes DEF SendRequest, Answer
  <2>7. op[c] \in Queries
    BY <1>7 DEF SendRequest, TakeCommand
  <2>3. QueueInv'
    BY <2>1, <2>2, OwnTypes, ManagerAssumption, <2>7 DEF TakeCommand, OwnInv,
       QueueInv, SlotDistinct, SlotOps, SlotOpen, Queries, PendingIds, InNoSlot,
       NoStop, Open
  <2>4. SlotOps'
    BY <2>1, <2>2, OwnTypes, ManagerAssumption, <2>7 DEF TakeCommand, OwnInv,
       SlotOpen, SlotOps, Open, PendingIds, InNoSlot, NoStop
  <2>5. SlotDistinct'
    BY <2>1, <2>2, OwnTypes, ManagerAssumption, <2>7 DEF OwnInv, SlotDistinct,
       QueueInv, PendingIds, InNoSlot, NoStop
  <2>6. SlotOpen'
    BY <2>1, <2>2, OwnTypes, ManagerAssumption, <2>7 DEF TakeCommand, OwnInv,
       SlotOpen, SlotOps, SlotDistinct, QueueInv, Queries, PendingIds, InNoSlot,
       NoStop, Open
  <2> QED
    BY <2>1, <2>2, <2>3, <2>4, <2>5, <2>6 DEF OwnInv
<1>8. ASSUME NEW c \in Calls, ReadStatus(c) PROVE OwnInv'
  <2>1. c \in Queued /\ Queued' = Queued \ {c} /\ NoDuplicates'
    BY <1>8, TakeCommandQueue DEF ReadStatus, OwnInv
  <2>3. QueueInv'
    BY <1>8, <2>1, OwnTypes, ManagerAssumption DEF ReadStatus, Answer, TakeCommand,
       OwnInv, QueueInv, SlotDistinct, SlotOps, SlotOpen, Queries, PendingIds,
       InNoSlot, NoStop, Open, PendingCalls, StreamCalls, Slot
  <2>4. SlotOps'
    BY <1>8, <2>1, OwnTypes, ManagerAssumption DEF ReadStatus, TakeCommand, OwnInv,
       SlotOpen, SlotOps, Open, PendingIds, InNoSlot, NoStop
  <2>5. SlotDistinct'
    BY <1>8, <2>1, OwnTypes, ManagerAssumption DEF ReadStatus, OwnInv, SlotDistinct,
       QueueInv, PendingIds, InNoSlot, NoStop
  <2>6. SlotOpen'
    BY <1>8, <2>1, OwnTypes, ManagerAssumption DEF ReadStatus, Answer, TakeCommand,
       OwnInv, SlotOpen, SlotOps, SlotDistinct, QueueInv, Queries, PendingIds,
       InNoSlot, NoStop, Open, PendingCalls, StreamCalls, Slot
  <2> QED
    BY <2>1, <2>3, <2>4, <2>5, <2>6 DEF OwnInv
<1>9. ASSUME SnapshotDone PROVE OwnInv'
  <2>1. Queued' = Queued /\ NoDuplicates'
    BY <1>9, QueueSame DEF SnapshotDone, OwnInv
  <2>3. QueueInv'
    BY <1>9, <2>1, OwnTypes, ManagerAssumption DEF SnapshotDone, Answer, OwnInv,
       QueueInv, SlotDistinct, SlotOps, SlotOpen, Queries, PendingIds, InNoSlot,
       NoStop, Open, PendingCalls, StreamCalls, Slot
  <2>4. SlotOps'
    BY <1>9, <2>1, OwnTypes, ManagerAssumption DEF SnapshotDone, OwnInv, SlotOpen,
       SlotOps, Open, PendingIds, InNoSlot, NoStop
  <2>5. SlotDistinct'
    BY <1>9, <2>1, OwnTypes, ManagerAssumption DEF SnapshotDone, OwnInv, SlotDistinct,
       QueueInv, PendingIds, InNoSlot, NoStop
  <2>6. SlotOpen'
    BY <1>9, <2>1, OwnTypes, ManagerAssumption DEF SnapshotDone, Answer, OwnInv,
       SlotOpen, SlotOps, SlotDistinct, QueueInv, Queries, PendingIds, InNoSlot,
       NoStop, Open, PendingCalls, StreamCalls, Slot
  <2> QED
    BY <2>1, <2>3, <2>4, <2>5, <2>6 DEF OwnInv
<1>10. ASSUME DropStaleEvent PROVE OwnInv'
  BY <1>10, OwnershipFrame DEF DropStaleEvent
<1>11. ASSUME HandleHello PROVE OwnInv'
  BY <1>11, OwnershipFrame DEF HandleHello
<1>12. ASSUME HandleResponse PROVE OwnInv'
  <2>1. Queued' = Queued /\ NoDuplicates'
    BY <1>12, QueueSame DEF HandleResponse, OwnInv
  <2>2. /\ PendingIds' \subseteq PendingIds
        /\ \A i \in PendingIds' : pending'[i] = pending[i]
        /\ stop'.waiters = stop.waiters
    BY <1>12, OwnTypes, ManagerAssumption DEF HandleResponse, PendingIds
  <2>3. QueueInv'
    BY <1>12, <2>1, OwnTypes, ManagerAssumption, <2>2 DEF HandleResponse, TakeEvent,
       Answer, OwnInv, QueueInv, SlotDistinct, SlotOps, SlotOpen, Queries, PendingIds,
       InNoSlot, NoStop, Open, PendingCalls, StreamCalls, Slot
  <2>4. SlotOps'
    BY <1>12, <2>1, OwnTypes, ManagerAssumption, <2>2 DEF HandleResponse, TakeEvent,
       OwnInv, SlotOpen, SlotOps, Open, PendingIds, InNoSlot, NoStop
  <2>5. SlotDistinct'
    BY <1>12, <2>1, OwnTypes, ManagerAssumption, <2>2 DEF HandleResponse, TakeEvent,
       OwnInv, SlotDistinct, QueueInv, PendingIds, InNoSlot, NoStop
  <2>6. SlotOpen'
    BY <1>12, <2>1, OwnTypes, ManagerAssumption, <2>2 DEF HandleResponse, TakeEvent,
       Answer, OwnInv, SlotOpen, SlotOps, SlotDistinct, QueueInv, Queries, PendingIds,
       InNoSlot, NoStop, Open, PendingCalls, StreamCalls, Slot
  <2> QED
    BY <2>1, <2>2, <2>3, <2>4, <2>5, <2>6 DEF OwnInv
<1>13. ASSUME HandleShutdownResponse PROVE OwnInv'
  <2>1. stop'.waiters = stop.waiters
    BY <1>13 DEF HandleShutdownResponse, TypeOK, StopContexts
  <2> QED
    BY <1>13, <2>1, OwnershipFrame DEF HandleShutdownResponse
<1>14. ASSUME HandleEof PROVE OwnInv'
  <2>1. stop'.waiters = stop.waiters
    BY <1>14 DEF HandleEof, TypeOK, StopContexts
  <2> QED
    BY <1>14, <2>1, OwnershipFrame DEF HandleEof
<1>15. ASSUME EofWaitDone PROVE OwnInv'
  BY <1>15, OwnershipFrame DEF EofWaitDone
<1>16. ASSUME HandleBroken PROVE OwnInv'
  BY <1>16, OwnershipFrame DEF HandleBroken
<1>17. ASSUME HandleWriteFailure PROVE OwnInv'
  <2>1. Queued' = Queued /\ NoDuplicates'
    BY <1>17, QueueSame DEF HandleWriteFailure, OwnInv
  <2>3. QueueInv'
    BY <1>17, <2>1, OwnTypes, ManagerAssumption DEF HandleWriteFailure, TakeEvent,
       Taken, OwnInv, QueueInv, SlotDistinct, SlotOps, SlotOpen, Queries, PendingIds,
       InNoSlot, NoStop, Open
  <2>4. SlotOps'
    BY <1>17, <2>1, OwnTypes, ManagerAssumption DEF HandleWriteFailure, TakeEvent,
       Taken, OwnInv, SlotOpen, SlotOps, Open, PendingIds, InNoSlot, NoStop
  <2>5. SlotDistinct'
    BY <1>17, <2>1, OwnTypes, ManagerAssumption DEF HandleWriteFailure, TakeEvent,
       Taken, OwnInv, SlotDistinct, QueueInv, PendingIds, InNoSlot, NoStop
  <2>6. SlotOpen'
    BY <1>17, <2>1, OwnTypes, ManagerAssumption DEF HandleWriteFailure, TakeEvent,
       Taken, OwnInv, SlotOpen, SlotOps, SlotDistinct, QueueInv, Queries, PendingIds,
       InNoSlot, NoStop, Open
  <2> QED
    BY <2>1, <2>3, <2>4, <2>5, <2>6 DEF OwnInv
<1>18. ASSUME StartTimeout PROVE OwnInv'
  BY <1>18, OwnershipFrame DEF StartTimeout
<1>19. ASSUME ShutdownTimeout PROVE OwnInv'
  BY <1>19, OwnershipFrame DEF ShutdownTimeout
<1>20. ASSUME RequestTimeout PROVE OwnInv'
  <2>1. Queued' = Queued /\ NoDuplicates'
    BY <1>20, QueueSame DEF RequestTimeout, OwnInv
  <2>3. QueueInv'
    BY <1>20, <2>1, OwnTypes, ManagerAssumption DEF RequestTimeout, Taken, OwnInv,
       QueueInv, SlotDistinct, SlotOps, SlotOpen, Queries, PendingIds, InNoSlot,
       NoStop, Open
  <2>4. SlotOps'
    BY <1>20, <2>1, OwnTypes, ManagerAssumption DEF RequestTimeout, Taken, OwnInv,
       SlotOpen, SlotOps, Open, PendingIds, InNoSlot, NoStop
  <2>5. SlotDistinct'
    BY <1>20, <2>1, OwnTypes, ManagerAssumption DEF RequestTimeout, Taken, OwnInv,
       SlotDistinct, QueueInv, PendingIds, InNoSlot, NoStop
  <2>6. SlotOpen'
    BY <1>20, <2>1, OwnTypes, ManagerAssumption DEF RequestTimeout, Taken, OwnInv,
       SlotOpen, SlotOps, SlotDistinct, QueueInv, Queries, PendingIds, InNoSlot,
       NoStop, Open
  <2> QED
    BY <2>1, <2>3, <2>4, <2>5, <2>6 DEF OwnInv
<1>21. ASSUME DrainTimeout PROVE OwnInv'
  BY <1>21, OwnershipFrame DEF DrainTimeout
<1>22. ASSUME PollProcessExit PROVE OwnInv'
  BY <1>22, OwnershipFrame DEF PollProcessExit
<1>23. ASSUME ReapWait PROVE OwnInv'
  BY <1>23, OwnershipFrame DEF ReapWait
<1>24. ASSUME ReapTimeout PROVE OwnInv'
  BY <1>24, OwnershipFrame DEF ReapTimeout
<1>25. ASSUME DetachedReap PROVE OwnInv'
  BY <1>25, OwnershipFrame DEF DetachedReap
<1>26. ASSUME BarrierWait PROVE OwnInv'
  BY <1>26, OwnershipFrame DEF BarrierWait
<1>27. ASSUME FinishFail PROVE OwnInv'
  <2>1. Queued' = Queued /\ NoDuplicates'
    BY <1>27, QueueSame DEF FinishFail, OwnInv
  <2>3. QueueInv'
    BY <1>27, <2>1, OwnTypes, ManagerAssumption DEF FinishFail, ClearStream, Answer,
       OwnInv, QueueInv, SlotDistinct, SlotOps, SlotOpen, Queries, PendingIds,
       InNoSlot, NoStop, Open, PendingCalls, StreamCalls, Slot
  <2>4. SlotOps'
    BY <1>27, <2>1, OwnTypes, ManagerAssumption DEF FinishFail, ClearStream, OwnInv,
       SlotOpen, SlotOps, Open, PendingIds, InNoSlot, NoStop
  <2>5. SlotDistinct'
    BY <1>27, <2>1, OwnTypes, ManagerAssumption DEF FinishFail, ClearStream, OwnInv,
       SlotDistinct, QueueInv, PendingIds, InNoSlot, NoStop
  <2>6. SlotOpen'
    BY <1>27, <2>1, OwnTypes, ManagerAssumption DEF FinishFail, ClearStream, Answer,
       OwnInv, SlotOpen, SlotOps, SlotDistinct, QueueInv, Queries, PendingIds,
       InNoSlot, NoStop, Open, PendingCalls, StreamCalls, Slot
  <2> QED
    BY <2>1, <2>3, <2>4, <2>5, <2>6 DEF OwnInv
<1>28. ASSUME FinishCrash PROVE OwnInv'
  <2>1. Queued' = Queued /\ NoDuplicates'
    BY <1>28, QueueSame DEF FinishCrash, OwnInv
  <2>3. QueueInv'
    BY <1>28, <2>1, OwnTypes, ManagerAssumption DEF FinishCrash, Answer, OwnInv,
       QueueInv, SlotDistinct, SlotOps, SlotOpen, Queries, PendingIds, InNoSlot,
       NoStop, Open, PendingCalls, StreamCalls, Slot
  <2>4. SlotOps'
    BY <1>28, <2>1, OwnTypes, ManagerAssumption DEF FinishCrash, OwnInv, SlotOpen,
       SlotOps, Open, PendingIds, InNoSlot, NoStop
  <2>5. SlotDistinct'
    BY <1>28, <2>1, OwnTypes, ManagerAssumption DEF FinishCrash, OwnInv, SlotDistinct,
       QueueInv, PendingIds, InNoSlot, NoStop
  <2>6. SlotOpen'
    BY <1>28, <2>1, OwnTypes, ManagerAssumption DEF FinishCrash, Answer, OwnInv,
       SlotOpen, SlotOps, SlotDistinct, QueueInv, Queries, PendingIds, InNoSlot,
       NoStop, Open, PendingCalls, StreamCalls, Slot
  <2> QED
    BY <2>1, <2>3, <2>4, <2>5, <2>6 DEF OwnInv
<1>29. ASSUME FinishCancelStart PROVE OwnInv'
  <2>1. Queued' = Queued /\ NoDuplicates'
    BY <1>29, QueueSame DEF FinishCancelStart, OwnInv
  <2>3. QueueInv'
    BY <1>29, <2>1, OwnTypes, ManagerAssumption DEF FinishCancelStart, Answer2,
       OwnInv, QueueInv, SlotDistinct, SlotOps, SlotOpen, Queries, PendingIds,
       InNoSlot, NoStop, Open, PendingCalls, StreamCalls, Slot
  <2>4. SlotOps'
    BY <1>29, <2>1, OwnTypes, ManagerAssumption DEF FinishCancelStart, OwnInv,
       SlotOpen, SlotOps, Open, PendingIds, InNoSlot, NoStop
  <2>5. SlotDistinct'
    BY <1>29, <2>1, OwnTypes, ManagerAssumption DEF FinishCancelStart, OwnInv,
       SlotDistinct, QueueInv, PendingIds, InNoSlot, NoStop
  <2>6. SlotOpen'
    BY <1>29, <2>1, OwnTypes, ManagerAssumption DEF FinishCancelStart, Answer2,
       OwnInv, SlotOpen, SlotOps, SlotDistinct, QueueInv, Queries, PendingIds,
       InNoSlot, NoStop, Open, PendingCalls, StreamCalls, Slot
  <2> QED
    BY <2>1, <2>3, <2>4, <2>5, <2>6 DEF OwnInv
<1>30. ASSUME FinishGraceful PROVE OwnInv'
  <2>1. Queued' = Queued /\ NoDuplicates'
    BY <1>30, QueueSame DEF FinishGraceful, OwnInv
  <2>3. QueueInv'
    BY <1>30, <2>1, OwnTypes, ManagerAssumption DEF FinishGraceful, Answer2, OwnInv,
       QueueInv, SlotDistinct, SlotOps, SlotOpen, Queries, PendingIds, InNoSlot,
       NoStop, Open, PendingCalls, StreamCalls, Slot
  <2>4. SlotOps'
    BY <1>30, <2>1, OwnTypes, ManagerAssumption DEF FinishGraceful, OwnInv, SlotOpen,
       SlotOps, Open, PendingIds, InNoSlot, NoStop
  <2>5. SlotDistinct'
    BY <1>30, <2>1, OwnTypes, ManagerAssumption DEF FinishGraceful, OwnInv,
       SlotDistinct, QueueInv, PendingIds, InNoSlot, NoStop
  <2>6. SlotOpen'
    BY <1>30, <2>1, OwnTypes, ManagerAssumption DEF FinishGraceful, Answer2, OwnInv,
       SlotOpen, SlotOps, SlotDistinct, QueueInv, Queries, PendingIds, InNoSlot,
       NoStop, Open, PendingCalls, StreamCalls, Slot
  <2> QED
    BY <2>1, <2>3, <2>4, <2>5, <2>6 DEF OwnInv
<1>31. ASSUME FinishDropped PROVE OwnInv'
  <2>1. Queued' = Queued /\ NoDuplicates'
    BY <1>31, QueueSame DEF FinishDropped, OwnInv
  <2>3. QueueInv'
    BY <1>31, <2>1, OwnTypes, ManagerAssumption DEF FinishDropped, Answer, OwnInv,
       QueueInv, SlotDistinct, SlotOps, SlotOpen, Queries, PendingIds, InNoSlot,
       NoStop, Open, PendingCalls, StreamCalls, Slot
  <2>4. SlotOps'
    BY <1>31, <2>1, OwnTypes, ManagerAssumption DEF FinishDropped, OwnInv, SlotOpen,
       SlotOps, Open, PendingIds, InNoSlot, NoStop
  <2>5. SlotDistinct'
    BY <1>31, <2>1, OwnTypes, ManagerAssumption DEF FinishDropped, OwnInv,
       SlotDistinct, QueueInv, PendingIds, InNoSlot, NoStop
  <2>6. SlotOpen'
    BY <1>31, <2>1, OwnTypes, ManagerAssumption DEF FinishDropped, Answer, OwnInv,
       SlotOpen, SlotOps, SlotDistinct, QueueInv, Queries, PendingIds, InNoSlot,
       NoStop, Open, PendingCalls, StreamCalls, Slot
  <2> QED
    BY <2>1, <2>3, <2>4, <2>5, <2>6 DEF OwnInv
<1>32. ASSUME ManagerDropped PROVE OwnInv'
  BY <1>32, OwnershipFrame DEF ManagerDropped
<1>33. ASSUME Abort PROVE OwnInv'
  <2>1. ((Queued' = Queued /\ reply' = reply) \/ Queued' = {}) /\ NoDuplicates'
    BY <1>33, QueueSame DEF Abort, OwnInv, Queued, NoDuplicates
  <2>3. QueueInv'
    BY <1>33, <2>1, OwnTypes, ManagerAssumption DEF Abort, Answer, OwnInv, QueueInv,
       SlotDistinct, SlotOps, SlotOpen, Queries, PendingIds, InNoSlot, NoStop, Open,
       PendingCalls, StreamCalls, Slot
  <2>4. SlotOps'
    BY <1>33, <2>1, OwnTypes, ManagerAssumption DEF Abort, OwnInv, SlotOpen, SlotOps,
       Open, PendingIds, InNoSlot, NoStop
  <2>5. SlotDistinct'
    BY <1>33, <2>1, OwnTypes, ManagerAssumption DEF Abort, OwnInv, SlotDistinct,
       QueueInv, PendingIds, InNoSlot, NoStop
  <2>6. SlotOpen'
    BY <1>33, <2>1, OwnTypes, ManagerAssumption DEF Abort, Answer, OwnInv, SlotOpen,
       SlotOps, SlotDistinct, QueueInv, Queries, PendingIds, InNoSlot, NoStop, Open,
       PendingCalls, StreamCalls, Slot
  <2> QED
    BY <2>1, <2>3, <2>4, <2>5, <2>6 DEF OwnInv
<1>34. ASSUME AbortReap PROVE OwnInv'
  BY <1>34, OwnershipFrame DEF AbortReap
<1>35. ASSUME AbortFinish PROVE OwnInv'
  <2>1. Queued' = {} /\ NoDuplicates'
    BY <1>35 DEF AbortFinish, OwnerReaped, Queued, NoDuplicates
  <2>3. QueueInv'
    BY <1>35, <2>1, OwnTypes, ManagerAssumption DEF AbortFinish, OwnerReaped, ClearStream, Answer2,
       OwnInv, QueueInv, SlotDistinct, SlotOps, SlotOpen, Queries, PendingIds,
       InNoSlot, NoStop, Open, PendingCalls, StreamCalls, Slot
  <2>4. SlotOps'
    BY <1>35, <2>1, OwnTypes, ManagerAssumption DEF AbortFinish, OwnerReaped, ClearStream, OwnInv,
       SlotOpen, SlotOps, Open, PendingIds, InNoSlot, NoStop
  <2>5. SlotDistinct'
    BY <1>35, <2>1, OwnTypes, ManagerAssumption DEF AbortFinish, OwnerReaped, ClearStream, OwnInv,
       SlotDistinct, QueueInv, PendingIds, InNoSlot, NoStop
  <2>6. SlotOpen'
    BY <1>35, <2>1, OwnTypes, ManagerAssumption DEF AbortFinish, OwnerReaped, ClearStream, Answer2,
       OwnInv, SlotOpen, SlotOps, SlotDistinct, QueueInv, Queries, PendingIds,
       InNoSlot, NoStop, Open, PendingCalls, StreamCalls, Slot
  <2> QED
    BY <2>1, <2>3, <2>4, <2>5, <2>6 DEF OwnInv
<1>36. ASSUME ChildWrites PROVE OwnInv'
  BY <1>36, OwnershipFrame DEF ChildWrites
<1>37. ASSUME StdoutEnds PROVE OwnInv'
  BY <1>37, OwnershipFrame DEF StdoutEnds
<1>38. ASSUME StdinWrite PROVE OwnInv'
  BY <1>38, OwnershipFrame DEF StdinWrite
<1>39. ASSUME ChildExits PROVE OwnInv'
  BY <1>39, OwnershipFrame DEF ChildExits
<1>40. ASSUME DropManager PROVE OwnInv'
  <2>1. Queued' = Queued /\ NoDuplicates'
    BY <1>40, QueueSame DEF DropManager, OwnInv
  <2>3. QueueInv'
    BY <1>40, <2>1, OwnTypes, ManagerAssumption DEF DropManager, OwnInv, QueueInv,
       SlotDistinct, SlotOps, SlotOpen, Queries, PendingIds, InNoSlot, NoStop, Open,
       PendingCalls, StreamCalls, Slot
  <2>4. SlotOps'
    BY <1>40, <2>1, OwnTypes, ManagerAssumption DEF DropManager, OwnInv, SlotOpen,
       SlotOps, Open, PendingIds, InNoSlot, NoStop
  <2>5. SlotDistinct'
    BY <1>40, <2>1, OwnTypes, ManagerAssumption DEF DropManager, OwnInv, SlotDistinct,
       QueueInv, PendingIds, InNoSlot, NoStop
  <2>6. SlotOpen'
    BY <1>40, <2>1, OwnTypes, ManagerAssumption DEF DropManager, OwnInv, SlotOpen,
       SlotOps, SlotDistinct, QueueInv, Queries, PendingIds, InNoSlot, NoStop, Open,
       PendingCalls, StreamCalls, Slot
  <2> QED
    BY <2>1, <2>3, <2>4, <2>5, <2>6 DEF OwnInv
<1>41. CASE UNCHANGED vars
  BY <1>41, OwnershipFrame DEF vars
<1> QED
  BY <1>1, <1>2, <1>3, <1>4, <1>5, <1>6, <1>7, <1>8, <1>9, <1>10, <1>11, <1>12, <1>13,
     <1>14, <1>15, <1>16, <1>17, <1>18, <1>19, <1>20, <1>21, <1>22, <1>23, <1>24,
     <1>25, <1>26, <1>27, <1>28, <1>29, <1>30, <1>31, <1>32, <1>33, <1>34, <1>35,
     <1>36, <1>37, <1>38, <1>39, <1>40, <1>41
     DEF Next, Command, HandleEvent, Deadlines, Reaping, Finish

-----------------------------------------------------------------------------
(* Answers: no caller is forgotten, and no answer comes before the reap *)

BoundInv == \A c \in Calls : bound[c] <= generation

ClosedAnswers == \A c \in Calls : reply[c] = "Closed" => phase = "closed"

\* A caller that waits is owned.
WaitersOwned == \A c \in Calls : reply[c] = "waiting" => c \in Queued \/ ~InNoSlot(c)

\* An allocated ID is below the counter, which only grows or runs out.
LEMMA FreshStep == TypeOK /\ ProcessInv /\ ContextInv /\ RequestIdsFresh /\ [Next]_vars => RequestIdsFresh'
<1> SUFFICES ASSUME TypeOK, ProcessInv, ContextInv, RequestIdsFresh, [Next]_vars PROVE RequestIdsFresh'
  OBVIOUS
<1> USE ManagerAssumption DEF clientVars, slotVars, RequestIdsFresh, PendingIds, NoStop,
          StopContexts, ProcessInv, ContextInv, Settled, Ids, AllocateId
<1>0. /\ stop \in StopContexts /\ nextId \in 0 .. MaxRequestId
      /\ pending \in [Ids -> Calls \cup {None}]
  BY DEF TypeOK
<1>1. ASSUME NEW c \in Calls, NEW o \in Operations, Submit(c, o) PROVE RequestIdsFresh'
  BY <1>0, <1>1 DEF Submit
<1>2. ASSUME NEW c \in Calls, StartRuntime(c) PROVE RequestIdsFresh'
  BY <1>0, <1>2 DEF StartRuntime, TakeCommand
<1>3. ASSUME NEW c \in Calls, StopIdle(c) PROVE RequestIdsFresh'
  BY <1>0, <1>3 DEF StopIdle, TakeCommand
<1>4. ASSUME NEW c \in Calls, StopStarting(c) PROVE RequestIdsFresh'
  BY <1>0, <1>4 DEF StopStarting, TakeCommand
<1>5. ASSUME NEW c \in Calls, StopJoin(c) PROVE RequestIdsFresh'
  BY <1>0, <1>5 DEF StopJoin, TakeCommand
<1>6. ASSUME NEW c \in Calls, StopConnected(c) PROVE RequestIdsFresh'
  BY <1>0, <1>6 DEF StopConnected, TakeCommand, NewStop
<1>7. ASSUME NEW c \in Calls, SendRequest(c) PROVE RequestIdsFresh'
  <2>1. CASE UNCHANGED <<pending, nextId>>
    BY <1>7, <2>1 DEF SendRequest, RequestIdsFresh, PendingIds
  <2>2. CASE nextId # 0 /\ AllocateId /\ UNCHANGED pending
    <3>1. stop.id \in 0 .. MaxRequestId /\ nextId \in 0 .. MaxRequestId
      BY DEF TypeOK, StopContexts
    <3> QED
      BY <1>7, <2>2, <3>1, ManagerAssumption
         DEF SendRequest, RequestIdsFresh, PendingIds, AllocateId, Ids
  <2>3. CASE nextId # 0 /\ AllocateId /\ pending' = [pending EXCEPT ![nextId] = c]
    <3>1. stop.id \in 0 .. MaxRequestId /\ nextId \in Ids
      BY <2>3, ManagerAssumption DEF TypeOK, StopContexts, Ids
    <3>2. stop'.id = stop.id /\ stop.id # nextId
      BY <1>7, <2>3, <3>1 DEF SendRequest, RequestIdsFresh, Ids
    <3>3. PendingIds' \subseteq PendingIds \cup {nextId}
      BY <2>3, <3>1 DEF PendingIds, TypeOK
    <3> QED
      BY <1>7, <2>3, <3>1, <3>2, <3>3, ManagerAssumption
         DEF RequestIdsFresh, AllocateId, Ids, PendingIds
  <2> QED
    BY <1>7, <2>1, <2>2, <2>3 DEF SendRequest
<1>8. ASSUME NEW c \in Calls, ReadStatus(c) PROVE RequestIdsFresh'
  BY <1>0, <1>8 DEF ReadStatus, TakeCommand
<1>9. ASSUME SnapshotDone PROVE RequestIdsFresh'
  BY <1>0, <1>9 DEF SnapshotDone
<1>10. ASSUME DropStaleEvent PROVE RequestIdsFresh'
  BY <1>0, <1>10 DEF DropStaleEvent
<1>11. ASSUME HandleHello PROVE RequestIdsFresh'
  BY <1>0, <1>11 DEF HandleHello
<1>12. ASSUME HandleResponse PROVE RequestIdsFresh'
  BY <1>0, <1>12 DEF HandleResponse
<1>13. ASSUME HandleShutdownResponse PROVE RequestIdsFresh'
  BY <1>0, <1>13 DEF HandleShutdownResponse
<1>14. ASSUME HandleEof PROVE RequestIdsFresh'
  BY <1>0, <1>14 DEF HandleEof
<1>15. ASSUME EofWaitDone PROVE RequestIdsFresh'
  BY <1>0, <1>15 DEF EofWaitDone
<1>16. ASSUME HandleBroken PROVE RequestIdsFresh'
  BY <1>0, <1>16 DEF HandleBroken
<1>17. ASSUME HandleWriteFailure PROVE RequestIdsFresh'
  BY <1>0, <1>17 DEF HandleWriteFailure, Taken
<1>18. ASSUME StartTimeout PROVE RequestIdsFresh'
  BY <1>0, <1>18 DEF StartTimeout
<1>19. ASSUME ShutdownTimeout PROVE RequestIdsFresh'
  BY <1>0, <1>19 DEF ShutdownTimeout
<1>20. ASSUME RequestTimeout PROVE RequestIdsFresh'
  BY <1>0, <1>20 DEF RequestTimeout, Taken
<1>21. ASSUME DrainTimeout PROVE RequestIdsFresh'
  BY <1>0, <1>21 DEF DrainTimeout
<1>22. ASSUME PollProcessExit PROVE RequestIdsFresh'
  BY <1>0, <1>22 DEF PollProcessExit
<1>23. ASSUME ReapWait PROVE RequestIdsFresh'
  BY <1>0, <1>23 DEF ReapWait
<1>24. ASSUME ReapTimeout PROVE RequestIdsFresh'
  BY <1>0, <1>24 DEF ReapTimeout
<1>25. ASSUME DetachedReap PROVE RequestIdsFresh'
  BY <1>0, <1>25 DEF DetachedReap
<1>26. ASSUME BarrierWait PROVE RequestIdsFresh'
  BY <1>0, <1>26 DEF BarrierWait
<1>27. ASSUME FinishFail PROVE RequestIdsFresh'
  BY <1>0, <1>27 DEF FinishFail, ClearStream
<1>28. ASSUME FinishCrash PROVE RequestIdsFresh'
  BY <1>0, <1>28 DEF FinishCrash
<1>29. ASSUME FinishCancelStart PROVE RequestIdsFresh'
  BY <1>0, <1>29 DEF FinishCancelStart
<1>30. ASSUME FinishGraceful PROVE RequestIdsFresh'
  BY <1>0, <1>30 DEF FinishGraceful
<1>31. ASSUME FinishDropped PROVE RequestIdsFresh'
  BY <1>0, <1>31 DEF FinishDropped
<1>32. ASSUME ManagerDropped PROVE RequestIdsFresh'
  BY <1>0, <1>32 DEF ManagerDropped
<1>33. ASSUME Abort PROVE RequestIdsFresh'
  BY <1>0, <1>33 DEF Abort
<1>34. ASSUME AbortReap PROVE RequestIdsFresh'
  BY <1>0, <1>34 DEF AbortReap
<1>35. ASSUME AbortFinish PROVE RequestIdsFresh'
  BY <1>0, <1>35 DEF AbortFinish, OwnerReaped, ClearStream
<1>36. ASSUME ChildWrites PROVE RequestIdsFresh'
  BY <1>0, <1>36 DEF ChildWrites
<1>37. ASSUME StdoutEnds PROVE RequestIdsFresh'
  BY <1>0, <1>37 DEF StdoutEnds
<1>38. ASSUME StdinWrite PROVE RequestIdsFresh'
  BY <1>0, <1>38 DEF StdinWrite
<1>39. ASSUME ChildExits PROVE RequestIdsFresh'
  BY <1>0, <1>39 DEF ChildExits
<1>40. ASSUME DropManager PROVE RequestIdsFresh'
  BY <1>0, <1>40 DEF DropManager
<1>41. CASE UNCHANGED vars
  BY <1>0, <1>41 DEF vars, RequestIdsFresh, PendingIds
<1> QED
  BY <1>1, <1>2, <1>3, <1>4, <1>5, <1>6, <1>7, <1>8, <1>9, <1>10, <1>11, <1>12, <1>13,
     <1>14, <1>15, <1>16, <1>17, <1>18, <1>19, <1>20, <1>21, <1>22, <1>23, <1>24,
     <1>25, <1>26, <1>27, <1>28, <1>29, <1>30, <1>31, <1>32, <1>33, <1>34, <1>35,
     <1>36, <1>37, <1>38, <1>39, <1>40, <1>41
     DEF Next, Command, HandleEvent, Deadlines, Reaping, Finish

\* A sender leaves the actor only with its answer.
LEMMA WaitersStep == TypeOK /\ ContextInv /\ RequestIdsFresh /\ OwnInv /\ WaitersOwned /\ [Next]_vars => WaitersOwned'
<1> SUFFICES ASSUME TypeOK, ContextInv, RequestIdsFresh, OwnInv, WaitersOwned, [Next]_vars PROVE WaitersOwned'
  OBVIOUS
<1> USE DEF clientVars, slotVars
<1>0. /\ Queued \subseteq Calls /\ stop.waiters \subseteq Calls /\ stop \in StopContexts
      /\ reply \in [Calls -> Replies] /\ nextId \in 0 .. MaxRequestId
      /\ pending \in [Ids -> Calls \cup {None}]
  BY OwnTypes DEF TypeOK
<1>1. ASSUME NEW c \in Calls, NEW o \in Operations, Submit(c, o) PROVE WaitersOwned'
  <2>1. phase # "closed" => c \notin Queued /\ Queued' = Queued \cup {c}
    BY <1>1, SubmitQueue DEF Submit, WaitersOwned, OwnInv, QueueInv, Open
  <2>2. phase = "closed" => Queued' = Queued
    BY <1>1 DEF Submit, Queued
  <2> QED
    BY <1>1, <1>0, <2>1, <2>2 DEF Submit, WaitersOwned, InNoSlot, PendingIds
<1>2. ASSUME NEW c \in Calls, StartRuntime(c) PROVE WaitersOwned'
  <2>1. Queued' = Queued \ {c}
    BY <1>2, TakeCommandQueue DEF OwnInv, StartRuntime
  <2> QED
    BY <2>1, <1>2, <1>0, ManagerAssumption DEF StartRuntime, Answer, TakeCommand,
       ContextInv, Settled, NoStop, Slot, WaitersOwned, InNoSlot, PendingIds
<1>3. ASSUME NEW c \in Calls, StopIdle(c) PROVE WaitersOwned'
  <2>1. Queued' = Queued \ {c}
    BY <1>3, TakeCommandQueue DEF OwnInv, StopIdle
  <2> QED
    BY <2>1, <1>3, <1>0, ManagerAssumption DEF StopIdle, Answer, TakeCommand,
       ContextInv, Settled, NoStop, Slot, WaitersOwned, InNoSlot, PendingIds
<1>4. ASSUME NEW c \in Calls, StopStarting(c) PROVE WaitersOwned'
  <2>1. Queued' = Queued \ {c}
    BY <1>4, TakeCommandQueue DEF OwnInv, StopStarting
  <2> QED
    BY <2>1, <1>4, <1>0, ManagerAssumption DEF StopStarting, TakeCommand, ContextInv,
       Settled, NoStop, Slot, WaitersOwned, InNoSlot, PendingIds
<1>5. ASSUME NEW c \in Calls, StopJoin(c) PROVE WaitersOwned'
  <2>1. c \in Queued /\ Queued' = Queued \ {c}
    BY <1>5, TakeCommandQueue DEF OwnInv, StopJoin
  <2>2. \/ stop' = [stop EXCEPT !.waiters = @ \cup {c}] /\ UNCHANGED reply
        \/ UNCHANGED stop /\ Answer({c}, "Rejected")
    BY <1>5 DEF StopJoin
  <2>3. \/ stop'.waiters = stop.waiters \cup {c} /\ UNCHANGED reply
        \/ UNCHANGED stop /\ Answer({c}, "Rejected")
    BY <2>2, <1>0 DEF StopContexts
  <2> QED
    BY <1>5, <1>0, <2>1, <2>3 DEF StopJoin, Answer, WaitersOwned, InNoSlot, PendingIds
<1>6. ASSUME NEW c \in Calls, StopConnected(c) PROVE WaitersOwned'
  <2>1. Queued' = Queued \ {c}
    BY <1>6, TakeCommandQueue DEF OwnInv, StopConnected
  <2> QED
    BY <2>1, <1>6, <1>0, ManagerAssumption DEF StopConnected, NewStop, TakeCommand,
       ContextInv, Settled, NoStop, Slot, WaitersOwned, InNoSlot, PendingIds
<1>7. ASSUME NEW c \in Calls, SendRequest(c) PROVE WaitersOwned'
  <2>1. phase = "select" /\ c \in Queued /\ Queued' = Queued \ {c}
    BY <1>7, TakeCommandQueue DEF OwnInv, SendRequest, TakeCommand
  <2>2. primary = None /\ (nextId # 0 => nextId \in Ids \ PendingIds)
    BY <1>0, <2>1, ManagerAssumption DEF ContextInv, Settled, RequestIdsFresh, Ids, PendingIds
  <2>3. UNCHANGED <<start, stop, activeStatus, deferredStop>>
    BY <1>7 DEF SendRequest
  <2>4. CASE Answer({c}, "Rejected") /\ UNCHANGED <<pending, primary>>
    BY <1>0, <2>1, <2>3, <2>4 DEF Answer, WaitersOwned, InNoSlot, PendingIds
  <2>5. CASE nextId # 0 /\ pending' = [pending EXCEPT ![nextId] = c] /\ UNCHANGED <<primary, reply>>
    BY <1>0, <2>1, <2>2, <2>3, <2>5, ManagerAssumption DEF WaitersOwned, InNoSlot, PendingIds
  <2>6. CASE primary' = c /\ UNCHANGED <<pending, reply>>
    BY <1>0, <2>1, <2>2, <2>3, <2>6, ManagerAssumption DEF WaitersOwned, InNoSlot, PendingIds
  <2> QED
    BY <1>7, <2>4, <2>5, <2>6 DEF SendRequest
<1>8. ASSUME NEW c \in Calls, ReadStatus(c) PROVE WaitersOwned'
  <2>1. Queued' = Queued \ {c}
    BY <1>8, TakeCommandQueue DEF OwnInv, ReadStatus
  <2> QED
    BY <2>1, <1>8, <1>0, ManagerAssumption DEF ReadStatus, Answer, TakeCommand,
       ContextInv, Settled, NoStop, Slot, WaitersOwned, InNoSlot, PendingIds
<1>9. ASSUME SnapshotDone PROVE WaitersOwned'
  BY <1>9, <1>0, ManagerAssumption DEF SnapshotDone, Answer, ContextInv, Settled,
     Queued, NoStop, PendingCalls, StreamCalls, Slot, WaitersOwned, InNoSlot,
     PendingIds
<1>10. ASSUME DropStaleEvent PROVE WaitersOwned'
  BY <1>10 DEF DropStaleEvent, Queued, WaitersOwned, InNoSlot, PendingIds
<1>11. ASSUME HandleHello PROVE WaitersOwned'
  BY <1>11 DEF HandleHello, TakeEvent, Queued, WaitersOwned, InNoSlot, PendingIds
<1>12. ASSUME HandleResponse PROVE WaitersOwned'
  BY <1>12, <1>0, ManagerAssumption DEF HandleResponse, TakeEvent, Answer, ContextInv,
     Settled, Queued, NoStop, PendingCalls, StreamCalls, Slot, WaitersOwned, InNoSlot,
     PendingIds
<1>13. ASSUME HandleShutdownResponse PROVE WaitersOwned'
  <2>1. stop'.waiters = stop.waiters
    BY <1>13 DEF HandleShutdownResponse, TypeOK, StopContexts
  <2>2. Queued' = Queued
    BY <1>13 DEF HandleShutdownResponse, TakeEvent, Queued
  <2> QED
    BY <1>13, <2>1, <2>2 DEF HandleShutdownResponse, WaitersOwned, InNoSlot, PendingIds
<1>14. ASSUME HandleEof PROVE WaitersOwned'
  <2>1. stop'.waiters = stop.waiters
    BY <1>14 DEF HandleEof, TypeOK, StopContexts
  <2>2. Queued' = Queued
    BY <1>14 DEF HandleEof, TakeEvent, Queued
  <2> QED
    BY <1>14, <2>1, <2>2 DEF HandleEof, WaitersOwned, InNoSlot, PendingIds
<1>15. ASSUME EofWaitDone PROVE WaitersOwned'
  BY <1>15 DEF EofWaitDone, Queued, WaitersOwned, InNoSlot, PendingIds
<1>16. ASSUME HandleBroken PROVE WaitersOwned'
  BY <1>16 DEF HandleBroken, TakeEvent, Queued, WaitersOwned, InNoSlot, PendingIds
<1>17. ASSUME HandleWriteFailure PROVE WaitersOwned'
  BY <1>17, <1>0, ManagerAssumption DEF HandleWriteFailure, TakeEvent, Taken, ContextInv,
     Settled, Queued, NoStop, PendingCalls, StreamCalls, Slot, WaitersOwned, InNoSlot,
     PendingIds
<1>18. ASSUME StartTimeout PROVE WaitersOwned'
  BY <1>18 DEF StartTimeout, Queued, WaitersOwned, InNoSlot, PendingIds
<1>19. ASSUME ShutdownTimeout PROVE WaitersOwned'
  BY <1>19 DEF ShutdownTimeout, Queued, WaitersOwned, InNoSlot, PendingIds
<1>20. ASSUME RequestTimeout PROVE WaitersOwned'
  BY <1>20, <1>0, ManagerAssumption DEF RequestTimeout, Taken, ContextInv, Settled,
     Queued, NoStop, PendingCalls, StreamCalls, Slot, WaitersOwned, InNoSlot,
     PendingIds
<1>21. ASSUME DrainTimeout PROVE WaitersOwned'
  BY <1>21 DEF DrainTimeout, Queued, WaitersOwned, InNoSlot, PendingIds
<1>22. ASSUME PollProcessExit PROVE WaitersOwned'
  BY <1>22 DEF PollProcessExit, Queued, WaitersOwned, InNoSlot, PendingIds
<1>23. ASSUME ReapWait PROVE WaitersOwned'
  BY <1>23 DEF ReapWait, Queued, WaitersOwned, InNoSlot, PendingIds
<1>24. ASSUME ReapTimeout PROVE WaitersOwned'
  BY <1>24 DEF ReapTimeout, Queued, WaitersOwned, InNoSlot, PendingIds
<1>25. ASSUME DetachedReap PROVE WaitersOwned'
  BY <1>25 DEF DetachedReap, Queued, WaitersOwned, InNoSlot, PendingIds
<1>26. ASSUME BarrierWait PROVE WaitersOwned'
  BY <1>26 DEF BarrierWait, Queued, WaitersOwned, InNoSlot, PendingIds
<1>27. ASSUME FinishFail PROVE WaitersOwned'
  BY <1>27, <1>0, ManagerAssumption DEF FinishFail, Answer, ClearStream, ContextInv,
     Settled, Queued, NoStop, PendingCalls, StreamCalls, Slot, WaitersOwned, InNoSlot,
     PendingIds
<1>28. ASSUME FinishCrash PROVE WaitersOwned'
  BY <1>28, <1>0, ManagerAssumption DEF FinishCrash, Answer, ContextInv, Settled, Queued,
     NoStop, PendingCalls, StreamCalls, Slot, WaitersOwned, InNoSlot, PendingIds
<1>29. ASSUME FinishCancelStart PROVE WaitersOwned'
  BY <1>29, <1>0, ManagerAssumption DEF FinishCancelStart, Answer2, ContextInv, Settled,
     Queued, NoStop, PendingCalls, StreamCalls, Slot, WaitersOwned, InNoSlot,
     PendingIds
<1>30. ASSUME FinishGraceful PROVE WaitersOwned'
  BY <1>30, <1>0, ManagerAssumption DEF FinishGraceful, Answer2, ContextInv, Settled,
     Queued, NoStop, PendingCalls, StreamCalls, Slot, WaitersOwned, InNoSlot,
     PendingIds
<1>31. ASSUME FinishDropped PROVE WaitersOwned'
  BY <1>31, <1>0, ManagerAssumption DEF FinishDropped, Answer, ContextInv, Settled,
     Queued, NoStop, PendingCalls, StreamCalls, Slot, WaitersOwned, InNoSlot,
     PendingIds
<1>32. ASSUME ManagerDropped PROVE WaitersOwned'
  BY <1>32 DEF ManagerDropped, Queued, WaitersOwned, InNoSlot, PendingIds
<1>33. ASSUME Abort PROVE WaitersOwned'
  BY <1>33, <1>0, ManagerAssumption DEF Abort, Answer, ContextInv, Settled, Queued,
     NoStop, PendingCalls, StreamCalls, Slot, WaitersOwned, InNoSlot, PendingIds
<1>34. ASSUME AbortReap PROVE WaitersOwned'
  BY <1>34 DEF AbortReap, Queued, WaitersOwned, InNoSlot, PendingIds
<1>35. ASSUME AbortFinish PROVE WaitersOwned'
  BY <1>35, <1>0, ManagerAssumption DEF AbortFinish, OwnerReaped, Answer2, ClearStream, ContextInv,
     Settled, Queued, NoStop, PendingCalls, StreamCalls, Slot, WaitersOwned, InNoSlot,
     PendingIds
<1>36. ASSUME ChildWrites PROVE WaitersOwned'
  BY <1>36 DEF ChildWrites, Queued, WaitersOwned, InNoSlot, PendingIds
<1>37. ASSUME StdoutEnds PROVE WaitersOwned'
  BY <1>37 DEF StdoutEnds, Queued, WaitersOwned, InNoSlot, PendingIds
<1>38. ASSUME StdinWrite PROVE WaitersOwned'
  BY <1>38 DEF StdinWrite, Queued, WaitersOwned, InNoSlot, PendingIds
<1>39. ASSUME ChildExits PROVE WaitersOwned'
  BY <1>39 DEF ChildExits, Queued, WaitersOwned, InNoSlot, PendingIds
<1>40. ASSUME DropManager PROVE WaitersOwned'
  BY <1>40, <1>0, ManagerAssumption DEF DropManager, ContextInv, Settled, Queued, NoStop,
     PendingCalls, StreamCalls, Slot, WaitersOwned, InNoSlot, PendingIds
<1>41. CASE UNCHANGED vars
  BY <1>41 DEF vars, Queued, WaitersOwned, InNoSlot, PendingIds
<1> QED
  BY <1>1, <1>2, <1>3, <1>4, <1>5, <1>6, <1>7, <1>8, <1>9, <1>10, <1>11, <1>12, <1>13,
     <1>14, <1>15, <1>16, <1>17, <1>18, <1>19, <1>20, <1>21, <1>22, <1>23, <1>24,
     <1>25, <1>26, <1>27, <1>28, <1>29, <1>30, <1>31, <1>32, <1>33, <1>34, <1>35,
     <1>36, <1>37, <1>38, <1>39, <1>40, <1>41
     DEF Next, Command, HandleEvent, Deadlines, Reaping, Finish

\* A call is accepted for the generation of its time.
LEMMA BoundStep == TypeOK /\ BoundInv /\ [Next]_vars => BoundInv'
<1> SUFFICES ASSUME TypeOK, BoundInv, [Next]_vars PROVE BoundInv'
  OBVIOUS
<1> USE DEF clientVars
<1>0. generation \in 0 .. MaxGeneration /\ bound \in [Calls -> 0 .. MaxGeneration]
  BY DEF TypeOK
<1>1. ASSUME NEW c \in Calls, NEW o \in Operations, Submit(c, o) PROVE BoundInv'
  BY <1>1 DEF Submit, BoundInv
<1>2. ASSUME NEW c \in Calls, StartRuntime(c) PROVE BoundInv'
  BY <1>2, <1>0 DEF StartRuntime, Bind, BoundInv
<1>3. ASSUME NEW c \in Calls, StopIdle(c) PROVE BoundInv'
  BY <1>3 DEF StopIdle, BoundInv
<1>4. ASSUME NEW c \in Calls, StopStarting(c) PROVE BoundInv'
  BY <1>4, <1>0 DEF StopStarting, Bind, BoundInv
<1>5. ASSUME NEW c \in Calls, StopJoin(c) PROVE BoundInv'
  BY <1>5, <1>0 DEF StopJoin, Bind, BoundInv
<1>6. ASSUME NEW c \in Calls, StopConnected(c) PROVE BoundInv'
  BY <1>6, <1>0 DEF StopConnected, Bind, BoundInv
<1>7. ASSUME NEW c \in Calls, SendRequest(c) PROVE BoundInv'
  BY <1>7, <1>0 DEF SendRequest, Bind, BoundInv
<1>8. ASSUME NEW c \in Calls, ReadStatus(c) PROVE BoundInv'
  BY <1>8 DEF ReadStatus, BoundInv
<1>9. ASSUME SnapshotDone PROVE BoundInv'
  BY <1>9 DEF SnapshotDone, BoundInv
<1>10. ASSUME DropStaleEvent PROVE BoundInv'
  BY <1>10 DEF DropStaleEvent, BoundInv
<1>11. ASSUME HandleHello PROVE BoundInv'
  BY <1>11 DEF HandleHello, BoundInv
<1>12. ASSUME HandleResponse PROVE BoundInv'
  BY <1>12 DEF HandleResponse, BoundInv
<1>13. ASSUME HandleShutdownResponse PROVE BoundInv'
  BY <1>13 DEF HandleShutdownResponse, BoundInv
<1>14. ASSUME HandleEof PROVE BoundInv'
  BY <1>14 DEF HandleEof, BoundInv
<1>15. ASSUME EofWaitDone PROVE BoundInv'
  BY <1>15 DEF EofWaitDone, BoundInv
<1>16. ASSUME HandleBroken PROVE BoundInv'
  BY <1>16 DEF HandleBroken, BoundInv
<1>17. ASSUME HandleWriteFailure PROVE BoundInv'
  BY <1>17 DEF HandleWriteFailure, BoundInv
<1>18. ASSUME StartTimeout PROVE BoundInv'
  BY <1>18 DEF StartTimeout, BoundInv
<1>19. ASSUME ShutdownTimeout PROVE BoundInv'
  BY <1>19 DEF ShutdownTimeout, BoundInv
<1>20. ASSUME RequestTimeout PROVE BoundInv'
  BY <1>20 DEF RequestTimeout, BoundInv
<1>21. ASSUME DrainTimeout PROVE BoundInv'
  BY <1>21 DEF DrainTimeout, BoundInv
<1>22. ASSUME PollProcessExit PROVE BoundInv'
  BY <1>22 DEF PollProcessExit, BoundInv
<1>23. ASSUME ReapWait PROVE BoundInv'
  BY <1>23 DEF ReapWait, BoundInv
<1>24. ASSUME ReapTimeout PROVE BoundInv'
  BY <1>24 DEF ReapTimeout, BoundInv
<1>25. ASSUME DetachedReap PROVE BoundInv'
  BY <1>25 DEF DetachedReap, BoundInv
<1>26. ASSUME BarrierWait PROVE BoundInv'
  BY <1>26 DEF BarrierWait, BoundInv
<1>27. ASSUME FinishFail PROVE BoundInv'
  BY <1>27 DEF FinishFail, BoundInv
<1>28. ASSUME FinishCrash PROVE BoundInv'
  BY <1>28 DEF FinishCrash, BoundInv
<1>29. ASSUME FinishCancelStart PROVE BoundInv'
  BY <1>29 DEF FinishCancelStart, BoundInv
<1>30. ASSUME FinishGraceful PROVE BoundInv'
  BY <1>30 DEF FinishGraceful, BoundInv
<1>31. ASSUME FinishDropped PROVE BoundInv'
  BY <1>31 DEF FinishDropped, BoundInv
<1>32. ASSUME ManagerDropped PROVE BoundInv'
  BY <1>32 DEF ManagerDropped, BoundInv
<1>33. ASSUME Abort PROVE BoundInv'
  BY <1>33 DEF Abort, BoundInv
<1>34. ASSUME AbortReap PROVE BoundInv'
  BY <1>34 DEF AbortReap, BoundInv
<1>35. ASSUME AbortFinish PROVE BoundInv'
  BY <1>35 DEF AbortFinish, OwnerReaped, BoundInv
<1>36. ASSUME ChildWrites PROVE BoundInv'
  BY <1>36 DEF ChildWrites, BoundInv
<1>37. ASSUME StdoutEnds PROVE BoundInv'
  BY <1>37 DEF StdoutEnds, BoundInv
<1>38. ASSUME StdinWrite PROVE BoundInv'
  BY <1>38 DEF StdinWrite, BoundInv
<1>39. ASSUME ChildExits PROVE BoundInv'
  BY <1>39 DEF ChildExits, BoundInv
<1>40. ASSUME DropManager PROVE BoundInv'
  BY <1>40 DEF DropManager, BoundInv
<1>41. CASE UNCHANGED vars
  BY <1>41 DEF vars, BoundInv
<1> QED
  BY <1>1, <1>2, <1>3, <1>4, <1>5, <1>6, <1>7, <1>8, <1>9, <1>10, <1>11, <1>12, <1>13,
     <1>14, <1>15, <1>16, <1>17, <1>18, <1>19, <1>20, <1>21, <1>22, <1>23, <1>24,
     <1>25, <1>26, <1>27, <1>28, <1>29, <1>30, <1>31, <1>32, <1>33, <1>34, <1>35,
     <1>36, <1>37, <1>38, <1>39, <1>40, <1>41
     DEF Next, Command, HandleEvent, Deadlines, Reaping, Finish

\* ManagerClosed is only ever answered by the end of the task.
LEMMA ClosedAnswersStep == TypeOK /\ ClosedAnswers /\ [Next]_vars => ClosedAnswers'
<1> SUFFICES ASSUME TypeOK, ClosedAnswers, [Next]_vars PROVE ClosedAnswers'
  OBVIOUS
<1> USE DEF clientVars, controlVars
<1>0. reply \in [Calls -> Replies]
  BY DEF TypeOK
<1>1. ASSUME NEW c \in Calls, NEW o \in Operations, Submit(c, o) PROVE ClosedAnswers'
  BY <1>1, <1>0 DEF Submit, ClosedAnswers
<1>2. ASSUME NEW c \in Calls, StartRuntime(c) PROVE ClosedAnswers'
  BY <1>2, <1>0 DEF StartRuntime, TakeCommand, Answer, ClosedAnswers
<1>3. ASSUME NEW c \in Calls, StopIdle(c) PROVE ClosedAnswers'
  BY <1>3, <1>0 DEF StopIdle, TakeCommand, Answer, ClosedAnswers
<1>4. ASSUME NEW c \in Calls, StopStarting(c) PROVE ClosedAnswers'
  BY <1>4, <1>0 DEF StopStarting, TakeCommand, BeginReap, ClosedAnswers
<1>5. ASSUME NEW c \in Calls, StopJoin(c) PROVE ClosedAnswers'
  BY <1>5, <1>0 DEF StopJoin, TakeCommand, Answer, ClosedAnswers
<1>6. ASSUME NEW c \in Calls, StopConnected(c) PROVE ClosedAnswers'
  BY <1>6, <1>0 DEF StopConnected, TakeCommand, BeginReap, ClosedAnswers
<1>7. ASSUME NEW c \in Calls, SendRequest(c) PROVE ClosedAnswers'
  BY <1>7, <1>0 DEF SendRequest, TakeCommand, BeginReap, Answer, ClosedAnswers
<1>8. ASSUME NEW c \in Calls, ReadStatus(c) PROVE ClosedAnswers'
  BY <1>8, <1>0 DEF ReadStatus, TakeCommand, Answer, ClosedAnswers
<1>9. ASSUME SnapshotDone PROVE ClosedAnswers'
  BY <1>9, <1>0 DEF SnapshotDone, Answer, ClosedAnswers
<1>10. ASSUME DropStaleEvent PROVE ClosedAnswers'
  BY <1>10, <1>0 DEF DropStaleEvent, ClosedAnswers
<1>11. ASSUME HandleHello PROVE ClosedAnswers'
  BY <1>11, <1>0 DEF HandleHello, TakeEvent, BeginReap, ClosedAnswers
<1>12. ASSUME HandleResponse PROVE ClosedAnswers'
  BY <1>12, <1>0 DEF HandleResponse, TakeEvent, BeginReap, Answer, ClosedAnswers
<1>13. ASSUME HandleShutdownResponse PROVE ClosedAnswers'
  BY <1>13, <1>0 DEF HandleShutdownResponse, TakeEvent, BeginReap, TryCompleteShutdown,
     ClosedAnswers
<1>14. ASSUME HandleEof PROVE ClosedAnswers'
  BY <1>14, <1>0 DEF HandleEof, TakeEvent, BeginReap, TryCompleteShutdown, ClosedAnswers
<1>15. ASSUME EofWaitDone PROVE ClosedAnswers'
  BY <1>15, <1>0 DEF EofWaitDone, BeginReap, ClosedAnswers
<1>16. ASSUME HandleBroken PROVE ClosedAnswers'
  BY <1>16, <1>0 DEF HandleBroken, TakeEvent, BeginReap, ClosedAnswers
<1>17. ASSUME HandleWriteFailure PROVE ClosedAnswers'
  BY <1>17, <1>0 DEF HandleWriteFailure, TakeEvent, BeginReap, ClosedAnswers
<1>18. ASSUME StartTimeout PROVE ClosedAnswers'
  BY <1>18, <1>0 DEF StartTimeout, BeginReap, ClosedAnswers
<1>19. ASSUME ShutdownTimeout PROVE ClosedAnswers'
  BY <1>19, <1>0 DEF ShutdownTimeout, BeginReap, ClosedAnswers
<1>20. ASSUME RequestTimeout PROVE ClosedAnswers'
  BY <1>20, <1>0 DEF RequestTimeout, BeginReap, ClosedAnswers
<1>21. ASSUME DrainTimeout PROVE ClosedAnswers'
  BY <1>21, <1>0 DEF DrainTimeout, BeginReap, ClosedAnswers
<1>22. ASSUME PollProcessExit PROVE ClosedAnswers'
  BY <1>22, <1>0 DEF PollProcessExit, BeginReap, TryCompleteShutdown, ClosedAnswers
<1>23. ASSUME ReapWait PROVE ClosedAnswers'
  BY <1>23, <1>0 DEF ReapWait, ClosedAnswers
<1>24. ASSUME ReapTimeout PROVE ClosedAnswers'
  BY <1>24, <1>0 DEF ReapTimeout, ClosedAnswers
<1>25. ASSUME DetachedReap PROVE ClosedAnswers'
  BY <1>25, <1>0 DEF DetachedReap, ClosedAnswers
<1>26. ASSUME BarrierWait PROVE ClosedAnswers'
  BY <1>26, <1>0 DEF BarrierWait, ClosedAnswers
<1>27. ASSUME FinishFail PROVE ClosedAnswers'
  BY <1>27, <1>0 DEF FinishFail, FinishProcessTasks, Answer, ClosedAnswers
<1>28. ASSUME FinishCrash PROVE ClosedAnswers'
  BY <1>28, <1>0 DEF FinishCrash, FinishProcessTasks, Answer, ClosedAnswers
<1>29. ASSUME FinishCancelStart PROVE ClosedAnswers'
  BY <1>29, <1>0 DEF FinishCancelStart, FinishProcessTasks, Answer2, ClosedAnswers
<1>30. ASSUME FinishGraceful PROVE ClosedAnswers'
  BY <1>30, <1>0 DEF FinishGraceful, FinishProcessTasks, Answer2, ClosedAnswers
<1>31. ASSUME FinishDropped PROVE ClosedAnswers'
  BY <1>31, <1>0 DEF FinishDropped, FinishProcessTasks, Answer, ClosedAnswers
<1>32. ASSUME ManagerDropped PROVE ClosedAnswers'
  BY <1>32, <1>0 DEF ManagerDropped, BeginReap, ClosedAnswers
<1>33. ASSUME Abort PROVE ClosedAnswers'
  BY <1>33, <1>0 DEF Abort, Answer, ClosedAnswers
<1>34. ASSUME AbortReap PROVE ClosedAnswers'
  BY <1>34, <1>0 DEF AbortReap, ClosedAnswers
<1>35. ASSUME AbortFinish PROVE ClosedAnswers'
  BY <1>35, <1>0 DEF AbortFinish, OwnerReaped, Answer2, ClosedAnswers
<1>36. ASSUME ChildWrites PROVE ClosedAnswers'
  BY <1>36, <1>0 DEF ChildWrites, ClosedAnswers
<1>37. ASSUME StdoutEnds PROVE ClosedAnswers'
  BY <1>37, <1>0 DEF StdoutEnds, ClosedAnswers
<1>38. ASSUME StdinWrite PROVE ClosedAnswers'
  BY <1>38, <1>0 DEF StdinWrite, ClosedAnswers
<1>39. ASSUME ChildExits PROVE ClosedAnswers'
  BY <1>39, <1>0 DEF ChildExits, ClosedAnswers
<1>40. ASSUME DropManager PROVE ClosedAnswers'
  BY <1>40, <1>0 DEF DropManager, ClosedAnswers
<1>41. CASE UNCHANGED vars
  BY <1>41 DEF vars, ClosedAnswers
<1> QED
  BY <1>1, <1>2, <1>3, <1>4, <1>5, <1>6, <1>7, <1>8, <1>9, <1>10, <1>11, <1>12, <1>13,
     <1>14, <1>15, <1>16, <1>17, <1>18, <1>19, <1>20, <1>21, <1>22, <1>23, <1>24,
     <1>25, <1>26, <1>27, <1>28, <1>29, <1>30, <1>31, <1>32, <1>33, <1>34, <1>35,
     <1>36, <1>37, <1>38, <1>39, <1>40, <1>41
     DEF Next, Command, HandleEvent, Deadlines, Reaping, Finish

\* A step that answers nobody and adds no child.
LEMMA QuietStep ==
  ASSUME ReplyAfterReap, UNCHANGED <<op, reply, bound>>,
         \A g \in Generations : os'[g] \in Unreaped => os[g] \in Unreaped,
         bound \in [Calls -> 0 .. MaxGeneration]
  PROVE  ReplyAfterReap'
BY ManagerAssumption DEF ReplyAfterReap, StreamEnded, Generations

\* A step after which no child is left may answer anyone.
LEMMA NobodyLeft ==
  ASSUME \A g \in Generations : os'[g] \notin Unreaped,
         bound' \in [Calls -> 0 .. MaxGeneration]
  PROVE  ReplyAfterReap'
BY ManagerAssumption DEF ReplyAfterReap, Generations

\* An answer that ends a stream is given where no process is left; and a new child
\* belongs to a generation no answered call was accepted for.
LEMMA ReplyAfterReapStep == ControlInv /\ OwnInv /\ BoundInv /\ ClosedAnswers /\ ReplyAfterReap /\ [Next]_vars => ReplyAfterReap'
<1> SUFFICES ASSUME ControlInv, OwnInv, BoundInv, ClosedAnswers, ReplyAfterReap, [Next]_vars PROVE ReplyAfterReap'
  OBVIOUS
<1> USE DEF clientVars, ControlInv
<1>0. /\ reply \in [Calls -> Replies] /\ bound \in [Calls -> 0 .. MaxGeneration]
      /\ op \in [Calls -> AllOperations \cup {"none"}]
      /\ generation \in 0 .. MaxGeneration /\ os \in [Generations -> OsStates]
  BY DEF TypeOK
<1>1. ASSUME NEW c \in Calls, NEW o \in Operations, Submit(c, o) PROVE ReplyAfterReap'
  <2>1. CASE phase = "closed"
    <3>1. \A g \in Generations : os'[g] \notin Unreaped
      BY <1>1, <2>1, NothingUnreaped DEF Submit, ProcessInv
    <3> QED
      BY <1>1, <1>0, <3>1, NobodyLeft DEF Submit
  <2>2. CASE phase # "closed"
    BY <1>1, <2>2, <1>0 DEF Submit, ReplyAfterReap, StreamEnded
  <2> QED
    BY <2>1, <2>2
<1>2. ASSUME NEW c \in Calls, StartRuntime(c) PROVE ReplyAfterReap'
  <2>1. c \in Queued /\ Open(c) /\ phase = "select"
    BY <1>2, TakeCommandQueue DEF StartRuntime, TakeCommand, OwnInv, QueueInv
  <2>2. CASE Answer({c}, "Rejected") /\ UNCHANGED <<bound, os>>
    BY <1>2, <1>0, <2>1, <2>2 DEF StartRuntime, TakeCommand, Answer, Open, ReplyAfterReap, StreamEnded
  <2>3. CASE generation' = generation + 1 /\ state \in {"Stopped", "Crashed", "Error"}
    <3>1. \A g \in Generations : os[g] \notin Unreaped
      BY <2>1, <2>3, NothingUnreaped DEF ProcessInv, Settled
    <3>2. CASE Answer({c}, "Failed") /\ UNCHANGED os
      <4>1. bound' \in [Calls -> 0 .. MaxGeneration]
        BY <1>2, NextTypeOK DEF Next, Command, TypeOK
      <4> QED
        BY <3>1, <3>2, <4>1, NobodyLeft
    <3>3. CASE UNCHANGED reply /\ Spawned(generation')
      <4>1. \A d \in Calls : d # c => bound'[d] = bound[d] /\ bound[d] <= generation
        BY <1>2, <1>0, <2>1, <2>3 DEF StartRuntime, Bind, BoundInv
      <4>2. \A g \in Generations : g # generation + 1 => os'[g] = os[g]
        BY <1>2, <2>3, <3>3, <1>0 DEF Spawned
      <4>3. \A d \in Calls : reply'[d] # "Closed"
        BY <2>1, <3>3 DEF ClosedAnswers
      <4>4. ~StreamEnded(c)'
        BY <1>2, <2>1, <3>3 DEF StartRuntime, StreamEnded, Open
      <4>5. \A d \in Calls : d # c /\ bound'[d] # 0 => bound'[d] \in Generations /\ bound'[d] # generation + 1
        BY <4>1, <1>0, ManagerAssumption DEF Generations
      <4> QED
        BY <3>1, <4>2, <4>3, <4>4, <4>5 DEF ReplyAfterReap
    <3> QED
      BY <1>2, <2>3, <3>2, <3>3 DEF StartRuntime
  <2> QED
    BY <1>2, <2>2, <2>3 DEF StartRuntime
<1>3. ASSUME NEW c \in Calls, StopIdle(c) PROVE ReplyAfterReap'
  <2>1. \A g \in Generations : os'[g] \notin Unreaped
    BY <1>3, NothingUnreaped DEF StopIdle, TakeCommand, ProcessInv, Settled
  <2> QED
    BY <1>3, <1>0, <2>1, NobodyLeft DEF StopIdle
<1>4. ASSUME NEW c \in Calls, StopStarting(c) PROVE ReplyAfterReap'
  <2>1. Open(c) /\ c \in Calls
    BY <1>4, TakeCommandQueue DEF StopStarting, OwnInv, QueueInv
  <2> QED
    BY <1>4, <1>0, <2>1 DEF StopStarting, TakeCommand, Bind, Open, ReplyAfterReap, StreamEnded
<1>5. ASSUME NEW c \in Calls, StopJoin(c) PROVE ReplyAfterReap'
  <2>1. Open(c) /\ c \in Calls
    BY <1>5, TakeCommandQueue DEF StopJoin, OwnInv, QueueInv
  <2> QED
    BY <1>5, <1>0, <2>1 DEF StopJoin, TakeCommand, Bind, Answer, Open, ReplyAfterReap, StreamEnded
<1>6. ASSUME NEW c \in Calls, StopConnected(c) PROVE ReplyAfterReap'
  <2>1. Open(c) /\ c \in Calls
    BY <1>6, TakeCommandQueue DEF StopConnected, OwnInv, QueueInv
  <2> QED
    BY <1>6, <1>0, <2>1 DEF StopConnected, TakeCommand, Bind, Open, ReplyAfterReap, StreamEnded
<1>7. ASSUME NEW c \in Calls, SendRequest(c) PROVE ReplyAfterReap'
  <2>1. Open(c) /\ c \in Calls
    BY <1>7, TakeCommandQueue DEF SendRequest, OwnInv, QueueInv, TakeCommand
  <2> QED
    BY <1>7, <1>0, <2>1 DEF SendRequest, TakeCommand, Bind, Answer, Open, ReplyAfterReap, StreamEnded
<1>8. ASSUME NEW c \in Calls, ReadStatus(c) PROVE ReplyAfterReap'
  <2>1. Open(c) /\ c \in Calls
    BY <1>8, TakeCommandQueue DEF ReadStatus, OwnInv, QueueInv, TakeCommand
  <2> QED
    BY <1>8, <1>0, <2>1 DEF ReadStatus, TakeCommand, Answer, Open, ReplyAfterReap, StreamEnded
<1>9. ASSUME SnapshotDone PROVE ReplyAfterReap'
  BY <1>9, <1>0 DEF SnapshotDone, Answer, Slot, OwnInv, SlotOps, ReplyAfterReap, StreamEnded
<1>10. ASSUME DropStaleEvent PROVE ReplyAfterReap'
  BY <1>10, <1>0, QuietStep DEF DropStaleEvent
<1>11. ASSUME HandleHello PROVE ReplyAfterReap'
  BY <1>11, <1>0, QuietStep DEF HandleHello
<1>12. ASSUME HandleResponse PROVE ReplyAfterReap'
  <2>1. \/ UNCHANGED reply
        \/ \E i \in PendingIds, r \in {"Ok", "Remote"} : Answer({pending[i]}, r)
    BY <1>12 DEF HandleResponse
  <2> QED
    BY <1>12, <1>0, <2>1 DEF HandleResponse, Answer, OwnInv, SlotOps, Queries, ReplyAfterReap, StreamEnded
<1>13. ASSUME HandleShutdownResponse PROVE ReplyAfterReap'
  BY <1>13, <1>0, QuietStep DEF HandleShutdownResponse
<1>14. ASSUME HandleEof PROVE ReplyAfterReap'
  BY <1>14, <1>0, QuietStep DEF HandleEof
<1>15. ASSUME EofWaitDone PROVE ReplyAfterReap'
  <2>1. \A g \in Generations : os'[g] \in Unreaped => os[g] \in Unreaped
    BY <1>15, CollectExitReaps DEF EofWaitDone
  <2> QED
    BY <1>15, <1>0, <2>1, QuietStep DEF EofWaitDone
<1>16. ASSUME HandleBroken PROVE ReplyAfterReap'
  BY <1>16, <1>0, QuietStep DEF HandleBroken
<1>17. ASSUME HandleWriteFailure PROVE ReplyAfterReap'
  BY <1>17, <1>0, QuietStep DEF HandleWriteFailure
<1>18. ASSUME StartTimeout PROVE ReplyAfterReap'
  BY <1>18, <1>0, QuietStep DEF StartTimeout
<1>19. ASSUME ShutdownTimeout PROVE ReplyAfterReap'
  BY <1>19, <1>0, QuietStep DEF ShutdownTimeout
<1>20. ASSUME RequestTimeout PROVE ReplyAfterReap'
  BY <1>20, <1>0, QuietStep DEF RequestTimeout
<1>21. ASSUME DrainTimeout PROVE ReplyAfterReap'
  BY <1>21, <1>0, QuietStep DEF DrainTimeout
<1>22. ASSUME PollProcessExit PROVE ReplyAfterReap'
  <2>1. \A g \in Generations : os'[g] \in Unreaped => os[g] \in Unreaped
    BY <1>22, CollectExitReaps DEF PollProcessExit
  <2> QED
    BY <1>22, <1>0, <2>1, QuietStep DEF PollProcessExit
<1>23. ASSUME ReapWait PROVE ReplyAfterReap'
  <2>1. \A g \in Generations : os'[g] \in Unreaped => os[g] \in Unreaped
    BY <1>23, CollectExitReaps DEF ReapWait
  <2> QED
    BY <1>23, <1>0, <2>1, QuietStep DEF ReapWait
<1>24. ASSUME ReapTimeout PROVE ReplyAfterReap'
  BY <1>24, <1>0, QuietStep DEF ReapTimeout
<1>25. ASSUME DetachedReap PROVE ReplyAfterReap'
  <2>1. \A g \in Generations : os'[g] \in Unreaped => os[g] \in Unreaped
    BY <1>25, CollectExitReaps DEF DetachedReap
  <2> QED
    BY <1>25, <1>0, <2>1, QuietStep DEF DetachedReap
<1>26. ASSUME BarrierWait PROVE ReplyAfterReap'
  BY <1>26, <1>0, QuietStep DEF BarrierWait
<1>27. ASSUME FinishFail PROVE ReplyAfterReap'
  <2>1. \A g \in Generations : os'[g] \notin Unreaped
    BY <1>27, NothingUnreaped DEF FinishFail, FinishProcessTasks, ProcessInv, Settled
  <2> QED
    BY <1>27, <1>0, <2>1, NobodyLeft DEF FinishFail
<1>28. ASSUME FinishCrash PROVE ReplyAfterReap'
  <2>1. \A g \in Generations : os'[g] \notin Unreaped
    BY <1>28, NothingUnreaped DEF FinishCrash, FinishProcessTasks, ProcessInv, Settled
  <2> QED
    BY <1>28, <1>0, <2>1, NobodyLeft DEF FinishCrash
<1>29. ASSUME FinishCancelStart PROVE ReplyAfterReap'
  <2>1. \A g \in Generations : os'[g] \notin Unreaped
    BY <1>29, NothingUnreaped DEF FinishCancelStart, FinishProcessTasks, ProcessInv, Settled
  <2> QED
    BY <1>29, <1>0, <2>1, NobodyLeft DEF FinishCancelStart
<1>30. ASSUME FinishGraceful PROVE ReplyAfterReap'
  <2>1. \A g \in Generations : os'[g] \notin Unreaped
    BY <1>30, NothingUnreaped DEF FinishGraceful, FinishProcessTasks, ProcessInv, Settled
  <2> QED
    BY <1>30, <1>0, <2>1, NobodyLeft DEF FinishGraceful
<1>31. ASSUME FinishDropped PROVE ReplyAfterReap'
  <2>1. \A g \in Generations : os'[g] \notin Unreaped
    BY <1>31, NothingUnreaped DEF FinishDropped, FinishProcessTasks, ProcessInv, Settled
  <2> QED
    BY <1>31, <1>0, <2>1, NobodyLeft DEF FinishDropped
<1>32. ASSUME ManagerDropped PROVE ReplyAfterReap'
  BY <1>32, <1>0, QuietStep DEF ManagerDropped
<1>33. ASSUME Abort PROVE ReplyAfterReap'
  <2>1. CASE OwnsNothing
    <3>1. \A g \in Generations : os'[g] \notin Unreaped
      BY <1>33, <2>1, NothingUnreaped DEF Abort, OwnsNothing
    <3> QED
      BY <1>33, <1>0, <3>1, NobodyLeft DEF Abort
  <2>2. CASE ~OwnsNothing
    BY <1>33, <2>2, <1>0, QuietStep DEF Abort
  <2> QED
    BY <2>1, <2>2
<1>34. ASSUME AbortReap PROVE ReplyAfterReap'
  <2>1. \A g \in Generations : os'[g] \in Unreaped => os[g] \in Unreaped
    BY <1>34, CollectExitReaps DEF AbortReap
  <2> QED
    BY <1>34, <1>0, <2>1, QuietStep DEF AbortReap
<1>35. ASSUME AbortFinish PROVE ReplyAfterReap'
  <2>1. \A g \in Generations : os'[g] \notin Unreaped
    BY <1>35, NothingUnreaped DEF AbortFinish, OwnerReaped, ProcessInv, Settled
  <2> QED
    BY <1>35, <1>0, <2>1, NobodyLeft DEF AbortFinish
<1>36. ASSUME ChildWrites PROVE ReplyAfterReap'
  BY <1>36, <1>0, QuietStep DEF ChildWrites
<1>37. ASSUME StdoutEnds PROVE ReplyAfterReap'
  BY <1>37, <1>0, QuietStep DEF StdoutEnds
<1>38. ASSUME StdinWrite PROVE ReplyAfterReap'
  BY <1>38, <1>0, QuietStep DEF StdinWrite
<1>39. ASSUME ChildExits PROVE ReplyAfterReap'
  <2>1. \A g \in Generations : os'[g] \in Unreaped => os[g] \in Unreaped
    BY <1>39, <1>0 DEF ChildExits, Unreaped
  <2> QED
    BY <1>39, <1>0, <2>1, QuietStep DEF ChildExits
<1>40. ASSUME DropManager PROVE ReplyAfterReap'
  BY <1>40, <1>0 DEF DropManager, ReplyAfterReap, StreamEnded
<1>41. CASE UNCHANGED vars
  BY <1>41, <1>0, QuietStep DEF vars
<1> QED
  BY <1>1, <1>2, <1>3, <1>4, <1>5, <1>6, <1>7, <1>8, <1>9, <1>10, <1>11, <1>12, <1>13,
     <1>14, <1>15, <1>16, <1>17, <1>18, <1>19, <1>20, <1>21, <1>22, <1>23, <1>24,
     <1>25, <1>26, <1>27, <1>28, <1>29, <1>30, <1>31, <1>32, <1>33, <1>34, <1>35,
     <1>36, <1>37, <1>38, <1>39, <1>40, <1>41
     DEF Next, Command, HandleEvent, Deadlines, Reaping, Finish

-----------------------------------------------------------------------------
(* What the answers at the end of a stream rest on *)

\* A process being reaped is that of an active state, a shutdown has a caller, a
\* cancelled start has the Stop that cancelled it, and no call outlives the handles.
ServedInv ==
  /\ phase \in InReap => state \in {"Starting", "Connected", "Stopping"}
  /\ phase \in InReap /\ cont = "cancelStart" => deferredStop # None
  /\ stop.id # 0 => stop.waiters # {}
  /\ managerDropped => \A c \in Calls : reply[c] # "waiting"

\* Every step keeps the callers of a stream's end where its ending will look for them.
LEMMA ServedStep == TypeOK /\ ProcessInv /\ ContextInv /\ ServedInv /\ [Next]_vars => ServedInv'
<1> SUFFICES ASSUME TypeOK, ProcessInv, ContextInv, ServedInv, [Next]_vars PROVE ServedInv'
  OBVIOUS
<1> USE ManagerAssumption DEF clientVars, slotVars, controlVars, processVars, ServedInv, InReap
<1>0. /\ stop \in StopContexts /\ reply \in [Calls -> Replies]
  BY DEF TypeOK
<1>1. ASSUME NEW c \in Calls, NEW o \in Operations, Submit(c, o) PROVE ServedInv'
  BY <1>0, <1>1 DEF Submit
<1>2. ASSUME NEW c \in Calls, StartRuntime(c) PROVE ServedInv'
  BY <1>0, <1>2 DEF StartRuntime, TakeCommand, Answer, ProcessInv, ContextInv, Settled, StopContexts
<1>3. ASSUME NEW c \in Calls, StopIdle(c) PROVE ServedInv'
  BY <1>0, <1>3 DEF StopIdle, TakeCommand, Answer, ProcessInv, ContextInv, Settled, StopContexts
<1>4. ASSUME NEW c \in Calls, StopStarting(c) PROVE ServedInv'
  BY <1>0, <1>4 DEF StopStarting, TakeCommand, BeginReap, ProcessInv, ContextInv, Settled, StopContexts
<1>5. ASSUME NEW c \in Calls, StopJoin(c) PROVE ServedInv'
  BY <1>0, <1>5 DEF StopJoin, TakeCommand, Answer, ProcessInv, ContextInv, Settled, StopContexts
<1>6. ASSUME NEW c \in Calls, StopConnected(c) PROVE ServedInv'
  <2>1. /\ phase' \in InReap => state' = "Stopping"
        /\ phase' \in InReap => cont' = "fail"
    BY <1>6 DEF StopConnected, TakeCommand, BeginReap
  <2>2. stop' = stop \/ stop'.waiters = {c}
    BY <1>6 DEF StopConnected, NewStop
  <2> QED
    BY <1>6, <2>1, <2>2 DEF StopConnected
<1>7. ASSUME NEW c \in Calls, SendRequest(c) PROVE ServedInv'
  BY <1>0, <1>7 DEF SendRequest, TakeCommand, BeginReap, Answer, ProcessInv, ContextInv, Settled, StopContexts
<1>8. ASSUME NEW c \in Calls, ReadStatus(c) PROVE ServedInv'
  BY <1>0, <1>8 DEF ReadStatus, TakeCommand, Answer, ProcessInv, ContextInv, Settled, StopContexts
<1>9. ASSUME SnapshotDone PROVE ServedInv'
  BY <1>0, <1>9 DEF SnapshotDone, Answer, ProcessInv, ContextInv, Settled, StopContexts
<1>10. ASSUME DropStaleEvent PROVE ServedInv'
  BY <1>0, <1>10 DEF DropStaleEvent
<1>11. ASSUME HandleHello PROVE ServedInv'
  BY <1>0, <1>11 DEF HandleHello, TakeEvent, BeginReap, ProcessInv, ContextInv, Settled, StopContexts
<1>12. ASSUME HandleResponse PROVE ServedInv'
  BY <1>0, <1>12 DEF HandleResponse, TakeEvent, BeginReap, Answer, ProcessInv, ContextInv, Settled, StopContexts
<1>13. ASSUME HandleShutdownResponse PROVE ServedInv'
  BY <1>0, <1>13 DEF HandleShutdownResponse, TakeEvent, BeginReap, TryCompleteShutdown, NamesShutdown, ProcessInv, ContextInv, Settled, StopContexts
<1>14. ASSUME HandleEof PROVE ServedInv'
  BY <1>0, <1>14 DEF HandleEof, TakeEvent, BeginReap, TryCompleteShutdown, ProcessInv, ContextInv, Settled, StopContexts
<1>15. ASSUME EofWaitDone PROVE ServedInv'
  BY <1>0, <1>15 DEF EofWaitDone, BeginReap, CollectExit, ProcessInv, ContextInv, Settled, StopContexts
<1>16. ASSUME HandleBroken PROVE ServedInv'
  BY <1>0, <1>16 DEF HandleBroken, TakeEvent, BeginReap, ProcessInv, ContextInv, Settled, StopContexts
<1>17. ASSUME HandleWriteFailure PROVE ServedInv'
  BY <1>0, <1>17 DEF HandleWriteFailure, TakeEvent, BeginReap, ProcessInv, ContextInv, Settled, StopContexts
<1>18. ASSUME StartTimeout PROVE ServedInv'
  BY <1>0, <1>18 DEF StartTimeout, BeginReap, ProcessInv, ContextInv, Settled, StopContexts
<1>19. ASSUME ShutdownTimeout PROVE ServedInv'
  BY <1>0, <1>19 DEF ShutdownTimeout, BeginReap, ProcessInv, ContextInv, Settled, StopContexts
<1>20. ASSUME RequestTimeout PROVE ServedInv'
  BY <1>0, <1>20 DEF RequestTimeout, BeginReap, ProcessInv, ContextInv, Settled, StopContexts
<1>21. ASSUME DrainTimeout PROVE ServedInv'
  BY <1>0, <1>21 DEF DrainTimeout, BeginReap, ProcessInv, ContextInv, Settled, StopContexts
<1>22. ASSUME PollProcessExit PROVE ServedInv'
  BY <1>0, <1>22 DEF PollProcessExit, BeginReap, TryCompleteShutdown, CollectExit, ProcessInv, ContextInv, Settled, StopContexts
<1>23. ASSUME ReapWait PROVE ServedInv'
  BY <1>0, <1>23 DEF ReapWait
<1>24. ASSUME ReapTimeout PROVE ServedInv'
  BY <1>0, <1>24 DEF ReapTimeout
<1>25. ASSUME DetachedReap PROVE ServedInv'
  BY <1>0, <1>25 DEF DetachedReap
<1>26. ASSUME BarrierWait PROVE ServedInv'
  BY <1>0, <1>26 DEF BarrierWait
<1>27. ASSUME FinishFail PROVE ServedInv'
  BY <1>0, <1>27 DEF FinishFail, FinishProcessTasks, ClearStream, Answer, NoStop
<1>28. ASSUME FinishCrash PROVE ServedInv'
  BY <1>0, <1>28 DEF FinishCrash, FinishProcessTasks, Answer, NoStop
<1>29. ASSUME FinishCancelStart PROVE ServedInv'
  BY <1>0, <1>29 DEF FinishCancelStart, FinishProcessTasks, Answer2, NoStop
<1>30. ASSUME FinishGraceful PROVE ServedInv'
  BY <1>0, <1>30 DEF FinishGraceful, FinishProcessTasks, Answer2, NoStop
<1>31. ASSUME FinishDropped PROVE ServedInv'
  BY <1>0, <1>31 DEF FinishDropped, FinishProcessTasks, Answer, NoStop
<1>32. ASSUME ManagerDropped PROVE ServedInv'
  BY <1>0, <1>32 DEF ManagerDropped, BeginReap, ProcessInv, ContextInv, Settled, StopContexts
<1>33. ASSUME Abort PROVE ServedInv'
  BY <1>0, <1>33 DEF Abort, Answer
<1>34. ASSUME AbortReap PROVE ServedInv'
  BY <1>0, <1>34 DEF AbortReap
<1>35. ASSUME AbortFinish PROVE ServedInv'
  BY <1>0, <1>35 DEF AbortFinish, ClearStream, Answer2, NoStop
<1>36. ASSUME ChildWrites PROVE ServedInv'
  BY <1>0, <1>36 DEF ChildWrites
<1>37. ASSUME StdoutEnds PROVE ServedInv'
  BY <1>0, <1>37 DEF StdoutEnds
<1>38. ASSUME StdinWrite PROVE ServedInv'
  BY <1>0, <1>38 DEF StdinWrite
<1>39. ASSUME ChildExits PROVE ServedInv'
  BY <1>0, <1>39 DEF ChildExits
<1>40. ASSUME DropManager PROVE ServedInv'
  BY <1>0, <1>40 DEF DropManager
<1>41. CASE UNCHANGED vars
  BY <1>41 DEF vars
<1> QED
  BY <1>1, <1>2, <1>3, <1>4, <1>5, <1>6, <1>7, <1>8, <1>9, <1>10, <1>11, <1>12, <1>13,
     <1>14, <1>15, <1>16, <1>17, <1>18, <1>19, <1>20, <1>21, <1>22, <1>23, <1>24,
     <1>25, <1>26, <1>27, <1>28, <1>29, <1>30, <1>31, <1>32, <1>33, <1>34, <1>35,
     <1>36, <1>37, <1>38, <1>39, <1>40, <1>41
     DEF Next, Command, HandleEvent, Deadlines, Reaping, Finish

-----------------------------------------------------------------------------
(* The bounds *)

\* A step adds at most one request, and only with room for it, and at most one Stop
\* caller to a shutdown, with room for it or as its first.
OneMoreRequest ==
  \/ PendingIds' \subseteq PendingIds
  \/ /\ Cardinality(PendingIds) < MaxInFlight
     /\ \E i \in Ids : PendingIds' \subseteq PendingIds \cup {i}

OneMoreWaiter ==
  \/ stop'.waiters \subseteq stop.waiters
  \/ /\ Cardinality(stop.waiters) < MaxWaiters
     /\ \E c \in Calls : stop'.waiters \subseteq stop.waiters \cup {c}
  \/ \E c \in Calls : stop'.waiters = {c}

LEMMA OneMoreStep ==
  ASSUME TypeOK, [Next]_vars
  PROVE  OneMoreRequest /\ OneMoreWaiter
<1> USE DEF clientVars, slotVars, OneMoreRequest, OneMoreWaiter, PendingIds
<1>0. stop \in StopContexts /\ pending \in [Ids -> Calls \cup {None}]
  BY DEF TypeOK

<1>1. ASSUME NEW c \in Calls, NEW o \in Operations, Submit(c, o) PROVE OneMoreRequest /\ OneMoreWaiter
  BY <1>1 DEF Submit
<1>2. ASSUME NEW c \in Calls, StartRuntime(c) PROVE OneMoreRequest /\ OneMoreWaiter
  BY <1>2 DEF StartRuntime
<1>3. ASSUME NEW c \in Calls, StopIdle(c) PROVE OneMoreRequest /\ OneMoreWaiter
  BY <1>3 DEF StopIdle
<1>4. ASSUME NEW c \in Calls, StopStarting(c) PROVE OneMoreRequest /\ OneMoreWaiter
  BY <1>4 DEF StopStarting
<1>5. ASSUME NEW c \in Calls, StopJoin(c) PROVE OneMoreRequest /\ OneMoreWaiter
  <2>1. Cardinality(stop.waiters) \in Nat
    BY <1>0, ManagerAssumption, FS_Subset, FS_CardinalityType DEF StopContexts
  <2> QED
    BY <1>0, <1>5, <2>1, ManagerAssumption DEF StopJoin, WaitersFull, MaxWaiters, StopContexts
<1>6. ASSUME NEW c \in Calls, StopConnected(c) PROVE OneMoreRequest /\ OneMoreWaiter
  BY <1>6 DEF StopConnected, NewStop
<1>7. ASSUME NEW c \in Calls, SendRequest(c) PROVE OneMoreRequest /\ OneMoreWaiter
  <2>1. Cardinality(PendingIds) < MaxInFlight \/ UNCHANGED pending
    BY <1>7 DEF SendRequest
  <2>2. nextId \in Ids \/ UNCHANGED pending
    BY <1>7, AllocateIdTyped DEF SendRequest
  <2>3. UNCHANGED pending \/ pending' = [pending EXCEPT ![nextId] = c]
    BY <1>7 DEF SendRequest
  <2> QED
    BY <1>0, <1>7, <2>1, <2>2, <2>3 DEF SendRequest
<1>8. ASSUME NEW c \in Calls, ReadStatus(c) PROVE OneMoreRequest /\ OneMoreWaiter
  BY <1>8 DEF ReadStatus
<1>9. ASSUME SnapshotDone PROVE OneMoreRequest /\ OneMoreWaiter
  BY <1>9 DEF SnapshotDone
<1>10. ASSUME DropStaleEvent PROVE OneMoreRequest /\ OneMoreWaiter
  BY <1>10 DEF DropStaleEvent
<1>11. ASSUME HandleHello PROVE OneMoreRequest /\ OneMoreWaiter
  BY <1>11 DEF HandleHello
<1>12. ASSUME HandleResponse PROVE OneMoreRequest /\ OneMoreWaiter
  BY <1>0, <1>12 DEF HandleResponse
<1>13. ASSUME HandleShutdownResponse PROVE OneMoreRequest /\ OneMoreWaiter
  BY <1>0, <1>13 DEF HandleShutdownResponse, StopContexts
<1>14. ASSUME HandleEof PROVE OneMoreRequest /\ OneMoreWaiter
  BY <1>0, <1>14 DEF HandleEof, StopContexts
<1>15. ASSUME EofWaitDone PROVE OneMoreRequest /\ OneMoreWaiter
  BY <1>15 DEF EofWaitDone
<1>16. ASSUME HandleBroken PROVE OneMoreRequest /\ OneMoreWaiter
  BY <1>16 DEF HandleBroken
<1>17. ASSUME HandleWriteFailure PROVE OneMoreRequest /\ OneMoreWaiter
  BY <1>0, <1>17 DEF HandleWriteFailure
<1>18. ASSUME StartTimeout PROVE OneMoreRequest /\ OneMoreWaiter
  BY <1>18 DEF StartTimeout
<1>19. ASSUME ShutdownTimeout PROVE OneMoreRequest /\ OneMoreWaiter
  BY <1>19 DEF ShutdownTimeout
<1>20. ASSUME RequestTimeout PROVE OneMoreRequest /\ OneMoreWaiter
  BY <1>0, <1>20 DEF RequestTimeout
<1>21. ASSUME DrainTimeout PROVE OneMoreRequest /\ OneMoreWaiter
  BY <1>21 DEF DrainTimeout
<1>22. ASSUME PollProcessExit PROVE OneMoreRequest /\ OneMoreWaiter
  BY <1>22 DEF PollProcessExit
<1>23. ASSUME ReapWait PROVE OneMoreRequest /\ OneMoreWaiter
  BY <1>23 DEF ReapWait
<1>24. ASSUME ReapTimeout PROVE OneMoreRequest /\ OneMoreWaiter
  BY <1>24 DEF ReapTimeout
<1>25. ASSUME DetachedReap PROVE OneMoreRequest /\ OneMoreWaiter
  BY <1>25 DEF DetachedReap
<1>26. ASSUME BarrierWait PROVE OneMoreRequest /\ OneMoreWaiter
  BY <1>26 DEF BarrierWait
<1>27. ASSUME FinishFail PROVE OneMoreRequest /\ OneMoreWaiter
  BY <1>27 DEF FinishFail, ClearStream, NoStop
<1>28. ASSUME FinishCrash PROVE OneMoreRequest /\ OneMoreWaiter
  BY <1>28 DEF FinishCrash, NoStop
<1>29. ASSUME FinishCancelStart PROVE OneMoreRequest /\ OneMoreWaiter
  BY <1>29 DEF FinishCancelStart, NoStop
<1>30. ASSUME FinishGraceful PROVE OneMoreRequest /\ OneMoreWaiter
  BY <1>30 DEF FinishGraceful, NoStop
<1>31. ASSUME FinishDropped PROVE OneMoreRequest /\ OneMoreWaiter
  BY <1>31 DEF FinishDropped, NoStop
<1>32. ASSUME ManagerDropped PROVE OneMoreRequest /\ OneMoreWaiter
  BY <1>32 DEF ManagerDropped
<1>33. ASSUME Abort PROVE OneMoreRequest /\ OneMoreWaiter
  BY <1>33 DEF Abort
<1>34. ASSUME AbortReap PROVE OneMoreRequest /\ OneMoreWaiter
  BY <1>34 DEF AbortReap
<1>35. ASSUME AbortFinish PROVE OneMoreRequest /\ OneMoreWaiter
  BY <1>35 DEF AbortFinish, ClearStream, NoStop
<1>36. ASSUME ChildWrites PROVE OneMoreRequest /\ OneMoreWaiter
  BY <1>36 DEF ChildWrites
<1>37. ASSUME StdoutEnds PROVE OneMoreRequest /\ OneMoreWaiter
  BY <1>37 DEF StdoutEnds
<1>38. ASSUME StdinWrite PROVE OneMoreRequest /\ OneMoreWaiter
  BY <1>38 DEF StdinWrite
<1>39. ASSUME ChildExits PROVE OneMoreRequest /\ OneMoreWaiter
  BY <1>39 DEF ChildExits
<1>40. ASSUME DropManager PROVE OneMoreRequest /\ OneMoreWaiter
  BY <1>40 DEF DropManager
<1>41. CASE UNCHANGED vars
  BY <1>41 DEF vars
<1> QED
  BY <1>1, <1>2, <1>3, <1>4, <1>5, <1>6, <1>7, <1>8, <1>9, <1>10, <1>11, <1>12, <1>13,
     <1>14, <1>15, <1>16, <1>17, <1>18, <1>19, <1>20, <1>21, <1>22, <1>23, <1>24,
     <1>25, <1>26, <1>27, <1>28, <1>29, <1>30, <1>31, <1>32, <1>33, <1>34, <1>35,
     <1>36, <1>37, <1>38, <1>39, <1>40, <1>41
     DEF Next, Command, HandleEvent, Deadlines, Reaping, Finish

\* A finite set that gains at most one element gains at most one in size.
LEMMA AtMostOneMore ==
  ASSUME NEW S, NEW T, NEW x, IsFiniteSet(S), T \subseteq S \cup {x}
  PROVE  Cardinality(T) <= Cardinality(S) + 1 /\ Cardinality(S) \in Nat
                                             /\ Cardinality(T) \in Nat
<1>1. IsFiniteSet(S \cup {x}) /\ Cardinality(S \cup {x}) <= Cardinality(S) + 1
      /\ Cardinality(S) \in Nat
  BY FS_AddElement, FS_CardinalityType
<1>2. Cardinality(T) <= Cardinality(S \cup {x}) /\ IsFiniteSet(T)
  BY <1>1, FS_Subset
<1>3. Cardinality(T) \in Nat /\ Cardinality(S \cup {x}) \in Nat
  BY <1>1, <1>2, FS_CardinalityType
<1> QED
  BY <1>1, <1>2, <1>3

LEMMA BoundedStep ==
  ASSUME TypeOK, Bounded, [Next]_vars
  PROVE  Bounded'
<1>1. OneMoreRequest /\ OneMoreWaiter
  BY OneMoreStep
<1>2. IsFiniteSet(PendingIds)
  <2>1. IsFiniteSet(Ids)
    BY ManagerAssumption, FS_Interval DEF Ids
  <2> QED
    BY <2>1, FS_Subset DEF PendingIds
<1>3. IsFiniteSet(stop.waiters)
  BY ManagerAssumption, FS_Subset DEF TypeOK, StopContexts
<1>4. Cardinality(PendingIds') <= MaxInFlight
  <2>1. CASE PendingIds' \subseteq PendingIds
    <3>1. Cardinality(PendingIds') <= Cardinality(PendingIds) /\ IsFiniteSet(PendingIds')
      BY <1>2, <2>1, FS_Subset
    <3>2. Cardinality(PendingIds') \in Nat /\ Cardinality(PendingIds) \in Nat
      BY <1>2, <3>1, FS_CardinalityType
    <3> QED
      BY <3>1, <3>2, ManagerAssumption DEF Bounded
  <2>2. ASSUME Cardinality(PendingIds) < MaxInFlight,
               NEW i \in Ids, PendingIds' \subseteq PendingIds \cup {i}
        PROVE  Cardinality(PendingIds') <= MaxInFlight
    <3>1. /\ Cardinality(PendingIds') <= Cardinality(PendingIds) + 1
          /\ Cardinality(PendingIds) \in Nat /\ Cardinality(PendingIds') \in Nat
      BY <1>2, <2>2, AtMostOneMore
    <3> QED
      BY <2>2, <3>1, ManagerAssumption
  <2> QED
    BY <1>1, <2>1, <2>2 DEF OneMoreRequest
<1>5. Cardinality(stop'.waiters) <= MaxWaiters
  <2>0. MaxWaiters \in Nat /\ MaxWaiters > 1
    BY ManagerAssumption DEF MaxWaiters
  <2>1. CASE stop'.waiters \subseteq stop.waiters
    <3>1. Cardinality(stop'.waiters) <= Cardinality(stop.waiters) /\ IsFiniteSet(stop'.waiters)
      BY <1>3, <2>1, FS_Subset
    <3>2. Cardinality(stop'.waiters) \in Nat /\ Cardinality(stop.waiters) \in Nat
      BY <1>3, <3>1, FS_CardinalityType
    <3> QED
      BY <3>1, <3>2, <2>0 DEF Bounded
  <2>2. ASSUME Cardinality(stop.waiters) < MaxWaiters,
               NEW c \in Calls, stop'.waiters \subseteq stop.waiters \cup {c}
        PROVE  Cardinality(stop'.waiters) <= MaxWaiters
    <3>1. /\ Cardinality(stop'.waiters) <= Cardinality(stop.waiters) + 1
          /\ Cardinality(stop.waiters) \in Nat /\ Cardinality(stop'.waiters) \in Nat
      BY <1>3, <2>2, AtMostOneMore
    <3> QED
      BY <2>0, <2>2, <3>1
  <2>3. ASSUME NEW c \in Calls, stop'.waiters = {c}
        PROVE  Cardinality(stop'.waiters) <= MaxWaiters
    <3>1. Cardinality({c}) = 1
      BY FS_Singleton
    <3> QED
      BY <2>0, <2>3, <3>1
  <2> QED
    BY <1>1, <2>1, <2>2, <2>3 DEF OneMoreWaiter
<1> QED
  BY <1>4, <1>5 DEF Bounded

-----------------------------------------------------------------------------
(* The theorems *)

IInv ==
  /\ ControlInv /\ OwnInv /\ RequestIdsFresh
  /\ WaitersOwned /\ BoundInv /\ ClosedAnswers /\ ReplyAfterReap
  /\ ServedInv /\ Bounded

LEMMA InitOwnership ==
  Init => /\ OwnInv /\ RequestIdsFresh /\ WaitersOwned
          /\ BoundInv /\ ClosedAnswers /\ ReplyAfterReap
          /\ ServedInv /\ Bounded
<1> SUFFICES ASSUME Init
             PROVE  /\ OwnInv /\ RequestIdsFresh /\ WaitersOwned
                    /\ BoundInv /\ ClosedAnswers /\ ReplyAfterReap
                    /\ ServedInv /\ Bounded
  OBVIOUS
<1>1. Queued = {} /\ NoDuplicates /\ PendingIds = {} /\ stop.waiters = {} /\ stop.id = 0
  BY DEF Init, Queued, NoDuplicates, PendingIds, NoStop
<1>2. OwnInv
  BY <1>1, ManagerAssumption
     DEF Init, OwnInv, QueueInv, SlotOps, SlotDistinct, SlotOpen, InNoSlot
<1>3. RequestIdsFresh
  BY <1>1 DEF RequestIdsFresh
<1>4. WaitersOwned /\ BoundInv /\ ClosedAnswers /\ ReplyAfterReap
  BY DEF Init, WaitersOwned, BoundInv, ClosedAnswers, ReplyAfterReap
<1>5. ServedInv
  BY <1>1 DEF Init, ServedInv, InReap
<1>6. Bounded
  <2>1. Cardinality({}) = 0
    BY FS_EmptySet
  <2> QED
    BY <1>1, <2>1, ManagerAssumption DEF Bounded, MaxWaiters
<1> QED
  BY <1>2, <1>3, <1>4, <1>5, <1>6

LEMMA Invariant == Spec => []IInv
<1>1. Init /\ ControlInv => IInv
  BY InitOwnership DEF IInv
<1>2. IInv /\ [Next]_vars /\ ControlInv' => IInv'
  <2> SUFFICES ASSUME IInv, [Next]_vars, ControlInv' PROVE IInv'
    OBVIOUS
  <2>1. TypeOK /\ ProcessInv /\ ContextInv
    BY DEF IInv, ControlInv
  <2>2. OwnInv'
    BY <2>1, OwnStep DEF IInv
  <2>3. RequestIdsFresh'
    BY <2>1, FreshStep DEF IInv
  <2>4. WaitersOwned'
    BY <2>1, WaitersStep DEF IInv
  <2>5. BoundInv' /\ ClosedAnswers'
    BY <2>1, BoundStep, ClosedAnswersStep DEF IInv
  <2>6. ReplyAfterReap'
    BY ReplyAfterReapStep DEF IInv
  <2>7. ServedInv' /\ Bounded'
    BY <2>1, ServedStep, BoundedStep DEF IInv
  <2> QED
    BY <2>2, <2>3, <2>4, <2>5, <2>6, <2>7 DEF IInv
<1> QED
  BY <1>1, <1>2, ControlInvariant, PTL DEF Spec

\* No accepted call is lost and none is answered twice, whatever the order of
\* responses, timeouts, exits and aborts: a caller waits exactly while the queue or
\* a slot of the actor owns its sender.
THEOREM ReplyConservationHolds == Spec => []ReplyConservation
<1>1. IInv => ReplyConservation
  <2> SUFFICES ASSUME IInv, NEW c \in Calls
               PROVE  /\ reply[c] = "waiting" => c \in Held
                      /\ reply[c] \notin {"waiting", "abandoned"} => c \notin Held
    BY DEF ReplyConservation
  <2>1. c # None
    BY ManagerAssumption
  <2>2. c \in Held <=> c \in Queued \/ ~InNoSlot(c)
    BY <2>1 DEF Held, StreamCalls, PendingCalls, Slot, InNoSlot
  <2> QED
    BY <2>2 DEF IInv, WaitersOwned, OwnInv, QueueInv, SlotOpen, Open
<1> QED
  BY <1>1, Invariant, PTL

\* The reap barrier: an answer that says the stream of a call is over, or that the
\* manager is gone, is never given while the child concerned is unreaped.
THEOREM ReplyAfterReapHolds == Spec => []ReplyAfterReap
<1>1. IInv => ReplyAfterReap
  BY DEF IInv
<1> QED
  BY <1>1, Invariant, PTL

\* Requests and Shutdown never share an ID, and no ID in use is handed out again, up
\* to and including the exhaustion of the counter.
THEOREM RequestIdsFreshHolds == Spec => []RequestIdsFresh
<1>1. IInv => RequestIdsFresh
  BY DEF IInv
<1> QED
  BY <1>1, Invariant, PTL

\* Neither bound that callers are promised is ever exceeded: not the requests in
\* flight, whichever way some of them end while others are sent, and not the Stop
\* callers that share one shutdown.
THEOREM BoundedHolds == Spec => []Bounded
<1>1. IInv => Bounded
  BY DEF IInv
<1> QED
  BY <1>1, Invariant, PTL

\* The action that GracefulMeansComplete is about.
GracefulStopped ==
  state = "Stopping" /\ state' = "Stopped" =>
    stop.response /\ stop.eof /\ exitStatus = "ok"

LEMMA GracefulStep ==
  ASSUME ContextInv, [Next]_vars
  PROVE  GracefulStopped
<1> USE DEF clientVars, GracefulStopped
<1>1. ASSUME NEW c \in Calls, NEW o \in Operations, Submit(c, o) PROVE GracefulStopped
  BY <1>1 DEF Submit
<1>2. ASSUME NEW c \in Calls, StartRuntime(c) PROVE GracefulStopped
  BY <1>2 DEF StartRuntime, TakeCommand
<1>3. ASSUME NEW c \in Calls, StopIdle(c) PROVE GracefulStopped
  BY <1>3 DEF StopIdle, TakeCommand
<1>4. ASSUME NEW c \in Calls, StopStarting(c) PROVE GracefulStopped
  BY <1>4 DEF StopStarting
<1>5. ASSUME NEW c \in Calls, StopJoin(c) PROVE GracefulStopped
  BY <1>5 DEF StopJoin
<1>6. ASSUME NEW c \in Calls, StopConnected(c) PROVE GracefulStopped
  BY <1>6 DEF StopConnected, TakeCommand
<1>7. ASSUME NEW c \in Calls, SendRequest(c) PROVE GracefulStopped
  BY <1>7 DEF SendRequest
<1>8. ASSUME NEW c \in Calls, ReadStatus(c) PROVE GracefulStopped
  BY <1>8 DEF ReadStatus
<1>9. ASSUME SnapshotDone PROVE GracefulStopped
  BY <1>9 DEF SnapshotDone
<1>10. ASSUME DropStaleEvent PROVE GracefulStopped
  BY <1>10 DEF DropStaleEvent
<1>11. ASSUME HandleHello PROVE GracefulStopped
  BY <1>11 DEF HandleHello
<1>12. ASSUME HandleResponse PROVE GracefulStopped
  BY <1>12 DEF HandleResponse
<1>13. ASSUME HandleShutdownResponse PROVE GracefulStopped
  BY <1>13 DEF HandleShutdownResponse
<1>14. ASSUME HandleEof PROVE GracefulStopped
  BY <1>14 DEF HandleEof
<1>15. ASSUME EofWaitDone PROVE GracefulStopped
  BY <1>15 DEF EofWaitDone
<1>16. ASSUME HandleBroken PROVE GracefulStopped
  BY <1>16 DEF HandleBroken
<1>17. ASSUME HandleWriteFailure PROVE GracefulStopped
  BY <1>17 DEF HandleWriteFailure
<1>18. ASSUME StartTimeout PROVE GracefulStopped
  BY <1>18 DEF StartTimeout
<1>19. ASSUME ShutdownTimeout PROVE GracefulStopped
  BY <1>19 DEF ShutdownTimeout
<1>20. ASSUME RequestTimeout PROVE GracefulStopped
  BY <1>20 DEF RequestTimeout
<1>21. ASSUME DrainTimeout PROVE GracefulStopped
  BY <1>21 DEF DrainTimeout
<1>22. ASSUME PollProcessExit PROVE GracefulStopped
  BY <1>22 DEF PollProcessExit
<1>23. ASSUME ReapWait PROVE GracefulStopped
  BY <1>23 DEF ReapWait
<1>24. ASSUME ReapTimeout PROVE GracefulStopped
  BY <1>24 DEF ReapTimeout
<1>25. ASSUME DetachedReap PROVE GracefulStopped
  BY <1>25 DEF DetachedReap
<1>26. ASSUME BarrierWait PROVE GracefulStopped
  BY <1>26 DEF BarrierWait
<1>27. ASSUME FinishFail PROVE GracefulStopped
  BY <1>27 DEF FinishFail, FinishProcessTasks, ContextInv, InReap, NoStop
<1>28. ASSUME FinishCrash PROVE GracefulStopped
  BY <1>28 DEF FinishCrash, FinishProcessTasks, ContextInv, InReap, NoStop
<1>29. ASSUME FinishCancelStart PROVE GracefulStopped
  BY <1>29 DEF FinishCancelStart, FinishProcessTasks, ContextInv, InReap, NoStop
<1>30. ASSUME FinishGraceful PROVE GracefulStopped
  BY <1>30 DEF FinishGraceful, FinishProcessTasks, ContextInv, InReap, NoStop
<1>31. ASSUME FinishDropped PROVE GracefulStopped
  BY <1>31 DEF FinishDropped
<1>32. ASSUME ManagerDropped PROVE GracefulStopped
  BY <1>32 DEF ManagerDropped
<1>33. ASSUME Abort PROVE GracefulStopped
  BY <1>33 DEF Abort
<1>34. ASSUME AbortReap PROVE GracefulStopped
  BY <1>34 DEF AbortReap
<1>35. ASSUME AbortFinish PROVE GracefulStopped
  BY <1>35 DEF AbortFinish
<1>36. ASSUME ChildWrites PROVE GracefulStopped
  BY <1>36 DEF ChildWrites
<1>37. ASSUME StdoutEnds PROVE GracefulStopped
  BY <1>37 DEF StdoutEnds
<1>38. ASSUME StdinWrite PROVE GracefulStopped
  BY <1>38 DEF StdinWrite
<1>39. ASSUME ChildExits PROVE GracefulStopped
  BY <1>39 DEF ChildExits
<1>40. ASSUME DropManager PROVE GracefulStopped
  BY <1>40 DEF DropManager
<1>41. CASE UNCHANGED vars
  BY <1>41 DEF vars
<1> QED
  BY <1>1, <1>2, <1>3, <1>4, <1>5, <1>6, <1>7, <1>8, <1>9, <1>10, <1>11, <1>12, <1>13,
     <1>14, <1>15, <1>16, <1>17, <1>18, <1>19, <1>20, <1>21, <1>22, <1>23, <1>24,
     <1>25, <1>26, <1>27, <1>28, <1>29, <1>30, <1>31, <1>32, <1>33, <1>34, <1>35,
     <1>36, <1>37, <1>38, <1>39, <1>40, <1>41
     DEF Next, Command, HandleEvent, Deadlines, Reaping, Finish

\* A shutdown ends in Stopped only when the Shutdown response, the clean end of
\* stdout and a zero exit were all seen, in whichever order; every other way out of
\* Stopping is a failure.
THEOREM GracefulMeansCompleteHolds == Spec => GracefulMeansComplete
<1>1. ControlInv /\ [Next]_vars => GracefulStopped
  BY GracefulStep DEF ControlInv
<1>2. ControlInv /\ [Next]_vars =>
        [state = "Stopping" /\ state' = "Stopped" =>
           stop.response /\ stop.eof /\ exitStatus = "ok"]_vars
  BY <1>1 DEF GracefulStopped
<1> QED
  BY <1>2, ControlInvariant, PTL DEF Spec, GracefulMeansComplete

\* The action that StopLeavesNoChild is about.
StopReaped ==
  \A c \in Calls :
    (/\ op[c] = "Stop"
     /\ reply[c] = "waiting"
     /\ reply'[c] \notin {"waiting", "abandoned", "Rejected"})
    => \A g \in Generations : os'[g] \notin Unreaped

LEMMA StopReapedStep ==
  ASSUME ControlInv, OwnInv, [Next]_vars
  PROVE  StopReaped
<1> USE DEF clientVars, ControlInv
<1>0. reply \in [Calls -> Replies]
  BY DEF TypeOK
<1>1. ASSUME NEW c \in Calls, NEW o \in Operations, Submit(c, o) PROVE StopReaped
  BY <1>1, <1>0 DEF Submit, StopReaped
<1>2. ASSUME NEW c \in Calls, StartRuntime(c) PROVE StopReaped
  BY <1>2, <1>0 DEF StartRuntime, TakeCommand, Answer, Queries, StopReaped
<1>3. ASSUME NEW c \in Calls, StopIdle(c) PROVE StopReaped
  BY <1>3, NothingUnreaped DEF StopIdle, TakeCommand, ProcessInv, Settled, StopReaped
<1>4. ASSUME NEW c \in Calls, StopStarting(c) PROVE StopReaped
  BY <1>4 DEF StopStarting, StopReaped
<1>5. ASSUME NEW c \in Calls, StopJoin(c) PROVE StopReaped
  BY <1>5, <1>0 DEF StopJoin, TakeCommand, Answer, Queries, StopReaped
<1>6. ASSUME NEW c \in Calls, StopConnected(c) PROVE StopReaped
  BY <1>6 DEF StopConnected, StopReaped
<1>7. ASSUME NEW c \in Calls, SendRequest(c) PROVE StopReaped
  BY <1>7, <1>0 DEF SendRequest, TakeCommand, Answer, Queries, StopReaped
<1>8. ASSUME NEW c \in Calls, ReadStatus(c) PROVE StopReaped
  BY <1>8, <1>0 DEF ReadStatus, TakeCommand, Answer, Queries, StopReaped
<1>9. ASSUME SnapshotDone PROVE StopReaped
  BY <1>9, <1>0 DEF SnapshotDone, Answer, Slot, OwnInv, SlotOps, StopReaped
<1>10. ASSUME DropStaleEvent PROVE StopReaped
  BY <1>10 DEF DropStaleEvent, StopReaped
<1>11. ASSUME HandleHello PROVE StopReaped
  BY <1>11 DEF HandleHello, StopReaped
<1>12. ASSUME HandleResponse PROVE StopReaped
  <2>1. \/ UNCHANGED reply
        \/ \E i \in PendingIds, r \in {"Ok", "Remote"} : Answer({pending[i]}, r)
    BY <1>12 DEF HandleResponse
  <2> QED
    BY <1>12, <1>0, <2>1 DEF HandleResponse, Answer, OwnInv, SlotOps, Queries, StopReaped
<1>13. ASSUME HandleShutdownResponse PROVE StopReaped
  BY <1>13 DEF HandleShutdownResponse, StopReaped
<1>14. ASSUME HandleEof PROVE StopReaped
  BY <1>14 DEF HandleEof, StopReaped
<1>15. ASSUME EofWaitDone PROVE StopReaped
  BY <1>15 DEF EofWaitDone, StopReaped
<1>16. ASSUME HandleBroken PROVE StopReaped
  BY <1>16 DEF HandleBroken, StopReaped
<1>17. ASSUME HandleWriteFailure PROVE StopReaped
  BY <1>17 DEF HandleWriteFailure, StopReaped
<1>18. ASSUME StartTimeout PROVE StopReaped
  BY <1>18 DEF StartTimeout, StopReaped
<1>19. ASSUME ShutdownTimeout PROVE StopReaped
  BY <1>19 DEF ShutdownTimeout, StopReaped
<1>20. ASSUME RequestTimeout PROVE StopReaped
  BY <1>20 DEF RequestTimeout, StopReaped
<1>21. ASSUME DrainTimeout PROVE StopReaped
  BY <1>21 DEF DrainTimeout, StopReaped
<1>22. ASSUME PollProcessExit PROVE StopReaped
  BY <1>22 DEF PollProcessExit, StopReaped
<1>23. ASSUME ReapWait PROVE StopReaped
  BY <1>23 DEF ReapWait, StopReaped
<1>24. ASSUME ReapTimeout PROVE StopReaped
  BY <1>24 DEF ReapTimeout, StopReaped
<1>25. ASSUME DetachedReap PROVE StopReaped
  BY <1>25 DEF DetachedReap, StopReaped
<1>26. ASSUME BarrierWait PROVE StopReaped
  BY <1>26 DEF BarrierWait, StopReaped
<1>27. ASSUME FinishFail PROVE StopReaped
  BY <1>27, NothingUnreaped DEF FinishFail, FinishProcessTasks, ProcessInv, Settled, StopReaped
<1>28. ASSUME FinishCrash PROVE StopReaped
  BY <1>28, NothingUnreaped DEF FinishCrash, FinishProcessTasks, ProcessInv, Settled, StopReaped
<1>29. ASSUME FinishCancelStart PROVE StopReaped
  BY <1>29, NothingUnreaped DEF FinishCancelStart, FinishProcessTasks, ProcessInv, Settled, StopReaped
<1>30. ASSUME FinishGraceful PROVE StopReaped
  BY <1>30, NothingUnreaped DEF FinishGraceful, FinishProcessTasks, ProcessInv, Settled, StopReaped
<1>31. ASSUME FinishDropped PROVE StopReaped
  BY <1>31, NothingUnreaped DEF FinishDropped, FinishProcessTasks, ProcessInv, Settled, StopReaped
<1>32. ASSUME ManagerDropped PROVE StopReaped
  BY <1>32 DEF ManagerDropped, StopReaped
<1>33. ASSUME Abort PROVE StopReaped
  BY <1>33, NothingUnreaped DEF Abort, OwnsNothing, StopReaped
<1>34. ASSUME AbortReap PROVE StopReaped
  BY <1>34 DEF AbortReap, StopReaped
<1>35. ASSUME AbortFinish PROVE StopReaped
  BY <1>35, NothingUnreaped DEF AbortFinish, OwnerReaped, ProcessInv, Settled, StopReaped
<1>36. ASSUME ChildWrites PROVE StopReaped
  BY <1>36 DEF ChildWrites, StopReaped
<1>37. ASSUME StdoutEnds PROVE StopReaped
  BY <1>37 DEF StdoutEnds, StopReaped
<1>38. ASSUME StdinWrite PROVE StopReaped
  BY <1>38 DEF StdinWrite, StopReaped
<1>39. ASSUME ChildExits PROVE StopReaped
  BY <1>39 DEF ChildExits, StopReaped
<1>40. ASSUME DropManager PROVE StopReaped
  BY <1>40, <1>0 DEF DropManager, StopReaped
<1>41. CASE UNCHANGED vars
  BY <1>41 DEF vars, StopReaped
<1> QED
  BY <1>1, <1>2, <1>3, <1>4, <1>5, <1>6, <1>7, <1>8, <1>9, <1>10, <1>11, <1>12, <1>13,
     <1>14, <1>15, <1>16, <1>17, <1>18, <1>19, <1>20, <1>21, <1>22, <1>23, <1>24,
     <1>25, <1>26, <1>27, <1>28, <1>29, <1>30, <1>31, <1>32, <1>33, <1>34, <1>35,
     <1>36, <1>37, <1>38, <1>39, <1>40, <1>41
     DEF Next, Command, HandleEvent, Deadlines, Reaping, Finish

\* Whatever a Stop is answered, short of a refusal, no process of any generation is
\* left when it is answered: on the graceful path, a cancelled start, every failure
\* path and an aborted task.
THEOREM StopLeavesNoChildHolds == Spec => StopLeavesNoChild
<1>1. IInv /\ [Next]_vars => StopReaped
  BY StopReapedStep DEF IInv
<1>2. IInv /\ [Next]_vars =>
        [\A c \in Calls :
           (/\ op[c] = "Stop"
            /\ reply[c] = "waiting"
            /\ reply'[c] \notin {"waiting", "abandoned", "Rejected"})
           => \A g \in Generations : os'[g] \notin Unreaped]_vars
  BY <1>1 DEF StopReaped
<1> QED
  BY <1>2, Invariant, PTL DEF Spec, StopLeavesNoChild

-----------------------------------------------------------------------------
(* The actor implements RuntimeService *)

ServiceStep == [Service!Next]_(Service!serviceVars)

\* The mapped child is a Boolean.
LEMMA ChildUnreapedTyped == ChildUnreaped \in BOOLEAN /\ ChildUnreaped' \in BOOLEAN
BY DEF ChildUnreaped

\* What the service does not see: a step that changes no state and no answer, and
\* leaves every child as it is.
LEMMA Unseen ==
  ASSUME UNCHANGED <<state, generation, op, reply, os>>,
         phase' = phase \/ (phase # "closed" /\ phase' # "closed")
  PROVE  ServiceStep
<1>1. ChildUnreaped' = ChildUnreaped
  BY DEF ChildUnreaped
<1>2. (phase = "closed")' = (phase = "closed")
  OBVIOUS
<1> QED
  BY <1>1, <1>2 DEF ServiceStep, Service!serviceVars

\* An await of reap_process is never the end of the task.
LEMMA BeginReapOpen ==
  ASSUME NEW k, NEW e, BeginReap(k, e)
  PROVE  phase' # "closed"
BY DEF BeginReap

LEMMA TryCompleteOpen ==
  ASSUME NEW s, NEW e, TryCompleteShutdown(s, e), phase # "closed"
  PROVE  phase' # "closed"
BY BeginReapOpen DEF TryCompleteShutdown, controlVars

\* The service sees a child go when its exit is collected.
LEMMA CollectExitReaped ==
  ASSUME TypeOK, NoOrphan, CollectExit, UNCHANGED <<state, generation, op, reply>>,
         phase' = phase \/ (phase # "closed" /\ phase' # "closed")
  PROVE  ServiceStep
<1>1. ~ChildUnreaped'
  BY CollectExitReaps DEF ChildUnreaped
<1>2. (phase = "closed")' = (phase = "closed")
  OBVIOUS
<1>3. CASE ChildUnreaped
  <2>1. Service!Reaped
    BY <1>1, <1>2, <1>3, ChildUnreapedTyped DEF Service!Reaped
  <2> QED
    BY <2>1 DEF ServiceStep, Service!Next
<1>4. CASE ~ChildUnreaped
  <2>1. ChildUnreaped' = ChildUnreaped
    BY <1>1, <1>4, ChildUnreapedTyped
  <2> QED
    BY <1>2, <2>1 DEF ServiceStep, Service!serviceVars
<1> QED
  BY <1>3, <1>4

\* Answering one open call.
LEMMA AnswerOne ==
  ASSUME TypeOK, NEW c \in Calls, Open(c), NEW r, Answer({c}, r)
  PROVE  Service!Reply(c, r)
BY DEF TypeOK, Open, Answer, Service!Reply

\* The actor begins where the service does.
LEMMA InitService == Init => Service!Init
<1> SUFFICES ASSUME Init PROVE Service!Init
  OBVIOUS
<1>1. ~ChildUnreaped
  BY DEF Init, ChildUnreaped, Unreaped
<1>2. ChildUnreaped = FALSE
  BY <1>1
<1> QED
  BY <1>2 DEF Init, Service!Init
\* A step that touches no child and leaves the actor running.
LEMMA Undisturbed ==
  ASSUME UNCHANGED os, phase # "closed", phase' # "closed"
  PROVE  /\ ChildUnreaped' = ChildUnreaped
         /\ (phase = "closed") = FALSE /\ (phase = "closed")' = FALSE
BY DEF ChildUnreaped

\* An answer that the service calls a response.
LEMMA Responds ==
  ASSUME TypeOK, NEW c \in Calls, Open(c), NEW r, Answer({c}, r),
         UNCHANGED <<state, generation, op, os>>, phase # "closed", phase' # "closed",
         \/ op[c] \in Queries /\ r = "Rejected"
         \/ op[c] \in Queries /\ state \in {"Connected", "Stopping"} /\ r \in {"Ok", "Remote"}
         \/ op[c] = "Start" /\ state = "Connected" /\ r = "Ok"
         \/ /\ op[c] = "Start" /\ r = "Rejected"
            /\ state \notin {"Stopped", "Crashed", "Error"} \/ generation = MaxGeneration
         \/ op[c] = "Stop" /\ state = "Stopping" /\ r = "Rejected" /\ Service!OthersFillWaiters(c)
         \/ op[c] \in {"Status", "NotEvaluated"} /\ r = "Ok"
  PROVE  ServiceStep
<1>1. Service!Reply(c, r)
  BY AnswerOne
<1>2. Service!Respond(c)
  BY <1>1, Undisturbed DEF Service!Respond, Service!Idle, Queries
<1> QED
  BY <1>2 DEF ServiceStep, Service!Next

\* Without a process there is no child.
LEMMA NoChild ==
  ASSUME NoOrphan, ~hasProcess \/ exitStatus # "unknown"
  PROVE  ChildUnreaped = FALSE
<1>1. ~ChildUnreaped
  BY NothingUnreaped DEF ChildUnreaped
<1> QED
  BY <1>1, ChildUnreapedTyped

\* The end of a stream in state s, with the answers of S.
LEMMA Settles ==
  ASSUME TypeOK, NoOrphan, exitStatus # "unknown",
         UNCHANGED <<generation, op, os>>, phase # "closed", phase' # "closed",
         state \in {"Starting", "Connected", "Stopping"},
         state' \in Service!Outcomes,
         NEW S \in SUBSET Service!Waiting,
         reply' = [c \in Calls |-> IF c \in S THEN Service!Verdict(op[c], state') ELSE reply[c]]
  PROVE  ServiceStep
<1>1. ChildUnreaped = FALSE
  BY NoChild
<1>2. Service!SettledIn(state')
  BY Undisturbed DEF Service!SettledIn, Service!Active
<1>3. Service!Settle
  BY <1>1, <1>2 DEF Service!Settle
<1> QED
  BY <1>3 DEF ServiceStep, Service!Next

\* The end of the task: S is told what it asked, everybody else that it is over.
LEMMA Closes ==
  ASSUME TypeOK, NoOrphan, ~hasProcess \/ exitStatus # "unknown",
         UNCHANGED <<state, generation, op, os>>, phase # "closed", phase' = "closed",
         NEW S \in SUBSET {c \in Calls : reply[c] = "waiting" /\ op[c] = "NotEvaluated"},
         reply' = [c \in Calls |-> IF c \in S THEN "Ok"
                                   ELSE IF reply[c] = "waiting" THEN "Closed" ELSE reply[c]]
  PROVE  ServiceStep
<1>1. ChildUnreaped = FALSE /\ ChildUnreaped' = ChildUnreaped
  BY NoChild DEF ChildUnreaped
<1>2. (phase = "closed") = FALSE /\ (phase = "closed")' = TRUE
  OBVIOUS
<1>3. Service!Close
  BY <1>1, <1>2 DEF Service!Close, Service!Waiting
<1> QED
  BY <1>3 DEF ServiceStep, Service!Next

\* The same where no status is still to be told.
LEMMA ClosesOn ==
  ASSUME TypeOK, NoOrphan, ~hasProcess \/ exitStatus # "unknown",
         UNCHANGED <<state, generation, op, os>>, phase # "closed", phase' = "closed",
         reply' = [c \in Calls |-> IF reply[c] = "waiting" THEN "Closed" ELSE reply[c]]
  PROVE  ServiceStep
<1>1. {} \in SUBSET {c \in Calls : reply[c] = "waiting" /\ op[c] = "NotEvaluated"}
  OBVIOUS
<1>2. reply' = [c \in Calls |-> IF c \in {} THEN "Ok"
                               ELSE IF reply[c] = "waiting" THEN "Closed" ELSE reply[c]]
  OBVIOUS
<1> QED
  BY <1>1, <1>2, Closes

\* Every step of the actor is one of the service, or none.
LEMMA ServiceStepHolds ==
  ASSUME IInv, [Next]_vars
  PROVE  ServiceStep
<1> USE DEF clientVars
<1>0. /\ TypeOK /\ NoOrphan /\ ProcessInv /\ ContextInv
      /\ QueueInv /\ SlotOps /\ SlotOpen /\ NoDuplicates /\ ServedInv
  BY DEF IInv, ControlInv, OwnInv
<1>a. /\ stop.waiters \subseteq Calls /\ Queued \subseteq Calls
      /\ reply \in [Calls -> Replies] /\ pending \in [Ids -> Calls \cup {None}]
  BY <1>0, OwnTypes
<1>b. ASSUME NEW c, NEW o, TakeCommand(c, o)
      PROVE  c \in Calls /\ Open(c) /\ InNoSlot(c) /\ op[c] = o /\ phase = "select"
  BY <1>0, <1>b, TakeCommandQueue DEF QueueInv, TakeCommand
<1>1. ASSUME NEW c \in Calls, NEW o \in Operations, Submit(c, o) PROVE ServiceStep
  <2>1. ChildUnreaped' = ChildUnreaped /\ (phase = "closed")' = (phase = "closed")
    BY <1>1 DEF Submit, controlVars, ChildUnreaped
  <2>2. Service!Submit(c, o)
    BY <1>1, <2>1 DEF Submit, Service!Submit
  <2> QED
    BY <2>2 DEF ServiceStep, Service!Next
<1>2. ASSUME NEW c \in Calls, StartRuntime(c) PROVE ServiceStep
  <2>1. TakeCommand(c, "Start") /\ phase' = phase /\ op' = op
    BY <1>2 DEF StartRuntime, controlVars
  <2>2. Open(c) /\ op[c] = "Start" /\ phase = "select"
    BY <1>b, <2>1
  <2>3. CASE /\ generation = MaxGeneration \/ state \notin {"Stopped", "Crashed", "Error"}
             /\ Answer({c}, "Rejected")
             /\ UNCHANGED <<state, generation, os>>
    BY <1>0, <2>1, <2>2, <2>3, Responds
  <2>4. CASE /\ generation < MaxGeneration /\ state \in {"Stopped", "Crashed", "Error"}
             /\ generation' = generation + 1
    <3>1. ChildUnreaped = FALSE /\ (phase = "closed") = FALSE /\ (phase = "closed")' = FALSE
      BY <1>0, <2>1, <2>2, <2>4, NoChild DEF ProcessInv, Settled
    <3>2. Service!CanLaunch
      BY <2>4, <3>1 DEF Service!CanLaunch, Service!Idle
    <3>3. CASE state' = "Starting" /\ Spawned(generation') /\ UNCHANGED reply
      <4>1. generation + 1 \in Generations
        BY <1>0, <2>4, ManagerAssumption DEF TypeOK, Generations
      <4>2. ChildUnreaped'
        BY <1>0, <2>4, <3>3, <4>1 DEF TypeOK, Spawned, ChildUnreaped, Unreaped
      <4>3. ChildUnreaped' = TRUE
        BY <4>2, ChildUnreapedTyped
      <4>4. Service!Asked("Start") # {}
        BY <2>2 DEF Service!Asked, Open
      <4>5. Service!Launch
        BY <2>1, <2>4, <3>1, <3>2, <3>3, <4>3, <4>4 DEF Service!Launch
      <4> QED
        BY <4>5 DEF ServiceStep, Service!Next
    <3>4. CASE state' = "Error" /\ Answer({c}, "Failed") /\ UNCHANGED os
      <4>1. Service!Reply(c, "Failed")
        BY <1>0, <2>2, <3>4, AnswerOne
      <4>2. ChildUnreaped' = ChildUnreaped
        BY <3>4 DEF ChildUnreaped
      <4>3. Service!LaunchFails(c)
        BY <2>1, <2>2, <2>4, <3>1, <3>2, <3>4, <4>1, <4>2 DEF Service!LaunchFails
      <4> QED
        BY <4>3 DEF ServiceStep, Service!Next
    <3> QED
      BY <1>2, <2>4, <3>3, <3>4 DEF StartRuntime
  <2> QED
    BY <1>2, <2>3, <2>4 DEF StartRuntime
<1>3. ASSUME NEW c \in Calls, StopIdle(c) PROVE ServiceStep
  <2>1. Open(c) /\ op[c] = "Stop" /\ phase = "select" /\ phase' = phase
    BY <1>3, <1>b DEF StopIdle, controlVars
  <2>2. ChildUnreaped = FALSE /\ ChildUnreaped' = ChildUnreaped
    BY <1>3, <1>0, <2>1, NoChild DEF StopIdle, ProcessInv, Settled, ChildUnreaped
  <2>3. Service!Reply(c, "Ok")
    BY <1>3, <1>0, <2>1, AnswerOne DEF StopIdle
  <2>4. Service!Acknowledge(c)
    BY <1>3, <2>1, <2>2, <2>3 DEF StopIdle, Service!Acknowledge, Service!Idle
  <2> QED
    BY <2>4 DEF ServiceStep, Service!Next
<1>4. ASSUME NEW c \in Calls, StopStarting(c) PROVE ServiceStep
  BY <1>4, <1>b, Unseen, BeginReapOpen DEF StopStarting, processVars
<1>5. ASSUME NEW c \in Calls, StopJoin(c) PROVE ServiceStep
  <2>1. Open(c) /\ InNoSlot(c) /\ op[c] = "Stop" /\ phase = "select" /\ phase' = phase
    BY <1>5, <1>b DEF StopJoin, controlVars
  <2>2. CASE UNCHANGED reply
    BY <1>5, <2>1, <2>2, Unseen DEF StopJoin
  <2>3. CASE WaitersFull /\ Answer({c}, "Rejected")
    <3>1. stop.waiters \subseteq Service!Asked("Stop") \ {c}
      BY <1>0, <1>a, <2>1 DEF SlotOps, SlotOpen, InNoSlot, Open, Service!Asked
    <3>2. IsFiniteSet(Service!Asked("Stop") \ {c})
      BY ManagerAssumption, FS_Subset DEF Service!Asked
    <3>3. /\ Cardinality(stop.waiters) <= Cardinality(Service!Asked("Stop") \ {c})
          /\ Cardinality(stop.waiters) \in Nat
          /\ Cardinality(Service!Asked("Stop") \ {c}) \in Nat
      BY <3>1, <3>2, FS_Subset, FS_CardinalityType
    <3>4. Service!OthersFillWaiters(c)
      <4>1. MaxWaiters \in Nat
        BY ManagerAssumption DEF MaxWaiters
      <4>2. Cardinality(Service!Asked("Stop") \ {c}) >= MaxWaiters
        BY <2>3, <3>3, <4>1 DEF WaitersFull
      <4> QED
        BY <4>2 DEF Service!OthersFillWaiters, Service!Cardinality, Cardinality
    <3> QED
      BY <1>5, <1>0, <2>1, <2>3, <3>4, Responds DEF StopJoin
  <2> QED
    BY <1>5, <2>2, <2>3 DEF StopJoin
<1>6. ASSUME NEW c \in Calls, StopConnected(c) PROVE ServiceStep
  <2>1. Open(c) /\ op[c] = "Stop" /\ phase = "select" /\ c \in Calls
    BY <1>6, <1>b DEF StopConnected
  <2>2. phase' # "closed"
    BY <1>6, <2>1, BeginReapOpen DEF StopConnected, controlVars
  <2>3. Service!Asked("Stop") # {}
    BY <2>1 DEF Service!Asked, Open
  <2>4. Service!Advance
    BY <1>6, <2>1, <2>2, <2>3, Undisturbed DEF StopConnected, Service!Advance
  <2> QED
    BY <2>4 DEF ServiceStep, Service!Next
<1>7. ASSUME NEW c \in Calls, SendRequest(c) PROVE ServiceStep
  <2>1. Open(c) /\ op[c] \in Queries /\ phase = "select"
    BY <1>7, <1>b DEF SendRequest
  <2>2. phase' # "closed"
    BY <1>7, <2>1, BeginReapOpen DEF SendRequest, controlVars
  <2>3. CASE UNCHANGED reply
    BY <1>7, <2>1, <2>2, <2>3, Unseen DEF SendRequest
  <2>4. CASE Answer({c}, "Rejected")
    BY <1>7, <1>0, <2>1, <2>2, <2>4, Responds DEF SendRequest
  <2> QED
    BY <1>7, <2>3, <2>4 DEF SendRequest
<1>8. ASSUME NEW c \in Calls, ReadStatus(c) PROVE ServiceStep
  <2>1. Open(c) /\ op[c] \in {"Status", "NotEvaluated"} /\ phase = "select"
    BY <1>8, <1>b DEF ReadStatus
  <2>2. phase' # "closed"
    BY <1>8, <2>1 DEF ReadStatus, controlVars
  <2>3. CASE UNCHANGED reply
    BY <1>8, <2>1, <2>2, <2>3, Unseen DEF ReadStatus
  <2>4. CASE Answer({c}, "Ok")
    BY <1>8, <1>0, <2>1, <2>2, <2>4, Responds DEF ReadStatus
  <2> QED
    BY <1>8, <2>3, <2>4 DEF ReadStatus
<1>9. ASSUME SnapshotDone PROVE ServiceStep
  <2>1. phase = "snapshot" /\ phase' = "select" /\ UNCHANGED <<state, generation, op, os>>
    BY <1>9 DEF SnapshotDone
  <2>2. CASE activeStatus # None
    <3>1. Answer({activeStatus}, "Ok") /\ activeStatus \in Calls
      BY <1>9, <1>0, <2>2 DEF SnapshotDone, TypeOK
    <3>2. op[activeStatus] = "Status" /\ Open(activeStatus)
      BY <1>0, <2>2, <3>1 DEF SlotOps, SlotOpen, InNoSlot
    <3> QED
      BY <1>0, <2>1, <3>1, <3>2, Responds
  <2>3. CASE activeStatus = None /\ start # None
    <3>1. Answer({start}, "Ok") /\ start \in Calls
      BY <1>9, <1>0, <2>3 DEF SnapshotDone, TypeOK, Slot
    <3>2. op[start] = "Start" /\ Open(start)
      BY <1>0, <2>3, <3>1 DEF SlotOps, SlotOpen, InNoSlot
    <3>3. state = "Connected"
      BY <1>0, <2>1, <2>3 DEF ContextInv, Settled
    <3> QED
      BY <1>0, <2>1, <3>1, <3>2, <3>3, Responds
  <2>4. CASE activeStatus = None /\ start = None
    <3>1. UNCHANGED reply
      BY <1>9, <1>a, <2>4 DEF SnapshotDone, Slot, Answer
    <3> QED
      BY <2>1, <3>1, Unseen
  <2> QED
    BY <2>2, <2>3, <2>4
<1>10. ASSUME DropStaleEvent PROVE ServiceStep
  BY <1>10, Unseen DEF DropStaleEvent, controlVars
<1>11. ASSUME HandleHello PROVE ServiceStep
  <2>1. phase = "select" /\ phase' # "closed" /\ UNCHANGED <<generation, op, reply, os>>
    BY <1>11, BeginReapOpen DEF HandleHello, TakeEvent
  <2>2. CASE UNCHANGED state
    BY <2>1, <2>2, Unseen
  <2>3. CASE state = "Starting" /\ state' = "Connected"
    <3>1. Service!Advance
      BY <2>1, <2>3, Undisturbed DEF Service!Advance
    <3> QED
      BY <3>1 DEF ServiceStep, Service!Next
  <2> QED
    BY <1>11, <2>2, <2>3 DEF HandleHello
<1>12. ASSUME HandleResponse PROVE ServiceStep
  <2>1. /\ phase = "select" /\ phase' # "closed"
        /\ UNCHANGED <<state, generation, op, os>>
    BY <1>12, BeginReapOpen DEF HandleResponse, TakeEvent, controlVars
  <2>2. CASE UNCHANGED reply
    BY <2>1, <2>2, Unseen
  <2>3. ASSUME NEW i \in PendingIds, NEW r \in {"Ok", "Remote"}, Answer({pending[i]}, r)
        PROVE  ServiceStep
    <3>1. pending[i] \in Calls
      BY <1>a, <2>3 DEF PendingIds
    <3>2. op[pending[i]] \in Queries /\ Open(pending[i])
      BY <1>0, <2>3, <3>1 DEF SlotOps, SlotOpen, InNoSlot
    <3>3. state \in {"Connected", "Stopping"}
      BY <1>0, <2>1, <2>3 DEF ContextInv, Settled
    <3> QED
      BY <1>0, <2>1, <2>3, <3>1, <3>2, <3>3, Responds
  <2> QED
    BY <1>12, <2>2, <2>3 DEF HandleResponse
<1>13. ASSUME HandleShutdownResponse PROVE ServiceStep
  <2>1. phase = "select" /\ phase' # "closed"
    BY <1>13, BeginReapOpen, TryCompleteOpen DEF HandleShutdownResponse, TakeEvent
  <2> QED
    BY <1>13, <2>1, Unseen DEF HandleShutdownResponse
<1>14. ASSUME HandleEof PROVE ServiceStep
  <2>1. phase = "select" /\ phase' # "closed"
    BY <1>14, BeginReapOpen, TryCompleteOpen DEF HandleEof, TakeEvent
  <2> QED
    BY <1>14, <2>1, Unseen DEF HandleEof
<1>15. ASSUME EofWaitDone PROVE ServiceStep
  <2>1. phase = "eofWait" /\ phase' # "closed"
    BY <1>15, BeginReapOpen DEF EofWaitDone
  <2> QED
    BY <1>15, <1>0, <2>1, Unseen, CollectExitReaped DEF EofWaitDone
<1>16. ASSUME HandleBroken PROVE ServiceStep
  BY <1>16, BeginReapOpen, Unseen DEF HandleBroken, TakeEvent
<1>17. ASSUME HandleWriteFailure PROVE ServiceStep
  BY <1>17, BeginReapOpen, Unseen DEF HandleWriteFailure, TakeEvent
<1>18. ASSUME StartTimeout PROVE ServiceStep
  BY <1>18, BeginReapOpen, Unseen DEF StartTimeout
<1>19. ASSUME ShutdownTimeout PROVE ServiceStep
  BY <1>19, BeginReapOpen, Unseen DEF ShutdownTimeout
<1>20. ASSUME RequestTimeout PROVE ServiceStep
  BY <1>20, BeginReapOpen, Unseen DEF RequestTimeout
<1>21. ASSUME DrainTimeout PROVE ServiceStep
  BY <1>21, BeginReapOpen, Unseen DEF DrainTimeout
<1>22. ASSUME PollProcessExit PROVE ServiceStep
  <2>1. phase = "select" /\ phase' # "closed"
    BY <1>22, BeginReapOpen, TryCompleteOpen DEF PollProcessExit, controlVars
  <2> QED
    BY <1>22, <1>0, <2>1, Unseen, CollectExitReaped DEF PollProcessExit
<1>23. ASSUME ReapWait PROVE ServiceStep
  BY <1>23, <1>0, CollectExitReaped DEF ReapWait
<1>24. ASSUME ReapTimeout PROVE ServiceStep
  BY <1>24, Unseen DEF ReapTimeout
<1>25. ASSUME DetachedReap PROVE ServiceStep
  BY <1>25, <1>0, CollectExitReaped DEF DetachedReap
<1>26. ASSUME BarrierWait PROVE ServiceStep
  BY <1>26, Unseen DEF BarrierWait
<1>27. ASSUME FinishFail PROVE ServiceStep
  <2>1. /\ phase = "drain" /\ phase' = "select" /\ exitStatus # "unknown"
        /\ UNCHANGED <<generation, op, os>>
        /\ state \in {"Starting", "Connected", "Stopping"}
    BY <1>27, <1>0 DEF FinishFail, FinishProcessTasks, ProcessInv, ServedInv, InReap
  <2>3. state' \in Service!Outcomes
    BY <1>27 DEF FinishFail, Service!Outcomes, Service!Idle
  <2>4. /\ StreamCalls \cap Service!Waiting \in SUBSET Service!Waiting
        /\ reply' = [c \in Calls |->
                       IF c \in StreamCalls \cap Service!Waiting
                       THEN Service!Verdict(op[c], state') ELSE reply[c]]
    BY <1>27 DEF FinishFail, Answer, Service!Waiting, Service!Verdict
  <2> QED
    BY <1>0, <2>1, <2>3, <2>4, Settles
<1>28. ASSUME FinishCrash PROVE ServiceStep
  <2>1. /\ phase = "drain" /\ phase' = "select" /\ exitStatus # "unknown"
        /\ UNCHANGED <<generation, op, os>>
        /\ state \in {"Starting", "Connected", "Stopping"}
    BY <1>28, <1>0 DEF FinishCrash, FinishProcessTasks, ProcessInv, ServedInv, InReap
  <2>3. state' \in Service!Outcomes
    BY <1>28 DEF FinishCrash, Service!Outcomes, Service!Idle
  <2>4. /\ (PendingCalls \cup Slot(start) \cup stop.waiters) \cap Service!Waiting \in SUBSET Service!Waiting
        /\ reply' = [c \in Calls |->
                       IF c \in (PendingCalls \cup Slot(start) \cup stop.waiters) \cap Service!Waiting
                       THEN Service!Verdict(op[c], state') ELSE reply[c]]
    BY <1>28 DEF FinishCrash, Answer, Service!Waiting, Service!Verdict
  <2> QED
    BY <1>0, <2>1, <2>3, <2>4, Settles
<1>29. ASSUME FinishCancelStart PROVE ServiceStep
  <2>1. /\ phase = "drain" /\ phase' = "select" /\ exitStatus # "unknown"
        /\ UNCHANGED <<generation, op, os>>
        /\ state \in {"Starting", "Connected", "Stopping"}
    BY <1>29, <1>0 DEF FinishCancelStart, FinishProcessTasks, ProcessInv, ServedInv, InReap
  <2>2. /\ deferredStop \in Calls /\ deferredStop # None /\ state = "Starting"
        /\ op[deferredStop] = "Stop" /\ Open(deferredStop)
    BY <1>29, <1>0, <2>1
       DEF FinishCancelStart, ServedInv, InReap, ContextInv, TypeOK, SlotOps, SlotOpen, InNoSlot
  <2>3. state' \in Service!Outcomes
    BY <1>29, <2>2 DEF FinishCancelStart, Service!Outcomes, Service!Idle, Service!Asked, Open
  <2>4. /\ (Slot(start) \cup Slot(deferredStop)) \cap Service!Waiting \in SUBSET Service!Waiting
        /\ reply' = [c \in Calls |->
                       IF c \in (Slot(start) \cup Slot(deferredStop)) \cap Service!Waiting
                       THEN Service!Verdict(op[c], state') ELSE reply[c]]
    BY <1>29, <1>0 DEF FinishCancelStart, Answer2, Slot, SlotOps, Service!Waiting, Service!Verdict
  <2> QED
    BY <1>0, <2>1, <2>3, <2>4, Settles
<1>30. ASSUME FinishGraceful PROVE ServiceStep
  <2>1. /\ phase = "drain" /\ phase' = "select" /\ exitStatus # "unknown"
        /\ UNCHANGED <<generation, op, os>>
        /\ state \in {"Starting", "Connected", "Stopping"}
    BY <1>30, <1>0 DEF FinishGraceful, FinishProcessTasks, ProcessInv, ServedInv, InReap
  <2>2. state = "Stopping" /\ \E c \in Calls : op[c] = "Stop" /\ Open(c)
    <3>1. state = "Stopping" /\ stop.response
      BY <1>30, <1>0, <2>1 DEF FinishGraceful, ContextInv, InReap
    <3>2. stop.waiters # {}
      BY <1>0, <3>1 DEF ContextInv, ServedInv, NoStop
    <3> QED
      BY <1>0, <1>a, <3>1, <3>2 DEF SlotOps, SlotOpen, InNoSlot
  <2>3. state' \in Service!Outcomes
    BY <1>30, <2>2 DEF FinishGraceful, Service!Outcomes, Service!Idle, Service!Asked, Open
  <2>4. /\ (PendingCalls \cup stop.waiters) \cap Service!Waiting \in SUBSET Service!Waiting
        /\ reply' = [c \in Calls |->
                       IF c \in (PendingCalls \cup stop.waiters) \cap Service!Waiting
                       THEN Service!Verdict(op[c], state') ELSE reply[c]]
    BY <1>30, <1>0 DEF FinishGraceful, Answer2, PendingCalls, SlotOps, Queries, Service!Waiting, Service!Verdict
  <2> QED
    BY <1>0, <2>1, <2>3, <2>4, Settles
<1>31. ASSUME FinishDropped PROVE ServiceStep
  <2>1. /\ phase = "drain" /\ phase' = "closed" /\ exitStatus # "unknown"
        /\ UNCHANGED <<state, generation, op, os>>
    BY <1>31, <1>0 DEF FinishDropped, FinishProcessTasks, ProcessInv
  <2>2. \A c \in Calls : reply[c] # "waiting"
    BY <1>31, <1>0, <2>1 DEF FinishDropped, ContextInv, ServedInv, InReap
  <2>3. reply' = [c \in Calls |-> IF reply[c] = "waiting" THEN "Closed" ELSE reply[c]]
    BY <1>31, <2>2 DEF FinishDropped, Answer
  <2> QED
    BY <1>0, <2>1, <2>3, ClosesOn
<1>32. ASSUME ManagerDropped PROVE ServiceStep
  <2>1. phase = "select" /\ UNCHANGED <<state, generation, op, reply, os>>
    BY <1>32 DEF ManagerDropped
  <2>2. CASE hasProcess
    BY <1>32, <2>1, <2>2, Unseen, BeginReapOpen DEF ManagerDropped
  <2>3. CASE ~hasProcess /\ phase' = "closed"
    <3>1. \A c \in Calls : reply[c] # "waiting"
      BY <1>0, <1>32 DEF ManagerDropped, ServedInv
    <3>2. reply' = [c \in Calls |-> IF reply[c] = "waiting" THEN "Closed" ELSE reply[c]]
      BY <1>a, <2>1, <3>1
    <3> QED
      BY <1>0, <2>1, <2>3, <3>2, ClosesOn
  <2> QED
    BY <1>32, <2>2, <2>3 DEF ManagerDropped
<1>33. ASSUME Abort PROVE ServiceStep
  <2>1. phase # "closed" /\ UNCHANGED <<state, generation, op, os>>
    BY <1>33 DEF Abort
  <2>2. CASE OwnsNothing
    <3>1. \A c \in Calls : reply[c] = "waiting" => c \in Queued
      <4> SUFFICES ASSUME NEW c \in Calls, reply[c] = "waiting" PROVE c \in Queued
        OBVIOUS
      <4>1. InNoSlot(c)
        BY <2>2, ManagerAssumption
           DEF OwnsNothing, StreamCalls, PendingCalls, Slot, InNoSlot
      <4> QED
        BY <4>1 DEF IInv, WaitersOwned
    <3>2. reply' = [c \in Calls |-> IF reply[c] = "waiting" THEN "Closed" ELSE reply[c]]
      BY <1>33, <2>2, <3>1 DEF Abort, Answer
    <3>3. ~hasProcess /\ phase' = "closed"
      BY <1>33, <2>2 DEF Abort, OwnsNothing
    <3> QED
      BY <1>0, <2>1, <3>2, <3>3, ClosesOn
  <2>3. CASE ~OwnsNothing
    BY <1>33, <2>1, <2>3, Unseen DEF Abort
  <2> QED
    BY <2>2, <2>3
<1>34. ASSUME AbortReap PROVE ServiceStep
  BY <1>34, <1>0, CollectExitReaped DEF AbortReap, controlVars
<1>35. ASSUME AbortFinish PROVE ServiceStep
  <2> DEFINE evaluated == {c \in Queued : op[c] = "NotEvaluated" /\ reply[c] = "waiting"}
  <2>1. /\ phase = "aborted" /\ phase' = "closed"
        /\ UNCHANGED <<state, generation, op, os>>
        /\ ~hasProcess \/ exitStatus # "unknown"
    BY <1>35, <1>0 DEF AbortFinish, OwnerReaped, ProcessInv
  <2>2. \A c \in Calls : reply[c] = "waiting" =>
          c \in Queued \/ c \in StreamCalls \/ c \in Slot(activeStatus)
    BY ManagerAssumption
       DEF IInv, WaitersOwned, InNoSlot, StreamCalls, PendingCalls, Slot
  <2>3. reply' = [c \in Calls |-> IF c \in evaluated THEN "Ok"
                                 ELSE IF reply[c] = "waiting" THEN "Closed" ELSE reply[c]]
    BY <1>35, <2>2 DEF AbortFinish, Answer2
  <2>4. evaluated \in SUBSET {c \in Calls : reply[c] = "waiting" /\ op[c] = "NotEvaluated"}
    BY <1>a
  <2> QED
    BY <1>0, <2>1, <2>3, <2>4, Closes
<1>36. ASSUME ChildWrites PROVE ServiceStep
  BY <1>36, Unseen DEF ChildWrites, controlVars
<1>37. ASSUME StdoutEnds PROVE ServiceStep
  BY <1>37, Unseen DEF StdoutEnds, controlVars
<1>38. ASSUME StdinWrite PROVE ServiceStep
  BY <1>38, Unseen DEF StdinWrite, controlVars
<1>39. ASSUME ChildExits PROVE ServiceStep
  <2>1. ChildUnreaped' = ChildUnreaped
    BY <1>39, <1>0 DEF ChildExits, ChildUnreaped, TypeOK, Unreaped
  <2> QED
    BY <1>39, <2>1 DEF ChildExits, controlVars, ServiceStep, Service!serviceVars
<1>40. ASSUME DropManager PROVE ServiceStep
  <2>1. ChildUnreaped' = ChildUnreaped /\ (phase = "closed")' = (phase = "closed")
    BY <1>40 DEF DropManager, controlVars, ChildUnreaped
  <2>2. Service!Abandon
    BY <1>40, <2>1 DEF DropManager, Service!Abandon, Service!Waiting
  <2> QED
    BY <2>2 DEF ServiceStep, Service!Next
<1>41. CASE UNCHANGED vars
  BY <1>41, Unseen DEF vars
<1> QED
  BY <1>1, <1>2, <1>3, <1>4, <1>5, <1>6, <1>7, <1>8, <1>9, <1>10, <1>11, <1>12, <1>13,
     <1>14, <1>15, <1>16, <1>17, <1>18, <1>19, <1>20, <1>21, <1>22, <1>23, <1>24,
     <1>25, <1>26, <1>27, <1>28, <1>29, <1>30, <1>31, <1>32, <1>33, <1>34, <1>35,
     <1>36, <1>37, <1>38, <1>39, <1>40, <1>41
     DEF Next, Command, HandleEvent, Deadlines, Reaping, Finish

\* The actor implements the service for every number of callers, every bound and
\* every range of generations and request IDs: each handler, each await, each fault
\* and the abort of the task is one step of the service or none.
THEOREM ImplementsServiceHolds == Spec => ImplementsService
<1>1. IInv /\ [Next]_vars => [Service!Next]_(Service!serviceVars)
  BY ServiceStepHolds DEF ServiceStep
<1> QED
  BY <1>1, InitService, Invariant, PTL DEF Spec, ImplementsService, Service!Spec

=============================================================================
