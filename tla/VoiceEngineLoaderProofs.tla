----------------------- MODULE VoiceEngineLoaderProofs -----------------------
(***************************************************************************)
(* The library is unloaded exactly when nothing needs it, for every number *)
(* of engines.  The invariant says which references keep the module, which *)
(* stage of an instance a call of the plugin belongs to, and that in_flight*)
(* is the number of those calls; so whoever drops the last reference finds *)
(* no call running, and no engine that the module was not told of.         *)
(***************************************************************************)
EXTENDS VoiceEngineLoader, FiniteSetTheorems, TLAPS

Types ==
  /\ load \in {"start", "opened", "done", "failed"}
  /\ guard \in BOOLEAN /\ native \in BOOLEAN
  /\ module \in {"none", "alive", "destroyed"}
  /\ owner \in BOOLEAN /\ abandoned \in BOOLEAN
  /\ wrapper \in [Instances -> Wrappers]
  /\ handle \in [Instances -> BOOLEAN]
  /\ inside \subseteq Instances \X Kinds

\* in_flight_ counts the calls that run the plugin.
FlightInv == IsFiniteSet(inside) /\ inFlight = Cardinality(inside)

\* Who has the library, at each point of its life.
LibraryInv ==
  /\ load \in {"start", "failed"} => mapped = 0
  /\ load = "opened" => mapped = 1
  /\ load # "done" => module = "none"
  /\ load = "done" => module # "none"
  /\ module = "alive" => mapped = 1
  /\ module = "destroyed" => mapped = IF \E i \in Instances : handle[i] THEN 1 ELSE 0

\* What the module is alive for.
ReferenceInv ==
  /\ module = "alive" <=> owner \/ \E i \in Instances : HoldsModule(i)
  /\ Creating => owner
  /\ module = "none" => \A i \in Instances : wrapper[i] = "none"

\* Where the plugin has an engine.
EngineInv ==
  /\ \A i \in Instances :
       /\ wrapper[i] \in {"unwrapped", "live", "destroying"} => handle[i]
       /\ wrapper[i] \in {"none", "creating", "spent"} => ~handle[i]
       /\ wrapper[i] \in {"leaving", "gone"} /\ handle[i] => abandoned
  /\ abandoned => \E i \in Instances : handle[i] /\ wrapper[i] \in {"leaving", "gone"}

\* Which calls run at each stage of an instance.
CallInv ==
  \A i \in Instances :
    /\ <<i, "initialize">> \in inside => wrapper[i] = "creating"
    /\ \A kind \in {"control", "metrics"} :
         <<i, kind>> \in inside => wrapper[i] = "live" /\ <<i, "shutdown">> \notin inside
    /\ <<i, "shutdown">> \in inside => wrapper[i] \in {"unwrapped", "live", "destroying"}

IInv == Types /\ FlightInv /\ LibraryInv /\ ReferenceInv /\ EngineInv /\ CallInv

-----------------------------------------------------------------------------
\* The counter and the calls.

LEMMA BeginsFlight ==
  ASSUME FlightInv, NEW i, NEW kind, <<i, kind>> \notin inside, BeginCall(i, kind)
  PROVE  FlightInv'
BY FS_AddElement DEF FlightInv, BeginCall

LEMMA EndsFlight ==
  ASSUME FlightInv, NEW i, NEW kind, EndCall(i, kind)
  PROVE  FlightInv'
BY FS_RemoveElement DEF FlightInv, EndCall

LEMMA NoCallIsIdle ==
  ASSUME FlightInv, inside = {}
  PROVE  inFlight = 0
BY FS_EmptySet DEF FlightInv

LEMMA IdleHasNoCall ==
  ASSUME NEW i, Calls(i) = {}, NEW kind
  PROVE  <<i, kind>> \notin inside
<1>1. <<i, kind>>[1] = i
  OBVIOUS
<1> QED BY <1>1 DEF Calls

LEMMA FlightStep == IInv /\ [Next]_vars => FlightInv'
<1> SUFFICES ASSUME IInv, [Next]_vars PROVE FlightInv'
  OBVIOUS
<1> FlightInv /\ CallInv
  BY DEF IInv
<1>1. CASE UNCHANGED <<inside, inFlight>>
  BY <1>1 DEF FlightInv
<1>2. ASSUME NEW i \in Instances, Initialize(i) PROVE FlightInv'
  <2>1. CASE InitializeBegins(i)
    BY <2>1, BeginsFlight DEF InitializeBegins, CallInv
  <2>2. CASE InitializeReturns(i)
    BY <2>2, EndsFlight DEF InitializeReturns
  <2>3. CASE RollbackBegins(i)
    BY <2>3, BeginsFlight, IdleHasNoCall DEF RollbackBegins
  <2>4. CASE RollbackReturns(i)
    BY <2>4, EndsFlight DEF RollbackReturns, ShutdownReturns
  <2> QED BY <1>2, <2>1, <2>2, <2>3, <2>4 DEF Initialize
<1>3. ASSUME NEW i \in Instances, Call(i) PROVE FlightInv'
  BY <1>3, BeginsFlight, EndsFlight DEF Call, CallBegins, CallReturns
<1>4. ASSUME NEW i \in Instances, ShutDown(i) PROVE FlightInv'
  <2>1. CASE ShutdownBegins(i)
    BY <2>1, BeginsFlight, IdleHasNoCall DEF ShutdownBegins
  <2>2. CASE InstanceShutdownReturns(i)
    BY <2>2, EndsFlight DEF InstanceShutdownReturns, ShutdownReturns
  <2> QED BY <1>4, <2>1, <2>2 DEF ShutDown
<1>5. ASSUME NEW i \in Instances, Destroy(i) PROVE FlightInv'
  <2>1. CASE DestroyBegins(i)
    <3>1. CASE UNCHANGED <<inside, inFlight>>
      BY <3>1, <1>1
    <3>2. CASE BeginCall(i, "shutdown")
      BY <2>1, <3>2, BeginsFlight, IdleHasNoCall DEF DestroyBegins
    <3> QED BY <2>1, <3>1, <3>2 DEF DestroyBegins
  <2>2. CASE DestroyShutdownReturns(i)
    BY <2>2, EndsFlight DEF DestroyShutdownReturns, ShutdownReturns
  <2>3. CASE Leave(i)
    BY <2>3, <1>1 DEF Leave
  <2> QED BY <1>5, <2>1, <2>2, <2>3 DEF Destroy
<1>6. CASE Load \/ DropOwner \/ UNCHANGED vars
  BY <1>6, <1>1 DEF Load, LoadRefused, LoadOpens, LoadFails, LoadSucceeds, DropOwner, vars
<1> QED BY <1>2, <1>3, <1>4, <1>5, <1>6 DEF Next

-----------------------------------------------------------------------------
\* The rest of the invariant.

Core == Types /\ LibraryInv /\ ReferenceInv /\ EngineInv /\ CallInv

LEMMA LoadCore == IInv /\ Load => Core'
<1> SUFFICES ASSUME IInv, Load PROVE Core'
  OBVIOUS
<1> USE DEF IInv, Core, Types, LibraryInv, ReferenceInv, EngineInv, CallInv, HoldsModule,
           Creating, moduleVars, instanceVars
<1>1. CASE LoadRefused
  BY <1>1 DEF LoadRefused
<1>2. CASE LoadOpens
  BY <1>2 DEF LoadOpens
<1>3. CASE LoadFails
  <2>1. mapped = 1 /\ mapped' = mapped - 1 /\ module = "none"
    BY <1>3 DEF LoadFails
  <2>2. mapped' = 0
    BY <2>1
  <2> QED BY <1>3, <2>1, <2>2 DEF LoadFails
<1>4. CASE LoadSucceeds
  BY <1>4 DEF LoadSucceeds
<1> QED BY <1>1, <1>2, <1>3, <1>4 DEF Load

\* A step of one instance that leaves the library and the references alone: its
\* wrapper becomes w, and h says whether the plugin has its engine afterwards.
StepOf(i, w, h) ==
  /\ UNCHANGED <<loadVars, mapped, module, owner>>
  /\ wrapper' = [wrapper EXCEPT ![i] = w]
  /\ handle' = [handle EXCEPT ![i] = h]
  /\ inside' \subseteq Instances \X Kinds
  /\ \A j \in Instances \ {i}, kind \in Kinds :
       <<j, kind>> \in inside' => <<j, kind>> \in inside

\* The calls of the instance after it.
CallsFit(i, w) ==
  /\ <<i, "initialize">> \in inside' => w = "creating"
  /\ \A kind \in {"control", "metrics"} :
       <<i, kind>> \in inside' => w = "live" /\ <<i, "shutdown">> \notin inside'
  /\ <<i, "shutdown">> \in inside' => w \in {"unwrapped", "live", "destroying"}

LEMMA InstanceStep ==
  ASSUME IInv, module = "alive",
         NEW i \in Instances, NEW w \in Wrappers, NEW h \in BOOLEAN,
         StepOf(i, w, h), CallsFit(i, w),
         wrapper[i] \notin {"leaving", "gone"},
         abandoned' \in BOOLEAN, abandoned => abandoned',
         w \in {"leaving", "gone"} => (abandoned' <=> abandoned \/ h),
         w \notin {"leaving", "gone"} => UNCHANGED abandoned,
         w \in {"unwrapped", "live", "destroying"} => h,
         w \in {"none", "creating", "spent"} => ~h,
         owner \/ w \in {"live", "spent", "destroying", "leaving"}
  PROVE  Core'
<1> USE DEF IInv, Core
<1>1. /\ \A j \in Instances : wrapper'[j] = IF j = i THEN w ELSE wrapper[j]
      /\ \A j \in Instances : handle'[j] = IF j = i THEN h ELSE handle[j]
  BY DEF StepOf, Types
<1>2. Types'
  BY DEF Types, StepOf, loadVars
<1>3. LibraryInv'
  BY DEF LibraryInv, StepOf, loadVars
<1>4. ReferenceInv'
  BY <1>1 DEF ReferenceInv, StepOf, HoldsModule, Creating
<1>5. EngineInv'
  <2>1. ASSUME NEW j \in Instances
        PROVE  /\ wrapper'[j] \in {"unwrapped", "live", "destroying"} => handle'[j]
               /\ wrapper'[j] \in {"none", "creating", "spent"} => ~handle'[j]
               /\ wrapper'[j] \in {"leaving", "gone"} /\ handle'[j] => abandoned'
    BY <1>1 DEF EngineInv
  <2>2. ASSUME abandoned'
        PROVE  \E j \in Instances : handle'[j] /\ wrapper'[j] \in {"leaving", "gone"}
    <3>1. CASE abandoned
      <4>1. PICK j \in Instances : handle[j] /\ wrapper[j] \in {"leaving", "gone"}
        BY <3>1 DEF EngineInv
      <4> QED BY <1>1, <4>1
    <3>2. CASE ~abandoned
      BY <1>1, <2>2, <3>2 DEF Types
    <3> QED BY <3>1, <3>2
  <2> QED BY <2>1, <2>2 DEF EngineInv
<1>6. CallInv'
  <2>1. ASSUME NEW j \in Instances, j # i
        PROVE  \A kind \in Kinds : <<j, kind>> \in inside' => <<j, kind>> \in inside
    BY <2>1 DEF StepOf
  <2>2. CallsFit(i, w) /\ wrapper'[i] = w
    BY <1>1
  <2>3. ASSUME NEW j \in Instances
        PROVE  /\ <<j, "initialize">> \in inside' => wrapper'[j] = "creating"
               /\ \A kind \in {"control", "metrics"} :
                    <<j, kind>> \in inside' =>
                      wrapper'[j] = "live" /\ <<j, "shutdown">> \notin inside'
               /\ <<j, "shutdown">> \in inside' =>
                    wrapper'[j] \in {"unwrapped", "live", "destroying"}
    <3>1. CASE j = i
      BY <2>2, <3>1 DEF CallsFit
    <3>2. CASE j # i
      BY <1>1, <2>1, <3>2 DEF CallInv, Kinds
    <3> QED BY <3>1, <3>2
  <2> QED BY <2>3 DEF CallInv
<1> QED BY <1>2, <1>3, <1>4, <1>5, <1>6

\* A call of the plugin belongs to an instance, or to its creation: the module is
\* alive.
LEMMA InstanceIsAlive ==
  ASSUME IInv, NEW i \in Instances,
         wrapper[i] \in {"creating", "unwrapped", "live", "spent", "destroying", "leaving"}
  PROVE  module = "alive"
BY DEF IInv, ReferenceInv, HoldsModule, Creating

\* What a call's begin and its end do to the calls that run.
LEMMA BeginsCalls ==
  ASSUME IInv, NEW i \in Instances, NEW kind \in Kinds, BeginCall(i, kind)
  PROVE  /\ inside' \subseteq Instances \X Kinds
         /\ \A j \in Instances, k \in Kinds :
              <<j, k>> \in inside' <=> (j = i /\ k = kind) \/ <<j, k>> \in inside
BY DEF IInv, Types, BeginCall

LEMMA EndsCalls ==
  ASSUME IInv, NEW i \in Instances, NEW kind \in Kinds, EndCall(i, kind)
  PROVE  /\ inside' \subseteq Instances \X Kinds
         /\ \A j \in Instances, k \in Kinds :
              <<j, k>> \in inside' <=> ~(j = i /\ k = kind) /\ <<j, k>> \in inside
BY DEF IInv, Types, EndCall

LEMMA InitializeCore == ASSUME IInv, NEW i \in Instances, Initialize(i) PROVE Core'
<1> USE DEF Wrappers, moduleVars, instanceVars
<1>0. Types /\ ReferenceInv /\ EngineInv /\ CallInv
  BY DEF IInv
<1>1. CASE InitializeBegins(i)
  <2>1. /\ module = "alive" /\ owner /\ wrapper[i] = "none" /\ handle[i] = FALSE
        /\ UNCHANGED <<loadVars, mapped, moduleVars, handle>>
        /\ wrapper' = [wrapper EXCEPT ![i] = "creating"]
        /\ BeginCall(i, "initialize")
    BY <1>0, <1>1 DEF InitializeBegins, ReferenceInv, EngineInv, Types
  <2>2. StepOf(i, "creating", FALSE)
    BY <1>0, <2>1, BeginsCalls DEF StepOf, Types, Kinds
  <2>3. CallsFit(i, "creating")
    BY <1>0, <2>1, BeginsCalls DEF CallsFit, CallInv, Kinds
  <2> QED BY <1>0, <2>1, <2>2, <2>3, InstanceStep DEF Types
<1>2. CASE InitializeReturns(i)
  <2>1. wrapper[i] = "creating" /\ handle[i] = FALSE /\ module = "alive" /\ owner
    BY <1>0, <1>2, InstanceIsAlive
       DEF InitializeReturns, EndCall, CallInv, ReferenceInv, EngineInv, Creating, Types
  <2>2. EndCall(i, "initialize") /\ UNCHANGED <<loadVars, mapped, moduleVars>>
    BY <1>2 DEF InitializeReturns
  <2>3. ASSUME NEW w \in {"gone", "live", "unwrapped"}, NEW h \in BOOLEAN,
               h = (w # "gone"),
               wrapper' = [wrapper EXCEPT ![i] = w], handle' = [handle EXCEPT ![i] = h]
        PROVE  Core'
    <3>1. StepOf(i, w, h)
      BY <2>2, <2>3, EndsCalls DEF StepOf, Kinds
    <3>2. CallsFit(i, w)
      BY <1>0, <2>1, <2>2, EndsCalls DEF CallsFit, CallInv, Kinds
    <3> QED BY <1>0, <2>1, <2>2, <2>3, <3>1, <3>2, InstanceStep DEF Types
  <2>4. CASE wrapper' = [wrapper EXCEPT ![i] = "gone"] /\ UNCHANGED handle
    <3>1. handle' = [handle EXCEPT ![i] = FALSE]
      BY <1>0, <2>1, <2>4 DEF Types
    <3> QED BY <2>3, <2>4, <3>1
  <2>5. CASE /\ \E w \in {"live", "unwrapped"} : wrapper' = [wrapper EXCEPT ![i] = w]
             /\ handle' = [handle EXCEPT ![i] = TRUE]
    BY <2>3, <2>5
  <2> QED BY <1>2, <2>4, <2>5 DEF InitializeReturns
<1>3. CASE RollbackBegins(i)
  <2>1. /\ wrapper[i] = "unwrapped" /\ handle[i] = TRUE /\ module = "alive" /\ owner
        /\ BeginCall(i, "shutdown") /\ UNCHANGED <<loadVars, mapped, moduleVars, instanceVars>>
    BY <1>0, <1>3, InstanceIsAlive
       DEF RollbackBegins, ReferenceInv, EngineInv, Creating, Types
  <2>2. StepOf(i, "unwrapped", TRUE)
    BY <1>0, <2>1, BeginsCalls DEF StepOf, Types, Kinds
  <2>3. CallsFit(i, "unwrapped")
    BY <1>0, <2>1, BeginsCalls DEF CallsFit, CallInv, Kinds
  <2> QED BY <1>0, <2>1, <2>2, <2>3, InstanceStep DEF Types
<1>4. CASE RollbackReturns(i)
  <2>1. /\ wrapper[i] = "unwrapped" /\ module = "alive" /\ owner
        /\ UNCHANGED <<loadVars, mapped, module, owner>>
        /\ wrapper' = [wrapper EXCEPT ![i] = "gone"]
    BY <1>0, <1>4, InstanceIsAlive DEF RollbackReturns, ReferenceInv, Creating
  <2>2. PICK success \in BOOLEAN : /\ ShutdownReturns(i, success)
                                  /\ abandoned' = (abandoned \/ ~success)
    BY <1>4 DEF RollbackReturns
  <2>3. EndCall(i, "shutdown")
    BY <2>2 DEF ShutdownReturns
  <2>4. handle' = [handle EXCEPT ![i] = ~success]
    BY <1>0, <2>1, <2>2 DEF ShutdownReturns, EngineInv, Types
  <2>5. StepOf(i, "gone", ~success)
    BY <2>1, <2>3, <2>4, EndsCalls DEF StepOf, Kinds
  <2>6. CallsFit(i, "gone")
    BY <1>0, <2>1, <2>3, EndsCalls DEF CallsFit, CallInv, Kinds
  <2> QED BY <1>0, <2>1, <2>2, <2>5, <2>6, InstanceStep DEF Types
<1> QED BY <1>1, <1>2, <1>3, <1>4 DEF Initialize

LEMMA CallCore == ASSUME IInv, NEW i \in Instances, Call(i) \/ ShutDown(i) PROVE Core'
<1> USE DEF Wrappers, moduleVars, instanceVars
<1>0. Types /\ EngineInv /\ CallInv
  BY DEF IInv
<1>1. wrapper[i] = "live"
  BY <1>0 DEF Call, ShutDown, CallBegins, CallReturns, ShutdownBegins,
              InstanceShutdownReturns, EndCall, CallInv
<1>2. module = "alive" /\ handle[i] = TRUE
  BY <1>0, <1>1, InstanceIsAlive DEF EngineInv, Types
<1>3. CASE Call(i) \/ ShutdownBegins(i)
  <2>1. UNCHANGED <<loadVars, mapped, moduleVars, instanceVars>>
    BY <1>3 DEF Call, CallBegins, CallReturns, ShutdownBegins
  <2>2. StepOf(i, "live", TRUE) /\ CallsFit(i, "live")
    <3>1. ASSUME NEW kind \in {"control", "metrics"}, CallBegins(i, kind)
          PROVE  StepOf(i, "live", TRUE) /\ CallsFit(i, "live")
      <4>1. BeginCall(i, kind) /\ kind \in Kinds /\ <<i, "shutdown">> \notin inside
        BY <3>1 DEF CallBegins, Kinds
      <4>2. StepOf(i, "live", TRUE)
        BY <1>0, <1>1, <1>2, <2>1, <4>1, BeginsCalls DEF StepOf, Types
      <4>3. CallsFit(i, "live")
        BY <1>0, <1>1, <3>1, <4>1, BeginsCalls DEF CallsFit, CallInv, Kinds
      <4> QED BY <4>2, <4>3
    <3>2. ASSUME NEW kind \in {"control", "metrics"}, CallReturns(i, kind)
          PROVE  StepOf(i, "live", TRUE) /\ CallsFit(i, "live")
      <4>1. EndCall(i, kind) /\ kind \in Kinds
        BY <3>2 DEF CallReturns, Kinds
      <4>2. StepOf(i, "live", TRUE)
        BY <1>0, <1>1, <1>2, <2>1, <4>1, EndsCalls DEF StepOf, Types
      <4>3. CallsFit(i, "live")
        BY <1>0, <1>1, <4>1, EndsCalls DEF CallsFit, CallInv, Kinds
      <4> QED BY <4>2, <4>3
    <3>3. CASE ShutdownBegins(i)
      <4>1. BeginCall(i, "shutdown") /\ \A kind \in Kinds : <<i, kind>> \notin inside
        BY <3>3, IdleHasNoCall DEF ShutdownBegins
      <4>2. StepOf(i, "live", TRUE)
        BY <1>0, <1>1, <1>2, <2>1, <4>1, BeginsCalls DEF StepOf, Types, Kinds
      <4>3. CallsFit(i, "live")
        BY <4>1, BeginsCalls DEF CallsFit, Kinds
      <4> QED BY <4>2, <4>3
    <3> QED BY <1>3, <3>1, <3>2, <3>3 DEF Call
  <2> QED BY <1>0, <1>1, <1>2, <2>1, <2>2, InstanceStep DEF Types
<1>4. CASE InstanceShutdownReturns(i)
  <2>1. PICK success \in BOOLEAN :
          /\ ShutdownReturns(i, success)
          /\ wrapper' = IF success THEN [wrapper EXCEPT ![i] = "spent"] ELSE wrapper
    BY <1>4 DEF InstanceShutdownReturns
  <2> DEFINE w == IF success THEN "spent" ELSE "live"
  <2>2. EndCall(i, "shutdown") /\ UNCHANGED <<loadVars, mapped, moduleVars>>
    BY <1>4, <2>1 DEF ShutdownReturns, InstanceShutdownReturns
  <2>3. wrapper' = [wrapper EXCEPT ![i] = w] /\ handle' = [handle EXCEPT ![i] = ~success]
    BY <1>0, <1>1, <1>2, <2>1 DEF ShutdownReturns, Types
  <2>4. StepOf(i, w, ~success)
    BY <2>2, <2>3, EndsCalls DEF StepOf, Kinds
  <2>5. CallsFit(i, w)
    <3>1. \A kind \in {"initialize", "control", "metrics"} : <<i, kind>> \notin inside
      BY <1>0, <1>1, <2>2 DEF CallInv, EndCall
    <3> QED BY <2>2, <3>1, EndsCalls DEF CallsFit, Kinds
  <2> QED BY <1>0, <1>1, <1>2, <2>2, <2>4, <2>5, InstanceStep DEF Types
<1> QED BY <1>3, <1>4 DEF ShutDown

LEMMA NoCallRuns ==
  ASSUME Types, CallInv,
         \A i \in Instances : wrapper[i] \notin {"creating", "unwrapped", "live", "destroying"}
  PROVE  inside = {}
<1>1. \A i \in Instances, kind \in Kinds : <<i, kind>> \notin inside
  BY DEF CallInv, Kinds
<1>2. \A c \in inside : \E i \in Instances, kind \in Kinds : c = <<i, kind>>
  BY DEF Types
<1> QED BY <1>1, <1>2

\* Whoever drops the last reference finds no call running, so the library is only
\* kept for an engine that the module was told of.
LEMMA LastReference ==
  ASSUME IInv, module = "alive", DestroyModule, UNCHANGED <<load, handle>>,
         ~Creating, inside = {},
         \A i \in Instances : wrapper[i] \in {"none", "leaving", "gone"}
  PROVE  LibraryInv'
<1>1. inFlight = 0 /\ mapped = 1 /\ load = "done"
  BY NoCallIsIdle DEF IInv, Types, LibraryInv
<1>2. abandoned <=> \E i \in Instances : handle[i]
  BY DEF IInv, EngineInv
<1>3. mapped' = IF \E i \in Instances : handle[i] THEN 1 ELSE 0
  BY <1>1, <1>2 DEF DestroyModule
<1> QED BY <1>1, <1>3 DEF LibraryInv, DestroyModule

LEMMA DropOwnerCore == ASSUME IInv, DropOwner PROVE Core'
<1> USE DEF IInv, HoldsModule, Creating, moduleVars, instanceVars
<1>1. module = "alive"
  BY DEF DropOwner, ReferenceInv
<1>2. Types' /\ EngineInv' /\ CallInv'
  BY DEF DropOwner, ReleaseModule, DestroyModule, Types, EngineInv, CallInv
<1>3. CASE \A i \in Instances : ~HoldsModule(i)
  <2>1. DestroyModule
    BY <1>3 DEF DropOwner, ReleaseModule
  <2>2. \A i \in Instances : wrapper[i] \in {"none", "gone"}
    BY <1>3 DEF DropOwner, Types, Wrappers
  <2>3. inside = {}
    BY <2>2, NoCallRuns
  <2>4. LibraryInv'
    BY <1>1, <2>1, <2>2, <2>3, LastReference DEF DropOwner
  <2>5. ReferenceInv'
    BY <2>1, <2>2 DEF DropOwner, ReferenceInv, DestroyModule
  <2> QED BY <1>2, <2>4, <2>5 DEF Core
<1>4. CASE \E i \in Instances : HoldsModule(i)
  <2>1. UNCHANGED <<module, native, mapped, load, handle, wrapper>> /\ ~owner'
    BY <1>4 DEF DropOwner, ReleaseModule
  <2>2. LibraryInv' /\ ReferenceInv'
    BY <1>1, <1>4, <2>1 DEF DropOwner, LibraryInv, ReferenceInv
  <2> QED BY <1>2, <2>2 DEF Core
<1> QED BY <1>3, <1>4

LEMMA LeaveCore == ASSUME IInv, NEW i \in Instances, Leave(i) PROVE Core'
<1> USE DEF IInv, HoldsModule, Creating, moduleVars, instanceVars
<1>1. module = "alive" /\ wrapper[i] = "leaving"
  BY DEF Leave, ReferenceInv
<1>2. Types' /\ EngineInv' /\ CallInv'
  BY DEF Leave, ReleaseModule, DestroyModule, Types, Wrappers, EngineInv, CallInv
<1>3. \A j \in Instances : wrapper'[j] = IF j = i THEN "gone" ELSE wrapper[j]
  BY DEF Leave, Types
<1>4. CASE ~owner /\ \A j \in Instances \ {i} : ~HoldsModule(j)
  <2>1. DestroyModule /\ UNCHANGED <<load, handle, owner>>
    BY <1>4 DEF Leave, ReleaseModule
  <2>2. ~Creating
    BY <1>4 DEF ReferenceInv
  <2>3. \A j \in Instances : wrapper[j] \in {"none", "leaving", "gone"}
    BY <1>1, <1>4, <2>2 DEF Types, Wrappers
  <2>4. inside = {}
    BY <2>3, NoCallRuns
  <2>5. LibraryInv'
    BY <1>1, <2>1, <2>2, <2>3, <2>4, LastReference
  <2>6. ReferenceInv'
    BY <1>3, <1>4, <2>1, <2>2 DEF ReferenceInv, DestroyModule
  <2> QED BY <1>2, <2>5, <2>6 DEF Core
<1>5. CASE owner \/ \E j \in Instances \ {i} : HoldsModule(j)
  <2>1. UNCHANGED <<module, native, mapped, load, handle, owner>>
    BY <1>5 DEF Leave, ReleaseModule
  <2>2. LibraryInv' /\ ReferenceInv'
    BY <1>1, <1>3, <1>5, <2>1 DEF LibraryInv, ReferenceInv
  <2> QED BY <1>2, <2>2 DEF Core
<1> QED BY <1>4, <1>5

LEMMA DestroyCore == ASSUME IInv, NEW i \in Instances, Destroy(i) PROVE Core'
<1> USE DEF Wrappers, moduleVars, instanceVars
<1>0. Types /\ EngineInv /\ CallInv
  BY DEF IInv
<1>1. CASE DestroyBegins(i)
  <2>1. /\ module = "alive" /\ UNCHANGED <<loadVars, mapped, moduleVars, handle>>
        /\ \A kind \in Kinds : <<i, kind>> \notin inside
    BY <1>1, InstanceIsAlive, IdleHasNoCall DEF DestroyBegins
  <2>2. CASE wrapper[i] = "spent"
    <3>1. /\ wrapper' = [wrapper EXCEPT ![i] = "leaving"] /\ UNCHANGED inside
          /\ handle' = [handle EXCEPT ![i] = FALSE] /\ UNCHANGED abandoned
      BY <1>0, <1>1, <2>2 DEF DestroyBegins, EngineInv, Types
    <3>2. StepOf(i, "leaving", FALSE) /\ CallsFit(i, "leaving")
      BY <1>0, <2>1, <3>1 DEF StepOf, CallsFit, Types, Kinds
    <3>3. abandoned' \in BOOLEAN /\ (abandoned' <=> abandoned \/ FALSE)
      BY <1>0, <3>1, Zenon DEF Types
    <3> QED BY <2>1, <2>2, <3>2, <3>3, InstanceStep
  <2>3. CASE wrapper[i] = "live"
    <3>1. /\ wrapper' = [wrapper EXCEPT ![i] = "destroying"] /\ BeginCall(i, "shutdown")
          /\ handle' = [handle EXCEPT ![i] = TRUE] /\ UNCHANGED abandoned
      BY <1>0, <1>1, <2>3 DEF DestroyBegins, EngineInv, Types
    <3>2. StepOf(i, "destroying", TRUE)
      BY <2>1, <3>1, BeginsCalls DEF StepOf, Kinds
    <3>3. CallsFit(i, "destroying")
      BY <2>1, <3>1, BeginsCalls DEF CallsFit, Kinds
    <3>4. abandoned' \in BOOLEAN /\ (abandoned => abandoned')
      BY <1>0, <3>1, Zenon DEF Types
    <3> QED BY <2>1, <2>3, <3>1, <3>2, <3>3, <3>4, InstanceStep
  <2> QED BY <1>1, <2>2, <2>3 DEF DestroyBegins
<1>2. CASE DestroyShutdownReturns(i)
  <2>1. /\ wrapper[i] = "destroying" /\ module = "alive"
        /\ UNCHANGED <<loadVars, mapped, module, owner>>
        /\ wrapper' = [wrapper EXCEPT ![i] = "leaving"]
    BY <1>2, InstanceIsAlive DEF DestroyShutdownReturns
  <2>2. PICK success \in BOOLEAN : /\ ShutdownReturns(i, success)
                                  /\ abandoned' = (abandoned \/ ~success)
    BY <1>2 DEF DestroyShutdownReturns
  <2>3. EndCall(i, "shutdown")
    BY <2>2 DEF ShutdownReturns
  <2>4. handle' = [handle EXCEPT ![i] = ~success]
    BY <1>0, <2>1, <2>2 DEF ShutdownReturns, EngineInv, Types
  <2>5. StepOf(i, "leaving", ~success)
    BY <2>1, <2>3, <2>4, EndsCalls DEF StepOf, Kinds
  <2>6. CallsFit(i, "leaving")
    BY <1>0, <2>1, <2>3, EndsCalls DEF CallsFit, CallInv, Kinds
  <2> QED BY <1>0, <2>1, <2>2, <2>5, <2>6, InstanceStep DEF Types
<1>3. CASE Leave(i)
  BY <1>3, LeaveCore
<1> QED BY <1>1, <1>2, <1>3 DEF Destroy

LEMMA InitInv == Init => IInv
BY FS_EmptySet
   DEF Init, IInv, Types, Wrappers, FlightInv, LibraryInv, ReferenceInv, EngineInv, CallInv,
       HoldsModule, Creating

LEMMA Inductive == IInv /\ [Next]_vars => IInv'
<1> SUFFICES ASSUME IInv, [Next]_vars PROVE IInv'
  OBVIOUS
<1>1. Core'
  <2>1. CASE UNCHANGED vars
    BY <2>1 DEF vars, loadVars, moduleVars, instanceVars, IInv, Core, Types, LibraryInv,
                ReferenceInv, EngineInv, CallInv, HoldsModule, Creating
  <2> QED BY <2>1, LoadCore, DropOwnerCore, InitializeCore, CallCore, DestroyCore DEF Next
<1>2. FlightInv'
  BY FlightStep
<1> QED BY <1>1, <1>2 DEF IInv, Core

LEMMA Invariance == Spec => []IInv
BY InitInv, Inductive, PTL DEF Spec

-----------------------------------------------------------------------------

\* Every variable of the loader keeps its type; in particular the library is never
\* closed twice and in_flight_ never goes below zero.
THEOREM TypeCorrect == Spec => []TypeOK
<1>1. IInv => TypeOK
  <2> SUFFICES ASSUME IInv PROVE TypeOK
    OBVIOUS
  <2>1. inFlight \in Nat
    BY FS_CardinalityType DEF IInv, FlightInv
  <2>2. mapped \in 0 .. 1
    BY DEF IInv, Types, LibraryInv
  <2> QED BY <2>1, <2>2 DEF IInv, Types, TypeOK
<1> QED BY <1>1, Invariance, PTL

\* ~VoiceEngineModule leaves the library mapped for every engine and every call that
\* needs it.
THEOREM PinnedWhileUsedHolds == Spec => []PinnedWhileUsed
<1>1. IInv => PinnedWhileUsed
  <2> SUFFICES ASSUME IInv, inside # {} \/ \E i \in Instances : handle[i] PROVE mapped = 1
    BY DEF PinnedWhileUsed
  <2>1. CASE module = "alive"
    BY <2>1 DEF IInv, LibraryInv
  <2>2. CASE module # "alive"
    <3>1. \A i \in Instances : wrapper[i] \in {"none", "gone"}
      BY <2>2 DEF IInv, Types, Wrappers, ReferenceInv, HoldsModule, Creating
    <3>2. inside = {}
      BY <3>1, NoCallRuns DEF IInv
    <3>3. module = "destroyed"
      BY <2>2, <3>1, <3>2 DEF IInv, Types, ReferenceInv, EngineInv
    <3> QED BY <3>2, <3>3 DEF IInv, LibraryInv
  <2> QED BY <2>1, <2>2
<1> QED BY <1>1, Invariance, PTL

\* The module's destructor, and every failure of load, give the library back exactly
\* once, unless an engine was abandoned.
THEOREM UnloadedWhenUnusedHolds == Spec => []UnloadedWhenUnused
<1>1. IInv => UnloadedWhenUnused
  BY DEF IInv, LibraryInv, ReferenceInv, EngineInv, UnloadedWhenUnused
<1> QED BY <1>1, Invariance, PTL

\* engine_ is null from the shutdown on that destroyed the engine.
THEOREM CallsReachLiveEnginesHolds == Spec => []CallsReachLiveEngines
<1>1. IInv => CallsReachLiveEngines
  <2> SUFFICES ASSUME IInv, NEW c \in inside, c[2] # "initialize" PROVE handle[c[1]]
    BY DEF CallsReachLiveEngines
  <2>1. PICK i \in Instances, kind \in Kinds : c = <<i, kind>>
    BY DEF IInv, Types
  <2>2. wrapper[i] \in {"unwrapped", "live", "destroying"}
    BY <2>1 DEF IInv, CallInv, Kinds
  <2> QED BY <2>1, <2>2 DEF IInv, EngineInv
<1> QED BY <1>1, Invariance, PTL

=============================================================================
