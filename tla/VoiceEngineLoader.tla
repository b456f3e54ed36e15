-------------------------- MODULE VoiceEngineLoader --------------------------
(***************************************************************************)
(* VoiceEngineModule and VoiceEngineInstance: one plugin library is loaded,*)
(* engines are created from it and called through instances, and the       *)
(* library is unloaded with the last reference to the module, unless a     *)
(* handle that could not be shut down still needs its code.                *)
(* Callers keep the ABI's rules: initialize calls one at a time, controls  *)
(* of a handle one at a time, only metrics beside another call, and        *)
(* nothing is destroyed under a call of its own.                           *)
(***************************************************************************)
EXTENDS Integers, FiniteSets

CONSTANT Instances      \* bound of the model: engines ever created

ASSUME LoaderAssumption == IsFiniteSet(Instances)

Kinds == {"initialize", "control", "metrics", "shutdown"}

\* unwrapped: a handle for which no VoiceEngineInstance could be allocated.
\* live, spent: engine_ is not null, is null.  leaving: about to release module_.
Wrappers == {"none", "creating", "unwrapped", "live", "spent", "destroying", "leaving", "gone"}

VARIABLES
  load,       \* where VoiceEngineModule::load is
  guard,      \* the NativeLibraryGuard holds the library's handle
  native,     \* the module does: native_handle_
  mapped,     \* the platform's count of references to the library
  module,     \* the VoiceEngineModule object
  owner,      \* the caller has its shared_ptr
  inFlight, abandoned,
  wrapper,    \* for each engine, its VoiceEngineInstance
  handle,     \* TRUE while the plugin has the engine
  inside      \* the calls that run the plugin's code: pairs of an engine and a kind

loadVars == <<load, guard, native>>
moduleVars == <<module, owner, abandoned>>
instanceVars == <<wrapper, handle>>
vars == <<loadVars, mapped, moduleVars, inFlight, instanceVars, inside>>

Init ==
  /\ load = "start"
  /\ guard = FALSE
  /\ native = FALSE
  /\ mapped = 0
  /\ module = "none"
  /\ owner = FALSE
  /\ inFlight = 0
  /\ abandoned = FALSE
  /\ wrapper = [i \in Instances |-> "none"]
  /\ handle = [i \in Instances |-> FALSE]
  /\ inside = {}

-----------------------------------------------------------------------------
(* VoiceEngineModule::load *)

\* The path is refused, or the platform does not load it.
LoadRefused ==
  /\ load = "start"
  /\ load' = "failed"
  /\ UNCHANGED <<guard, native, mapped, moduleVars, inFlight, instanceVars, inside>>

LoadOpens ==
  /\ load = "start"
  /\ load' = "opened"
  /\ guard' = TRUE
  /\ mapped' = mapped + 1
  /\ UNCHANGED <<native, moduleVars, inFlight, instanceVars, inside>>

\* The symbol is missing, the factory fails or throws, its table is incomplete, or
\* the module cannot be allocated: the guard closes the library.  Mutant: a module
\* already owns the handle and closes it as well.
LoadFailsOwned ==
  /\ load = "opened"
  /\ load' = "failed"
  /\ guard' = FALSE
  /\ mapped' = mapped - 2
  /\ UNCHANGED <<native, moduleVars, inFlight, instanceVars, inside>>

LoadFails ==
  /\ load = "opened"
  /\ load' = "failed"
  /\ guard' = FALSE
  /\ mapped' = mapped - 1
  /\ UNCHANGED <<native, moduleVars, inFlight, instanceVars, inside>>

\* The module takes the handle from the guard.
LoadSucceeds ==
  /\ load = "opened"
  /\ load' = "done"
  /\ guard' = FALSE
  /\ native' = TRUE
  /\ module' = "alive"
  /\ owner' = TRUE
  /\ UNCHANGED <<mapped, abandoned, inFlight, instanceVars, inside>>

Load == LoadRefused \/ LoadOpens \/ LoadFails \/ LoadSucceeds

-----------------------------------------------------------------------------
(* VoiceEngineModule::invoke, around each call of the plugin *)

Calls(i) == {c \in inside : c[1] = i}

BeginCall(i, kind) ==
  /\ inside' = inside \cup {<<i, kind>>}
  /\ inFlight' = inFlight + 1

EndCall(i, kind) ==
  /\ <<i, kind>> \in inside
  /\ inside' = inside \ {<<i, kind>>}
  /\ inFlight' = inFlight - 1

\* A call of the plugin's shutdown returns: the engine is destroyed, or is fully
\* live.
ShutdownReturns(i, success) ==
  /\ EndCall(i, "shutdown")
  /\ handle' = IF success THEN [handle EXCEPT ![i] = FALSE] ELSE handle

-----------------------------------------------------------------------------
(* VoiceEngineModule::initialize *)

Creating == \E i \in Instances : wrapper[i] \in {"creating", "unwrapped"}

InitializeBegins(i) ==
  /\ owner
  /\ ~Creating
  /\ wrapper[i] = "none"
  /\ wrapper' = [wrapper EXCEPT ![i] = "creating"]
  /\ BeginCall(i, "initialize")
  /\ UNCHANGED <<loadVars, mapped, moduleVars, handle>>

\* There is no engine, or one in an instance, or one for which the instance
\* cannot be allocated.
InitializeReturns(i) ==
  /\ EndCall(i, "initialize")
  /\ \/ /\ wrapper' = [wrapper EXCEPT ![i] = "gone"]
        /\ UNCHANGED handle
     \/ /\ \E w \in {"live", "unwrapped"} : wrapper' = [wrapper EXCEPT ![i] = w]
        /\ handle' = [handle EXCEPT ![i] = TRUE]
  /\ UNCHANGED <<loadVars, mapped, moduleVars>>

\* An engine without an instance is shut down, or the module abandoned.
RollbackBegins(i) ==
  /\ wrapper[i] = "unwrapped"
  /\ Calls(i) = {}
  /\ BeginCall(i, "shutdown")
  /\ UNCHANGED <<loadVars, mapped, moduleVars, instanceVars>>

RollbackReturns(i) ==
  /\ wrapper[i] = "unwrapped"
  /\ \E success \in BOOLEAN :
       /\ ShutdownReturns(i, success)
       /\ abandoned' = (abandoned \/ ~success)
  /\ wrapper' = [wrapper EXCEPT ![i] = "gone"]
  /\ UNCHANGED <<loadVars, mapped, module, owner>>

-----------------------------------------------------------------------------
(* VoiceEngineInstance; every method of a spent one returns InvalidState *)

CallBegins(i, kind) ==
  /\ wrapper[i] = "live"
  /\ <<i, kind>> \notin inside
  /\ <<i, "shutdown">> \notin inside
  /\ BeginCall(i, kind)
  /\ UNCHANGED <<loadVars, mapped, moduleVars, instanceVars>>

CallReturns(i, kind) ==
  /\ EndCall(i, kind)
  /\ UNCHANGED <<loadVars, mapped, moduleVars, instanceVars>>

ShutdownBegins(i) ==
  /\ wrapper[i] = "live"
  /\ Calls(i) = {}
  /\ BeginCall(i, "shutdown")
  /\ UNCHANGED <<loadVars, mapped, moduleVars, instanceVars>>

\* engine_ is only set to null by a success.  Mutant: it never is.
InstanceShutdownReturnsLive(i) ==
  /\ wrapper[i] = "live"
  /\ \E success \in BOOLEAN : ShutdownReturns(i, success)
  /\ UNCHANGED <<loadVars, mapped, moduleVars, wrapper>>

InstanceShutdownReturns(i) ==
  /\ wrapper[i] = "live"
  /\ \E success \in BOOLEAN :
       /\ ShutdownReturns(i, success)
       /\ wrapper' = IF success THEN [wrapper EXCEPT ![i] = "spent"] ELSE wrapper
  /\ UNCHANGED <<loadVars, mapped, moduleVars>>

\* The destructor shuts down an engine that is left.
DestroyBegins(i) ==
  /\ Calls(i) = {}
  /\ \/ /\ wrapper[i] = "spent"
        /\ wrapper' = [wrapper EXCEPT ![i] = "leaving"]
        /\ UNCHANGED <<inside, inFlight>>
     \/ /\ wrapper[i] = "live"
        /\ wrapper' = [wrapper EXCEPT ![i] = "destroying"]
        /\ BeginCall(i, "shutdown")
  /\ UNCHANGED <<loadVars, mapped, moduleVars, handle>>

\* Mutant: the verdict of the engine is ignored.
DestroyShutdownReturnsUnseen(i) ==
  /\ wrapper[i] = "destroying"
  /\ \E success \in BOOLEAN : ShutdownReturns(i, success)
  /\ wrapper' = [wrapper EXCEPT ![i] = "leaving"]
  /\ UNCHANGED <<loadVars, mapped, moduleVars>>

DestroyShutdownReturns(i) ==
  /\ wrapper[i] = "destroying"
  /\ \E success \in BOOLEAN :
       /\ ShutdownReturns(i, success)
       /\ abandoned' = (abandoned \/ ~success)
  /\ wrapper' = [wrapper EXCEPT ![i] = "leaving"]
  /\ UNCHANGED <<loadVars, mapped, module, owner>>

-----------------------------------------------------------------------------
(* The last reference destroys the module *)

HoldsModule(i) == wrapper[i] \in {"live", "spent", "destroying", "leaving"}

\* VoiceEngineModule::~VoiceEngineModule.
DestroyModule ==
  /\ module' = "destroyed"
  /\ native' = FALSE
  /\ mapped' = IF ~abandoned /\ inFlight = 0 THEN mapped - 1 ELSE mapped

ReleaseModule(last) ==
  IF last THEN DestroyModule ELSE UNCHANGED <<module, native, mapped>>

DropOwner ==
  /\ owner
  /\ ~Creating
  /\ owner' = FALSE
  /\ ReleaseModule(\A i \in Instances : ~HoldsModule(i))
  /\ UNCHANGED <<load, guard, abandoned, inFlight, instanceVars, inside>>

Leave(i) ==
  /\ wrapper[i] = "leaving"
  /\ wrapper' = [wrapper EXCEPT ![i] = "gone"]
  /\ ReleaseModule(~owner /\ \A j \in Instances \ {i} : ~HoldsModule(j))
  /\ UNCHANGED <<load, guard, owner, abandoned, inFlight, handle, inside>>

-----------------------------------------------------------------------------

Initialize(i) ==
  InitializeBegins(i) \/ InitializeReturns(i) \/ RollbackBegins(i) \/ RollbackReturns(i)

Call(i) == \E kind \in {"control", "metrics"} : CallBegins(i, kind) \/ CallReturns(i, kind)

ShutDown(i) == ShutdownBegins(i) \/ InstanceShutdownReturns(i)

Destroy(i) == DestroyBegins(i) \/ DestroyShutdownReturns(i) \/ Leave(i)

Next ==
  \/ Load \/ DropOwner
  \/ \E i \in Instances : Initialize(i) \/ Call(i) \/ ShutDown(i) \/ Destroy(i)

Spec == Init /\ [][Next]_vars

-----------------------------------------------------------------------------

TypeOK ==
  /\ load \in {"start", "opened", "done", "failed"}
  /\ guard \in BOOLEAN /\ native \in BOOLEAN
  /\ mapped \in 0 .. 1
  /\ module \in {"none", "alive", "destroyed"}
  /\ owner \in BOOLEAN
  /\ inFlight \in Nat
  /\ abandoned \in BOOLEAN
  /\ wrapper \in [Instances -> Wrappers]
  /\ handle \in [Instances -> BOOLEAN]
  /\ inside \subseteq Instances \X Kinds

\* The library stays mapped as long as the plugin has an engine or one of its
\* calls runs, whichever reference goes first and whatever shutdown returns.
PinnedWhileUsed == (inside # {} \/ \E i \in Instances : handle[i]) => mapped = 1

\* When nothing refers to the module any more, or loading it has failed, the
\* library is unloaded, once, unless an engine is left behind that needs its code.
UnloadedWhenUnused ==
  load = "failed" \/ module = "destroyed" =>
    mapped = IF \E i \in Instances : handle[i] THEN 1 ELSE 0

\* The plugin is only called with an engine it has: never after the shutdown that
\* destroyed it, although a failed shutdown may be tried again.
CallsReachLiveEngines ==
  \A c \in inside : c[2] # "initialize" => handle[c[1]]

=============================================================================
