# AI Voice Studio: a TLA+ development

AI Voice Studio 0.5 is a desktop application that owns one native process. The
specifications here model the parts of it that decide who owns that process, who
is told what, and when: the Rust actor that starts, talks to and reaps the
process, the page and the commands that use it, the frames between the two, the
process itself, the voice engine it loads, and the configuration that goes from one
end to the other. TLC checks them on small instances and TLAPS proves the safety
properties for every value of their constants.

    Product configuration ... command line    Configuration.tla
    Desktop view (TypeScript)                 Desktop.tla
      -> Tauri commands, exit coordinator
        -> RuntimeManager handle -> queue     RuntimeService.tla
           -> RuntimeManager actor            RuntimeManager.tla
                -> RuntimeMessage v1 frames   FrameDecoder.tla
                   over the child's stdin and stdout
                     -> voice-runtime process VoiceRuntime.tla
                          -> MockPipeline     MockPipeline.tla
                               -> loader      VoiceEngineLoader.tla
                                    -> VoiceEngine C ABI, Mock engine   MockEngine.tla

## Inventory

| Part | State it keeps | Operations | What is hard about it |
| --- | --- | --- | --- |
| RuntimeManager actor, `apps/runtime-host/src/manager.rs` | published state and generation, the child, pipe tasks, a start and a stop context, pending requests, slots for deferred replies | start, stop, status, ping, capabilities, run pipeline; process events; deadlines; reap; drop; abort | an await in the middle of a handler, an abort there, a child that will not be reaped, answers in any order with exits and timeouts |
| RuntimeMessage decoder, `core/contracts` (Rust and C++) | the partial header and body | feed, finish | frames cut anywhere, a batch limit, the verdict at the end of the pipe |
| voice-runtime, `runtime/process`, `runtime/session` | session state, exit reason, decoder | setup, read, dispatch, respond, exit | several requests in one read, a peer that closes either pipe at any time or leaves stdout full, four exit codes |
| MockPipeline, `runtime/pipeline` | one engine instance | create, run, destroy | every way out of a run has to leave the engine ready |
| VoiceEngine loader, `runtime/loader` | library handle, references, count of calls, abandoned flag | load, initialize, eight engine calls, destructors | what goes first: the owner, an instance or a call; a shutdown that fails |
| Mock engine, `engines/mock` | lifecycle, stream generation, four atomic counters | the eight functions of the ABI | the end of the 64-bit generation, metrics beside process |
| Desktop control plane, `apps/desktop/src-tauri` | exit phase | commands, exit | a bounded cleanup that joins a shutdown already under way; a query made of two calls |
| Desktop view, `apps/desktop/src` | status, capability, summary, pending action | five buttons | what stays on screen across a restart |
| Configuration, `core/config`, and command line, `runtime/process/runtime_options.cpp` | the options seen so far | load, check, make the manager's configuration, write and parse the arguments | four checks in two languages that have to agree; 64-bit numbers read digit by digit |
| Capability types, telemetry, logging, payloads | none after start | pure functions, one write per record | nothing that interleaves; a summary's checks depend on counters that live as long as the engine |

The interactions are: method calls on a cloneable handle that become messages on a
bounded queue with a oneshot channel for the answer (view to actor); tasks that read
and write the child's pipes and post events to the actor's second queue (actor to
pipes); a detached thread, a mutex and a condition variable for a child that outlives
its bounded wait (actor to reaper); a byte stream each way (actor to process); and
plain calls from there on, all on one thread of the process.

For each part, the properties that make it correct:

- Actor: no child without an owner; one answer for each call, and none that says the
  process is gone before it is reaped; state, contexts and slots agree whenever the
  actor may be suspended; request IDs are not reused; Stopped after a stop means
  response, end of output and a zero exit; every call ends and so does every child.
- Decoder: what comes out is what was written, for every cutting; bounded memory; a
  read cannot overflow a batch; the end of the pipe is judged rightly.
- Process: answers in the order of the requests, nothing after Shutdown's, nothing
  before a completed setup; exit code and session agree and mean what the contract
  says; it ends at the end of its input, unless a write waits for ever on a full stdout.
- Desktop: the page never goes back in time; a capability profile is about one
  connection; an application that is asked to exit exits, and not before its Stop is
  answered or its time is over.
- Configuration: what the loader accepts the manager accepts; what the manager accepts the
  Runtime parses, but for a path that is not valid Unicode; the Runtime runs with what the
  document says, and accepts nothing it should not.
- Engine, pipeline, loader: generations are not reused, counters add up, the engine
  is ready between runs, a result is about its own run, the library stays as long as
  it is needed and goes afterwards.

## The plan

In the order of how much depends on it. The first eight are done.

1. `RuntimeService`: what callers of the manager are promised. `RuntimeManager`: the
   actor, which implements it. Every safety property and the refinement are proved.
2. `FrameDecoder`: the decoder in its reading loop. Every property is proved.
3. `VoiceRuntime`: the child's side. Proved about.
4. `MockEngine`: one handle. Proved about.
5. `MockPipeline`, which extends `MockEngine`. Proved about.
6. `VoiceEngineLoader`. Proved about.
7. `Desktop`: exit coordinator, capability query and view, over `RuntimeService`, whose
   only client it is. Proved about.
8. `Configuration`: document, manager's checks, command line, parser. Every property is
   proved.
9. `RuntimeSystem`: the manager with a child that behaves as `VoiceRuntime` instead
   of one that may do anything, to show what a conforming child adds: a stop that is
   asked for in Connected ends in Stopped.
10. The reap barrier at the level of its mutex, its condition variable and its
    notification, as the detailed specification of `DetachedReap` and `BarrierWait`.

## Modules

### RuntimeService and RuntimeManager

`RuntimeService` has a state, whether a child exists, whether the actor has ended,
and for each call its operation and reply. It may enter Stopped, Crashed or Error, and
give an answer that says the process failed, was cancelled or was stopped, only when
there is no child. Stopped is only entered for a Stop, a Start is only refused outside
the idle states or at the last generation, a Stop only while a shutdown has all the
waiters it may have: a client can rely on these, and `Desktop` does.

`RuntimeManager` is the actor. A variable per field: `commands` is the bounded command
queue, `events` stands for the child's stdout and the event queue together, `writer`
for the stdin queue, `pending`, `start`, `stop` and `activeStatus` for the contexts,
`primary` and `deferredStop` for the slots that hold replies across a reap, and
`phase` names the await at which the task is suspended, with `cont` saying what
the reap will finish. `os[g]` is the operating system's view of the g-th child.

One action is one handler up to its next await: `StartRuntime`, `StopIdle`,
`StopStarting`, `StopJoin`, `StopConnected` (`stop_runtime` by its cases), `SendRequest`,
`ReadStatus`, the handlers of events (`HandleHello`, `HandleResponse`,
`HandleShutdownResponse`, `HandleEof`, `HandleBroken`, `HandleWriteFailure`,
`DropStaleEvent`), of deadlines (`StartTimeout`, `ShutdownTimeout`, `RequestTimeout`,
`DrainTimeout`), `PollProcessExit`, the steps of a reap (`ReapWait`, `ReapTimeout`,
`DetachedReap`, `BarrierWait`, then one `Finish...` per continuation), `ManagerDropped`,
and `Abort`, `AbortReap`, `AbortFinish` for `Drop for Actor`. The environment's actions
are `Submit`, `DropManager`, `ChildWrites`, `StdoutEnds`, `StdinWrite`, `ChildExits`.

Abstractions. The child may write any frame, end its output or exit at any time. A call that
waits for room in the queue has not been submitted yet. Dropping the futures of all calls
and dropping the handles is one action; a single future is not dropped. The synchronous reap
of `Drop` and the thread that takes over after two seconds are one step, `AbortReap`.
Deadlines fire at any time after they are set, the oldest request first. Events of a
previous child that stay in the queue are a nondeterministic suffix, which `DropStaleEvent`
takes. `StateMatchesContexts` says what must not come of one: the manager does not wait for
the rest of a child's output whose end it has been told of, so an end it acted on was that
child's, and it is never on the way to Crashed without having seen the exit. Left out:
payload bytes, telemetry, process ids, exit codes and error texts in the status,
WriteComplete events (they change nothing), and branches that no state reaches (a Stopping
state without a stop context, a failure to encode a request that the manager itself has
built).

### Desktop

`Desktop` extends `RuntimeService`: the manager is the service, and each Tauri command
is one of its calls. `shown`, `pending` and `capability` are the `ViewState` of app.ts;
`observation` is what `get_runtime_capabilities` keeps between its two calls to the
manager; `exitPhase` is the coordinator's atomic and `cleanup` the task it spawns.

`Mount` is `mountDesktop` with its first status call, also after a reload, which leaves
the commands of the old page running; `Press` and `Accept` are the two halves of
`action()`, and `Enabled` is what `render` leaves enabled. `TakeObservation`, `AskStatus`
and `Accept` are the capability query, `ProfileExists` and `EngineAvailability` the rules
by which a status and an observation become a profile. `RequestExit` is one
ExitRequested event, from the closed window, from the user again, or from the cleanup
(`FinalExit`); `CleanupStops`, `CleanupDone` and `CleanupExpires` are the cleanup and
its three seconds.

`seen` and `expired` are history. The window is gone when the first exit is requested,
so no page is mounted after that, while the commands it left behind go on. A process that
exits runs no destructors: nothing happens after `exited`. A Start that was queued behind
the exit's Stop may still launch a child before the process is gone; `ExitLeavesNoChild`
says so. That child ends by itself at the end of its input (`Ends` of `VoiceRuntime`): the
dead desktop's end of its stdout is closed too, so no write waits for ever.
Left out: the pipeline summary and the error on the page, texts, Tauri's wiring.

### Configuration

A `document` with its numbers, flags and paths goes through `Loads` (`validate_raw`) and
`ManagerAccepts` (`from_product_config` and `validate`) in `Initialize`; `Spawn` writes the
`CommandLine` of `spawn_process` for a generation; `Parse`, `ParseUnknown` and `ParseEnd`
are the turns of the loop of `parse_options` and what follows it. Numbers are written and
read digit by digit, with the 64-bit wrap of `parse_generation`. Behaviours may also begin
with somebody else's command line. `entry` is the process's main: `wmain`, on Windows, converts
its wide arguments, and `MakesPath` fails for a path with an unpaired surrogate (`unicode`);
the other takes the bytes as they are.

Here the checks do not agree. `validate_path` asks nothing about Unicode, so on Windows a
host whose plugin path or base directory has an unpaired surrogate gets a manager, and
every Start of it a Runtime that refuses its command line. `ConfigurationReachesRuntime`
says that this, `UnpairedSurrogate`, is the only reason for such a refusal, and always one.

A limit that the two languages define separately with the same value is one constant. The
JSON syntax and the rules for a portable directory are a Boolean each. Arguments have no
embedded NUL, as none can reach a process; the base directory has no trailing separator. What an
absolute path is, and how long, is taken to be the same for both languages.

### FrameDecoder

`decode`'s loop (`FeedHeader`, `FeedBody`, `Parsed`, `FeedDone`), `finish`, and the reader
that feeds it with reads of `HeaderSize * MaxMessagesPerFeed` bytes. The Rust and the
C++ decoder are the same algorithm and share the module. A byte is its frame and its
offset, so a decoder that loses its place delivers something that was not written. A
header is one datum: payload size, and valid or not.

### VoiceRuntime

Setup in the order of `run_native_with_options` (options, logging, plugin, stdio), then
`run_stdio`: read, decode, dispatch each request through `Session::handle`, write the
response, until the end of the input, a failure, or Shutdown. The peer's actions
interleave everywhere. Frames arrive whole or by halves, which is what `FrameDecoder`
leaves of the byte stream; a malformed frame drops the good ones of the same read. An
allocation may fail wherever the code catches it. The pipeline is its verdict,
Success or EngineFailure.

Stdout is a pipe of bounded capacity, written with a blocking `fwrite` and `fflush` and no
timeout. `room` is how many more frames it takes: each frame written takes one
(`Writes`), `PeerReads` gives one back. With no room left a write waits (`Blocked`) until the
peer reads on or closes its end (`PeerClosesStdout`), and only the latter makes it fail. A peer
that does neither keeps the process for ever, even after closing stdin. `Ends` and `Settles`
state this as their one exception: the process answers what it has read, unless it ends, and
ends after its stdin is closed. The manager keeps them apart from that exception, as its
reader reads stdout to its end or gives it up.

### MockEngine, MockPipeline, VoiceEngineLoader

`MockEngine` is one handle. Controls are atomic, as the ABI makes callers serialize them.
`process_audio` begins, adds to its counters one at a time and in any order (they are
relaxed atomics), and returns; `get_metrics` loads the counters one at a time beside it.
The many checks of a request's pointers, sizes and versions are one Boolean.

`MockPipeline` extends it: the stages of `create` and `run` in order, each a call of the
engine. `Faults` is the set of calls that the plugin may fail although the Mock engine
would not; the ABI demands that a failed call changes nothing but the plugin's own count
of errors. `HostAccepts` is what the manager demands of the summary
(`parse_mock_pipeline_summary`): it refuses one with an error in it, so a plugin that has
counted an error once fails every later run at the host. `SummaryIsCurrent` says that the
host accepts a success exactly if no error was ever counted, and that only a plugin that
failed a call on its own account has counted one; the Mock engine counts none while its
callers keep to the contract. `Available` is what GetCapabilities is told: `WedgedForGood`
includes that a pipeline which can no longer run still calls itself available.

`VoiceEngineLoader` models the loading with its guard, the shared references of owner and
instances, `invoke` as the begin and the end of a call, and the destructors. `mapped` is
the platform's count of references to the library.

## Runs

| Run | Instance | Question |
| --- | --- | --- |
| `manager_safety` | 3 calls of any operation, 2 children | orphans, early answers, lost replies, contexts; does the actor implement the service? |
| `manager_limits` | 4 calls, 2 in flight, 2 request IDs | exhausted IDs, joined stops |
| `manager_liveness` | 2 calls, 1 child, with fairness | does every call and every child end? |
| `desktop` | 2 commands and the exit's Stop, 2 generations | page, capability query, exit |
| `desktop_stale` | 1 command | the architecture document, which the page does not follow |
| `configuration` | limits from 2 to 25, some thousand documents and command lines, paths valid Unicode or not, both entries | checks that have to agree |
| `decoder` | 4 frames, header of 2, payload up to 2, batches of 2 | place, memory, batch, end |
| `voice_runtime` | 3 frames, a stdout that takes 2 | order, exit codes, termination |
| `mock_engine` | generations up to 3, 2 process calls | epoch, counters |
| `engine_info` | the same with 1 process call | the contract's table, which the code does not follow |
| `mock_pipeline` | 5 runs, generations up to 7, every call may fail | ready, wedged, current |
| `engine_loader` | 3 engines | library against references |

The bounds, and why they are enough. `manager_safety`: three calls are a request, the stop
or failure that meets it, and one that joins or comes late; two generations are a child and
the stale events it leaves to the next. Two request IDs give one request and one Shutdown,
and the exhaustion after them; `MaxBacklog` is one unread event per child beside those that
a failed reap leaves. `manager_limits` needs four calls to fill a waiter list of two and
join once more. The decoder's sizes keep the ratio of the real ones: a read is exactly as
many headers as a batch may hold, and a frame may be a header alone; four frames fill a
batch, overflow it and start the next; a declared payload may be two bytes too large, so
that a decoder that took it would buffer more than it may. In `desktop` two commands are a
query and the restart that comes between its two calls, or a command of a page that was
reloaded and one of the new page; two generations are the restart. In `configuration` each
number is taken at 0, 1, its limit and one more, beside every level, flag and directory; a
limit of 12 or 25 has two digits, so that numbers of one to three digits are short of it, at
it, just above it and far above it, and the product and the sum can each wrap. In
`voice_runtime` three frames are a request, Shutdown behind it and one behind Shutdown, or a
malformed frame in the middle; a stdout that begins with room for none, one or two frames is
full at Hello or at a response, and full again after the peer has read some. The engine's
greatest generation has to be odd, like UINT64_MAX; three is two streams, of which the
second cannot be reset, and seven leaves a pipeline three good runs and one that finds the
epoch exhausted. Three engines let one be given back, one be abandoned and one still be
called.

No run checks for deadlock: in every one the system may stop, because the callers have
made all their calls, the manager is closed, the process has exited, or every reference
is gone. What must not stop is stated as a liveness property instead (`EveryCallAnswered`,
`NoChildSurvivesManager`, `Ends`, `Settles`).

Fairness. The manager's is weak fairness of what the actor's loop and its timers do:
commands are taken, timers with a bound fire, bounded waits return, the detached thread
reaps, and a killed child exits. Nothing is assumed of callers, of frames, of voluntary
exits or of aborts. The child's is weak fairness of the single-threaded loop's steps;
of one that writes only while the write does not wait (`~Blocked`), so nothing is assumed of
the peer: not that it drains stdout, closes it, or closes stdin, and `Ends` and `Settles` say
what they need of it. Calls of the plugin are assumed to return, and so are writes of the log,
to a file and to stderr, which the manager drains to its end. The desktop's
is the timer of the exit's cleanup and the event loop taking the request that the cleanup
posts; nothing is assumed of the manager, the user or the page, so `ExitHappens` holds
even with a manager that never answers.

Symmetry of the calls is used for safety runs only.

The violations. `engine_info` checks a row of the ABI contract's lifecycle table, by which
`get_engine_info` in Prepared returns INVALID_STATE. The Mock engine's function looks at
no state. The loader's callers never ask for the info in Prepared, so nothing depends
on it today. `desktop_stale` checks a sentence of ARCHITECTURE.md, that a restart cannot
surface stale state: the page keeps the capability profile of an earlier generation, and
its card shows no generation. Within one query the sentence holds, which is
`ProfileOfOneConnection`.

Every property has a mutant, a definition next to the faithful one with the bug that the
property is there for: a reap that gives up, another child's event taken for this one's, a
shutdown finished too early, a read one frame too large, a run that returns before its
reset.

## Proofs

All proofs are by an inductive invariant `IInv`: it holds in `Init`, every step keeps it,
and it implies the properties. The assumptions are those on the constants, stated with
them: sets of calls and instances are finite, bounds are naturals, the greatest generation
is odd.

- `RuntimeManagerProofs`. `ControlInv` is about the child: types; which phases have a
  process, and with which contexts; the contexts of each published state; that the queues
  of a closed actor are empty; who owns an unreaped child; and what is left to read of the
  current child (`EofInv`): no event is of a later child, and once an end of its stdout is
  queued or taken its reader has returned. It is inductive by itself.
  `OwnInv` is about replies: no call is in the queue twice, a slot holds calls of its
  operation, no two slots hold the same call, a slot's call is open. Only with both does
  `ReplyAfterReap` go through: that an answer comes after the reap follows from the slot
  it was in and from the generation for which it was accepted (`bound`). `Bounded` follows
  from the guards, since each step adds at most one request and at most one waiter
  (`OneMoreStep`), by the library's facts about cardinalities.
  The refinement `ImplementsService` maps the service's child to whether the operating
  system has an unreaped one (`ChildUnreaped`) and its `closed` to the actor's last phase;
  operations, replies and the state are the same variables. Action by action, a step of
  the actor is shown to be one of the service or a stutter. What the service allows only
  without a child needs `ControlInv` and `ReplyAfterReap`. It enters a state for somebody,
  and closes when nobody waits any more, which needs `ServedInv`: a reap is under way only
  in the states of a process, the Stop that cancels a start is in its slot, a shutdown
  under way has waiters, and after the manager is dropped no caller is left.
- `DesktopProofs`: first the service by itself (`NotRunningMeansGone`, one lemma over its
  steps), then the desktop. `Rank` orders what the manager can say in time. Every status
  that somebody holds, an answer not yet taken, an observation or the page, is not younger
  than the manager's, and those of one command or one page are in the order in which they
  were got; so equal generations in a profile leave no room for a restart between
  its two calls. The exit's part ties the phase to the cleanup and to the answer to its Stop.
- `ConfigurationProofs`: an accepted number lies in a range that the manager accepts too,
  for each kind of field, so that a refusal can only be of the paths. The digits need an
  induction. The library's induction theorems cannot be used here, but the well-foundedness
  of < can, which gives each nonempty set of numbers a least one (`LeastNatural`), and from
  it `Induction` and `StrongInduction` with a set in the place of the fact. With them the
  recursive functions are shown to have the values that they seem to have, the digits of
  `Decimal` to stand for their number (`DecimalStands`), and the two loops over digits to
  compute that number, or nothing when it is above the limit (`ParseWorkReads`,
  `ParseGenerationReads`, which is where the guard before the 64-bit product is shown to be
  exact). `ReachInv` follows the parser through the manager's line, option by option;
  `AcceptInv` through any line: the pairs before the parser's are `Taken`, each an option's
  with a value for it and none of them twice. So at a refusal, and at the end, what the
  parser finds is what `Admitted` asks of the line. On the manager's own line only
  `MakesPath` can fail, which is where `UnpairedSurrogate` comes from. A line's words come
  from any set (`OtherWords`) besides those that mean something.
- `FrameDecoderProofs`. `BatchNeverTooLarge` needs that the messages of a feed so far,
  counted in headers, are covered by the bytes already fed, plus the one frame that an
  earlier read may have left nearly complete (`BatchInv`). Framing is about streams of any
  length, and the invariant for it, `StreamInv`, avoids an induction over them: a piece of
  the stream is `Unbroken` when from each of its bytes the rest of that byte's frame and
  the first byte of the next follow at their distances. The pipe and the chunk are such
  pieces, the pipe begins after the last byte read and the chunk at the `Place` where the
  decoder is; so whatever number of bytes the decoder takes are those it needs next. At
  the end of the pipe the same `Place` says whether the last byte lay inside a frame.
- `VoiceRuntimeProofs`. The stage of the loop fixes what the session has recorded
  (`PlaceInv`), and the number of responses, the request in hand and those decoded but not
  yet dispatched are the frames read (`CutInv`).
- `MockEngineProofs`: the epoch is the number of generations handed out, and the counters
  with what is pending are the calls made.
- `MockPipelineProofs`: the engine's state at each stage; a run only gets past prepare
  while no reset has failed. For the summary, the counters with what is due are one whole
  buffer for each call, and an error among them is one the plugin counted for itself.
- `VoiceEngineLoaderProofs`: which references keep the module, where the plugin has an
  engine, and that `in_flight_` is the number of calls. So the last reference finds no
  call running, and `~VoiceEngineModule`'s test of `in_flight_` never decides under callers
  that keep the ABI's rules; it is there for those that do not.

The type invariants are part of these invariants (the pipeline's is a theorem of its own)
and proved; only the manager's, which bounds its request IDs, is also run. `Configuration`
has the types its proofs need as conjuncts of `ReachInv` and `AcceptInv`.

Every safety property that a passing run checks, invariant or action property, is the
subject of a theorem. Only model-checked: liveness, as fairness and ENABLED are out of the
prover's reach.

## Not modelled

- The parsers of Hello and of the capabilities, as pure functions without state: their
  verdict is an input of `HandleHello` and `HandleResponse`.
- Telemetry and logging but for their policies and for initialisations that may fail:
  output whose failure nobody acts on.
- The encoder of frames, which lays out one valid message, `reset()` of the decoder, which
  only tests call, and the C++ decoder's failed allocation.
- Of the desktop: texts, Tauri's wiring, the navigation policy, the artifact layout, and
  the pipeline summary and error that the page shows.
- The generated constants. The tooling under `tools/` is not part of the program, and
  `backend`, `audio` and `core/model-package` are empty in this phase.
