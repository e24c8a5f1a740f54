# Models and proofs of soundcan

soundcan runs LV2 and fluidsynth instruments on a Raspberry Pi: plugin hosts, a
control server, a web UI and the image they boot from. This directory holds
TLA+ models of its concurrent core, the TLC runs that check them, and proofs
for the properties that matter most. Everything under `src/` named below is
relative to the root of the repository; `J` stands for
`src/ATTIC/galv/golang/jalv`.

## The system

| Part | Source | State | Operations | Threads it meets | Here |
|---|---|---|---|---|---|
| worker | `J/worker.c` | request and response rings, a semaphore, a thread, the work lock | launch, schedule, respond, emit, exit, free | main, audio, worker | `JalvWorker` |
| process and restore | `J/process.c`, `comm.c`, `state.c`, `jack.c` | the ring to the audio thread, `run_state`, `paused`, controls, event buffers | set, apply a preset, a cycle, buffer size change | main, audio, JACK | `JalvProcess` |
| life cycle | `J/jalv.c`, `jalvmain.c`, `jalv_console.c`, `process_setup.c` | every pointer of `struct JalvImpl`, `done` | open with its error exits, activate, wait, deactivate, close | main, audio, JACK, signals | `JalvLifecycle` |
| URI mapper | `J/symap.c`, `mapper.c` | sorted symbol table, lock | map, try, unmap | every thread of host and plugin | `Symap`, `Mapper` |
| event buffer | `J/lv2_evbuf.c` | one byte buffer with a capacity | reset, write, iterate | audio | `EventBuffer` |
| UI updates | `J/jack.c`, `jalv.c`, `jalv_console.c`, `process_setup.c` | the ring to the UI, the cached latency | deliver after a cycle, update, latency callback | audio, main, JACK | `JalvUi` |
| tables and text | `J/nodes.c`, `urids.c`, `query.c`, `log.c`, `dumper.c`, `string_utils.c`, `xfeatures.c` | constants after start | lookups, formatting | main | left out |
| PipeWire host | `src/ATTIC/lv2-pw-host` | instances, a global mutex, thread loops | load a plugin or preset, process, quit | per instance: its thread, its loop, its data thread | `LphHost` |
| sample pool | `src/ATTIC/sfizz/FilePool.cpp` | preloaded and streamed files, queues, counters | preload, request, dispatch, collect | audio, dispatcher, loaders, collector | `FilePool` |
| fluidsynth UI | `src/ATTIC/fluidsynth/fluid-ui` | one request at a time, a connection for each command | list, read and write settings | its own; fluidsynth's, browsers | `FluidUi` |
| setBfree plugin | `src/ATTIC/setbfree/src/plugin.c` | the last value of each port, a message buffer | run: what changed becomes MIDI | audio | `SetBFree` |
| web UI | `src/ATTIC/ui` | parameters, `Mutex`, parameter sets, a MIDI message queue | posts for settings; get, send | Go routines, fluidsynth's | `FrontEnds` |
| image scripts | `src/target-images/rpi4-image` | partition table, file system, configuration | resize at first boot, apply configuration | power cuts | left out |

The parts of jalv share one process. The main thread opens a plugin, starts
JACK, and reads commands, drives a UI or just waits; it talks to the audio
thread through a ring of messages and the semaphore `paused`. The audio thread
applies messages at the start of a cycle, runs or bypasses the plugin, and
emits what the worker answered. The worker thread runs the plugin's slow work.
JACK calls back for cycles, for a new buffer size and when the server goes
away; signals and JACK end the program through the semaphore `done`.

What is hard here is written down in `PROJECT.json` under `hazards`, each at its
line: two semaphores whose counts must mean something, a `run_state` read by one
thread while a message that changes it is queued, buffers replaced under a
running plugin, an exit that races with requests, a shutdown that frees what a
cycle still uses, error exits that leave half of a host, and full rings.

The other parts are programs of their own. sfizz streams samples: a promise for
a file becomes a request in a queue, the dispatching thread makes a job of it,
jobs of a thread pool fill the file's buffer and publish how far they are, and a
collection takes away what nobody reads. All of it meets in a `status` and two
counters per file that are written without a lock. The setBfree plugin has no
threads; what is hard there is that an organ at the far end of a MIDI cable, the
values in 43 ports and the values the plugin remembers must agree. The PipeWire
host runs each plugin in a thread that holds the lock of its loop from before the
loop runs until it waits for the end; everything a cycle relies on, and the
lifetime of the variables its callbacks are given, hangs on that order. Both
front ends of fluidsynth send each command on a connection of its own and wait
10 ms for what comes back: an answer can be late, missing, or longer than its buffer,
and fluidsynth, which has a thread for each connection, may carry out two commands
in either order.

## Modules

`JalvWorker` has one action per step of `worker.c` that another thread can see:
schedule commits its packet (`ScheduleWrite`) before it posts (`SchedulePost`),
the thread waits (`WaitRequest`), tests for exit (`CheckExit`) and reads
(`ReadRequest`), and the lock, `work()` and the unlock are separate steps, for the
worker thread and for a restore in the main thread (`RestoreLock`,
`RestoreWorkDone`). The main thread's actions are launch, activation, restore,
deactivation, exit and free in the order `jalv.c` calls them. A packet counts one
slot; its bytes are left out. `WorkerService` is what `worker.h` promises, without
thread, ring, semaphore or lock; `ImplementsService` is the refinement.

The worker is modelled against its own interface: the rest of the source
loses it. `jalv_process_init` clears the pointer that `jalv_open` has set a
moment before, so that this host never launches one (run `lifecycle_no_worker`).

`JalvProcess` starts after `jalv_activate`; whether the main thread reads a console or
drives a custom UI (`customUi`) is chosen there once. A command of the user, each step of
`jalv_apply_state` (`WritePause` to `WriteRun`), each step of a cycle (`BeginCycle`,
one `Apply...` per message, `FinishApply`, `FinishPlugin`) and JACK's buffer size
callback are actions. A message is a record that counts its size in bytes in
the ring, so that a write fits or not as in `comm.c`; the control input counts the bytes
of JACK's events (`MidiBytes`) and the UI's in its buffer (`filled`), and an event it has no
room for is dropped, as `process.c:62` does not look at what `lv2_evbuf_write` returns: the
history `lost` has those. `ControlIn` says whether `process.control_in` was set: `process.h`
documents it as the index of the control port, the source never sets it, and every
run has FALSE. The request for the state that follows a restore then ends the
process (`ApplyRequest`, `crashed`) in the cycle that takes it, before the resumption
behind it. Transport and saving presets are left out.

`JalvUi` extends `JalvProcess` with the way back: after the plugin has run, the audio
thread tells a new latency, its events and, every few cycles, its control outputs
(`SetLatency`, `WriteLatency`, `WriteEmitted`, `WriteMonitors`) through a ring of its own
layout; `jalv_update` takes what was there when it began, a message at a time
(`UpdateBegins`, `TakeEvent`, `TakeMonitor`, `TakeLatency`, `UpdateEnds`); and JACK calls
`latency_cb` once for each mode, which reads the cached latency twice (`AddToLeast`,
`AddToMost`). A buffer size change replaces both rings, also under a `jalv_update` that
goes on with the old one (`ReplaceRings`). What was refused by a full ring or left on
a replaced one is kept in the histories `gone` and `unsaid`. The UI is a custom one of
`jalv_run_custom_ui`: without one nobody reads the ring.

`JalvLifecycle` follows the main thread from the first line of `jalvmain` to the
last, one action per stretch of `jalv_open` between two error exits and one per
step of activation and shutdown. Of an object it keeps whether the pointer to it
is null, live or freed (`ptr`), and whether a live one was overwritten (`lost`) or
a freed one freed again (`misused`). JACK's callbacks and signals interleave. The
`jalvmain` of this source always passes `-i`; the console and the UI loop of
`jalv_console.c`, one option away, are modelled with it. A preset command of a plugin
whose `restore()` is not thread-safe (`safe`) asks for a pause and waits in `pausing`
until a cycle has answered (`PresetCommand`, `BeginCycle`, `RestorePreset`); `pause` says how
far that is. The cycle after it meets the request for the state and crashes, as in
`JalvProcess`. A server that has gone, or rings replaced in between, leave the wait
without an answer (`Unanswered`). `jalv_open`'s branch for `opts.preset` is left out: no
option of this frontend sets it.

`Symap` is `symap.c` with its bisection, one comparison a step, bounds and
position as in the code; a symbol is a number, because only comparisons matter.
`Interner` is the promise of `symap.h`, and `ImplementsInterner` the refinement.
`Mapper` extends `Symap`: its threads hold the lock of `mapper.c` while they take the
steps of `symap.c` one by one (`MapCalls`, `MapSearches`, `MapFound`, `GrowSymbols`,
`SetSize`, `StoreSymbol`), arrays move, allocations fail (`GrowFails`), and one call
takes no lock and sees the writes in between (`LoadArray`, `Fetch`).

`FilePool` is `FilePool.cpp` with its threads: the caller (the synthesizer, whose
calls follow one another), the dispatcher, one job per request and the collector.
Each access of a job to `status` or `availableFrames` is an action, and so is each
step of a collection. A section under a mutex that waits for nothing is one step;
the two in which others can be seen waiting (the removal, which holds
`loadingJobsMutex` until all jobs are over, and the collection) are taken apart.
A file is a few chunks of frames: `filled` counts the chunks the buffer holds,
`available` the ones that readers are told of. `FilePool.h` is not in the
repository: that a holder counts a reader, and that the synthesizer drops holders
and regions before it removes a file, is taken from how the code uses them. Left
out: loading everything into RAM, `setPreloadSize`, `checkSample`, information
about files and the status `Invalid`, which nothing here sets.

`SetBFree` is the plugin with all its ports, their controllers and conversions;
one step of a run goes to the next port that differs from its last value, because
what it passes over changes nothing. A program selected by a preset port replaces
every setting of the organ. A setting with a range is turned to its two ends only;
both ends, -1 (never read) and the byte they are cut to are what the properties
tell apart.

`EventBuffer` is `lv2_evbuf.c` and those who call it, for one port. Bytes are counted
where the code counts them (headers, padding, the unsigned difference of the room),
and `mem` says which event's header is at an offset, so that a write that reaches
into another event is seen; what an event holds is its identity. An input port is
reset and filled from JACK in a cycle (`BeginInput`, `Write`), then by a UI at the
buffer's end (`WriteUi`), then read by the plugin; an output port is offered with
its whole capacity (`BeginOutput`), composed by the plugin or left alone, and read
by `process_cb`. The capacity is any number, for it can be a plugin's `rsz:minimumSize`, and
may be another after a buffer size change (`Renew`). A write beyond what
`lv2_evbuf_new` allocated (`Inside`, `Memory`) leads to `overrun`, where the model stops. A paused plugin's cycle skips the reset and still applies UI
events (`Bypass`): those the next reset drops, which is why `given` starts anew with
it. A UI that writes to an output port is left out.

`LphHost` follows every instance through `lph_thread_loop` (`Thread`), with its loop
(`LoopStart`, `DoQuit`) and its cycles (`Process`). A callback of the loop is one step
that needs the loop's lock; `pw_thread_loop_wait` gives that lock up and gets it back.
PipeWire is not in the repository: that a filter has cycles only after its loop has
answered the server, that a destroyed filter has none, and that a stopped loop must
get its lock once more, is how the code uses it. Waits end by a signal only, and a
SIGINT, which the Go runtime also handles, is any instance's. A plugin that cannot
be made is handed to the ports' setup as it is, which ends the process. What
`ports.c` does inside a cycle is left out.

`FluidUi` is the server of `fluid-ui`, which does one request at a time: it accepts a
connection (`Accept`, or `AcceptFails`, which nobody tests), reads the request (`ReadRequest`,
which waits for as long as the browser says nothing), runs its commands one after
another in `runCommand` (`ConnectFails`, `Send`, `Receive`, `TimesOut`), and answers (`Respond`).
A browser connects, speaks and leaves when it likes (`Fetch`, `Speak`, `Leave`); of one
that has left, or of a failed accept, the buffer may hold anything, so any request
follows. A send to it, or to a connection that fluidsynth has reset, may end the server by
SIGPIPE (`Killed`). A command's connection is named by its sender and the place of its
command among the sender's. fluidsynth is not in this repository: it is a thread for
each connection that carries out the command when it gets to it and answers a `get`
(`Serve`), and may close the connection (`Hangup`). A value stands for the text it is
formatted to; the two reads whose answers can outgrow their buffer are named by
`Verbose`. `held` and `late` are histories: what a setting was while a request was
served, and the commands whose sender stopped waiting.

`FrontEnds` puts the web UI beside it, on the same fluidsynth: a goroutine for each post,
which takes `Mutex` (`LockMutex`), dials and writes (`DialAndWrite`, or `DialFails` at
any of the returns), reads to its deadline (`ReadEnds`), and assigns the parameter after
`Mutex` was released (`Assign`). A post for a MIDI controller takes the same way.

Theorems and proofs are in `JalvWorkerProofs`, `JalvProcessProofs` (also of `JalvUi`),
`MapperProofs` (also of `Symap`), `FilePoolProofs`, `SetBFreeProofs`, `EventBufferProofs`,
`FrontEndsProofs` and `HostProofs` (of `LphHost` and of `JalvLifecycle`, the lives of the two
plugin hosts; `LphHost` says `HostInit`, `HostNext` and `HostSpec` so that one module
can extend both).

## Runs

| Run | Expects | Shows |
|---|---|---|
| `worker` | pass | A wake-up stands for one packet or the exit; order and completeness of requests and responses; `work()` never entered twice; at most one request after exit; nothing runs on a freed worker; exit ends; the service is implemented |
| `process` | pass | A restore that asked for the pause has `run_state` PAUSED to its end; a paused plugin has its resumption coming; the semaphore answers one request; with fairness every preset is restored and its ports are set, and every pause ends as it does in this source, by a crash; the plugin sees each accepted event once and in order unless its full input refused it |
| `ui` | pass | Whatever a UI writes, and however full both rings, the plugin ends up with the last accepted value; the UI gets the plugin's events in order, none twice; JACK knows the latency or is about to, and a latency that stays is told |
| `lifecycle` | pass | Every start, error exit and end: no cycle on missing buffers or an inactive plugin, nothing freed twice, everything but a named rest freed, and an end for whoever asks, unless a console waits for a line or for a pause that nobody will give |
| `mapper` | pass | No answer of a locked call is wrong and no symbol gets a second id, with bisection, moved arrays and failed allocations between the calls; the shared table keeps the promise of `Interner`, and every call ends |
| `filepool` | pass | A file's data outlive the jobs that use them; one job writes at a time and never against a collection; readers are told of frames that are there; no load, listing or wake-up is lost; promises are kept and calls return |
| `setbfree` | pass | One run never overfills the message buffer; between runs the organ has what the plugin believes it sent; the configuration is sent whole; a value that stays is read |
| `evbuf` | pass | However events of JACK, a UI and the plugin fill a buffer of whichever capacity, nothing accepted is overwritten and the reader gets all of it in order; with a capacity that is a multiple of eight all stays inside, with another only a sequence that is past it already lets a write go beyond the memory |
| `lph` | pass | Instances that come, fail and go beside each other: callbacks meet data that is there, cycles a plugin with all its ports, and starts and signals are answered |
| `frontends` | pass | A late answer is never taken for the answer to another command; commands of one front end keep their order unless their sender gave up; every post ends, and every request unless the server spins, was killed or waits for a browser that is silent |
| `process_unpaused` | violation | The cycle that takes the request for a pause lets the restore go and runs the plugin beside it |
| `lifecycle_no_worker` | violation | The worker is lost before it is launched |

Each violation run states a sentence of a comment or header of the source; the
`findings` of `PROJECT.json` quote it.

Other disagreements were met and have no run. Without a control input, and no port of
this source is made one, a state request indexes the ports with `UINT32_MAX`
(`process.c:66`). `jalv_apply_state` queues one after every restore that needed a pause,
in front of the resumption: such a pause always ends with the process, which is
what `PauseOutcome` says. A buffer size change while a pause is queued replaces the
ring and the main thread waits for ever: `ApplyCompletes` therefore speaks of a buffer
size that no longer changes. It waits for ever too when the JACK server has gone, for no
cycle comes any more (`state.c:195`): a console asked to end inside such a
command stays there, and `AskedEnds` names that state (`Unanswered`). An event of a UI
that finds the control input full is dropped and nobody is told (`process.c:62`). A
console `set` stores its value directly and can be overtaken by a preset value
still in the ring: `LatestWins` is checked of a UI, whose values all pass
through the ring. A latency message that a full ring refused is never repeated, because
the cached latency says that it was told: `LatencyTold` and `LatencySettles` exempt it
(`unsaid`). `jalv_update` hands a UI the start of a control message, which is the index of
the port, instead of the value behind it (`jalv.c:479`).
`jalv_mapper_unmap_uri` may read an array that was just moved:
`UnmapReturnsSymbol` (in `AnswersAreRight`) speaks of the calls that take the lock.
After the UI of `jalv_console.c:363` closed, the host waits for another
post, although `frontend.h:51` says that the frontend signals `done` when it is
finished: `AskedEnds` speaks of whoever asks for the end. In a buffer whose capacity is no
multiple of eight an event that just fits takes the sequence past the capacity, because
its padding is not in the test; the unsigned difference then lets every later write
through, also one beyond the memory, where `lv2_evbuf.h:109` says "True if event was written,
otherwise false (buffer is full)": `InBounds` says when, and the run `evbuf` gets there. Without a
JACK server the close after the failed open disconnects the
ports of an instance that was never made (`process_setup.c:126`): `JalvLifecycle` ends
in `crashed` there, and the run `lifecycle` gets to it.

In the PipeWire host a connection that fails returns with the mutex and the loop's
lock held (`lph.c:251`), so that no later instance starts: `Stuck`, which the liveness
properties exempt. It calls `pw_deinit` for each instance after one `pw_init`
(`UsedAfterDeinit`), sets up the ports of a plugin that could not be made
(`FailInstantiate`), and deactivates one whose cycles still come (`lph.c:341`).

`runCommand` ends on an error of the read only: a read that returns 0, because the
connection was closed or the buffer is full, is repeated for ever (`Stuck`), and
`RequestsAnswered` exempts that state. The read of a request has no timeout
(`server.c:116`): a browser that connects and says nothing stops the server for
everybody (`Unspoken`, exempted too). And only SIGINT is handled (`server.c:65`): a browser
that leaves between the two sends of an answer ends the server by SIGPIPE (`Killed`, a part
of `Stuck`). In the web UI two posts for one setting can leave
fluidsynth with one value and the pages with the other, because `Assign` comes after
`Mutex` was released.

Five properties combine what belongs together: `OwnedOnce` (nothing is freed
twice, and the end frees all but a named rest), `AnswersAreRight` (map and unmap
agree), `MapperInv` (the table, the lock and what calls have seen),
`DataOutlivesJobs` (removal and destructor) and `NothingLost` (a reader's load, a file's
place in the list of the collection, a request's wake-up). Where a run does not check
an `IInv`, the types of its module are a part of one of its properties (`OwnedOnce`,
`AvailableIsFilled`).

### Bounds

- `worker`: rings of two packets and three requests, so that a ring is full with
  one refused, and so that a packet can be behind, in and after `work()`; two
  replies to a request, so that the response ring fills inside one `work()`; two
  restores against them.
- `process`: two ports and two values, three commands, so that commands precede a
  preset, and a `set` or another preset follows it before the crash; 63 usable bytes hold three control changes and no
  fourth, or two events; one buffer size change, at any time. A buffer of 64 bytes takes
  two events of a UI, and one after 24 bytes of JACK's, so that events are refused.
- `ui`: rings of 63 bytes hold one event of 52 bytes or three small messages, so
  that either direction refuses; two events or latency changes of the plugin, two
  commands of the UI, the rings replaced once at any time, control outputs every second
  cycle. One mode: the two callbacks of a recomputation do not share anything.
- `lifecycle`: two signals (one is consumed by the loop, one by the wait), two
  presets (found and not found in both orders) and two buffer size changes.
- `mapper`: two threads, three symbols, four calls: two calls of the same symbol at
  once, a call after each, and an unmap across them; a search of up to two comparisons,
  at both ends and in the middle. Of a table of any size the search is proved.
- `filepool`: one file, one chunk, two requests under way (one job writes while a
  second for the same file is anywhere else), two threads, a queue of one place so
  that it is full, one reader, one buffer of garbage and one untaken post. The
  invariants were also run over two files, where jobs and the collector meet on
  different ones: 13 million states, too many to keep as a run.
- `setbfree`: the user turns the trigger of the configuration, a preset, the random
  drawbars and two drawbars of the same number on two manuals; every other port
  takes part in each run. The output has room for all messages.
- `evbuf`: a capacity of 80 bytes takes four events without a body or two with one, and
  then no more; 44 is no multiple of eight, and two events take the sequence past it and
  a third beyond the memory; in 4 there is room for none, and the test lets all
  through. Bodies of 0, 3 and 9 bytes pad by 0, 5 and 7; four events are offered between
  two resets, so that a refused one is followed by one that fits.
- `lph`: three instances, so that two wait for the mutex while one has it, and one
  comes after one has gone; two ports.
- `frontends`: one setting with two values; the list at the start and one connection of a
  browser or one failed accept, so that an answer to the list can arrive during the
  request; two posts, so that one waits for `Mutex` and one overtakes another; one closed
  connection. The invariants are proved for any number.

### Fairness

In `JalvWorker` the worker thread, the audio thread and the host's own steps are
weakly fair: threads are scheduled, JACK keeps calling, `work()` returns. In
`JalvProcess` the audio thread and a restore under way are. In `JalvUi` the audio thread,
the loop of the UI that calls `jalv_update`, and JACK's callbacks are. In `Mapper` a
thread inside a call goes on. In `JalvLifecycle` the
main thread is, a cycle begins again and again while JACK has the client, and ends. In `FilePool` the caller in a call,
the dispatcher, the collector and each job are strongly fair, because a lock or a
`status` that comes free again and again is met at last: the jobs spin on the
status, and the mutexes are those of the standard library. In `SetBFree` the host
goes on calling `run`. In `LphHost` each instance's thread is strongly fair, for the
mutex and the loop's lock come free again and again, and a cycle that began ends;
nobody has to send a signal or start a filter. In `FrontEnds` the server's loop and each
goroutine are weakly fair: reads end at their deadlines; nothing obliges fluidsynth to
carry out or answer anything, or a browser to ask, to say anything once it is connected,
or to leave. `RequestsAnswered` therefore exempts a server that waits for ever in the read of a
request, and one that spins or was killed. Nothing obliges the user, the
plugin, JACK's buffer size or a signal. `AskedEnds` excuses a console that waits
for a line for ever, because `fgets` does not see the semaphore, and one that waits for a
pause no cycle will give; and it counts as an end that the cycle after a pause crashes.

## Proofs

All proofs are for every value of the constants that the named assumptions of
the modules allow. Every invariant and every action property that a passing run
checks follows from a theorem, and TLC checked each inductive invariant under the
run's configuration before it was proved. Those that are not listed in a configuration,
because the properties of the run say what matters of them, are `IInv` of `FilePool`,
`JalvLifecycle` and `FrontEnds`, `HostIInv` of `LphHost`, `UiIInv` of `JalvUi`, `PluginRunsOn`
of `JalvProcess`, and `OnItsWay` of `SetBFree`: add one to its configuration to check it again.

- `JalvWorkerProofs`: the invariant `IInv` of `JalvWorker` is inductive. The
  properties do not carry themselves: that a woken thread finds a packet needs
  to know what every count of the semaphore stands for, including the windows
  between commit and post and between wait and read; that needs the life cycle
  (`LifeCycle`: which threads can be where while the main thread is in each
  phase), and mutual exclusion needs the count of the lock. From `IInv` follow
  `TypeCorrect`, `SemaphoreCounts`, `NoSpuriousRead`, `RequestsInOrder`,
  `WorkIsExclusive`, `ExitIsPrompt` and `FreedIsUnused`; `ResponsesInOrder` adds the
  sequence of responses, and `WorkerImplementsService` shows that every step is
  one of `WorkerService` or leaves it alone.
- `JalvProcessProofs`, the handshake: `IInv` relates where the main thread is to the run
  state, the messages in the ring and the semaphore (`Handshake`, `RunMessages`), and the
  room left in the ring to where a restore is, because the resumption is written
  without testing for space: a paused audio thread has emptied the ring, and what
  a restore adds to it fits. From it `RestoresArePaused`, `PausesEnd` and
  `SignalsMatch`; `LatestValueWins` adds what the last message for each port carries.
- `JalvProcessProofs`, the UI: a message that is taken off the ring in a cycle reaches the
  plugin only if the cycle runs it, and it does because the main thread that drives
  a UI never asks for a pause (`PluginRunsOn`, theorem `RunsOn`). With that, and with what
  was lost having been accepted before (`LostWereAccepted`), `EventsReach` follows the numbers
  of the events from the ring to the input to the plugin. `UiImplementsProcess`
  shows that the steps of `JalvUi` are steps of `JalvProcess` or leave it alone, which
  carries it over as `UiEventsReachPlugin`. For the way back, `UiIInv`
  says that the plugin's events are numbered (`EventsAreNumbered`), that what a
  `jalv_update` has still to take is in the ring it reads, the old one once that was
  replaced (`SnapshotIsThere`), and that the audio thread delivers between cycles
  (`DeliversBetweenCycles`); without them neither `LatencyTold` nor `UiEventsInOrder` carries
  itself. `LatencyIsTold` and `UiEventsAreInOrder` follow. `UiAssumption` asks that
  no mode is called "none", which is how the model writes that JACK calls nobody.
- `MapperProofs`, one call at a time: `IInv` of `Symap` says that the index is a sorted
  permutation and that the bounds of a search enclose every place the symbol could
  have. From it the search is right, shrinks, keeps the index sorted at every
  insertion, and implements `Interner` (`SymapImplementsInterner`).
- `MapperProofs`, all threads: under the lock their steps are steps of `Symap`
  (`MapperIsSymap`), so that `SharedTableIsInterner` follows.
  `LockHeldOnce` says who is inside, and that the size is ahead of the symbols only for
  the thread between its two writes; `UnmapIsCurrent` that what a locked unmap has read
  is still so. Together they are `MapperInv`, and `NoAnswerIsWrong` follows.
- `FilePoolProofs`: a removal is safe because the files it takes have no holder and
  their requests no region (`RemovalIsSafe`), and because a job that is under way
  is in `loadingJobs`, which the removal waits for first (`QueueAndJobs`); so a job, a holder and a live request have their file
  (`DataIsThere`), also in the destructor (`EndsInOrder`), and `DataAreSafe` follows.
  That one job writes (`WritersAreAlone`) needs that a file streams exactly while
  somebody is between taking it and giving it back (`StreamingIsWritten`), and
  that the collector has a file's status to itself from when it takes it to when
  it returns it (`CollectionIsAlone`). That readers are told of frames that are there
  (`ReadersReadFrames`) needs how far a writer is between the frames and the
  announcement (`ChunksAnnounced`). For `NoLoadIsLost` the promise that is being made
  must already be served before its reader counts (`PromiseIsPosted`). `FilePoolAssumption` asks that there be a file and
  that the bounds of queue, pool and counters be positive.
- `FrontEndsProofs`: a command neither carried out nor given up is the one its sender
  waits for (`OthersAreOver`), which needs that the handler inside has `Mutex`
  (`MutexHeld`); so what fluidsynth turns to is its sender's last, and `CommandsInOrder`
  follows. That no answer is taken for another (`NoStaleRead`) needs that the server's
  connection is the one of its present command (`ServerAt`), and that a new connection
  has no answers yet (`AnswersAreHeld`).
- `SetBFreeProofs`: `IInv` says that the messages of a run come from different ports
  it has passed, so that `BufferIsLargeEnough`; that only a port that was never
  read gives a byte above 127, so that `DataBytesAreData`; and that a message of a
  setting says what the plugin remembers of its port (`MessagesAreCurrent`).
  `OrganInSync` extends `InSync` into the run: what the organ has not got yet is in the
  messages (`OnItsWay`). The organ takes the last message that affects an address; that there is
  a last one is the well-foundedness of the numbers (`LastPlace`), and that a message
  for another setting is not taken for it needs that no two share channel and
  controller (`AddressesDiffer`), over all the ports of the panel. The theorem assumes
  `RoomForAll`, an output that takes what `msg_buffer` can hold, because the plugin
  remembers a value as sent whether the output took it or not; the run's output
  has that room. `ConfigurationIsSent` needs no such hypothesis.
- `EventBufferProofs`: `IInv` says where the events are (`Layout`: one after the other,
  the last one ending where the size says), that the size is a multiple of eight, and
  that a reader is at the event after the ones it has read; `EventBufferAssumption` asks
  nothing of the capacities but that they are numbers. `WritesStayInside` is `InBounds`: with a
  capacity that is a multiple of eight and holds two headers (`Exact`: the host's own
  defaults, `jack.c:359`) no sequence leaves it, because room for an event without padding
  is then room for the padded one; with any other a write goes beyond the memory
  only where the sequence of an input is past its capacity already, and an output never.
  `ReadersGetAll` holds of every capacity: up to such a write all that was accepted is read.
- `HostProofs`, the PipeWire host: `HostIInv` ties the owner of the mutex and of each loop,
  the filters and the plugin to where each thread is. `CallbacksAreFramed` and
  `CyclesAreSetUp` follow, for any number of instances.
- `HostProofs`, the life of a jalv process: `CycleIsSafe` speaks of cycles and `OwnedOnce` of
  the end, and neither says what a step may rely on. `PointersFollow` says of each
  pointer up to where it is null (`Unmade`) and from where it is no longer live
  (`Gone`): what is freed later is not gone yet, so nothing is freed twice, and
  what `jalv_close` has passed is gone, except what a program keeps that was never
  opened. `PhasesFollow` says that whatever came out of `jalv_open` is there until
  `jalv_close` begins, and that JACK has the client only between activation and the
  first stop; a second stop, by `jalv_close`, therefore meets no cycle. `CyclesAreSafe`
  and `FreesOnce` follow, for any set of frontends and exits, with or
  without a worker or a thread-safe restore, and any number of signals, commands and buffer size changes.

Only model-checked: everything under fairness, since the prover handles neither `ENABLED` nor
fairness. These are `ExitCompletes`, `PauseOutcome`, `ApplyCompletes`, `LatencySettles`, `AskedEnds`,
`PromiseIsKept`, `CallsReturn`, `StayingIsRead`, `InstanceStarts`, `QuitEnds`, `RequestsAnswered`,
`PostsEnd`, and the liveness part of `ImplementsService` and `ImplementsInterner`, whose safety
part is proved. That `Interner` and `WorkerService` are what the headers promise, and that the
bounds of a run are large enough, is argued above and not proved.

## Outside the models

Zix rings, semaphores and threads, lilv, the plugin, JACK and PipeWire are not
in this repository's own code: they are modelled by what their callers rely on. A ring
write is whole or nothing, `jack_deactivate` returns after the last cycle,
`jack` calls the buffer size callback between cycles, and `zix_sem_wait` never
fails. Memory order below the level of a statement is not modelled: `run_state`
and `state` are plain fields read by two threads, each read is one step here.
Text, logging, RDF data and port metadata are left out everywhere.

## Not modelled

- The lookup tables and text of jalv (`nodes.c`, `urids.c`, `query.c`, `log.c`,
  `dumper.c`, `string_utils.c`, `xfeatures.c`): nothing changes after the start.
- `src/ATTIC/session`: a second copy of `jalvmain.c` and its Go caller.
- The scripts of the image: straight-line calls of tools (`parted`, `resize2fs`) whose
  behaviour under a power cut is not in the repository.
- The queue between the web UI and `pw_midimq`, the parameter sets and the cached list of
  fonts: hazards of them are listed in `PROJECT.json`, but nothing in the source says
  which behaviour is meant.
- Of modelled parts: saving and deleting presets and transport (jalv), the
  conversion of events in `ports.c` and the URI table (PipeWire host), loading into
  RAM and a changed preload size (sample pool), the files and the text of responses
  (fluidsynth UI).

What is left to do is what stands behind the liveness properties: that nobody waits for
what nobody can give, stated as invariants (whoever has the mutex and the locks of
`LphHost` can go on; a caller of `FilePool` that waits has somebody who ends the wait; a
handler of the web UI that waits for `Mutex` has one ahead of it who does not), and
measures that every step of a bounded search or sweep brings down.
