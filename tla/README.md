# A TLA+ model of Simple STT

Simple STT is a push-to-talk dictation program. A desktop shell (AutoHotkey on Windows,
`simple-stt-linux` on Linux) turns a hotkey into commands for a long-lived *capture
service*, which records the microphone, hands the audio to a disposable *inference
child* through a *supervisor*, optionally has the text cleaned up by a language model,
and queues it for the shell to type or paste.

What is hard about it is not in any single function. Every start or cancel bumps a
generation counter while threads of older generations are still queued on a mutex or
blocked on a child that may never answer. Shell commands run as threads and as processes
of their own over the same session file. A paste borrows the clipboard while the user
goes on copying. Reading the configuration writes it. The modules in this directory
model those parts as they are coded, TLC checks them on small instances, and TLAPS
proves the most important results for instances of every size.

## Inventory

| Part | Source | State | Interacts with | Hard part | Modelled |
|---|---|---|---|---|---|
| Worker supervisor | `capture/inference_supervisor.rs`, `capture/process.rs` | configuration, child handle and its readiness, time of last use, tracked PID | child (frames on pipes), request threads and the idle check (mutex), shutdown coordinators (PID without the mutex) | a hung child holds the mutex; kill by PID outside it | `WorkerSupervisor` |
| Inference child | `bin/simple_stt_infer.rs`, `infer/*` | loaded engine | supervisor | may crash, fail or be silent | as seen by the supervisor |
| Capture service | `bin/simple_stt_capture.rs` | recording, four sets of sessions, generation, overlay, preferences, result channel | all others | late results, superseded work, shared worker | `CaptureService` |
| Audio path, device recovery | `capture/audio.rs`, main loop | streams, `recording_active`, frame channel, retries | service | samples of one recording in another; stale stream errors | `AudioPath` |
| Linux shell, event buffer, polling | `bin/simple_stt_linux.rs`, `EventBuffer`, `ipc_server.rs`, `simple_stt_ctl.rs` | session and sequence files, locks, 512 events | service, clipboard, compositor | two processes on one file, delivery after cancel, restart of the numbering | `ShellSession` |
| Global shortcuts | `bin/simple_stt_linux.rs` | gates, memory of keys, pending retry | portal or X11, shell commands | a press and its release are worked on by two threads; sessions that end with a key down | `Shortcuts` |
| Clipboard transaction | `common/clipboard.rs`, `common/wayland_clipboard.rs` | buffered selection, restored source, offer | applications, shell | restoring over a newer copy | `ClipboardCache` |
| Settings, configuration, models, downloads | `config.rs`, `bin/simple_stt_settings.rs`, `model_setup.rs`, `models.rs` | configuration file, setup record, model and partial files, instance lock | all | readers that write, saves on stale pages, partial files | `ConfigStore` |
| Overlay window | `capture/overlay_linux.rs`, `overlay_model.rs` | surface, asked and granted size, picture | service, compositor | answers that are several commands old | `OverlayWindow` |
| Text cleanup | `cleanup/` | none that outlives a call | service | bounded waits | as a thread that answers or fails |
| AutoHotkey shell, Windows overlay, screen context, localization, logging, packaging, web pages | | | | | no, see the end |

`PROJECT.json` lists every part with its status, and under `hazards` what in this code a
test would hardly reach, at its line, with the properties that cover it.

## The modules

### WorkerSupervisor

One `WorkerSupervisor` behind its mutex. `holder` is who holds the mutex and `request`
how far that thread is in its exchange with the child; `config`, `worker` and `lastUsed`
are the supervisor's fields; `tracker` is `pid_tracker`, the only thing that can be read
without the mutex; `proc` is the process table as far as this program can see it
(`free`, running `cold` or `primed`, `zombie`), with ids that are reused as soon as they
have been reaped.

* A request is `Lock`, then `replace_config` and `ensure_worker` (`Reuse` of a running
  child, or `Recycle`, `Launch` or `LaunchFails`, `Track`, `HandshakeOk` or
  `HandshakeFails`), then the answer (`WarmUpDone`, `WarmUpFails`, `Transcribed`,
  `EngineError`, `WorkerDied`). Nothing forces the child to answer. A warm-up whose
  answer cannot be read leaves the dead child's handle and PID behind, as the code does.
* A child is reaped in one step (`Reaps`) and the tracker cleared in the next (`Marks`:
  `Ends`, `CaretakerEnds`, `CoordinatorEnds`); it is spawned in one step (`Launch`) and
  its PID stored in the next (`Track`). The caller that reads the tracker without the
  mutex may do so in between, and finds a PID that is free or somebody else's by now, or
  none although there is a child. `ChildIsTracked` says when it is right.
* `UpdateRuntimeConfig` and `ShutdownIfIdle` take the mutex for no more than that.
* `shutdown_shared` and `shutdown_shared_if_current` are two threads: the one that
  queues for the mutex (`inner`) and the caller (`outer`) that waits for it, times out,
  asks `is_current`, reads the PID, kills it and waits once more. Each of these is a
  step of its own, because other threads run between them.
* `is_current` is a parameter of the code; here it is the variable `obsolete`, a set of
  coordinators that only grows, as the code's counter comparison does.

### CaptureService

The main loop and the threads it spawns. A handler is one step: only the main loop
touches its sets of sessions, and the counter that it shares with the threads (`gen`)
changes at most once in a handler. A thread takes one step from one access of shared
state to the next: `Begin` (join the coordinator, check the generation), `LockWorker`
(take the mutex, check again, except in a model test), `UseWorker` (the supervisor's own
actions), `SendResult`. `bg` is the channel of results, `log` the sequence of those
events per session that decide its fate at the client.

`CaptureService` instantiates `WorkerSupervisor` with its own threads and with
`obsolete` replaced by "the coordinator of a start whose generation is no longer
current"; cancels and unloads have no such check in the code and none here. Every change
of the worker's variables is one of the supervisor's actions, and `Supervised` says that
each behaviour of the service is one the supervisor allows.

What is left out: the samples themselves, language resolution, event texts, and the
commands that touch no dictation (history, notices, the cache for retries; downloads are
in `ConfigStore`). A start may be refused or skipped for reasons that are not modelled,
so it may be at any time. After `Shutdown` the threads may go on for a while, although
the process ends as soon as the coordinator returns: more behaviours than the code has,
none fewer. Kernel calls on an own, unreaped child (`try_wait`, `kill`) are assumed not
to fail. The idle timeout, minutes long, is assumed not to pass between the tick of the
timer and the lock of a free mutex by the thread it spawned.

`MCCaptureService` adds the symmetry TLC uses. `MCShellSession` and `MCConfigStore` do
the same for the modules below; the other runs need none and use the module itself.

### ShellSession

The Linux shell's commands as `Threads`. Those in `Daemon` are threads of the daemon and
share `DICTATION_ACTION_LOCK` (`lock`); the others are one-shot processes, each with a
mutex nobody else sees. All share the session file (`session`), the number of the last
event seen (`seqFile`) and the clipboard lock (`clipLock`).

* A command is a sequence of steps between which others run: publish a generation, send
  a request, have it executed, hear the answer, write the file. `shutdown` takes no
  lock, as in the code. A request that a thread gave up on (30 s) stays in `orphans` and
  is executed all the same.
* The capture service is what a shell can observe of `CaptureService`: which session
  records, which are worked on, which await delivery, and the event buffer with its
  limit (`items`, `nextSeq`). It may be stopped and started again; `seqFile` survives.
* A delivery types, or publishes its text, verifies it, sends the paste key and
  completes, and looks at the session file where the code does. `inserted` records what
  reached an application. `floor` is a history variable: the generation below which a
  cancel, a retry or a newer recording ended everything. A shutdown raises it only if
  it met no toggle half-way (`EndsForGood`): it takes no lock, and a start or a stop
  under way writes the generation it knows over the shutdown's
  (`ShutdownEndsDictation` below).

`wl-copy`, the automation tools and their arguments, the tray and the toggles of single
settings are not modelled.

### Shortcuts

The listener thread, the `wire` of events it has not taken, and the threads it starts. A
press and its release are given to two threads, which reach the dictation lock in either
order. The *record gate* (`pressed`) makes a delivery wait for the release; the *retry
gate* (`pending`, `armed`) makes a retry wait for its own. The listener's session ends in
two ways: the portal reports it (`Closes`), which drops a held retry and is remembered in
`closed`, or the listener gives up by itself (`Fails`: the changed triggers cannot be
written, the X11 connection breaks), which keeps it. The portal's listener polls
activations before deactivations (`Next1`); the X11 one remembers which keys are down.
Starting, stopping and retrying are one step each: what they consist of is
`ShellSession`.

### ClipboardCache

The Wayland clipboard daemon and the transaction of a paste. `real` is the compositor's
selection, `seen` what each owner knew of it when it last dispatched its events; between
two dispatches users copy and clear as they like. The owner of a transaction is the
daemon (`cache`), which buffers the selection ahead of time and stays the owner of what
it restored, or a child process (`cold`) when no daemon listens. Copies are numbered: the
n-th is content n. The steps of a transaction (`tx`) are backing up, checking that the
backup is still the selection's, publishing the dictation, waiting for its reader,
restoring. The daemon may be killed and the setting may be toggled at any time.

The delivery (`client`) has limits of its own: 50 s to begin, 1 s to arm, 10 s after the
key, 2 s for an answer to its abort. So it may give up in every state (`GivesUp`) and
leave without an answer (`Leaves`), and the next one may begin, while the owner still has
the old request in its queue or is at work on it (`paste` says for whom). The daemon's
queue holds these requests and the supervisor's orders, one every half second whether or
not the daemon listens; the code does not bound it, the model does by `MaxOrders`.
One thing is assumed of a cold child: a second one does not begin before the first has
ended, although the code only waits for it as long as for the daemon.

### AudioPath

From the microphone to the samples of a recording. A sample is the recording it was
spoken into and a frame is a set of those, so gain, resampling and levels need no
arithmetic here. A callback reads `recording_active` once (`CallbackReads`) and sends
what it gathered later (`CallbackSends`); the channel is bounded and drops. The main
loop opens, refreshes and replaces streams, in several steps as in the code, when a
device comes or goes, an error is reported or the configuration changes, and retries a
bounded number of times.

### ConfigStore

The configuration file, its readers and its writers. `AppConfig::load` writes back what
it read, so that every load is a read and a write with other processes in between.
Settings pages post to a server that holds the instance lock and works on one request at
a time under `config_lock` (`guard`). The supervisors of the shell, `simple-stt-ctl` and
the user's editor take no lock. Downloads write into partial files that are verified and
renamed; the recommended-model setup records the selection it was accepted for and
assigns the models once they are all there, also after a restart of Settings in between.

A page has a draft, a hash and what it takes for the saved configuration (`view`). A save
compares the hash with the file (`SaveChecks`) and then writes the whole draft
(`SaveWrites`), however old. A refused page fetches the state once more, and if no more
than the cleanup switch has changed (in the code also two settings that are not in the
model) it saves its old draft with the new hash (`LatestBegins`, `ResaveBegins`). For the
properties, `made` remembers which configuration a draft was made from.

`run` ends, and with it the instance lock, while threads of earlier requests are at work
(`Ends`); they go on until the process is gone (`Dies`), and another server may begin
meanwhile. A cleanup action without a configuration loads, and so writes back, without
`config_lock` (`ActionBegins`).

A configuration is reduced to the models it assigns, the cleanup switch and the
screenshot switch that depends on it. Two things the code does that a reader may not
expect are in the model as they are: the toggles and `simple-stt-ctl` save without
comparing hashes, and the page's hash may be that of a later reading of the file than
the values next to it (`state_response`). Not modelled is the page's own merge of an
unsaved draft with a configuration that was reloaded (`state.svelte.ts:114-145`): here a
refresh replaces the draft.

### OverlayWindow

The thread that owns the layer surface. A command changes `content`; presenting it
creates the surface, asks for another size, or draws at once; `wire` holds the
compositor's answers, each to a request that may be several commands old. A text is
named by what it says, a size by the text it fits. Fonts, colours and the visualizer are
left out, and buffers can always be allocated.

## The runs

| Run | Instance | What it shows |
|---|---|---|
| `Worker` | 2 request threads, 2 coordinators, 2 sets of preferences, 1 PID that is reused | no second child, a tracker that is right when a request is in flight, answers to the request in flight only, and that hung requests are broken and coordinators return |
| `CaptureDictation` | up to 4 of: 2 starts, 2 stops, 1 cancel | one dictation at a time, one fate per session, no stale result reaches the client, the overlay shows what goes on |
| `CaptureCommands` | up to 3 of: 3 starts, stop, model test, unload, reload; 2 sets of preferences, 1 idle timeout | the frozen configuration is the one that transcribes; neither the idle check nor a superseded start's coordinator takes the worker from a dictation |
| `CaptureLiveness` | 2 starts, 1 stop, 1 crash, fair | every phase is left; the refinement `Supervised` |
| `ShellSession` | 2 threads of the daemon, 4 commands, 1 given-up request, 1 foreign event, 1 restart, 3 events of history | nothing cancelled is delivered, the session file tells the truth, no foreign text is pasted, an outcome in the history is found |
| `ShellProcesses` | 2 processes, 3 toggles or cancels | a disagreement, see below |
| `Shortcuts` | 2 threads, both backends, both modes, 3 presses, 1 end of the session, fair | delivery waits for the release and ends without it; a retry does not outlive a session that the portal has closed |
| `ClipboardCache` | a copy before and one at any time, 2 pastes, 1 toggle, 1 waiting order, 1 reader, 1 death of the daemon, fair | the text is off the clipboard afterwards, no copy is lost or overwritten, each paste ends, also when its delivery has left |
| `AudioPath` | 2 devices, 2 recordings, 2 streams, 1 change, 1 frame of queue, fair | the microphone is only listened to while recording, through one stream; broken streams are given up and no others |
| `ConfigStore` | 2 Settings processes, 2 pages, 1 process outside, 2 downloads, 6 events of (2 launches, 2 loads, 2 posts, 2 downloads, 1 other) | model files are whole, no save over another page's that the draft was not made from, the setup respects a later choice |
| `LostSave` | 1 server, 1 page, 1 process outside | a disagreement, see below |
| `OverlayWindow` | 1 state, 2 levels, 2 texts, 2 locales, 5 commands, 3 answers, fair | pictures fit their buffers, and in the end the window shows what was asked last |

Bounds. Two starts are the least with which one dictation supersedes another, three the
least with which a *superseded* start's coordinator meets a prepared worker; a cancel
adds a generation without a session. What the threads do is not bounded: each of them
runs to its end in every order. Two shell threads are the least that race; four commands
allow start, stop, cancel and start again, so that an older delivery meets a newer
recording. A history of 3 events lets 1 event of no interest evict an old one. What
was copied before lets something be backed up, and the copy another one be made in the
middle of the paste; a second paste meets what the first one restored, or its request the
one whose delivery has left. More orders than one at a time in the daemon's queue say the
same again. The end of the service is left out of the liveness run, where it makes TLC
take more than four minutes, and is in `CaptureDictation`. `Supervised` is checked on starts,
stops and a crash; for the other commands it is proved (`CaptureService_proofs`). That a retry kept by one lost
session is dropped with the next one that is closed needs two ends of the session and is
proved only. Two streams are the least with which an
error may be that of a replaced one. Two servers contend for the instance lock, two
pages of one server for `config_lock`, two downloads for one model's name; a second
process outside Settings would only repeat what one does. Three answers under way let a
configure be older than two commands. Names, preferences, texts and PIDs are model
values or small numbers; two of each tell "the same" from "another", and where one of
them suffices (models of `ConfigStore`, where a selection is empty or not) there is one.
Deadlock is checked in `Worker`, which never stops; in the shell's runs the user
can always copy something, so that there is none to find, and elsewhere the bounded
commands are used up in the end.

Fairness. In `WorkerSupervisor`, the threads that are not blocked run, and a read
returns once the child is dead; a living child need not answer, so `HungRequestIsBroken`
and `ShutdownReturns` rest on the coordinators' timeouts and kill alone. In
`CaptureService`, threads run, a thread that waits for the mutex gets it in the end
(strong fairness: the mutex comes and goes), the main loop handles its channel. Here the
child is assumed to answer or die in the end: the code has no timeout for inference, and
without this assumption `DictationConcludes` does not hold until the user starts or
cancels something. In `ClipboardCache`, the daemon's loop and the transaction are
threads whose waits all have limits; nobody has to copy, to read or to wait, and the
delivery need not do anything. In
`Shortcuts`, the threads run and their waits have deadlines; nobody has to press or to
release. In `AudioPath`, the main loop serves each of its channels (strong fairness for
an event, since other work comes between) and finishes what it began, and no callback
blocks. In `OverlayWindow`, the timer ticks and the compositor's answers are dispatched.

## Disagreements found

Two are checked by runs of their own.

* **ShellProcesses.** `request_stop_recording` writes the session file after the service
  has answered, with the generation it read before (`simple_stt_linux.rs:854`).
  `DICTATION_ACTION_LOCK` is a mutex of one process. A cancel by another process
  (`simple-stt-linux cancel` from a compositor binding) that falls in between is undone,
  and the cancelled dictation is delivered, against `docs/architecture.md:132`. With all
  commands in the daemon it does not happen to a cancel: `CancelsHold` proves that.
* **LostSave.** A load writes back what it has read (`config.rs:749`). A process that
  merely starts, and read the file before a save in Settings, writes the old values over
  the saved ones. `docs/configuration.md:50` says that valid values are retained;
  Settings guards only the opposite order.

Thirteen more are stated in the modules as formulas, with the remark that the code does
not hold them. Each is reproduced by adding its name to the INVARIANTS or PROPERTIES of
a configuration: those of `CaptureService` to `CaptureDictation`
(`ObsoleteCancelStandsDown`; `NewRecordingInterrupts` with three starts) or
`CaptureCommands` without its symmetry (`QueuedObsoleteNeverStarts`,
`ObsoleteStartKillsNothing`), the others to that of their module, with a second toggle
for `NothingResurrected`.

* **`ObsoleteCancelStandsDown`** (`CaptureService`). `Cancel` spawns the unconditional
  `shutdown_shared` (`simple_stt_capture.rs:956`). If its thread gets the mutex after
  the next recording has warmed up the worker, that worker is unloaded, against the
  comment at `inference_supervisor.rs:418`. The dictation still works, at the price of
  another model load.
* **`QueuedObsoleteNeverStarts`** (`CaptureService`). The thread of a model test checks
  its generation before it locks the worker and not after
  (`simple_stt_capture.rs:1089-1099`), against `docs/architecture.md:87`.
* **`NewRecordingInterrupts`** (`CaptureService`). A start clears the sets that say
  whether the worker is busy and only then may be refused or skipped
  (`simple_stt_capture.rs:617-662`). Its coordinator is the only interrupt of the older
  request. The next start finds the sets empty, spawns none, and by its new generation
  makes the other one stand down: a request that hangs keeps the worker, against
  `docs/architecture.md:85`. What does hold is `StaleRequestIsInterrupted`: the
  generation just before the current one is.
* **`ObsoleteStartKillsNothing`** (`CaptureService`). A coordinator asks `is_current()`,
  reads the PID and kills it in three steps without the mutex
  (`inference_supervisor.rs:448-458`); a newer start's prepared child may be the one
  that dies, against `docs/architecture.md:86`.
* **`KillsOnlyChild`** (`WorkerSupervisor`). The tracker is read and used without the
  mutex. A child whose handshake failed, or that was shut down, is reaped before the
  tracker is cleared (`inference_supervisor.rs:376-377`, `388-393`), and it may be
  reaped between the reading of its PID and the kill (`451-458`); the system may have
  given the PID to another process by then, against "terminate only the tracked
  disposable child PID" (`inference_supervisor.rs:409`). Likewise a child is running before
  its PID is stored (`329-337`): a coordinator that times out there finds nothing to
  kill and returns an error.
* **`ShutdownEndsDictation`** (`ShellSession`). `shutdown` moves the generation on and
  then asks the service to stop (`simple_stt_linux.rs:1122-1131`), without the lock. A
  stop that is under way writes the generation it knows over the new one (`:854`), finds
  itself current and types its text before the service stops.
* **`PublishedForSomebody`** (`ClipboardCache`). Buffering may take 45 s and the backup
  another 45 s. The delivery gives up after 50 s and reports that the clipboard backup
  is unavailable (`simple_stt_linux.rs:2395-2416`); its request is carried out later,
  without the clipboard lock, and puts the dictation on the clipboard for a delivery that
  has left, until the limits of the transaction are over, against
  `docs/architecture.md:199`.
* **`RetryOfThisPortal`** (`Shortcuts`). The comment at `simple_stt_linux.rs:1354` says
  that a held retry must not paste after a reconnect. The listener takes the retry out
  of its gate when the portal reports the end of the session; when it leaves because the
  changed triggers could not be written (`:1352`) it does not, and the next session's
  release lets the old retry go.
* **`SavesOverItsOrigin`** (`ConfigStore`). A save should replace what its draft was made
  from ("config changed outside Settings; reload before saving"). It may not: the hash of
  `/api/state` is taken after the values that go with it were read
  (`simple_stt_settings.rs:413`); a refused page saves its old draft with the new hash
  when only a few settings have changed, and so sets those back
  (`state.svelte.ts:219-224`); and no lock keeps the shell's toggles and `ctl` out
  between the check and the write.
* **`OneServerWorks`** (`ConfigStore`). `run` frees the instance lock while its request
  threads may still be writing (`simple_stt_settings.rs:173-177`), so that two servers
  may work on the file, against the purpose of the lock.
* **`NothingResurrected`** (`ClipboardCache`). What the daemon has restored stays
  eligible when it is disabled and enabled again; if the clipboard was cleared
  meanwhile, the next paste restores the old bytes. The comment at
  `wayland_clipboard.rs:168-169` and `docs/architecture.md:199` say that older bytes are
  not.
* **`OnlyOwnVoice`** (`AudioPath`). Frames that are still queued when a recording ends
  are appended to the next one (`simple_stt_capture.rs:298`, `audio.rs:442`), against
  `docs/architecture.md:101`.
* **`RecordsOnlyWhileHeld`** (`Shortcuts`). In hold mode the thread of a release may
  take the lock before the thread of its press does: it finds nothing to stop, and the
  recording starts with the key up. `docs/linux-wayland.md:151-152` calls true
  hold-to-record "intentionally not required for the Linux MVP".

## The proofs

TLAPS checks all of them to the last leaf. Nothing depends on how many threads,
sessions, pages, models, texts or process ids there are. The assumptions are the named
ones on the constants of each module: who is nobody and who is absent is told apart from
who is there, bounds are natural numbers (`WorkerAssumption`, `CaptureAssumption`,
`DevicesAssumption`, `ConfigAssumption`, `FileAssumption`, `ShortcutAssumption`,
`OverlayAssumption`, `DaemonAssumption`, `NobodyAssumption`, `CommandsAssumption`,
`BoundAssumption`); TLC evaluates each of them. That the service's parameters satisfy
the supervisor's follows from its own (`SupervisorAssumption`). The bounds on commands
are constants of the models: the theorems hold for each value of them, so for any finite
history.

Each proof has the same shape: an inductive invariant `IInv` (checked by TLC first), a
lemma for the initial states, one lemma per action or kind of actor with one step per
conjunct it can disturb, and the theorems from `Invariance`.

**`WorkerSupervisor_proofs`.** `TypeOK` alone is not inductive: `WarmUpDone` writes into
the handle, which keeps its type only if there is one, and that there is one while a
request is in flight is `RequestMatchesConfig`, which needs `Consistent` (handle, clock
and tracker agree) and `MutexRespected` (nobody else changes the handle meanwhile);
`ReadyIsPrimed` needs `ChildIsTracked`. `Consistent` also says what is true in the
windows between reaping and marking and between spawning and storing, where the tracker
is behind. So `IInv` is their conjunction, and there is one
lemma for each kind of actor with one step per action. From `Invariance` follow
`TypeCorrect`, `NoOrphan`, `RightModelAnswers`, `ReadinessScoped` and `MutualExclusion`,
and with a case split over the actions the action property `RequestOwnership`.

**`CaptureService_proofs`.** None of the properties is inductive alone: that a late
result finds its session untracked depends on who sent it, with which generation, and
that nobody else has this generation. The conjuncts of `IInv` say this in parts:

* `Fresh`: sessions and tests that have not begun left no trace. So a handler spawns a
  thread that was never spawned before.
* `Generations`: an accepted start has a generation of its own, its threads bear it, and
  what is tracked is of the current one.
* `Captured`: what the closures captured, and what the holder of the mutex installed.
* `Mail`: a thread sends at most one result and is done then.
* `Phases`: recording, transcription and cleanup of a session exclude each other and
  come in this order, and nothing has been said of the session until then.
* `NothingForgotten`: who waits is waiting for somebody.

There is one lemma per handler and kind of step, and under it one step per conjunct. A
thread that takes the mutex finds no request in flight: there the supervisor's `IInv` is
needed, so the two are carried together. It is not proved again: every step of the
service is one of the supervisor's (`SupervisorStep`), whose own proofs are instantiated
(`WSP`, and `SameSupervisor` for the two instances being the same). `SupervisorStep`
also is the refinement, `Implements`. `TypeCorrect`, `Supersession` (`OneDictation`),
`NobodyForgotten`, `RightModelTranscribes` (`FrozenModel`) and `NoOrphan` follow from
the invariant; `Silence` (`StaleSilence`) and `SingleFate` (`OneFate`) from `Notices`,
which says which step tells a client what; `HonestOverlay` (`OverlayShowsWork`) by an
induction of its own, in which `OneDictation` rules out the states where the handlers
would set the overlay wrongly.

Who interrupts or spares whom is a second induction on top of the first, `Turns`
(`TakesTurns`), which follows the order in which threads and coordinators get the mutex:

* `InExchange` and `Accounted`: a thread is at the child only as the holder, and a
  request of the current generation is in one of the loop's sets. So the start or cancel
  that supersedes it finds the sets not empty and spawns a shutdown; `NoShutdownAhead`
  says that this one was not spawned before. With that `StaleRequestIsInterrupted` is
  inductive, as it is not alone.
* `Ahead`: when a shutdown that nobody may want any more is past its check
  (`PastItsCheck`: an obsolete coordinator with the mutex, an idle check that finds it
  free and the worker long unused), the warm-up of the recording in progress is still to
  come or the worker is dead (`WarmUpWaits`). A warm-up needs the mutex after that
  shutdown, so a worker that is `Prepared` was prepared later.

From it follow `Interruption` (`StaleRequestIsInterrupted`), `ObsoleteStartsStandDown`
(`ObsoleteStartStandsDown`) and `IdleChecksSpare` (`IdleCheckSparesDictation`). What
an obsolete coordinator kills outside the mutex is not covered
(`ObsoleteStartKillsNothing` above is false).

**`AudioPath_proofs`.** `OneEar` holds because a stream is only replaced while nothing
records; that needs to know where in its replacement the main loop is (`Replacing`) and
that it records nothing there (`Quiet`). That only a broken stream's error ends the
service's stream needs `ErrorsAreTrue`: the errors in the channel are of streams that
broke. Results: `TypeCorrect`, `Discretion` (`ListensOnlyToRecord`), `SingleEar`,
`LateErrorsAreHarmless` (`HealthyStreamKept`).

**`Shortcuts_proofs`.** `GateClosed`: as long as a thread of a press has seen no release
after it (`owed`), the record gate is shut; `SessionOpen`: events come from a session
that is open, which is newer than any the portal has closed. Results: `TypeCorrect`,
`ReleasedFirst` (`DeliversReleased`), `NoForeignRetry` (`ClosingEndsRetries`).

**`ShellSession_proofs`.** `OwnText` (`NoForeignText`) from `ClipboardOwned`: a delivery
is between taking and releasing the clipboard lock exactly when it holds it, and when it
sends the key the clipboard holds its text or something of the user's. It holds for any
mix of threads and processes, and so do the next two.

* `TypeCorrect` (`TypeOK`). That the notices of a superseding start are a sequence of as
  many events as there are sessions needs that every finite set of sessions can be put
  in order. This is an induction over data; it is proved by a least counterexample
  instead (`Sortable`, from the well-foundedness of the numbers). `Consecutive`, that the
  buffer is numbered without a gap, makes the last event's number the last one given out.
* `OutcomesAreFound` (`OutcomeIsVisible`). A thread that waits starts from a number in a
  file that every other shell advances. `OutcomeInv` says why it misses nothing: a start
  not yet executed, also one its thread gave up on, is of a session the service knows
  nothing of (`StartsAreNew`); what is recorded has no outcome yet (`Open`); nobody is
  ahead of the service's numbers before a restart (`CaughtUp`); so an outcome that comes
  after the stop comes with a later number (`Expected`, from the moment the stop is
  executed). Each handler of the service has a lemma on which sessions it tells of.

Two hold where all commands are threads of one daemon (`OneDaemon`).

* `CancelsHold` (`CancelledStaysCancelled`), from `MutexHeld` (who is in a critical
  section is the holder) and `GenerationsGrow` (what the file holds and what a thread is
  about to write is older than the clock and no older than what was ended); a shutdown
  takes no lock, and its number is one that nobody can write over only if no toggle is
  half-way (`EndsForGood`).
* `FileTellsTruth` (`MicrophoneIsKnown`), from `MicInv`. What the run checks is only
  about the moments when no command is half-way; in between, `HalfWay` says for each step
  of a command what it has already done to the file and the service, and `Truth` holds as
  soon as nobody is in the mutex's critical sections (`Quiet`). Before a shutdown reaches
  the service nothing is claimed (`Doomed`): it works without the mutex, so file and
  service may differ until the service is gone, and then `Down` and `AtRest` take over.

**`OverlayWindow_proofs`.** `UpToDate` is stronger than what the run checks: a window
that is not going to repaint shows what it should, whatever is still on its way.
Results: `TypeCorrect`, `PicturesFit` (`BufferFits`), `NothingForgotten`
(`NothingLeftToPaint`).

**`ConfigStore_proofs`.** `ServersInv`: a server that answers requests holds the
instance lock (`OneServer`), and a page at work is one of a server that answers, or did
(`Served`). Hence at most one page of those in service is at work under `config_lock`
(`OnePage`). `ValuesInv`: what a page's task holds is tidy (`IsTidy`, `SavedIsTidy`); what
it has read, or knows the hash of once that was checked, is what the file holds unless
somebody else changed it (`UpToDate`); what its draft was made from differs from that in
the cleanup switch at most (`ViewAgrees`); a setup that is about to be applied is still
the choice (`StillChosen`). `FilesInv`: a partial file that is about to be renamed is whole
(`PartsAreWhole`). Results: `TypeCorrect`, `WholeModels` (`ModelsAreWhole`),
`SeenBeforeWritten` (`NoBlindWrite`), `LaterChoiceWins` (`SetupKeepsChoice`). A model
without a pinned checksum is taken to be complete when the transport says so
(`models.rs:448`).

**`ClipboardCache_proofs`.** `QueueOK` says that nothing waits for a daemon that does
not run, that no cold child is at work while a paste waits for the daemon, and that the
daemon is at a transaction exactly while it owns one. `ValuesOK` follows the bytes: ids are given out once
(`GivenOut`), the newest is the selection's (`Newest`), what the daemon buffered, kept
or saved is the content of the offer it took it from, whole (`CacheInv`, `KeptInv`,
`SavedInv`), and the dictation is on the clipboard only by a transaction in progress
(`TextIsOwned`). Results: `TypeCorrect`, `TextIsTemporary` (`TranscriptIsTemporary`),
`CopiesAreKept` (`CopiesSurvive`).

The type invariants of all modules are proved. The runs do not repeat them, except for
`ShellSession`, whose `TypeOK` includes the limit of the event history.

**Only model-checked.** The liveness properties (`HungRequestIsBroken`,
`ShutdownReturns`, `DictationConcludes`, `PasteEnds`, `BrokenStreamLeaves`,
`DeliveryEnds`, `OverlayCatchesUp`): fairness is out of the prover's reach. Every other
property of a passing run is a theorem.

## Not modelled

* The **AutoHotkey shell** (`ahk/`): a second shell over the same commands,
  single-threaded with timers. The **Windows overlay** draws with Win32 calls and has no
  protocol of its own.
* **Rendering** and layout, **localization**, **logging**, **packaging**, scripts and
  the **web pages**: no state that a property here would tell apart.
* **Screen context** and the **cleanup** provider's HTTP and credentials: I/O with
  bounded waits; a cleanup is a thread that answers or fails.
* **Arithmetic on samples**: gain, resampling, level metering.
* The **primary selection** (served the same way by a cold child), the X11 and the
  Windows clipboard; the choice of an **automation tool**, the tray.
* The **schema** of the configuration: migrations and field checks, apart from the one
  dependency of two fields. Poisoned mutexes: a handler that panics is not modelled.

## Plan

1. An abstract `Dictation` specification (idle, recording, working, delivered, given up)
   that `CaptureService` implements, and `ShellSession` over it instead of over its own
   account of the service.
2. `Typist`: the AutoHotkey shell's queue, with restarts of the service.
3. Theorems: that the abstract specifications of 1. are implemented, and what remains of
   `OutcomeIsVisible` after a restart of the service.
