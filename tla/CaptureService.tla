--------------------------- MODULE CaptureService ---------------------------
(***************************************************************************)
(* The capture service (src/src/bin/simple_stt_capture.rs): one main loop  *)
(* that handles client commands, results of background threads and a timer *)
(* one at a time, and the threads it spawns, which share with it only the  *)
(* generation counter, the result channel and the supervised worker.       *)
(*                                                                         *)
(* A handler is one step: nobody else reads the main loop's own state, and *)
(* the shared counter is changed at most once in it.  A thread takes one   *)
(* step from one access of shared state to the next.  The supervisor is    *)
(* WorkerSupervisor, whose actions this module takes as parts of its own.  *)
(***************************************************************************)
EXTENDS Integers, Sequences

CONSTANTS
  Models, Prefs, Pids, NoConfig,     \* of WorkerSupervisor
  MaxStarts, MaxStops, MaxCancels,   \* bounds on the commands that are handled
  MaxTests,
  MaxUnloads, MaxReloads, MaxExits,
  MaxCommands,                       \* ... on all of them together
  MaxIdle, MaxCrashes                \* ... on idle timeouts and exits of the child

Count == [start : 0..MaxStarts, stop : 0..MaxStops, cancel : 0..MaxCancels,
          test : 0..MaxTests, unload : 0..MaxUnloads, reload : 0..MaxReloads,
          exit : 0..MaxExits, idle : 0..MaxIdle, crash : 0..MaxCrashes]
Sessions == 1..MaxStarts             \* clients number their recordings upwards
MaxGen == MaxStarts + MaxCancels
Config == [model : Models, prefs : Prefs]

\* The spawned threads that send a request to the worker ...
Requesters == ({"warm", "pcm"} \X Sessions) \cup ({"test"} \X (1..MaxTests))
\* ... and those that do not.
Jobs == Requesters \cup ({"clean"} \X Sessions)
\* Calls of shutdown_shared*: for the start or the cancel of a generation, for an
\* unload command, at the end of the main loop.
Shutdowns == ({"supersede", "cancel"} \X (1..MaxGen)) \cup ({"unload"} \X (1..MaxUnloads))
             \cup ({"exit"} \X (1..MaxExits))

NoRecording == [session |-> 0, config |-> NoConfig]
NoJob == [gen |-> 0, config |-> NoConfig]

ASSUME CaptureAssumption ==
  /\ Pids \subseteq Nat \ {0}
  /\ NoConfig \notin Config
  /\ {MaxStarts, MaxStops, MaxCancels, MaxTests, MaxUnloads, MaxReloads, MaxExits,
      MaxCommands, MaxIdle, MaxCrashes} \subseteq Nat

VARIABLES
  up,           \* ~shutting_down
  gen,          \* cancel_generation
  active,       \* the Recording: its session and frozen worker configuration
  transcribing, warming, cleaning, delivering,   \* sessions in each phase
  overlay,      \* the overlay's primary state
  prefs,        \* the worker preferences of the current AppConfig
  bg,           \* background_rx: results the main loop has not handled
  log,          \* per session, the events that decide its fate at the client
  stage, job,   \* spawned threads: where they are, what their closure captured
  idleCheck,    \* idle_check_running: the busy flag its thread captured, or "ends" while
                \* the thread marks the child it has reaped
  reloads,      \* spawned configuration updates that have not run
  issued,       \* how often each bounded event happened
  holder, request, config, worker, lastUsed, tracker, proc, inner, outer, target

loopVars   == <<active, transcribing, warming, cleaning, delivering, overlay, log>>
threadVars == <<stage, job>>
sharedVars == <<gen, bg>>
miscVars   == <<up, prefs, idleCheck, reloads, issued>>
workerVars == <<holder, request, config, worker, lastUsed, tracker, proc,
                inner, outer, target>>
vars == <<loopVars, threadVars, sharedVars, miscVars, workerVars>>

\* A plausible mistake instead of Obsolete: current while there is a recording.
NotRecording == {k \in Shutdowns : k[1] = "supersede" /\ k[2] <= gen /\ active = NoRecording}

\* The start of generation g captured is_current = "the counter is still g".
Obsolete == {k \in Shutdowns : k[1] = "supersede" /\ k[2] < gen}

WS == INSTANCE WorkerSupervisor WITH
        Threads <- Requesters, Coordinators <- Shutdowns, Free <- <<"free", 0>>,
        Caretaker <- <<"caretaker", 0>>, obsolete <- Obsolete

Overlays == {"Hidden", "Recording", "Transcribing", "Cleaning", "Delivering"}
Fates == {"transcript", "superseded", "recordingShort", "dictationSkipped",
          "noSpeech", "engineFailed"}
Results == {"ok", "empty", "err"}
Message == [kind : {"warm", "pcm", "clean"}, session : Sessions, gen : 1..MaxGen,
            result : Results]

ActiveSession == {active.session} \ {0}
Working == transcribing \cup warming \cup cleaning \cup delivering
Tracked == ActiveSession \cup Working
StartGen(s) == job[<<"warm", s>>].gen

OwnTypeOK ==
  /\ up \in BOOLEAN
  /\ gen \in 0..MaxGen
  /\ active \in [session : Sessions, config : Config] \cup {NoRecording}
  /\ transcribing \subseteq Sessions /\ warming \subseteq Sessions
  /\ cleaning \subseteq Sessions /\ delivering \subseteq Sessions
  /\ overlay \in Overlays
  /\ prefs \in Prefs
  /\ bg \in Seq(Message)
  /\ log \in [Sessions -> Seq(Fates)]
  /\ stage \in [Jobs -> {"idle", "join", "check", "lock", "run", "done"} \cup Results]
  /\ job \in [Jobs -> [gen : 0..MaxGen, config : Config \cup {NoConfig}]]
  /\ idleCheck \in {"none", "busy", "free", "ends"}
  /\ reloads \subseteq (1..MaxReloads) \X Prefs
  /\ issued \in Count

TypeOK == OwnTypeOK /\ WS!TypeOK

Init ==
  /\ up = TRUE
  /\ gen = 0
  /\ active = NoRecording
  /\ transcribing = {} /\ warming = {} /\ cleaning = {} /\ delivering = {}
  /\ overlay = "Hidden"
  /\ prefs \in Prefs
  /\ bg = <<>>
  /\ log = [s \in Sessions |-> <<>>]
  /\ stage = [t \in Jobs |-> "idle"]
  /\ job = [t \in Jobs |-> NoJob]
  /\ idleCheck = "none"
  /\ reloads = {}
  /\ issued = [start |-> 0, stop |-> 0, cancel |-> 0, test |-> 0, unload |-> 0,
               reload |-> 0, exit |-> 0, idle |-> 0, crash |-> 0]
  /\ WS!Init /\ config.prefs = prefs

-----------------------------------------------------------------------------
(* Plausible mistakes: what each is a variant of follows in this module *)

\* of DropRecording: the session id is cleared, not the Option
KeepsConfig == active' = [active EXCEPT !.session = 0]
\* of DropWork: one of the sets is forgotten
KeepsCleaning(started) ==
  transcribing' = {} /\ warming' = started /\ delivering' = {} /\ UNCHANGED cleaning
KeepsTranscribing(started) ==
  warming' = started /\ cleaning' = {} /\ delivering' = {} /\ UNCHANGED transcribing
\* of Restore: pending work is not looked at
RestoreIgnoresWork(recording, pending) ==
  overlay' = IF recording THEN "Recording" ELSE "Hidden"
\* of Interrupts: a warm-up that hangs is not interrupted
InterruptsInference == transcribing # {}
\* of Frozen: the preferences are read when the recording stops
FrozenModelPath == [model |-> active.config.model, prefs |-> prefs]
\* of Busy: a recording in progress is not work
BusyInference == transcribing \cup warming \cup cleaning # {}
\* of IsCurrent: the generation of a result is not compared
AnyIsCurrent(m) == TRUE
\* of WarmedUp: only a successful warm-up is forgotten
WarmedUpWell(m) == IF m.result = "ok" THEN warming \ {m.session} ELSE warming

-----------------------------------------------------------------------------
(* Helpers of the handlers *)

Bounded(event, bound) ==
  /\ issued[event] < bound
  /\ issued' = [issued EXCEPT ![event] = @ + 1]

\* The command is read from the control channel.
Command(c, bound) ==
  /\ up
  /\ Bounded(c, bound)
  /\ issued.start + issued.stop + issued.cancel + issued.test + issued.unload
       + issued.reload + issued.exit < MaxCommands

\* thread::spawn with the captured generation g and worker configuration c
Spawn(t, first, g, c) ==
  /\ stage' = [stage EXCEPT ![t] = first]
  /\ job' = [job EXCEPT ![t] = [gen |-> g, config |-> c]]

Tell(s, fate) == log' = [log EXCEPT ![s] = Append(@, fate)]

\* restore_overlay_work_state
Restore(recording, pending) ==
  overlay' = IF recording THEN "Recording"
             ELSE IF pending THEN "Transcribing" ELSE "Hidden"

DropRecording == active' = NoRecording

\* Nothing is tracked any more but the warm-ups in started.
DropWork(started) ==
  transcribing' = {} /\ warming' = started /\ cleaning' = {} /\ delivering' = {}

\* A start or a cancel has the worker shut down only if it may be at work.
Interrupts == transcribing \cup warming # {}

\* Recording.worker_config, frozen when the recording started
Frozen == active.config

\* A shutdown of the worker on a thread of its own, if there is reason for one.
ShutdownIf(reason, k) ==
  IF reason THEN WS!StartShutdown(k) ELSE UNCHANGED workerVars

-----------------------------------------------------------------------------
(* Commands *)

\* Every start supersedes prior work; then it is refused (no keyboard language, no
\* microphone), skipped (no model is assigned), or accepted with any model.
StartRecording ==
  LET s == issued.start + 1 IN
  /\ Command("start", MaxStarts)
  /\ gen' = gen + 1
  /\ log' = [x \in Sessions |-> IF x \in Tracked THEN Append(log[x], "superseded") ELSE log[x]]
  /\ ShutdownIf(Interrupts, <<"supersede", gen + 1>>)
  /\ \/ /\ overlay' \in {overlay, "Hidden"}
        /\ DropRecording /\ DropWork({})
        /\ UNCHANGED threadVars
     \/ \E m \in Models :
          /\ active' = [session |-> s, config |-> [model |-> m, prefs |-> prefs]]
          /\ DropWork({s})
          /\ overlay' = "Recording"
          /\ Spawn(<<"warm", s>>, IF Interrupts THEN "join" ELSE "check", gen + 1, active'.config)
  /\ UNCHANGED <<up, prefs, idleCheck, reloads, bg>>

\* Too short, or the model file is gone.
StopWithoutAudio(s) ==
  /\ Command("stop", MaxStops)
  /\ active.session = s
  /\ DropRecording
  /\ Restore(FALSE, transcribing # {})
  /\ \E fate \in {"recordingShort", "dictationSkipped"} : Tell(s, fate)
  /\ UNCHANGED <<transcribing, warming, cleaning, delivering, threadVars, sharedVars,
                 up, prefs, idleCheck, reloads, workerVars>>

StopRecording(s) ==
  /\ Command("stop", MaxStops)
  /\ active.session = s
  /\ DropRecording
  /\ transcribing' = transcribing \cup {s}
  /\ overlay' = "Transcribing"
  /\ Spawn(<<"pcm", s>>, "check", gen, Frozen)
  /\ UNCHANGED <<warming, cleaning, delivering, log, sharedVars, up, prefs, idleCheck,
                 reloads, workerVars>>

DeliveryProgress(s) ==
  /\ up /\ s \in delivering
  /\ active = NoRecording /\ transcribing = {} /\ cleaning = {}
  /\ overlay' = "Delivering"
  /\ UNCHANGED <<active, transcribing, warming, cleaning, delivering, log, threadVars,
                 sharedVars, miscVars, workerVars>>

\* From the client that received the transcript, however late.
DeliveryComplete(s) ==
  /\ up /\ log[s] # <<>> /\ log[s][1] = "transcript"
  /\ delivering' = delivering \ {s}
  /\ Restore(active # NoRecording, transcribing \cup cleaning \cup delivering' # {})
  /\ UNCHANGED <<active, transcribing, warming, cleaning, log, threadVars, sharedVars,
                 miscVars, workerVars>>

Cancel ==
  /\ Command("cancel", MaxCancels)
  /\ gen' = gen + 1
  /\ DropRecording
  /\ DropWork({})
  /\ overlay' = "Hidden"
  /\ ShutdownIf(Interrupts, <<"cancel", gen + 1>>)
  /\ UNCHANGED <<log, threadVars, bg, up, prefs, idleCheck, reloads>>

UnloadModel ==
  /\ Command("unload", MaxUnloads)
  /\ WS!StartShutdown(<<"unload", issued'.unload>>)
  /\ UNCHANGED <<loopVars, threadVars, sharedVars, up, prefs, idleCheck, reloads>>

TestModel(m) ==
  /\ Command("test", MaxTests)
  /\ Spawn(<<"test", issued'.test>>, "check", gen, [model |-> m, prefs |-> prefs])
  /\ UNCHANGED <<loopVars, sharedVars, up, prefs, idleCheck, reloads, workerVars>>

\* The worker is told only if no dictation uses it.
ReloadConfig(next) ==
  /\ Command("reload", MaxReloads)
  /\ prefs' = next
  /\ reloads' = IF active = NoRecording /\ transcribing = {} /\ warming = {}
                THEN reloads \cup {<<issued'.reload, next>>} ELSE reloads
  /\ UNCHANGED <<loopVars, threadVars, sharedVars, up, idleCheck, workerVars>>

\* The loop ends, drops the recording and shuts the worker down.
Shutdown ==
  /\ Command("exit", MaxExits)
  /\ up' = FALSE
  /\ DropRecording
  /\ overlay' = "Hidden"
  /\ WS!StartShutdown(<<"exit", 1>>)
  /\ UNCHANGED <<transcribing, warming, cleaning, delivering, log, threadVars, sharedVars,
                 prefs, idleCheck, reloads>>

-----------------------------------------------------------------------------
(* The timer *)

Busy == active # NoRecording \/ transcribing \cup warming \cup cleaning # {}

IdleTick ==
  /\ MaxIdle > 0
  /\ up /\ tracker # WS!NoPid /\ idleCheck = "none"
  /\ idleCheck' = IF Busy THEN "busy" ELSE "free"
  /\ UNCHANGED <<loopVars, threadVars, sharedVars, up, prefs, reloads, issued, workerVars>>

IdleCheckRuns ==
  /\ idleCheck \in {"busy", "free"}
  /\ UNCHANGED <<loopVars, threadVars, sharedVars, up, prefs, reloads, issued>>
  /\ WS!ShutdownIfIdle(idleCheck = "busy")
  /\ idleCheck' = IF holder' = <<"free", 0>> THEN "none" ELSE "ends"

\* The thread of an idle check or of a configuration update marks what it has reaped.
CaretakerEnds ==
  /\ idleCheck' = IF idleCheck = "ends" THEN "none" ELSE idleCheck
  /\ UNCHANGED <<loopVars, threadVars, sharedVars, up, prefs, reloads, issued>>
  /\ WS!CaretakerEnds

-----------------------------------------------------------------------------
(* Threads that send a request to the worker *)

SetStage(t, next) == stage' = [stage EXCEPT ![t] = next]
Stale(t) == job[t].gen # gen

\* A warm-up first waits for the shutdown its own start spawned; if that failed, so
\* does the warm-up.  Then the generation is checked, without the mutex.
Begin(t) ==
  /\ \/ stage[t] = "check" /\ SetStage(t, IF Stale(t) THEN "done" ELSE "lock")
     \/ /\ stage[t] = "join"
        /\ LET shutdown == outer[<<"supersede", job[t].gen>>] IN
             \/ shutdown = "ok" /\ SetStage(t, IF Stale(t) THEN "done" ELSE "lock")
             \/ shutdown = "err" /\ SetStage(t, "err")
  /\ UNCHANGED <<loopVars, job, sharedVars, miscVars, workerVars>>

\* Warm-ups and dictations check the generation again under the mutex, and a stale
\* one ends as if nothing had to be loaded, or with an error; a model test does not.
LockWorker(t) ==
  /\ stage[t] = "lock"
  /\ UNCHANGED <<loopVars, job, sharedVars, miscVars>>
  /\ IF t[1] # "test" /\ Stale(t)
     THEN /\ holder = <<"free", 0>>
          /\ SetStage(t, IF t[1] = "warm" THEN "ok" ELSE "err")
          /\ UNCHANGED workerVars
     ELSE WS!Lock(t) /\ SetStage(t, "run")

\* replace_config and the exchange with the child, until the mutex is released.
UseWorker(t) ==
  LET kind == IF t[1] = "warm" THEN "warm" ELSE "infer"
      end(result) == SetStage(t, IF holder' = t THEN "run" ELSE result)
  IN
  /\ stage[t] = "run"
  /\ UNCHANGED <<loopVars, job, sharedVars, miscVars>>
  /\ \/ /\ \/ WS!Reuse(t, kind, job[t].config) \/ WS!Recycle(t, job[t].config)
           \/ WS!Launch(t) \/ WS!Track(t, kind) \/ WS!HandshakeOk(t) \/ WS!WarmUpDone(t)
        /\ end("ok")
     \/ /\ \/ WS!LaunchFails(t) \/ WS!HandshakeFails(t) \/ WS!WarmUpFails(t)
           \/ WS!EngineError(t) \/ WS!WorkerDied(t) \/ WS!Ends(t)
        /\ end("err")
     \/ WS!Transcribed(t) /\ \E text \in {"ok", "empty"} : end(text)

\* background_tx.send; a dictation first waits (bounded) for its screen context.
\* The result of a model test is only shown.
SendResult(t) ==
  /\ stage[t] \in Results
  /\ SetStage(t, "done")
  /\ bg' = IF t[1] = "test" THEN bg
           ELSE Append(bg, [kind |-> t[1], session |-> t[2], gen |-> job[t].gen,
                            result |-> stage[t]])
  /\ UNCHANGED <<loopVars, job, gen, miscVars, workerVars>>

CleanTranscript(s) ==
  LET t == <<"clean", s>> IN
  /\ stage[t] = "run"
  /\ \E result \in {"ok", "err"} : SetStage(t, result)
  /\ UNCHANGED <<loopVars, job, sharedVars, miscVars, workerVars>>

ReloadRuns ==
  /\ UNCHANGED <<loopVars, threadVars, sharedVars, up, prefs, idleCheck, issued>>
  /\ \E r \in reloads : reloads' = reloads \ {r} /\ WS!UpdateRuntimeConfig(r[2])

-----------------------------------------------------------------------------
(* handle_background *)

Receive(kind) ==
  /\ up /\ bg # <<>> /\ Head(bg).kind = kind
  /\ bg' = Tail(bg)

IsCurrent(m) == m.gen = gen

\* A stale result changes nothing, except that a warm-up always ends.
DiscardStale ==
  /\ Receive("pcm") \/ Receive("clean")
  /\ ~IsCurrent(Head(bg))
  /\ UNCHANGED <<loopVars, threadVars, gen, miscVars, workerVars>>

WarmedUp(m) == warming \ {m.session}

HandleWarmed ==
  /\ Receive("warm")
  /\ warming' = WarmedUp(Head(bg))
  /\ UNCHANGED <<active, transcribing, cleaning, delivering, overlay, log, threadVars,
                 gen, miscVars, workerVars>>

\* No speech, or the engine failed.
HandleNoTranscript ==
  LET m == Head(bg) IN
  /\ Receive("pcm") /\ IsCurrent(m) /\ m.result # "ok"
  /\ transcribing' = transcribing \ {m.session}
  /\ Restore(active # NoRecording, transcribing' \cup cleaning \cup delivering # {})
  /\ Tell(m.session, IF m.result = "empty" THEN "noSpeech" ELSE "engineFailed")
  /\ UNCHANGED <<active, warming, cleaning, delivering, threadVars, gen, miscVars, workerVars>>

\* With AI cleanup enabled the transcript goes to a cleanup thread.
HandleTranscriptToClean ==
  LET m == Head(bg) IN
  /\ Receive("pcm") /\ IsCurrent(m) /\ m.result = "ok"
  /\ transcribing' = transcribing \ {m.session}
  /\ cleaning' = cleaning \cup {m.session}
  /\ overlay' = IF active = NoRecording THEN "Cleaning" ELSE overlay
  /\ Spawn(<<"clean", m.session>>, "run", m.gen, NoConfig)
  /\ UNCHANGED <<active, warming, delivering, log, gen, miscVars, workerVars>>

\* A transcript that needs no cleanup, or that came back from it: if the cleanup
\* failed, the original is delivered.
HandleTranscript ==
  LET m == Head(bg) IN
  /\ \/ Receive("pcm") /\ m.result = "ok"
     \/ Receive("clean")
  /\ IsCurrent(m)
  /\ transcribing' = IF m.kind = "pcm" THEN transcribing \ {m.session} ELSE transcribing
  /\ cleaning' = IF m.kind = "clean" THEN cleaning \ {m.session} ELSE cleaning
  /\ delivering' = delivering \cup {m.session}
  /\ IF m.result = "ok"
     THEN overlay' = IF active # NoRecording THEN "Recording" ELSE "Delivering"
     ELSE Restore(active # NoRecording, TRUE)
  /\ Tell(m.session, "transcript")
  /\ UNCHANGED <<active, warming, threadVars, gen, miscVars, workerVars>>

-----------------------------------------------------------------------------
(* The supervisor's own steps *)

CoordinatorRuns ==
  /\ UNCHANGED <<loopVars, threadVars, sharedVars, miscVars>>
  /\ \E k \in Shutdowns : WS!CoordinatorStep(k)

ChildExits ==
  /\ Bounded("crash", MaxCrashes)
  /\ UNCHANGED <<loopVars, threadVars, sharedVars, up, prefs, idleCheck, reloads>>
  /\ \E p \in Pids : WS!ChildExits(p)

\* idle_timeout is far longer than a thread waits to be scheduled: it does not pass
\* between the tick that found the service idle and its check of a free worker.
IdleTimeout ==
  /\ ~(idleCheck = "free" /\ holder = <<"free", 0>>)
  /\ Bounded("idle", MaxIdle)
  /\ UNCHANGED <<loopVars, threadVars, sharedVars, up, prefs, idleCheck, reloads>>
  /\ WS!Expires

Handle ==
  \/ StartRecording
  \/ \E s \in Sessions : \/ StopWithoutAudio(s) \/ StopRecording(s)
                         \/ DeliveryProgress(s) \/ DeliveryComplete(s)
  \/ Cancel \/ UnloadModel \/ Shutdown \/ IdleTick
  \/ \E m \in Models : TestModel(m)
  \/ \E p \in Prefs : ReloadConfig(p)
  \/ DiscardStale \/ HandleWarmed \/ HandleNoTranscript
  \/ HandleTranscriptToClean \/ HandleTranscript

RequesterStep(t) ==
  Begin(t) \/ LockWorker(t) \/ UseWorker(t)

Next ==
  \/ Handle
  \/ \E t \in Requesters : RequesterStep(t)
  \/ \E t \in Jobs : SendResult(t)
  \/ \E s \in Sessions : CleanTranscript(s)
  \/ IdleCheckRuns \/ ReloadRuns \/ CaretakerEnds \/ CoordinatorRuns \/ ChildExits
  \/ IdleTimeout

Spec == Init /\ [][Next]_vars

(* Runnable threads run, a thread that waits for the mutex gets it in the end, the
   main loop handles what is in its channel.  UseWorker includes the child's answer:
   the code puts no bound on inference, so that a child answers or dies is assumed. *)
Fairness ==
  /\ WF_vars(DiscardStale \/ HandleWarmed \/ HandleNoTranscript
             \/ HandleTranscriptToClean \/ HandleTranscript)
  /\ \A t \in Requesters :
       WF_vars(Begin(t) \/ UseWorker(t) \/ SendResult(t)) /\ SF_vars(LockWorker(t))
  /\ \A s \in Sessions : WF_vars(CleanTranscript(s) \/ SendResult(<<"clean", s>>))
  /\ WF_vars(CoordinatorRuns) /\ WF_vars(CaretakerEnds)

FairSpec == Spec /\ Fairness

-----------------------------------------------------------------------------
(* Safety *)

\* "A new dictation supersedes all older work": whatever the interleaving of
\* starts, cancels and late results, everything the service tracks belongs to one
\* session, the one the current generation was started for, in one phase besides
\* its warm-up.  (The handlers treat the four phases as sets of many sessions.)
OneDictation ==
  /\ \A s \in Tracked : StartGen(s) = gen
  /\ \A s, x \in Tracked : s = x
  /\ \A s \in Sessions :
       /\ s \in transcribing => s \notin ActiveSession \cup cleaning \cup delivering
       /\ s \in cleaning => s \notin ActiveSession \cup delivering
       /\ s \in delivering => s \notin ActiveSession

\* What the user sees: the waveform while recording, and neither the waveform nor a
\* hidden overlay while a dictation is being worked on, in whatever order results,
\* acknowledgements and commands are handled.
OverlayShowsWork ==
  up => /\ active # NoRecording => overlay = "Recording"
        /\ transcribing \cup cleaning \cup delivering # {}
             => overlay \notin {"Hidden", "Recording"}

\* A client never gets two transcripts of a session, nor one after a notice that
\* ended the session.
OneFate ==
  \A s \in Sessions : \A i \in 2..Len(log[s]) : log[s][i] = "superseded"

\* The audio of a session is transcribed by a child running the model and the
\* preferences frozen when its recording started, whatever was reloaded, tested or
\* recorded since.
FrozenModel ==
  \A s \in Sessions :
    holder = <<"pcm", s>> /\ WS!InFlight => worker.config = job[<<"warm", s>>].config

\* A dictation or cleanup thread of session s is at work, or its result is in the mail.
InMail(kind, s) == \E i \in DOMAIN bg : bg[i].kind = kind /\ bg[i].session = s
AtWork(kind, s) == stage[<<kind, s>>] \notin {"idle", "done"} \/ InMail(kind, s)

\* For every session that is waited for somebody is at work whose result will be
\* taken for current, so no session waits for nothing.
NothingForgotten ==
  /\ \A s \in transcribing : AtWork("pcm", s) /\ job[<<"pcm", s>>].gen = gen
  /\ \A s \in cleaning : AtWork("clean", s) /\ job[<<"clean", s>>].gen = gen

\* A shutdown that still stands is queued behind the request: it gets the mutex next, or
\* in the end kills the child that never answers (HungRequestIsBroken, whose one gap, a
\* timeout while the child is spawned but not tracked, it shares).
InterruptPending == \E k \in Shutdowns \ Obsolete : inner[k] = "queued"

\* "A new start interrupts pending inference": the request of the generation that
\* the last start or cancel superseded is interrupted, in flight since whenever.
StaleRequestIsInterrupted ==
  \A t \in Requesters :
    stage[t] = "run" /\ t[1] # "test" /\ job[t].gen = gen - 1 => InterruptPending

\* The same for every older generation, while a new recording goes on.  The code does
\* not hold this: a start that is refused takes the only interrupt with it.
NewRecordingInterrupts ==
  active # NoRecording =>
    \A t \in Requesters : stage[t] = "run" /\ t[1] # "test" /\ Stale(t) => InterruptPending

\* What makes the above inductive.  Sessions and tests that have not begun left no trace.
Fresh ==
  /\ \A s \in Sessions : s > issued.start =>
       /\ \A kind \in {"warm", "pcm", "clean"} :
            stage[<<kind, s>>] = "idle" /\ job[<<kind, s>>] = NoJob
       /\ log[s] = <<>> /\ s \notin Tracked
  /\ \A n \in 1..MaxTests : n > issued.test => stage[<<"test", n>>] = "idle"

\* Each accepted start has a generation of its own, and its threads and their results
\* bear it; what is tracked is of the current one.
Generations ==
  /\ gen = issued.start + issued.cancel
  /\ \A s \in Sessions : StartGen(s) <= gen
  /\ \A s, x \in Sessions : StartGen(s) = StartGen(x) /\ StartGen(s) # 0 => s = x
  /\ \A s \in Sessions, kind \in {"warm", "pcm", "clean"} :
       stage[<<kind, s>>] # "idle" => StartGen(s) # 0 /\ job[<<kind, s>>].gen = StartGen(s)
  /\ \A s \in Tracked : StartGen(s) = gen /\ gen # 0

\* What the threads captured, and what the one that holds the worker installed.
Captured ==
  /\ \A t \in Requesters : stage[t] # "idle" => job[t].config \in Config
  /\ \A s \in Sessions : /\ active.session = s => active.config = job[<<"warm", s>>].config
                         /\ stage[<<"pcm", s>>] # "idle"
                              => job[<<"pcm", s>>].config = job[<<"warm", s>>].config
  /\ \A t \in Requesters : holder = t =>
       stage[t] = "run" /\ (request # "none" => config = job[t].config)

\* A thread sends at most one result, and then is done.
Mail ==
  /\ \A i \in DOMAIN bg : /\ stage[<<bg[i].kind, bg[i].session>>] = "done"
                          /\ bg[i].gen = job[<<bg[i].kind, bg[i].session>>].gen
  /\ \A i, j \in DOMAIN bg : bg[i].kind = bg[j].kind /\ bg[i].session = bg[j].session => i = j

\* A session is recorded, then transcribed, then cleaned up, and nothing has been said
\* of it until then.
Phases ==
  \A s \in Sessions :
    /\ active.session = s => stage[<<"pcm", s>>] = "idle" /\ stage[<<"clean", s>>] = "idle"
    /\ AtWork("pcm", s) => stage[<<"clean", s>>] = "idle"
    /\ s \in delivering => active.session # s /\ ~AtWork("pcm", s) /\ ~AtWork("clean", s)
    /\ StartGen(s) = gen /\ (active.session = s \/ AtWork("pcm", s) \/ AtWork("clean", s))
         => log[s] = <<>>

IInv == OwnTypeOK /\ Fresh /\ Generations /\ Captured /\ Mail /\ Phases /\ NothingForgotten

\* A thread is at the child only while it holds the mutex, and the request of a session
\* of the current generation is accounted for, so that a start or a cancel knows of it.
InExchange == \A t \in Requesters : stage[t] = "run" => holder = t
Accounted ==
  \A s \in Sessions : StartGen(s) = gen => /\ AtWork("warm", s) => s \in warming
                                           /\ AtWork("pcm", s) => s \in transcribing

\* Starts and cancels to come have no shutdown yet.
NoShutdownAhead ==
  \A k \in Shutdowns : k[1] \in {"supersede", "cancel"} /\ k[2] > gen =>
    inner[k] = "idle" /\ outer[k] = "idle"

Dead == worker = WS!NoWorker \/ ~WS!Running(worker.pid)

\* A shutdown nobody may want any more is past its check: an obsolete coordinator has the
\* mutex, or an idle check finds it free and the worker unused for long enough.
PastItsCheck ==
  \/ \E k \in Obsolete : inner[k] = "stopping"
  \/ idleCheck = "free" /\ lastUsed = "expired" /\ holder = <<"free", 0>>

\* The new recording's warm-up has not got the mutex, and gives up for want of a shutdown
\* of its own only when the worker is dead.
WarmUpWaits ==
  LET own == <<"supersede", gen>> IN
  \/ Dead
  \/ /\ stage[<<"warm", active.session>>] \in {"join", "check", "lock"}
     /\ outer[own] \notin {"recovering", "err"}
     /\ outer[own] = "killing" => target[own] = worker.pid

\* A shutdown past its check comes before the warm-up of the recording in progress.
Ahead == PastItsCheck /\ active # NoRecording => WarmUpWaits

Turns == InExchange /\ Accounted /\ StaleRequestIsInterrupted /\ NoShutdownAhead /\ Ahead

\* A result that arrives after its dictation was superseded or cancelled never
\* reaches the client.
StaleSilence ==
  [][\A s \in Sessions : 0 < StartGen(s) /\ StartGen(s) < gen => log'[s] = log[s]]_vars

\* The worker that a newer recording has finished preparing.
Prepared ==
  /\ active # NoRecording
  /\ stage[<<"warm", active.session>>] \in Results \cup {"done"}
  /\ worker.ready /\ WS!Running(worker.pid) /\ worker.config = active.config

\* An idle check that was queued before the recording started, or that waited
\* behind another request, does not unload the worker prepared for it.
IdleCheckSparesDictation ==
  [][Prepared /\ idleCheck # "none" /\ idleCheck' # idleCheck => worker' = worker]_vars

\* "Shutdown coordinators for obsolete starts cannot unload a newer start's
\* worker": not by the graceful path, which checks under the mutex.
ObsoleteStartStandsDown ==
  [][\A k \in Obsolete : Prepared /\ holder = k => worker' = worker]_vars

\* ... and not by killing the PID it read.  The code does not hold this: it asks
\* whether it is obsolete, reads the PID and kills it in three steps.
ObsoleteStartKillsNothing ==
  [][\A k \in Obsolete : Prepared /\ outer[k] = "killing" /\ outer'[k] # "killing"
       => WS!Running(worker.pid)']_vars

\* "An obsolete cancellation must not unload a newer recording's worker."  The code
\* does not hold this: the shutdown of a cancel does not ask.
ObsoleteCancelStandsDown ==
  [][\A g \in 1..MaxGen : g < gen /\ Prepared /\ holder = <<"cancel", g>>
       => worker' = worker]_vars

\* "Cancelled generations are checked again after taking the worker mutex, so queued
\* obsolete requests cannot start inference later."  The code does not hold this: a
\* model test checks before it takes the mutex only.
QueuedObsoleteNeverStarts ==
  [][\A t \in Requesters : stage[t] = "lock" /\ Stale(t) => stage'[t] # "run"]_vars

\* Every dictation the service accepts leaves each phase that waits for a thread.
DictationConcludes ==
  \A s \in Sessions :
    /\ s \in transcribing ~> (s \notin transcribing \/ ~up)
    /\ s \in warming ~> (s \notin warming \/ ~up)
    /\ s \in cleaning ~> (s \notin cleaning \/ ~up)

\* The service uses its supervisor as the supervisor's own specification says, so
\* what is checked and proved of that holds here.
Supervised == WS!Spec
=============================================================================
