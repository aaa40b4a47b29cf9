----------------------- MODULE CaptureService_proofs -----------------------
(***************************************************************************)
(* Safety of the capture service for every number of starts, stops,        *)
(* cancels, tests and other events, every set of models and preferences.   *)
(* The inductive invariant is IInv of the service together with that of    *)
(* the supervisor: there is one lemma for each handler and kind of step,   *)
(* with one step for each conjunct of IInv, and SupervisorStep shows that  *)
(* each is a step the supervisor allows.                                   *)
(*                                                                         *)
(* Who interrupts or spares whom rests on a second invariant, Turns, which *)
(* is inductive relative to the first: it relates the request in flight,   *)
(* the coordinators and the generation.                                    *)
(***************************************************************************)
EXTENDS CaptureService, TLAPS

-----------------------------------------------------------------------------
(* Arithmetic, threads and sequences *)

\* The bounds on the commands and events are natural numbers.
LEMMA Bounds ==
  /\ MaxStarts \in Nat /\ MaxStops \in Nat /\ MaxCancels \in Nat /\ MaxTests \in Nat
  /\ MaxUnloads \in Nat /\ MaxReloads \in Nat /\ MaxExits \in Nat /\ MaxCommands \in Nat
  /\ MaxIdle \in Nat /\ MaxCrashes \in Nat
BY CaptureAssumption

\* Requesters, shutdown calls and "nobody" are told apart, and every thread of a session
\* is a job.
LEMMA Disjoint ==
  /\ \A t \in Requesters : t \notin Shutdowns /\ t # <<"free", 0>> /\ t # <<"caretaker", 0>>
  /\ \A k \in Shutdowns : k # <<"free", 0>> /\ k # <<"caretaker", 0>>
  /\ \A kind \in {"warm", "pcm"}, s \in Sessions : <<kind, s>> \in Requesters /\ <<kind, s>> \in Jobs
  /\ \A kind \in {"warm", "pcm", "clean"}, s \in Sessions : <<kind, s>> \in Jobs
BY Bounds DEF Requesters, Shutdowns, Jobs, Sessions, MaxGen

\* What the main loop takes from the result channel and what it leaves there.
LEMMA TailFacts ==
  ASSUME NEW S, NEW q \in Seq(S), q # <<>>
  PROVE  /\ Tail(q) \in Seq(S)
         /\ 1 \in DOMAIN q /\ Head(q) = q[1] /\ Head(q) \in S
         /\ \A i \in DOMAIN Tail(q) : i \in Nat /\ i # 0 /\ i + 1 \in DOMAIN q /\ Tail(q)[i] = q[i + 1]
         /\ \A i \in DOMAIN q : i = 1 \/ (i - 1 \in DOMAIN Tail(q) /\ q[i] = Tail(q)[i - 1])
OBVIOUS

\* What a thread adds to the channel, or a handler to the notices of a session.
LEMMA AppendFacts ==
  ASSUME NEW S, NEW q \in Seq(S), NEW e \in S
  PROVE  /\ Append(q, e) \in Seq(S)
         /\ \A i \in DOMAIN Append(q, e) :
              \/ i \in DOMAIN q /\ Append(q, e)[i] = q[i]
              \/ i = Len(q) + 1 /\ i \notin DOMAIN q /\ Append(q, e)[i] = e
         /\ \A i \in DOMAIN q : i \in DOMAIN Append(q, e) /\ Append(q, e)[i] = q[i]
         /\ Len(q) + 1 \in DOMAIN Append(q, e) /\ Append(q, e)[Len(q) + 1] = e
OBVIOUS

-----------------------------------------------------------------------------
(* What steps have in common *)

\* What arithmetic needs to know of the counters.
Counted ==
  /\ gen \in Nat /\ gen = issued.start + issued.cancel
  /\ issued \in Count
  /\ issued.start \in 0..MaxStarts /\ issued.cancel \in 0..MaxCancels
  /\ \A s \in Sessions : s # 0 /\ StartGen(s) \in 0..gen

\* The generation counts the starts and cancels, so it stays within MaxGen.
LEMMA Counting == IInv => Counted
<1> SUFFICES ASSUME IInv PROVE Counted
  OBVIOUS
<1>1. issued \in Count /\ gen \in 0..MaxGen
  BY DEF IInv, OwnTypeOK
<1>2. gen = issued.start + issued.cancel
  BY DEF IInv, Generations
<1>3. issued.start \in 0..MaxStarts /\ issued.cancel \in 0..MaxCancels
  BY <1>1 DEF Count
<1>4. ASSUME NEW s \in Sessions PROVE s # 0 /\ StartGen(s) \in 0..gen
  <2>1. job[<<"warm", s>>].gen \in 0..MaxGen
    BY Disjoint DEF IInv, OwnTypeOK
  <2> QED BY <2>1, Bounds, <1>1 DEF IInv, Generations, StartGen, MaxGen, Sessions
<1> QED BY <1>1, <1>2, <1>3, <1>4, Bounds DEF MaxGen, Counted

\* A step that touches neither the loop's state nor the threads keeps the invariant, if
\* it changes what the holder of the mutex installed only by releasing the mutex.
LEMMA Unaffected ==
  ASSUME IInv, OwnTypeOK',
         UNCHANGED <<gen, active, transcribing, warming, cleaning, delivering, log, bg, stage,
         job>>,
         issued'.start = issued.start, issued'.cancel = issued.cancel, issued'.test = issued.test,
         \A t \in Requesters : holder' = t =>
           holder = t /\ (request' # "none" => request # "none" /\ config' = config)
  PROVE  IInv'
<1>1. Fresh' /\ Generations'
  BY DEF IInv, Fresh, Generations, StartGen, Tracked, Working, ActiveSession
<1>2. Captured'
  BY DEF IInv, Captured
<1>3. Mail'
  BY DEF IInv, Mail
<1>4. Phases' /\ NothingForgotten'
  BY DEF IInv, Phases, NothingForgotten, AtWork, InMail, StartGen
<1> QED BY <1>1, <1>2, <1>3, <1>4 DEF IInv

\* A spawned thread that only goes on keeps the invariant: it ends silently only when its
\* generation is over, and keeps the mutex only with its own configuration installed.
LEMMA ThreadMoves ==
  ASSUME IInv, NEW t \in Jobs, NEW v \in {"lock", "run", "done"} \cup Results,
         stage[t] \notin {"idle", "done"},
         stage' = [stage EXCEPT ![t] = v],
         UNCHANGED <<gen, active, transcribing, warming, cleaning, delivering, overlay, log,
                     bg, job, up, prefs, idleCheck, reloads, issued>>,
         v = "done" => job[t].gen # gen,
         \A r \in Requesters : holder' = r =>
           stage'[r] = "run" /\ (request' # "none" => config' = job[r].config)
  PROVE  IInv'
<1>0. stage \in [Jobs -> {"idle", "join", "check", "lock", "run", "done"} \cup Results]
  BY DEF IInv, OwnTypeOK
<1>1. OwnTypeOK'
  BY <1>0 DEF IInv, OwnTypeOK
<1>2. \A r \in Jobs : /\ r # t => stage'[r] = stage[r]
                      /\ stage'[r] = "idle" <=> stage[r] = "idle"
                      /\ stage[r] = "done" => stage'[r] = "done"
  BY <1>0 DEF Results
<1>3. \A n \in 1..MaxTests : <<"test", n>> \in Jobs
  BY DEF Jobs, Requesters
<1>4. Fresh' /\ Generations'
  BY <1>2, <1>3, Disjoint DEF IInv, Fresh, Generations, StartGen, Tracked, Working,
     ActiveSession
<1>5. Captured'
  BY <1>2, Disjoint DEF IInv, Captured, Jobs
<1>6. Mail'
  BY <1>2, Disjoint DEF IInv, Mail, OwnTypeOK, Message
<1>7. ASSUME NEW kind \in {"pcm", "clean"}, NEW s \in Sessions
      PROVE  /\ AtWork(kind, s)' => AtWork(kind, s)
             /\ AtWork(kind, s) /\ job[<<kind, s>>].gen = gen => AtWork(kind, s)'
  BY <1>0, <1>2, Disjoint DEF AtWork, InMail
<1>8. Phases'
  BY <1>2, <1>7, Disjoint DEF IInv, Phases, StartGen
<1>9. NothingForgotten'
  BY <1>7 DEF IInv, NothingForgotten, OwnTypeOK
<1> QED BY <1>1, <1>4, <1>5, <1>6, <1>8, <1>9 DEF IInv

-----------------------------------------------------------------------------
(* The supervisor *)

\* The proofs about the supervisor, for the parameters the service gives it.
WSP == INSTANCE WorkerSupervisor_proofs WITH
         Threads <- Requesters, Coordinators <- Shutdowns, Free <- <<"free", 0>>,
         Caretaker <- <<"caretaker", 0>>, obsolete <- Obsolete

\* A command that shuts the worker down has a call of its own for it.
LEMMA HandlesAreShutdowns ==
  ASSUME IInv
  PROVE  /\ Command("start", MaxStarts) => <<"supersede", gen + 1>> \in Shutdowns
         /\ Command("cancel", MaxCancels) => <<"cancel", gen + 1>> \in Shutdowns
         /\ Command("unload", MaxUnloads) => <<"unload", issued'.unload>> \in Shutdowns
         /\ Command("exit", MaxExits) => <<"exit", 1>> \in Shutdowns
<1>1. Counted
  BY Counting
<1>2. Command("start", MaxStarts) \/ Command("cancel", MaxCancels) => gen + 1 \in 1..MaxGen
  BY <1>1, Bounds DEF Counted, Command, Bounded, MaxGen
<1>3. issued.unload \in 0..MaxUnloads /\ issued.exit \in 0..MaxExits
  BY <1>1 DEF Counted, Count
<1>4. Command("unload", MaxUnloads) => issued'.unload \in 1..MaxUnloads
  BY <1>1, <1>3, Bounds DEF Counted, Command, Bounded, Count
<1>5. Command("exit", MaxExits) => 1 \in 1..MaxExits
  BY <1>3, Bounds DEF Command, Bounded
<1> QED BY <1>2, <1>4, <1>5 DEF Shutdowns

\* A step that leaves the generation and the supervisor alone is a stutter of the latter.
LEMMA SupervisorRests ==
  ASSUME UNCHANGED <<gen, workerVars>> PROVE UNCHANGED WS!vars
BY DEF workerVars, WS!vars, Obsolete

\* A handler that spawns a shutdown, or moves the generation on, takes a step of the
\* supervisor: calls for older starts become obsolete, one may begin.
LEMMA SupervisorShutdown ==
  ASSUME IInv, gen' \in {gen, gen + 1}, NEW reason \in BOOLEAN, NEW k \in Shutdowns,
         ShutdownIf(reason, k)
  PROVE  WS!Next
<1>1. Obsolete' \in SUBSET Shutdowns /\ Obsolete \subseteq Obsolete'
  <2>1. gen \in Nat
    BY Counting DEF Counted
  <2> QED BY <2>1, Bounds DEF Obsolete, Shutdowns, MaxGen
<1>2. WS!Obsoletes
  BY <1>1 DEF ShutdownIf, WS!Obsoletes, workerVars, WS!lockVars, WS!supVars, WS!osVars
<1> QED BY <1>2 DEF WS!Next

\* Every step of the service is a step of its supervisor, or a stutter.
LEMMA SupervisorStep ==
  ASSUME IInv, [Next]_vars PROVE [WS!Next]_(WS!vars)
<1>1. CASE StartRecording
  <2>1. gen' = gen + 1 /\ ShutdownIf(Interrupts, <<"supersede", gen + 1>>)
    BY <1>1 DEF StartRecording
  <2>2. <<"supersede", gen + 1>> \in Shutdowns /\ Interrupts \in BOOLEAN
    BY <1>1, HandlesAreShutdowns DEF StartRecording, Interrupts
  <2> QED BY <2>1, <2>2, SupervisorShutdown
<1>2. CASE Cancel
  <2>1. gen' = gen + 1 /\ ShutdownIf(Interrupts, <<"cancel", gen + 1>>)
    BY <1>2 DEF Cancel
  <2>2. <<"cancel", gen + 1>> \in Shutdowns /\ Interrupts \in BOOLEAN
    BY <1>2, HandlesAreShutdowns DEF Cancel, Interrupts
  <2> QED BY <2>1, <2>2, SupervisorShutdown
<1>3. CASE UnloadModel
  <2>1. gen' = gen /\ ShutdownIf(TRUE, <<"unload", issued'.unload>>)
    BY <1>3 DEF UnloadModel, ShutdownIf, sharedVars
  <2>2. <<"unload", issued'.unload>> \in Shutdowns
    BY <1>3, HandlesAreShutdowns DEF UnloadModel
  <2> QED BY <2>1, <2>2, SupervisorShutdown
<1>4. CASE Shutdown
  <2>1. gen' = gen /\ ShutdownIf(TRUE, <<"exit", 1>>)
    BY <1>4 DEF Shutdown, ShutdownIf, sharedVars
  <2>2. <<"exit", 1>> \in Shutdowns
    BY <1>4, HandlesAreShutdowns DEF Shutdown
  <2> QED BY <2>1, <2>2, SupervisorShutdown
<1>5. ASSUME NEW t \in Requesters, LockWorker(t) PROVE [WS!Next]_(WS!vars)
  <2>1. gen' = gen
    BY <1>5 DEF LockWorker, sharedVars
  <2>2. UNCHANGED workerVars \/ WS!Lock(t)
    BY <1>5 DEF LockWorker
  <2> QED BY <2>1, <2>2, SupervisorRests DEF WS!RequestStep, WS!Next
<1>6. ASSUME NEW t \in Requesters, UseWorker(t) PROVE [WS!Next]_(WS!vars)
  <2> DEFINE kind == IF t[1] = "warm" THEN "warm" ELSE "infer"
  <2>1. t \in Jobs /\ stage[t] # "idle"
    BY <1>6 DEF UseWorker, Jobs
  <2>2. job[t].config \in WS!Config
    BY <2>1 DEF IInv, Captured, Config, WS!Config
  <2>3. kind \in WS!Kinds
    BY DEF WS!Kinds
  <2>4. \/ WS!Reuse(t, kind, job[t].config) \/ WS!Recycle(t, job[t].config)
        \/ WS!Launch(t) \/ WS!Track(t, kind) \/ WS!HandshakeOk(t) \/ WS!WarmUpDone(t)
        \/ WS!LaunchFails(t) \/ WS!HandshakeFails(t) \/ WS!WarmUpFails(t)
        \/ WS!EngineError(t) \/ WS!WorkerDied(t) \/ WS!Ends(t) \/ WS!Transcribed(t)
    BY <1>6 DEF UseWorker
  <2>5. WS!RequestStep(t)
    BY <2>2, <2>3, <2>4 DEF WS!RequestStep
  <2> QED BY <2>5 DEF WS!Next
<1>7. CASE IdleCheckRuns
  <2>1. WS!ShutdownIfIdle(idleCheck = "busy") /\ (idleCheck = "busy") \in BOOLEAN
    BY <1>7 DEF IdleCheckRuns
  <2> QED BY <2>1 DEF WS!Next
<1>8. CASE ReloadRuns
  <2>1. \E r \in reloads : WS!UpdateRuntimeConfig(r[2])
    BY <1>8 DEF ReloadRuns
  <2>2. \A r \in reloads : r[2] \in Prefs
    BY DEF IInv, OwnTypeOK
  <2> QED BY <2>1, <2>2 DEF WS!Next
<1>9. CASE CoordinatorRuns
  BY <1>9 DEF CoordinatorRuns, WS!Next
<1>10. CASE ChildExits
  BY <1>10 DEF ChildExits, WS!Next
<1>11. CASE IdleTimeout
  BY <1>11 DEF IdleTimeout, WS!Next
<1>13. CASE CaretakerEnds
  BY <1>13 DEF CaretakerEnds, WS!Next
<1>12. ASSUME \/ \E s \in Sessions : \/ StopWithoutAudio(s) \/ StopRecording(s)
                                     \/ DeliveryProgress(s) \/ DeliveryComplete(s)
              \/ IdleTick \/ DiscardStale \/ HandleWarmed \/ HandleNoTranscript
              \/ HandleTranscriptToClean \/ HandleTranscript
              \/ \E m \in Models : TestModel(m)
              \/ \E p \in Prefs : ReloadConfig(p)
              \/ \E t \in Requesters : Begin(t)
              \/ \E t \in Jobs : SendResult(t)
              \/ \E s \in Sessions : CleanTranscript(s)
              \/ UNCHANGED vars
       PROVE  [WS!Next]_(WS!vars)
  <2>1. UNCHANGED <<gen, workerVars>>
    BY <1>12 DEF StopWithoutAudio, StopRecording, DeliveryProgress, DeliveryComplete,
         IdleTick, DiscardStale, HandleWarmed, HandleNoTranscript, HandleTranscriptToClean,
         HandleTranscript, TestModel, ReloadConfig, Begin, SendResult, CleanTranscript,
         vars, sharedVars
  <2> QED BY <2>1, SupervisorRests
<1> QED
  BY <1>1, <1>2, <1>3, <1>4, <1>5, <1>6, <1>7, <1>8, <1>9, <1>10, <1>11, <1>12,
     <1>13 DEF Next, Handle, RequesterStep

\* The supervisor the service uses and the one whose theorems are cited are the same,
\* definition by definition.
LEMMA SameSupervisor ==
  /\ WS!Init <=> WSP!Init
  /\ [WS!Next]_(WS!vars) <=> [WSP!Next]_(WSP!vars)
  /\ WS!IInv <=> WSP!IInv
BY DEF
      WS!Config, WS!NoPid, WS!NoWorker, WS!lockVars, WS!supVars, WS!osVars, WS!coordVars,
      WS!vars, WS!Kinds, WS!Hello, WS!Exchange, WS!Requests, WS!InFlight, WS!Running,
      WS!Alive, WS!Reap, WS!TypeOK, WS!Init, WS!MutexFree, WS!Reaped, WS!MarkStopped,
      WS!Unlock, WS!Reaps, WS!Marks, WS!Lock, WS!ChildExits, WS!Expires, WS!SameConfig,
      WS!Started, WS!Reuse, WS!Recycle, WS!Launch, WS!LaunchFails, WS!Track,
      WS!HandshakeOk, WS!HandshakeFails, WS!Primed, WS!WarmUpDone, WS!WarmUpFails,
      WS!Transcribed, WS!EngineError, WS!WorkerDied, WS!Ends, WS!UpdateRuntimeConfig,
      WS!ShutdownIfIdle, WS!CaretakerEnds, WS!IsCurrent, WS!Killed, WS!StartShutdown,
      WS!CoordinatorLocks, WS!CoordinatorStops, WS!CoordinatorEnds, WS!CallerReturns,
      WS!CallerTimesOut, WS!CallerReadsPid, WS!CallerKills, WS!CallerGivesUp,
      WS!RequestStep, WS!CoordinatorStep, WS!Obsoletes, WS!Next, WS!Settled, WS!Stops,
      WS!ChildIsTracked, WS!RequestMatchesConfig, WS!ReadyIsPrimed, WS!MutexRespected,
      WS!Consistent, WS!IInv, WSP!Config, WSP!NoPid, WSP!NoWorker, WSP!lockVars,
      WSP!supVars, WSP!osVars, WSP!coordVars, WSP!vars, WSP!Kinds, WSP!Hello, WSP!Exchange,
      WSP!Requests, WSP!InFlight, WSP!Running, WSP!Alive, WSP!Reap, WSP!TypeOK, WSP!Init,
      WSP!MutexFree, WSP!Reaped, WSP!MarkStopped, WSP!Unlock, WSP!Reaps, WSP!Marks,
      WSP!Lock, WSP!ChildExits, WSP!Expires, WSP!SameConfig, WSP!Started, WSP!Reuse,
      WSP!Recycle, WSP!Launch, WSP!LaunchFails, WSP!Track, WSP!HandshakeOk,
      WSP!HandshakeFails, WSP!Primed, WSP!WarmUpDone, WSP!WarmUpFails, WSP!Transcribed,
      WSP!EngineError, WSP!WorkerDied, WSP!Ends, WSP!UpdateRuntimeConfig,
      WSP!ShutdownIfIdle, WSP!CaretakerEnds, WSP!IsCurrent, WSP!Killed, WSP!StartShutdown,
      WSP!CoordinatorLocks, WSP!CoordinatorStops, WSP!CoordinatorEnds, WSP!CallerReturns,
      WSP!CallerTimesOut, WSP!CallerReadsPid, WSP!CallerKills, WSP!CallerGivesUp,
      WSP!RequestStep, WSP!CoordinatorStep, WSP!Obsoletes, WSP!Next, WSP!Settled,
      WSP!Stops, WSP!ChildIsTracked, WSP!RequestMatchesConfig, WSP!ReadyIsPrimed,
      WSP!MutexRespected, WSP!Consistent, WSP!IInv

-----------------------------------------------------------------------------
(* Results *)

\* A thread that was not spawned has no result in the mail.
LEMMA IdleIsNotAtWork ==
  ASSUME IInv, NEW kind \in {"warm", "pcm", "clean"}, NEW s \in Sessions,
         stage[<<kind, s>>] = "idle"
  PROVE  ~AtWork(kind, s)
BY DEF IInv, Mail, AtWork, InMail

\* The result at the head of the channel is from a thread that is done, carries its
\* generation, and is the only one of that thread.
LEMMA Received ==
  ASSUME IInv, NEW kind \in {"warm", "pcm", "clean"}, Receive(kind)
  PROVE  /\ Head(bg) \in Message /\ Head(bg).kind = kind /\ Head(bg).session \in Sessions
         /\ Head(bg).gen = StartGen(Head(bg).session) /\ Head(bg).gen # 0
         /\ Head(bg).gen = job[<<kind, Head(bg).session>>].gen
         /\ stage[<<kind, Head(bg).session>>] = "done"
         /\ AtWork(kind, Head(bg).session)
         /\ bg' \in Seq(Message)
         /\ \A k \in {"warm", "pcm", "clean"}, s \in Sessions :
              InMail(k, s)' <=> InMail(k, s) /\ ~(k = kind /\ s = Head(bg).session)
<1>1. bg \in Seq(Message) /\ bg # <<>> /\ bg' = Tail(bg) /\ Head(bg).kind = kind
  BY DEF IInv, OwnTypeOK, Receive
<1>2. /\ bg' \in Seq(Message)
      /\ 1 \in DOMAIN bg /\ Head(bg) = bg[1] /\ Head(bg) \in Message
      /\ \A i \in DOMAIN bg' : i \in Nat /\ i # 0 /\ i + 1 \in DOMAIN bg /\ bg'[i] = bg[i + 1]
      /\ \A i \in DOMAIN bg : i = 1 \/ (i - 1 \in DOMAIN bg' /\ bg[i] = bg'[i - 1])
  BY <1>1, TailFacts
<1>3. Head(bg).session \in Sessions
  BY <1>2 DEF Message
<1>4. /\ stage[<<kind, Head(bg).session>>] = "done"
      /\ Head(bg).gen = job[<<kind, Head(bg).session>>].gen
  BY <1>1, <1>2 DEF IInv, Mail
<1>5. Head(bg).gen = StartGen(Head(bg).session) /\ Head(bg).gen # 0
  BY <1>3, <1>4 DEF IInv, Generations
<1>6. AtWork(kind, Head(bg).session)
  BY <1>1, <1>2 DEF AtWork, InMail
<1>7. \A i, j \in DOMAIN bg : bg[i].kind = bg[j].kind /\ bg[i].session = bg[j].session => i = j
  BY DEF IInv, Mail
<1>8. ASSUME NEW k \in {"warm", "pcm", "clean"}, NEW s \in Sessions
      PROVE  InMail(k, s)' <=> InMail(k, s) /\ ~(k = kind /\ s = Head(bg).session)
  <2>1. CASE InMail(k, s)'
    <3>1. PICK i \in DOMAIN bg' : bg'[i].kind = k /\ bg'[i].session = s
      BY <2>1 DEF InMail
    <3>2. i + 1 \in DOMAIN bg /\ bg[i + 1].kind = k /\ bg[i + 1].session = s /\ i + 1 # 1
      BY <1>2, <3>1
    <3>3. ~(k = kind /\ s = Head(bg).session)
      BY <1>1, <1>2, <1>7, <3>2
    <3> QED BY <2>1, <3>2, <3>3 DEF InMail
  <2>2. CASE InMail(k, s) /\ ~(k = kind /\ s = Head(bg).session)
    <3>1. PICK i \in DOMAIN bg : bg[i].kind = k /\ bg[i].session = s
      BY <2>2 DEF InMail
    <3>2. i - 1 \in DOMAIN bg' /\ bg'[i - 1] = bg[i]
      BY <1>1, <1>2, <2>2, <3>1
    <3>3. InMail(k, s)'
      BY <3>1, <3>2 DEF InMail
    <3> QED BY <2>2, <3>3
  <2> QED BY <2>1, <2>2
<1> QED BY <1>1, <1>2, <1>3, <1>4, <1>5, <1>6, <1>8

\* Handling a result keeps the mail consistent.
LEMMA MailTaken ==
  ASSUME IInv, NEW kind \in {"warm", "pcm", "clean"}, Receive(kind),
         \A t \in Jobs : stage[t] = "done" => stage'[t] = "done" /\ job'[t].gen = job[t].gen
  PROVE  Mail'
<1>1. bg \in Seq(Message) /\ bg # <<>> /\ bg' = Tail(bg)
  BY DEF IInv, OwnTypeOK, Receive
<1>2. \A i \in DOMAIN bg' : i \in Nat /\ i + 1 \in DOMAIN bg /\ bg'[i] = bg[i + 1]
  BY <1>1, TailFacts
<1>3. ASSUME NEW i \in DOMAIN bg PROVE <<bg[i].kind, bg[i].session>> \in Jobs
  <2>1. bg[i] \in Message
    BY <1>1
  <2> QED BY <2>1, Disjoint DEF Message
<1>4. ASSUME NEW i \in DOMAIN bg'
      PROVE  /\ stage'[<<bg'[i].kind, bg'[i].session>>] = "done"
             /\ bg'[i].gen = job'[<<bg'[i].kind, bg'[i].session>>].gen
  BY <1>2, <1>3 DEF IInv, Mail
<1>5. ASSUME NEW i \in DOMAIN bg', NEW j \in DOMAIN bg',
             bg'[i].kind = bg'[j].kind, bg'[i].session = bg'[j].session
      PROVE  i = j
  <2>1. i + 1 = j + 1
    BY <1>2, <1>5 DEF IInv, Mail
  <2> QED BY <1>2, <2>1
<1> QED BY <1>4, <1>5 DEF Mail

\* A stale result is dropped: nothing waits for it.
LEMMA DiscardStalePreserves == ASSUME IInv, DiscardStale PROVE IInv'
<1>1. PICK kind \in {"pcm", "clean"} : Receive(kind)
  BY DEF DiscardStale
<1> DEFINE m == Head(bg)
<1>2. /\ m.session \in Sessions /\ m.gen = job[<<kind, m.session>>].gen
      /\ bg' \in Seq(Message) /\ stage[<<kind, m.session>>] = "done"
      /\ \A k \in {"warm", "pcm", "clean"}, s \in Sessions :
           InMail(k, s)' <=> InMail(k, s) /\ ~(k = kind /\ s = m.session)
  BY <1>1, Received
<1>3. UNCHANGED <<loopVars, threadVars, gen, miscVars, workerVars>> /\ m.gen # gen
  BY DEF DiscardStale, IsCurrent
<1>4. OwnTypeOK'
  BY <1>2, <1>3 DEF IInv, OwnTypeOK, loopVars, threadVars, miscVars
<1>5. Fresh' /\ Generations'
  BY <1>3 DEF IInv, Fresh, Generations, StartGen, Tracked, Working, ActiveSession,
       loopVars, threadVars, miscVars
<1>6. Captured'
  BY <1>3 DEF IInv, Captured, loopVars, threadVars, workerVars
<1>7. Mail'
  BY <1>1, <1>3, MailTaken DEF threadVars
<1>8. \A k \in {"pcm", "clean"}, s \in Sessions :
        AtWork(k, s)' <=> AtWork(k, s) /\ ~(k = kind /\ s = m.session)
  BY <1>2, <1>3 DEF AtWork, threadVars
<1>9. Phases'
  BY <1>3, <1>8 DEF IInv, Phases, StartGen, loopVars, threadVars
<1>10. NothingForgotten'
  BY <1>2, <1>3, <1>8 DEF IInv, OwnTypeOK, NothingForgotten, loopVars, threadVars
<1> QED BY <1>4, <1>5, <1>6, <1>7, <1>9, <1>10 DEF IInv

\* The end of a warm-up, stale or not.
LEMMA HandleWarmedPreserves == ASSUME IInv, HandleWarmed PROVE IInv'
<1>1. Receive("warm")
  BY DEF HandleWarmed
<1>2. /\ bg' \in Seq(Message)
      /\ \A k \in {"pcm", "clean"}, s \in Sessions : InMail(k, s)' <=> InMail(k, s)
  BY <1>1, Received
<1>3. /\ UNCHANGED <<active, transcribing, cleaning, delivering, overlay, log, stage, job,
                     gen, up, prefs, idleCheck, reloads, issued, holder, request, config>>
      /\ warming' \subseteq warming
  BY DEF HandleWarmed, WarmedUp, threadVars, miscVars, workerVars
<1>4. OwnTypeOK'
  BY <1>2, <1>3 DEF IInv, OwnTypeOK
<1>5. Fresh' /\ Generations'
  BY <1>3 DEF IInv, Fresh, Generations, StartGen, Tracked, Working, ActiveSession
<1>6. Captured'
  BY <1>3 DEF IInv, Captured
<1>7. Mail'
  BY <1>1, <1>3, MailTaken
<1>8. \A k \in {"pcm", "clean"}, s \in Sessions : AtWork(k, s)' <=> AtWork(k, s)
  BY <1>2, <1>3 DEF AtWork
<1>9. Phases'
  BY <1>3, <1>8 DEF IInv, Phases, StartGen
<1>10. NothingForgotten'
  BY <1>3, <1>8 DEF IInv, OwnTypeOK, NothingForgotten
<1> QED BY <1>4, <1>5, <1>6, <1>7, <1>9, <1>10 DEF IInv

\* A notice to a client goes to one session.
LEMMA LogTyped ==
  ASSUME IInv, NEW s \in Sessions, NEW fate \in Fates, Tell(s, fate)
  PROVE  /\ log' \in [Sessions -> Seq(Fates)]
         /\ \A x \in Sessions : x # s => log'[x] = log[x]
         /\ log'[s] = Append(log[s], fate)
BY DEF IInv, OwnTypeOK, Tell

\* A dictation ends without a transcript.
LEMMA HandleNoTranscriptPreserves == ASSUME IInv, HandleNoTranscript PROVE IInv'
<1> DEFINE m == Head(bg)
<1>1. Receive("pcm")
  BY DEF HandleNoTranscript
<1>2. /\ m.session \in Sessions /\ m.gen = job[<<"pcm", m.session>>].gen
      /\ bg' \in Seq(Message) /\ stage[<<"pcm", m.session>>] = "done" /\ AtWork("pcm", m.session)
      /\ \A k \in {"warm", "pcm", "clean"}, s \in Sessions :
           InMail(k, s)' <=> InMail(k, s) /\ ~(k = "pcm" /\ s = m.session)
  BY <1>1, Received
<1>3. /\ UNCHANGED <<active, warming, cleaning, delivering, stage, job,
                     gen, up, prefs, idleCheck, reloads, issued, holder, request, config>>
      /\ transcribing' = transcribing \ {m.session}
      /\ overlay' \in Overlays
      /\ m.gen = gen
  BY DEF HandleNoTranscript, Restore, Overlays, threadVars, miscVars, workerVars, IsCurrent
<1>4. PICK fate \in Fates : Tell(m.session, fate)
  BY DEF HandleNoTranscript, Fates
<1>5. /\ log' \in [Sessions -> Seq(Fates)]
      /\ \A x \in Sessions : x # m.session => log'[x] = log[x]
  BY <1>2, <1>4, LogTyped
<1>6. OwnTypeOK'
  BY <1>2, <1>3, <1>5 DEF IInv, OwnTypeOK
<1>7. \A s \in Sessions : s > issued.start => s # m.session
  BY <1>2 DEF IInv, Fresh
<1>8. Fresh'
  BY <1>3, <1>5, <1>7 DEF IInv, Fresh, Tracked, Working, ActiveSession
<1>9. Generations'
  BY <1>3 DEF IInv, Generations, StartGen, Tracked, Working, ActiveSession
<1>10. Captured'
  BY <1>3 DEF IInv, Captured
<1>11. Mail'
  BY <1>1, <1>3, MailTaken
<1>12. \A k \in {"pcm", "clean"}, s \in Sessions :
        AtWork(k, s)' <=> AtWork(k, s) /\ ~(k = "pcm" /\ s = m.session)
  BY <1>2, <1>3 DEF AtWork
<1>13. ~AtWork("clean", m.session) /\ active.session # m.session
  BY <1>2, IdleIsNotAtWork DEF IInv, Phases
<1>14. Phases'
  <2> SUFFICES ASSUME NEW s \in Sessions PROVE Phases!(s)'
    BY DEF Phases
  <2>1. CASE s = m.session
    BY <1>3, <1>12, <1>13, <2>1 DEF IInv, Phases
  <2>2. CASE s # m.session
    BY <1>3, <1>5, <1>12, <2>2 DEF IInv, Phases, StartGen
  <2> QED BY <2>1, <2>2
<1>15. NothingForgotten'
  BY <1>3, <1>12 DEF IInv, OwnTypeOK, NothingForgotten
<1> QED BY <1>6, <1>8, <1>9, <1>10, <1>11, <1>14, <1>15 DEF IInv

\* A transcript goes to the cleanup thread, which was never spawned for its session before.
LEMMA HandleTranscriptToCleanPreserves == ASSUME IInv, HandleTranscriptToClean PROVE IInv'
<1> DEFINE m == Head(bg)
<1>1. Receive("pcm")
  BY DEF HandleTranscriptToClean
<1>2. /\ m.session \in Sessions /\ m.gen = StartGen(m.session) /\ m.gen # 0
      /\ m \in Message
      /\ m.gen = job[<<"pcm", m.session>>].gen
      /\ bg' \in Seq(Message) /\ stage[<<"pcm", m.session>>] = "done" /\ AtWork("pcm", m.session)
      /\ \A k \in {"warm", "pcm", "clean"}, s \in Sessions :
           InMail(k, s)' <=> InMail(k, s) /\ ~(k = "pcm" /\ s = m.session)
  BY <1>1, Received
<1>3. /\ UNCHANGED <<active, warming, delivering, log, gen, up, prefs, idleCheck, reloads,
                     issued, holder, request, config>>
      /\ transcribing' = transcribing \ {m.session}
      /\ cleaning' = cleaning \cup {m.session}
      /\ overlay' \in {"Cleaning", overlay}
      /\ m.gen = gen
  BY DEF HandleTranscriptToClean, miscVars, workerVars, IsCurrent
<1>4. /\ stage' = [stage EXCEPT ![<<"clean", m.session>>] = "run"]
      /\ job' = [job EXCEPT ![<<"clean", m.session>>] = [gen |-> m.gen, config |-> NoConfig]]
  BY DEF HandleTranscriptToClean, Spawn
<1>5. /\ <<"clean", m.session>> \in Jobs
      /\ \A t \in Requesters : t \in Jobs /\ t # <<"clean", m.session>>
  BY <1>2, Disjoint DEF Requesters, Jobs
<1>6. /\ stage \in [Jobs -> {"idle", "join", "check", "lock", "run", "done"} \cup Results]
      /\ job \in [Jobs -> [gen : 0..MaxGen, config : Config \cup {NoConfig}]]
  BY DEF IInv, OwnTypeOK
<1>7. /\ \A t \in Jobs : t # <<"clean", m.session>> => stage'[t] = stage[t] /\ job'[t] = job[t]
      /\ stage'[<<"clean", m.session>>] = "run" /\ job'[<<"clean", m.session>>].gen = gen
      /\ \A k \in {"warm", "pcm", "clean"}, s \in Sessions : k # "clean" \/ s # m.session =>
           stage'[<<k, s>>] = stage[<<k, s>>] /\ job'[<<k, s>>] = job[<<k, s>>]
  BY <1>3, <1>4, <1>5, <1>6, Disjoint
<1>8. stage[<<"clean", m.session>>] = "idle"
  BY <1>2 DEF IInv, Phases
<1>9. OwnTypeOK'
  <2>1. m.gen \in 0..MaxGen
    BY <1>2, Bounds DEF Message, MaxGen
  <2>2. /\ stage' \in [Jobs -> {"idle", "join", "check", "lock", "run", "done"} \cup Results]
        /\ job' \in [Jobs -> [gen : 0..MaxGen, config : Config \cup {NoConfig}]]
    BY <1>4, <1>6, <2>1
  <2> QED BY <1>2, <1>3, <2>2 DEF IInv, OwnTypeOK, Overlays
<1>10. \A s \in Sessions : s > issued.start => s # m.session
  BY <1>2 DEF IInv, Fresh
<1>11. \A n \in 1..MaxTests : <<"test", n>> \in Requesters
  BY DEF Requesters
<1>12. Fresh'
  BY <1>3, <1>5, <1>7, <1>10, <1>11, Disjoint DEF IInv, Fresh, Tracked, Working, ActiveSession
<1>13. \A s \in Sessions : StartGen(s)' = StartGen(s)
  BY <1>5, <1>7, Disjoint DEF StartGen
<1>14. Generations'
  <2>1. \A s \in Tracked' : s \in Tracked \/ s = m.session
    BY <1>3 DEF Tracked, Working, ActiveSession
  <2>2. Tracked' \subseteq Sessions
    BY <1>9, <1>3 DEF OwnTypeOK, Tracked, Working, ActiveSession, NoRecording
  <2>3. \A s \in Tracked' : StartGen(s)' = gen' /\ gen' # 0
    BY <1>2, <1>3, <1>13, <2>1, <2>2 DEF IInv, Generations
  <2>4. ASSUME NEW s \in Sessions, NEW kind \in {"warm", "pcm", "clean"},
               stage'[<<kind, s>>] # "idle"
        PROVE  StartGen(s)' # 0 /\ job'[<<kind, s>>].gen = StartGen(s)'
    <3>1. CASE kind = "clean" /\ s = m.session
      BY <1>2, <1>3, <1>7, <1>13, <3>1
    <3>2. CASE kind # "clean" \/ s # m.session
      <4>1. stage[<<kind, s>>] # "idle" /\ job'[<<kind, s>>] = job[<<kind, s>>]
        BY <1>7, <2>4, <3>2
      <4> QED BY <1>13, <4>1 DEF IInv, Generations
    <3> QED BY <3>1, <3>2
  <2> QED BY <1>3, <1>13, <2>3, <2>4 DEF IInv, Generations
<1>15. Captured'
  BY <1>3, <1>5, <1>7, Disjoint DEF IInv, Captured
<1>16. Mail'
  BY <1>1, <1>7, <1>8, MailTaken
<1>17. /\ \A k \in {"pcm", "clean"}, s \in Sessions : s # m.session =>
            (AtWork(k, s)' <=> AtWork(k, s))
       /\ \A s \in Sessions : s = m.session => ~AtWork("pcm", s)' /\ AtWork("clean", s)'
  BY <1>2, <1>7 DEF AtWork
<1>18. active.session # m.session /\ m.session \notin delivering
  BY <1>2 DEF IInv, Phases
<1>19. Phases'
  <2> SUFFICES ASSUME NEW s \in Sessions PROVE Phases!(s)'
    BY DEF Phases
  <2>1. CASE s = m.session
    <3>1. log[s] = <<>>
      BY <1>2, <1>3, <2>1 DEF IInv, Phases
    <3> QED BY <1>2, <1>3, <1>17, <1>18, <2>1, <3>1
  <2>2. CASE s # m.session
    BY <1>3, <1>7, <1>13, <1>17, <2>2, Disjoint DEF IInv, Phases
  <2> QED BY <2>1, <2>2
<1>20. NothingForgotten'
  <2>1. transcribing \subseteq Sessions /\ cleaning \subseteq Sessions
    BY DEF IInv, OwnTypeOK
  <2>2. \A s \in transcribing' : AtWork("pcm", s)' /\ job'[<<"pcm", s>>].gen = gen'
    BY <1>3, <1>7, <1>17, <2>1 DEF IInv, NothingForgotten
  <2>3. ASSUME NEW s \in cleaning' PROVE AtWork("clean", s)' /\ job'[<<"clean", s>>].gen = gen'
    <3>1. CASE s = m.session
      BY <1>2, <1>3, <1>7, <1>17, <3>1
    <3>2. CASE s # m.session
      <4>1. s \in cleaning /\ s \in Sessions
        BY <1>3, <2>1, <3>2
      <4>2. AtWork("clean", s) /\ job[<<"clean", s>>].gen = gen
        BY <4>1 DEF IInv, NothingForgotten
      <4> QED BY <1>3, <1>7, <1>17, <3>2, <4>1, <4>2
    <3> QED BY <3>1, <3>2
  <2> QED BY <2>2, <2>3 DEF NothingForgotten
<1> QED BY <1>9, <1>12, <1>14, <1>15, <1>16, <1>19, <1>20 DEF IInv

\* A transcript, cleaned or not, goes to the client, which had heard nothing before.
LEMMA HandleTranscriptPreserves == ASSUME IInv, HandleTranscript PROVE IInv'
<1> DEFINE m == Head(bg)
<1>1. PICK kind \in {"pcm", "clean"} : Receive(kind)
  BY DEF HandleTranscript
<1>2. /\ m.session \in Sessions /\ m.kind = kind
      /\ m.gen = StartGen(m.session) /\ m.gen # 0
      /\ bg' \in Seq(Message) /\ stage[<<kind, m.session>>] = "done" /\ AtWork(kind, m.session)
      /\ \A k \in {"warm", "pcm", "clean"}, s \in Sessions :
           InMail(k, s)' <=> InMail(k, s) /\ ~(k = kind /\ s = m.session)
  BY <1>1, Received
<1>3. /\ UNCHANGED <<active, warming, stage, job, gen, up, prefs, idleCheck, reloads,
                     issued, holder, request, config>>
      /\ transcribing' = IF kind = "pcm" THEN transcribing \ {m.session} ELSE transcribing
      /\ cleaning' = IF kind = "clean" THEN cleaning \ {m.session} ELSE cleaning
      /\ delivering' = delivering \cup {m.session}
      /\ overlay' \in Overlays
      /\ m.gen = gen
  BY <1>2 DEF HandleTranscript, Restore, Overlays, threadVars, miscVars, workerVars, IsCurrent
<1>4. /\ log' \in [Sessions -> Seq(Fates)]
      /\ \A x \in Sessions : x # m.session => log'[x] = log[x]
  BY <1>2, LogTyped DEF HandleTranscript, Fates
<1>5. OwnTypeOK'
  BY <1>2, <1>3, <1>4 DEF IInv, OwnTypeOK
<1>6. \A s \in Sessions : s > issued.start => s # m.session
  BY <1>2 DEF IInv, Fresh
<1>7. \A s \in Tracked' : s \in Tracked \/ s = m.session
  BY <1>3 DEF Tracked, Working, ActiveSession
<1>8. Fresh'
  BY <1>3, <1>4, <1>6, <1>7 DEF IInv, Fresh
<1>9. \A s \in Sessions : StartGen(s)' = StartGen(s)
  BY <1>3 DEF StartGen
<1>10. Generations'
  <2>1. \A s \in Tracked' : StartGen(s)' = gen' /\ gen' # 0
    BY <1>2, <1>3, <1>7 DEF IInv, Generations, StartGen
  <2> QED BY <1>3, <1>9, <2>1 DEF IInv, Generations
<1>11. Captured'
  BY <1>3 DEF IInv, Captured
<1>12. Mail'
  BY <1>1, <1>3, MailTaken
<1>13. \A k \in {"pcm", "clean"}, s \in Sessions :
        AtWork(k, s)' <=> AtWork(k, s) /\ ~(k = kind /\ s = m.session)
  BY <1>2, <1>3 DEF AtWork
<1>14. active.session # m.session
  BY <1>2 DEF IInv, Phases
<1>15. \A s \in Sessions : s = m.session => ~AtWork("pcm", s)' /\ ~AtWork("clean", s)'
  <2>1. CASE kind = "pcm"
    BY <1>2, <1>13, <2>1, IdleIsNotAtWork DEF IInv, Phases
  <2>2. CASE kind = "clean"
    BY <1>2, <1>13, <2>2 DEF IInv, Phases
  <2> QED BY <2>1, <2>2
<1>16. Phases'
  <2> SUFFICES ASSUME NEW s \in Sessions PROVE Phases!(s)'
    BY DEF Phases
  <2>1. CASE s = m.session
    BY <1>3, <1>14, <1>15, <2>1
  <2>2. CASE s # m.session
    BY <1>3, <1>4, <1>9, <1>13, <2>2 DEF IInv, Phases
  <2> QED BY <2>1, <2>2
<1>17. NothingForgotten'
  BY <1>3, <1>13 DEF IInv, OwnTypeOK, NothingForgotten
<1> QED BY <1>5, <1>8, <1>10, <1>11, <1>12, <1>16, <1>17 DEF IInv

\* A thread sends its result: the mail has a new message, from a thread that sent none.
LEMMA SendResultPreserves == ASSUME IInv, NEW t \in Jobs, SendResult(t) PROVE IInv'
<1>1. /\ UNCHANGED <<active, transcribing, warming, cleaning, delivering, overlay, log, job,
                     gen, up, prefs, idleCheck, reloads, issued, holder, request, config>>
      /\ stage[t] \in Results /\ stage' = [stage EXCEPT ![t] = "done"]
  BY DEF SendResult, SetStage, loopVars, miscVars, workerVars
<1>2. stage \in [Jobs -> {"idle", "join", "check", "lock", "run", "done"} \cup Results]
  BY DEF IInv, OwnTypeOK
<1>3. /\ stage'[t] = "done" /\ stage[t] \notin {"idle", "done", "run"}
      /\ \A r \in Jobs : r # t => stage'[r] = stage[r]
      /\ stage' \in [Jobs -> {"idle", "join", "check", "lock", "run", "done"} \cup Results]
  BY <1>1, <1>2 DEF Results
<1>4. CASE t \in Jobs \ ({"warm", "pcm", "clean"} \X Sessions)
  <2>1. bg' = bg
    BY <1>4 DEF SendResult, Jobs, Requesters
  <2>2. OwnTypeOK'
    BY <1>1, <1>3, <2>1 DEF IInv, OwnTypeOK
  <2>3. \A k \in {"warm", "pcm", "clean"}, s \in Sessions : stage'[<<k, s>>] = stage[<<k, s>>]
    BY <1>3, <1>4, Disjoint
  <2>4. \A n \in 1..MaxTests : <<"test", n>> \in Jobs
    BY DEF Jobs, Requesters
  <2>5. Fresh' /\ Generations'
    BY <1>1, <1>3, <2>3, <2>4 DEF IInv, Fresh, Generations, StartGen, Tracked, Working,
       ActiveSession
  <2>6. Captured'
    BY <1>1, <1>3, <2>3, Disjoint DEF IInv, Captured, Jobs
  <2>7. Mail'
    BY <1>1, <2>1, <2>3 DEF IInv, OwnTypeOK, Message, Mail
  <2>8. \A k \in {"pcm", "clean"}, s \in Sessions : AtWork(k, s)' <=> AtWork(k, s)
    BY <2>1, <2>3 DEF AtWork, InMail
  <2>9. Phases' /\ NothingForgotten'
    BY <1>1, <2>3, <2>8 DEF IInv, OwnTypeOK, Phases, NothingForgotten, StartGen
  <2> QED BY <2>2, <2>5, <2>6, <2>7, <2>9 DEF IInv
<1>5. ASSUME NEW kind \in {"warm", "pcm", "clean"}, NEW x \in Sessions, t = <<kind, x>>
      PROVE  IInv'
  <2> DEFINE m == [kind |-> kind, session |-> x, gen |-> job[t].gen, result |-> stage[t]]
  <2>1. bg' = Append(bg, m)
    BY <1>5 DEF SendResult
  <2>2. m \in Message
    <3>1. job[t].gen \in 0..MaxGen
      BY DEF IInv, OwnTypeOK
    <3>2. job[t].gen # 0
      BY <1>3, <1>5 DEF IInv, Generations
    <3> QED BY <1>1, <3>1, <3>2, Bounds DEF Message, MaxGen
  <2>3. bg \in Seq(Message)
    BY DEF IInv, OwnTypeOK
  <2>4. /\ bg' \in Seq(Message)
        /\ \A i \in DOMAIN bg' : \/ i \in DOMAIN bg /\ bg'[i] = bg[i]
                                 \/ i = Len(bg) + 1 /\ i \notin DOMAIN bg /\ bg'[i] = m
        /\ \A i \in DOMAIN bg : i \in DOMAIN bg' /\ bg'[i] = bg[i]
        /\ Len(bg) + 1 \in DOMAIN bg' /\ bg'[Len(bg) + 1] = m
    BY <2>1, <2>2, <2>3, AppendFacts
  <2>5. OwnTypeOK'
    BY <1>1, <1>3, <2>4 DEF IInv, OwnTypeOK
  <2>6. \A k \in {"warm", "pcm", "clean"}, s \in Sessions :
          /\ stage'[<<k, s>>] = IF k = kind /\ s = x THEN "done" ELSE stage[<<k, s>>]
          /\ stage'[<<k, s>>] = "idle" <=> stage[<<k, s>>] = "idle"
    BY <1>3, <1>5, Disjoint
  <2>7. \A n \in 1..MaxTests : stage'[<<"test", n>>] = stage[<<"test", n>>]
    BY <1>3, <1>5 DEF Jobs, Requesters
  <2>8. Fresh' /\ Generations'
    BY <1>1, <2>6, <2>7 DEF IInv, Fresh, Generations, StartGen, Tracked, Working, ActiveSession
  <2>9. Captured'
    BY <1>1, <1>3, <2>6, Disjoint DEF IInv, Captured, Jobs
  <2>10. Mail'
    <3>1. \A i \in DOMAIN bg : bg[i] \in Message
      BY <2>3
    <3>2. \A i \in DOMAIN bg : /\ stage[<<bg[i].kind, bg[i].session>>] = "done"
                               /\ bg[i].gen = job[<<bg[i].kind, bg[i].session>>].gen
                               /\ ~(bg[i].kind = kind /\ bg[i].session = x)
      BY <1>3, <1>5 DEF IInv, Mail
    <3>3. \A i \in DOMAIN bg : stage'[<<bg[i].kind, bg[i].session>>] = "done"
      BY <2>6, <3>1, <3>2 DEF Message
    <3>4. \A i \in DOMAIN bg' : /\ stage'[<<bg'[i].kind, bg'[i].session>>] = "done"
                                /\ bg'[i].gen = job'[<<bg'[i].kind, bg'[i].session>>].gen
      BY <1>1, <1>3, <1>5, <2>4, <3>2, <3>3
    <3>5. ASSUME NEW i \in DOMAIN bg', NEW j \in DOMAIN bg',
                 bg'[i].kind = bg'[j].kind, bg'[i].session = bg'[j].session
          PROVE  i = j
      <4>1. CASE i \in DOMAIN bg /\ j \in DOMAIN bg
        BY <2>4, <3>5, <4>1 DEF IInv, Mail
      <4>2. \A l \in DOMAIN bg' : l \notin DOMAIN bg =>
              l = Len(bg) + 1 /\ bg'[l].kind = kind /\ bg'[l].session = x
        BY <2>4
      <4>3. \A l \in DOMAIN bg : ~(bg'[l].kind = kind /\ bg'[l].session = x)
        BY <2>4, <3>2
      <4> QED BY <3>5, <4>1, <4>2, <4>3
    <3> QED BY <3>4, <3>5 DEF Mail
  <2>11. ASSUME NEW k \in {"pcm", "clean"}, NEW s \in Sessions
         PROVE  AtWork(k, s)' <=> AtWork(k, s)
    <3>1. InMail(k, s)' <=> InMail(k, s) \/ (k = kind /\ s = x)
      BY <2>4 DEF InMail
    <3> QED BY <1>3, <1>5, <2>6, <3>1 DEF AtWork
  <2>12. Phases' /\ NothingForgotten'
    BY <1>1, <2>6, <2>11 DEF IInv, OwnTypeOK, Phases, NothingForgotten, StartGen
  <2> QED BY <2>5, <2>8, <2>9, <2>10, <2>12 DEF IInv
<1> QED BY <1>4, <1>5

-----------------------------------------------------------------------------
(* Threads *)

\* A thread on its way through the generation checks and the mutex.
LEMMA ThreadStepPreserves ==
  ASSUME IInv, WS!IInv, NEW t \in Requesters, RequesterStep(t) PROVE IInv'
<1>1. /\ UNCHANGED <<active, transcribing, warming, cleaning, delivering, overlay, log, job,
                     bg, gen, up, prefs, idleCheck, reloads, issued>>
      /\ stage[t] \notin {"idle", "done"} /\ t \in Jobs
  BY DEF RequesterStep, Begin, LockWorker, UseWorker, loopVars, sharedVars, miscVars, Jobs
<1>2. stage \in [Jobs -> {"idle", "join", "check", "lock", "run", "done"} \cup Results]
  BY DEF IInv, OwnTypeOK
<1>3. \A r \in Requesters : r \in Jobs /\ r # <<"free", 0>>
  BY Disjoint DEF Jobs
<1>4. CASE Begin(t)
  <2>1. PICK v \in {"lock", "done", "err"} : stage' = [stage EXCEPT ![t] = v] /\ (v = "done" => Stale(t))
    BY <1>4 DEF Begin, SetStage
  <2>2. UNCHANGED <<holder, request, config>> /\ stage[t] # "run"
    BY <1>4 DEF Begin, workerVars
  <2>3. \A r \in Requesters : holder' = r =>
          stage'[r] = "run" /\ (request' # "none" => config' = job[r].config)
    BY <1>2, <1>3, <2>1, <2>2 DEF IInv, Captured
  <2> QED BY <1>1, <2>1, <2>3, ThreadMoves DEF Stale, Results
<1>5. CASE LockWorker(t)
  <2>1. request = "none" /\ holder = <<"free", 0>>
    <3>1. holder = <<"free", 0>>
      BY <1>5 DEF LockWorker, WS!Lock, WS!MutexFree
    <3> QED BY <1>3, <3>1 DEF WS!IInv, WS!MutexRespected
  <2>2. PICK v \in {"run", "ok", "err"} :
          stage' = [stage EXCEPT ![t] = v] /\ request' = request
          /\ holder' = IF v = "run" THEN t ELSE holder
    BY <1>5 DEF LockWorker, SetStage, workerVars, WS!Lock
  <2>3. \A r \in Requesters : holder' = r =>
          stage'[r] = "run" /\ (request' # "none" => config' = job[r].config)
    BY <1>2, <1>3, <2>1, <2>2
  <2> QED BY <1>1, <2>2, <2>3, ThreadMoves DEF Results
<1>6. CASE UseWorker(t)
  <2>1. holder = t /\ (request # "none" => config = job[t].config)
    <3>1. holder = t
      BY <1>6 DEF UseWorker, WS!Reuse, WS!Recycle, WS!Launch, WS!Track, WS!HandshakeOk,
         WS!WarmUpDone, WS!LaunchFails,
           WS!HandshakeFails, WS!WarmUpFails, WS!EngineError, WS!WorkerDied, WS!Ends, WS!Marks,
           WS!Reaps, WS!Transcribed
    <3> QED BY <3>1 DEF IInv, Captured
  <2>2. PICK v \in {"run"} \cup Results :
          stage' = [stage EXCEPT ![t] = v] /\ (holder' = t => v = "run")
    BY <1>6 DEF UseWorker, SetStage, Results, WS!LaunchFails, WS!HandshakeFails,
         WS!WarmUpFails, WS!EngineError, WS!WorkerDied, WS!Ends, WS!Marks, WS!Reaps,
         WS!Transcribed, WS!Unlock
  <2>3. /\ holder' \in {t, <<"free", 0>>}
        /\ holder' = t /\ request' # "none" => config' = job[t].config
    BY <1>6, <2>1 DEF UseWorker, WS!Reuse, WS!Recycle, WS!Launch, WS!Track, WS!HandshakeOk,
       WS!WarmUpDone,
         WS!LaunchFails, WS!HandshakeFails, WS!WarmUpFails, WS!EngineError, WS!WorkerDied,
         WS!Ends, WS!Marks, WS!Reaps,
         WS!Transcribed, WS!Unlock, WS!Hello, WS!Kinds, WS!supVars
  <2>4. \A r \in Requesters : holder' = r =>
          stage'[r] = "run" /\ (request' # "none" => config' = job[r].config)
    BY <1>2, <1>3, <2>2, <2>3
  <2> QED BY <1>1, <2>2, <2>4, ThreadMoves DEF Results
<1> QED BY <1>4, <1>5, <1>6 DEF RequesterStep

\* The cleanup of a transcript.
LEMMA CleanTranscriptPreserves ==
  ASSUME IInv, NEW s \in Sessions, CleanTranscript(s) PROVE IInv'
<1> DEFINE t == <<"clean", s>>
<1>1. PICK v \in {"ok", "err"} : stage' = [stage EXCEPT ![t] = v]
  BY DEF CleanTranscript, SetStage
<1>2. /\ UNCHANGED <<active, transcribing, warming, cleaning, delivering, overlay, log, job, bg,
                     gen, up, prefs, idleCheck, reloads, issued, holder, request, config>>
      /\ stage[t] = "run" /\ t \in Jobs
  BY Disjoint DEF CleanTranscript, loopVars, sharedVars, miscVars, workerVars
<1>3. \A r \in Requesters : r \in Jobs /\ r # t
  BY Disjoint DEF Requesters, Jobs
<1>4. \A r \in Requesters : stage'[r] = stage[r]
  BY <1>1, <1>3 DEF IInv, OwnTypeOK
<1>5. \A r \in Requesters : holder' = r =>
        stage'[r] = "run" /\ (request' # "none" => config' = job[r].config)
  BY <1>2, <1>4 DEF IInv, Captured
<1> QED BY <1>1, <1>2, <1>5, ThreadMoves DEF Results

\* Steps that no dictation takes part in.
LEMMA ElsewherePreserves ==
  ASSUME IInv, \/ IdleTick \/ IdleCheckRuns \/ ReloadRuns \/ CaretakerEnds \/ CoordinatorRuns
               \/ ChildExits \/ IdleTimeout \/ UnloadModel \/ \E p \in Prefs : ReloadConfig(p)
  PROVE  IInv'
<1>1. UNCHANGED <<gen, active, transcribing, warming, cleaning, delivering, overlay, log, bg,
                  stage, job, up>>
  BY DEF IdleTick, IdleCheckRuns, ReloadRuns, CaretakerEnds, CoordinatorRuns, ChildExits,
       IdleTimeout, UnloadModel, ReloadConfig, loopVars, threadVars, sharedVars, miscVars
<1>2. issued \in Count
  BY DEF IInv, OwnTypeOK
<1>3. /\ issued' \in Count /\ issued'.start = issued.start /\ issued'.cancel = issued.cancel
      /\ issued'.test = issued.test
  BY <1>2, Bounds DEF IdleTick, IdleCheckRuns, ReloadRuns, CaretakerEnds, CoordinatorRuns,
       ChildExits, IdleTimeout, UnloadModel, ReloadConfig, miscVars, Command, Bounded, Count
<1>4. OwnTypeOK'
  <2>1. CASE UNCHANGED reloads
    <3>1. prefs' \in Prefs
      BY <2>1 DEF IInv, OwnTypeOK, IdleTick, IdleCheckRuns, ReloadRuns, CaretakerEnds,
           CoordinatorRuns, ChildExits, IdleTimeout, UnloadModel, ReloadConfig, miscVars
    <3>2. idleCheck' \in {"none", "busy", "free", "ends"}
      BY DEF IInv, OwnTypeOK, IdleTick, IdleCheckRuns, ReloadRuns, CaretakerEnds,
           CoordinatorRuns, ChildExits, IdleTimeout, UnloadModel, ReloadConfig, miscVars
    <3> QED BY <1>1, <1>3, <2>1, <3>1, <3>2 DEF IInv, OwnTypeOK
  <2>2. CASE ReloadRuns
    <3>1. prefs' = prefs /\ idleCheck' = idleCheck /\ reloads' \subseteq reloads
      BY <2>2 DEF ReloadRuns
    <3> QED BY <1>1, <1>3, <3>1 DEF IInv, OwnTypeOK
  <2>3. ASSUME NEW p \in Prefs, ReloadConfig(p) PROVE OwnTypeOK'
    <3>1. issued'.reload \in 1..MaxReloads
      BY <1>2, <2>3, Bounds DEF ReloadConfig, Command, Bounded, Count
    <3>2. prefs' \in Prefs /\ idleCheck' = idleCheck
          /\ reloads' \in {reloads, reloads \cup {<<issued'.reload, p>>}}
      BY <2>3 DEF ReloadConfig
    <3> QED BY <1>1, <1>3, <3>1, <3>2 DEF IInv, OwnTypeOK
  <2> QED BY <2>1, <2>2, <2>3 DEF IdleTick, IdleCheckRuns, CaretakerEnds, CoordinatorRuns,
            ChildExits, IdleTimeout, UnloadModel, miscVars
<1>5. \A t \in Requesters : holder' = t =>
        holder = t /\ (request' # "none" => request # "none" /\ config' = config)
  <2>1. CASE CoordinatorRuns
    <3>1. PICK k \in Shutdowns : WS!CoordinatorStep(k)
      BY <2>1 DEF CoordinatorRuns
    <3>2. /\ config' = config
          /\ holder' \in {k, <<"free", 0>>} \/ UNCHANGED <<holder, request>>
      BY <3>1 DEF WS!CoordinatorStep, WS!CoordinatorLocks, WS!CoordinatorStops,
           WS!CoordinatorEnds, WS!CallerReturns, WS!CallerTimesOut, WS!CallerReadsPid,
           WS!CallerKills, WS!CallerGivesUp, WS!Reaps, WS!Marks, WS!Unlock, WS!lockVars,
           WS!supVars
    <3> QED BY <3>1, <3>2, Disjoint
  <2>2. CASE ReloadRuns \/ IdleCheckRuns \/ CaretakerEnds
    <3>1. holder' \in {<<"free", 0>>, <<"caretaker", 0>>}
      BY <2>2 DEF ReloadRuns, IdleCheckRuns, CaretakerEnds, WS!UpdateRuntimeConfig,
           WS!ShutdownIfIdle, WS!CaretakerEnds, WS!Reaps, WS!Marks, WS!Unlock, WS!MutexFree,
           WS!lockVars
    <3> QED BY <3>1, Disjoint
  <2>3. CASE ~CoordinatorRuns /\ ~ReloadRuns /\ ~IdleCheckRuns /\ ~CaretakerEnds
    <3>1. UNCHANGED <<holder, request, config>>
      BY <2>3 DEF IdleTick, ChildExits, IdleTimeout, UnloadModel, ReloadConfig, workerVars,
           WS!ChildExits, WS!Expires, WS!StartShutdown, WS!lockVars, WS!supVars
    <3> QED BY <3>1
  <2> QED BY <2>1, <2>2, <2>3
<1> QED BY <1>1, <1>3, <1>4, <1>5, Unaffected

-----------------------------------------------------------------------------
(* Commands *)

\* A model test is spawned.
LEMMA TestModelPreserves == ASSUME IInv, NEW m \in Models, TestModel(m) PROVE IInv'
<1> DEFINE n == issued.test + 1
<1>1. issued \in Count /\ prefs \in Prefs /\ gen \in 0..MaxGen
  BY DEF IInv, OwnTypeOK
<1>2. /\ issued' \in Count /\ issued'.start = issued.start /\ issued'.cancel = issued.cancel
      /\ issued'.test = n /\ n \in 1..MaxTests /\ issued.test \in Nat
  BY <1>1, Bounds DEF TestModel, Command, Bounded, Count
<1>3. /\ UNCHANGED <<gen, bg, active, transcribing, warming, cleaning, delivering, overlay, log,
                     up, prefs, idleCheck, reloads, holder, request, config>>
      /\ stage' = [stage EXCEPT ![<<"test", n>>] = "check"]
      /\ job' = [job EXCEPT ![<<"test", n>>] =
                   [gen |-> gen, config |-> [model |-> m, prefs |-> prefs]]]
  BY <1>2 DEF TestModel, Spawn, loopVars, sharedVars, workerVars
<1>4. /\ stage \in [Jobs -> {"idle", "join", "check", "lock", "run", "done"} \cup Results]
      /\ job \in [Jobs -> [gen : 0..MaxGen, config : Config \cup {NoConfig}]]
  BY DEF IInv, OwnTypeOK
<1>5. <<"test", n>> \in Requesters /\ <<"test", n>> \in Jobs /\ stage[<<"test", n>>] = "idle"
  BY <1>2 DEF IInv, Fresh, Requesters, Jobs
<1>6. [model |-> m, prefs |-> prefs] \in Config
  BY <1>1 DEF Config
<1>7. /\ stage' \in [Jobs -> {"idle", "join", "check", "lock", "run", "done"} \cup Results]
      /\ job' \in [Jobs -> [gen : 0..MaxGen, config : Config \cup {NoConfig}]]
  BY <1>1, <1>3, <1>4, <1>6
<1>8. /\ \A t \in Jobs : t # <<"test", n>> => stage'[t] = stage[t] /\ job'[t] = job[t]
      /\ job'[<<"test", n>>].config \in Config
      /\ \A k \in {"warm", "pcm", "clean"}, s \in Sessions :
           stage'[<<k, s>>] = stage[<<k, s>>] /\ job'[<<k, s>>] = job[<<k, s>>]
  BY <1>3, <1>4, <1>5, <1>6, Disjoint
<1>9. OwnTypeOK'
  BY <1>2, <1>3, <1>7 DEF IInv, OwnTypeOK
<1>10. \A i \in 1..MaxTests : i > n => stage'[<<"test", i>>] = "idle"
  <2> SUFFICES ASSUME NEW i \in 1..MaxTests, i > n PROVE stage'[<<"test", i>>] = "idle"
    OBVIOUS
  <2>1. <<"test", i>> \in Jobs /\ stage[<<"test", i>>] = "idle"
    BY <1>2 DEF IInv, Fresh, Jobs, Requesters
  <2> QED BY <1>2, <1>8, <2>1
<1>11. Fresh'
  BY <1>2, <1>3, <1>8, <1>10 DEF IInv, Fresh, Tracked, Working, ActiveSession
<1>12. Generations'
  BY <1>2, <1>3, <1>8 DEF IInv, Generations, StartGen, Tracked, Working, ActiveSession
<1>13. Captured'
  <2>1. \A t \in Requesters : t \in Jobs
    BY DEF Jobs
  <2>2. \A t \in Requesters : stage'[t] # "idle" => job'[t].config \in Config
    BY <1>8, <2>1 DEF IInv, Captured
  <2>3. \A t \in Requesters : holder' = t =>
          stage'[t] = "run" /\ (request' # "none" => config' = job'[t].config)
    BY <1>3, <1>5, <1>8, <2>1 DEF IInv, Captured
  <2> QED BY <1>3, <1>8, <2>2, <2>3 DEF IInv, Captured
<1>14. Mail'
  <2>1. \A i \in DOMAIN bg : bg[i] \in Message
    BY DEF IInv, OwnTypeOK
  <2>2. \A i \in DOMAIN bg : bg[i].kind \in {"warm", "pcm", "clean"} /\ bg[i].session \in Sessions
    BY <2>1 DEF Message
  <2> QED BY <1>3, <1>8, <2>2 DEF IInv, Mail
<1>15. \A k \in {"pcm", "clean"}, s \in Sessions : AtWork(k, s)' <=> AtWork(k, s)
  BY <1>3, <1>8 DEF AtWork, InMail
<1>16. Phases' /\ NothingForgotten'
  BY <1>3, <1>8, <1>15 DEF IInv, OwnTypeOK, Phases, NothingForgotten, StartGen
<1> QED BY <1>9, <1>11, <1>12, <1>13, <1>14, <1>16 DEF IInv

\* A recording stops with nothing to transcribe.
LEMMA StopWithoutAudioPreserves ==
  ASSUME IInv, NEW s \in Sessions, StopWithoutAudio(s) PROVE IInv'
<1>1. issued \in Count
  BY DEF IInv, OwnTypeOK
<1>2. /\ issued' \in Count /\ issued'.start = issued.start /\ issued'.cancel = issued.cancel
      /\ issued'.test = issued.test
  BY <1>1, Bounds DEF StopWithoutAudio, Command, Bounded, Count
<1>3. /\ active.session = s /\ active' = NoRecording
      /\ overlay' \in Overlays
      /\ UNCHANGED <<transcribing, warming, cleaning, delivering, stage, job, gen, bg,
                     up, prefs, idleCheck, reloads, holder, request, config>>
  BY DEF StopWithoutAudio, DropRecording, Restore, Overlays, threadVars, sharedVars, workerVars
<1>4. /\ log' \in [Sessions -> Seq(Fates)]
      /\ \A x \in Sessions : x # s => log'[x] = log[x]
  BY LogTyped DEF StopWithoutAudio, Fates
<1>5. \A x \in Sessions : x # 0
  BY Bounds DEF Sessions
<1>6. s \in Tracked
  BY <1>3, <1>5 DEF Tracked, ActiveSession
<1>7. Tracked' \subseteq Tracked
  BY <1>3 DEF Tracked, Working, ActiveSession, NoRecording
<1>8. OwnTypeOK'
  BY <1>2, <1>3, <1>4 DEF IInv, OwnTypeOK
<1>9. Fresh'
  BY <1>2, <1>3, <1>4, <1>6, <1>7 DEF IInv, Fresh
<1>10. Generations'
  BY <1>2, <1>3, <1>7 DEF IInv, Generations, StartGen
<1>11. Captured'
  BY <1>3, <1>5 DEF IInv, Captured, NoRecording
<1>12. Mail'
  BY <1>3 DEF IInv, Mail
<1>13. \A k \in {"pcm", "clean"}, x \in Sessions : AtWork(k, x)' <=> AtWork(k, x)
  BY <1>3 DEF AtWork, InMail
<1>14. ~AtWork("pcm", s) /\ ~AtWork("clean", s)
  BY <1>3, IdleIsNotAtWork DEF IInv, Phases
<1>15. Phases'
  <2> SUFFICES ASSUME NEW x \in Sessions PROVE Phases!(x)'
    BY DEF Phases
  <2>1. active'.session # x
    BY <1>3, <1>5 DEF NoRecording
  <2> QED BY <1>3, <1>4, <1>13, <1>14, <2>1 DEF IInv, Phases, StartGen
<1>16. NothingForgotten'
  BY <1>3, <1>13 DEF IInv, OwnTypeOK, NothingForgotten
<1> QED BY <1>8, <1>9, <1>10, <1>11, <1>12, <1>15, <1>16 DEF IInv

\* A recording stops and its audio goes to a thread that was not spawned before.
LEMMA StopRecordingPreserves ==
  ASSUME IInv, NEW s \in Sessions, StopRecording(s) PROVE IInv'
<1> DEFINE t == <<"pcm", s>>
<1>1. issued \in Count /\ gen \in 0..MaxGen
  BY DEF IInv, OwnTypeOK
<1>2. /\ issued' \in Count /\ issued'.start = issued.start /\ issued'.cancel = issued.cancel
      /\ issued'.test = issued.test
  BY <1>1, Bounds DEF StopRecording, Command, Bounded, Count
<1>3. /\ active.session = s /\ active' = NoRecording
      /\ overlay' \in Overlays
      /\ transcribing' = transcribing \cup {s}
      /\ stage' = [stage EXCEPT ![t] = "check"]
      /\ job' = [job EXCEPT ![t] = [gen |-> gen, config |-> active.config]]
      /\ UNCHANGED <<warming, cleaning, delivering, log, gen, bg,
                     up, prefs, idleCheck, reloads, holder, request, config>>
  BY DEF StopRecording, DropRecording, Spawn, Frozen, Overlays, sharedVars, workerVars
<1>4. \A x \in Sessions : x # 0
  BY Bounds DEF Sessions
<1>5. active.config \in Config /\ active.config = job[<<"warm", s>>].config
  BY <1>3, <1>4 DEF IInv, OwnTypeOK, Captured, NoRecording
<1>6. stage[t] = "idle" /\ stage[<<"clean", s>>] = "idle"
  BY <1>3 DEF IInv, Phases
<1>7. s \in Tracked /\ StartGen(s) = gen /\ gen # 0
  <2>1. s \in Tracked
    BY <1>3, <1>4 DEF Tracked, ActiveSession
  <2> QED BY <2>1 DEF IInv, Generations
<1>8. /\ stage \in [Jobs -> {"idle", "join", "check", "lock", "run", "done"} \cup Results]
      /\ job \in [Jobs -> [gen : 0..MaxGen, config : Config \cup {NoConfig}]]
  BY DEF IInv, OwnTypeOK
<1>9. /\ stage' \in [Jobs -> {"idle", "join", "check", "lock", "run", "done"} \cup Results]
      /\ job' \in [Jobs -> [gen : 0..MaxGen, config : Config \cup {NoConfig}]]
  BY <1>1, <1>3, <1>5, <1>8
<1>10. /\ \A r \in Jobs : r # t => stage'[r] = stage[r] /\ job'[r] = job[r]
       /\ stage'[t] = "check" /\ job'[t].gen = gen /\ job'[t].config = active.config
       /\ \A k \in {"warm", "pcm", "clean"}, x \in Sessions : k # "pcm" \/ x # s =>
            stage'[<<k, x>>] = stage[<<k, x>>] /\ job'[<<k, x>>] = job[<<k, x>>]
  BY <1>3, <1>8, Disjoint
<1>11. OwnTypeOK'
  BY <1>2, <1>3, <1>9 DEF IInv, OwnTypeOK
<1>12. Tracked' \subseteq Tracked
  BY <1>3, <1>7 DEF Tracked, Working, ActiveSession, NoRecording
<1>13. \A n \in 1..MaxTests : <<"test", n>> \in Jobs
  BY DEF Jobs, Requesters
<1>14. \A x \in Sessions : x > issued.start => x # s
  BY <1>7 DEF IInv, Fresh
<1>15. Fresh'
  BY <1>2, <1>3, <1>10, <1>12, <1>13, <1>14 DEF IInv, Fresh
<1>16. \A x \in Sessions : StartGen(x)' = StartGen(x)
  BY <1>10 DEF StartGen
<1>17. Generations'
  <2>1. ASSUME NEW x \in Sessions, NEW kind \in {"warm", "pcm", "clean"},
               stage'[<<kind, x>>] # "idle"
        PROVE  StartGen(x)' # 0 /\ job'[<<kind, x>>].gen = StartGen(x)'
    <3>1. CASE kind = "pcm" /\ x = s
      BY <1>7, <1>10, <1>16, <3>1
    <3>2. CASE kind # "pcm" \/ x # s
      <4>1. stage[<<kind, x>>] # "idle" /\ job'[<<kind, x>>] = job[<<kind, x>>]
        BY <1>10, <2>1, <3>2
      <4> QED BY <1>16, <4>1 DEF IInv, Generations
    <3> QED BY <3>1, <3>2
  <2>2. Tracked' \subseteq Sessions
    BY <1>11 DEF OwnTypeOK, Tracked, Working, ActiveSession, NoRecording
  <2> QED BY <1>2, <1>3, <1>12, <1>16, <2>1, <2>2 DEF IInv, Generations
<1>18. Captured'
  <2>1. \A r \in Requesters : r \in Jobs
    BY DEF Jobs
  <2>2. \A r \in Requesters : stage'[r] # "idle" => job'[r].config \in Config
    BY <1>5, <1>10, <2>1 DEF IInv, Captured
  <2>3. \A r \in Requesters : holder' = r =>
          stage'[r] = "run" /\ (request' # "none" => config' = job'[r].config)
    BY <1>3, <1>6, <1>10, <2>1 DEF IInv, Captured
  <2>4. \A x \in Sessions : stage'[<<"pcm", x>>] # "idle" =>
          job'[<<"pcm", x>>].config = job'[<<"warm", x>>].config
    BY <1>5, <1>10 DEF IInv, Captured
  <2>5. \A x \in Sessions : active'.session # x
    BY <1>3, <1>4 DEF NoRecording
  <2> QED BY <2>2, <2>3, <2>4, <2>5 DEF Captured
<1>19. Mail'
  <2>1. \A i \in DOMAIN bg : bg[i] \in Message /\ stage[<<bg[i].kind, bg[i].session>>] = "done"
    BY DEF IInv, OwnTypeOK, Mail
  <2>2. \A i \in DOMAIN bg : bg[i].kind # "pcm" \/ bg[i].session # s
    BY <1>6, <2>1
  <2>3. \A i \in DOMAIN bg : bg[i].kind \in {"warm", "pcm", "clean"} /\ bg[i].session \in Sessions
    BY <2>1 DEF Message
  <2> QED BY <1>3, <1>10, <2>2, <2>3 DEF IInv, Mail
<1>20. /\ \A k \in {"pcm", "clean"}, x \in Sessions : k # "pcm" \/ x # s =>
            (AtWork(k, x)' <=> AtWork(k, x))
       /\ AtWork("pcm", s)'
  BY <1>3, <1>10 DEF AtWork, InMail
<1>21. log[s] = <<>> /\ s \notin delivering
  BY <1>3, <1>7 DEF IInv, Phases
<1>22. Phases'
  <2> SUFFICES ASSUME NEW x \in Sessions PROVE Phases!(x)'
    BY DEF Phases
  <2>1. active'.session # x
    BY <1>3, <1>4 DEF NoRecording
  <2>2. CASE x = s
    BY <1>3, <1>6, <1>10, <1>21, <2>1, <2>2
  <2>3. CASE x # s
    BY <1>3, <1>10, <1>16, <1>20, <2>1, <2>3 DEF IInv, Phases
  <2> QED BY <2>2, <2>3
<1>23. NothingForgotten'
  <2>1. transcribing \subseteq Sessions /\ cleaning \subseteq Sessions
    BY DEF IInv, OwnTypeOK
  <2>2. ASSUME NEW x \in transcribing' PROVE AtWork("pcm", x)' /\ job'[<<"pcm", x>>].gen = gen'
    <3>1. CASE x = s
      BY <1>3, <1>10, <1>20, <3>1
    <3>2. CASE x # s
      <4>1. x \in transcribing /\ x \in Sessions
        BY <1>3, <2>1, <3>2
      <4>2. AtWork("pcm", x) /\ job[<<"pcm", x>>].gen = gen
        BY <4>1 DEF IInv, NothingForgotten
      <4> QED BY <1>3, <1>10, <1>20, <3>2, <4>1, <4>2
    <3> QED BY <3>1, <3>2
  <2>3. ASSUME NEW x \in cleaning' PROVE AtWork("clean", x)' /\ job'[<<"clean", x>>].gen = gen'
    <3>1. x \in cleaning /\ x \in Sessions
      BY <1>3, <2>1
    <3>2. AtWork("clean", x) /\ job[<<"clean", x>>].gen = gen
      BY <3>1 DEF IInv, NothingForgotten
    <3> QED BY <1>3, <1>10, <1>20, <3>1, <3>2
  <2> QED BY <2>2, <2>3 DEF NothingForgotten
<1> QED BY <1>11, <1>15, <1>17, <1>18, <1>19, <1>22, <1>23 DEF IInv

\* The client reports on a delivery.
LEMMA DeliveryPreserves ==
  ASSUME IInv, NEW s \in Sessions, DeliveryProgress(s) \/ DeliveryComplete(s) PROVE IInv'
<1>1. /\ UNCHANGED <<active, transcribing, warming, cleaning, log, stage, job, gen, bg, up, prefs,
                     idleCheck, reloads, issued, holder, request, config>>
      /\ overlay' \in Overlays
      /\ delivering' \subseteq delivering
  BY DEF DeliveryProgress, DeliveryComplete, Restore, Overlays, threadVars, sharedVars,
     miscVars,
       workerVars
<1>2. OwnTypeOK'
  BY <1>1 DEF IInv, OwnTypeOK
<1>3. Fresh' /\ Generations'
  BY <1>1 DEF IInv, Fresh, Generations, StartGen, Tracked, Working, ActiveSession
<1>4. Captured' /\ Mail'
  BY <1>1 DEF IInv, Captured, Mail
<1>5. Phases' /\ NothingForgotten'
  BY <1>1 DEF IInv, Phases, NothingForgotten, AtWork, InMail, StartGen
<1> QED BY <1>2, <1>3, <1>4, <1>5 DEF IInv

\* The main loop ends.
LEMMA ShutdownPreserves == ASSUME IInv, Shutdown PROVE IInv'
<1>1. issued \in Count
  BY DEF IInv, OwnTypeOK
<1>2. /\ issued' \in Count /\ issued'.start = issued.start /\ issued'.cancel = issued.cancel
      /\ issued'.test = issued.test
  BY <1>1, Bounds DEF Shutdown, Command, Bounded, Count
<1>3. /\ active' = NoRecording /\ overlay' = "Hidden" /\ up' = FALSE
      /\ UNCHANGED <<transcribing, warming, cleaning, delivering, log, stage, job, gen, bg,
                     prefs, idleCheck, reloads, holder, request, config>>
  BY DEF Shutdown, DropRecording, threadVars, sharedVars, WS!StartShutdown, WS!lockVars,
     WS!supVars
<1>4. \A x \in Sessions : active'.session # x
  BY <1>3, Bounds DEF Sessions, NoRecording
<1>5. OwnTypeOK'
  BY <1>2, <1>3 DEF IInv, OwnTypeOK, Overlays
<1>6. Tracked' \subseteq Tracked
  BY <1>3 DEF Tracked, Working, ActiveSession, NoRecording
<1>7. Fresh'
  BY <1>2, <1>3, <1>6 DEF IInv, Fresh
<1>8. Generations'
  BY <1>2, <1>3, <1>6 DEF IInv, Generations, StartGen
<1>9. Captured' /\ Mail'
  BY <1>3, <1>4 DEF IInv, Captured, Mail
<1>10. Phases' /\ NothingForgotten'
  BY <1>3, <1>4 DEF IInv, Phases, NothingForgotten, AtWork, InMail, StartGen
<1> QED BY <1>5, <1>7, <1>8, <1>9, <1>10 DEF IInv

\* A cancel: the generation moves on and nothing is tracked.
LEMMA CancelPreserves == ASSUME IInv, Cancel PROVE IInv'
<1>1. /\ gen \in Nat /\ gen = issued.start + issued.cancel
      /\ issued \in Count
      /\ issued.start \in 0..MaxStarts /\ issued.cancel \in 0..MaxCancels
      /\ \A s \in Sessions : s # 0 /\ StartGen(s) \in 0..gen
  BY Counting DEF Counted
<1>2. /\ issued' \in Count /\ issued'.cancel = issued.cancel + 1
      /\ issued.cancel < MaxCancels /\ issued'.start = issued.start /\ issued'.test = issued.test
  BY <1>1, Bounds DEF Cancel, Command, Bounded, Count
<1>3. /\ gen' = gen + 1 /\ active' = NoRecording
      /\ transcribing' = {} /\ warming' = {} /\ cleaning' = {} /\ delivering' = {}
      /\ overlay' = "Hidden"
      /\ UNCHANGED <<log, stage, job, bg, up, prefs, idleCheck, reloads>>
  BY DEF Cancel, DropRecording, DropWork, threadVars
<1>4. UNCHANGED <<holder, request, config>>
  BY DEF Cancel, ShutdownIf, workerVars, WS!StartShutdown, WS!lockVars, WS!supVars
<1>5. Tracked' = {}
  BY <1>3 DEF Tracked, Working, ActiveSession, NoRecording
<1>6. \A kind \in {"pcm", "clean"}, s \in Sessions : AtWork(kind, s)' <=> AtWork(kind, s)
  BY <1>3 DEF AtWork, InMail
<1>7. OwnTypeOK'
  <2>1. gen' \in 0..MaxGen
    BY <1>1, <1>2, <1>3, Bounds DEF MaxGen
  <2> QED BY <1>2, <1>3, <2>1 DEF IInv, OwnTypeOK, Overlays
<1>8. Fresh'
  BY <1>2, <1>3, <1>5 DEF IInv, Fresh
<1>9. Generations'
  BY <1>1, <1>2, <1>3, <1>5 DEF IInv, Generations, StartGen
<1>10. Captured'
  BY <1>1, <1>3, <1>4 DEF IInv, Captured, NoRecording
<1>11. Mail'
  BY <1>3 DEF IInv, Mail
<1>12. Phases'
  <2> SUFFICES ASSUME NEW s \in Sessions PROVE Phases!(s)'
    BY DEF Phases
  <2>1. StartGen(s)' # gen'
    BY <1>1, <1>3 DEF StartGen
  <2> QED BY <1>1, <1>3, <1>6, <2>1 DEF IInv, Phases, NoRecording
<1>13. NothingForgotten'
  BY <1>3 DEF IInv, NothingForgotten
<1> QED BY <1>7, <1>8, <1>9, <1>10, <1>11, <1>12, <1>13 DEF IInv

\* A start, refused or accepted: the generation moves on and at most the new session is
\* tracked.
LEMMA StartRecordingPreserves == ASSUME IInv, StartRecording PROVE IInv'
<1> DEFINE n == issued.start + 1
<1>1. /\ gen \in Nat /\ gen = issued.start + issued.cancel
      /\ issued \in Count
      /\ issued.start \in 0..MaxStarts /\ issued.cancel \in 0..MaxCancels
      /\ \A s \in Sessions : s # 0 /\ StartGen(s) \in 0..gen
  BY Counting DEF Counted
<1>2. /\ issued' \in Count /\ issued'.start = n /\ n \in Sessions
      /\ issued'.cancel = issued.cancel /\ issued'.test = issued.test
  <2>1. issued.start < MaxStarts /\ issued' = [issued EXCEPT !["start"] = @ + 1]
    BY DEF StartRecording, Command, Bounded
  <2>2. n \in 1..MaxStarts
    BY <1>1, <2>1, Bounds
  <2> QED BY <1>1, <2>1, <2>2 DEF Count, Sessions
<1>3. /\ gen' = gen + 1 /\ transcribing' = {} /\ cleaning' = {} /\ delivering' = {}
      /\ overlay' \in {overlay, "Hidden", "Recording"}
      /\ log' = [x \in Sessions |-> IF x \in Tracked THEN Append(log[x], "superseded") ELSE log[x]]
      /\ UNCHANGED <<bg, up, prefs, idleCheck, reloads>>
  BY DEF StartRecording, DropWork
<1>4. UNCHANGED <<holder, request, config>>
  BY DEF StartRecording, ShutdownIf, workerVars, WS!StartShutdown, WS!lockVars, WS!supVars
<1>5. log' \in [Sessions -> Seq(Fates)] /\ \A x \in Sessions : x \notin Tracked => log'[x] = log[x]
  BY <1>3 DEF IInv, OwnTypeOK, Fates
<1>6. gen' \in 1..MaxGen
  <2>1. gen' = n + issued.cancel /\ n \in 1..MaxStarts
    BY <1>1, <1>2, <1>3 DEF Sessions
  <2> QED BY <1>1, <2>1, Bounds DEF MaxGen
<1>7. /\ n > issued.start /\ n \notin Tracked /\ log[n] = <<>>
      /\ \A kind \in {"warm", "pcm", "clean"} : stage[<<kind, n>>] = "idle" /\ job[<<kind, n>>] = NoJob
  BY <1>1, <1>2 DEF IInv, Fresh
<1>8. \A s \in Sessions : s > n => s > issued.start /\ s # n /\ s \notin Tracked
  <2>1. \A s \in Sessions : s > n => s > issued.start /\ s # n
    BY <1>1, Bounds DEF Sessions
  <2> QED BY <2>1 DEF IInv, Fresh
<1>9. CASE active' = NoRecording /\ warming' = {} /\ UNCHANGED threadVars
  <2>1. UNCHANGED <<stage, job>> /\ active' = NoRecording
    BY <1>9 DEF threadVars
  <2>2. Tracked' = {}
    BY <1>3, <1>9 DEF Tracked, Working, ActiveSession, NoRecording
  <2>3. \A kind \in {"pcm", "clean"}, s \in Sessions : AtWork(kind, s)' <=> AtWork(kind, s)
    BY <1>3, <2>1 DEF AtWork, InMail
  <2>4. OwnTypeOK'
    BY <1>2, <1>3, <1>5, <1>6, <1>9, <2>1 DEF IInv, OwnTypeOK, Overlays
  <2>5. Fresh'
    BY <1>2, <1>5, <1>8, <2>1, <2>2 DEF IInv, Fresh
  <2>6. Generations'
    BY <1>1, <1>2, <1>3, <2>1, <2>2 DEF IInv, Generations, StartGen
  <2>7. Captured'
    BY <1>1, <1>4, <2>1 DEF IInv, Captured, NoRecording
  <2>8. Mail'
    BY <1>3, <2>1 DEF IInv, Mail
  <2>9. Phases'
    <3> SUFFICES ASSUME NEW s \in Sessions PROVE Phases!(s)'
      BY DEF Phases
    <3>1. StartGen(s)' # gen'
      BY <1>1, <1>3, <2>1 DEF StartGen
    <3> QED BY <1>1, <1>3, <2>1, <2>3, <3>1 DEF IInv, Phases, NoRecording
  <2>10. NothingForgotten'
    BY <1>3 DEF IInv, NothingForgotten
  <2> QED BY <2>4, <2>5, <2>6, <2>7, <2>8, <2>9, <2>10 DEF IInv
<1>10. ASSUME NEW m \in Models,
              active' = [session |-> n, config |-> [model |-> m, prefs |-> prefs]],
              warming' = {n},
              NEW first \in {"join", "check"},
              Spawn(<<"warm", n>>, first, gen + 1, active'.config)
       PROVE  IInv'
  <2> DEFINE t == <<"warm", n>>
  <2>1. active' \in [session : Sessions, config : Config] /\ active'.session = n
        /\ active'.config \in Config
    BY <1>2, <1>10 DEF IInv, OwnTypeOK, Config
  <2>2. /\ stage \in [Jobs -> {"idle", "join", "check", "lock", "run", "done"} \cup Results]
        /\ job \in [Jobs -> [gen : 0..MaxGen, config : Config \cup {NoConfig}]]
        /\ t \in Jobs
    BY <1>2, Disjoint DEF IInv, OwnTypeOK
  <2>3. /\ stage' \in [Jobs -> {"idle", "join", "check", "lock", "run", "done"} \cup Results]
        /\ job' \in [Jobs -> [gen : 0..MaxGen, config : Config \cup {NoConfig}]]
    BY <1>3, <1>6, <1>10, <2>1, <2>2 DEF Spawn
  <2>4. /\ \A r \in Jobs : r # t => stage'[r] = stage[r] /\ job'[r] = job[r]
        /\ stage'[t] = first /\ job'[t].gen = gen' /\ job'[t].config = active'.config
        /\ \A k \in {"warm", "pcm", "clean"}, x \in Sessions : k # "warm" \/ x # n =>
             stage'[<<k, x>>] = stage[<<k, x>>] /\ job'[<<k, x>>] = job[<<k, x>>]
    BY <1>3, <1>10, <2>2, Disjoint DEF Spawn
  <2>5. Tracked' = {n}
    BY <1>1, <1>2, <1>3, <1>10, <2>1 DEF Tracked, Working, ActiveSession
  <2>6. \A kind \in {"pcm", "clean"}, s \in Sessions : AtWork(kind, s)' <=> AtWork(kind, s)
    BY <1>3, <2>4 DEF AtWork, InMail
  <2>7. /\ \A x \in Sessions : x # n => StartGen(x)' = StartGen(x)
        /\ \A x \in Sessions : x = n => StartGen(x)' = gen'
    BY <2>4 DEF StartGen
  <2>8. OwnTypeOK'
    BY <1>2, <1>3, <1>5, <1>6, <1>10, <2>1, <2>3 DEF IInv, OwnTypeOK, Overlays
  <2>9. Fresh'
    <3>2. \A i \in 1..MaxTests : <<"test", i>> \in Jobs /\ <<"test", i>> # t
      BY DEF Jobs, Requesters
    <3>3. \A i \in 1..MaxTests : i > issued'.test => stage'[<<"test", i>>] = "idle"
      BY <1>2, <2>4, <3>2 DEF IInv, Fresh
    <3>4. \A s \in Sessions : s > n => log'[s] = <<>> /\ s \notin Tracked'
      BY <1>5, <1>8, <2>5 DEF IInv, Fresh
    <3> QED BY <1>2, <1>8, <2>4, <3>3, <3>4 DEF IInv, Fresh
  <2>10. Generations'
    <3>1. gen' = issued'.start + issued'.cancel /\ gen' # 0
      BY <1>1, <1>2, <1>3
    <3>2. \A s \in Sessions : StartGen(s)' \in 0..gen' /\ (s # n => StartGen(s)' # gen')
      BY <1>1, <1>3, <2>7
    <3>3. ASSUME NEW s \in Sessions, NEW kind \in {"warm", "pcm", "clean"},
                 stage'[<<kind, s>>] # "idle"
          PROVE  StartGen(s)' # 0 /\ job'[<<kind, s>>].gen = StartGen(s)'
      <4>1. CASE kind = "warm" /\ s = n
        BY <2>4, <2>7, <3>1, <4>1
      <4>2. CASE kind # "warm" \/ s # n
        <5>1. stage[<<kind, s>>] # "idle" /\ job'[<<kind, s>>] = job[<<kind, s>>] /\ s # n
          BY <1>7, <2>4, <3>3, <4>2
        <5> QED BY <2>7, <5>1 DEF IInv, Generations
      <4> QED BY <4>1, <4>2
    <3>4. \A s, x \in Sessions : StartGen(s)' = StartGen(x)' /\ StartGen(s)' # 0 => s = x
      BY <2>7, <3>2 DEF IInv, Generations
    <3>5. \A s \in Tracked' : StartGen(s)' = gen' /\ gen' # 0
      BY <1>2, <2>5, <2>7, <3>1
    <3> QED BY <3>1, <3>2, <3>3, <3>4, <3>5 DEF Generations
  <2>11. Captured'
    <3>1. \A r \in Requesters : r \in Jobs
      BY DEF Jobs
    <3>2. \A r \in Requesters : stage'[r] # "idle" => job'[r].config \in Config
      BY <2>1, <2>4, <3>1 DEF IInv, Captured
    <3>3. \A r \in Requesters : holder' = r =>
            stage'[r] = "run" /\ (request' # "none" => config' = job'[r].config)
      BY <1>4, <1>7, <2>4, <3>1 DEF IInv, Captured
    <3>4. ASSUME NEW x \in Sessions, stage'[<<"pcm", x>>] # "idle"
          PROVE  job'[<<"pcm", x>>].config = job'[<<"warm", x>>].config
      <4>1. x # n
        BY <1>7, <2>4, <3>4
      <4> QED BY <2>4, <3>4, <4>1 DEF IInv, Captured
    <3>5. \A x \in Sessions : active'.session = x => active'.config = job'[<<"warm", x>>].config
      BY <2>1, <2>4
    <3> QED BY <3>2, <3>3, <3>4, <3>5 DEF Captured
  <2>12. Mail'
    <3>1. \A i \in DOMAIN bg : bg[i] \in Message /\ stage[<<bg[i].kind, bg[i].session>>] = "done"
      BY DEF IInv, OwnTypeOK, Mail
    <3>2. \A i \in DOMAIN bg : bg[i].kind # "warm" \/ bg[i].session # n
      BY <1>7, <3>1
    <3>3. \A i \in DOMAIN bg : bg[i].kind \in {"warm", "pcm", "clean"} /\ bg[i].session \in Sessions
      BY <3>1 DEF Message
    <3> QED BY <1>3, <2>4, <3>2, <3>3 DEF IInv, Mail
  <2>13. Phases'
    <3> SUFFICES ASSUME NEW s \in Sessions PROVE Phases!(s)'
      BY DEF Phases
    <3>1. CASE s = n
      <4>1. log'[n] = <<>>
        BY <1>2, <1>5, <1>7
      <4>2. stage'[<<"pcm", n>>] = "idle" /\ stage'[<<"clean", n>>] = "idle"
        BY <1>2, <1>7, <2>4
      <4> QED BY <1>3, <3>1, <4>1, <4>2
    <3>2. CASE s # n
      <4>1. StartGen(s)' # gen'
        BY <1>1, <1>3, <2>7, <3>2
      <4>2. stage'[<<"clean", s>>] = stage[<<"clean", s>>]
        BY <2>4
      <4> QED BY <1>3, <2>1, <2>6, <3>2, <4>1, <4>2 DEF IInv, Phases
    <3> QED BY <3>1, <3>2
  <2>14. NothingForgotten'
    BY <1>3 DEF IInv, NothingForgotten
  <2> QED BY <2>8, <2>9, <2>10, <2>11, <2>12, <2>13, <2>14 DEF IInv
<1> QED
  BY <1>9, <1>10 DEF StartRecording, DropRecording, DropWork

-----------------------------------------------------------------------------
(* The specification *)

\* The service gives the supervisor parameters it assumes.
LEMMA SupervisorAssumption == WSP!WorkerAssumption
BY CaptureAssumption DEF WSP!WorkerAssumption, Requesters, Shutdowns, Config, WSP!Config,
   MaxGen, Sessions

\* The invariant of the supervisor is kept by its steps, taken from its own proofs.
LEMMA SupervisorPreserves == WS!IInv /\ [WS!Next]_(WS!vars) => WS!IInv'
<1>1. WSP!IInv /\ [WSP!Next]_(WSP!vars) => WSP!IInv'
  BY WSP!StepPreserves, SupervisorAssumption
<1> QED BY <1>1, SameSupervisor, PTL

\* The service starts with nothing recorded, spawned or sent.
LEMMA InitEstablishes == Init => IInv /\ WS!IInv
<1> SUFFICES ASSUME Init PROVE IInv /\ WS!IInv
  OBVIOUS
<1>1. WS!IInv
  <2>1. WS!Init
    BY DEF Init
  <2>2. WSP!Init => WSP!IInv
    BY WSP!InitEstablishes, SupervisorAssumption
  <2> QED BY <2>1, <2>2, SameSupervisor
<1>2. OwnTypeOK
  <2>1. issued \in Count
    BY Bounds DEF Init, Count
  <2>2. job \in [Jobs -> [gen : 0..MaxGen, config : Config \cup {NoConfig}]]
    BY Bounds DEF Init, NoJob, MaxGen
  <2> QED BY Bounds, <2>1, <2>2 DEF Init, OwnTypeOK, Overlays, MaxGen
<1>3. \A s \in Sessions : /\ s # 0 /\ log[s] = <<>> /\ StartGen(s) = 0
                          /\ \A kind \in {"warm", "pcm", "clean"} :
                               stage[<<kind, s>>] = "idle" /\ job[<<kind, s>>] = NoJob
  <2>1. ASSUME NEW s \in Sessions PROVE s # 0 /\ log[s] = <<>>
    BY Bounds DEF Init, Sessions
  <2>2. ASSUME NEW s \in Sessions, NEW kind \in {"warm", "pcm", "clean"}
        PROVE  stage[<<kind, s>>] = "idle" /\ job[<<kind, s>>] = NoJob
    <3>1. <<kind, s>> \in Jobs
      BY Disjoint
    <3> QED BY <3>1 DEF Init
  <2>3. ASSUME NEW s \in Sessions PROVE StartGen(s) = 0
    <3>1. job[<<"warm", s>>] = NoJob
      BY <2>2
    <3> QED BY <3>1 DEF StartGen, NoJob
  <2> QED BY <2>1, <2>2, <2>3
<1>4. Tracked = {} /\ \A n \in 1..MaxTests : stage[<<"test", n>>] = "idle"
  BY DEF Init, Tracked, Working, ActiveSession, NoRecording, Jobs, Requesters
<1>5. Fresh /\ Generations
  <2>1. gen = issued.start + issued.cancel /\ gen = 0
    BY DEF Init
  <2>2. Fresh
    BY <1>3, <1>4 DEF Fresh
  <2>3. \A s \in Sessions : StartGen(s) = 0
    BY <1>3
  <2>4. \A s \in Sessions, kind \in {"warm", "pcm", "clean"} : stage[<<kind, s>>] = "idle"
    BY <1>3
  <2> QED BY <1>4, <2>1, <2>2, <2>3, <2>4 DEF Generations
<1>6. Captured
  BY <1>3, Disjoint DEF Init, Captured, NoRecording, WS!Init, Jobs
<1>7. Mail /\ NothingForgotten
  BY DEF Init, Mail, NothingForgotten
<1>8. Phases
  BY <1>3 DEF Init, Phases, NoRecording
<1> QED BY <1>1, <1>2, <1>5, <1>6, <1>7, <1>8 DEF IInv

\* Every step keeps both invariants; only a thread that takes the mutex needs the two
\* together, for nobody has a request in flight then.
LEMMA StepPreserves == IInv /\ WS!IInv /\ [Next]_vars => IInv' /\ WS!IInv'
<1> SUFFICES ASSUME IInv, WS!IInv, [Next]_vars PROVE IInv' /\ WS!IInv'
  OBVIOUS
<1>1. WS!IInv'
  BY SupervisorStep, SupervisorPreserves
<1>2. CASE Handle
  <2>1. CASE DiscardStale \/ HandleWarmed \/ HandleNoTranscript \/ HandleTranscriptToClean
             \/ HandleTranscript
    BY <1>1, <2>1, DiscardStalePreserves, HandleWarmedPreserves, HandleNoTranscriptPreserves,
       HandleTranscriptToCleanPreserves, HandleTranscriptPreserves
  <2>2. CASE StartRecording \/ Cancel \/ Shutdown
    BY <1>1, <2>2, StartRecordingPreserves, CancelPreserves, ShutdownPreserves
  <2>3. CASE \E s \in Sessions : \/ StopWithoutAudio(s) \/ StopRecording(s)
                                 \/ DeliveryProgress(s) \/ DeliveryComplete(s)
    BY <1>1, <2>3, StopWithoutAudioPreserves, StopRecordingPreserves, DeliveryPreserves
  <2>4. CASE UnloadModel \/ IdleTick \/ \E p \in Prefs : ReloadConfig(p)
    BY <1>1, <2>4, ElsewherePreserves
  <2>5. CASE \E m \in Models : TestModel(m)
    BY <1>1, <2>5, TestModelPreserves
  <2> QED BY <1>1, <1>2, <2>1, <2>2, <2>3, <2>4, <2>5 DEF Handle
<1>3. CASE \E t \in Requesters : RequesterStep(t)
  BY <1>1, <1>3, ThreadStepPreserves
<1>4. CASE \E t \in Jobs : SendResult(t)
  BY <1>1, <1>4, SendResultPreserves
<1>5. CASE \E s \in Sessions : CleanTranscript(s)
  BY <1>1, <1>5, CleanTranscriptPreserves
<1>6. CASE IdleCheckRuns \/ ReloadRuns \/ CaretakerEnds \/ CoordinatorRuns \/ ChildExits
           \/ IdleTimeout
  BY <1>1, <1>6, ElsewherePreserves
<1>7. CASE UNCHANGED vars
  <2>1. IInv'
    <3>1. UNCHANGED <<loopVars, threadVars, sharedVars, miscVars, holder, request, config>>
      BY <1>7 DEF vars, workerVars
    <3>2. OwnTypeOK'
      BY <3>1 DEF IInv, OwnTypeOK, loopVars, threadVars, sharedVars, miscVars
    <3>3. UNCHANGED <<gen, active, transcribing, warming, cleaning, delivering, log, bg, stage,
                      job, issued, holder, request, config>>
      BY <3>1 DEF loopVars, threadVars, sharedVars, miscVars
    <3> QED BY <3>2, <3>3, Unaffected
  <2> QED BY <1>1, <2>1
<1> QED BY <1>2, <1>3, <1>4, <1>5, <1>6, <1>7 DEF Next

\* Both invariants hold in every reachable state.
THEOREM Invariance == Spec => [](IInv /\ WS!IInv)
BY InitEstablishes, StepPreserves, PTL DEF Spec

\* Type correctness of the service and of the supervisor in it.
THEOREM TypeCorrect == Spec => []TypeOK
<1>1. IInv /\ WS!IInv => TypeOK
  BY DEF IInv, TypeOK, WS!IInv
<1> QED BY <1>1, Invariance, PTL

\* The service uses its supervisor only as the supervisor's specification allows, whatever
\* commands arrive and however its threads interleave.
THEOREM Implements == Spec => Supervised
<1>1. Init => WS!Init
  BY DEF Init
<1> QED BY <1>1, Invariance, SupervisorStep, PTL DEF Spec, Supervised, WS!Spec

\* No child is ever left that the service's handle does not own, and while a request is in
\* flight the PID tracker names the child that has it, for every number of starts, cancels
\* and tests.  (Not while a child is being replaced: see ChildIsTracked.)
THEOREM NoOrphan == Spec => []WS!ChildIsTracked
<1>1. WS!IInv => WS!ChildIsTracked
  BY DEF WS!IInv
<1> QED BY <1>1, Invariance, PTL

\* The audio of a session meets a child with the model and preferences frozen at its start,
\* for the thread installs what its session captured and holds the mutex until the answer.
THEOREM RightModelTranscribes == Spec => []FrozenModel
<1>1. IInv /\ WS!IInv => FrozenModel
  <2> SUFFICES ASSUME IInv, WS!IInv, NEW s \in Sessions, holder = <<"pcm", s>>, WS!InFlight
               PROVE  worker.config = job[<<"warm", s>>].config
    BY DEF FrozenModel
  <2>1. worker.config = config
    BY DEF WS!IInv, WS!RequestMatchesConfig
  <2>2. request # "none"
    BY DEF WS!InFlight, WS!Exchange, WS!Kinds
  <2> QED BY <2>1, <2>2, Disjoint DEF IInv, Captured
<1> QED BY <1>1, Invariance, PTL

\* No session is waited for while nobody works on it.
THEOREM NobodyForgotten == Spec => []NothingForgotten
<1>1. IInv => NothingForgotten
  BY DEF IInv
<1> QED BY <1>1, Invariance, PTL

\* What is tracked is of the current generation, which has one session at most, and that
\* session is in one phase.
LEMMA OneAtATime == IInv => OneDictation
<1> SUFFICES ASSUME IInv PROVE OneDictation
  OBVIOUS
<1>1. Tracked \subseteq Sessions
  BY DEF IInv, OwnTypeOK, Tracked, Working, ActiveSession, NoRecording
<1>2. \A s \in Tracked : StartGen(s) = gen /\ gen # 0
  BY DEF IInv, Generations
<1>3. \A s, x \in Tracked : s = x
  BY <1>1, <1>2 DEF IInv, Generations
<1>4. ASSUME NEW s \in Sessions
      PROVE  /\ s \in transcribing => s \notin ActiveSession \cup cleaning \cup delivering
             /\ s \in cleaning => s \notin ActiveSession \cup delivering
             /\ s \in delivering => s \notin ActiveSession
  <2>1. s \in transcribing => AtWork("pcm", s)
    BY DEF IInv, NothingForgotten
  <2>2. s \in cleaning => AtWork("clean", s)
    BY DEF IInv, NothingForgotten
  <2>3. s \in ActiveSession => ~AtWork("pcm", s) /\ ~AtWork("clean", s)
    BY IdleIsNotAtWork DEF IInv, Phases, ActiveSession
  <2>4. AtWork("pcm", s) => ~AtWork("clean", s)
    BY IdleIsNotAtWork DEF IInv, Phases
  <2>5. s \in delivering => s \notin ActiveSession /\ ~AtWork("pcm", s) /\ ~AtWork("clean", s)
    BY DEF IInv, Phases, ActiveSession
  <2> QED BY <2>1, <2>2, <2>3, <2>4, <2>5
<1> QED BY <1>2, <1>3, <1>4 DEF OneDictation

\* "A new dictation supersedes all older work".
THEOREM Supersession == Spec => []OneDictation
BY OneAtATime, Invariance, PTL

-----------------------------------------------------------------------------
(* What follows from the order of the notices, and the overlay *)

\* A notice goes to a session of the current generation; only the notice that it was
\* superseded follows another.
LEMMA Notices ==
  ASSUME IInv, Next, NEW s \in Sessions, log'[s] # log[s]
  PROVE  /\ StartGen(s) = gen
         /\ \E fate \in Fates : /\ log'[s] = Append(log[s], fate)
                                /\ fate = "superseded" \/ log[s] = <<>>
<1>1. CASE StartRecording
  <2>1. s \in Tracked /\ log'[s] = Append(log[s], "superseded")
    BY <1>1 DEF StartRecording
  <2> QED BY <2>1 DEF IInv, Generations, Fates
<1>2. ASSUME NEW x \in Sessions, StopWithoutAudio(x)
      PROVE  /\ StartGen(s) = gen
             /\ \E fate \in Fates : log'[s] = Append(log[s], fate) /\ log[s] = <<>>
  <2>1. PICK fate \in Fates : Tell(x, fate)
    BY <1>2 DEF StopWithoutAudio, Fates
  <2>2. x = s /\ log'[s] = Append(log[s], fate)
    BY <2>1, LogTyped
  <2>3. active.session = s /\ s \in Tracked
    <3>1. s # 0
      BY Bounds DEF Sessions
    <3> QED BY <1>2, <2>2, <3>1 DEF StopWithoutAudio, Tracked, ActiveSession
  <2>4. StartGen(s) = gen /\ log[s] = <<>>
    BY <2>3 DEF IInv, Generations, Phases
  <2> QED BY <2>2, <2>4
<1>3. ASSUME NEW kind \in {"pcm", "clean"}, Receive(kind), IsCurrent(Head(bg)),
             NEW fate \in Fates, Tell(Head(bg).session, fate)
      PROVE  /\ StartGen(s) = gen
             /\ log'[s] = Append(log[s], fate) /\ log[s] = <<>>
  <2>1. /\ Head(bg).session \in Sessions /\ Head(bg).gen = StartGen(Head(bg).session)
        /\ AtWork(kind, Head(bg).session)
    BY <1>3, Received
  <2>2. Head(bg).session = s /\ log'[s] = Append(log[s], fate)
    BY <1>3, <2>1, LogTyped
  <2>3. StartGen(s) = gen /\ log[s] = <<>>
    BY <1>3, <2>1, <2>2 DEF IInv, Phases, IsCurrent
  <2> QED BY <2>2, <2>3
<1>4. CASE HandleNoTranscript
  BY <1>3, <1>4 DEF HandleNoTranscript, Fates
<1>5. CASE HandleTranscript
  BY <1>3, <1>5 DEF HandleTranscript, Fates
<1>6. CASE \/ \E x \in Sessions : StopRecording(x) \/ DeliveryProgress(x) \/ DeliveryComplete(x)
           \/ Cancel \/ UnloadModel \/ Shutdown \/ IdleTick
           \/ \E m \in Models : TestModel(m)
           \/ \E p \in Prefs : ReloadConfig(p)
           \/ DiscardStale \/ HandleWarmed \/ HandleTranscriptToClean
           \/ \E t \in Requesters : RequesterStep(t)
           \/ \E t \in Jobs : SendResult(t)
           \/ \E x \in Sessions : CleanTranscript(x)
           \/ IdleCheckRuns \/ ReloadRuns \/ CaretakerEnds \/ CoordinatorRuns \/ ChildExits \/ IdleTimeout
  BY <1>6 DEF StopRecording, DeliveryProgress, DeliveryComplete, Cancel, UnloadModel, Shutdown,
     IdleTick, TestModel, ReloadConfig, DiscardStale, HandleWarmed, HandleTranscriptToClean,
     RequesterStep, Begin, LockWorker, UseWorker, SendResult, CleanTranscript, IdleCheckRuns,
     ReloadRuns, CaretakerEnds, CoordinatorRuns, ChildExits, IdleTimeout, loopVars
<1> QED BY <1>1, <1>2, <1>4, <1>5, <1>6 DEF Next, Handle

\* Once a dictation is superseded or cancelled, no late result of it reaches the client.
THEOREM Silence == Spec => StaleSilence
<1>1. IInv /\ [Next]_vars =>
        [\A s \in Sessions : 0 < StartGen(s) /\ StartGen(s) < gen => log'[s] = log[s]]_vars
  <2> SUFFICES ASSUME IInv, Next, NEW s \in Sessions, StartGen(s) < gen, log'[s] # log[s]
               PROVE  FALSE
    OBVIOUS
  <2>1. StartGen(s) = gen /\ gen \in Nat
    BY Notices, Counting DEF Counted
  <2> QED BY <2>1
<1> QED BY <1>1, Invariance, PTL DEF Spec, StaleSilence

\* No client gets two transcripts of a session, or one after the session ended otherwise.
THEOREM SingleFate == Spec => []OneFate
<1>1. Init => OneFate
  BY DEF Init, OneFate
<1>2. IInv /\ OneFate /\ [Next]_vars => OneFate'
  <2> SUFFICES ASSUME IInv, OneFate, [Next]_vars, NEW s \in Sessions
               PROVE  \A i \in 2..Len(log'[s]) : log'[s][i] = "superseded"
    BY DEF OneFate
  <2>1. log[s] \in Seq(Fates)
    BY DEF IInv, OwnTypeOK
  <2>2. CASE log'[s] = log[s]
    BY <2>2 DEF OneFate
  <2>3. CASE log'[s] # log[s]
    <3>1. PICK fate \in Fates : log'[s] = Append(log[s], fate) /\ (fate = "superseded" \/ log[s] = <<>>)
      <4>1. Next
        BY <2>3 DEF vars, loopVars
      <4> QED BY <2>3, <4>1, Notices
    <3>2. CASE log[s] = <<>>
      BY <2>1, <3>1, <3>2
    <3>3. CASE fate = "superseded"
      <4>1. \A i \in 2..Len(log[s]) : log[s][i] = "superseded"
        BY DEF OneFate
      <4> QED BY <2>1, <3>1, <3>3, <4>1
    <3> QED BY <3>1, <3>2, <3>3
  <2> QED BY <2>2, <2>3
<1> QED BY <1>1, <1>2, Invariance, PTL DEF Spec

\* While a session of the current generation is worked on, nothing is recorded and nothing
\* else is waited for.
LEMMA NobodyElse ==
  ASSUME IInv, NEW kind \in {"pcm", "clean"}, NEW s \in Sessions, AtWork(kind, s),
  StartGen(s) = gen
  PROVE  active = NoRecording /\ transcribing \cup cleaning \cup delivering \subseteq {s}
<1>1. /\ \A x \in Tracked : StartGen(x) = gen /\ gen # 0
      /\ \A x \in Sessions : StartGen(x) = StartGen(s) /\ StartGen(x) # 0 => x = s
  BY DEF IInv, Generations
<1>2. Tracked \subseteq {s}
  <2>1. Tracked \subseteq Sessions
    BY DEF IInv, OwnTypeOK, Tracked, Working, ActiveSession, NoRecording
  <2> QED BY <1>1, <2>1
<1>3. active.session # s
  BY IdleIsNotAtWork DEF IInv, Phases
<1>4. active = NoRecording
  <2>1. active \in [session : Sessions, config : Config] \cup {NoRecording}
    BY DEF IInv, OwnTypeOK
  <2>2. \A x \in Sessions : x # 0
    BY Bounds DEF Sessions
  <2>3. active # NoRecording => active.session \in Tracked
    BY <2>1, <2>2 DEF Tracked, ActiveSession
  <2> QED BY <1>2, <1>3, <2>3
<1> QED BY <1>2, <1>4 DEF Tracked, Working

\* While one session is recorded, none is worked on.
LEMMA RecordingIsAlone ==
  IInv /\ active # NoRecording => transcribing \cup cleaning \cup delivering = {}
<1> SUFFICES ASSUME IInv, active # NoRecording
             PROVE  transcribing \cup cleaning \cup delivering = {}
  OBVIOUS
<1>1. active.session \in Sessions /\ active.session \in ActiveSession
  BY Bounds DEF IInv, OwnTypeOK, ActiveSession, Sessions
<1>2. OneDictation
  BY OneAtATime
<1>3. transcribing \cup cleaning \cup delivering \subseteq {active.session}
  BY <1>1, <1>2 DEF OneDictation, Tracked, Working
<1> QED BY <1>1, <1>2, <1>3 DEF OneDictation

\* The overlay shows the recording, and is neither hidden nor a waveform while a dictation
\* is worked on.
THEOREM HonestOverlay == Spec => []OverlayShowsWork
<1>1. Init => OverlayShowsWork
  BY DEF Init, OverlayShowsWork
<1>2. IInv /\ OverlayShowsWork /\ [Next]_vars => OverlayShowsWork'
  <2> SUFFICES ASSUME IInv, OverlayShowsWork, [Next]_vars, up'
               PROVE  /\ active' # NoRecording => overlay' = "Recording"
                      /\ transcribing' \cup cleaning' \cup delivering' # {}
                           => overlay' \notin {"Hidden", "Recording"}
    BY DEF OverlayShowsWork
  <2>1. CASE StartRecording
    BY <2>1 DEF StartRecording, DropRecording, DropWork
  <2>2. ASSUME NEW s \in Sessions, StopWithoutAudio(s) \/ StopRecording(s)
        PROVE  OverlayShowsWork'
    <3>1. active # NoRecording
      <4>1. s # 0
        BY Bounds DEF Sessions
      <4>2. active.session = s
        BY <2>2 DEF StopWithoutAudio, StopRecording
      <4> QED BY <4>1, <4>2 DEF NoRecording
    <3>2. transcribing \cup cleaning \cup delivering = {}
      BY <3>1, RecordingIsAlone
    <3> QED BY <2>2, <3>2 DEF StopWithoutAudio, StopRecording, DropRecording, OverlayShowsWork
  <2>3. ASSUME NEW s \in Sessions, DeliveryProgress(s) \/ DeliveryComplete(s)
        PROVE  OverlayShowsWork'
    BY <2>3, RecordingIsAlone DEF DeliveryProgress, DeliveryComplete, Restore, OverlayShowsWork
  <2>4. CASE Cancel \/ Shutdown
    BY <2>4 DEF Cancel, Shutdown, DropRecording, DropWork
  <2>5. CASE HandleNoTranscript \/ HandleTranscriptToClean \/ HandleTranscript
    <3>1. PICK kind \in {"pcm", "clean"} : Receive(kind) /\ IsCurrent(Head(bg))
      BY <2>5 DEF HandleNoTranscript, HandleTranscriptToClean, HandleTranscript
    <3>2. Head(bg).session \in Sessions /\ AtWork(kind, Head(bg).session)
          /\ StartGen(Head(bg).session) = gen
      BY <3>1, Received DEF IsCurrent
    <3>3. active = NoRecording
      BY <3>2, NobodyElse
    <3> QED BY <2>5, <3>3 DEF HandleNoTranscript, HandleTranscriptToClean, HandleTranscript,
       Restore
  <2>6. CASE HandleWarmed
    BY <2>6 DEF HandleWarmed, miscVars, OverlayShowsWork
  <2>7. CASE \/ UnloadModel \/ IdleTick \/ DiscardStale
             \/ \E m \in Models : TestModel(m)
             \/ \E p \in Prefs : ReloadConfig(p)
             \/ \E t \in Requesters : RequesterStep(t)
             \/ \E t \in Jobs : SendResult(t)
             \/ \E x \in Sessions : CleanTranscript(x)
             \/ IdleCheckRuns \/ ReloadRuns \/ CaretakerEnds \/ CoordinatorRuns \/ ChildExits \/ IdleTimeout
             \/ UNCHANGED vars
    <3>1. UNCHANGED loopVars /\ UNCHANGED up
      BY <2>7 DEF UnloadModel, IdleTick, TestModel, ReloadConfig, DiscardStale, RequesterStep,
         Begin, LockWorker, UseWorker, SendResult, CleanTranscript, IdleCheckRuns, ReloadRuns,
         CaretakerEnds,
         CoordinatorRuns, ChildExits, IdleTimeout, miscVars, vars
    <3> QED BY <3>1 DEF loopVars, OverlayShowsWork
  <2> QED BY <2>1, <2>2, <2>3, <2>4, <2>5, <2>6, <2>7 DEF Next, Handle, OverlayShowsWork
<1> QED BY <1>1, <1>2, Invariance, PTL DEF Spec

-----------------------------------------------------------------------------
(* Who has the worker, and what a start or a cancel knows of it *)

\* A thread gets to the child only by taking the mutex; what it captured stays.
LEMMA RunsOn ==
  ASSUME IInv, [Next]_vars, NEW t \in Requesters, stage'[t] = "run"
  PROVE  /\ job'[t] = job[t]
         /\ stage[t] = "run" \/ (LockWorker(t) /\ gen' = gen)
<1>0. /\ stage \in [Jobs -> {"idle", "join", "check", "lock", "run", "done"} \cup Results]
      /\ job \in [Jobs -> [gen : 0..MaxGen, config : Config \cup {NoConfig}]]
      /\ t \in Jobs
  BY DEF IInv, OwnTypeOK, Jobs
<1>1. ASSUME NEW x \in Jobs, NEW v, x = t => v # "run", NEW g, NEW c, Spawn(x, v, g, c)
      PROVE  job'[t] = job[t] /\ stage[t] = "run"
  BY <1>0, <1>1 DEF Spawn
<1>2. ASSUME NEW x \in Jobs, NEW v, x = t => v # "run", SetStage(x, v)
      PROVE  stage[t] = "run"
  BY <1>0, <1>2 DEF SetStage
<1>3. CASE StartRecording
  <2>1. CASE UNCHANGED threadVars
    BY <2>1 DEF threadVars
  <2>2. CASE \E v \in {"join", "check"} : \E c : Spawn(<<"warm", issued.start + 1>>, v, gen + 1, c)
    <3>1. <<"warm", issued.start + 1>> \in Jobs
      <4>1. issued.start + 1 \in Sessions
        <5>1. issued.start < MaxStarts
          BY <1>3 DEF StartRecording, Command, Bounded
        <5> QED BY <5>1, Bounds, Counting DEF Counted, Sessions
      <4> QED BY <4>1, Disjoint
    <3> QED BY <1>1, <2>2, <3>1
  <2> QED BY <1>3, <2>1, <2>2 DEF StartRecording
<1>4. ASSUME NEW s \in Sessions, StopRecording(s) PROVE job'[t] = job[t] /\ stage[t] = "run"
  BY <1>1, <1>4, Disjoint DEF StopRecording
<1>5. ASSUME NEW m \in Models, TestModel(m) PROVE job'[t] = job[t] /\ stage[t] = "run"
  <2>1. issued'.test \in 1..MaxTests
    <3>1. issued.test \in 0..MaxTests /\ issued' = [issued EXCEPT !["test"] = @ + 1] /\ issued.test < MaxTests
      BY <1>5, Counting DEF Counted, Count, TestModel, Command, Bounded
    <3> QED BY <3>1, Bounds, Counting DEF Counted, Count
  <2>2. <<"test", issued'.test>> \in Jobs
    BY <2>1 DEF Jobs, Requesters
  <2> QED BY <1>1, <1>5, <2>2 DEF TestModel
<1>6. CASE HandleTranscriptToClean
  <2>1. Head(bg).session \in Sessions
    BY <1>6, Received DEF HandleTranscriptToClean
  <2>2. <<"clean", Head(bg).session>> \in Jobs /\ <<"clean", Head(bg).session>> # t
    BY <2>1, Disjoint DEF Requesters
  <2> QED BY <1>1, <1>6, <2>2 DEF HandleTranscriptToClean
<1>7. ASSUME NEW x \in Requesters, Begin(x) PROVE job'[t] = job[t] /\ stage[t] = "run"
  <2>1. \E v \in {"done", "lock", "err"} : SetStage(x, v)
    BY <1>7 DEF Begin
  <2>2. x \in Jobs /\ job' = job
    BY <1>7 DEF Begin, Jobs
  <2> QED BY <1>2, <2>1, <2>2
<1>8. ASSUME NEW x \in Requesters, LockWorker(x)
      PROVE  job'[t] = job[t] /\ (stage[t] = "run" \/ (LockWorker(t) /\ gen' = gen))
  <2>1. gen' = gen /\ job' = job /\ x \in Jobs /\ \E v : SetStage(x, v)
    BY <1>8 DEF LockWorker, sharedVars, Jobs
  <2>2. x # t => stage[t] = "run"
    BY <1>0, <2>1 DEF SetStage
  <2> QED BY <1>8, <2>1, <2>2
<1>9. ASSUME NEW x \in Requesters, UseWorker(x) PROVE job'[t] = job[t] /\ stage[t] = "run"
  <2>1. job' = job /\ x \in Jobs /\ stage[x] = "run" /\ \E v : SetStage(x, v)
    BY <1>9 DEF UseWorker, Jobs
  <2> QED BY <1>0, <2>1 DEF SetStage
<1>10. ASSUME NEW x \in Jobs, SendResult(x) PROVE job'[t] = job[t] /\ stage[t] = "run"
  BY <1>2, <1>10 DEF SendResult
<1>11. ASSUME NEW s \in Sessions, CleanTranscript(s) PROVE job'[t] = job[t] /\ stage[t] = "run"
  BY <1>2, <1>11, Disjoint DEF CleanTranscript
<1>12. CASE \/ \E s \in Sessions : StopWithoutAudio(s) \/ DeliveryProgress(s) \/ DeliveryComplete(s)
            \/ Cancel \/ UnloadModel \/ Shutdown \/ IdleTick
            \/ \E p \in Prefs : ReloadConfig(p)
            \/ DiscardStale \/ HandleWarmed \/ HandleNoTranscript \/ HandleTranscript
            \/ IdleCheckRuns \/ ReloadRuns \/ CaretakerEnds \/ CoordinatorRuns \/ ChildExits \/ IdleTimeout
            \/ UNCHANGED vars
  BY <1>12 DEF StopWithoutAudio, DeliveryProgress, DeliveryComplete, Cancel, UnloadModel,
     Shutdown,
     IdleTick, ReloadConfig, DiscardStale, HandleWarmed, HandleNoTranscript, HandleTranscript,
     IdleCheckRuns, ReloadRuns, CaretakerEnds, CoordinatorRuns, ChildExits, IdleTimeout,
     threadVars, vars
<1> QED
  BY <1>3, <1>4, <1>5, <1>6, <1>7, <1>8, <1>9, <1>10, <1>11, <1>12 DEF Next, Handle,
     RequesterStep

\* Only threads that lock the worker, use it or shut it down pass the mutex on.
LEMMA HolderStays ==
  ASSUME [Next]_vars, holder' # holder
  PROVE  \/ \E t \in Requesters : LockWorker(t) \/ UseWorker(t)
         \/ \E k \in Shutdowns : \/ WS!CoordinatorLocks(k) \/ WS!CoordinatorStops(k)
                                \/ WS!CoordinatorEnds(k)
         \/ IdleCheckRuns \/ ReloadRuns \/ CaretakerEnds
<1> USE DEF workerVars, WS!lockVars, WS!StartShutdown, ShutdownIf
<1>1. CASE Handle
  BY <1>1 DEF Handle, StartRecording, StopWithoutAudio, StopRecording, DeliveryProgress,
     DeliveryComplete, Cancel, UnloadModel, TestModel, ReloadConfig, Shutdown, IdleTick,
     DiscardStale, HandleWarmed, HandleNoTranscript, HandleTranscriptToClean, HandleTranscript
<1>2. CASE \/ \E t \in Requesters : Begin(t)
           \/ \E t \in Jobs : SendResult(t)
           \/ \E s \in Sessions : CleanTranscript(s)
           \/ ChildExits \/ IdleTimeout
           \/ UNCHANGED vars
  BY <1>2 DEF Begin, SendResult, CleanTranscript, ChildExits, IdleTimeout, WS!ChildExits,
     WS!Expires, vars
<1>3. CASE CoordinatorRuns
  BY <1>3 DEF CoordinatorRuns, WS!CoordinatorStep, WS!CallerReturns, WS!CallerTimesOut,
     WS!CallerReadsPid, WS!CallerKills, WS!CallerGivesUp
<1> QED BY <1>1, <1>2, <1>3 DEF Next, RequesterStep

\* A thread that uses the worker has the mutex until it leaves the exchange.
LEMMA UserHolds ==
  ASSUME IInv, InExchange, NEW t \in Requesters, UseWorker(t)
  PROVE  /\ stage[t] = "run" /\ holder = t
         /\ holder' = t \/ (holder' = <<"free", 0>> /\ stage'[t] # "run")
<1>1. stage[t] = "run" /\ holder = t /\ t \in Jobs /\ t # <<"free", 0>>
  BY Disjoint DEF UseWorker, InExchange, Jobs
<1>2. holder' \in {t, <<"free", 0>>}
  BY <1>1 DEF UseWorker, WS!Reuse, WS!Recycle, WS!Launch, WS!Track, WS!HandshakeOk,
     WS!WarmUpDone, WS!LaunchFails,
     WS!HandshakeFails, WS!WarmUpFails, WS!EngineError, WS!WorkerDied, WS!Ends, WS!Marks,
     WS!Reaps, WS!Transcribed, WS!Unlock
<1>3. holder' # t => \E v \in Results : SetStage(t, v)
  BY DEF UseWorker, Results
<1>4. stage \in [Jobs -> {"idle", "join", "check", "lock", "run", "done"} \cup Results]
  BY DEF IInv, OwnTypeOK
<1>5. holder' # t => stage'[t] # "run"
  BY <1>1, <1>3, <1>4 DEF SetStage, Results
<1> QED BY <1>1, <1>2, <1>5

\* A thread that takes the mutex finds it free, so nobody was at the child.
LEMMA LockerAlone ==
  ASSUME IInv, InExchange, NEW t \in Requesters, LockWorker(t)
  PROVE  /\ holder = <<"free", 0>> /\ \A r \in Requesters : stage[r] # "run"
         /\ stage[t] = "lock"
         /\ \/ t[1] # "test" /\ Stale(t) /\ holder' = holder /\ stage'[t] \in {"ok", "err"}
            \/ (t[1] = "test" \/ ~Stale(t)) /\ holder' = t /\ WS!Lock(t)
<1>1. stage[t] = "lock" /\ holder = <<"free", 0>>
  BY DEF LockWorker, WS!Lock, WS!MutexFree
<1>2. \A r \in Requesters : stage[r] # "run"
  BY <1>1, Disjoint DEF InExchange
<1>3. t \in Jobs /\ stage \in [Jobs -> {"idle", "join", "check", "lock", "run", "done"} \cup Results]
  BY DEF IInv, OwnTypeOK, Jobs
<1>4. CASE t[1] # "test" /\ Stale(t)
  <2>1. \E v \in {"ok", "err"} : SetStage(t, v)
    BY <1>4 DEF LockWorker
  <2> QED BY <1>1, <1>2, <1>3, <1>4, <2>1 DEF LockWorker, SetStage, workerVars
<1>5. CASE ~(t[1] # "test" /\ Stale(t))
  BY <1>1, <1>2, <1>5 DEF LockWorker, WS!Lock
<1> QED BY <1>4, <1>5

\* At most one thread is at the child: the holder of the mutex.
LEMMA InExchangePreserved ==
  ASSUME IInv, WS!IInv, InExchange, [Next]_vars PROVE InExchange'
<1> SUFFICES ASSUME NEW t \in Requesters, stage'[t] = "run" PROVE holder' = t
  BY DEF InExchange
<1>1. CASE LockWorker(t)
  BY <1>1, LockerAlone
<1>2. CASE stage[t] = "run"
  <2>1. holder = t /\ t # <<"free", 0>> /\ t \notin Shutdowns
    BY <1>2, Disjoint DEF InExchange
  <2>2. ASSUME NEW x \in Requesters, LockWorker(x) PROVE FALSE
    BY <1>2, <2>2, LockerAlone
  <2>3. ASSUME NEW x \in Requesters, UseWorker(x) PROVE holder' = t
    BY <2>1, <2>3, UserHolds
  <2>4. ASSUME NEW k \in Shutdowns,
               WS!CoordinatorLocks(k) \/ WS!CoordinatorStops(k) \/ WS!CoordinatorEnds(k)
        PROVE  FALSE
    BY <2>1, <2>4 DEF WS!CoordinatorLocks, WS!CoordinatorStops, WS!CoordinatorEnds, WS!Marks,
       WS!MutexFree
  <2>5. ~IdleCheckRuns /\ ~ReloadRuns /\ ~CaretakerEnds
    BY <2>1, Disjoint DEF IdleCheckRuns, ReloadRuns, CaretakerEnds, WS!ShutdownIfIdle,
       WS!UpdateRuntimeConfig, WS!CaretakerEnds, WS!Marks, WS!MutexFree
  <2> QED BY <2>1, <2>2, <2>3, <2>4, <2>5, HolderStays
<1> QED BY <1>1, <1>2, RunsOn

\* The loop never waits for nothing of the current generation: a warm-up or a dictation of
\* it is in the set the handlers look at, until its result has been handled.
LEMMA AccountedPreserved ==
  ASSUME IInv, Accounted, [Next]_vars PROVE Accounted'
<1> SUFFICES ASSUME NEW s \in Sessions, StartGen(s)' = gen'
             PROVE  /\ AtWork("warm", s)' => s \in warming'
                    /\ AtWork("pcm", s)' => s \in transcribing'
  BY DEF Accounted
<1>0. /\ stage \in [Jobs -> {"idle", "join", "check", "lock", "run", "done"} \cup Results]
      /\ job \in [Jobs -> [gen : 0..MaxGen, config : Config \cup {NoConfig}]]
      /\ <<"warm", s>> \in Jobs /\ <<"pcm", s>> \in Jobs
      /\ <<"warm", s>> \in Requesters /\ <<"pcm", s>> \in Requesters
      /\ gen \in Nat /\ StartGen(s) \in 0..gen
  BY Disjoint, Counting DEF IInv, OwnTypeOK, Counted
\* Steps that spawn nothing and take nothing from the channel.
<1>1. ASSUME UNCHANGED <<gen, job, transcribing, warming>>,
             \A kind \in {"warm", "pcm"} : AtWork(kind, s)' => AtWork(kind, s)
      PROVE  /\ AtWork("warm", s)' => s \in warming'
             /\ AtWork("pcm", s)' => s \in transcribing'
  BY <1>1 DEF Accounted, StartGen
<1>2. ASSUME UNCHANGED bg, NEW t \in Jobs, NEW v, stage' = [stage EXCEPT ![t] = v],
             stage[t] \notin {"idle", "done"} \/ t[1] \notin {"warm", "pcm"}
      PROVE  \A kind \in {"warm", "pcm"} : AtWork(kind, s)' => AtWork(kind, s)
  BY <1>0, <1>2 DEF AtWork, InMail
<1>3. CASE StartRecording
  <2>1. gen' = gen + 1 /\ UNCHANGED bg
    BY <1>3 DEF StartRecording
  <2>2. UNCHANGED threadVars => FALSE
    BY <1>0, <2>1 DEF threadVars, StartGen
  <2> DEFINE n == issued.start + 1
  <2>3. PICK v, c : Spawn(<<"warm", n>>, v, gen + 1, c) /\ warming' = {n}
    BY <1>3, <2>2 DEF StartRecording, DropWork
  <2>4. n \in Sessions /\ stage[<<"pcm", n>>] = "idle"
    <3>1. issued.start < MaxStarts
      BY <1>3 DEF StartRecording, Command, Bounded
    <3>2. n \in Sessions /\ n > issued.start
      BY <3>1, Bounds, Counting DEF Counted, Sessions
    <3> QED BY <3>2 DEF IInv, Fresh
  <2>5. s = n
    <3>1. s # n => StartGen(s)' = StartGen(s)
      BY <1>0, <2>3 DEF Spawn, StartGen
    <3> QED BY <1>0, <2>1, <3>1
  <2>6. ~AtWork("pcm", s)
    BY <2>4, <2>5, IdleIsNotAtWork
  <2>7. ~AtWork("pcm", s)'
    BY <1>0, <2>1, <2>3, <2>6 DEF AtWork, InMail, Spawn
  <2> QED BY <2>3, <2>5, <2>7
<1>4. CASE Cancel
  BY <1>0, <1>4 DEF Cancel, threadVars, StartGen
<1>5. ASSUME NEW x \in Sessions, StopRecording(x)
      PROVE  /\ AtWork("warm", s)' => s \in warming'
             /\ AtWork("pcm", s)' => s \in transcribing'
  <2>1. /\ transcribing' = transcribing \cup {x} /\ UNCHANGED <<gen, bg, warming>>
        /\ Spawn(<<"pcm", x>>, "check", gen, Frozen) /\ <<"pcm", x>> \in Jobs
    BY <1>5, Disjoint DEF StopRecording, sharedVars
  <2>2. StartGen(s)' = StartGen(s)
    BY <1>0, <2>1 DEF Spawn, StartGen
  <2>3. AtWork("warm", s)' => AtWork("warm", s)
    BY <1>0, <2>1 DEF Spawn, AtWork, InMail
  <2>4. s # x => (AtWork("pcm", s)' => AtWork("pcm", s))
    BY <1>0, <2>1 DEF Spawn, AtWork, InMail
  <2> QED BY <2>1, <2>2, <2>3, <2>4 DEF Accounted
<1>6. ASSUME NEW m \in Models, TestModel(m)
      PROVE  /\ AtWork("warm", s)' => s \in warming'
             /\ AtWork("pcm", s)' => s \in transcribing'
  <2>1. UNCHANGED <<gen, bg, transcribing, warming>> /\ \E v, g, c : Spawn(<<"test", issued'.test>>, v, g, c)
    BY <1>6 DEF TestModel, sharedVars, loopVars
  <2>2. StartGen(s)' = StartGen(s) /\ \A kind \in {"warm", "pcm"} : AtWork(kind, s)' => AtWork(kind, s)
    BY <1>0, <2>1 DEF Spawn, StartGen, AtWork, InMail
  <2> QED BY <2>1, <2>2 DEF Accounted
\* Results that are handled: the thread they are from is not at work any more.
<1>7. ASSUME NEW kind \in {"warm", "pcm", "clean"}, Receive(kind), UNCHANGED <<gen, job>>,
             \A k \in {"warm", "pcm"} : stage'[<<k, s>>] = stage[<<k, s>>],
             kind # "warm" => warming' = warming,
             kind = "warm" => warming' = warming \ {Head(bg).session},
             transcribing' = transcribing \/
               (kind = "pcm" /\ transcribing' = transcribing \ {Head(bg).session})
      PROVE  /\ AtWork("warm", s)' => s \in warming'
             /\ AtWork("pcm", s)' => s \in transcribing'
  <2>1. /\ stage[<<kind, Head(bg).session>>] = "done" /\ Head(bg).session \in Sessions
        /\ \A k \in {"warm", "pcm", "clean"} :
             InMail(k, s)' <=> InMail(k, s) /\ ~(k = kind /\ s = Head(bg).session)
    BY <1>7, Received
  <2>2. \A k \in {"warm", "pcm"} : AtWork(k, s)' => AtWork(k, s) /\ ~(k = kind /\ s = Head(bg).session)
    BY <1>7, <2>1 DEF AtWork
  <2> QED BY <1>7, <2>2 DEF Accounted, StartGen
<1>8. CASE DiscardStale
  BY <1>7, <1>8 DEF DiscardStale, loopVars, threadVars
<1>9. CASE HandleWarmed
  BY <1>7, <1>9 DEF HandleWarmed, WarmedUp, threadVars
<1>10. CASE HandleNoTranscript
  BY <1>7, <1>10 DEF HandleNoTranscript, threadVars
<1>11. CASE HandleTranscriptToClean
  <2>1. /\ Receive("pcm") /\ UNCHANGED <<gen, warming>>
        /\ transcribing' = transcribing \ {Head(bg).session}
        /\ \E g, c : Spawn(<<"clean", Head(bg).session>>, "run", g, c)
    BY <1>11 DEF HandleTranscriptToClean
  <2>2. StartGen(s)' = StartGen(s) /\ \A k \in {"warm", "pcm"} : stage'[<<k, s>>] = stage[<<k, s>>]
    BY <1>0, <2>1 DEF Spawn, StartGen
  <2>3. /\ stage[<<"pcm", Head(bg).session>>] = "done"
        /\ \A k \in {"warm", "pcm", "clean"} :
             InMail(k, s)' <=> InMail(k, s) /\ ~(k = "pcm" /\ s = Head(bg).session)
    BY <2>1, Received
  <2>4. \A k \in {"warm", "pcm"} : AtWork(k, s)' => AtWork(k, s) /\ ~(k = "pcm" /\ s = Head(bg).session)
    BY <2>2, <2>3 DEF AtWork
  <2> QED BY <2>1, <2>2, <2>4 DEF Accounted
<1>12. CASE HandleTranscript
  <2>1. PICK kind \in {"pcm", "clean"} : Receive(kind) /\ Head(bg).kind = kind
    BY <1>12 DEF HandleTranscript, Receive
  <2> QED BY <1>7, <1>12, <2>1 DEF HandleTranscript, threadVars
<1>13. ASSUME NEW t \in Requesters, RequesterStep(t)
       PROVE  /\ AtWork("warm", s)' => s \in warming'
              /\ AtWork("pcm", s)' => s \in transcribing'
  <2>1. /\ stage[t] \notin {"idle", "done"} /\ t \in Jobs /\ \E v : SetStage(t, v)
        /\ UNCHANGED <<gen, bg, job, transcribing, warming>>
    BY <1>13 DEF RequesterStep, Begin, LockWorker, UseWorker, Jobs, loopVars, sharedVars
  <2> QED BY <1>1, <1>2, <2>1 DEF SetStage
<1>14. ASSUME NEW t \in Jobs, SendResult(t)
       PROVE  /\ AtWork("warm", s)' => s \in warming'
              /\ AtWork("pcm", s)' => s \in transcribing'
  <2>1. /\ stage[t] \in Results /\ stage' = [stage EXCEPT ![t] = "done"]
        /\ UNCHANGED <<gen, job, transcribing, warming>>
        /\ bg' = IF t[1] = "test" THEN bg
                 ELSE Append(bg, [kind |-> t[1], session |-> t[2], gen |-> job[t].gen,
                                  result |-> stage[t]])
    BY <1>14 DEF SendResult, SetStage, loopVars
  <2>2. ASSUME NEW kind \in {"warm", "pcm"}, AtWork(kind, s)' PROVE AtWork(kind, s)
    <3>1. CASE t = <<kind, s>>
      BY <2>1, <3>1 DEF AtWork, Results
    <3>2. CASE t # <<kind, s>>
      <4>1. stage'[<<kind, s>>] = stage[<<kind, s>>]
        BY <1>0, <2>1, <3>2
      <4>2. InMail(kind, s)' => InMail(kind, s)
        <5>1. CASE bg' = bg
          BY <5>1 DEF InMail
        <5>2. CASE bg' # bg
          <6> DEFINE e == [kind |-> t[1], session |-> t[2], gen |-> job[t].gen, result |-> stage[t]]
          <6>1. bg' = Append(bg, e) /\ bg \in Seq(Message)
            BY <2>1, <5>2 DEF IInv, OwnTypeOK
          <6>2. ~(e.kind = kind /\ e.session = s)
            BY <3>2 DEF Jobs, Requesters
          <6>3. \A i \in DOMAIN bg' : (i \in DOMAIN bg /\ bg'[i] = bg[i]) \/ bg'[i] = e
            BY <6>1
          <6> QED BY <6>2, <6>3 DEF InMail
        <5> QED BY <5>1, <5>2
      <4> QED BY <2>2, <4>1, <4>2 DEF AtWork
    <3> QED BY <3>1, <3>2
  <2> QED BY <1>1, <2>1, <2>2
<1>15. ASSUME NEW x \in Sessions, CleanTranscript(x)
       PROVE  /\ AtWork("warm", s)' => s \in warming'
              /\ AtWork("pcm", s)' => s \in transcribing'
  <2>1. /\ <<"clean", x>> \in Jobs /\ \E v : SetStage(<<"clean", x>>, v)
        /\ UNCHANGED <<gen, bg, job, transcribing, warming>>
    BY <1>15, Disjoint DEF CleanTranscript, loopVars, sharedVars
  <2> QED BY <1>1, <1>2, <2>1 DEF SetStage
<1>16. CASE \/ \E x \in Sessions : StopWithoutAudio(x) \/ DeliveryProgress(x) \/ DeliveryComplete(x)
            \/ UnloadModel \/ Shutdown \/ IdleTick
            \/ \E p \in Prefs : ReloadConfig(p)
            \/ IdleCheckRuns \/ ReloadRuns \/ CaretakerEnds \/ CoordinatorRuns \/ ChildExits \/ IdleTimeout
            \/ UNCHANGED vars
  <2>1. UNCHANGED <<gen, bg, job, stage, transcribing, warming>>
    BY <1>16 DEF StopWithoutAudio, DeliveryProgress, DeliveryComplete, UnloadModel, Shutdown,
       IdleTick, ReloadConfig, IdleCheckRuns, ReloadRuns, CaretakerEnds, CoordinatorRuns,
       ChildExits, IdleTimeout,
       threadVars, sharedVars, loopVars, vars
  <2>2. \A kind \in {"warm", "pcm"} : AtWork(kind, s)' => AtWork(kind, s)
    BY <2>1 DEF AtWork, InMail
  <2> QED BY <1>1, <2>1, <2>2
<1> QED
  BY <1>3, <1>4, <1>5, <1>6, <1>8, <1>9, <1>10, <1>11, <1>12, <1>13, <1>14, <1>15, <1>16
     DEF Next, Handle

\* A shutdown that is queued stays queued until the mutex is free.
LEMMA QueuedStays ==
  ASSUME [Next]_vars, WS!TypeOK, NEW k \in Shutdowns, inner[k] = "queued", holder \in Requesters
  PROVE  inner'[k] = "queued"
<1> USE DEF workerVars, WS!coordVars, ShutdownIf
<1>1. inner \in [Shutdowns -> {"idle", "queued", "stopping", "done"}]
  BY DEF WS!TypeOK
<1>2. ASSUME NEW x, WS!StartShutdown(x) PROVE inner'[k] = "queued"
  BY <1>1, <1>2 DEF WS!StartShutdown
<1>3. CASE Handle
  <2>1. (\E x : WS!StartShutdown(x)) \/ inner' = inner
    BY <1>3 DEF Handle, StartRecording, StopWithoutAudio, StopRecording, DeliveryProgress,
     DeliveryComplete, Cancel, UnloadModel, TestModel, ReloadConfig, Shutdown, IdleTick,
     DiscardStale, HandleWarmed, HandleNoTranscript, HandleTranscriptToClean, HandleTranscript
  <2> QED BY <1>2, <2>1
<1>4. ASSUME NEW t \in Requesters, RequesterStep(t) PROVE inner' = inner
  BY <1>4 DEF RequesterStep, Begin, LockWorker, UseWorker, WS!Lock, WS!Reuse, WS!Recycle,
     WS!Launch, WS!Track,
     WS!HandshakeOk, WS!WarmUpDone, WS!LaunchFails,
     WS!HandshakeFails, WS!WarmUpFails, WS!EngineError, WS!WorkerDied, WS!Ends, WS!Marks,
     WS!Reaps, WS!Transcribed
<1>5. CASE \/ \E t \in Jobs : SendResult(t)
           \/ \E s \in Sessions : CleanTranscript(s)
           \/ IdleCheckRuns \/ ReloadRuns \/ CaretakerEnds \/ ChildExits \/ IdleTimeout
           \/ UNCHANGED vars
  BY <1>5 DEF SendResult, CleanTranscript, IdleCheckRuns, ReloadRuns, CaretakerEnds,
     ChildExits, IdleTimeout,
     WS!ShutdownIfIdle, WS!UpdateRuntimeConfig, WS!CaretakerEnds, WS!Marks, WS!Reaps,
     WS!ChildExits, WS!Expires, vars
<1>6. ASSUME NEW x \in Shutdowns, WS!CoordinatorStep(x) PROVE inner' = inner
  <2>1. ~WS!CoordinatorLocks(x) /\ ~WS!CoordinatorStops(x) /\ ~WS!CoordinatorEnds(x)
    BY Disjoint DEF WS!CoordinatorLocks, WS!MutexFree, WS!CoordinatorStops, WS!CoordinatorEnds,
       WS!Marks
  <2> QED BY <1>6, <2>1 DEF WS!CoordinatorStep, WS!CallerReturns, WS!CallerTimesOut,
     WS!CallerReadsPid, WS!CallerKills, WS!CallerGivesUp
<1> QED BY <1>3, <1>4, <1>5, <1>6 DEF Next, CoordinatorRuns

\* Only a start and a cancel move the generation on.
LEMMA GenerationMoves ==
  ASSUME [Next]_vars, gen' # gen PROVE StartRecording \/ Cancel
BY DEF Next, Handle, StopWithoutAudio, StopRecording, DeliveryProgress, DeliveryComplete,
   UnloadModel, TestModel, ReloadConfig, Shutdown, IdleTick, DiscardStale, HandleWarmed,
   HandleNoTranscript, HandleTranscriptToClean, HandleTranscript, RequesterStep, Begin,
   LockWorker,
   UseWorker, SendResult, CleanTranscript, IdleCheckRuns, ReloadRuns, CaretakerEnds,
   CoordinatorRuns, ChildExits,
   IdleTimeout, sharedVars, vars

\* The start or cancel that makes a request stale knows of it and queues a shutdown of its
\* own behind it; nobody else takes a queued shutdown away while the request is in flight.
LEMMA InterruptPreserved ==
  ASSUME IInv, WS!IInv, InExchange, Accounted, StaleRequestIsInterrupted, [Next]_vars
  PROVE  StaleRequestIsInterrupted'
<1> SUFFICES ASSUME NEW t \in Requesters, stage'[t] = "run", t[1] # "test",
                    job'[t].gen = gen' - 1
             PROVE  InterruptPending'
  BY DEF StaleRequestIsInterrupted
<1>0. gen \in Nat /\ WS!TypeOK
  BY Counting DEF Counted, WS!IInv
<1>1. job'[t] = job[t] /\ (stage[t] = "run" \/ (LockWorker(t) /\ gen' = gen))
  BY RunsOn
<1>2. CASE LockWorker(t) /\ gen' = gen
  \* It has just checked that it is current.
  <2>1. stage'[t] = "run" => ~Stale(t)
    BY <1>2, LockerAlone
  <2> QED BY <1>0, <1>1, <1>2, <2>1 DEF Stale
<1>3. CASE stage[t] = "run" /\ gen' = gen
  <2>1. PICK k \in Shutdowns \ Obsolete : inner[k] = "queued"
    BY <1>1, <1>3 DEF StaleRequestIsInterrupted, InterruptPending
  <2>2. holder \in Requesters
    BY <1>3 DEF InExchange
  <2>3. inner'[k] = "queued"
    BY <1>0, <2>1, <2>2, QueuedStays
  <2>4. k \in Shutdowns \ Obsolete'
    BY <1>3, <2>1 DEF Obsolete
  <2> QED BY <2>3, <2>4 DEF InterruptPending
<1>4. CASE stage[t] = "run" /\ gen' # gen
  <2>1. gen' = gen + 1 /\ (StartRecording \/ Cancel)
    BY <1>4, GenerationMoves DEF StartRecording, Cancel
  <2>2. job[t].gen = gen
    BY <1>0, <1>1, <2>1
  <2>3. Interrupts
    <3>1. PICK kind \in {"warm", "pcm"}, s \in Sessions : t = <<kind, s>>
      BY DEF Requesters
    <3>2. AtWork(kind, s) /\ StartGen(s) = gen
      BY <1>4, <2>2, <3>1 DEF AtWork, IInv, Generations
    <3> QED BY <3>2 DEF Accounted, Interrupts
  <2>4. PICK kind \in {"supersede", "cancel"} :
          WS!StartShutdown(<<kind, gen + 1>>) /\ <<kind, gen + 1>> \in Shutdowns
    BY <2>1, <2>3, HandlesAreShutdowns DEF StartRecording, Cancel, ShutdownIf
  <2>5. inner'[<<kind, gen + 1>>] = "queued"
    BY <1>0, <2>4 DEF WS!StartShutdown, WS!TypeOK
  <2>6. <<kind, gen + 1>> \notin Obsolete'
    BY <1>0, <2>1 DEF Obsolete
  <2> QED BY <2>4, <2>5, <2>6 DEF InterruptPending
<1> QED BY <1>1, <1>2, <1>3, <1>4

\* A shutdown begins with its start or cancel.
LEMMA NoShutdownAheadPreserved ==
  ASSUME IInv, WS!IInv, NoShutdownAhead, [Next]_vars PROVE NoShutdownAhead'
<1> SUFFICES ASSUME NEW k \in Shutdowns, k[1] \in {"supersede", "cancel"}, k[2] > gen'
             PROVE  inner'[k] = "idle" /\ outer'[k] = "idle"
  BY DEF NoShutdownAhead
<1>0. /\ gen \in Nat /\ k[2] \in Nat
      /\ inner \in [Shutdowns -> {"idle", "queued", "stopping", "done"}]
      /\ outer \in [Shutdowns ->
            {"idle", "waiting", "timedout", "killing", "recovering", "ok", "err"}]
  BY Counting, Bounds DEF Counted, Shutdowns, MaxGen, WS!IInv, WS!TypeOK
<1>1. gen' = gen \/ (gen' = gen + 1 /\ (StartRecording \/ Cancel))
  BY GenerationMoves DEF StartRecording, Cancel
<1>2. inner[k] = "idle" /\ outer[k] = "idle"
  BY <1>0, <1>1 DEF NoShutdownAhead
<1>3. ASSUME NEW x \in Shutdowns, x # k, WS!StartShutdown(x) PROVE inner'[k] = "idle" /\ outer'[k] = "idle"
  BY <1>0, <1>2, <1>3 DEF WS!StartShutdown
<1>4. ASSUME UNCHANGED <<inner, outer>> PROVE inner'[k] = "idle" /\ outer'[k] = "idle"
  BY <1>2, <1>4
<1>5. CASE StartRecording \/ Cancel
  <2>1. gen' = gen + 1
    BY <1>5 DEF StartRecording, Cancel
  <2>2. CASE UNCHANGED workerVars
    BY <1>4, <2>2 DEF workerVars
  <2>3. CASE ~UNCHANGED workerVars
    <3>1. PICK kind \in {"supersede", "cancel"} :
            WS!StartShutdown(<<kind, gen + 1>>) /\ <<kind, gen + 1>> \in Shutdowns
      BY <1>5, <2>3, HandlesAreShutdowns DEF StartRecording, Cancel, ShutdownIf
    <3>2. <<kind, gen + 1>> # k
      BY <1>0, <2>1
    <3> QED BY <1>3, <3>1, <3>2
  <2> QED BY <2>2, <2>3
<1>6. CASE UnloadModel
  <2>1. WS!StartShutdown(<<"unload", issued'.unload>>) /\ <<"unload", issued'.unload>> \in Shutdowns
    BY <1>6, HandlesAreShutdowns DEF UnloadModel
  <2> QED BY <1>3, <2>1
<1>7. CASE Shutdown
  <2>1. WS!StartShutdown(<<"exit", 1>>) /\ <<"exit", 1>> \in Shutdowns
    BY <1>7, HandlesAreShutdowns DEF Shutdown
  <2> QED BY <1>3, <2>1
<1>8. CASE CoordinatorRuns
  <2>1. PICK x \in Shutdowns : WS!CoordinatorStep(x)
    BY <1>8 DEF CoordinatorRuns
  <2>2. x = k => ~WS!CoordinatorEnds(x)
    BY <1>2 DEF WS!CoordinatorEnds, WS!Marks, WS!IInv, WS!MutexRespected
  <2>3. ~(x = k /\ WS!CoordinatorLocks(x))
    BY <1>2 DEF WS!CoordinatorLocks
  <2>4. CASE WS!CoordinatorEnds(x)
    BY <1>0, <1>2, <2>1, <2>2, <2>4 DEF WS!CoordinatorEnds
  <2>5. CASE WS!CoordinatorStops(x)
    BY <1>4, <2>5 DEF WS!CoordinatorStops, WS!coordVars
  <2>6. CASE WS!CoordinatorLocks(x)
    BY <1>0, <1>2, <2>1, <2>3, <2>6 DEF WS!CoordinatorLocks
  <2> QED BY <1>0, <1>2, <2>1, <2>4, <2>5, <2>6 DEF WS!CoordinatorStep,
     WS!CallerReturns, WS!CallerTimesOut, WS!CallerReadsPid, WS!CallerKills, WS!CallerGivesUp
<1>9. CASE \E t \in Requesters : RequesterStep(t)
  BY <1>4, <1>9 DEF RequesterStep, Begin, LockWorker, UseWorker, WS!Lock, WS!Reuse, WS!Recycle,
     WS!Launch, WS!Track,
     WS!HandshakeOk, WS!WarmUpDone, WS!LaunchFails, WS!HandshakeFails, WS!WarmUpFails,
     WS!EngineError, WS!WorkerDied, WS!Ends, WS!Marks, WS!Reaps, WS!Transcribed, WS!coordVars,
     workerVars
<1>10. CASE \/ \E s \in Sessions : \/ StopWithoutAudio(s) \/ StopRecording(s)
                                   \/ DeliveryProgress(s) \/ DeliveryComplete(s)
            \/ IdleTick
            \/ \E m \in Models : TestModel(m)
            \/ \E p \in Prefs : ReloadConfig(p)
            \/ DiscardStale \/ HandleWarmed \/ HandleNoTranscript
            \/ HandleTranscriptToClean \/ HandleTranscript
            \/ \E t \in Jobs : SendResult(t)
            \/ \E s \in Sessions : CleanTranscript(s)
            \/ IdleCheckRuns \/ ReloadRuns \/ CaretakerEnds \/ ChildExits \/ IdleTimeout
            \/ UNCHANGED vars
  BY <1>4, <1>10 DEF StopWithoutAudio, StopRecording, DeliveryProgress, DeliveryComplete,
     IdleTick,
     TestModel, ReloadConfig, DiscardStale, HandleWarmed, HandleNoTranscript,
     HandleTranscriptToClean,
     HandleTranscript, SendResult, CleanTranscript, IdleCheckRuns, ReloadRuns, CaretakerEnds,
     ChildExits, IdleTimeout,
     WS!ShutdownIfIdle, WS!UpdateRuntimeConfig, WS!CaretakerEnds, WS!Marks, WS!Reaps,
     WS!ChildExits, WS!Expires, WS!coordVars, workerVars, vars
<1> QED BY <1>5, <1>6, <1>7, <1>8, <1>9, <1>10 DEF Next, Handle

\* Unless a thread is replacing the child, a tracker that was not cleared yet is the only
\* one that does not name the child of the handle, and there is no child then.
LEMMA TrackedHandle ==
  ASSUME WS!IInv
  PROVE  /\ holder \notin Requesters => worker = WS!NoWorker \/ tracker = worker.pid
         /\ worker # WS!NoWorker => worker.pid \in Pids /\ worker.pid # WS!NoPid
         /\ proc \in [Pids -> {"free", "cold", "primed", "zombie"}]
         /\ \A k \in Shutdowns : inner[k] = "stopping" => holder = k
BY CaptureAssumption DEF WS!IInv, WS!TypeOK, WS!Consistent, WS!Stops, WS!MutexRespected,
   WS!NoPid

\* A shutdown past its check stays ahead of the new recording's warm-up: the recording began
\* after the check, nobody gets the mutex in between, and only a dead child is given up.
LEMMA AheadPreserved ==
  ASSUME IInv, WS!IInv, InExchange, NoShutdownAhead, Ahead, [Next]_vars PROVE Ahead'
<1> SUFFICES ASSUME PastItsCheck', active' # NoRecording PROVE WarmUpWaits'
  BY DEF Ahead
<1> DEFINE own == <<"supersede", gen>>
           mine == <<"warm", active.session>>
<1>0. /\ gen \in Nat
      /\ stage \in [Jobs -> {"idle", "join", "check", "lock", "run", "done"} \cup Results]
      /\ inner \in [Shutdowns -> {"idle", "queued", "stopping", "done"}]
      /\ outer \in [Shutdowns ->
            {"idle", "waiting", "timedout", "killing", "recovering", "ok", "err"}]
      /\ target \in [Shutdowns -> Pids \cup {WS!NoPid}]
      /\ \A k \in Shutdowns : k # <<"free", 0>> /\ k # <<"caretaker", 0>>
  BY Counting, Disjoint DEF Counted, IInv, OwnTypeOK, WS!IInv, WS!TypeOK, Shutdowns
<1>1. active # NoRecording =>
        /\ active.session \in Sessions /\ mine \in Jobs
        /\ StartGen(active.session) = gen /\ job[mine].gen = gen /\ gen # 0 /\ own \in Shutdowns
  <2> SUFFICES ASSUME active # NoRecording
               PROVE  /\ active.session \in Sessions /\ mine \in Jobs
                      /\ StartGen(active.session) = gen /\ job[mine].gen = gen /\ gen # 0
                      /\ own \in Shutdowns
    OBVIOUS
  <2>1. active.session \in Sessions /\ mine \in Jobs /\ active.session # 0
    BY Disjoint, Bounds DEF IInv, OwnTypeOK, Sessions
  <2>2. StartGen(active.session) = gen /\ gen # 0
    BY <2>1 DEF IInv, Generations, Tracked, ActiveSession
  <2>3. gen \in 1..MaxGen
    BY <1>0, <2>2, Bounds DEF IInv, OwnTypeOK, MaxGen
  <2> QED BY <2>1, <2>2, <2>3 DEF StartGen, Shutdowns
\* What leaves the worker, the warm-up and its shutdown alone.
<1>2. ASSUME UNCHANGED <<gen, active, outer, target, worker, proc>>, PastItsCheck,
             stage'[mine] = stage[mine] \/ (stage[mine] # "lock" /\ stage'[mine] = "lock")
      PROVE  WarmUpWaits'
  <2>1. WarmUpWaits
    BY <1>2 DEF Ahead
  <2> QED BY <1>2, <2>1 DEF WarmUpWaits, Dead, WS!Running
<1>3. ASSUME UNCHANGED <<gen, inner, holder, lastUsed, idleCheck>> PROVE PastItsCheck
  BY <1>3 DEF PastItsCheck, Obsolete
\* A recording that starts: its warm-up is spawned, its shutdown if any begins.
<1>4. CASE StartRecording
  <2> DEFINE n == issued.start + 1
             new == <<"supersede", gen + 1>>
  <2>1. gen' = gen + 1 /\ active'.session = n /\ \E v \in {"join", "check"} : \E c : Spawn(<<"warm", n>>, v, gen + 1, c)
    BY <1>4 DEF StartRecording, DropRecording
  <2>2. <<"warm", n>> \in Jobs
    <3>1. issued.start < MaxStarts
      BY <1>4 DEF StartRecording, Command, Bounded
    <3>2. n \in Sessions
      BY <3>1, Bounds, Counting DEF Counted, Sessions
    <3> QED BY <3>2, Disjoint
  <2>3. stage'[<<"warm", n>>] \in {"join", "check"}
    BY <1>0, <2>1, <2>2 DEF Spawn
  <2>4. new \in Shutdowns
    BY <1>4, HandlesAreShutdowns DEF StartRecording
  <2>5. outer[new] = "idle"
    BY <1>0, <2>4 DEF NoShutdownAhead
  <2>6. outer'[new] \in {"idle", "waiting"}
    <3>1. WS!StartShutdown(new) \/ UNCHANGED workerVars
      BY <1>4 DEF StartRecording, ShutdownIf
    <3> QED BY <1>0, <2>4, <2>5, <3>1 DEF WS!StartShutdown, workerVars
  <2> QED BY <2>1, <2>3, <2>6 DEF WarmUpWaits
<1>5. CASE \/ \E s \in Sessions : StopWithoutAudio(s) \/ StopRecording(s)
           \/ Cancel \/ Shutdown
  BY <1>5 DEF StopWithoutAudio, StopRecording, Cancel, Shutdown, DropRecording
<1>6. CASE UnloadModel
  <2> DEFINE k == <<"unload", issued'.unload>>
  <2>1. /\ WS!StartShutdown(k) /\ k \in Shutdowns /\ k # own
        /\ UNCHANGED <<gen, active, stage, idleCheck>>
    BY <1>6, HandlesAreShutdowns DEF UnloadModel, loopVars, sharedVars, threadVars
  <2>2. UNCHANGED <<worker, proc, target, holder, lastUsed>>
    BY <2>1 DEF WS!StartShutdown, WS!lockVars, WS!supVars, WS!osVars
  <2>3. \A x \in Shutdowns : inner'[x] = "stopping" => inner[x] = "stopping"
    BY <1>0, <2>1 DEF WS!StartShutdown
  <2>4. PastItsCheck
    BY <2>1, <2>2, <2>3 DEF PastItsCheck, Obsolete
  <2>5. WarmUpWaits
    BY <2>1, <2>4 DEF Ahead
  <2>6. outer'[own] = outer[own]
    BY <1>0, <1>1, <2>1 DEF WS!StartShutdown
  <2> QED BY <2>1, <2>2, <2>5, <2>6 DEF WarmUpWaits, Dead, WS!Running
<1>7. CASE IdleTick
  <2>1. UNCHANGED <<loopVars, threadVars, gen, workerVars>> /\ (idleCheck' = "busy" \/ ~Busy)
    BY <1>7 DEF IdleTick, sharedVars
  <2>2. ~(idleCheck' = "free" /\ ~Busy)
    BY <2>1 DEF Busy, loopVars
  <2>3. PastItsCheck
    BY <1>7, <2>1, <2>2 DEF IdleTick, PastItsCheck, Obsolete, workerVars
  <2> QED BY <1>2, <2>1, <2>3 DEF loopVars, threadVars, workerVars
\* Commands and results that are none of the supervisor's business.
<1>8. ASSUME UNCHANGED <<gen, active, idleCheck, workerVars>>, stage'[mine] = stage[mine] PROVE WarmUpWaits'
  BY <1>2, <1>3, <1>8 DEF workerVars
<1>9. CASE \/ \E s \in Sessions : DeliveryProgress(s) \/ DeliveryComplete(s)
           \/ \E p \in Prefs : ReloadConfig(p)
           \/ DiscardStale \/ HandleWarmed \/ HandleNoTranscript \/ HandleTranscript
           \/ UNCHANGED vars
  BY <1>8, <1>9 DEF DeliveryProgress, DeliveryComplete, ReloadConfig, DiscardStale,
     HandleWarmed,
     HandleNoTranscript, HandleTranscript, loopVars, threadVars, sharedVars, miscVars, vars
<1>10. ASSUME NEW m \in Models, TestModel(m) PROVE WarmUpWaits'
  <2>1. /\ UNCHANGED <<gen, active, idleCheck, workerVars>>
        /\ \E v, g, c : Spawn(<<"test", issued'.test>>, v, g, c)
    BY <1>10 DEF TestModel, loopVars, sharedVars
  <2>2. stage'[mine] = stage[mine]
    BY <1>0, <1>1, <2>1 DEF Spawn
  <2> QED BY <1>8, <2>1, <2>2
<1>11. CASE HandleTranscriptToClean
  <2>1. /\ UNCHANGED <<gen, active, idleCheck, workerVars>>
        /\ \E v, g, c : Spawn(<<"clean", Head(bg).session>>, v, g, c)
    BY <1>11 DEF HandleTranscriptToClean, miscVars
  <2>2. stage'[mine] = stage[mine]
    BY <1>0, <1>1, <2>1 DEF Spawn
  <2> QED BY <1>8, <2>1, <2>2
\* The threads.
<1>12. ASSUME NEW t \in Requesters, Begin(t) PROVE WarmUpWaits'
  <2>1. UNCHANGED <<gen, active, idleCheck, job, workerVars>> /\ t \in Jobs
    BY <1>12 DEF Begin, loopVars, sharedVars, miscVars, Jobs
  <2>2. CASE t # mine
    <3>1. stage'[mine] = stage[mine]
      BY <1>0, <1>1, <1>12, <2>1, <2>2 DEF Begin, SetStage
    <3> QED BY <1>8, <2>1, <3>1
  <2>3. CASE t = mine
    <3>1. active # NoRecording /\ PastItsCheck /\ WarmUpWaits
      BY <1>3, <2>1 DEF Ahead, workerVars
    <3>2. ~Stale(t) /\ job[t].gen = gen
      BY <1>1, <2>3, <3>1 DEF Stale
    <3>3. CASE stage'[t] = "lock"
      BY <2>1, <2>3, <3>1, <3>3 DEF workerVars, WarmUpWaits, Dead, WS!Running
    <3>4. CASE stage'[t] # "lock"
      <4>1. outer[own] = "err"
        BY <1>0, <1>12, <2>1, <3>2, <3>4 DEF Begin, SetStage
      <4>2. Dead
        BY <3>1, <4>1 DEF WarmUpWaits
      <4> QED BY <2>1, <4>2 DEF workerVars, WarmUpWaits, Dead, WS!Running
    <3> QED BY <3>3, <3>4
  <2> QED BY <2>2, <2>3
<1>13. ASSUME NEW t \in Requesters, LockWorker(t) PROVE WarmUpWaits'
  <2>1. /\ UNCHANGED <<gen, active, idleCheck, job, inner>> /\ t \in Jobs
        /\ holder = <<"free", 0>>
    BY <1>13, LockerAlone DEF LockWorker, loopVars, sharedVars, miscVars, Jobs, workerVars,
       WS!Lock, WS!coordVars
  <2>2. \A k \in Shutdowns : inner'[k] # "stopping"
    BY <1>0, <2>1, TrackedHandle
  <2>3. holder' = <<"free", 0>>
    BY <2>2 DEF PastItsCheck, Obsolete
  <2>4. Stale(t) /\ UNCHANGED workerVars
    BY <1>13, <2>1, <2>3, LockerAlone, Disjoint DEF LockWorker
  <2>5. stage'[mine] = stage[mine]
    <3>1. active # NoRecording => t # mine
      BY <1>1, <2>4 DEF Stale
    <3> QED BY <1>0, <1>1, <1>13, <2>1, <2>4, <3>1 DEF LockWorker, SetStage
  <2> QED BY <1>8, <2>1, <2>4, <2>5
<1>14. ASSUME NEW t \in Requesters, UseWorker(t) PROVE WarmUpWaits'
  <2>1. holder = t /\ UNCHANGED <<inner, gen>>
    BY <1>14, UserHolds DEF UseWorker, WS!Reuse, WS!Recycle, WS!Launch, WS!Track,
       WS!HandshakeOk, WS!WarmUpDone,
       WS!LaunchFails, WS!HandshakeFails, WS!WarmUpFails, WS!EngineError, WS!WorkerDied,
       WS!Ends, WS!Marks, WS!Reaps,
       WS!Transcribed, WS!coordVars, sharedVars
  <2>2. \A k \in Shutdowns : inner'[k] # "stopping"
    BY <1>0, <2>1, Disjoint, TrackedHandle
  <2>3. holder' = <<"free", 0>> /\ lastUsed' = "expired"
    BY <2>2 DEF PastItsCheck, Obsolete
  <2>4. holder' # holder
    BY <2>1, <2>3, Disjoint
  <2>5. WS!WarmUpFails(t)
    BY <1>14, <2>3, <2>4 DEF UseWorker, WS!Reuse, WS!Recycle, WS!Launch, WS!Track,
       WS!HandshakeOk, WS!WarmUpDone,
       WS!LaunchFails, WS!HandshakeFails, WS!EngineError, WS!WorkerDied, WS!Ends, WS!Marks,
       WS!Reaps,
       WS!Transcribed, WS!MarkStopped
  <2>6. Dead'
    BY <2>5 DEF WS!WarmUpFails, Dead, WS!Running, WS!supVars, WS!osVars
  <2> QED BY <2>6 DEF WarmUpWaits
<1>15. ASSUME NEW t \in Jobs, SendResult(t) PROVE WarmUpWaits'
  <2>1. UNCHANGED <<gen, active, idleCheck, workerVars>> /\ stage[t] \in Results /\ SetStage(t, "done")
    BY <1>15 DEF SendResult, loopVars, miscVars
  <2>2. PastItsCheck /\ WarmUpWaits
    BY <1>3, <2>1 DEF Ahead, workerVars
  <2>3. CASE t = mine
    BY <2>1, <2>2, <2>3 DEF WarmUpWaits, Dead, WS!Running, Results, workerVars
  <2>4. CASE t # mine
    BY <1>0, <1>1, <1>8, <2>1, <2>4 DEF SetStage
  <2> QED BY <2>3, <2>4
<1>16. ASSUME NEW s \in Sessions, CleanTranscript(s) PROVE WarmUpWaits'
  <2>1. UNCHANGED <<gen, active, idleCheck, workerVars>> /\ \E v : SetStage(<<"clean", s>>, v)
    BY <1>16 DEF CleanTranscript, loopVars, miscVars, sharedVars
  <2>2. stage'[mine] = stage[mine]
    BY <1>0, <1>1, <2>1 DEF SetStage
  <2> QED BY <1>8, <2>1, <2>2
<1>17. CASE IdleCheckRuns
  <2>1. holder = <<"free", 0>> /\ idleCheck' # "free" /\ UNCHANGED <<gen, inner>>
    BY <1>17 DEF IdleCheckRuns, WS!ShutdownIfIdle, WS!MutexFree, WS!coordVars, sharedVars
  <2> QED BY <1>0, <2>1, TrackedHandle DEF PastItsCheck, Obsolete
<1>18. CASE ReloadRuns \/ CaretakerEnds
  <2>1. UNCHANGED <<gen, active, stage, inner, outer, target>>
    BY <1>18 DEF ReloadRuns, CaretakerEnds, loopVars, threadVars, sharedVars,
       WS!UpdateRuntimeConfig, WS!CaretakerEnds, WS!coordVars
  <2>2. CASE worker' = WS!NoWorker
    BY <2>2 DEF WarmUpWaits, Dead
  <2>3. CASE ReloadRuns /\ worker' # WS!NoWorker
    <3>1. UNCHANGED <<worker, lastUsed, proc, holder, idleCheck>>
      BY <2>3 DEF ReloadRuns, WS!UpdateRuntimeConfig, WS!Reaps, WS!Reaped, WS!lockVars,
         WS!osVars
    <3> QED BY <1>2, <1>3, <2>1, <3>1
  <2>4. CASE CaretakerEnds
    <3>1. holder = <<"caretaker", 0>> /\ lastUsed' = "stopped"
      BY <2>4 DEF CaretakerEnds, WS!CaretakerEnds, WS!Marks, WS!MarkStopped
    <3> QED BY <1>0, <2>1, <3>1, TrackedHandle DEF PastItsCheck, Obsolete
  <2> QED BY <1>18, <2>2, <2>3, <2>4
<1>19. CASE ChildExits \/ IdleTimeout
  <2>1. /\ UNCHANGED <<gen, active, stage, idleCheck, inner, outer, target, holder, worker>>
        /\ \A p \in Pids : WS!Running(p)' => WS!Running(p)
    BY <1>19, TrackedHandle DEF ChildExits, IdleTimeout, loopVars, threadVars, sharedVars,
       WS!ChildExits,
       WS!Expires, WS!coordVars, WS!lockVars, WS!supVars, WS!osVars, WS!Running
  <2>2. PastItsCheck
    BY <1>19, <2>1 DEF PastItsCheck, Obsolete, ChildExits, IdleTimeout, WS!ChildExits,
       WS!supVars
  <2>3. Dead => Dead'
    BY <2>1, TrackedHandle DEF Dead
  <2> QED BY <2>1, <2>2, <2>3 DEF Ahead, WarmUpWaits
<1>20. ASSUME NEW k \in Shutdowns, CoordinatorRuns, WS!CoordinatorStep(k) PROVE WarmUpWaits'
  <2>1. UNCHANGED <<gen, active, stage, idleCheck>>
    BY <1>20 DEF CoordinatorRuns, loopVars, threadVars, sharedVars, miscVars
  <2>2. CASE WS!CoordinatorLocks(k)
    \* Whoever gets the mutex has just been found current.
    <3>1. holder = <<"free", 0>> /\ UNCHANGED <<outer, target, worker, proc, lastUsed>>
      BY <2>2 DEF WS!CoordinatorLocks, WS!MutexFree, WS!supVars, WS!osVars
    <3>2. \A x \in Shutdowns : inner[x] # "stopping"
      BY <1>0, <3>1, TrackedHandle
    <3>3. \A x \in Obsolete : inner'[x] # "stopping"
      BY <1>0, <2>2, <3>2 DEF WS!CoordinatorLocks, WS!IsCurrent, Obsolete
    <3>4. idleCheck = "free" /\ lastUsed = "expired"
      BY <2>1, <3>1, <3>3 DEF PastItsCheck, Obsolete
    <3>5. PastItsCheck
      BY <3>1, <3>4 DEF PastItsCheck
    <3> QED BY <1>2, <2>1, <3>1, <3>5
  <2>3. CASE WS!CoordinatorStops(k)
    BY <2>3 DEF WS!CoordinatorStops, WS!Reaps, WS!Reaped, WarmUpWaits, Dead
  <2>10. CASE WS!CoordinatorEnds(k)
    <3>1. /\ worker' = worker /\ request = "ending"
      BY <2>10 DEF WS!CoordinatorEnds, WS!Marks
    <3>2. worker = WS!NoWorker
      BY <3>1 DEF WS!IInv, WS!Consistent, WS!Stops
    <3> QED BY <3>1, <3>2 DEF WarmUpWaits, Dead
  <2>4. ASSUME UNCHANGED <<inner, holder, lastUsed, worker>>
        PROVE  PastItsCheck /\ WarmUpWaits
    BY <1>3, <2>1, <2>4 DEF Ahead
  <2>5. ASSUME UNCHANGED <<inner, holder, lastUsed, worker, target, proc>>,
               outer'[own] \in {"waiting", "timedout", "ok"} \/ outer'[own] = outer[own]
        PROVE  WarmUpWaits'
    BY <2>1, <2>4, <2>5 DEF WarmUpWaits, Dead, WS!Running
  <2>6. CASE WS!CallerReturns(k) \/ WS!CallerTimesOut(k)
    <3>1. UNCHANGED <<inner, holder, lastUsed, worker, target, proc>>
      BY <2>6 DEF WS!CallerReturns, WS!CallerTimesOut, WS!lockVars, WS!supVars, WS!osVars
    <3>2. outer'[own] \in {"waiting", "timedout", "ok"} \/ outer'[own] = outer[own]
      BY <1>0, <1>1, <2>1, <2>6 DEF WS!CallerReturns, WS!CallerTimesOut
    <3> QED BY <2>5, <3>1, <3>2
  <2>7. CASE WS!CallerReadsPid(k)
    <3>1. UNCHANGED <<inner, holder, lastUsed, worker, proc>>
      BY <2>7 DEF WS!CallerReadsPid, WS!lockVars, WS!supVars, WS!osVars
    \* A shutdown is past its check, so no thread is replacing the child.
    <3>0. worker = WS!NoWorker \/ tracker = worker.pid
      BY <1>0, <2>4, <3>1, Disjoint, TrackedHandle DEF PastItsCheck, Obsolete
    <3>2. CASE worker = WS!NoWorker
      BY <3>1, <3>2 DEF WarmUpWaits, Dead
    <3>3. CASE worker # WS!NoWorker
      <4>1. outer'[k] = "killing" /\ target'[k] = worker.pid
        BY <1>0, <2>7, <3>0, <3>3, TrackedHandle DEF WS!CallerReadsPid
      <4>2. k # own => outer'[own] = outer[own] /\ target'[own] = target[own]
        BY <1>0, <1>1, <2>1, <2>7 DEF WS!CallerReadsPid
      <4> QED BY <2>1, <2>4, <3>1, <4>1, <4>2 DEF WarmUpWaits, Dead, WS!Running
    <3> QED BY <3>2, <3>3
  <2>8. CASE WS!CallerKills(k)
    <3>1. UNCHANGED <<inner, holder, lastUsed, worker>> /\ proc' = WS!Killed(target[k])
      BY <2>8 DEF WS!CallerKills, WS!lockVars, WS!supVars
    <3>2. \A p \in Pids : WS!Running(p)' => WS!Running(p) /\ p # target[k]
      BY <3>1, TrackedHandle DEF WS!Killed, WS!Running
    <3>3. Dead => Dead'
      BY <3>1, <3>2, TrackedHandle DEF Dead
    <3>4. CASE k = own
      <4>1. outer[own] = "killing"
        BY <2>8, <3>4 DEF WS!CallerKills
      <4>2. Dead \/ target[own] = worker.pid
        BY <2>4, <3>1, <4>1 DEF WarmUpWaits
      <4>3. Dead'
        BY <3>1, <3>2, <3>3, <3>4, <4>2, TrackedHandle DEF Dead
      <4> QED BY <4>3 DEF WarmUpWaits
    <3>5. CASE k # own
      <4>1. outer'[own] = outer[own] /\ target'[own] = target[own]
        BY <1>0, <1>1, <2>1, <2>8, <3>5 DEF WS!CallerKills
      <4> QED BY <2>1, <2>4, <3>1, <3>3, <4>1 DEF WarmUpWaits
    <3> QED BY <3>4, <3>5
  <2>9. CASE WS!CallerGivesUp(k)
    <3>1. UNCHANGED <<inner, holder, lastUsed, worker, target, proc>>
      BY <2>9 DEF WS!CallerGivesUp, WS!lockVars, WS!supVars, WS!osVars
    <3>2. k # own => outer'[own] = outer[own]
      BY <1>0, <1>1, <2>1, <2>9 DEF WS!CallerGivesUp
    <3>3. k = own => Dead
      BY <2>4, <2>9, <3>1 DEF WS!CallerGivesUp, WarmUpWaits
    <3> QED BY <2>1, <2>5, <3>1, <3>2, <3>3 DEF WarmUpWaits, Dead, WS!Running
  <2> QED BY <1>20, <2>2, <2>3, <2>6, <2>7, <2>8, <2>9, <2>10 DEF WS!CoordinatorStep
<1> QED
  BY <1>4, <1>5, <1>6, <1>7, <1>9, <1>10, <1>11, <1>12, <1>13, <1>14, <1>15, <1>16, <1>17,
     <1>18,
     <1>19, <1>20
     DEF Next, Handle, RequesterStep, CoordinatorRuns

\* Whoever takes turns with the worker does so in the order Turns describes.
LEMMA TurnsPreserved == IInv /\ WS!IInv /\ Turns /\ [Next]_vars => Turns'
BY InExchangePreserved, AccountedPreserved, InterruptPreserved, NoShutdownAheadPreserved,
   AheadPreserved DEF Turns

LEMMA TurnsEstablished == Init => Turns
<1> SUFFICES ASSUME Init PROVE Turns
  OBVIOUS
<1>1. IInv /\ WS!Init
  BY InitEstablishes DEF Init
<1>2. InExchange /\ StaleRequestIsInterrupted
  BY DEF Init, InExchange, StaleRequestIsInterrupted, Jobs
<1>3. Accounted
  <2>1. \A s \in Sessions, kind \in {"warm", "pcm"} : stage[<<kind, s>>] = "idle"
    BY Disjoint DEF Init
  <2>2. \A s \in Sessions, kind \in {"warm", "pcm"} : ~AtWork(kind, s)
    BY <1>1, <2>1, IdleIsNotAtWork
  <2> QED BY <2>2 DEF Accounted
<1>4. NoShutdownAhead /\ Ahead
  BY <1>1 DEF Init, NoShutdownAhead, Ahead, WS!Init
<1> QED BY <1>2, <1>3, <1>4 DEF Turns

\* Turns holds in every reachable state.
THEOREM TakesTurns == Spec => []Turns
BY TurnsEstablished, TurnsPreserved, Invariance, PTL DEF Spec

\* "A new start interrupts pending inference": whatever the last start or cancel made stale
\* and is still at the child has a shutdown queued behind it.
THEOREM Interruption == Spec => []StaleRequestIsInterrupted
<1>1. Turns => StaleRequestIsInterrupted
  BY DEF Turns
<1> QED BY <1>1, TakesTurns, PTL

\* A prepared worker is one whose recording's warm-up is over, so nothing is past its check.
LEMMA PreparedIsSafe == Ahead /\ Prepared => ~PastItsCheck
BY DEF Ahead, WarmUpWaits, Prepared, Dead, WS!NoWorker, Results

\* "Shutdown coordinators for obsolete starts cannot unload a newer start's worker."
THEOREM ObsoleteStartsStandDown == Spec => ObsoleteStartStandsDown
<1>1. WS!IInv /\ Turns => \A k \in Obsolete : Prepared => holder # k
  <2> SUFFICES ASSUME WS!IInv, Turns, NEW k \in Obsolete, Prepared, holder = k PROVE FALSE
    OBVIOUS
  <2>1. inner[k] = "stopping"
    BY DEF WS!IInv, WS!MutexRespected, Obsolete
  <2> QED BY <2>1, PreparedIsSafe DEF Turns, PastItsCheck
<1>2. (\A k \in Obsolete : Prepared => holder # k) =>
        [\A k \in Obsolete : Prepared /\ holder = k => worker' = worker]_vars
  OBVIOUS
<1> QED BY <1>1, <1>2, Invariance, TakesTurns, PTL DEF Spec, ObsoleteStartStandsDown

\* An idle check that was queued before a recording began does not unload what was prepared
\* for it.
THEOREM IdleChecksSpare == Spec => IdleCheckSparesDictation
<1>1. IInv /\ Turns /\ [Next]_vars =>
        [Prepared /\ idleCheck # "none" /\ idleCheck' # idleCheck => worker' = worker]_vars
  <2> SUFFICES ASSUME IInv, Turns, Next, Prepared, idleCheck # "none", idleCheck' # idleCheck
               PROVE  worker' = worker
    OBVIOUS
  <2>1. IdleCheckRuns \/ CaretakerEnds
    BY DEF Next, Handle, StartRecording, StopWithoutAudio, StopRecording, DeliveryProgress,
       DeliveryComplete, Cancel, UnloadModel, TestModel, ReloadConfig, Shutdown, IdleTick,
       DiscardStale, HandleWarmed, HandleNoTranscript, HandleTranscriptToClean,
       HandleTranscript,
       RequesterStep, Begin, LockWorker, UseWorker, SendResult, CleanTranscript, ReloadRuns,
       CoordinatorRuns, ChildExits, IdleTimeout, miscVars
  <2>2. CASE CaretakerEnds
    BY <2>2 DEF CaretakerEnds, WS!CaretakerEnds, WS!Marks
  <2>3. CASE IdleCheckRuns
    <3>1. WS!ShutdownIfIdle(idleCheck = "busy") /\ idleCheck \in {"busy", "free"}
      BY <2>3 DEF IdleCheckRuns
    <3>2. ~(idleCheck = "free" /\ lastUsed = "expired")
      BY <3>1, PreparedIsSafe DEF Turns, PastItsCheck, WS!ShutdownIfIdle, WS!MutexFree
    <3> QED BY <3>1, <3>2 DEF WS!ShutdownIfIdle
  <2> QED BY <2>1, <2>2, <2>3
<1> QED BY <1>1, Invariance, TakesTurns, PTL DEF Spec, IdleCheckSparesDictation
=============================================================================
