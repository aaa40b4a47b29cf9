----------------------- MODULE WorkerSupervisor_proofs -----------------------
(***************************************************************************)
(* Safety of the supervisor for every number of threads, coordinators,     *)
(* configurations and process ids.  TypeOK is not inductive by itself      *)
(* (marking the worker ready keeps its type only if there is a worker), so *)
(* the six invariants are proved together as IInv: one lemma for each kind *)
(* of actor, one step for each of its actions.                             *)
(***************************************************************************)
EXTENDS WorkerSupervisor, TLAPS

\* What a thread does with the mutex in hand (warm-up, dictation, model test)
\* keeps the invariant.
LEMMA RequestPreserves ==
  ASSUME IInv, NEW t \in Threads, RequestStep(t) PROVE IInv'
<1> USE WorkerAssumption DEF IInv, TypeOK, Config, Requests, Exchange, Kinds, InFlight,
      Settled, Stops, NoWorker, NoPid, Running, ChildIsTracked, RequestMatchesConfig,
      ReadyIsPrimed, MutexRespected, Consistent, lockVars, supVars, osVars, coordVars
<1>1. CASE Lock(t)
  BY <1>1 DEF Lock, MutexFree
<1>2. ASSUME NEW kind \in Kinds, NEW next \in Config, Reuse(t, kind, next)
      PROVE  IInv'
  BY <1>2 DEF Reuse, SameConfig, Alive, Unlock
<1>3. ASSUME NEW next \in Config, Recycle(t, next)
      PROVE  IInv'
  BY <1>3 DEF Recycle, Reaped, Reap
<1>4. CASE Launch(t)
  BY <1>4 DEF Launch, Started
<1>5. CASE LaunchFails(t)
  BY <1>5 DEF LaunchFails, MarkStopped, Unlock
<1>6. ASSUME NEW kind \in Kinds, Track(t, kind)
      PROVE  IInv'
  BY <1>6 DEF Track, Hello
<1>7. CASE HandshakeOk(t)
  BY <1>7 DEF HandshakeOk, Hello
<1>8. CASE HandshakeFails(t)
  BY <1>8 DEF HandshakeFails, Reaps, Reaped, Reap
<1>9. CASE WarmUpDone(t)
  \* A request is in flight, so there is a worker to mark ready, and its child
  \* has just primed the engine.
  <2>1. worker # NoWorker
    BY <1>9 DEF WarmUpDone
  <2>2. TypeOK'
    BY <1>9, <2>1 DEF WarmUpDone, Primed, Unlock
  <2>3. ChildIsTracked' /\ ReadyIsPrimed'
    BY <1>9, <2>1 DEF WarmUpDone, Primed
  <2>4. Consistent'
    BY <1>9, <2>1 DEF WarmUpDone, Primed, Unlock
  <2>5. RequestMatchesConfig' /\ MutexRespected'
    BY <1>9 DEF WarmUpDone, Unlock
  <2> QED BY <2>2, <2>3, <2>4, <2>5
<1>10. CASE WarmUpFails(t)
  BY <1>10 DEF WarmUpFails, Unlock
<1>11. CASE Transcribed(t)
  <2>1. worker # NoWorker
    BY <1>11 DEF Transcribed
  <2>2. TypeOK'
    BY <1>11, <2>1 DEF Transcribed, Primed, Unlock
  <2>3. ChildIsTracked' /\ ReadyIsPrimed'
    BY <1>11, <2>1 DEF Transcribed, Primed
  <2>4. Consistent'
    BY <1>11, <2>1 DEF Transcribed, Primed, Unlock
  <2>5. RequestMatchesConfig' /\ MutexRespected'
    BY <1>11 DEF Transcribed, Unlock
  <2> QED BY <2>2, <2>3, <2>4, <2>5
<1>12. CASE EngineError(t)
  BY <1>12 DEF EngineError, Primed, Unlock
<1>13. CASE WorkerDied(t)
  BY <1>13 DEF WorkerDied, Reaps, Reaped, Reap
<1>14. CASE Ends(t)
  BY <1>14 DEF Ends, Marks, MarkStopped, Unlock
<1> QED
  BY <1>1, <1>2, <1>3, <1>4, <1>5, <1>6, <1>7, <1>8, <1>9, <1>10, <1>11, <1>12, <1>13,
     <1>14
     DEF RequestStep

\* So does a coordinator: its thread with the mutex, its caller without it.
LEMMA CoordinatorPreserves ==
  ASSUME IInv, NEW k \in Coordinators, CoordinatorStep(k) PROVE IInv'
<1> USE WorkerAssumption DEF IInv, TypeOK, Config, Requests, Exchange, Kinds, InFlight,
      Settled, Stops, NoWorker, NoPid, Running, ChildIsTracked, RequestMatchesConfig,
      ReadyIsPrimed, MutexRespected, Consistent, lockVars, supVars, osVars, coordVars
<1>1. CASE CoordinatorLocks(k)
  BY <1>1 DEF CoordinatorLocks, MutexFree
<1>2. CASE CoordinatorStops(k)
  BY <1>2 DEF CoordinatorStops, Reaps, Reaped, Reap
<1>3. CASE CoordinatorEnds(k)
  BY <1>3 DEF CoordinatorEnds, Marks, MarkStopped, Unlock
<1>4. CASE CallerReturns(k)
  BY <1>4 DEF CallerReturns
<1>5. CASE CallerTimesOut(k)
  BY <1>5 DEF CallerTimesOut
<1>6. CASE CallerReadsPid(k)
  BY <1>6 DEF CallerReadsPid
<1>7. CASE CallerKills(k)
  BY <1>7 DEF CallerKills, Killed
<1>8. CASE CallerGivesUp(k)
  BY <1>8 DEF CallerGivesUp
<1> QED
  BY <1>1, <1>2, <1>3, <1>4, <1>5, <1>6, <1>7, <1>8 DEF CoordinatorStep

\* And so do the child, the clock, the configuration update, the idle check and
\* the start of a coordinator.
LEMMA OthersPreserve ==
  ASSUME IInv,
         \/ \E p \in Pids : ChildExits(p)
         \/ \E prefs \in Prefs : UpdateRuntimeConfig(prefs)
         \/ \E busy \in BOOLEAN : ShutdownIfIdle(busy)
         \/ CaretakerEnds
         \/ Expires
         \/ Obsoletes
  PROVE  IInv'
<1> USE WorkerAssumption DEF IInv, TypeOK, Config, Requests, Exchange, Kinds, InFlight,
      Settled, Stops, NoWorker, NoPid, Running, ChildIsTracked, RequestMatchesConfig,
      ReadyIsPrimed, MutexRespected, Consistent, lockVars, supVars, osVars, coordVars
<1>1. ASSUME NEW p \in Pids, ChildExits(p) PROVE IInv'
  BY <1>1 DEF ChildExits
<1>2. ASSUME NEW prefs \in Prefs, UpdateRuntimeConfig(prefs) PROVE IInv'
  BY <1>2 DEF UpdateRuntimeConfig, MutexFree, Reaps, Reaped, Reap
<1>3. ASSUME NEW busy \in BOOLEAN, ShutdownIfIdle(busy) PROVE IInv'
  BY <1>3 DEF ShutdownIfIdle, MutexFree, Reaps, Reaped, Reap
<1>4. CASE Expires
  BY <1>4 DEF Expires
<1>5. CASE Obsoletes
  BY <1>5 DEF Obsoletes, StartShutdown
<1>6. CASE CaretakerEnds
  BY <1>6 DEF CaretakerEnds, Marks, MarkStopped, Unlock
<1> QED
  BY <1>1, <1>2, <1>3, <1>4, <1>5, <1>6

\* Every step of the supervisor, a stuttering one included, keeps IInv.
LEMMA StepPreserves == IInv /\ [Next]_vars => IInv'
<1> SUFFICES ASSUME IInv, [Next]_vars PROVE IInv'
  OBVIOUS
<1>1. CASE UNCHANGED vars
  BY <1>1 DEF vars, IInv, TypeOK, Running, InFlight, Settled, Stops, ChildIsTracked,
     RequestMatchesConfig, ReadyIsPrimed, MutexRespected, Consistent
<1>2. CASE Next
  BY <1>2, RequestPreserves, CoordinatorPreserves, OthersPreserve DEF Next
<1> QED
  BY <1>1, <1>2

\* No worker, nobody with the mutex, no shutdown under way: IInv holds.
LEMMA InitEstablishes == Init => IInv
BY WorkerAssumption DEF Init, IInv, TypeOK, Config, Requests, Exchange, Kinds, InFlight,
   Settled, Stops, NoWorker, NoPid, Running, ChildIsTracked, RequestMatchesConfig,
   ReadyIsPrimed, MutexRespected, Consistent

\* IInv holds in every state the supervisor can reach.
THEOREM Invariance == Spec => []IInv
BY InitEstablishes, StepPreserves, PTL DEF Spec

\* Type correctness: among others, a ready worker always has a PID and a
\* configuration it was started with.
THEOREM TypeCorrect == Spec => []TypeOK
BY Invariance, PTL DEF IInv

\* There is never a child in the process table that the handle does not own, and while
\* a request is in flight the PID tracker names that child, so killing the tracked PID
\* frees a supervisor blocked in a request and no replacement orphans its predecessor.
\* Nothing is said of the tracker between reaping a child and clearing it, nor between
\* spawning a child and storing its PID.
THEOREM NoOrphan == Spec => []ChildIsTracked
BY Invariance, PTL DEF IInv

\* A request in flight is answered by a child started with the configuration the
\* requesting thread asked for.
THEOREM RightModelAnswers == Spec => []RequestMatchesConfig
BY Invariance, PTL DEF IInv

\* Readiness is scoped to the child.
THEOREM ReadinessScoped == Spec => []ReadyIsPrimed
BY Invariance, PTL DEF IInv

\* Only a request thread with the mutex has a request in flight, and a
\* coordinator that stops the worker holds the mutex.
THEOREM MutualExclusion == Spec => []MutexRespected
BY Invariance, PTL DEF IInv

\* While a request is in flight, the handle changes only in a step of its own thread
\* that ends the exchange: no idle check, update or coordinator replaces the worker
\* under it.
THEOREM RequestOwnership == Spec => RequestOwnsWorker
<1> DEFINE Own == InFlight /\ worker' # worker => ~InFlight' /\ holder' \in {holder, Free}
<1>1. IInv /\ [Next]_vars => [Own]_vars
  <2> SUFFICES ASSUME IInv, Next, InFlight, worker' # worker
               PROVE  ~InFlight' /\ holder' \in {holder, Free}
    BY DEF vars
  <2> USE WorkerAssumption DEF lockVars, supVars, osVars, coordVars, InFlight, Exchange, Kinds
  <2>1. holder \in Threads /\ holder # Free
    BY DEF IInv, MutexRespected
  <2>2. ASSUME NEW t \in Threads, RequestStep(t)
        PROVE  ~InFlight' /\ holder' \in {holder, Free}
    BY <2>1, <2>2 DEF RequestStep, Lock, Reuse, Recycle, Launch, LaunchFails, Track,
       HandshakeOk, HandshakeFails, WarmUpDone, WarmUpFails, Transcribed, EngineError,
       WorkerDied, Ends, Marks, Reaps, Unlock
  <2>3. ASSUME NEW k \in Coordinators, CoordinatorStep(k) PROVE FALSE
    BY <2>1, <2>3 DEF CoordinatorStep, CoordinatorLocks, CoordinatorStops, CoordinatorEnds,
       CallerReturns, CallerTimesOut, CallerReadsPid, CallerKills, CallerGivesUp, Marks
  <2>4. ASSUME NEW p \in Pids, ChildExits(p) PROVE FALSE
    BY <2>4 DEF ChildExits
  <2>5. ASSUME NEW prefs \in Prefs, UpdateRuntimeConfig(prefs) PROVE FALSE
    BY <2>1, <2>5 DEF UpdateRuntimeConfig, MutexFree
  <2>6. ASSUME NEW busy \in BOOLEAN, ShutdownIfIdle(busy) PROVE FALSE
    BY <2>1, <2>6 DEF ShutdownIfIdle, MutexFree
  <2>7. ASSUME Expires \/ Obsoletes \/ CaretakerEnds PROVE FALSE
    BY <2>7 DEF Expires, Obsoletes, StartShutdown, CaretakerEnds, Marks
  <2> QED
    BY <2>2, <2>3, <2>4, <2>5, <2>6, <2>7 DEF Next
<1> QED
  BY <1>1, Invariance, PTL DEF Spec, RequestOwnsWorker

=============================================================================
