-------------------------- MODULE WorkerSupervisor --------------------------
(***************************************************************************)
(* The supervisor of the disposable inference child                        *)
(* (src/src/capture/inference_supervisor.rs).  One WorkerSupervisor sits   *)
(* behind a mutex shared by request threads (warm-up, dictation, model     *)
(* test), the idle check, the configuration update and the shutdown        *)
(* coordinators.  Only the child's PID is readable without the mutex       *)
(* (pid_tracker), so that a coordinator blocked behind a hung request can  *)
(* still kill the child.                                                   *)
(*                                                                         *)
(* A step is what one thread does between two points where another thread  *)
(* can tell the difference: taking the mutex, writing or reading the       *)
(* tracker, the child's exit and the moment it is reaped.  So a child is   *)
(* reaped in one step and the tracker cleared in the next, and a child is  *)
(* spawned in one step and its PID stored in the next; whoever reads the   *)
(* tracker in between reads what is no longer, or not yet, true.  The wait *)
(* for a graceful exit is not visible to anyone else (the mutex is held    *)
(* and the child ends dead either way).  try_wait and kill on an own,      *)
(* unreaped child are assumed not to fail.                                 *)
(***************************************************************************)
EXTENDS Naturals

CONSTANTS
  Threads,       \* threads that lock the supervisor to send a request
  Coordinators,  \* calls of shutdown_shared / shutdown_shared_if_current
  Models,        \* WorkerConfig.model_path
  Prefs,         \* the other compared fields: runtime, log level, device, idle, grace
  Pids,          \* process ids the OS may hand out; an id is reused once reaped
  Free,          \* "nobody holds the mutex"
  Caretaker,     \* "an idle check or a configuration update holds it"
  NoConfig       \* configuration of the absent worker

Config == [model : Models, prefs : Prefs]
NoPid == 0
NoWorker == [pid |-> NoPid, config |-> NoConfig, ready |-> FALSE]

ASSUME WorkerAssumption ==
  /\ Pids \subseteq Nat \ {0}
  /\ Free \notin Threads \cup Coordinators \cup {Caretaker}
  /\ Caretaker \notin Threads \cup Coordinators
  /\ Threads \cap Coordinators = {}
  /\ NoConfig \notin Config

VARIABLES
  holder,    \* who holds Mutex<WorkerSupervisor>
  request,   \* how far the holder is: with the child, or with replacing it
  config,    \* WorkerSupervisor.config
  worker,    \* WorkerSupervisor.worker, with the arguments its child was started with
  lastUsed,  \* LifecyclePolicy: "stopped", or age of last_used against idle_timeout
  tracker,   \* pid_tracker
  proc,      \* per PID, the supervisor's child: running "cold" or "primed", "zombie",
             \* or "free": nobody's, or that of somebody else's process
  inner,     \* coordinator thread that queues for the mutex
  outer,     \* caller of shutdown_shared*, waiting for it with a timeout
  target,    \* PID the caller read from the tracker
  obsolete   \* coordinators whose is_current() answers false

lockVars  == <<holder, request>>
supVars   == <<config, worker, lastUsed>>
osVars    == <<tracker, proc>>
coordVars == <<inner, outer, target, obsolete>>
vars == <<holder, request, config, worker, lastUsed, tracker, proc,
          inner, outer, target, obsolete>>

Kinds == {"warm", "infer"}
Hello(kind) == IF kind = "warm" THEN "hello-warm" ELSE "hello-infer"
Exchange == {"hello-warm", "hello-infer"} \cup Kinds
\* ensure_worker has no child (any more), or one whose PID is not stored yet;
\* a child was reaped and mark_stopped comes next.
Requests == {"none", "launching", "spawned", "ending"} \cup Exchange
InFlight == request \in Exchange

Running(p) == proc[p] \in {"cold", "primed"}
\* The child is usable as it is: ensure_worker's try_wait finds it running.
Alive == worker # NoWorker /\ Running(worker.pid)
\* The process table once the child with this PID has been waited for.
Reap(pid) == [p \in Pids |-> IF p = pid THEN "free" ELSE proc[p]]

TypeOK ==
  /\ holder \in Threads \cup Coordinators \cup {Free, Caretaker}
  /\ request \in Requests
  /\ config \in Config
  /\ worker \in [pid : Pids, config : Config, ready : BOOLEAN] \cup {NoWorker}
  /\ lastUsed \in {"stopped", "fresh", "expired"}
  /\ tracker \in Pids \cup {NoPid}
  /\ proc \in [Pids -> {"free", "cold", "primed", "zombie"}]
  /\ inner \in [Coordinators -> {"idle", "queued", "stopping", "done"}]
  /\ outer \in [Coordinators ->
        {"idle", "waiting", "timedout", "killing", "recovering", "ok", "err"}]
  /\ target \in [Coordinators -> Pids \cup {NoPid}]
  /\ obsolete \subseteq Coordinators

Init ==
  /\ holder = Free
  /\ request = "none"
  /\ config \in Config
  /\ worker = NoWorker
  /\ lastUsed = "stopped"
  /\ tracker = NoPid
  /\ proc = [p \in Pids |-> "free"]
  /\ inner = [k \in Coordinators |-> "idle"]
  /\ outer = [k \in Coordinators |-> "idle"]
  /\ target = [k \in Coordinators |-> NoPid]
  /\ obsolete = {}

-----------------------------------------------------------------------------
(* Plausible mistakes: what each is a variant of follows in this module *)

\* of Reaped: the handle is emptied, not dropped
ReapedKeepsHandle == worker' = [worker EXCEPT !.pid = NoPid] /\ proc' = Reap(worker.pid)
\* of MarkStopped: pid_tracker is not cleared
StoppedKeepsTracker == lastUsed' = "stopped" /\ UNCHANGED tracker

\* of MutexFree: a lock that is not waited for
NoMutex == TRUE
\* of Unlock: an early return in the middle of an exchange
UnlockInFlight == holder' = Free /\ UNCHANGED request
\* of SameConfig: only the model is compared
SameModel(next) == config.model = next.model
\* of Started: a child is taken for ready as soon as it runs
StartedReady(p) == [pid |-> p, config |-> config, ready |-> TRUE]
\* of IsCurrent: every coordinator is taken for current
AlwaysCurrent(k) == TRUE
\* of Killed: the PID is not signalled
KillsNothing(pid) == proc
\* of CallerTimesOut: recv instead of recv_timeout
NeverTimesOut(k) == FALSE

-----------------------------------------------------------------------------
(* The child and the mutex *)

\* worker.lock()
MutexFree == holder = Free

\* The handle is taken and its child, if there is one, has been waited for.
Reaped == worker' = NoWorker /\ proc' = Reap(worker.pid)

MarkStopped == tracker' = NoPid /\ lastUsed' = "stopped"

Unlock == holder' = Free /\ request' = "none"

\* shutdown_now, discard_crashed_worker and a failed handshake, by h: first the child
\* is reaped, then it is marked as stopped and the mutex released.
Reaps(h) ==
  /\ Reaped
  /\ holder' = h /\ request' = "ending"
  /\ UNCHANGED <<lastUsed, tracker>>

Marks(h) ==
  /\ holder = h /\ request = "ending"
  /\ MarkStopped
  /\ Unlock
  /\ UNCHANGED <<config, worker, proc>>

Lock(t) ==
  /\ MutexFree
  /\ holder' = t
  /\ UNCHANGED <<request, supVars, osVars, coordVars>>

\* The child exits on its own: a crash, a failed model load, the end of its input.
ChildExits(p) ==
  /\ Running(p)
  /\ proc' = [proc EXCEPT ![p] = "zombie"]
  /\ UNCHANGED <<lockVars, supVars, tracker, coordVars>>

\* idle_timeout passes since last_used.
Expires ==
  /\ lastUsed = "fresh"
  /\ lastUsed' = "expired"
  /\ UNCHANGED <<lockVars, config, worker, osVars, coordVars>>

-----------------------------------------------------------------------------
(* A request: replace_config, ensure_worker, then the framed exchange *)

\* replace_config finds nothing to recycle for.
SameConfig(next) == config = next

\* The handle of a child that was just started.
Started(p) == [pid |-> p, config |-> config, ready |-> FALSE]

\* Same configuration and a running child: the request goes to it, and a warm-up
\* of a ready child returns Ok(false) at once.
Reuse(t, kind, next) ==
  /\ holder = t /\ request = "none"
  /\ SameConfig(next) /\ Alive
  /\ config' = next
  /\ lastUsed' = "fresh"
  /\ IF kind = "warm" /\ worker.ready
     THEN Unlock
     ELSE request' = kind /\ UNCHANGED holder
  /\ UNCHANGED <<worker, osVars, coordVars>>

\* There is no child, another configuration recycles it, or it is dead: it is reaped.
Recycle(t, next) ==
  /\ holder = t /\ request = "none"
  /\ ~(SameConfig(next) /\ Alive)
  /\ config' = next
  /\ Reaped
  /\ request' = "launching"
  /\ UNCHANGED <<holder, lastUsed, tracker, coordVars>>

\* mark_stopped, before_request and spawn: until its PID is stored nobody else can
\* tell that there is a child.
Launch(t) ==
  /\ holder = t /\ request = "launching"
  /\ \E p \in Pids :
       /\ proc[p] = "free"
       /\ worker' = Started(p)
       /\ proc' = [proc EXCEPT ![p] = "cold"]
  /\ tracker' = NoPid
  /\ lastUsed' = "fresh"
  /\ request' = "spawned"
  /\ UNCHANGED <<holder, config, coordVars>>

LaunchFails(t) ==
  /\ holder = t /\ request = "launching"
  /\ MarkStopped
  /\ Unlock
  /\ UNCHANGED <<config, worker, proc, coordVars>>

Track(t, kind) ==
  /\ holder = t /\ request = "spawned"
  /\ tracker' = worker.pid
  /\ request' = Hello(kind)
  /\ UNCHANGED <<holder, supVars, proc, coordVars>>

HandshakeOk(t) ==
  /\ holder = t
  /\ \E kind \in Kinds : request = Hello(kind) /\ request' = kind
  /\ Running(worker.pid)
  /\ UNCHANGED <<holder, supVars, osVars, coordVars>>

\* The child died or answered something else: it is killed.
HandshakeFails(t) ==
  /\ holder = t
  /\ request \in {"hello-warm", "hello-infer"}
  /\ Reaps(t)
  /\ UNCHANGED <<config, coordVars>>

Primed(p) == proc' = [proc EXCEPT ![p] = "primed"]

WarmUpDone(t) ==
  /\ holder = t /\ request = "warm"
  /\ Running(worker.pid)
  /\ Primed(worker.pid)
  /\ worker' = [worker EXCEPT !.ready = TRUE]
  /\ lastUsed' = "fresh"
  /\ Unlock
  /\ UNCHANGED <<config, tracker, coordVars>>

\* A read error during warm-up keeps the handle and the tracked PID of the dead
\* child; the next ensure_worker or shutdown_now reaps it.
WarmUpFails(t) ==
  /\ holder = t /\ request = "warm"
  /\ ~Running(worker.pid)
  /\ Unlock
  /\ UNCHANGED <<supVars, osVars, coordVars>>

\* A Transcript frame: the engine is primed.
Transcribed(t) ==
  /\ holder = t /\ request = "infer"
  /\ Running(worker.pid)
  /\ Primed(worker.pid)
  /\ worker' = [worker EXCEPT !.ready = TRUE]
  /\ lastUsed' = "fresh"
  /\ Unlock
  /\ UNCHANGED <<config, tracker, coordVars>>

\* An Error frame: the child stays, whether or not its engine was loaded.
EngineError(t) ==
  /\ holder = t /\ request = "infer"
  /\ Running(worker.pid)
  /\ Primed(worker.pid) \/ UNCHANGED proc
  /\ lastUsed' = "fresh"
  /\ Unlock
  /\ UNCHANGED <<config, worker, tracker, coordVars>>

\* The exchange broke: discard_crashed_worker.
WorkerDied(t) ==
  /\ holder = t /\ request = "infer"
  /\ ~Running(worker.pid)
  /\ Reaps(t)
  /\ UNCHANGED <<config, coordVars>>

\* The thread whose exchange failed marks the worker as stopped and returns.
Ends(t) == Marks(t) /\ UNCHANGED coordVars

-----------------------------------------------------------------------------
(* Short critical sections; shutdown_now makes two steps of them *)

\* update_runtime_config: the model in use is kept.
UpdateRuntimeConfig(prefs) ==
  /\ MutexFree
  /\ config' = [config EXCEPT !.prefs = prefs]
  /\ IF config' # config THEN Reaps(Caretaker) ELSE UNCHANGED <<lockVars, worker, lastUsed, osVars>>
  /\ UNCHANGED coordVars

\* shutdown_if_idle
ShutdownIfIdle(busy) ==
  /\ MutexFree
  /\ IF ~busy /\ lastUsed = "expired"
     THEN Reaps(Caretaker)
     ELSE /\ lastUsed' = IF busy /\ lastUsed # "stopped" THEN "fresh" ELSE lastUsed
          /\ UNCHANGED <<lockVars, worker, osVars>>
  /\ UNCHANGED <<config, coordVars>>

CaretakerEnds == Marks(Caretaker) /\ UNCHANGED coordVars

-----------------------------------------------------------------------------
(* shutdown_shared_if_current(is_current): a thread that takes the mutex and a
   caller that waits for it, kills the tracked PID after a timeout, and waits
   once more *)

IsCurrent(k) == k \notin obsolete

\* The process table once this PID has been killed.
Killed(pid) == [p \in Pids |-> IF p = pid /\ Running(p) THEN "zombie" ELSE proc[p]]

\* is_current() never becomes true again: it compares with a growing counter.
StartShutdown(k) ==
  /\ inner[k] = "idle"
  /\ inner' = [inner EXCEPT ![k] = "queued"]
  /\ outer' = [outer EXCEPT ![k] = "waiting"]
  /\ UNCHANGED <<lockVars, supVars, osVars, target>>

\* The thread checks is_current() under the mutex.
CoordinatorLocks(k) ==
  /\ inner[k] = "queued" /\ MutexFree
  /\ IF IsCurrent(k)
     THEN inner' = [inner EXCEPT ![k] = "stopping"] /\ holder' = k
     ELSE inner' = [inner EXCEPT ![k] = "done"] /\ UNCHANGED holder
  /\ UNCHANGED <<request, supVars, osVars, outer, target, obsolete>>

CoordinatorStops(k) ==
  /\ holder = k /\ request = "none"
  /\ Reaps(k)
  /\ UNCHANGED <<config, coordVars>>

CoordinatorEnds(k) ==
  /\ Marks(k)
  /\ inner' = [inner EXCEPT ![k] = "done"]
  /\ UNCHANGED <<outer, target, obsolete>>

CallerReturns(k) ==
  /\ outer[k] \in {"waiting", "recovering"} /\ inner[k] = "done"
  /\ outer' = [outer EXCEPT ![k] = "ok"]
  /\ UNCHANGED <<lockVars, supVars, osVars, inner, target, obsolete>>

\* grace + SHARED_SHUTDOWN_OVERHEAD passed.
CallerTimesOut(k) ==
  /\ outer[k] = "waiting" /\ inner[k] # "done"
  /\ outer' = [outer EXCEPT ![k] = IF IsCurrent(k) THEN "timedout" ELSE "ok"]
  /\ UNCHANGED <<lockVars, supVars, osVars, inner, target, obsolete>>

CallerReadsPid(k) ==
  /\ outer[k] = "timedout"
  /\ outer' = [outer EXCEPT ![k] = IF tracker = NoPid THEN "err" ELSE "killing"]
  /\ target' = [target EXCEPT ![k] = tracker]
  /\ UNCHANGED <<lockVars, supVars, osVars, inner, obsolete>>

\* force_terminate_pid: a PID that is the child's no more has no process, so the kill
\* fails, or by now somebody else's.
CallerKills(k) ==
  /\ outer[k] = "killing"
  /\ \/ outer' = [outer EXCEPT ![k] = "recovering"]
     \/ proc[target[k]] = "free" /\ outer' = [outer EXCEPT ![k] = "err"]
  /\ proc' = Killed(target[k])
  /\ target' = [target EXCEPT ![k] = NoPid]
  /\ UNCHANGED <<lockVars, supVars, tracker, inner, obsolete>>

\* SHARED_SHUTDOWN_RECOVERY passed.
CallerGivesUp(k) ==
  /\ outer[k] = "recovering" /\ inner[k] # "done"
  /\ outer' = [outer EXCEPT ![k] = "err"]
  /\ UNCHANGED <<lockVars, supVars, osVars, inner, target, obsolete>>

-----------------------------------------------------------------------------
RequestStep(t) ==
  \/ Lock(t)
  \/ \E kind \in Kinds, next \in Config : Reuse(t, kind, next)
  \/ \E next \in Config : Recycle(t, next)
  \/ Launch(t) \/ LaunchFails(t)
  \/ \E kind \in Kinds : Track(t, kind)
  \/ HandshakeOk(t) \/ HandshakeFails(t)
  \/ WarmUpDone(t) \/ WarmUpFails(t)
  \/ Transcribed(t) \/ EngineError(t) \/ WorkerDied(t) \/ Ends(t)

CoordinatorStep(k) ==
  \/ CoordinatorLocks(k) \/ CoordinatorStops(k) \/ CoordinatorEnds(k)
  \/ CallerReturns(k) \/ CallerTimesOut(k) \/ CallerReadsPid(k)
  \/ CallerKills(k) \/ CallerGivesUp(k)

\* Some coordinators' is_current() turns false, perhaps as a new one starts.
Obsoletes ==
  /\ obsolete' \in {K \in SUBSET Coordinators : obsolete \subseteq K}
  /\ \/ \E k \in Coordinators : StartShutdown(k)
     \/ UNCHANGED <<lockVars, supVars, osVars, inner, outer, target>>

Next ==
  \/ \E t \in Threads : RequestStep(t)
  \/ \E k \in Coordinators : CoordinatorStep(k)
  \/ \E p \in Pids : ChildExits(p)
  \/ \E prefs \in Prefs : UpdateRuntimeConfig(prefs)
  \/ \E busy \in BOOLEAN : ShutdownIfIdle(busy)
  \/ CaretakerEnds
  \/ Expires
  \/ Obsoletes

Spec == Init /\ [][Next]_vars

(* The threads run; a blocked read returns once the child is dead.  Nothing says
   that a living child ever answers. *)
Fairness ==
  /\ \A k \in Coordinators :
       /\ WF_vars(CoordinatorStops(k) \/ CoordinatorEnds(k))
       /\ WF_vars(CallerReturns(k) \/ CallerTimesOut(k) \/ CallerReadsPid(k)
                  \/ CallerKills(k) \/ CallerGivesUp(k))
  /\ \A t \in Threads :
       /\ WF_vars(WarmUpFails(t))
       /\ WF_vars(WorkerDied(t))
       /\ WF_vars(HandshakeFails(t) /\ ~Running(worker.pid))
       /\ WF_vars(Ends(t))
  /\ WF_vars(CaretakerEnds)

FairSpec == Spec /\ Fairness

-----------------------------------------------------------------------------
(* Properties *)

\* Whatever is in the process table is the child of the handle, so no second child is
\* ever left running (ensure_worker, shutdown_now, discard_crashed_worker).  While a
\* request is in flight, and while nobody has the mutex, the tracker names exactly that
\* child, so a supervisor blocked in a request can be freed by killing the tracked PID.
\* Between reaping and mark_stopped, and between spawning and storing, it does not.
Settled == InFlight \/ holder = Free
ChildIsTracked ==
  /\ \A p \in Pids : proc[p] # "free" => worker.pid = p
  /\ Settled => tracker = worker.pid /\ (tracker # NoPid => proc[tracker] # "free")

\* A request is only ever in flight with the child that was started with the
\* configuration its thread installed, never with one left by another thread.
RequestMatchesConfig ==
  InFlight => worker # NoWorker /\ worker.config = config

\* "Readiness is scoped to the child, so replacement, idle exit, and crashes
\* reset it": a running child the supervisor calls ready has its engine primed.
ReadyIsPrimed ==
  worker.ready /\ Running(worker.pid) => proc[worker.pid] = "primed"

\* The mutex protects the exchange and the replacement of the child: only a thread
\* that sends a request is in one, and a coordinator that stops the worker, or has
\* reaped it, is the holder.
MutexRespected ==
  /\ request \notin {"none", "ending"} => holder \in Threads
  /\ request = "ending" => holder # Free
  /\ \A k \in Coordinators : inner[k] = "stopping" <=> holder = k

\* What makes the above inductive.
Stops == request \in {"launching", "ending"}
Consistent ==
  /\ worker # NoWorker => worker.config = config /\ proc[worker.pid] # "free"
  /\ Stops => worker = NoWorker
  /\ request = "spawned" => worker # NoWorker
  /\ holder = Caretaker => request = "ending"
  /\ ~Stops => (lastUsed = "stopped" <=> worker = NoWorker)
  /\ ~Stops => tracker = IF request = "spawned" THEN NoPid ELSE worker.pid

IInv == TypeOK /\ ChildIsTracked /\ RequestMatchesConfig /\ ReadyIsPrimed
        /\ MutexRespected /\ Consistent

\* update_runtime_config, the idle check and the coordinators cut a child off only
\* between requests: while one is in flight only its own thread changes the handle,
\* and the request is over with that.
RequestOwnsWorker ==
  [][InFlight /\ worker' # worker => ~InFlight' /\ holder' \in {holder, Free}]_vars

\* "Terminate only the tracked disposable child PID."  The code does not hold this: the
\* PID may have been reaped when it is read, or between reading and killing it.
KillsOnlyChild ==
  [][\A k \in Coordinators : outer[k] = "killing" /\ outer'[k] # "killing"
       => proc[target[k]] # "free"]_vars

\* A shutdown that is still wanted breaks a hung request even though the child
\* never answers: the caller's timeout kills the tracked PID.  (A caller that times out
\* while the child is spawned but not yet tracked gives up instead.)
HungRequestIsBroken ==
  \A k \in Coordinators :
    (InFlight /\ inner[k] = "queued" /\ outer[k] = "waiting" /\ k \notin obsolete)
      ~> (~InFlight \/ k \in obsolete)

\* shutdown_shared always returns, whatever the child and the mutex do.
ShutdownReturns ==
  \A k \in Coordinators : outer[k] = "waiting" ~> outer[k] \in {"ok", "err"}
=============================================================================
