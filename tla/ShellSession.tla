---------------------------- MODULE ShellSession ----------------------------
(* The Linux shell: threads of the daemon and one-shot command-line         *)
(* processes that toggle, stop, cancel, retry and shut down dictation        *)
(* against one capture service.  They share two files, the session           *)
(* (recording?, generation) and the last event sequence number they saw, a   *)
(* lock file for the clipboard and, inside the daemon only, a mutex.         *)
(*                                                                          *)
(* A request is sent, executed by the service's main loop and answered; the *)
(* thread may lose patience in between, and the request is executed all the *)
(* same.  Transcripts travel back as numbered events that a stopped          *)
(* recording's thread polls for.  The capture service is the part of         *)
(* CaptureService a shell can observe: which session records, which are      *)
(* being worked on, which await their delivery, and the event buffer.        *)
EXTENDS Integers, FiniteSets, Sequences

CONSTANTS
  Threads,       \* whoever runs a shell command
  Daemon,        \* those that are threads of the daemon and share its mutex
  Nobody,        \* the holder of a free lock
  MaxOps,        \* bound: commands the users give
  MaxTimeouts,   \* bound: requests a thread gives up on
  MaxNoise,      \* bound: events of no interest to a shell (downloads, models)
  MaxLives,      \* bound: times the daemon is started
  HistoryLimit,  \* EVENT_HISTORY_LIMIT
  Commands       \* the commands users give in this instance

ASSUME DaemonAssumption == Daemon \subseteq Threads
ASSUME NobodyAssumption == Nobody \notin Threads
ASSUME CommandsAssumption == Commands \subseteq {"toggle", "cancel", "retry", "shutdown"}
ASSUME BoundAssumption ==
  /\ MaxOps \in Nat /\ MaxTimeouts \in Nat /\ MaxNoise \in Nat
  /\ MaxLives \in Nat \ {0} /\ HistoryLimit \in Nat \ {0}

VARIABLES
  session,       \* the session file: [recording, id]
  seqFile,       \* the event sequence file
  now,           \* the clock that session identifiers are taken from
  \* the capture service
  up, active, transcribing, delivering, last, nextSeq, items,
  orphans,       \* requests whose sender gave up before they were executed
  \* the shell's threads and processes
  daemonUp, pc, op, sess, text, after, old, lock, clipLock,
  clip,          \* whose text the clipboard holds; 0: something of the user's
  inserted,      \* what reached an application: a sequence of [text, session]
  floor,         \* history: what has ended, ended the generations below it for good
  ops, timeouts, noise, lives

service == <<up, active, transcribing, delivering, last, nextSeq, items, orphans>>
thread == <<pc, op, sess, text, after, old, lock>>
budget == <<ops, timeouts, noise, lives>>
vars == <<session, seqFile, now, service, daemonUp, thread, clipLock, clip,
          inserted, floor, budget>>

State(recording, id) == [recording |-> recording, id |-> id]

(* A mutant of Current. *)
IsIdle(s) == ~session.recording

(* delivery_session_is_current *)
Current(s) == ~session.recording /\ session.id = s

(* next_session_id: max(current + 1, milliseconds since the epoch).  Two     *)
(* identifiers are never taken within the same millisecond.                  *)
NextId(current) == IF current + 1 > now THEN current + 1 ELSE now

(* DICTATION_ACTION_LOCK is a static of the daemon's process: a command-line *)
(* process has one of its own that nobody contends for.                      *)
CanLock(t) == t \in Daemon => lock = Nobody /\ daemonUp
Locked(t) == IF t \in Daemon THEN t ELSE lock
Unlocked(t) == IF t \in Daemon THEN Nobody ELSE lock

-----------------------------------------------------------------------------
(* The capture service. *)

(* EventBuffer::push of a list of [kind, session] *)
Numbered(events) ==
  [i \in 1..Len(events) |-> [seq |-> nextSeq + i, kind |-> events[i].kind, session |-> events[i].session]]
Untrimmed(q) == q  \* a mutant of Trimmed
Trimmed(q) ==
  IF Len(q) > HistoryLimit THEN SubSeq(q, Len(q) - HistoryLimit + 1, Len(q)) ELSE q
Push(events) ==
  /\ nextSeq' = nextSeq + Len(events)
  /\ items' = Trimmed(items \o Numbered(events))
Event(kind, s) == [kind |-> kind, session |-> s]

(* The terminal notices of a superseding start, one per session it displaces. *)
Superseded == (transcribing \cup delivering \cup {active}) \ {0}
Ordered(S) == CHOOSE q \in [1..Cardinality(S) -> S] : \A i, j \in DOMAIN q : i < j => q[i] < q[j]
TerminalNotices(S) == [i \in 1..Cardinality(S) |-> Event("terminal", Ordered(S)[i])]

(* StartRecording.  It supersedes older work before it can be refused (no    *)
(* microphone, no worker) or skipped (no model for the keyboard's language). *)
StartRecording(s, outcome) ==
  /\ transcribing' = {} /\ delivering' = {}
  /\ active' = IF outcome = "started" THEN s ELSE 0
  /\ Push(TerminalNotices(Superseded) \o
          (IF outcome = "started" THEN <<Event("other", s)>> ELSE <<>>))
  /\ UNCHANGED <<up, last>>

(* StopRecording: of another session than the active one it is refused; a    *)
(* recording too short, or whose model file is gone, ends at once.           *)
StopRecording(s, outcome) ==
  IF outcome = "refused"
  THEN active # s /\ UNCHANGED <<up, active, transcribing, delivering, last, nextSeq, items>>
  ELSE /\ active = s /\ active' = 0
       /\ transcribing' = IF outcome = "queued" THEN transcribing \cup {s} ELSE transcribing
       /\ Push(<<Event(IF outcome = "queued" THEN "other" ELSE "terminal", s)>>)
       /\ UNCHANGED <<up, delivering, last>>

CancelAll ==
  /\ active' = 0 /\ transcribing' = {} /\ delivering' = {}
  /\ Push(<<Event("other", 0)>>)
  /\ UNCHANGED <<up, last>>

(* RememberDelivery: only a session that awaits its delivery may, and an     *)
(* older one never replaces the text of a newer one.                         *)
Pending(s) == s \in delivering
RememberDelivery(s) ==
  /\ last' = IF s >= last THEN s ELSE last
  /\ UNCHANGED <<up, active, transcribing, delivering, nextSeq, items, orphans>>

DeliveryComplete(s) ==
  /\ delivering' = delivering \ {s}
  /\ UNCHANGED <<up, active, transcribing, last, nextSeq, items, orphans>>

(* A dictation leaves the transcription and cleanup threads. *)
Transcribes(s) ==
  /\ s \in transcribing
  /\ transcribing' = transcribing \ {s}
  /\ \/ delivering' = delivering \cup {s} /\ Push(<<Event("transcript", s)>>)
     \/ UNCHANGED delivering /\ Push(<<Event("terminal", s)>>)
  /\ UNCHANGED <<up, active, last, orphans, session, seqFile, now, daemonUp, thread,
                 clipLock, clip, inserted, floor, budget>>

(* Progress of downloads and models. *)
Progress ==
  /\ up /\ noise < MaxNoise /\ noise' = noise + 1
  /\ Push(<<Event("other", 0)>>)
  /\ UNCHANGED <<up, active, transcribing, delivering, last, orphans, session, seqFile, now,
                 daemonUp, thread, clipLock, clip, inserted, floor, ops, timeouts, lives>>

(* A request whose sender has given up is executed without anybody to answer. *)
OrphanRuns(r) ==
  /\ up /\ r \in orphans /\ orphans' = orphans \ {r}
  /\ \/ r.command = "start" /\ \E o \in {"started", "refused", "skipped"} : StartRecording(r.session, o)
     \/ r.command = "stop" /\ \E o \in {"queued", "ended", "refused"} : StopRecording(r.session, o)
     \/ r.command = "cancel" /\ CancelAll
  /\ UNCHANGED <<session, seqFile, now, daemonUp, thread, clipLock, clip, inserted, floor, budget>>

(* What the service loses when it stops, for whatever reason. *)
Stopped ==
  /\ up' = FALSE /\ active' = 0 /\ transcribing' = {} /\ delivering' = {}
  /\ last' = 0 /\ nextSeq' = 0 /\ items' = <<>> /\ orphans' = {}

ServiceDies ==
  /\ up /\ lives < MaxLives
  /\ Stopped
  /\ UNCHANGED <<session, seqFile, now, daemonUp, thread, clipLock, clip, inserted, floor, budget>>

-----------------------------------------------------------------------------
(* Commands.  All but a shutdown begin with a request that changes nothing and *)
(* fails when the service is down (ping, or the last delivery's text).         *)

UnchangedService == UNCHANGED service
Elsewhere == UNCHANGED <<daemonUp, noise, lives>>
NotDelivering == UNCHANGED <<clipLock, clip, inserted>>
Goto(t, label) == pc' = [pc EXCEPT ![t] = label]

Begins(t, command) ==
  /\ pc[t] = "idle" /\ (up \/ command = "shutdown") /\ (t \in Daemon => daemonUp)
  /\ command \in Commands /\ ops < MaxOps /\ ops' = ops + 1
  /\ op' = [op EXCEPT ![t] = command]
  /\ UNCHANGED timeouts
  /\ UnchangedService /\ Elsewhere /\ NotDelivering

(* toggle_recording, and stop: the branch taken depends on the session file. *)
ToggleStops(t) ==
  /\ Begins(t, "toggle") /\ CanLock(t) /\ session.recording
  /\ lock' = Locked(t)
  /\ sess' = [sess EXCEPT ![t] = session.id]
  /\ after' = [after EXCEPT ![t] = seqFile]
  /\ Goto(t, "stopping")
  /\ UNCHANGED <<session, seqFile, now, text, old, floor>>

ToggleStarts(t) ==
  /\ Begins(t, "toggle") /\ CanLock(t) /\ ~session.recording
  /\ lock' = Locked(t)
  /\ old' = [old EXCEPT ![t] = session]
  /\ sess' = [sess EXCEPT ![t] = NextId(session.id)]
  /\ now' = NextId(session.id) + 1
  /\ Goto(t, "publishing")
  /\ UNCHANGED <<session, seqFile, text, after, floor>>

(* The new generation is in the file before the request is sent. *)
PublishesSession(t) ==
  /\ pc[t] = "publishing"
  /\ session' = State(TRUE, sess[t])
  /\ Goto(t, "starting")
  /\ UNCHANGED <<seqFile, now, op, sess, text, after, old, lock, floor, ops, timeouts>>
  /\ UnchangedService /\ Elsewhere /\ NotDelivering

ServiceStarts(t) ==
  /\ pc[t] = "starting" /\ up
  /\ \E outcome \in {"started", "refused", "skipped"} :
       StartRecording(sess[t], outcome) /\ Goto(t, outcome)
  /\ UNCHANGED <<orphans, session, seqFile, now, op, sess, text, after, old, lock, floor, ops, timeouts>>
  /\ Elsewhere /\ NotDelivering

(* A mutant of StartEnds: it leaves the new generation in the file. *)
StartEndsForward(t) ==
  /\ pc[t] \in {"started", "refused", "skipped"}
  /\ floor' = IF pc[t] = "started" /\ sess[t] > floor THEN sess[t] ELSE floor
  /\ lock' = Unlocked(t)
  /\ Goto(t, "idle")
  /\ UNCHANGED <<session, seqFile, now, op, sess, text, after, old, ops, timeouts>>
  /\ UnchangedService /\ Elsewhere /\ NotDelivering

StartEnds(t) ==
  /\ pc[t] \in {"started", "refused", "skipped"}
  /\ session' = CASE pc[t] = "started" -> session
                  [] pc[t] = "refused" -> old[t]
                  [] OTHER -> State(FALSE, sess[t])
  /\ floor' = IF pc[t] = "started" /\ sess[t] > floor THEN sess[t] ELSE floor
  /\ lock' = Unlocked(t)
  /\ Goto(t, "idle")
  /\ UNCHANGED <<seqFile, now, op, sess, text, after, old, ops, timeouts>>
  /\ UnchangedService /\ Elsewhere /\ NotDelivering

ServiceStops(t) ==
  /\ pc[t] = "stopping" /\ up
  /\ \E outcome \in {"queued", "ended", "refused"} :
       /\ StopRecording(sess[t], outcome)
       /\ IF outcome = "refused"
          THEN Goto(t, "idle") /\ lock' = Unlocked(t)
          ELSE Goto(t, "stopped") /\ UNCHANGED lock
  /\ UNCHANGED <<orphans, session, seqFile, now, op, sess, text, after, old, floor, ops, timeouts>>
  /\ Elsewhere /\ NotDelivering

(* request_stop_recording, after the answer *)
StopEnds(t) ==
  /\ pc[t] = "stopped"
  /\ session' = State(FALSE, sess[t])
  /\ seqFile' = after[t]
  /\ lock' = Unlocked(t)
  /\ Goto(t, "waiting")
  /\ UNCHANGED <<now, op, sess, text, after, old, floor, ops, timeouts>>
  /\ UnchangedService /\ Elsewhere /\ NotDelivering

(* invalidate_delivery_session reads the file and writes the next generation: *)
(* first thing of a cancel and of a shutdown, and of a retry that found a     *)
(* text.  A shutdown does not take the mutex: a toggle half-way may write an  *)
(* older generation over its own, so that it has ended nothing for good.      *)
Toggling == {"publishing", "starting", "started", "refused", "skipped", "stopping", "stopped"}
ToggleHalfWay == \E u \in Threads : pc[u] \in Toggling
EndsForGood(t) == op[t] = "shutdown" => ~ToggleHalfWay

CancelBegins(t) ==
  /\ Begins(t, "cancel") /\ CanLock(t)
  /\ lock' = Locked(t)
  /\ old' = [old EXCEPT ![t] = session]
  /\ Goto(t, "invalidating")
  /\ UNCHANGED <<session, seqFile, now, sess, text, after, floor>>

ShutdownBegins(t) ==
  /\ Begins(t, "shutdown")
  /\ old' = [old EXCEPT ![t] = session]
  /\ Goto(t, "invalidating")
  /\ UNCHANGED <<session, seqFile, now, sess, text, after, lock, floor>>

RetryBegins(t) ==
  /\ Begins(t, "retry") /\ CanLock(t) /\ last # 0
  /\ lock' = Locked(t)
  /\ text' = [text EXCEPT ![t] = last]
  /\ Goto(t, "releasing")
  /\ UNCHANGED <<session, seqFile, now, sess, after, old, floor>>

(* wait_retry_modifiers, which may end the retry after 5 s *)
ModifiersReleased(t) ==
  /\ pc[t] = "releasing"
  /\ \/ /\ old' = [old EXCEPT ![t] = session]
        /\ Goto(t, "invalidating") /\ UNCHANGED lock
     \/ lock' = Unlocked(t) /\ Goto(t, "idle") /\ UNCHANGED old
  /\ UNCHANGED <<session, seqFile, now, op, sess, text, after, floor, ops, timeouts>>
  /\ UnchangedService /\ Elsewhere /\ NotDelivering

Invalidates(t) ==
  /\ pc[t] = "invalidating"
  /\ session' = State(FALSE, NextId(old[t].id))
  /\ now' = NextId(old[t].id) + 1
  /\ floor' = IF EndsForGood(t) /\ session'.id > floor THEN session'.id ELSE floor
  /\ Goto(t, "cancelling")
  /\ UNCHANGED <<seqFile, op, sess, text, after, old, lock, ops, timeouts>>
  /\ UnchangedService /\ Elsewhere /\ NotDelivering

(* A retry goes on with the session it has just written. *)
AfterCancel(t) ==
  IF op[t] = "retry"
  THEN Goto(t, "delivering") /\ sess' = [sess EXCEPT ![t] = session.id]
  ELSE Goto(t, "idle") /\ UNCHANGED sess

ServiceCancels(t) ==
  /\ pc[t] = "cancelling" /\ up
  /\ IF op[t] = "shutdown"
     THEN Stopped /\ Goto(t, "idle") /\ UNCHANGED <<sess, lock>>
     ELSE CancelAll /\ AfterCancel(t) /\ lock' = Unlocked(t) /\ UNCHANGED orphans
  /\ UNCHANGED <<session, seqFile, now, op, text, after, old, floor, ops, timeouts>>
  /\ Elsewhere /\ NotDelivering

(* The service is gone, or does not answer within 30 s (ipc_server.rs); in    *)
(* the second case it executes the request when it gets to it.  A failed      *)
(* start restores the file, a failed stop leaves it, a cancel does not care.  *)
Fails(t) ==
  /\ IF pc[t] = "starting" THEN Goto(t, "refused") /\ UNCHANGED lock
     ELSE Goto(t, "idle") /\ lock' = IF op[t] = "shutdown" THEN lock ELSE Unlocked(t)
  /\ UNCHANGED <<session, seqFile, now, op, sess, text, after, old, floor, ops>>
  /\ Elsewhere /\ NotDelivering

Requesting(t) == pc[t] \in {"starting", "stopping", "cancelling"}
RequestFails(t) == Requesting(t) /\ ~up /\ Fails(t) /\ UNCHANGED timeouts /\ UnchangedService

Request(t) ==
  [command |-> CASE pc[t] = "starting" -> "start" [] pc[t] = "stopping" -> "stop" [] OTHER -> "cancel",
   session |-> sess[t]]
RequestTimesOut(t) ==
  /\ Requesting(t) /\ up /\ op[t] # "shutdown"
  /\ timeouts < MaxTimeouts /\ timeouts' = timeouts + 1
  /\ orphans' = orphans \cup {Request(t)}
  /\ Fails(t)
  /\ UNCHANGED <<up, active, transcribing, delivering, last, nextSeq, items>>

-----------------------------------------------------------------------------
(* wait_for_transcript: polls after its own sequence number, and writes it    *)
(* to the shared file.  A service whose last number is lower is a new one.    *)
Fresh(t) == {i \in DOMAIN items : items[i].seq > after[t]}
Outcomes(t) == {i \in Fresh(t) : items[i].session = sess[t] /\ items[i].kind # "other"}
First(S) == CHOOSE i \in S : \A j \in S : i <= j
(* A mutant of LastSeen. *)
SkipsOne(t) == IF Fresh(t) = {} THEN after[t] ELSE items[Len(items)].seq + 1
(* max_event_seq: the newest event has the largest number. *)
LastSeen(t) == IF Fresh(t) = {} THEN after[t] ELSE items[Len(items)].seq
Restarted(t) == nextSeq < after[t]

Polls(t) ==
  /\ pc[t] = "waiting" /\ up
  /\ after' = [after EXCEPT ![t] = IF Restarted(t) THEN 0 ELSE LastSeen(t)]
  /\ seqFile' = after'[t]
  /\ IF Restarted(t) \/ Outcomes(t) = {} THEN UNCHANGED pc
     ELSE Goto(t, IF items[First(Outcomes(t))].kind = "transcript" THEN "transcript" ELSE "idle")
  /\ UNCHANGED <<session, now, op, sess, text, old, lock, floor, ops, timeouts>>
  /\ UnchangedService /\ Elsewhere /\ NotDelivering

(* The deadline (90 s), or a service that cannot be reached. *)
WaitEnds(t) ==
  /\ pc[t] = "waiting" /\ Goto(t, "idle")
  /\ UNCHANGED <<session, seqFile, now, op, sess, text, after, old, lock, floor, ops, timeouts>>
  /\ UnchangedService /\ Elsewhere /\ NotDelivering

(* finish_stop_recording: checks the session, remembers the text for a retry *)
(* and delivers it.                                                          *)
Delivers(t) == UNCHANGED <<session, seqFile, now, op, sess, after, old, lock, floor, ops, timeouts>> /\ Elsewhere

ChecksTranscript(t) ==
  /\ pc[t] = "transcript"
  /\ Goto(t, IF Current(sess[t]) THEN "remembering" ELSE "completing")
  /\ UNCHANGED text
  /\ Delivers(t) /\ UnchangedService /\ NotDelivering

Remembers(t) ==
  /\ pc[t] = "remembering"
  /\ IF up /\ Pending(sess[t])
     THEN RememberDelivery(sess[t]) /\ Goto(t, "delivering") /\ text' = [text EXCEPT ![t] = sess[t]]
     ELSE UnchangedService /\ Goto(t, "completing") /\ UNCHANGED text
  /\ Delivers(t) /\ NotDelivering

(* A retry is not a session of the service: nobody waits for its completion. *)
Finish(t) == Goto(t, IF op[t] = "retry" THEN "idle" ELSE "completing")

(* deliver_text, after wait_record_release: the mode depends on the           *)
(* configuration and the focused application.                                 *)
ChoosesMode(t) ==
  /\ pc[t] = "delivering"
  /\ IF Current(sess[t]) THEN \E mode \in {"typing", "copying", "pasting"} : Goto(t, mode)
     ELSE Finish(t)
  /\ UNCHANGED text /\ Delivers(t) /\ UnchangedService /\ NotDelivering

(* Typing looks at the session no more.  Where it fails the text is copied,   *)
(* or, to preserve the clipboard, kept for a retry.                           *)
Types(t) ==
  /\ pc[t] = "typing"
  /\ \/ inserted' = Append(inserted, [text |-> text[t], wanted |-> text[t], session |-> sess[t]]) /\ Finish(t)
     \/ Goto(t, "copying") /\ UNCHANGED inserted
     \/ Finish(t) /\ UNCHANGED inserted
  /\ UNCHANGED <<text, clipLock, clip>> /\ Delivers(t) /\ UnchangedService

(* acquire_clipboard_lock: a lock file, waited for at most 3 s *)
NoClipboardLock == TRUE  \* a mutant of ClipboardFree
ClipboardFree == clipLock = Nobody
LocksClipboard(t) ==
  /\ pc[t] \in {"copying", "pasting"}
  /\ \/ /\ Current(sess[t]) /\ ClipboardFree /\ clipLock' = t
        /\ Goto(t, IF pc[t] = "copying" THEN "publishing copy" ELSE "publishing paste")
     \/ (~Current(sess[t]) \/ ~ClipboardFree) /\ Finish(t) /\ UNCHANGED clipLock
  /\ UNCHANGED <<text, clip, inserted>> /\ Delivers(t) /\ UnchangedService

Releases(t) == clipLock' = Nobody /\ Finish(t)

(* ClipboardTools::publish, and the verification that the reader gets the     *)
(* text back.  A publication that is given up takes its owner with it.        *)
PublishesText(t) ==
  /\ pc[t] \in {"publishing copy", "publishing paste"}
  /\ IF Current(sess[t])
     THEN /\ clip' = text[t] /\ UNCHANGED clipLock
          /\ Goto(t, IF pc[t] = "publishing copy" THEN "verifying copy" ELSE "verifying paste")
     ELSE UNCHANGED clip /\ Releases(t)
  /\ UNCHANGED <<text, inserted>> /\ Delivers(t) /\ UnchangedService

Verifies(t) ==
  /\ pc[t] \in {"verifying copy", "verifying paste"}
  /\ IF Current(sess[t]) /\ clip = text[t]
     THEN /\ UNCHANGED clip
          /\ IF pc[t] = "verifying copy" THEN Releases(t) ELSE Goto(t, "sending") /\ UNCHANGED clipLock
     ELSE clip' = (IF clip = text[t] THEN 0 ELSE clip) /\ Releases(t)
  /\ UNCHANGED <<text, inserted>> /\ Delivers(t) /\ UnchangedService

(* The paste key: the application takes what the clipboard holds then. *)
SendsKey(t) ==
  /\ pc[t] = "sending"
  /\ inserted' \in {inserted, Append(inserted, [text |-> clip, wanted |-> text[t], session |-> sess[t]])}
  /\ Releases(t)
  /\ UNCHANGED <<text, clip>> /\ Delivers(t) /\ UnchangedService

Completes(t) ==
  /\ pc[t] = "completing"
  /\ IF up THEN DeliveryComplete(sess[t]) ELSE UnchangedService
  /\ Goto(t, "idle")
  /\ UNCHANGED text /\ Delivers(t) /\ NotDelivering

UserCopies ==
  /\ clip # 0 /\ clip' = 0
  /\ UNCHANGED <<session, seqFile, now, service, daemonUp, thread, clipLock, inserted, floor, budget>>

-----------------------------------------------------------------------------
(* The daemon waits for its child, invalidates the session and exits with all *)
(* its threads (cleanup_runtime_markers); the user, or systemd, starts it     *)
(* again.  The sequence file survives.                                        *)
DaemonExits ==
  /\ daemonUp /\ ~up
  /\ daemonUp' = FALSE
  /\ session' = State(FALSE, NextId(session.id))
  /\ now' = NextId(session.id) + 1
  /\ floor' = IF session'.id > floor THEN session'.id ELSE floor
  /\ pc' = [t \in Threads |-> IF t \in Daemon THEN "idle" ELSE pc[t]]
  /\ lock' = Nobody
  /\ clipLock' = IF clipLock \in Daemon THEN Nobody ELSE clipLock
  /\ UNCHANGED <<seqFile, service, op, sess, text, after, old, clip, inserted, budget>>

DaemonStarts ==
  /\ ~daemonUp /\ daemonUp' = TRUE
  /\ lives < MaxLives /\ lives' = lives + 1
  /\ up' = TRUE /\ nextSeq' = 1 /\ items' = <<[seq |-> 1, kind |-> "other", session |-> 0]>>
  /\ UNCHANGED <<active, transcribing, delivering, last, orphans, session, seqFile, now, thread,
                 clipLock, clip, inserted, floor, ops, timeouts, noise>>

Init ==
  /\ session = State(FALSE, 0) /\ seqFile = 0 /\ now = 1
  /\ up = TRUE /\ active = 0 /\ transcribing = {} /\ delivering = {} /\ last = 0
  /\ nextSeq = 1 /\ items = <<[seq |-> 1, kind |-> "other", session |-> 0]>> /\ orphans = {}
  /\ daemonUp = TRUE /\ pc = [t \in Threads |-> "idle"] /\ op = [t \in Threads |-> "toggle"]
  /\ sess = [t \in Threads |-> 0] /\ text = [t \in Threads |-> 0]
  /\ after = [t \in Threads |-> 0] /\ old = [t \in Threads |-> State(FALSE, 0)]
  /\ lock = Nobody /\ clipLock = Nobody /\ clip = 0 /\ inserted = <<>> /\ floor = 0
  /\ ops = 0 /\ timeouts = 0 /\ noise = 0 /\ lives = 1

Command(t) ==
  \/ ToggleStops(t) \/ ToggleStarts(t) \/ PublishesSession(t) \/ ServiceStarts(t) \/ StartEnds(t)
  \/ ServiceStops(t) \/ StopEnds(t)
  \/ CancelBegins(t) \/ ShutdownBegins(t) \/ RetryBegins(t) \/ ModifiersReleased(t)
  \/ Invalidates(t) \/ ServiceCancels(t) \/ RequestFails(t) \/ RequestTimesOut(t)

Delivery(t) ==
  \/ Polls(t) \/ WaitEnds(t) \/ ChecksTranscript(t) \/ Remembers(t) \/ ChoosesMode(t)
  \/ Types(t) \/ LocksClipboard(t) \/ PublishesText(t) \/ Verifies(t) \/ SendsKey(t) \/ Completes(t)

Environment ==
  \/ \E s \in transcribing : Transcribes(s)
  \/ Progress \/ (\E r \in orphans : OrphanRuns(r)) \/ ServiceDies
  \/ UserCopies \/ DaemonExits \/ DaemonStarts

Next == Environment \/ \E t \in Threads : Command(t) \/ Delivery(t)
Spec == Init /\ [][Next]_vars

-----------------------------------------------------------------------------
(* Properties. *)

Labels == {"idle", "publishing", "starting", "started", "refused", "skipped", "stopping", "stopped",
           "releasing", "invalidating", "cancelling", "waiting", "transcript", "remembering",
           "delivering", "typing", "copying", "pasting", "publishing copy", "publishing paste",
           "verifying copy", "verifying paste", "sending", "completing"}
Sessions == [recording : BOOLEAN, id : Nat]
Events == [seq : Nat, kind : {"transcript", "terminal", "other"}, session : Nat]
Insertions == [text : Nat, wanted : Nat, session : Nat]

(* Type correctness of the files, the service and the threads. *)
TypeOK ==
  /\ session \in Sessions /\ seqFile \in Nat /\ now \in Nat
  /\ up \in BOOLEAN /\ active \in Nat /\ transcribing \subseteq Nat /\ delivering \subseteq Nat
  /\ last \in Nat /\ nextSeq \in Nat /\ items \in Seq(Events) /\ Len(items) <= HistoryLimit
  /\ orphans \subseteq [command : {"start", "stop", "cancel"}, session : Nat]
  /\ daemonUp \in BOOLEAN /\ pc \in [Threads -> Labels]
  /\ op \in [Threads -> {"toggle", "cancel", "retry", "shutdown"}]
  /\ sess \in [Threads -> Nat] /\ text \in [Threads -> Nat] /\ after \in [Threads -> Nat]
  /\ old \in [Threads -> Sessions]
  /\ lock \in Daemon \cup {Nobody} /\ clipLock \in Threads \cup {Nobody} /\ clip \in Nat
  /\ inserted \in Seq(Insertions) /\ floor \in Nat
  /\ ops \in Nat /\ timeouts \in Nat /\ noise \in Nat /\ lives \in Nat

(* The shell checks the persisted generation before it delivers              *)
(* (finish_stop_recording, deliver_text, paste_text): once a cancel, a retry, *)
(* a newer recording, the end of the daemon, or a shutdown that met no toggle *)
(* half-way has moved the generation on, no older dictation gets as far as    *)
(* typing or sending the paste key.                                           *)
Acting == {"typing", "sending"}
Acts(t) == pc[t] \notin Acting /\ pc'[t] \in Acting
CancelledStaysCancelled == [][\A t \in Threads : Acts(t) => sess[t] >= floor]_vars

(* When no command is half-way, the session file tells the truth about the    *)
(* microphone: it says recording exactly when the service records that        *)
(* session.  (Unless the shell gave up on a request that was executed later.) *)
Settled ==
  /\ up /\ daemonUp /\ timeouts = 0
  /\ \A t \in Threads : pc[t] \in {"idle", "waiting", "transcript", "remembering", "delivering"} \cup Acting
MicrophoneIsKnown ==
  Settled => /\ session.recording => active = session.id
             /\ active # 0 => session = State(TRUE, active)

(* Two deliveries that paste at once would paste each other's text: what the  *)
(* paste key brings into an application is the delivery's own text, or what   *)
(* the user copied since the verification.                                    *)
NoForeignText == \A i \in DOMAIN inserted : inserted[i].text \in {0, inserted[i].wanted}

(* wait_for_transcript resumes after a number from a file that all shells     *)
(* write and other sessions' threads advance: as long as an outcome is in the *)
(* service's history, the thread that waits for it will find it.  Once the    *)
(* service has been restarted it may not: the file survives, and a new service *)
(* that has caught up with the number in it is taken for the old one.         *)
Visible(t) ==
  \A i \in DOMAIN items :
    items[i].session = sess[t] /\ items[i].kind # "other" => items[i].seq > after[t] \/ Restarted(t)
OutcomeIsVisible == lives = 1 => \A t \in Threads : pc[t] = "waiting" => Visible(t)

(* The same promise where commands are processes of their own, each with a    *)
(* mutex of its own: a stop writes the generation it read before a cancel     *)
(* moved it on, and the delivery that was cancelled goes ahead.               *)
CancelledNeverArrives == [][\A t \in Threads : Acts(t) => sess[t] >= floor]_vars

(* shutdown() moves the generation on to end the dictation it found, and then *)
(* asks the service to stop.  The code does not hold this: it takes no mutex, *)
(* a stop that is under way writes the generation it knows back over the new  *)
(* one, and the text is delivered before the service stops.                   *)
ShutdownEndsDictation ==
  [][\A t, u \in Threads :
       op[u] = "shutdown" /\ pc[u] = "cancelling" /\ Acts(t) => sess[t] > old[u].id]_vars

=============================================================================
