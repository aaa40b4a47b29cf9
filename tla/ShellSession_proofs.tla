------------------------- MODULE ShellSession_proofs -------------------------
(* Safety of the shell's commands, for any number of threads, processes,     *)
(* commands, time-outs and restarts.                                         *)
(*                                                                           *)
(* The clipboard lock (ClipboardOwned): only the thread that holds it puts a *)
(* text on the clipboard, so the paste key brings no other delivery's text.  *)
(*                                                                           *)
(* The action mutex together with the clock (MutexHeld, GenerationsGrow):    *)
(* generations only grow, although a shutdown writes one without the mutex,  *)
(* so nothing cancelled is delivered.  That needs every command to be a      *)
(* thread of the daemon: for separate processes it is false.                 *)
(*                                                                           *)
(* The event buffer (Consecutive): it is numbered without a gap, so that the *)
(* last event names the number a poll has reached.                           *)
(*                                                                           *)
(* What a waiting thread expects (OutcomeInv): a start is of a session the   *)
(* service knows nothing of, so an outcome with its number comes after the   *)
(* thread looked.                                                            *)
(*                                                                           *)
(* What a thread half-way has done (MicInv): between two of its steps the    *)
(* session file and the microphone differ only by what the thread in the     *)
(* mutex is about to repair, or because the service is being shut down.      *)
EXTENDS ShellSession, FiniteSetTheorems, SequenceTheorems, WellFoundedInduction, TLAPS

Exclusive == Toggling \cup {"releasing", "invalidating", "cancelling"}
ClipLabels ==
  {"publishing copy", "publishing paste", "verifying copy", "verifying paste", "sending"}
Operations == {"toggle", "cancel", "retry", "shutdown"}

ShellTypes ==
  /\ session \in Sessions /\ now \in Nat /\ last \in Nat /\ floor \in Nat
  /\ pc \in [Threads -> Labels] /\ op \in [Threads -> Operations]
  /\ sess \in [Threads -> Nat] /\ text \in [Threads -> Nat] /\ old \in [Threads -> Sessions]
DeliveryTypes ==
  /\ clipLock \in Threads \cup {Nobody} /\ clip \in Nat
  /\ inserted \in Seq(Insertions)

\* The thread that holds the lock file is the one between taking and releasing
\* it, and by the time it sends the key only the user can have copied.
ClipboardOwned ==
  /\ \A t \in Threads : pc[t] \in ClipLabels <=> clipLock = t
  /\ \A t \in Threads : pc[t] = "sending" => clip \in {0, text[t]}

ClipInv == ShellTypes /\ DeliveryTypes /\ ClipboardOwned /\ NoForeignText

\* Only a shutdown works without the mutex.
MutexHeld ==
  /\ \A t \in Threads : pc[t] \in Toggling => op[t] = "toggle"
  /\ \A t \in Threads : pc[t] = "releasing" => op[t] = "retry"
  /\ \A t \in Threads : pc[t] \in Exclusive /\ op[t] # "shutdown" => lock = t

\* Every identifier in the file or in use is older than the clock and no older
\* than what was cancelled.
GenerationsGrow ==
  /\ floor <= session.id /\ session.id < now
  /\ \A t \in Threads : pc[t] \in Toggling => floor <= sess[t] /\ sess[t] < now
  /\ \A t \in Threads : pc[t] \in Toggling \ {"stopping", "stopped"} =>
       floor <= old[t].id /\ old[t].id < now
  /\ \A t \in Threads : pc[t] \in {"starting", "started"} => sess[t] <= session.id

OneDaemon == Daemon = Threads
GenInv == OneDaemon /\ ShellTypes /\ MutexHeld /\ GenerationsGrow

\* The sets a superseding start orders are finite, and the events the service
\* still remembers are the newest ones, numbered without a gap.
Finite == IsFiniteSet(transcribing) /\ IsFiniteSet(delivering)
Consecutive ==
  /\ Len(items) <= nextSeq
  /\ \A i \in DOMAIN items : items[i].seq = nextSeq - Len(items) + i
TypeInv == TypeOK /\ Finite /\ Consecutive

\* A service that is down has nothing.
Down ==
  ~up => active = 0 /\ transcribing = {} /\ delivering = {} /\ items = <<>> /\ orphans = {}

\* What the service has seen of a session, if only its outcome.
HasOutcome(s) == \E i \in DOMAIN items : items[i].session = s /\ items[i].kind # "other"
Known(s) == s = active \/ s \in transcribing \cup delivering \/ HasOutcome(s)
Open == active # 0 => active \notin transcribing \cup delivering /\ ~HasOutcome(active)

\* A start that has not been executed is of a session the service knows nothing of,
\* and no two are of the same.
New(s) == s # 0 /\ s < now /\ ~Known(s)
Starting(t) == pc[t] \in {"publishing", "starting"}
StartsAreNew ==
  /\ \A s \in Nat : Known(s) => s < now
  /\ \A t \in Threads : Starting(t) => New(sess[t])
  /\ \A r \in orphans : r.command = "start" => New(r.session)
  /\ \A t, u \in Threads : Starting(t) /\ Starting(u) /\ t # u => sess[t] # sess[u]
  /\ \A t \in Threads : \A r \in orphans : Starting(t) /\ r.command = "start" => r.session # sess[t]
Named ==
  /\ 0 < now
  /\ session.recording => session.id # 0
  /\ \A t \in Threads : old[t].recording => old[t].id # 0
  /\ \A t \in Threads : pc[t] = "stopping" => sess[t] # 0

\* As long as there has been only one service, nobody is ahead of its numbers.
Waiting == {"stopping", "stopped", "waiting"}
CaughtUp ==
  /\ 0 < lives
  /\ lives = 1 /\ up => seqFile <= nextSeq /\ \A t \in Threads : pc[t] \in Waiting => after[t] <= nextSeq
Expected ==
  lives = 1 => \A t \in Threads : pc[t] \in {"stopped", "waiting"} => Visible(t)
OutcomeInv == Down /\ Open /\ StartsAreNew /\ Named /\ CaughtUp /\ Expected

\* What a thread half-way through a command has done to the file and the service.
\* Nothing is claimed while a shutdown is about to stop the service (Doomed); of the
\* other commands only the one in the mutex is half-way (Quiet: none is).
Midway == {"starting", "refused", "skipped", "stopped", "invalidating", "cancelling"}
HalfWay(t) ==
  /\ pc[t] = "publishing" => ~session.recording /\ old[t] = session
  /\ pc[t] = "starting" => session = State(TRUE, sess[t]) /\ active = 0 /\ ~old[t].recording
  /\ pc[t] = "started" => session = State(TRUE, sess[t]) /\ active = sess[t]
  /\ pc[t] \in {"refused", "skipped"} => active = 0 /\ ~old[t].recording
  /\ pc[t] = "stopping" => session.recording /\ sess[t] = session.id
  /\ pc[t] = "stopped" => active = 0
  /\ pc[t] = "cancelling" => ~session.recording
Truth ==
  /\ session.recording => active = session.id
  /\ active # 0 => session = State(TRUE, active)
Doomed == \E t \in Threads : pc[t] = "cancelling" /\ op[t] = "shutdown"
Quiet == \A t \in Threads : op[t] = "shutdown" \/ pc[t] \notin Midway
Honest == up /\ daemonUp /\ timeouts = 0 => Doomed \/ ((\A t \in Threads : HalfWay(t)) /\ (Quiet => Truth))
AtRest == ~daemonUp => ~up /\ ~session.recording /\ \A t \in Threads : pc[t] = "idle"
MicInv == GenInv /\ AtRest /\ (timeouts = 0 => orphans = {}) /\ Honest

\* A step of one thread leaves the others where they were.
Frame(t) ==
  \A u \in Threads \ {t} :
    pc'[u] = pc[u] /\ op'[u] = op[u] /\ sess'[u] = sess[u] /\ text'[u] = text[u] /\ old'[u] = old[u]

-----------------------------------------------------------------------------
(* Types, and who is where. *)

LEMMA NextIdGrows ==
  ASSUME ShellTypes, NEW n \in Nat
  PROVE  NextId(n) \in Nat /\ NextId(n) + 1 \in Nat /\ n < NextId(n) /\ now <= NextId(n)
BY DEF NextId, ShellTypes

LEMMA CommandTypes ==
  ASSUME ShellTypes, NEW t \in Threads, Command(t)
  PROVE  /\ ShellTypes' /\ Frame(t)
         /\ pc[t] \in {"idle"} \cup Exclusive
         /\ pc'[t] \in {"idle", "waiting", "delivering"} \cup Exclusive
         /\ UNCHANGED <<clipLock, clip, inserted>>
<1> USE DEF ShellTypes, Frame, Goto, Begins, UnchangedService, Elsewhere, NotDelivering, service,
        Labels, Exclusive, Toggling
<1>1. CASE ToggleStops(t)
  BY <1>1 DEF ToggleStops, Operations, Sessions
<1>2. CASE ToggleStarts(t)
  <2>1. NextId(session.id) \in Nat /\ NextId(session.id) + 1 \in Nat
    BY NextIdGrows DEF Sessions
  <2>2. /\ pc' = [pc EXCEPT ![t] = "publishing"] /\ old' = [old EXCEPT ![t] = session]
        /\ sess' = [sess EXCEPT ![t] = NextId(session.id)] /\ now' = NextId(session.id) + 1
        /\ op' = [op EXCEPT ![t] = "toggle"] /\ pc[t] = "idle"
        /\ UNCHANGED <<session, last, text, floor, clipLock, clip, inserted>>
    BY <1>2 DEF ToggleStarts
  <2>3. /\ pc' \in [Threads -> Labels] /\ old' \in [Threads -> Sessions]
        /\ sess' \in [Threads -> Nat] /\ op' \in [Threads -> Operations]
    BY <2>1, <2>2 DEF Operations
  <2>4. now' \in Nat
    BY <2>1, <2>2
  <2>5. Frame(t) /\ pc'[t] = "publishing"
    BY <2>2
  <2> QED BY <2>2, <2>3, <2>4, <2>5
<1>3. CASE PublishesSession(t)
  BY <1>3 DEF PublishesSession, State, Sessions
<1>4. CASE ServiceStarts(t)
  BY <1>4 DEF ServiceStarts, StartRecording
<1>5. CASE StartEnds(t)
  BY <1>5 DEF StartEnds, State, Sessions
<1>6. CASE ServiceStops(t)
  BY <1>6 DEF ServiceStops, StopRecording
<1>7. CASE StopEnds(t)
  BY <1>7 DEF StopEnds, State, Sessions
<1>8. CASE CancelBegins(t)
  BY <1>8 DEF CancelBegins, Operations
<1>9. CASE ShutdownBegins(t)
  BY <1>9 DEF ShutdownBegins, Operations
<1>10. CASE RetryBegins(t)
  BY <1>10 DEF RetryBegins, Operations
<1>11. CASE ModifiersReleased(t)
  BY <1>11 DEF ModifiersReleased
<1>12. CASE Invalidates(t)
  <2>1. old[t] \in Sessions /\ old[t].id \in Nat
    BY DEF Sessions
  <2>2. NextId(old[t].id) \in Nat /\ NextId(old[t].id) + 1 \in Nat
    BY <2>1, NextIdGrows
  <2>3. /\ pc' = [pc EXCEPT ![t] = "cancelling"] /\ now' = NextId(old[t].id) + 1
        /\ pc[t] = "invalidating" /\ session' = State(FALSE, NextId(old[t].id))
        /\ floor' \in {floor, session'.id}
        /\ UNCHANGED <<last, op, sess, text, old, clipLock, clip, inserted>>
    BY <1>12 DEF Invalidates
  <2>4. session' \in Sessions /\ session'.id \in Nat
    BY <2>2, <2>3 DEF State, Sessions
  <2>5. pc' \in [Threads -> Labels] /\ floor' \in Nat
    BY <2>3, <2>4
  <2>7. now' \in Nat
    BY <2>2, <2>3
  <2>6. Frame(t) /\ pc'[t] = "cancelling"
    BY <2>3
  <2> QED BY <2>3, <2>4, <2>5, <2>6, <2>7
<1>13. CASE ServiceCancels(t)
  <2>1. /\ pc[t] = "cancelling" /\ last' \in {last, 0}
        /\ UNCHANGED <<session, now, op, text, old, floor, clipLock, clip, inserted>>
    BY <1>13 DEF ServiceCancels, Stopped, CancelAll
  <2>2. \E l \in {"idle", "delivering"} : pc' = [pc EXCEPT ![t] = l]
    BY <1>13 DEF ServiceCancels, AfterCancel
  <2>3. session.id \in Nat
    BY DEF Sessions
  <2>4. sess' = sess \/ sess' = [sess EXCEPT ![t] = session.id]
    BY <1>13 DEF ServiceCancels, AfterCancel
  <2>5. sess' \in [Threads -> Nat] /\ \A u \in Threads \ {t} : sess'[u] = sess[u]
    BY <2>3, <2>4
  <2>6. pc' \in [Threads -> Labels] /\ pc'[t] \in {"idle", "delivering"}
        /\ \A u \in Threads \ {t} : pc'[u] = pc[u]
    BY <2>2
  <2>7. Frame(t)
    BY <2>1, <2>5, <2>6
  <2>8. last' \in Nat
    <3>1. last \in Nat /\ 0 \in Nat /\ last' \in {last, 0}
      BY <2>1
    <3> HIDE DEF ShellTypes
    <3> QED BY <3>1
  <2> QED BY <2>1, <2>5, <2>6, <2>7, <2>8
<1>14. CASE RequestFails(t)
  BY <1>14 DEF RequestFails, Requesting, Fails
<1>15. CASE RequestTimesOut(t)
  BY <1>15 DEF RequestTimesOut, Requesting, Fails
<1> QED
  BY <1>1, <1>2, <1>3, <1>4, <1>5, <1>6, <1>7, <1>8, <1>9, <1>10, <1>11, <1>12, <1>13, <1>14,
     <1>15 DEF Command

LEMMA DeliveryFrame ==
  ASSUME ShellTypes, NEW t \in Threads, Delivery(t)
  PROVE  /\ ShellTypes' /\ Frame(t)
         /\ pc[t] \notin Exclusive /\ pc'[t] \notin Exclusive
         /\ UNCHANGED <<session, now, floor, lock, op, sess, old>>
<1> USE DEF ShellTypes, Frame, Goto, Delivers, UnchangedService, Elsewhere, NotDelivering, service,
        Labels, Exclusive, Toggling
<1>1. CASE Polls(t)
  BY <1>1 DEF Polls
<1>2. CASE WaitEnds(t)
  BY <1>2 DEF WaitEnds
<1>3. CASE ChecksTranscript(t)
  BY <1>3 DEF ChecksTranscript
<1>4. CASE Remembers(t)
  <2>1. sess[t] \in Nat /\ pc[t] = "remembering"
        /\ UNCHANGED <<session, now, floor, lock, op, sess, old>>
    BY <1>4 DEF Remembers
  <2>2. last' \in {last, sess[t]}
    BY <1>4 DEF Remembers, RememberDelivery
  <2>3. \E l \in {"delivering", "completing"} : pc' = [pc EXCEPT ![t] = l]
    BY <1>4 DEF Remembers
  <2>4. text' \in [Threads -> Nat] /\ \A u \in Threads \ {t} : text'[u] = text[u]
    BY <1>4, <2>1 DEF Remembers
  <2>5. /\ pc' \in [Threads -> Labels] /\ pc'[t] \in {"delivering", "completing"}
        /\ \A u \in Threads \ {t} : pc'[u] = pc[u]
    BY <2>3
  <2> QED BY <2>1, <2>2, <2>4, <2>5
<1>5. CASE ChoosesMode(t)
  BY <1>5 DEF ChoosesMode, Finish
<1>6. CASE Types(t)
  BY <1>6 DEF Types, Finish
<1>7. CASE LocksClipboard(t)
  BY <1>7 DEF LocksClipboard, Finish
<1>8. CASE PublishesText(t)
  BY <1>8 DEF PublishesText, Releases, Finish
<1>9. CASE Verifies(t)
  BY <1>9 DEF Verifies, Releases, Finish
<1>10. CASE SendsKey(t)
  BY <1>10 DEF SendsKey, Releases, Finish
<1>11. CASE Completes(t)
  BY <1>11 DEF Completes, DeliveryComplete
<1> QED
  BY <1>1, <1>2, <1>3, <1>4, <1>5, <1>6, <1>7, <1>8, <1>9, <1>10, <1>11 DEF Delivery

\* What the environment does to the shell: the user copies, the daemon exits.
LEMMA EnvironmentFrame ==
  ASSUME ShellTypes, Environment
  PROVE  /\ ShellTypes' /\ UNCHANGED <<op, sess, text, old, inserted>>
         /\ \/ UNCHANGED <<session, now, floor, pc, lock, clipLock>> /\ clip' \in {clip, 0}
            \/ DaemonExits /\ clip' = clip
<1> USE DEF ShellTypes, thread, service
<1>1. CASE \E s \in transcribing : Transcribes(s)
  BY <1>1 DEF Transcribes
<1>2. CASE Progress
  BY <1>2 DEF Progress
<1>3. CASE \E r \in orphans : OrphanRuns(r)
  BY <1>3 DEF OrphanRuns, StartRecording, StopRecording, CancelAll
<1>4. CASE ServiceDies
  BY <1>4 DEF ServiceDies, Stopped
<1>5. CASE UserCopies
  BY <1>5 DEF UserCopies
<1>6. CASE DaemonExits
  <2>1. session.id \in Nat /\ NextId(session.id) \in Nat /\ NextId(session.id) + 1 \in Nat
    BY NextIdGrows DEF Sessions
  <2>2. /\ session' = State(FALSE, NextId(session.id)) /\ now' = NextId(session.id) + 1
        /\ floor' \in {floor, session'.id}
        /\ pc' = [t \in Threads |-> IF t \in Daemon THEN "idle" ELSE pc[t]]
        /\ UNCHANGED <<last, op, sess, text, old, clip, inserted>>
    BY <1>6 DEF DaemonExits
  <2>3. session' \in Sessions /\ session'.id \in Nat
    BY <2>1, <2>2 DEF State, Sessions
  <2>4. pc' \in [Threads -> Labels] /\ floor' \in Nat
    BY <2>2, <2>3 DEF Labels
  <2>5. now' \in Nat
    BY <2>1, <2>2
  <2> QED BY <1>6, <2>2, <2>3, <2>4, <2>5
<1>7. CASE DaemonStarts
  BY <1>7 DEF DaemonStarts
<1> QED BY <1>1, <1>2, <1>3, <1>4, <1>5, <1>6, <1>7 DEF Environment

-----------------------------------------------------------------------------
(* The clipboard lock. *)

LEMMA ClipInitially == Init => ClipInv
<1> SUFFICES ASSUME Init PROVE ClipInv
  OBVIOUS
<1> USE NobodyAssumption DEF Init
<1>1. State(FALSE, 0) \in Sessions
  BY DEF State, Sessions
<1>2. ShellTypes
  BY <1>1 DEF ShellTypes, Labels, Operations
<1>3. DeliveryTypes /\ NoForeignText
  BY DEF DeliveryTypes, NoForeignText
<1>4. ClipboardOwned
  BY DEF ClipboardOwned, ClipLabels
<1> QED BY <1>2, <1>3, <1>4 DEF ClipInv

\* A thread that has no use for the clipboard leaves its owner alone.
LEMMA ClipboardLeft ==
  ASSUME ClipInv, NEW t \in Threads, ShellTypes', Frame(t), UNCHANGED <<clipLock, clip>>,
         pc[t] \notin ClipLabels, pc'[t] \notin ClipLabels
  PROVE  ClipboardOwned'
<1>1. ClipboardOwned /\ clipLock # t
  BY DEF ClipInv, ClipboardOwned
<1>2. \A u \in Threads \ {t} : pc'[u] = pc[u] /\ text'[u] = text[u]
  BY DEF Frame
<1>3. pc'[t] # "sending"
  BY DEF ClipLabels
<1> QED BY <1>1, <1>2, <1>3 DEF ClipboardOwned

LEMMA Inserting ==
  ASSUME ClipInv, NEW e \in Insertions, e.text \in {0, e.wanted}, inserted' = Append(inserted, e)
  PROVE  inserted' \in Seq(Insertions) /\ NoForeignText'
BY DEF ClipInv, DeliveryTypes, NoForeignText

LEMMA DeliveryKeepsClip ==
  ASSUME ClipInv, NEW t \in Threads, Delivery(t) PROVE ClipInv'
<1> USE NobodyAssumption
<1>1. ShellTypes /\ DeliveryTypes /\ ClipboardOwned /\ NoForeignText
  BY DEF ClipInv
<1>2. ShellTypes' /\ Frame(t) /\ UNCHANGED <<sess, old, op>>
  BY <1>1, DeliveryFrame
<1>3. ASSUME pc[t] \notin ClipLabels, pc'[t] \notin ClipLabels, UNCHANGED <<clipLock, clip>>
      PROVE  ClipboardOwned'
  BY <1>2, <1>3, ClipboardLeft
<1>4. \A u \in Threads \ {t} : pc'[u] = pc[u] /\ text'[u] = text[u]
  BY <1>2 DEF Frame
<1>5. text[t] \in Nat /\ sess[t] \in Nat /\ clip \in Nat
  BY <1>1 DEF ShellTypes, DeliveryTypes
<1>6. CASE Polls(t) \/ WaitEnds(t) \/ ChecksTranscript(t) \/ Remembers(t) \/ ChoosesMode(t)
           \/ Completes(t)
  <2>1. /\ pc[t] \notin ClipLabels /\ pc'[t] \notin ClipLabels
        /\ UNCHANGED <<clipLock, clip, inserted>>
    BY <1>1, <1>6 DEF Polls, WaitEnds, ChecksTranscript, Remembers, ChoosesMode, Completes,
       NotDelivering, Goto, Finish, ClipLabels, ShellTypes
  <2> QED BY <1>1, <1>2, <1>3, <2>1 DEF ClipInv, DeliveryTypes, NoForeignText
<1>7. CASE Types(t)
  <2> DEFINE e == [text |-> text[t], wanted |-> text[t], session |-> sess[t]]
  <2>1. /\ pc[t] \notin ClipLabels /\ pc'[t] \notin ClipLabels
        /\ UNCHANGED <<clipLock, clip>>
        /\ inserted' = inserted \/ inserted' = Append(inserted, e)
    BY <1>1, <1>7 DEF Types, Goto, Finish, ClipLabels, ShellTypes
  <2>2. e \in Insertions /\ e.text \in {0, e.wanted}
    BY <1>5 DEF Insertions
  <2>3. inserted' \in Seq(Insertions) /\ NoForeignText'
    <3>1. CASE inserted' = inserted
      BY <1>1, <3>1 DEF DeliveryTypes, NoForeignText
    <3>2. CASE inserted' = Append(inserted, e)
      BY <2>2, <3>2, Inserting
    <3> QED BY <2>1, <3>1, <3>2
  <2> QED BY <1>1, <1>2, <1>3, <2>1, <2>3 DEF ClipInv, DeliveryTypes
<1>8. CASE LocksClipboard(t)
  <2>1. pc[t] \notin ClipLabels /\ UNCHANGED <<text, clip, inserted>>
    BY <1>8 DEF LocksClipboard, ClipLabels
  <2>2. CASE clipLock' = t
    <3>1. clipLock = Nobody /\ pc'[t] \in ClipLabels /\ pc'[t] # "sending"
      BY <1>1, <1>8, <2>2 DEF LocksClipboard, ClipboardFree, Goto, Finish, ClipLabels, ShellTypes,
         ClipboardOwned
    <3>2. ClipboardOwned'
      BY <1>1, <1>4, <2>1, <2>2, <3>1 DEF ClipboardOwned
    <3> QED BY <1>1, <1>2, <2>1, <2>2, <3>2 DEF ClipInv, DeliveryTypes, NoForeignText
  <2>3. CASE clipLock' # t
    <3>1. clipLock' = clipLock /\ pc'[t] \notin ClipLabels
      BY <1>1, <1>8, <2>3 DEF LocksClipboard, Goto, Finish, ClipLabels, ShellTypes
    <3> QED BY <1>1, <1>2, <1>3, <2>1, <3>1 DEF ClipInv, DeliveryTypes, NoForeignText
  <2> QED BY <2>2, <2>3
<1>9. ASSUME pc[t] \in ClipLabels, UNCHANGED text, clip' \in {clip, 0, text[t]},
             \/ clipLock' = clipLock /\ pc'[t] \in ClipLabels
             \/ clipLock' = Nobody /\ pc'[t] \notin ClipLabels,
             pc'[t] = "sending" => clip' \in {0, text[t]}
      PROVE  ClipboardOwned' /\ clipLock' \in Threads \cup {Nobody} /\ clip' \in Nat
  \* It is the owner, so nobody else is anywhere near.
  <2>1. clipLock = t /\ \A u \in Threads \ {t} : pc[u] \notin ClipLabels
    BY <1>1, <1>9 DEF ClipboardOwned
  <2>2. \A u \in Threads \ {t} : pc'[u] \notin ClipLabels /\ pc'[u] # "sending"
    BY <1>4, <2>1 DEF ClipLabels
  <2>3. pc'[t] \in ClipLabels <=> clipLock' = t
    BY <1>9, <2>1
  <2>4. pc'[t] = "sending" => clip' \in {0, text'[t]}
    BY <1>9
  <2>5. \A u \in Threads \ {t} : clipLock' # u
    BY <1>9, <2>1
  <2>6. ClipboardOwned'
    BY <2>2, <2>3, <2>4, <2>5 DEF ClipboardOwned
  <2> QED BY <1>1, <1>5, <1>9, <2>1, <2>6
<1>10. CASE PublishesText(t)
  <2>1. /\ pc[t] \in ClipLabels /\ UNCHANGED <<text, inserted>> /\ clip' \in {clip, text[t]}
        /\ \/ clipLock' = clipLock /\ pc'[t] \in ClipLabels \ {"sending"}
           \/ clipLock' = Nobody /\ pc'[t] \notin ClipLabels
    BY <1>1, <1>10 DEF PublishesText, Releases, Goto, Finish, ClipLabels, ShellTypes
  <2>2. pc'[t] # "sending"
    BY <2>1 DEF ClipLabels
  <2>3. ClipboardOwned' /\ clipLock' \in Threads \cup {Nobody} /\ clip' \in Nat
    BY <1>9, <2>1, <2>2
  <2> QED BY <1>1, <1>2, <2>1, <2>3 DEF ClipInv, DeliveryTypes, NoForeignText
<1>11. CASE Verifies(t)
  <2>1. /\ pc[t] \in ClipLabels /\ UNCHANGED <<text, inserted>> /\ clip' \in {clip, 0}
        /\ \/ clipLock' = clipLock /\ pc'[t] = "sending" /\ clip' = text[t]
           \/ clipLock' = Nobody /\ pc'[t] \notin ClipLabels
    BY <1>1, <1>11 DEF Verifies, Releases, Goto, Finish, ClipLabels, ShellTypes
  <2>2. pc'[t] = "sending" => clip' \in {0, text[t]}
    BY <2>1 DEF ClipLabels
  <2>3. "sending" \in ClipLabels
    BY DEF ClipLabels
  <2>4. ClipboardOwned' /\ clipLock' \in Threads \cup {Nobody} /\ clip' \in Nat
    BY <1>9, <2>1, <2>2, <2>3
  <2> QED BY <1>1, <1>2, <2>1, <2>4 DEF ClipInv, DeliveryTypes, NoForeignText
<1>12. CASE SendsKey(t)
  <2> DEFINE e == [text |-> clip, wanted |-> text[t], session |-> sess[t]]
  <2>1. /\ pc[t] = "sending" /\ UNCHANGED <<text, clip>> /\ clipLock' = Nobody
        /\ pc'[t] \notin ClipLabels
        /\ inserted' = inserted \/ inserted' = Append(inserted, e)
    BY <1>1, <1>12 DEF SendsKey, Releases, Goto, Finish, ClipLabels, ShellTypes
  <2>2. e \in Insertions /\ e.text \in {0, e.wanted}
    BY <1>1, <1>5, <2>1 DEF Insertions, ClipboardOwned
  <2>3. inserted' \in Seq(Insertions) /\ NoForeignText'
    <3>1. CASE inserted' = inserted
      BY <1>1, <3>1 DEF DeliveryTypes, NoForeignText
    <3>2. CASE inserted' = Append(inserted, e)
      BY <2>2, <3>2, Inserting
    <3> QED BY <2>1, <3>1, <3>2
  <2>4. pc[t] \in ClipLabels /\ pc'[t] # "sending"
    BY <2>1 DEF ClipLabels
  <2>5. ClipboardOwned' /\ clipLock' \in Threads \cup {Nobody} /\ clip' \in Nat
    BY <1>9, <2>1, <2>4
  <2> QED BY <1>2, <2>3, <2>5 DEF ClipInv, DeliveryTypes
<1> QED BY <1>6, <1>7, <1>8, <1>10, <1>11, <1>12 DEF Delivery

LEMMA EnvironmentKeepsClip == ASSUME ClipInv, Environment PROVE ClipInv'
<1> USE NobodyAssumption, DaemonAssumption
<1>1. ShellTypes /\ DeliveryTypes /\ ClipboardOwned /\ NoForeignText
  BY DEF ClipInv
<1>2. /\ ShellTypes' /\ UNCHANGED <<text, inserted>>
      /\ \/ UNCHANGED <<pc, clipLock>> /\ clip' \in {clip, 0}
         \/ DaemonExits /\ clip' = clip
  BY <1>1, EnvironmentFrame
<1>3. CASE UNCHANGED <<pc, clipLock>> /\ clip' \in {clip, 0}
  BY <1>1, <1>2, <1>3 DEF ClipInv, DeliveryTypes, ClipboardOwned, NoForeignText
<1>4. CASE DaemonExits /\ clip' = clip
  <2>1. /\ \A t \in Threads : pc'[t] = IF t \in Daemon THEN "idle" ELSE pc[t]
        /\ clipLock' = IF clipLock \in Daemon THEN Nobody ELSE clipLock
    BY <1>4 DEF DaemonExits
  <2>2. "idle" \notin ClipLabels /\ "sending" \in ClipLabels
    BY DEF ClipLabels
  <2>3. ClipboardOwned'
    BY <1>1, <1>2, <1>4, <2>1, <2>2 DEF ClipboardOwned
  <2> QED BY <1>1, <1>2, <1>4, <2>1, <2>3 DEF ClipInv, DeliveryTypes, NoForeignText
<1> QED BY <1>2, <1>3, <1>4

LEMMA StepKeepsClip == ClipInv /\ [Next]_vars => ClipInv'
<1> SUFFICES ASSUME ClipInv, [Next]_vars PROVE ClipInv'
  OBVIOUS
<1>1. CASE UNCHANGED vars
  BY <1>1 DEF vars, service, thread, ClipInv, ShellTypes, DeliveryTypes, ClipboardOwned, NoForeignText
<1>2. CASE Environment
  BY <1>2, EnvironmentKeepsClip
<1>3. ASSUME NEW t \in Threads, Delivery(t) PROVE ClipInv'
  BY <1>3, DeliveryKeepsClip
<1>4. ASSUME NEW t \in Threads, Command(t) PROVE ClipInv'
  <2>1. ShellTypes /\ DeliveryTypes /\ NoForeignText
    BY DEF ClipInv
  <2>2. /\ ShellTypes' /\ Frame(t) /\ UNCHANGED <<clipLock, clip, inserted>>
        /\ pc[t] \notin ClipLabels /\ pc'[t] \notin ClipLabels
    BY <1>4, <2>1, CommandTypes DEF ClipLabels, Exclusive, Toggling
  <2>3. ClipboardOwned'
    BY <2>2, ClipboardLeft
  <2> QED BY <2>1, <2>2, <2>3 DEF ClipInv, DeliveryTypes, NoForeignText
<1> QED BY <1>1, <1>2, <1>3, <1>4 DEF Next

\* What the paste key brings into an application is the delivery's own text, or
\* what the user copied since it was verified: never another delivery's.
THEOREM OwnText == Spec => []NoForeignText
<1>1. ClipInv => NoForeignText
  BY DEF ClipInv
<1> QED BY <1>1, ClipInitially, StepKeepsClip, PTL DEF Spec

-----------------------------------------------------------------------------
(* Generations under the daemon's mutex. *)

LEMMA GenInitially == Init /\ OneDaemon => GenInv
<1> SUFFICES ASSUME Init, OneDaemon PROVE GenInv
  OBVIOUS
<1>1. ShellTypes
  BY ClipInitially DEF ClipInv
<1>2. \A t \in Threads : pc[t] = "idle"
  BY DEF Init
<1>3. MutexHeld
  BY <1>2 DEF MutexHeld, Exclusive, Toggling
<1>4. floor = 0 /\ session.id = 0 /\ now = 1
  BY DEF Init, State
<1>5. GenerationsGrow
  BY <1>2, <1>4 DEF GenerationsGrow, Toggling
<1> QED BY <1>1, <1>3, <1>5 DEF GenInv

\* Among the labels of commands, a thread's own step only has to look at itself:
\* what it leaves alone, and what it may assume of the file and the clock.
LEMMA OwnStep ==
  ASSUME GenInv, NEW t \in Threads, ShellTypes', Frame(t),
         floor <= floor', now <= now', floor' <= session'.id, session'.id < now',
         pc'[t] \in Toggling => floor' <= sess'[t] /\ sess'[t] < now',
         pc'[t] \in Toggling \ {"stopping", "stopped"} => floor' <= old'[t].id /\ old'[t].id < now',
         pc'[t] \in {"starting", "started"} => sess'[t] <= session'.id,
         \* if it moves the floor or puts the file back, nobody else is at work
         \/ floor' = floor /\ session.id <= session'.id
         \/ \A u \in Threads \ {t} : pc[u] \notin Toggling
  PROVE  GenerationsGrow'
<1>1. /\ session \in Sessions /\ session' \in Sessions /\ now \in Nat /\ now' \in Nat
      /\ floor \in Nat /\ floor' \in Nat
      /\ sess \in [Threads -> Nat] /\ sess' \in [Threads -> Nat]
      /\ old \in [Threads -> Sessions] /\ old' \in [Threads -> Sessions]
  BY DEF GenInv, ShellTypes
<1>2. ASSUME NEW u \in Threads \ {t}, pc'[u] \in Toggling
      PROVE  /\ floor' <= sess'[u] /\ sess'[u] < now'
             /\ pc'[u] \notin {"stopping", "stopped"} => floor' <= old'[u].id /\ old'[u].id < now'
             /\ pc'[u] \in {"starting", "started"} => sess'[u] <= session'.id
  <2>1. pc'[u] = pc[u] /\ sess'[u] = sess[u] /\ old'[u] = old[u]
    BY DEF Frame
  <2>2. pc[u] \in Toggling
    BY <1>2, <2>1
  <2>3. floor' = floor /\ session.id <= session'.id
    BY <2>2
  <2>4. /\ floor <= sess[u] /\ sess[u] < now
        /\ pc[u] \notin {"stopping", "stopped"} => floor <= old[u].id /\ old[u].id < now
        /\ pc[u] \in {"starting", "started"} => sess[u] <= session.id
    BY <2>2 DEF GenInv, GenerationsGrow
  <2>5. sess[u] \in Nat /\ old[u].id \in Nat /\ session.id \in Nat /\ session'.id \in Nat
    BY <1>1 DEF Sessions
  <2> QED BY <1>1, <2>1, <2>3, <2>4, <2>5
<1>3. {"starting", "started"} \subseteq Toggling
  BY DEF Toggling
<1>4. /\ \A u \in Threads : pc'[u] \in Toggling => floor' <= sess'[u] /\ sess'[u] < now'
      /\ \A u \in Threads : pc'[u] \in Toggling \ {"stopping", "stopped"} =>
           floor' <= old'[u].id /\ old'[u].id < now'
      /\ \A u \in Threads : pc'[u] \in {"starting", "started"} => sess'[u] <= session'.id
  BY <1>2, <1>3
<1> QED BY <1>4 DEF GenerationsGrow

\* Two threads are never in the mutex at once.
LEMMA Alone ==
  ASSUME GenInv, NEW t \in Threads, pc[t] \in Exclusive, op[t] # "shutdown"
  PROVE  /\ lock = t
         /\ \A u \in Threads \ {t} : pc[u] \notin Toggling
         /\ \A u \in Threads \ {t} : ~(pc[u] \in Exclusive /\ op[u] # "shutdown")
BY DEF GenInv, MutexHeld, Exclusive

\* A step keeps the mutex's holder apart if it takes it while it is free, or
\* releases it when it holds it.
LEMMA OwnLock ==
  ASSUME GenInv, NEW t \in Threads, Frame(t),
         pc'[t] \in Toggling => op'[t] = "toggle",
         pc'[t] = "releasing" => op'[t] = "retry",
         pc'[t] \in Exclusive /\ op'[t] # "shutdown" => lock' = t,
         \/ lock' = lock
         \/ lock = Nobody
         \/ pc[t] \in Exclusive /\ op[t] # "shutdown"
  PROVE  MutexHeld'
<1>1. MutexHeld
  BY DEF GenInv
<1>2. \A u \in Threads \ {t} : pc'[u] = pc[u] /\ op'[u] = op[u]
  BY DEF Frame
<1>3. \A u \in Threads \ {t} : pc[u] \in Exclusive /\ op[u] # "shutdown" => lock' = u
  <2>1. CASE lock' = lock
    BY <1>1, <2>1 DEF MutexHeld
  <2>2. CASE lock = Nobody
    BY <1>1, <2>2, NobodyAssumption DEF MutexHeld
  <2>3. CASE pc[t] \in Exclusive /\ op[t] # "shutdown"
    BY <2>3, Alone
  <2> QED BY <2>1, <2>2, <2>3
<1> QED BY <1>1, <1>2, <1>3 DEF MutexHeld

LEMMA CommandKeepsGen ==
  ASSUME GenInv, NEW t \in Threads, Command(t) PROVE GenInv'
<1>1. OneDaemon /\ ShellTypes /\ MutexHeld /\ GenerationsGrow
  BY DEF GenInv
<1>2. ShellTypes' /\ Frame(t)
  BY <1>1, CommandTypes
<1>3. t \in Daemon
  BY <1>1 DEF OneDaemon
<1>4. /\ session.id \in Nat /\ session'.id \in Nat /\ now \in Nat /\ now' \in Nat
      /\ floor \in Nat /\ floor' \in Nat /\ sess[t] \in Nat /\ old[t].id \in Nat
      /\ sess'[t] \in Nat /\ old'[t].id \in Nat
  BY <1>1, <1>2 DEF ShellTypes, Sessions
<1>5. floor <= session.id /\ session.id < now
  BY <1>1 DEF GenerationsGrow
<1>6. pc[t] \in Toggling =>
        /\ floor <= sess[t] /\ sess[t] < now /\ op[t] = "toggle" /\ op[t] # "shutdown"
        /\ pc[t] \notin {"stopping", "stopped"} => floor <= old[t].id /\ old[t].id < now
        /\ pc[t] \in {"starting", "started"} => sess[t] <= session.id
  BY <1>1 DEF GenerationsGrow, MutexHeld
<1>7. Toggling \subseteq Exclusive
  BY DEF Exclusive
<1>8. ASSUME MutexHeld', GenerationsGrow' PROVE GenInv'
  BY <1>1, <1>2, <1>8 DEF GenInv, OneDaemon
<1> USE DEF Goto
<1>9. CASE ToggleStops(t)
  <2>1. /\ pc'[t] = "stopping" /\ sess'[t] = session.id /\ op'[t] = "toggle"
        /\ UNCHANGED <<session, now, floor>> /\ lock = Nobody /\ lock' = t
    BY <1>1, <1>3, <1>9 DEF ToggleStops, CanLock, Locked, Begins, ShellTypes
  <2>2. MutexHeld'
    BY <1>2, <2>1, OwnLock
  <2>3. GenerationsGrow'
    BY <1>2, <1>4, <1>5, <2>1, OwnStep
  <2> QED BY <1>8, <2>2, <2>3
<1>10. CASE ToggleStarts(t)
  <2>1. /\ pc'[t] = "publishing" /\ sess'[t] = NextId(session.id) /\ op'[t] = "toggle"
        /\ old'[t] = session /\ now' = NextId(session.id) + 1
        /\ UNCHANGED <<session, floor>> /\ lock = Nobody /\ lock' = t
    BY <1>1, <1>3, <1>10 DEF ToggleStarts, CanLock, Locked, Begins, ShellTypes
  <2>2. NextId(session.id) \in Nat /\ now <= NextId(session.id)
    BY <1>1, <1>4, NextIdGrows
  <2>3. MutexHeld'
    BY <1>2, <2>1, OwnLock
  <2>4. GenerationsGrow'
    BY <1>2, <1>4, <1>5, <2>1, <2>2, OwnStep
  <2> QED BY <1>8, <2>3, <2>4
<1>11. CASE PublishesSession(t)
  <2>1. /\ pc[t] = "publishing" /\ pc'[t] = "starting" /\ session'.id = sess[t]
        /\ UNCHANGED <<now, op, sess, old, lock, floor>>
    BY <1>1, <1>11 DEF PublishesSession, State, ShellTypes
  <2>2. pc[t] \in Toggling
    BY <2>1 DEF Toggling
  <2>3. lock = t /\ \A u \in Threads \ {t} : pc[u] \notin Toggling
    BY <1>6, <1>7, <2>2, Alone
  <2>4. MutexHeld'
    BY <1>2, <1>6, <2>1, <2>2, <2>3, OwnLock
  <2>5. GenerationsGrow'
    BY <1>2, <1>4, <1>5, <1>6, <2>1, <2>2, <2>3, OwnStep
  <2> QED BY <1>8, <2>4, <2>5
<1>12. CASE ServiceStarts(t)
  <2>1. /\ pc[t] = "starting" /\ pc'[t] \in {"started", "refused", "skipped"}
        /\ UNCHANGED <<session, now, op, sess, old, lock, floor>>
    BY <1>1, <1>12 DEF ServiceStarts, ShellTypes
  <2>2. pc[t] \in Toggling /\ pc'[t] \notin {"stopping", "stopped", "releasing"}
    BY <2>1 DEF Toggling
  <2>3. lock = t
    BY <1>6, <1>7, <2>2, Alone
  <2>4. MutexHeld'
    BY <1>2, <1>6, <2>1, <2>2, <2>3, OwnLock
  <2>5. GenerationsGrow'
    BY <1>2, <1>4, <1>5, <1>6, <2>1, <2>2, OwnStep
  <2> QED BY <1>8, <2>4, <2>5
<1>13. CASE StartEnds(t)
  <2>1. /\ pc[t] \in {"started", "refused", "skipped"} /\ pc'[t] = "idle"
        /\ pc[t] = "started" => session' = session /\ floor' \in {floor, sess[t]} /\ floor <= floor'
        /\ pc[t] = "refused" => session' = old[t] /\ floor' = floor
        /\ pc[t] = "skipped" => session'.id = sess[t] /\ floor' = floor
        /\ UNCHANGED now
    BY <1>1, <1>4, <1>13 DEF StartEnds, State, ShellTypes
  <2>2. pc[t] \in Toggling /\ pc'[t] \notin Exclusive /\ pc'[t] \notin Toggling
    BY <2>1 DEF Toggling, Exclusive
  <2>3. \A u \in Threads \ {t} : pc[u] \notin Toggling
    BY <1>6, <1>7, <2>2, Alone
  <2>4. MutexHeld'
    BY <1>2, <1>6, <1>7, <2>1, <2>2, OwnLock
  <2>5. floor <= floor' /\ floor' <= session'.id /\ session'.id < now'
    BY <1>4, <1>5, <1>6, <2>1, <2>2
  <2>6. GenerationsGrow'
    BY <1>2, <1>4, <2>1, <2>2, <2>3, <2>5, OwnStep
  <2> QED BY <1>8, <2>4, <2>6
<1>14. CASE ServiceStops(t)
  <2>1. /\ pc[t] = "stopping"
        /\ \/ pc'[t] = "idle"
           \/ pc'[t] = "stopped" /\ lock' = lock
        /\ UNCHANGED <<session, now, op, sess, old, floor>>
    BY <1>1, <1>14 DEF ServiceStops, ShellTypes
  <2>2. pc[t] \in Toggling /\ "idle" \notin Toggling /\ "idle" \notin Exclusive
    BY <2>1 DEF Toggling, Exclusive
  <2>3. lock = t
    BY <1>6, <1>7, <2>2, Alone
  <2>4. MutexHeld'
    BY <1>2, <1>6, <1>7, <2>1, <2>2, <2>3, OwnLock
  <2>5. GenerationsGrow'
    BY <1>2, <1>4, <1>5, <1>6, <2>1, <2>2, OwnStep
  <2> QED BY <1>8, <2>4, <2>5
<1>15. CASE StopEnds(t)
  <2>1. /\ pc[t] = "stopped" /\ pc'[t] = "waiting" /\ session'.id = sess[t]
        /\ UNCHANGED <<now, op, sess, old, floor>>
    BY <1>1, <1>15 DEF StopEnds, State, ShellTypes
  <2>2. pc[t] \in Toggling /\ pc'[t] \notin Exclusive /\ pc'[t] \notin Toggling
    BY <2>1 DEF Toggling, Exclusive
  <2>3. \A u \in Threads \ {t} : pc[u] \notin Toggling
    BY <1>6, <1>7, <2>2, Alone
  <2>4. MutexHeld'
    BY <1>2, <1>6, <1>7, <2>1, <2>2, OwnLock
  <2>5. GenerationsGrow'
    BY <1>2, <1>4, <1>5, <1>6, <2>1, <2>2, <2>3, OwnStep
  <2> QED BY <1>8, <2>4, <2>5
<1>16. CASE CancelBegins(t) \/ RetryBegins(t)
  <2>1. /\ pc'[t] = "invalidating" \/ (pc'[t] = "releasing" /\ op'[t] = "retry")
        /\ UNCHANGED <<session, now, floor>> /\ lock = Nobody /\ lock' = t
    <3>1. CASE CancelBegins(t)
      BY <1>1, <1>3, <3>1 DEF CancelBegins, CanLock, Locked, ShellTypes
    <3>2. CASE RetryBegins(t)
      BY <1>1, <1>3, <3>2 DEF RetryBegins, CanLock, Locked, Begins, ShellTypes
    <3> QED BY <1>16, <3>1, <3>2
  <2>2. pc'[t] \notin Toggling /\ (pc'[t] = "releasing" => op'[t] = "retry")
    BY <2>1 DEF Toggling
  <2>3. MutexHeld'
    BY <1>2, <2>1, <2>2, OwnLock
  <2>4. pc'[t] \notin {"starting", "started"}
    BY <2>1
  <2>5. GenerationsGrow'
    BY <1>2, <1>4, <1>5, <2>1, <2>2, <2>4, OwnStep
  <2> QED BY <1>8, <2>3, <2>5
<1>17. CASE ShutdownBegins(t)
  <2>1. /\ pc'[t] = "invalidating" /\ op'[t] = "shutdown"
        /\ UNCHANGED <<session, now, floor, lock>>
    BY <1>1, <1>17 DEF ShutdownBegins, Begins, ShellTypes
  <2>2. pc'[t] \notin Toggling
    BY <2>1 DEF Toggling
  <2>3. MutexHeld'
    BY <1>2, <2>1, <2>2, OwnLock
  <2>4. GenerationsGrow'
    BY <1>2, <1>4, <1>5, <2>1, <2>2, OwnStep
  <2> QED BY <1>8, <2>3, <2>4
<1>18. CASE ModifiersReleased(t)
  <2>1. /\ pc[t] = "releasing" /\ UNCHANGED <<session, now, op, floor>>
        /\ pc'[t] = "idle" \/ (pc'[t] = "invalidating" /\ lock' = lock)
    BY <1>1, <1>18 DEF ModifiersReleased, ShellTypes
  <2>2. pc[t] \in Exclusive /\ pc'[t] \notin Toggling /\ "idle" \notin Exclusive
    BY <2>1 DEF Toggling, Exclusive
  <2>3. op[t] = "retry" /\ op[t] # "shutdown"
    BY <1>1, <2>1 DEF MutexHeld
  <2>4. lock = t
    BY <2>2, <2>3, Alone
  <2>5. MutexHeld'
    BY <1>2, <2>1, <2>2, <2>3, <2>4, OwnLock
  <2>6. GenerationsGrow'
    BY <1>2, <1>4, <1>5, <2>1, <2>2, OwnStep
  <2> QED BY <1>8, <2>5, <2>6
<1>19. CASE Invalidates(t)
  \* A shutdown has not got the mutex, but its number is newer than any, and it ends
  \* something for good only if nobody toggles.
  <2>1. /\ pc[t] = "invalidating" /\ pc'[t] = "cancelling"
        /\ session'.id = NextId(old[t].id) /\ now' = NextId(old[t].id) + 1
        /\ \/ floor' = floor
           \/ op[t] # "shutdown" /\ floor' = session'.id
           \/ ~ToggleHalfWay /\ floor' = session'.id
        /\ UNCHANGED <<op, lock>>
    BY <1>1, <1>19 DEF Invalidates, State, ShellTypes, EndsForGood
  <2>2. NextId(old[t].id) \in Nat /\ now <= NextId(old[t].id)
    BY <1>1, <1>4, NextIdGrows
  <2>3. pc[t] \in Exclusive /\ pc'[t] \notin Toggling
    BY <2>1 DEF Toggling, Exclusive
  <2>4. MutexHeld'
    BY <1>1, <1>2, <2>1, <2>3, OwnLock DEF MutexHeld
  <2>5. /\ floor <= floor' /\ now <= now' /\ floor' <= session'.id /\ session'.id < now'
        /\ session.id <= session'.id
    BY <1>4, <1>5, <2>1, <2>2
  <2>6. floor' = floor \/ \A u \in Threads \ {t} : pc[u] \notin Toggling
    BY <2>1, <2>3, Alone DEF ToggleHalfWay
  <2>7. GenerationsGrow'
    BY <1>2, <2>1, <2>3, <2>5, <2>6, OwnStep
  <2> QED BY <1>8, <2>4, <2>7
<1>20. CASE ServiceCancels(t)
  <2>1. /\ pc[t] = "cancelling" /\ pc'[t] \in {"idle", "delivering"}
        /\ UNCHANGED <<session, now, floor>>
        /\ op[t] = "shutdown" => lock' = lock
    BY <1>1, <1>20 DEF ServiceCancels, AfterCancel, ShellTypes
  <2>2. pc[t] \in Exclusive /\ pc'[t] \notin Toggling /\ pc'[t] \notin Exclusive
    BY <2>1 DEF Toggling, Exclusive
  <2>3. MutexHeld'
    BY <1>2, <2>1, <2>2, OwnLock DEF Exclusive
  <2>4. GenerationsGrow'
    BY <1>2, <1>4, <1>5, <2>1, <2>2, OwnStep
  <2> QED BY <1>8, <2>3, <2>4
<1>21. CASE RequestFails(t) \/ RequestTimesOut(t)
  <2>1. /\ pc[t] \in {"starting", "stopping", "cancelling"}
        /\ \/ pc[t] = "starting" /\ pc'[t] = "refused" /\ lock' = lock
           \/ pc'[t] = "idle" /\ (op[t] = "shutdown" => lock' = lock)
        /\ UNCHANGED <<session, now, op, sess, old, floor>>
    BY <1>1, <1>21 DEF RequestFails, RequestTimesOut, Requesting, Fails, ShellTypes
  <2>2. pc[t] \in Exclusive /\ "idle" \notin Toggling /\ "idle" \notin Exclusive
        /\ pc'[t] \notin {"starting", "started", "releasing"}
        /\ (pc[t] = "starting" => pc[t] \in Toggling /\ pc[t] \notin {"stopping", "stopped"})
    BY <2>1 DEF Toggling, Exclusive
  <2>3. op[t] # "shutdown" => lock = t
    BY <2>2, Alone
  <2>4. MutexHeld'
    BY <1>2, <1>6, <2>1, <2>2, <2>3, OwnLock
  <2>5. GenerationsGrow'
    BY <1>2, <1>4, <1>5, <1>6, <2>1, <2>2, OwnStep
  <2> QED BY <1>8, <2>4, <2>5
<1> QED
  BY <1>9, <1>10, <1>11, <1>12, <1>13, <1>14, <1>15, <1>16, <1>17, <1>18, <1>19, <1>20, <1>21
     DEF Command

LEMMA StepKeepsGen == GenInv /\ [Next]_vars => GenInv'
<1> SUFFICES ASSUME GenInv, [Next]_vars PROVE GenInv'
  OBVIOUS
<1>1. OneDaemon /\ ShellTypes /\ MutexHeld /\ GenerationsGrow
  BY DEF GenInv
<1>2. CASE UNCHANGED vars
  BY <1>2 DEF vars, service, thread, GenInv, OneDaemon, ShellTypes, MutexHeld, GenerationsGrow
<1>3. ASSUME NEW t \in Threads, Command(t) PROVE GenInv'
  BY <1>3, CommandKeepsGen
<1>4. ASSUME NEW t \in Threads, Delivery(t) PROVE GenInv'
  <2>1. /\ ShellTypes' /\ \A u \in Threads \ {t} : pc'[u] = pc[u]
        /\ pc'[t] \notin Exclusive /\ UNCHANGED <<session, now, floor, lock, op, sess, old>>
    BY <1>1, <1>4, DeliveryFrame DEF Frame
  <2>2. \A u \in Threads : pc'[u] \in Exclusive => pc[u] = pc'[u]
    BY <2>1
  <2>3. /\ Toggling \subseteq Exclusive /\ "releasing" \in Exclusive
        /\ {"starting", "started"} \subseteq Exclusive
    BY DEF Toggling, Exclusive
  <2>4. MutexHeld'
    BY <1>1, <2>1, <2>2, <2>3 DEF MutexHeld
  <2>5. GenerationsGrow'
    BY <1>1, <2>1, <2>2, <2>3 DEF GenerationsGrow
  <2> QED BY <1>1, <2>1, <2>4, <2>5 DEF GenInv, OneDaemon
<1>5. CASE Environment
  <2>1. ShellTypes' /\ UNCHANGED <<op, sess, old>>
        /\ (UNCHANGED <<session, now, floor, pc, lock>> \/ DaemonExits)
    BY <1>1, <1>5, EnvironmentFrame
  <2>2. CASE UNCHANGED <<session, now, floor, pc, lock>>
    BY <1>1, <2>1, <2>2 DEF GenInv, OneDaemon, MutexHeld, GenerationsGrow
  <2>3. CASE DaemonExits
    \* All of its threads end with it.
    <3>1. \A t \in Threads : pc'[t] = "idle"
      BY <1>1, <2>3 DEF DaemonExits, OneDaemon
    <3>2. MutexHeld'
      BY <3>1 DEF MutexHeld, Toggling, Exclusive
    <3>3. session.id \in Nat /\ floor \in Nat /\ now \in Nat
      BY <1>1 DEF ShellTypes, Sessions
    <3>4. NextId(session.id) \in Nat /\ now <= NextId(session.id)
      BY <1>1, <3>3, NextIdGrows
    <3>5. /\ session'.id = NextId(session.id) /\ now' = NextId(session.id) + 1
          /\ floor' \in {floor, session'.id}
      BY <2>3 DEF DaemonExits, State
    <3>6. floor <= session.id /\ session.id < now
      BY <1>1 DEF GenerationsGrow
    <3>7. floor' <= session'.id /\ session'.id < now'
      BY <3>3, <3>4, <3>5, <3>6
    <3>8. GenerationsGrow'
      BY <3>1, <3>7 DEF GenerationsGrow, Toggling
    <3> QED BY <1>1, <2>1, <3>2, <3>8 DEF GenInv, OneDaemon
  <2> QED BY <2>1, <2>2, <2>3
<1> QED BY <1>2, <1>3, <1>4, <1>5 DEF Next

\* Where all commands are threads of one daemon, no dictation that a cancel, a retry, a
\* newer recording, the daemon's exit or a shutdown that met no toggle half-way has ended
\* gets as far as typing or sending a key.
THEOREM CancelsHold == Spec /\ OneDaemon => CancelledStaysCancelled
<1>1. GenInv /\ [Next]_vars => [\A t \in Threads : Acts(t) => sess[t] >= floor]_vars
  <2> SUFFICES ASSUME GenInv, Next, NEW t \in Threads, Acts(t) PROVE sess[t] >= floor
    BY DEF vars
  <2>1. ShellTypes /\ floor <= session.id
    BY DEF GenInv, GenerationsGrow
  <2>2. Current(sess[t])
    <3>1. ASSUME Environment PROVE FALSE
      <4>1. UNCHANGED pc \/ DaemonExits
        BY <2>1, <3>1, EnvironmentFrame
      <4>2. pc'[t] \in {"idle", pc[t]}
        BY <4>1 DEF DaemonExits
      <4> QED BY <4>2 DEF Acts, Acting
    <3>2. ASSUME NEW u \in Threads, Command(u) PROVE FALSE
      <4>1. Frame(u) /\ pc'[u] \in {"idle", "waiting", "delivering"} \cup Exclusive
        BY <2>1, <3>2, CommandTypes
      <4>2. CASE u = t
        BY <4>1, <4>2 DEF Acts, Acting, Exclusive, Toggling
      <4>3. CASE u # t
        BY <4>1, <4>3 DEF Acts, Frame
      <4> QED BY <4>2, <4>3
    <3>3. ASSUME NEW u \in Threads, Delivery(u), u # t PROVE FALSE
      BY <2>1, <3>3, DeliveryFrame DEF Acts, Frame
    <3>4. CASE Delivery(t)
      BY <2>1, <3>4 DEF Delivery, Polls, WaitEnds, ChecksTranscript, Remembers, ChoosesMode, Types,
         LocksClipboard, PublishesText, Verifies, SendsKey, Completes, Releases, Finish, Goto,
         Acts, Acting, ShellTypes
    <3> QED BY <3>1, <3>2, <3>3, <3>4 DEF Next
  <2>3. session.id = sess[t] /\ floor \in Nat /\ session.id \in Nat
    BY <2>1, <2>2 DEF Current, ShellTypes, Sessions
  <2> QED BY <2>1, <2>3
<1> QED BY <1>1, GenInitially, StepKeepsGen, PTL DEF Spec, CancelledStaysCancelled

-----------------------------------------------------------------------------
(* The event buffer: events are numbered without a gap, and the notices of a  *)
(* superseding start are a sequence because its sessions can be sorted.       *)

LEMMA LeastElement ==
  ASSUME NEW S, S \subseteq Nat, S # {}
  PROVE  \E m \in S : \A x \in S : m <= x
<1>1. PICK m \in S : \A x \in S : <<x, m>> \notin OpToRel(<, Nat)
  BY NatLessThanWellFounded, WFMin
<1>2. ASSUME NEW x \in S PROVE m <= x
  <2>1. m \in Nat /\ x \in Nat
    OBVIOUS
  <2>2. ~(x < m)
    BY <1>1, <2>1 DEF OpToRel
  <2> QED BY <2>1, <2>2
<1> QED BY <1>2

Sorts(q, S) == q \in [1..Cardinality(S) -> S] /\ \A i, j \in DOMAIN q : i < j => q[i] < q[j]

\* The smallest set that could not be sorted would lose its least element.
LEMMA Sortable ==
  ASSUME NEW S, S \subseteq Nat, IsFiniteSet(S) PROVE \E q : Sorts(q, S)
<1> DEFINE Bad == {n \in Nat : \E T \in SUBSET Nat : IsFiniteSet(T) /\ Cardinality(T) = n /\ ~\E q : Sorts(q, T)}
<1>1. Bad = {}
  <2> SUFFICES ASSUME Bad # {} PROVE FALSE
    OBVIOUS
  <2>1. PICK n \in Bad : \A k \in Bad : n <= k
    BY LeastElement
  <2>2. PICK T \in SUBSET Nat : IsFiniteSet(T) /\ Cardinality(T) = n /\ ~\E q : Sorts(q, T)
    BY <2>1
  <2>3. T # {}
    <3> SUFFICES ASSUME T = {} PROVE FALSE
      OBVIOUS
    <3>1. Cardinality(T) = 0
      BY FS_EmptySet
    <3> DEFINE q == [i \in 1..Cardinality(T) |-> 0]
    <3>2. Sorts(q, T)
      BY <3>1 DEF Sorts
    <3> QED BY <2>2, <3>2
  <2>4. PICK m \in T : \A x \in T : m <= x
    BY <2>3, LeastElement
  <2> DEFINE U == T \ {m}
  <2>5. IsFiniteSet(U) /\ Cardinality(U) = n - 1
    BY <2>2, FS_RemoveElement
  <2>6. n \in Nat /\ n - 1 \in Nat
    BY <2>5, FS_CardinalityType
  <2>7. PICK p : Sorts(p, U)
    <3>1. n - 1 \notin Bad
      BY <2>1, <2>6
    <3> QED BY <2>5, <2>6, <3>1
  <2> DEFINE q == [i \in 1..n |-> IF i = 1 THEN m ELSE p[i - 1]]
  <2> HIDE DEF Bad
  <2>8. p \in [1..n-1 -> U] /\ \A i, j \in 1..n-1 : i < j => p[i] < p[j]
    BY <2>5, <2>7 DEF Sorts
  <2>9. \A i \in 1..n : i # 1 => i - 1 \in 1..n-1 /\ p[i - 1] \in U
    BY <2>6, <2>8
  <2>10. q \in [1..n -> T]
    BY <2>6, <2>9
  <2>11. ASSUME NEW i \in 1..n, NEW j \in 1..n, i < j PROVE q[i] < q[j]
    <3>1. j # 1 /\ p[j - 1] \in U /\ j - 1 \in 1..n-1
      BY <2>6, <2>9, <2>11
    <3>2. CASE i = 1
      <4>1. q[i] = m /\ q[j] = p[j - 1]
        BY <3>1, <3>2
      <4>2. p[j - 1] \in Nat /\ m \in Nat /\ m <= p[j - 1] /\ p[j - 1] # m
        BY <2>4, <3>1
      <4> QED BY <4>1, <4>2
    <3>3. CASE i # 1
      <4>1. i - 1 \in 1..n-1 /\ i - 1 < j - 1
        BY <2>6, <2>11, <3>3
      <4>2. q[i] = p[i - 1] /\ q[j] = p[j - 1]
        BY <3>1, <3>3
      <4> QED BY <2>8, <3>1, <4>1, <4>2
    <3> QED BY <3>2, <3>3
  <2>12. Sorts(q, T)
    BY <2>2, <2>10, <2>11 DEF Sorts
  <2> QED BY <2>2, <2>12
<1> QED BY <1>1, FS_CardinalityType

\* What the service appends: kinds and sessions, not yet numbered.
Bare == [kind : {"transcript", "terminal", "other"}, session : Nat]

LEMMA NoticesTyped ==
  ASSUME NEW S, S \subseteq Nat, IsFiniteSet(S)
  PROVE  /\ TerminalNotices(S) \in Seq(Bare)
         /\ \A j \in DOMAIN TerminalNotices(S) : TerminalNotices(S)[j].session \in S
<1>1. Cardinality(S) \in Nat
  BY FS_CardinalityType
<1>2. Ordered(S) \in [1..Cardinality(S) -> S]
  <2>1. \E q \in [1..Cardinality(S) -> S] : \A i, j \in DOMAIN q : i < j => q[i] < q[j]
    BY Sortable DEF Sorts
  <2> QED BY <2>1 DEF Ordered
<1>3. \A i \in 1..Cardinality(S) : Event("terminal", Ordered(S)[i]) \in Bare
  BY <1>2 DEF Event, Bare
<1>4. TerminalNotices(S) \in [1..Cardinality(S) -> Bare]
  BY <1>3 DEF TerminalNotices
<1>5. \A j \in 1..Cardinality(S) : TerminalNotices(S)[j].session = Ordered(S)[j]
  BY <1>4 DEF TerminalNotices, Event
<1> QED BY <1>1, <1>2, <1>4, <1>5

\* Every event after a push was there before or is one of the new ones.
Pushes(events) ==
  /\ nextSeq' = nextSeq + Len(events)
  /\ \A i \in DOMAIN items' :
       \/ \E j \in DOMAIN items : items'[i] = items[j]
       \/ \E j \in DOMAIN events :
            /\ items'[i].seq = nextSeq + j
            /\ items'[i].kind = events[j].kind /\ items'[i].session = events[j].session

Buffered ==
  /\ nextSeq \in Nat /\ items \in Seq(Events) /\ Len(items) <= HistoryLimit /\ Consecutive

LEMMA Pushing ==
  ASSUME Buffered, NEW events \in Seq(Bare), Push(events)
  PROVE  Buffered' /\ Pushes(events)
<1> DEFINE all == items \o Numbered(events)
           n == Len(items)
           k == Len(events)
<1>1. n \in Nat /\ k \in Nat /\ nextSeq \in Nat /\ n <= nextSeq /\ HistoryLimit \in Nat \ {0}
      /\ \A i \in 1..n : items[i].seq = nextSeq - n + i /\ items[i] \in Events
  BY BoundAssumption DEF Buffered, Consecutive
<1>2. \A j \in 1..k : events[j].kind \in {"transcript", "terminal", "other"} /\ events[j].session \in Nat
  <2>1. \A j \in 1..k : events[j] \in Bare
    OBVIOUS
  <2> QED BY <2>1 DEF Bare
<1>3. /\ Numbered(events) \in Seq(Events) /\ Len(Numbered(events)) = k
      /\ \A j \in 1..k : Numbered(events)[j] =
           [seq |-> nextSeq + j, kind |-> events[j].kind, session |-> events[j].session]
  <2>1. \A j \in 1..k :
          [seq |-> nextSeq + j, kind |-> events[j].kind, session |-> events[j].session] \in Events
    BY <1>1, <1>2 DEF Events
  <2> QED BY <1>1, <2>1 DEF Numbered
<1>4. /\ all \in Seq(Events) /\ Len(all) = n + k
      /\ \A i \in 1..n + k : all[i] = IF i <= n THEN items[i] ELSE Numbered(events)[i - n]
  <2>1. items \in Seq(Events) /\ Numbered(events) \in Seq(Events) /\ Len(Numbered(events)) = k
    BY <1>3 DEF Buffered
  <2> HIDE DEF k
  <2>2. /\ all \in Seq(Events) /\ Len(all) = Len(items) + Len(Numbered(events))
        /\ \A i \in 1..Len(items) + Len(Numbered(events)) :
             all[i] = IF i <= Len(items) THEN items[i] ELSE Numbered(events)[i - Len(items)]
    BY <2>1, ConcatProperties
  <2> QED BY <2>1, <2>2
<1> HIDE DEF all
<1>5. nextSeq' = nextSeq + k /\ items' = Trimmed(all)
  BY DEF Push, all
\* The trimmed buffer is a suffix of all that was there.
<1>6. \E d \in Nat : /\ items' \in Seq(Events) /\ Len(items') = n + k - d /\ d <= n + k
                     /\ Len(items') <= HistoryLimit
                     /\ \A i \in 1..Len(items') : items'[i] = all[d + i] /\ d + i \in 1..n + k
  <2>1. CASE n + k > HistoryLimit
    <3> DEFINE d == n + k - HistoryLimit
    <3>1. d \in Nat /\ d + 1 \in Int /\ n + k \in Int /\ d + 1 <= n + k /\ d <= n + k
      BY <1>1, <2>1
    <3>2. items' = SubSeq(all, d + 1, n + k)
      BY <1>1, <1>4, <1>5, <2>1 DEF Trimmed
    <3>3. \A i \in d + 1..n + k : all[i] \in Events
      BY <1>1, <1>4, <3>1
    <3> HIDE DEF d
    <3>4. /\ items' \in Seq(Events) /\ Len(items') = n + k - (d + 1) + 1
          /\ \A i \in 1..n + k - (d + 1) + 1 : items'[i] = all[d + 1 + i - 1]
      BY <3>1, <3>2, <3>3, SubSeqProperties
    <3>5. Len(items') = n + k - d /\ \A i \in 1..Len(items') : d + 1 + i - 1 = d + i /\ d + i \in 1..n + k
      <4>1. Len(items') = n + k - (d + 1) + 1
        BY <3>4
      <4>2. n \in Nat /\ k \in Nat
        BY <1>1
      <4> HIDE DEF n, k
      <4>3. Len(items') = n + k - d
        BY <3>1, <4>1, <4>2
      <4>4. ASSUME NEW i \in 1..(n + k - d) PROVE d + 1 + i - 1 = d + i /\ d + i \in 1..n + k
        BY <3>1, <4>2
      <4> QED BY <4>3, <4>4
    <3>6. Len(items') = HistoryLimit
      BY <1>1, <3>5 DEF d
    <3>7. \A i \in 1..Len(items') : items'[i] = all[d + i]
      BY <3>4, <3>5
    <3>8. Len(items') <= HistoryLimit
      BY <1>1, <3>6
    <3> QED BY <3>1, <3>4, <3>5, <3>7, <3>8
  <2>2. CASE ~(n + k > HistoryLimit)
    <3>1. items' = all
      BY <1>4, <1>5, <2>2 DEF Trimmed
    <3>2. Len(items') = n + k - 0 /\ 0 <= n + k /\ Len(items') <= HistoryLimit
      BY <1>1, <1>4, <2>2, <3>1
    <3>3. \A i \in 1..Len(items') : items'[i] = all[0 + i] /\ 0 + i \in 1..n + k
      BY <1>1, <1>4, <3>1
    <3> QED BY <1>4, <3>1, <3>2, <3>3
  <2> QED BY <2>1, <2>2
<1>7. PICK d \in Nat : /\ items' \in Seq(Events) /\ Len(items') = n + k - d /\ d <= n + k
                       /\ Len(items') <= HistoryLimit
                       /\ \A i \in 1..Len(items') : items'[i] = all[d + i] /\ d + i \in 1..n + k
  BY <1>6
<1>8. ASSUME NEW i \in 1..Len(items')
      PROVE  /\ items'[i].seq = nextSeq' - Len(items') + i
             /\ \/ \E j \in DOMAIN items : items'[i] = items[j]
                \/ \E j \in DOMAIN events :
                     /\ items'[i].seq = nextSeq + j
                     /\ items'[i].kind = events[j].kind /\ items'[i].session = events[j].session
  <2>1. items'[i] = all[d + i] /\ d + i \in 1..n + k /\ i \in Nat
    BY <1>1, <1>7
  <2>2. CASE d + i <= n
    <3>1. d + i \in 1..n /\ items'[i] = items[d + i]
      BY <1>1, <1>4, <2>1, <2>2
    <3>2. items'[i].seq = nextSeq - n + (d + i)
      BY <1>1, <3>1
    <3> QED BY <1>1, <1>5, <1>7, <2>1, <3>1, <3>2
  <2>3. CASE ~(d + i <= n)
    <3>1. d + i - n \in 1..k /\ items'[i] = Numbered(events)[d + i - n]
      BY <1>1, <1>4, <2>1, <2>3
    <3>2. /\ items'[i].seq = nextSeq + (d + i - n) /\ items'[i].kind = events[d + i - n].kind
          /\ items'[i].session = events[d + i - n].session
      <4> DEFINE j == d + i - n
      <4>1. j \in 1..k /\ items'[i] = Numbered(events)[j]
        BY <3>1
      <4> HIDE DEF j
      <4>2. items'[i] = [seq |-> nextSeq + j, kind |-> events[j].kind, session |-> events[j].session]
        BY <1>3, <4>1
      <4>3. items'[i].seq = nextSeq + j /\ items'[i].kind = events[j].kind
            /\ items'[i].session = events[j].session
        BY <4>2
      <4> QED BY <4>3 DEF j
    <3> QED BY <1>1, <1>5, <1>7, <2>1, <3>1, <3>2
  <2> QED BY <2>2, <2>3
<1>9. nextSeq' \in Nat /\ Len(items') <= nextSeq'
  BY <1>1, <1>5, <1>7
<1>10. DOMAIN items' = 1..Len(items') /\ items' \in Seq(Events) /\ Len(items') <= HistoryLimit
  BY <1>7
<1>11. \A i \in DOMAIN items' : items'[i].seq = nextSeq' - Len(items') + i
  BY <1>8, <1>10
<1>12. Buffered'
  BY <1>9, <1>10, <1>11 DEF Buffered, Consecutive
<1>13. \A i \in DOMAIN items' :
         \/ \E j \in DOMAIN items : items'[i] = items[j]
         \/ \E j \in DOMAIN events :
              /\ items'[i].seq = nextSeq + j
              /\ items'[i].kind = events[j].kind /\ items'[i].session = events[j].session
  BY <1>8, <1>10
<1> QED BY <1>5, <1>12, <1>13 DEF Pushes

-----------------------------------------------------------------------------
(* The handlers of the service: what each leaves well-typed, and what it tells *)
(* of which session.                                                           *)

Desk ==
  /\ up \in BOOLEAN /\ active \in Nat /\ transcribing \subseteq Nat /\ delivering \subseteq Nat
  /\ Finite /\ Buffered

\* The service turns to session s (0: to none).  It works on what it worked on, or on
\* the recording that has just ended, and reports the outcome of nothing else.
Handled == transcribing \cup delivering \cup ({active} \ {active'}) \cup {0}
Effect(s) ==
  /\ active' \in {active, 0, s}
  /\ transcribing' \cup delivering' \subseteq Handled
  /\ \A i \in DOMAIN items' :
       \/ \E j \in DOMAIN items : items'[i] = items[j]
       \/ items'[i].kind = "other"
       \/ items'[i].seq > nextSeq /\ items'[i].session \in Handled

\* Appending events of no consequence, or the outcomes of what it worked on.
LEMMA Appending ==
  ASSUME Buffered, NEW events \in Seq(Bare), Push(events),
         \A j \in DOMAIN events : events[j].kind = "other" \/ events[j].session \in Handled
  PROVE  /\ Buffered' /\ nextSeq <= nextSeq'
         /\ \A i \in DOMAIN items' :
              \/ \E j \in DOMAIN items : items'[i] = items[j]
              \/ items'[i].kind = "other"
              \/ items'[i].seq > nextSeq /\ items'[i].session \in Handled
<1>1. Buffered' /\ Pushes(events)
  BY Pushing
<1>2. nextSeq \in Nat /\ Len(events) \in Nat /\ nextSeq' = nextSeq + Len(events)
      /\ DOMAIN events = 1..Len(events)
  BY <1>1 DEF Buffered, Pushes
<1>3. ASSUME NEW i \in DOMAIN items', NEW j \in DOMAIN events, items'[i].seq = nextSeq + j,
             items'[i].kind = events[j].kind, items'[i].session = events[j].session
      PROVE  \/ items'[i].kind = "other"
             \/ items'[i].seq > nextSeq /\ items'[i].session \in Handled
  <2>1. j \in Nat /\ j > 0
    BY <1>2
  <2>2. nextSeq + j > nextSeq
    BY <1>2, <2>1
  <2> QED BY <1>3, <2>2
<1>4. nextSeq <= nextSeq'
  BY <1>2
<1> QED BY <1>1, <1>3, <1>4 DEF Pushes

LEMMA SingleEvent ==
  ASSUME NEW kind \in {"transcript", "terminal", "other"}, NEW s \in Nat
  PROVE  /\ <<Event(kind, s)>> \in Seq(Bare) /\ DOMAIN <<Event(kind, s)>> = {1}
         /\ <<Event(kind, s)>>[1].kind = kind /\ <<Event(kind, s)>>[1].session = s
BY DEF Event, Bare

LEMMA StartEffect ==
  ASSUME Desk, NEW s \in Nat, NEW outcome, StartRecording(s, outcome)
  PROVE  /\ Desk' /\ UNCHANGED <<up, last>> /\ nextSeq <= nextSeq'
         /\ active' = IF outcome = "started" THEN s ELSE 0
         /\ s # active => Effect(s)
<1> DEFINE notices == TerminalNotices(Superseded)
           started == IF outcome = "started" THEN <<Event("other", s)>> ELSE <<>>
           events == notices \o started
<1>1. /\ transcribing' = {} /\ delivering' = {} /\ Push(events) /\ UNCHANGED <<up, last>>
      /\ active' = IF outcome = "started" THEN s ELSE 0
  BY DEF StartRecording
<1>2. Superseded \subseteq Nat /\ IsFiniteSet(Superseded)
  <2>1. IsFiniteSet(transcribing \cup delivering)
    BY FS_Union DEF Desk, Finite
  <2>2. IsFiniteSet(transcribing \cup delivering \cup {active})
    BY <2>1, FS_AddElement
  <2>3. IsFiniteSet(Superseded)
    BY <2>2, FS_RemoveElement DEF Superseded
  <2> QED BY <2>3 DEF Superseded, Desk
<1>3. notices \in Seq(Bare) /\ \A j \in DOMAIN notices : notices[j].session \in Superseded
  BY <1>2, NoticesTyped
<1>4. started \in Seq(Bare) /\ \A j \in DOMAIN started : started[j].kind = "other"
  BY SingleEvent
<1> HIDE DEF notices, started
<1>5. events \in Seq(Bare)
      /\ \A j \in DOMAIN events : events[j].kind = "other" \/ events[j].session \in Superseded
  <2>1. /\ events \in Seq(Bare) /\ Len(events) = Len(notices) + Len(started)
        /\ \A j \in 1..Len(notices) + Len(started) :
             events[j] = IF j <= Len(notices) THEN notices[j] ELSE started[j - Len(notices)]
    BY <1>3, <1>4, ConcatProperties
  <2>2. /\ DOMAIN notices = 1..Len(notices) /\ DOMAIN started = 1..Len(started)
        /\ DOMAIN events = 1..Len(events) /\ Len(notices) \in Nat /\ Len(started) \in Nat
    BY <1>3, <1>4, <2>1
  <2> HIDE DEF events
  <2>3. ASSUME NEW j \in DOMAIN events
        PROVE  events[j].kind = "other" \/ events[j].session \in Superseded
    <3>1. CASE j <= Len(notices)
      <4>1. j \in DOMAIN notices /\ events[j] = notices[j]
        BY <2>1, <2>2, <3>1
      <4> QED BY <1>3, <4>1
    <3>2. CASE ~(j <= Len(notices))
      <4>1. j - Len(notices) \in DOMAIN started /\ events[j] = started[j - Len(notices)]
        BY <2>1, <2>2, <3>2
      <4> QED BY <1>4, <4>1
    <3> QED BY <3>1, <3>2
  <2> QED BY <2>1, <2>3
<1> HIDE DEF events
<1>6. Buffered' /\ Pushes(events)
  BY <1>1, <1>5, Pushing DEF Desk
<1>7. nextSeq <= nextSeq'
  <2>1. nextSeq \in Nat /\ Len(events) \in Nat
    BY <1>5 DEF Desk, Buffered
  <2> QED BY <1>6, <2>1 DEF Pushes
<1>8. Desk'
  BY <1>1, <1>6, FS_EmptySet DEF Desk, Finite
<1>9. ASSUME s # active PROVE Effect(s)
  <2>1. Superseded \subseteq Handled
    BY <1>1, <1>9 DEF Superseded, Handled
  <2>2. \A j \in DOMAIN events : events[j].kind = "other" \/ events[j].session \in Handled
    BY <1>5, <2>1
  <2>3. \A i \in DOMAIN items' :
          \/ \E j \in DOMAIN items : items'[i] = items[j]
          \/ items'[i].kind = "other"
          \/ items'[i].seq > nextSeq /\ items'[i].session \in Handled
    BY <1>1, <1>5, <2>2, Appending DEF Desk
  <2> QED BY <1>1, <2>3 DEF Effect
<1> QED BY <1>1, <1>7, <1>8, <1>9

LEMMA StopEffect ==
  ASSUME Desk, NEW s \in Nat, NEW outcome, StopRecording(s, outcome)
  PROVE  /\ Desk' /\ UNCHANGED <<up, last>> /\ nextSeq <= nextSeq' /\ Effect(0)
         /\ IF outcome = "refused" THEN active # s /\ active' = active ELSE active = s /\ active' = 0
<1>1. CASE outcome = "refused"
  <2>1. active # s /\ UNCHANGED <<up, active, transcribing, delivering, last, nextSeq, items>>
    BY <1>1 DEF StopRecording
  <2>2. nextSeq <= nextSeq'
    BY <2>1 DEF Desk, Buffered
  <2> QED BY <1>1, <2>1, <2>2 DEF Desk, Finite, Buffered, Consecutive, Effect, Handled
<1>2. CASE outcome # "refused"
  <2> DEFINE kind == IF outcome = "queued" THEN "other" ELSE "terminal"
  <2>1. /\ active = s /\ active' = 0 /\ UNCHANGED <<up, delivering, last>>
        /\ transcribing' \in {transcribing, transcribing \cup {s}}
        /\ Push(<<Event(kind, s)>>)
    BY <1>2 DEF StopRecording
  <2>2. s \in Handled
    BY <2>1 DEF Handled
  <2>3. /\ Buffered' /\ nextSeq <= nextSeq'
        /\ \A i \in DOMAIN items' :
             \/ \E j \in DOMAIN items : items'[i] = items[j]
             \/ items'[i].kind = "other"
             \/ items'[i].seq > nextSeq /\ items'[i].session \in Handled
    <3>1. <<Event(kind, s)>> \in Seq(Bare)
          /\ \A j \in DOMAIN <<Event(kind, s)>> : <<Event(kind, s)>>[j].session \in Handled
      BY <2>2, SingleEvent
    <3> HIDE DEF kind
    <3> QED BY <2>1, <3>1, Appending DEF Desk
  <2>4. Desk'
    BY <2>1, <2>3, FS_AddElement DEF Desk, Finite
  <2>5. Effect(0)
    BY <2>1, <2>2, <2>3 DEF Effect, Handled
  <2> QED BY <1>2, <2>1, <2>3, <2>4, <2>5
<1> QED BY <1>1, <1>2

LEMMA CancelEffect ==
  ASSUME Desk, CancelAll
  PROVE  Desk' /\ UNCHANGED <<up, last>> /\ nextSeq <= nextSeq' /\ Effect(0) /\ active' = 0
<1>1. /\ active' = 0 /\ transcribing' = {} /\ delivering' = {} /\ UNCHANGED <<up, last>>
      /\ Push(<<Event("other", 0)>>)
  BY DEF CancelAll
<1>2. /\ <<Event("other", 0)>> \in Seq(Bare)
      /\ \A j \in DOMAIN <<Event("other", 0)>> : <<Event("other", 0)>>[j].kind = "other"
  BY SingleEvent
<1>3. /\ Buffered' /\ nextSeq <= nextSeq'
      /\ \A i \in DOMAIN items' :
           \/ \E j \in DOMAIN items : items'[i] = items[j]
           \/ items'[i].kind = "other"
           \/ items'[i].seq > nextSeq /\ items'[i].session \in Handled
  BY <1>1, <1>2, Appending DEF Desk
<1> QED BY <1>1, <1>3, FS_EmptySet DEF Desk, Finite, Effect

LEMMA ProgressEffect ==
  ASSUME Desk, Progress
  PROVE  Desk' /\ UNCHANGED <<up, active>> /\ nextSeq <= nextSeq' /\ Effect(0)
<1>1. UNCHANGED <<up, active, transcribing, delivering>> /\ Push(<<Event("other", 0)>>)
  BY DEF Progress
<1>2. /\ <<Event("other", 0)>> \in Seq(Bare)
      /\ \A j \in DOMAIN <<Event("other", 0)>> : <<Event("other", 0)>>[j].kind = "other"
  BY SingleEvent
<1>3. /\ Buffered' /\ nextSeq <= nextSeq'
      /\ \A i \in DOMAIN items' :
           \/ \E j \in DOMAIN items : items'[i] = items[j]
           \/ items'[i].kind = "other"
           \/ items'[i].seq > nextSeq /\ items'[i].session \in Handled
  BY <1>1, <1>2, Appending DEF Desk
<1> QED BY <1>1, <1>3 DEF Desk, Finite, Effect, Handled

LEMMA TranscribeEffect ==
  ASSUME Desk, NEW s \in transcribing, Transcribes(s)
  PROVE  Desk' /\ UNCHANGED <<up, active>> /\ nextSeq <= nextSeq' /\ Effect(0)
<1>1. /\ transcribing' = transcribing \ {s} /\ UNCHANGED <<up, active>>
      /\ delivering' \in {delivering, delivering \cup {s}}
  BY DEF Transcribes
<1>2. PICK kind \in {"transcript", "terminal"} : Push(<<Event(kind, s)>>)
  BY DEF Transcribes
<1>3. s \in Handled /\ s \in Nat
  BY DEF Handled, Desk
<1>4. <<Event(kind, s)>> \in Seq(Bare)
      /\ \A j \in DOMAIN <<Event(kind, s)>> : <<Event(kind, s)>>[j].session \in Handled
  BY <1>3, SingleEvent
<1>5. /\ Buffered' /\ nextSeq <= nextSeq'
      /\ \A i \in DOMAIN items' :
           \/ \E j \in DOMAIN items : items'[i] = items[j]
           \/ items'[i].kind = "other"
           \/ items'[i].seq > nextSeq /\ items'[i].session \in Handled
  BY <1>2, <1>4, Appending DEF Desk
<1>6. IsFiniteSet(transcribing \ {s}) /\ IsFiniteSet(delivering \cup {s})
  BY FS_RemoveElement, FS_AddElement DEF Desk, Finite
<1> QED BY <1>1, <1>3, <1>5, <1>6 DEF Desk, Finite, Effect, Handled

\* A stop, a start of the service and a completed delivery.
LEMMA StoppedEffect ==
  ASSUME Desk, Stopped PROVE Desk' /\ Effect(0) /\ up' = FALSE /\ last' = 0
<1>1. /\ up' = FALSE /\ active' = 0 /\ transcribing' = {} /\ delivering' = {}
      /\ last' = 0 /\ nextSeq' = 0 /\ items' = <<>>
  BY DEF Stopped
<1>2. Buffered'
  BY <1>1, BoundAssumption DEF Buffered, Consecutive
<1>3. Finite'
  BY <1>1, FS_EmptySet DEF Finite
<1>4. DOMAIN items' = {}
  BY <1>1
<1>5. Effect(0)
  BY <1>1, <1>4 DEF Effect
<1> QED BY <1>1, <1>2, <1>3, <1>5 DEF Desk

LEMMA DaemonStartsEffect ==
  ASSUME Desk, DaemonStarts PROVE Desk' /\ Effect(0) /\ up' = TRUE /\ UNCHANGED active
<1>1. /\ up' = TRUE /\ nextSeq' = 1 /\ items' = <<[seq |-> 1, kind |-> "other", session |-> 0]>>
      /\ UNCHANGED <<active, transcribing, delivering>>
  BY DEF DaemonStarts
<1>2. Buffered'
  BY <1>1, BoundAssumption DEF Buffered, Consecutive, Events
<1> QED BY <1>1, <1>2 DEF Desk, Finite, Effect, Handled

LEMMA CompleteEffect ==
  ASSUME Desk, NEW s \in Nat, DeliveryComplete(s)
  PROVE  Desk' /\ Effect(0) /\ UNCHANGED <<up, active, transcribing, last, nextSeq, items, orphans>>
<1>1. /\ delivering' = delivering \ {s}
      /\ UNCHANGED <<up, active, transcribing, last, nextSeq, items, orphans>>
  BY DEF DeliveryComplete
<1>2. IsFiniteSet(delivering')
  BY <1>1, FS_RemoveElement DEF Desk, Finite
<1> QED BY <1>1, <1>2 DEF Desk, Finite, Buffered, Consecutive, Effect, Handled

LEMMA NoEffect ==
  ASSUME Desk, UNCHANGED <<up, active, transcribing, delivering, nextSeq, items>>
  PROVE  Desk' /\ Effect(0)
BY DEF Desk, Finite, Buffered, Consecutive, Effect, Handled

-----------------------------------------------------------------------------
(* Type correctness. *)

Requests == [command : {"start", "stop", "cancel"}, session : Nat]
ServiceTypes ==
  /\ Desk /\ orphans \subseteq Requests /\ daemonUp \in BOOLEAN
  /\ seqFile \in Nat /\ after \in [Threads -> Nat] /\ lock \in Daemon \cup {Nobody}
  /\ ops \in Nat /\ timeouts \in Nat /\ noise \in Nat /\ lives \in Nat

LEMMA TypesTogether == ShellTypes /\ DeliveryTypes /\ ServiceTypes <=> TypeInv
BY DEF TypeInv, TypeOK, ShellTypes, DeliveryTypes, ServiceTypes, Desk, Buffered, Requests, Operations

LEMMA ServiceInitially == Init => ServiceTypes
<1> SUFFICES ASSUME Init PROVE ServiceTypes
  OBVIOUS
<1> USE DEF Init
<1>1. Finite
  BY FS_EmptySet DEF Finite
<1>2. Buffered
  BY BoundAssumption DEF Buffered, Consecutive, Events
<1> QED BY <1>1, <1>2 DEF ServiceTypes, Desk, Requests

LEMMA CommandKeepsService ==
  ASSUME ShellTypes, ServiceTypes, NEW t \in Threads, Command(t) PROVE ServiceTypes'
<1> DEFINE Around ==
      /\ daemonUp \in BOOLEAN /\ seqFile \in Nat /\ after \in [Threads -> Nat]
      /\ lock \in Daemon \cup {Nobody}
      /\ ops \in Nat /\ timeouts \in Nat /\ noise \in Nat /\ lives \in Nat
<1>1. Desk /\ Around /\ orphans \subseteq Requests
  BY DEF ServiceTypes
<1>2. sess[t] \in Nat /\ seqFile \in Nat /\ after[t] \in Nat
  BY <1>1 DEF ShellTypes
<1>3. Locked(t) \in Daemon \cup {Nobody} /\ Unlocked(t) \in Daemon \cup {Nobody}
  BY <1>1 DEF Locked, Unlocked
<1>4. Around'
  <2> USE DEF Begins, Elsewhere
  <2>1. CASE ToggleStops(t) \/ ToggleStarts(t) \/ CancelBegins(t) \/ ShutdownBegins(t) \/ RetryBegins(t)
    BY <1>1, <1>2, <1>3, <2>1 DEF ToggleStops, ToggleStarts, CancelBegins, ShutdownBegins, RetryBegins
  <2>2. CASE PublishesSession(t) \/ ServiceStarts(t) \/ StartEnds(t) \/ ServiceStops(t)
    BY <1>1, <1>2, <1>3, <2>2 DEF PublishesSession, ServiceStarts, StartEnds, ServiceStops
  <2>3. CASE StopEnds(t) \/ ModifiersReleased(t) \/ Invalidates(t) \/ ServiceCancels(t)
    BY <1>1, <1>2, <1>3, <2>3 DEF StopEnds, ModifiersReleased, Invalidates, ServiceCancels
  <2>4. CASE RequestFails(t) \/ RequestTimesOut(t)
    BY <1>1, <1>2, <1>3, <2>4 DEF RequestFails, RequestTimesOut, Fails
  <2> QED BY <2>1, <2>2, <2>3, <2>4 DEF Command
<1>5. Desk' /\ orphans' \subseteq Requests
  <2>1. ASSUME UnchangedService PROVE Desk' /\ orphans' \subseteq Requests
    BY <1>1, <2>1, NoEffect DEF UnchangedService, service
  <2>2. CASE ToggleStops(t) \/ ToggleStarts(t) \/ CancelBegins(t) \/ ShutdownBegins(t) \/ RetryBegins(t)
             \/ PublishesSession(t) \/ StartEnds(t) \/ StopEnds(t) \/ ModifiersReleased(t)
             \/ Invalidates(t) \/ RequestFails(t)
    BY <2>1, <2>2 DEF ToggleStops, ToggleStarts, CancelBegins, ShutdownBegins, RetryBegins, Begins,
       PublishesSession, StartEnds, StopEnds, ModifiersReleased, Invalidates, RequestFails
  <2>3. CASE ServiceStarts(t)
    <3>1. PICK outcome : StartRecording(sess[t], outcome)
      BY <2>3 DEF ServiceStarts
    <3> QED BY <1>1, <1>2, <2>3, <3>1, StartEffect DEF ServiceStarts
  <2>4. CASE ServiceStops(t)
    <3>1. PICK outcome : StopRecording(sess[t], outcome)
      BY <2>4 DEF ServiceStops
    <3> QED BY <1>1, <1>2, <2>4, <3>1, StopEffect DEF ServiceStops
  <2>5. CASE ServiceCancels(t)
    <3>1. (Stopped /\ orphans' = {}) \/ (CancelAll /\ orphans' = orphans)
      BY <2>5 DEF ServiceCancels, Stopped
    <3> QED BY <1>1, <3>1, StoppedEffect, CancelEffect
  <2>6. CASE RequestTimesOut(t)
    <3>1. orphans' = orphans \cup {Request(t)}
          /\ UNCHANGED <<up, active, transcribing, delivering, nextSeq, items>>
      BY <2>6 DEF RequestTimesOut
    <3>2. Request(t) \in Requests
      BY <1>2 DEF Request, Requests
    <3> QED BY <1>1, <3>1, <3>2, NoEffect
  <2> QED BY <2>2, <2>3, <2>4, <2>5, <2>6 DEF Command
<1> QED BY <1>4, <1>5 DEF ServiceTypes

LEMMA LastSeenTyped ==
  ASSUME Desk, after \in [Threads -> Nat], NEW t \in Threads
  PROVE  /\ LastSeen(t) \in Nat
         /\ LastSeen(t) = after[t] \/ LastSeen(t) = nextSeq
<1>1. nextSeq \in Nat /\ items \in Seq(Events) /\ Consecutive
  BY DEF Desk, Buffered
<1>2. CASE Fresh(t) = {}
  BY <1>2 DEF LastSeen
<1>3. CASE Fresh(t) # {}
  <2>1. DOMAIN items = 1..Len(items) /\ Len(items) \in Nat /\ DOMAIN items # {}
    BY <1>1, <1>3 DEF Fresh
  <2>2. Len(items) \in DOMAIN items
    BY <2>1
  <2>3. items[Len(items)].seq = nextSeq - Len(items) + Len(items)
    BY <1>1, <2>2 DEF Consecutive
  <2> QED BY <1>1, <1>3, <2>1, <2>3 DEF LastSeen
<1> QED BY <1>2, <1>3

LEMMA DeliveryKeepsService ==
  ASSUME ShellTypes, ServiceTypes, NEW t \in Threads, Delivery(t)
  PROVE  /\ ServiceTypes' /\ Effect(0)
         /\ UNCHANGED <<up, active, transcribing, nextSeq, items, orphans, daemonUp, timeouts, lives>>
<1> DEFINE Rest == <<orphans, daemonUp, lock, ops, timeouts, noise, lives>>
<1>1. Desk /\ UNCHANGED Rest
  BY DEF ServiceTypes, Delivery, Polls, WaitEnds, ChecksTranscript, Remembers, ChoosesMode, Types,
     LocksClipboard, PublishesText, Verifies, SendsKey, Completes, RememberDelivery,
     DeliveryComplete, Delivers, Elsewhere, UnchangedService, service
<1>2. /\ Desk' /\ Effect(0)
      /\ UNCHANGED <<up, active, transcribing, nextSeq, items>>
  <2>1. ASSUME UnchangedService
        PROVE  Desk' /\ Effect(0) /\ UNCHANGED <<up, active, transcribing, nextSeq, items>>
    BY <1>1, <2>1, NoEffect DEF UnchangedService, service
  <2>2. CASE Polls(t) \/ WaitEnds(t) \/ ChecksTranscript(t) \/ ChoosesMode(t) \/ Types(t)
             \/ LocksClipboard(t) \/ PublishesText(t) \/ Verifies(t) \/ SendsKey(t)
    BY <2>1, <2>2 DEF Polls, WaitEnds, ChecksTranscript, ChoosesMode, Types, LocksClipboard,
       PublishesText, Verifies, SendsKey
  <2>3. CASE Remembers(t)
    <3>1. UNCHANGED <<up, active, transcribing, delivering, nextSeq, items>>
      BY <2>3 DEF Remembers, RememberDelivery, UnchangedService, service
    <3> QED BY <1>1, <3>1, NoEffect
  <2>4. CASE Completes(t)
    <3>1. DeliveryComplete(sess[t]) \/ UnchangedService
      BY <2>4 DEF Completes
    <3>2. CASE DeliveryComplete(sess[t])
      <4>1. sess[t] \in Nat
        BY DEF ShellTypes
      <4> QED BY <1>1, <3>2, <4>1, CompleteEffect
    <3> QED BY <2>1, <3>1, <3>2
  <2> QED BY <2>2, <2>3, <2>4 DEF Delivery
<1>3. seqFile' \in Nat /\ after' \in [Threads -> Nat]
  <2>1. seqFile \in Nat /\ after \in [Threads -> Nat]
    BY DEF ServiceTypes
  <2>2. CASE Polls(t)
    <3>1. LastSeen(t) \in Nat
      BY <1>1, <2>1, LastSeenTyped
    <3>2. after' = [after EXCEPT ![t] = IF Restarted(t) THEN 0 ELSE LastSeen(t)] /\ seqFile' = after'[t]
      BY <2>2 DEF Polls
    <3> QED BY <2>1, <3>1, <3>2
  <2>3. CASE ~Polls(t)
    <3>1. UNCHANGED <<seqFile, after>>
      BY <2>3 DEF Delivery, WaitEnds, ChecksTranscript, Remembers, ChoosesMode, Types,
         LocksClipboard, PublishesText, Verifies, SendsKey, Completes, Delivers
    <3> QED BY <2>1, <3>1
  <2> QED BY <2>2, <2>3
<1> QED BY <1>1, <1>2, <1>3 DEF ServiceTypes

LEMMA EnvironmentKeepsService ==
  ASSUME ShellTypes, ServiceTypes, Environment PROVE ServiceTypes'
<1>1. Desk /\ orphans \subseteq Requests
  BY DEF ServiceTypes
<1> USE DEF ServiceTypes
<1>2. CASE \E s \in transcribing : Transcribes(s)
  <2>1. PICK s \in transcribing : Transcribes(s)
    BY <1>2
  <2>2. Desk' /\ UNCHANGED <<orphans, seqFile, daemonUp, thread, budget>>
    BY <1>1, <2>1, TranscribeEffect DEF Transcribes
  <2> QED BY <2>2 DEF thread, budget
<1>3. CASE Progress
  <2>1. Desk' /\ UNCHANGED <<orphans, seqFile, daemonUp, thread, ops, timeouts, lives>> /\ noise' = noise + 1
    BY <1>1, <1>3, ProgressEffect DEF Progress
  <2> QED BY <2>1 DEF thread
<1>4. CASE \E r \in orphans : OrphanRuns(r)
  <2>1. PICK r \in orphans : OrphanRuns(r)
    BY <1>4
  <2>2. r.session \in Nat
    BY <1>1 DEF Requests
  <2>3. (\E o : StartRecording(r.session, o)) \/ (\E o : StopRecording(r.session, o)) \/ CancelAll
    BY <2>1 DEF OrphanRuns
  <2>4. Desk'
    BY <1>1, <2>2, <2>3, StartEffect, StopEffect, CancelEffect
  <2>5. orphans' \subseteq Requests /\ UNCHANGED <<seqFile, daemonUp, thread, budget>>
    BY <1>1, <2>1 DEF OrphanRuns
  <2> QED BY <2>4, <2>5 DEF thread, budget
<1>5. CASE ServiceDies
  <2>1. Stopped /\ UNCHANGED <<seqFile, daemonUp, thread, budget>>
    BY <1>5 DEF ServiceDies
  <2>2. Desk' /\ orphans' = {}
    BY <1>1, <2>1, StoppedEffect DEF Stopped
  <2> QED BY <2>1, <2>2 DEF thread, budget
<1>6. CASE UserCopies
  <2>1. Desk' /\ UNCHANGED <<orphans, seqFile, daemonUp, thread, budget>>
    BY <1>1, <1>6, NoEffect DEF UserCopies, service
  <2> QED BY <2>1 DEF thread, budget
<1>7. CASE DaemonExits
  <2>1. Desk' /\ UNCHANGED <<orphans, seqFile, after, budget>> /\ daemonUp' = FALSE /\ lock' = Nobody
    BY <1>1, <1>7, NoEffect DEF DaemonExits, service
  <2> QED BY <2>1 DEF budget
<1>8. CASE DaemonStarts
  <2>1. Desk'
    BY <1>1, <1>8, DaemonStartsEffect
  <2>2. /\ UNCHANGED <<orphans, seqFile, thread, ops, timeouts, noise>>
        /\ daemonUp' = TRUE /\ lives' = lives + 1
    BY <1>8 DEF DaemonStarts
  <2> QED BY <2>1, <2>2 DEF thread
<1> QED BY <1>2, <1>3, <1>4, <1>5, <1>6, <1>7, <1>8 DEF Environment

LEMMA Typed == Spec => [](ClipInv /\ ServiceTypes)
<1>1. ClipInv /\ ServiceTypes /\ [Next]_vars => ServiceTypes'
  <2> SUFFICES ASSUME ClipInv, ServiceTypes, [Next]_vars PROVE ServiceTypes'
    OBVIOUS
  <2>1. ShellTypes
    BY DEF ClipInv
  <2>2. CASE UNCHANGED vars
    <3>1. Desk'
      BY <2>2, NoEffect DEF vars, service, ServiceTypes
    <3> QED BY <2>2, <3>1 DEF vars, service, thread, budget, ServiceTypes
  <2>3. CASE Next
    BY <2>1, <2>3, CommandKeepsService, DeliveryKeepsService, EnvironmentKeepsService DEF Next
  <2> QED BY <2>2, <2>3
<1> QED BY <1>1, ClipInitially, StepKeepsClip, ServiceInitially, PTL DEF Spec

\* The files, the service, its event buffer and the threads are well-typed, and the
\* buffer holds no more than its limit (EVENT_HISTORY_LIMIT).
THEOREM TypeCorrect == Spec => []TypeOK
<1>1. ClipInv /\ ServiceTypes => TypeOK
  BY TypesTogether DEF ClipInv, TypeInv
<1> QED BY <1>1, Typed, PTL

-----------------------------------------------------------------------------
(* A thread that waits finds its outcome.                                      *)

LEMMA Learns ==
  ASSUME NEW s, Effect(s), NEW x, Known(x)' PROVE Known(x) \/ x \in {0, s}
<1>1. CASE x = active'
  BY <1>1 DEF Effect, Known
<1>2. CASE x \in transcribing' \cup delivering'
  BY <1>2 DEF Effect, Handled, Known
<1>3. CASE HasOutcome(x)'
  <2>1. PICK i \in DOMAIN items' : items'[i].session = x /\ items'[i].kind # "other"
    BY <1>3 DEF HasOutcome
  <2>2. CASE \E j \in DOMAIN items : items'[i] = items[j]
    BY <2>1, <2>2 DEF HasOutcome, Known
  <2>3. CASE items'[i].session \in Handled
    BY <2>1, <2>3 DEF Handled, Known
  <2> QED BY <2>1, <2>2, <2>3 DEF Effect
<1> QED BY <1>1, <1>2, <1>3 DEF Known

LEMMA OpenKept ==
  ASSUME Open, NEW s, Effect(s), s = 0 \/ ~Known(s) PROVE Open'
<1> SUFFICES ASSUME active' # 0, active' \in transcribing' \cup delivering' \/ HasOutcome(active)'
             PROVE FALSE
  BY DEF Open
<1>1. active' \notin {active} \ {active'} /\ active' \in {active, s}
  BY DEF Effect
<1>2. active' \notin transcribing \cup delivering /\ ~HasOutcome(active')
  BY <1>1 DEF Open, Known
<1>3. active' \notin Handled
  BY <1>1, <1>2 DEF Handled
<1>4. HasOutcome(active)'
  BY <1>3 DEF Effect
<1>5. PICK i \in DOMAIN items' : items'[i].session = active' /\ items'[i].kind # "other"
  BY <1>4 DEF HasOutcome
<1>6. \E j \in DOMAIN items : items'[i] = items[j]
  BY <1>3, <1>5 DEF Effect
<1> QED BY <1>2, <1>5, <1>6 DEF HasOutcome

LEMMA CommandEffect ==
  ASSUME ShellTypes, ServiceTypes, Down, StartsAreNew, NEW t \in Threads, Command(t)
  PROVE  /\ Down' /\ (up' => up /\ nextSeq <= nextSeq') /\ lives' = lives
         /\ \/ /\ Effect(0) /\ orphans' \subseteq orphans
               /\ Starting(t)' => (Starting(t) /\ sess'[t] = sess[t]) \/ ToggleStarts(t)
            \/ pc[t] = "starting" /\ ~Starting(t)' /\ Effect(sess[t]) /\ orphans' = orphans
            \/ Effect(0) /\ ~Starting(t)' /\ orphans' = orphans \cup {Request(t)} /\ Requesting(t)
<1>1. /\ Desk /\ sess[t] \in Nat /\ nextSeq \in Nat /\ pc \in [Threads -> Labels]
  BY DEF ServiceTypes, ShellTypes, Desk, Buffered
<1> USE DEF Goto
<1>2. lives' = lives
  BY DEF Command, ToggleStops, ToggleStarts, PublishesSession, ServiceStarts, StartEnds, ServiceStops,
     StopEnds, CancelBegins, ShutdownBegins, RetryBegins, ModifiersReleased, Invalidates,
     ServiceCancels, RequestFails, RequestTimesOut, Fails, Begins, Elsewhere
<1>3. ASSUME UnchangedService
      PROVE  Down' /\ (up' => up /\ nextSeq <= nextSeq') /\ Effect(0) /\ orphans' = orphans
  BY <1>1, <1>3, NoEffect DEF UnchangedService, service, Down
<1>4. CASE ToggleStops(t) \/ CancelBegins(t) \/ ShutdownBegins(t) \/ RetryBegins(t) \/ StartEnds(t)
           \/ StopEnds(t) \/ ModifiersReleased(t) \/ Invalidates(t) \/ RequestFails(t)
  <2>1. UnchangedService
    BY <1>4 DEF ToggleStops, CancelBegins, ShutdownBegins, RetryBegins, Begins, StartEnds, StopEnds,
       ModifiersReleased, Invalidates, RequestFails
  <2>2. pc'[t] \notin {"publishing", "starting"}
    BY <1>1, <1>4 DEF ToggleStops, CancelBegins, ShutdownBegins, RetryBegins, StartEnds, StopEnds,
       ModifiersReleased, Invalidates, RequestFails, Fails
  <2> QED BY <1>2, <1>3, <2>1, <2>2 DEF Starting
<1>5. CASE ToggleStarts(t)
  <2>1. UnchangedService
    BY <1>5 DEF ToggleStarts, Begins
  <2> QED BY <1>2, <1>3, <1>5, <2>1
<1>6. CASE PublishesSession(t)
  <2>1. UnchangedService /\ Starting(t) /\ sess' = sess
    BY <1>6 DEF PublishesSession, Starting
  <2> QED BY <1>2, <1>3, <2>1
<1>7. CASE ServiceStarts(t)
  <2>1. PICK outcome \in {"started", "refused", "skipped"} :
          StartRecording(sess[t], outcome) /\ pc' = [pc EXCEPT ![t] = outcome]
    BY <1>7 DEF ServiceStarts
  <2>2. pc[t] = "starting" /\ up /\ orphans' = orphans /\ ~Starting(t)'
    BY <1>1, <1>7, <2>1 DEF ServiceStarts, Starting
  <2>3. sess[t] # active
    BY <2>2 DEF StartsAreNew, Starting, New, Known
  <2>4. up' /\ nextSeq <= nextSeq' /\ Effect(sess[t])
    BY <1>1, <2>1, <2>2, <2>3, StartEffect
  <2> QED BY <1>2, <2>2, <2>4 DEF Down
<1>8. CASE ServiceStops(t)
  <2>1. PICK outcome \in {"queued", "ended", "refused"} :
          /\ StopRecording(sess[t], outcome)
          /\ pc' = [pc EXCEPT ![t] = IF outcome = "refused" THEN "idle" ELSE "stopped"]
    BY <1>8 DEF ServiceStops
  <2>2. up /\ orphans' = orphans /\ ~Starting(t)'
    BY <1>1, <1>8, <2>1 DEF ServiceStops, Starting
  <2>3. up' /\ nextSeq <= nextSeq' /\ Effect(0)
    BY <1>1, <2>1, <2>2, StopEffect
  <2> QED BY <1>2, <2>2, <2>3 DEF Down
<1>9. CASE ServiceCancels(t)
  <2>1. pc'[t] \in {"idle", "delivering"} /\ up
    BY <1>1, <1>9 DEF ServiceCancels, AfterCancel
  <2>2. ~Starting(t)'
    BY <2>1 DEF Starting
  <2>3. CASE Stopped
    <3>1. Down' /\ ~up' /\ orphans' \subseteq orphans
      BY <2>3 DEF Stopped, Down
    <3> QED BY <1>1, <1>2, <2>2, <2>3, <3>1, StoppedEffect
  <2>4. CASE CancelAll /\ orphans' = orphans
    <3>1. up' /\ nextSeq <= nextSeq' /\ Effect(0)
      BY <1>1, <2>1, <2>4, CancelEffect
    <3> QED BY <1>2, <2>1, <2>2, <2>4, <3>1 DEF Down
  <2> QED BY <1>9, <2>3, <2>4 DEF ServiceCancels
<1>10. CASE RequestTimesOut(t)
  <2>1. /\ UNCHANGED <<up, active, transcribing, delivering, nextSeq, items>> /\ up /\ Requesting(t)
        /\ orphans' = orphans \cup {Request(t)} /\ pc'[t] \in {"idle", "refused"}
    BY <1>1, <1>10 DEF RequestTimesOut, Fails
  <2>2. Effect(0) /\ nextSeq <= nextSeq'
    BY <1>1, <2>1, NoEffect
  <2>3. ~Starting(t)'
    BY <2>1 DEF Starting
  <2> QED BY <1>2, <2>1, <2>2, <2>3 DEF Down
<1> QED BY <1>4, <1>5, <1>6, <1>7, <1>8, <1>9, <1>10 DEF Command

LEMMA EnvironmentEffect ==
  ASSUME ShellTypes, ServiceTypes, Down, StartsAreNew, Environment
  PROVE  /\ Down' /\ (up' => (up /\ nextSeq <= nextSeq' /\ lives' = lives) \/ lives' = lives + 1)
         /\ lives' \in {lives, lives + 1}
         /\ \/ Effect(0) /\ orphans' \subseteq orphans
            \/ \E r \in orphans : r.command = "start" /\ Effect(r.session) /\ orphans' = orphans \ {r}
<1>1. Desk /\ nextSeq \in Nat /\ orphans \subseteq Requests
  BY DEF ServiceTypes, Desk, Buffered
<1>2. CASE \E s \in transcribing : Transcribes(s)
  <2>1. PICK s \in transcribing : Transcribes(s)
    BY <1>2
  <2>2. UNCHANGED <<up, orphans, lives>> /\ nextSeq <= nextSeq' /\ Effect(0)
    BY <1>1, <2>1, TranscribeEffect DEF Transcribes, budget
  <2>3. up
    BY <2>1 DEF Down
  <2> QED BY <2>2, <2>3 DEF Down
<1>3. CASE Progress
  <2>1. up /\ UNCHANGED <<up, orphans, lives>> /\ nextSeq <= nextSeq' /\ Effect(0)
    BY <1>1, <1>3, ProgressEffect DEF Progress
  <2> QED BY <2>1 DEF Down
<1>4. CASE \E r \in orphans : OrphanRuns(r)
  <2>1. PICK r \in orphans : OrphanRuns(r)
    BY <1>4
  <2>2. r.session \in Nat /\ up /\ orphans' = orphans \ {r} /\ lives' = lives
    BY <1>1, <2>1 DEF Requests, OrphanRuns, budget
  <2>3. CASE r.command = "start" /\ \E o : StartRecording(r.session, o)
    <3>1. r.session # active
      BY <2>3 DEF StartsAreNew, New, Known
    <3>2. up' /\ nextSeq <= nextSeq' /\ Effect(r.session)
      BY <1>1, <2>2, <2>3, <3>1, StartEffect
    <3> QED BY <2>2, <2>3, <3>2 DEF Down
  <2>4. CASE (\E o : StopRecording(r.session, o)) \/ CancelAll
    <3>1. up' /\ nextSeq <= nextSeq' /\ Effect(0)
      BY <1>1, <2>2, <2>4, StopEffect, CancelEffect
    <3> QED BY <2>2, <3>1 DEF Down
  <2> QED BY <2>1, <2>3, <2>4 DEF OrphanRuns
<1>5. CASE ServiceDies
  <2>1. Stopped /\ lives' = lives
    BY <1>5 DEF ServiceDies, budget
  <2>2. Down' /\ ~up' /\ orphans' = {} /\ Effect(0)
    BY <1>1, <2>1, StoppedEffect DEF Stopped, Down
  <2> QED BY <2>1, <2>2
<1>6. CASE UserCopies \/ DaemonExits
  <2>1. UNCHANGED service /\ lives' = lives
    BY <1>6 DEF UserCopies, DaemonExits, budget
  <2>2. Effect(0) /\ nextSeq <= nextSeq'
    BY <1>1, <2>1, NoEffect DEF service
  <2> QED BY <2>1, <2>2 DEF service, Down
<1>7. CASE DaemonStarts
  <2>1. Effect(0) /\ up' /\ lives' = lives + 1 /\ orphans' = orphans
    BY <1>1, <1>7, DaemonStartsEffect DEF DaemonStarts
  <2> QED BY <2>1 DEF Down
<1> QED BY <1>2, <1>3, <1>4, <1>5, <1>6, <1>7 DEF Environment

\* What the service turns to was a start's session, or nothing; the starts that are
\* left were there before.
LEMMA StartsKept ==
  ASSUME StartsAreNew, NEW s \in Nat, Effect(s), s = 0 \/ New(s),
         now \in Nat, now' \in Nat, 0 < now, now <= now',
         \A u \in Threads : sess[u] \in Nat /\ (Starting(u)' => Starting(u) /\ sess'[u] = sess[u] /\ sess[u] # s),
         orphans \subseteq Requests,
         \A r \in orphans' : r.command = "start" => r \in orphans /\ r.session # s
  PROVE  StartsAreNew'
<1>1. ASSUME NEW x \in Nat, New(x), x # s PROVE New(x)'
  <2>1. ~Known(x)'
    BY <1>1, Learns DEF New
  <2> QED BY <1>1, <2>1 DEF New
<1>2. ASSUME NEW x \in Nat, Known(x)' PROVE x < now'
  <2>1. Known(x) \/ x \in {0, s}
    BY <1>2, Learns
  <2>2. x < now
    BY <2>1 DEF StartsAreNew, New
  <2> QED BY <2>2
<1>3. ASSUME NEW u \in Threads, Starting(u)' PROVE New(sess[u])'
  <2>1. New(sess[u]) /\ sess[u] # s /\ sess[u] \in Nat /\ sess'[u] = sess[u]
    BY <1>3 DEF StartsAreNew
  <2> DEFINE x == sess[u]
  <2>2. x \in Nat /\ New(x) /\ x # s /\ x = sess'[u]
    BY <2>1
  <2>3. PICK y \in Nat : y = x
    BY <2>2
  <2>4. New(y) /\ y # s
    BY <2>2, <2>3
  <2>5. New(y)'
    BY <1>1, <2>4
  <2> QED BY <2>2, <2>3, <2>5 DEF New, Known, HasOutcome
<1>4. ASSUME NEW r \in orphans', r.command = "start" PROVE New(r.session)'
  <2>1. r \in orphans /\ r.session # s
    BY <1>4
  <2>2. r.session \in Nat /\ New(r.session)
    BY <1>4, <2>1 DEF StartsAreNew, Requests
  <2>3. New(r.session)'
    BY <1>1, <2>1, <2>2
  <2> QED BY <2>3
<1>5. \A t, u \in Threads : Starting(t)' /\ Starting(u)' /\ t # u => sess'[t] # sess'[u]
  BY DEF StartsAreNew
<1>6. \A t \in Threads : \A r \in orphans' : Starting(t)' /\ r.command = "start" => r.session # sess'[t]
  BY DEF StartsAreNew
<1> QED BY <1>2, <1>3, <1>4, <1>5, <1>6 DEF StartsAreNew

LEMMA ClockRuns ==
  ASSUME ShellTypes, [Next]_vars PROVE now <= now' /\ now \in Nat /\ now' \in Nat
<1>1. now \in Nat /\ session \in Sessions /\ session.id \in Nat
      /\ \A t \in Threads : old[t].id \in Nat
  BY DEF ShellTypes, Sessions
<1>2. ASSUME NEW n \in Nat, now' = NextId(n) + 1 PROVE now <= now' /\ now' \in Nat
  BY <1>1, <1>2, NextIdGrows
<1>3. CASE UNCHANGED vars
  BY <1>1, <1>3 DEF vars
<1>4. ASSUME NEW t \in Threads, Command(t)
      PROVE  now' = now \/ now' = NextId(session.id) + 1 \/ now' = NextId(old[t].id) + 1
  BY <1>4 DEF Command, ToggleStops, ToggleStarts, PublishesSession, ServiceStarts, StartEnds,
     ServiceStops, StopEnds, CancelBegins, ShutdownBegins, RetryBegins, ModifiersReleased,
     Invalidates, ServiceCancels, RequestFails, RequestTimesOut, Fails
<1>5. ASSUME NEW t \in Threads, Delivery(t) PROVE now' = now
  BY <1>5, DeliveryFrame
<1>6. CASE Environment
  <2>1. now' = now \/ DaemonExits
    BY <1>6, EnvironmentFrame
  <2>2. DaemonExits => now' = NextId(session.id) + 1
    BY DEF DaemonExits
  <2> QED BY <1>1, <1>2, <2>1, <2>2
<1> QED BY <1>1, <1>2, <1>3, <1>4, <1>5, <1>6 DEF Next

LEMMA StartsStayNew ==
  ASSUME ShellTypes, ServiceTypes, Down, StartsAreNew, Named, Next PROVE StartsAreNew'
<1>1. /\ now \in Nat /\ now' \in Nat /\ now <= now' /\ 0 < now
      /\ orphans \subseteq Requests /\ \A u \in Threads : sess[u] \in Nat
  BY ClockRuns DEF ServiceTypes, Named, ShellTypes
<1>2. ASSUME NEW t \in Threads, Command(t) PROVE StartsAreNew'
  <2>1. /\ \/ /\ Effect(0) /\ orphans' \subseteq orphans
              /\ Starting(t)' => (Starting(t) /\ sess'[t] = sess[t]) \/ ToggleStarts(t)
           \/ pc[t] = "starting" /\ ~Starting(t)' /\ Effect(sess[t]) /\ orphans' = orphans
           \/ Effect(0) /\ ~Starting(t)' /\ orphans' = orphans \cup {Request(t)} /\ Requesting(t)
    BY <1>2, CommandEffect
  <2>2. \A u \in Threads \ {t} : pc'[u] = pc[u] /\ sess'[u] = sess[u]
    BY <1>2, CommandTypes DEF Frame
  <2>3. \A u \in Threads \ {t} : Starting(u)' => Starting(u) /\ sess'[u] = sess[u]
    BY <2>2 DEF Starting
  <2>4. \A u \in Threads : Starting(u) => sess[u] # 0
    BY DEF StartsAreNew, New
  <2>5. \A r \in orphans : r.command = "start" => r.session # 0
    BY DEF StartsAreNew, New
  <2>6. CASE Effect(0) /\ orphans' \subseteq orphans /\ (Starting(t)' => Starting(t) /\ sess'[t] = sess[t])
    <3>1. \A u \in Threads : Starting(u)' => Starting(u) /\ sess'[u] = sess[u] /\ sess[u] # 0
      BY <2>3, <2>4, <2>6
    <3> QED BY <1>1, <2>5, <2>6, <3>1, StartsKept
  <2>7. CASE pc[t] = "starting" /\ ~Starting(t)' /\ Effect(sess[t]) /\ orphans' = orphans
    <3>1. Starting(t)
      BY <2>7 DEF Starting
    <3>2. New(sess[t]) /\ \A u \in Threads \ {t} : Starting(u) => sess[u] # sess[t]
      BY <3>1 DEF StartsAreNew
    <3>3. \A u \in Threads : Starting(u)' => Starting(u) /\ sess'[u] = sess[u] /\ sess[u] # sess[t]
      BY <2>3, <2>7, <3>2
    <3>4. \A r \in orphans' : r.command = "start" => r \in orphans /\ r.session # sess[t]
      BY <2>7, <3>1 DEF StartsAreNew
    <3>5. PICK s \in Nat : s = sess[t]
      BY <1>1
    <3> QED BY <1>1, <2>7, <3>2, <3>3, <3>4, <3>5, StartsKept
  <2>8. CASE Effect(0) /\ ToggleStarts(t)
    \* The clock has never been there.
    <3>1. /\ sess'[t] = NextId(session.id) /\ now' = NextId(session.id) + 1 /\ Starting(t)'
          /\ UNCHANGED <<active, transcribing, delivering, items, orphans>>
      BY <2>8 DEF ToggleStarts, Begins, UnchangedService, service, Goto, Starting, ShellTypes
    <3>2. NextId(session.id) \in Nat /\ now <= NextId(session.id)
      BY NextIdGrows DEF ShellTypes, Sessions
    <3>3. \A x \in Nat : (Known(x)' <=> Known(x)) /\ (Known(x) => x < now)
      BY <3>1 DEF StartsAreNew, Known, HasOutcome
    <3>4. \A x \in Nat : Known(x)' => x < now'
      BY <1>1, <3>3
    <3>5. New(sess[t])'
      <4>1. sess'[t] \in Nat /\ now <= sess'[t] /\ sess'[t] < now' /\ sess'[t] # 0
        BY <1>1, <3>1, <3>2
      <4>2. ~Known(sess[t])'
        BY <1>1, <3>1, <4>1 DEF StartsAreNew, Known, HasOutcome
      <4> QED BY <4>1, <4>2 DEF New
    <3>6. \A u \in Threads \ {t} : Starting(u)' => sess[u] < now /\ New(sess[u])'
      BY <1>1, <2>2, <2>3, <3>1 DEF StartsAreNew, New, Known, HasOutcome
    <3>7. \A r \in orphans' : r.command = "start" => r.session < now /\ r.session \in Nat /\ New(r.session)'
      BY <1>1, <3>1 DEF StartsAreNew, New, Known, HasOutcome, Requests
    <3>8. \A u, v \in Threads : Starting(u)' /\ Starting(v)' /\ u # v => sess'[u] # sess'[v]
      BY <1>1, <2>2, <2>3, <3>1, <3>2, <3>6 DEF StartsAreNew
    <3>9. \A u \in Threads : \A r \in orphans' : Starting(u)' /\ r.command = "start" => r.session # sess'[u]
      BY <1>1, <2>2, <2>3, <3>1, <3>2, <3>7 DEF StartsAreNew
    <3>10. \A u \in Threads : Starting(u)' => New(sess[u])'
      BY <3>5, <3>6
    <3> QED BY <3>4, <3>7, <3>8, <3>9, <3>10 DEF StartsAreNew
  <2>9. CASE Effect(0) /\ ~Starting(t)' /\ orphans' = orphans \cup {Request(t)} /\ Requesting(t)
    \* The start is still to be executed, though nobody waits for it.
    <3>1. Request(t).session = sess[t] /\ (Request(t).command = "start" => Starting(t))
      BY <2>9 DEF Request, Starting
    <3>2. ASSUME NEW x \in Nat, New(x) PROVE New(x)'
      <4>1. ~Known(x)'
        BY <2>9, <3>2, Learns DEF New
      <4> QED BY <1>1, <3>2, <4>1 DEF New
    <3>3. \A x \in Nat : Known(x)' => x < now'
      BY <1>1, <2>9, Learns DEF StartsAreNew
    <3>4. \A u \in Threads : Starting(u)' => u # t /\ Starting(u) /\ sess'[u] = sess[u]
      BY <2>3, <2>9
    <3>5. \A u \in Threads : Starting(u)' => New(sess[u])'
      <4> SUFFICES ASSUME NEW u \in Threads, Starting(u)' PROVE New(sess[u])'
        OBVIOUS
      <4>1. PICK y \in Nat : y = sess[u] /\ y = sess'[u]
        BY <1>1, <3>4
      <4>2. New(y)
        BY <3>4, <4>1 DEF StartsAreNew
      <4>3. New(y)'
        BY <3>2, <4>2
      <4> QED BY <4>1, <4>3 DEF New, Known, HasOutcome
    <3>6. \A r \in orphans' : r.command = "start" => New(r.session)'
      <4> SUFFICES ASSUME NEW r \in orphans', r.command = "start" PROVE New(r.session)'
        OBVIOUS
      <4>1. PICK y \in Nat : y = r.session
        BY <1>1, <2>9, <3>1 DEF Requests
      <4>2. New(y)
        BY <2>9, <3>1, <4>1 DEF StartsAreNew
      <4>3. New(y)'
        BY <3>2, <4>2
      <4> QED BY <4>1, <4>3
    <3>7. \A u, v \in Threads : Starting(u)' /\ Starting(v)' /\ u # v => sess'[u] # sess'[v]
      BY <3>4 DEF StartsAreNew
    <3>8. \A u \in Threads : \A r \in orphans' : Starting(u)' /\ r.command = "start" => r.session # sess'[u]
      BY <2>9, <3>1, <3>4 DEF StartsAreNew
    <3> QED BY <3>3, <3>5, <3>6, <3>7, <3>8 DEF StartsAreNew
  <2> QED BY <2>1, <2>6, <2>7, <2>8, <2>9
<1>3. ASSUME NEW t \in Threads, Delivery(t) PROVE StartsAreNew'
  <2>1. /\ \A u \in Threads \ {t} : pc'[u] = pc[u]
        /\ pc'[t] \notin Exclusive /\ sess' = sess
    BY <1>3, DeliveryFrame DEF Frame
  <2>2. Effect(0) /\ orphans' = orphans
    BY <1>3, DeliveryKeepsService
  <2>3. \A u \in Threads : Starting(u)' => Starting(u) /\ sess'[u] = sess[u] /\ sess[u] # 0
    BY <2>1 DEF Starting, Exclusive, Toggling, StartsAreNew, New
  <2>4. \A r \in orphans' : r.command = "start" => r \in orphans /\ r.session # 0
    BY <2>2 DEF StartsAreNew, New
  <2> QED BY <1>1, <2>2, <2>3, <2>4, StartsKept
<1>4. CASE Environment
  <2>1. sess' = sess /\ (UNCHANGED pc \/ DaemonExits)
    BY <1>4, EnvironmentFrame
  <2>2. \A u \in Threads : Starting(u)' => Starting(u) /\ sess'[u] = sess[u]
    BY <2>1 DEF Starting, DaemonExits
  <2>3. \/ Effect(0) /\ orphans' \subseteq orphans
        \/ \E r \in orphans : r.command = "start" /\ Effect(r.session) /\ orphans' = orphans \ {r}
    BY <1>4, EnvironmentEffect
  <2>4. CASE Effect(0) /\ orphans' \subseteq orphans
    <3>1. \A u \in Threads : Starting(u)' => Starting(u) /\ sess'[u] = sess[u] /\ sess[u] # 0
      BY <2>2 DEF StartsAreNew, New
    <3>2. \A r \in orphans' : r.command = "start" => r \in orphans /\ r.session # 0
      BY <2>4 DEF StartsAreNew, New
    <3> QED BY <1>1, <2>4, <3>1, <3>2, StartsKept
  <2>5. ASSUME NEW r \in orphans, r.command = "start", Effect(r.session), orphans' = orphans \ {r}
        PROVE  StartsAreNew'
    <3>1. PICK s \in Nat : s = r.session
      BY <1>1 DEF Requests
    <3>2. New(s)
      BY <2>5, <3>1 DEF StartsAreNew
    <3>3. \A u \in Threads : Starting(u)' => Starting(u) /\ sess'[u] = sess[u] /\ sess[u] # s
      BY <2>2, <2>5, <3>1 DEF StartsAreNew
    <3>4. \A q \in orphans' : q.command = "start" => q \in orphans /\ q.session # s
      BY <1>1, <2>5, <3>1 DEF Requests
    <3> QED BY <1>1, <2>5, <3>1, <3>2, <3>3, <3>4, StartsKept
  <2> QED BY <2>3, <2>4, <2>5
<1> QED BY <1>2, <1>3, <1>4 DEF Next

LEMMA NamesStay ==
  ASSUME ShellTypes, StartsAreNew, Named, Next PROVE Named'
<1>1. 0 < now'
  <2>1. now <= now' /\ now \in Nat /\ now' \in Nat
    BY ClockRuns
  <2> QED BY <2>1 DEF Named
<1> DEFINE Names ==
      /\ session.recording => session.id # 0
      /\ \A t \in Threads : old[t].recording => old[t].id # 0
      /\ \A t \in Threads : pc[t] = "stopping" => sess[t] # 0
<1>2. Names /\ pc \in [Threads -> Labels] /\ old \in [Threads -> Sessions] /\ sess \in [Threads -> Nat]
  BY DEF Named, ShellTypes
<1>3. ASSUME NEW t \in Threads, Command(t) PROVE Names'
  <2>1. \A u \in Threads \ {t} : pc'[u] = pc[u] /\ sess'[u] = sess[u] /\ old'[u] = old[u]
    BY <1>3, CommandTypes DEF Frame
  <2>2. ASSUME session'.recording => session'.id # 0,
               old'[t].recording => old'[t].id # 0,
               pc'[t] = "stopping" => sess'[t] # 0
        PROVE  Names'
    BY <1>2, <2>1, <2>2
  <2>3. (pc[t] \in {"publishing", "starting"} => sess[t] # 0) /\ (pc[t] = "stopping" => sess[t] # 0)
    BY <1>2 DEF StartsAreNew, Starting, New
  <2> HIDE DEF Names
  <2> USE DEF Goto
  <2>4. CASE ToggleStops(t)
    <3>1. /\ UNCHANGED <<session, old>> /\ session.recording
          /\ sess' = [sess EXCEPT ![t] = session.id]
      BY <2>4 DEF ToggleStops
    <3> QED BY <1>2, <2>2, <3>1 DEF Names
  <2>5. CASE ToggleStarts(t) \/ CancelBegins(t) \/ ShutdownBegins(t) \/ ModifiersReleased(t)
    <3>1. session' = session /\ old'[t] \in {session, old[t]} /\ pc'[t] # "stopping"
      BY <1>2, <2>5 DEF ToggleStarts, CancelBegins, ShutdownBegins, ModifiersReleased
    <3> QED BY <1>2, <2>2, <3>1 DEF Names
  <2>6. CASE PublishesSession(t)
    <3>1. session'.id = sess[t] /\ sess[t] # 0 /\ old' = old /\ pc'[t] # "stopping"
      BY <1>2, <2>3, <2>6 DEF PublishesSession, State
    <3> QED BY <1>2, <2>2, <3>1 DEF Names
  <2>7. CASE StartEnds(t) \/ StopEnds(t) \/ Invalidates(t)
    <3>1. /\ session' \in {session, old[t]} \/ session'.recording = FALSE
          /\ old' = old /\ pc'[t] # "stopping"
      BY <1>2, <2>7 DEF StartEnds, StopEnds, Invalidates, State
    <3> QED BY <1>2, <2>2, <3>1 DEF Names
  <2>8. CASE ServiceStarts(t) \/ ServiceStops(t) \/ RetryBegins(t) \/ ServiceCancels(t)
             \/ RequestFails(t) \/ RequestTimesOut(t)
    <3>1. session' = session /\ old' = old /\ pc'[t] # "stopping"
      BY <1>2, <2>8 DEF ServiceStarts, ServiceStops, RetryBegins, ServiceCancels, AfterCancel,
         RequestFails, RequestTimesOut, Fails
    <3> QED BY <1>2, <2>2, <3>1 DEF Names
  <2> QED BY <1>3, <2>4, <2>5, <2>6, <2>7, <2>8 DEF Command
<1>4. ASSUME NEW t \in Threads, Delivery(t) PROVE Names'
  <2>1. /\ \A u \in Threads \ {t} : pc'[u] = pc[u]
        /\ pc'[t] # "stopping" /\ UNCHANGED <<session, sess, old>>
    BY <1>4, DeliveryFrame DEF Frame, Exclusive, Toggling
  <2> QED BY <1>2, <2>1
<1>5. ASSUME Environment PROVE Names'
  <2>1. UNCHANGED <<sess, old>> /\ (UNCHANGED <<session, pc>> \/ DaemonExits)
    BY <1>5, EnvironmentFrame
  <2>2. DaemonExits => session'.recording = FALSE /\ \A t \in Threads : pc'[t] \in {"idle", pc[t]}
    BY DEF DaemonExits, State
  <2>3. CASE UNCHANGED <<session, pc>>
    BY <1>2, <2>1, <2>3
  <2>4. CASE DaemonExits
    BY <1>2, <2>1, <2>2, <2>4
  <2> QED BY <2>1, <2>3, <2>4
<1> HIDE DEF Names
<1>6. Names'
  BY <1>3, <1>4, <1>5 DEF Next
<1> QED BY <1>1, <1>6 DEF Named, Names

\* Where the sequence numbers come from.
LEMMA CommandNumbers ==
  ASSUME ShellTypes, ServiceTypes, NEW t \in Threads, Command(t)
  PROVE  /\ seqFile' = seqFile \/ (pc[t] = "stopped" /\ seqFile' = after[t])
         /\ \A u \in Threads \ {t} : after'[u] = after[u]
         /\ pc'[t] \in Waiting =>
              \/ pc'[t] = "stopping" /\ after'[t] = seqFile
              \/ /\ after'[t] = after[t] /\ sess'[t] = sess[t]
                 /\ \/ pc[t] = "stopping" /\ pc'[t] = "stopped" /\ ServiceStops(t)
                    \/ pc[t] = "stopped" /\ pc'[t] = "waiting"
<1>1. pc \in [Threads -> Labels] /\ after \in [Threads -> Nat]
  BY DEF ShellTypes, ServiceTypes
<1> USE DEF Goto, Waiting
<1>2. CASE ToggleStops(t)
  <2>1. /\ after' = [after EXCEPT ![t] = seqFile] /\ seqFile' = seqFile
        /\ pc' = [pc EXCEPT ![t] = "stopping"]
    BY <1>2 DEF ToggleStops
  <2> QED BY <1>1, <2>1
<1>3. CASE ServiceStops(t)
  <2>1. pc[t] = "stopping" /\ pc'[t] \in {"idle", "stopped"} /\ UNCHANGED <<seqFile, after, sess>>
    BY <1>1, <1>3 DEF ServiceStops
  <2> QED BY <1>3, <2>1
<1>4. CASE StopEnds(t)
  BY <1>1, <1>4 DEF StopEnds
<1>5. CASE ToggleStarts(t) \/ CancelBegins(t) \/ ShutdownBegins(t) \/ RetryBegins(t)
           \/ PublishesSession(t) \/ ServiceStarts(t) \/ StartEnds(t) \/ ModifiersReleased(t)
           \/ Invalidates(t) \/ ServiceCancels(t) \/ RequestFails(t) \/ RequestTimesOut(t)
  <2>1. UNCHANGED <<seqFile, after>> /\ pc'[t] \notin Waiting
    BY <1>1, <1>5 DEF ToggleStarts, CancelBegins, ShutdownBegins, RetryBegins, PublishesSession,
       ServiceStarts, StartEnds, ModifiersReleased, Invalidates, ServiceCancels, AfterCancel,
       RequestFails, RequestTimesOut, Fails
  <2> QED BY <2>1
<1> QED BY <1>2, <1>3, <1>4, <1>5 DEF Command

LEMMA DeliveryNumbers ==
  ASSUME ShellTypes, ServiceTypes, NEW t \in Threads, Delivery(t)
  PROVE  /\ \A u \in Threads \ {t} : after'[u] = after[u]
         /\ \/ pc'[t] \notin Waiting /\ seqFile' = seqFile
            \/ Polls(t) /\ seqFile' = after'[t] /\ after'[t] \in {0, after[t], nextSeq}
<1>1. pc \in [Threads -> Labels] /\ after \in [Threads -> Nat] /\ Desk
  BY DEF ShellTypes, ServiceTypes
<1>2. CASE Polls(t)
  <2>1. after' = [after EXCEPT ![t] = IF Restarted(t) THEN 0 ELSE LastSeen(t)] /\ seqFile' = after'[t]
    BY <1>2 DEF Polls
  <2>2. LastSeen(t) \in {after[t], nextSeq}
    BY <1>1, LastSeenTyped
  <2> QED BY <1>1, <1>2, <2>1, <2>2
<1>3. CASE ~Polls(t)
  <2>1. UNCHANGED <<seqFile, after>>
    BY <1>3 DEF Delivery, WaitEnds, ChecksTranscript, Remembers, ChoosesMode, Types,
       LocksClipboard, PublishesText, Verifies, SendsKey, Completes, Delivers
  <2>2. pc'[t] \notin Waiting
    <3> USE DEF Goto, Waiting, Finish
    <3>1. CASE WaitEnds(t) \/ ChecksTranscript(t) \/ Remembers(t) \/ ChoosesMode(t) \/ Types(t)
      BY <1>1, <3>1 DEF WaitEnds, ChecksTranscript, Remembers, ChoosesMode, Types
    <3>2. CASE LocksClipboard(t) \/ PublishesText(t) \/ Verifies(t) \/ SendsKey(t) \/ Completes(t)
      BY <1>1, <3>2 DEF LocksClipboard, PublishesText, Verifies, SendsKey, Completes, Releases
    <3> QED BY <1>3, <3>1, <3>2 DEF Delivery
  <2> QED BY <2>1, <2>2
<1> QED BY <1>2, <1>3

LEMMA EnvironmentNumbers ==
  ASSUME ShellTypes, Environment
  PROVE  UNCHANGED <<seqFile, after>> /\ \A t \in Threads : pc'[t] \in {"idle", pc[t]}
<1>1. UNCHANGED <<seqFile, after>>
  BY DEF Environment, Transcribes, Progress, OrphanRuns, ServiceDies, UserCopies, DaemonExits,
     DaemonStarts, thread
<1>2. UNCHANGED pc \/ DaemonExits
  BY EnvironmentFrame
<1>3. pc \in [Threads -> Labels]
  BY DEF ShellTypes
<1> QED BY <1>1, <1>2, <1>3 DEF DaemonExits

\* A service that runs and is the first one has only counted on.
LEMMA SameService ==
  ASSUME ShellTypes, ServiceTypes, Down, StartsAreNew, CaughtUp, Next
  PROVE  /\ 0 < lives'
         /\ lives' = 1 => lives = 1 /\ (up' => up /\ nextSeq <= nextSeq')
<1>1. lives \in Nat /\ 0 < lives
  BY DEF ServiceTypes, CaughtUp
<1>2. ASSUME NEW t \in Threads, Command(t) PROVE (up' => up /\ nextSeq <= nextSeq') /\ lives' = lives
  BY <1>2, CommandEffect
<1>3. ASSUME NEW t \in Threads, Delivery(t) PROVE (up' => up /\ nextSeq <= nextSeq') /\ lives' = lives
  <2>1. nextSeq \in Nat
    BY DEF ServiceTypes, Desk, Buffered
  <2> QED BY <1>3, <2>1, DeliveryKeepsService
<1>4. CASE Environment
  <2>1. /\ up' => (up /\ nextSeq <= nextSeq' /\ lives' = lives) \/ lives' = lives + 1
        /\ lives' \in {lives, lives + 1}
    BY <1>4, EnvironmentEffect
  <2> QED BY <1>1, <2>1
<1> QED BY <1>1, <1>2, <1>3, <1>4 DEF Next

LEMMA StayCaughtUp ==
  ASSUME ShellTypes, ServiceTypes, Down, StartsAreNew, CaughtUp, Next PROVE CaughtUp'
<1>1. 0 < lives' /\ (lives' = 1 => lives = 1 /\ (up' => up /\ nextSeq <= nextSeq'))
  BY SameService
<1> SUFFICES ASSUME lives' = 1, up'
             PROVE  seqFile' <= nextSeq' /\ \A t \in Threads : pc'[t] \in Waiting => after'[t] <= nextSeq'
  BY <1>1 DEF CaughtUp
<1>2. /\ seqFile <= nextSeq /\ nextSeq <= nextSeq'
      /\ \A t \in Threads : pc[t] \in Waiting => after[t] <= nextSeq
  BY <1>1 DEF CaughtUp
<1>3. /\ ServiceTypes' /\ nextSeq \in Nat /\ nextSeq' \in Nat /\ seqFile \in Nat
      /\ \A t \in Threads : after[t] \in Nat
  <2>1. ServiceTypes'
    BY CommandKeepsService, DeliveryKeepsService, EnvironmentKeepsService DEF Next
  <2> QED BY <2>1 DEF ServiceTypes, Desk, Buffered
<1>4. ASSUME NEW t \in Threads, Command(t)
      PROVE  seqFile' <= nextSeq' /\ \A u \in Threads : pc'[u] \in Waiting => after'[u] <= nextSeq'
  <2>1. /\ seqFile' = seqFile \/ (pc[t] \in Waiting /\ seqFile' = after[t])
        /\ pc'[t] \in Waiting => after'[t] = seqFile \/ (pc[t] \in Waiting /\ after'[t] = after[t])
    BY <1>4, CommandNumbers DEF Waiting
  <2>2. \A u \in Threads \ {t} : pc'[u] = pc[u] /\ after'[u] = after[u]
    BY <1>4, CommandTypes, CommandNumbers DEF Frame
  <2>3. \A u \in Threads : pc'[u] \in Waiting => after'[u] <= nextSeq'
    BY <1>2, <1>3, <2>1, <2>2
  <2> QED BY <1>2, <1>3, <2>1, <2>3
<1>5. ASSUME NEW t \in Threads, Delivery(t)
      PROVE  seqFile' <= nextSeq' /\ \A u \in Threads : pc'[u] \in Waiting => after'[u] <= nextSeq'
  <2>1. \/ pc'[t] \notin Waiting /\ seqFile' = seqFile
        \/ pc[t] \in Waiting /\ seqFile' = after'[t] /\ after'[t] \in {0, after[t], nextSeq}
    BY <1>5, DeliveryNumbers DEF Polls, Waiting
  <2>2. \A u \in Threads \ {t} : pc'[u] = pc[u] /\ after'[u] = after[u]
    BY <1>5, DeliveryFrame, DeliveryNumbers DEF Frame
  <2> QED BY <1>2, <1>3, <2>1, <2>2
<1>6. CASE Environment
  <2>1. UNCHANGED <<seqFile, after>> /\ \A t \in Threads : pc'[t] \in {"idle", pc[t]}
    BY <1>6, EnvironmentNumbers
  <2>2. \A t \in Threads : pc'[t] \in Waiting => pc[t] \in Waiting /\ after'[t] = after[t]
    BY <2>1 DEF Waiting
  <2> QED BY <1>2, <1>3, <2>1, <2>2
<1> QED BY <1>4, <1>5, <1>6 DEF Next

\* What the service adds comes after all that the thread has seen.
LEMMA StaysVisible ==
  ASSUME NEW t \in Threads, NEW s, Effect(s), Visible(t), after[t] <= nextSeq,
         after[t] \in Nat, nextSeq \in Nat, items' \in Seq(Events),
         sess'[t] = sess[t], after'[t] = after[t]
  PROVE  Visible(t)'
<1> SUFFICES ASSUME NEW i \in DOMAIN items', items'[i].session = sess[t], items'[i].kind # "other"
             PROVE  items'[i].seq > after[t]
  BY DEF Visible
<1>1. items'[i] \in Events /\ items'[i].seq \in Nat
  <2>1. items'[i] \in Events
    OBVIOUS
  <2> QED BY <2>1 DEF Events
<1>2. CASE \E j \in DOMAIN items : items'[i] = items[j]
  <2>1. ~Restarted(t)
    BY DEF Restarted
  <2> QED BY <1>2, <2>1 DEF Visible
<1>3. CASE items'[i].seq > nextSeq
  BY <1>1, <1>3
<1> QED BY <1>2, <1>3 DEF Effect

LEMMA StaysDown ==
  ASSUME ShellTypes, ServiceTypes, Down, StartsAreNew, Next
  PROVE  Down' /\ \E s : Effect(s) /\ (s = 0 \/ ~Known(s))
<1>1. ASSUME NEW t \in Threads, Command(t) PROVE Down' /\ \E s : Effect(s) /\ (s = 0 \/ ~Known(s))
  <2>1. Down' /\ (Effect(0) \/ (pc[t] = "starting" /\ Effect(sess[t])))
    BY <1>1, CommandEffect
  <2>2. pc[t] = "starting" => ~Known(sess[t])
    BY DEF StartsAreNew, New, Starting
  <2> QED BY <2>1, <2>2
<1>2. ASSUME NEW t \in Threads, Delivery(t) PROVE Down' /\ \E s : Effect(s) /\ (s = 0 \/ ~Known(s))
  <2>1. Effect(0) /\ UNCHANGED <<up, active, transcribing, nextSeq, items, orphans>>
    BY <1>2, DeliveryKeepsService
  <2>2. delivering' \subseteq delivering
    <3>1. CASE Completes(t)
      BY <3>1 DEF Completes, DeliveryComplete, UnchangedService, service
    <3>2. CASE Remembers(t)
      BY <3>2 DEF Remembers, RememberDelivery, UnchangedService, service
    <3>3. CASE ~Completes(t) /\ ~Remembers(t)
      BY <1>2, <3>3 DEF Delivery, Polls, WaitEnds, ChecksTranscript, ChoosesMode, Types,
         LocksClipboard, PublishesText, Verifies, SendsKey, UnchangedService, service
    <3> QED BY <3>1, <3>2, <3>3
  <2> QED BY <2>1, <2>2 DEF Down
<1>3. CASE Environment
  <2>1. Down' /\ (Effect(0) \/ \E r \in orphans : r.command = "start" /\ Effect(r.session))
    BY <1>3, EnvironmentEffect
  <2>2. \A r \in orphans : r.command = "start" => ~Known(r.session)
    BY DEF StartsAreNew, New
  <2> QED BY <2>1, <2>2
<1> QED BY <1>1, <1>2, <1>3 DEF Next

LEMMA StaysExpected ==
  ASSUME ShellTypes, ServiceTypes, ServiceTypes', OutcomeInv, Next PROVE Expected'
<1>1. Down /\ Open /\ StartsAreNew /\ Named /\ CaughtUp /\ Expected
  BY DEF OutcomeInv
<1> SUFFICES ASSUME lives' = 1, NEW t \in Threads, pc'[t] \in {"stopped", "waiting"} PROVE Visible(t)'
  BY DEF Expected
<1>2. lives = 1 /\ (up' => up)
  BY <1>1, SameService
<1>3. nextSeq \in Nat /\ after[t] \in Nat /\ items \in Seq(Events) /\ items' \in Seq(Events)
  BY DEF ServiceTypes, Desk, Buffered
<1>4. CASE ~up'
  <2>1. items' = <<>>
    BY <1>1, <1>4, StaysDown DEF Down
  <2>2. DOMAIN items' = {}
    BY <2>1
  <2> QED BY <2>2 DEF Visible
<1>5. CASE up'
  <2>1. pc[t] \in Waiting => after[t] <= nextSeq
    BY <1>1, <1>2, <1>5 DEF CaughtUp
  <2>2. ASSUME pc[t] \in {"stopped", "waiting"}, sess'[t] = sess[t], after'[t] = after[t]
        PROVE  Visible(t)'
    <3>1. Visible(t) /\ after[t] <= nextSeq
      BY <1>1, <1>2, <2>1, <2>2 DEF Expected, Waiting
    <3>2. PICK s : Effect(s)
      BY <1>1, StaysDown
    <3> QED BY <1>3, <2>2, <3>1, <3>2, StaysVisible
  <2>3. CASE Environment
    <3>1. sess'[t] = sess[t] /\ after'[t] = after[t] /\ pc'[t] \in {"idle", pc[t]}
      BY <2>3, EnvironmentFrame, EnvironmentNumbers
    <3> QED BY <2>2, <3>1
  <2>4. ASSUME NEW u \in Threads, u # t, Command(u) \/ Delivery(u) PROVE Visible(t)'
    <3>1. Frame(u) /\ after'[t] = after[t]
      BY <2>4, CommandTypes, DeliveryFrame, CommandNumbers, DeliveryNumbers
    <3> QED BY <2>2, <2>4, <3>1 DEF Frame
  <2>5. CASE Command(t)
    <3>1. /\ after'[t] = after[t] /\ sess'[t] = sess[t]
          /\ \/ pc[t] = "stopping" /\ pc'[t] = "stopped" /\ ServiceStops(t)
             \/ pc[t] = "stopped" /\ pc'[t] = "waiting"
      <4>1. pc'[t] \in Waiting /\ pc'[t] # "stopping"
        BY DEF Waiting
      <4> QED BY <2>5, <4>1, CommandNumbers
    <3>2. CASE pc[t] = "stopped"
      BY <2>2, <3>1, <3>2
    <3>3. CASE pc[t] = "stopping" /\ ServiceStops(t) /\ pc'[t] = "stopped"
      \* The outcome of a recording in progress has not been reported.
      <4>1. PICK outcome \in {"queued", "ended", "refused"} :
              /\ StopRecording(sess[t], outcome)
              /\ pc' = [pc EXCEPT ![t] = IF outcome = "refused" THEN "idle" ELSE "stopped"]
        BY <3>3 DEF ServiceStops, Goto
      <4>2. pc \in [Threads -> Labels] /\ sess[t] \in Nat /\ Desk
        BY DEF ShellTypes, ServiceTypes
      <4>3. outcome # "refused"
        BY <3>3, <4>1, <4>2
      <4>4. active = sess[t] /\ Effect(0)
        BY <4>1, <4>2, <4>3, StopEffect
      <4>5. ~HasOutcome(sess[t]) /\ after[t] <= nextSeq
        BY <1>1, <2>1, <3>3, <4>4 DEF Named, Open, Waiting
      <4>6. ASSUME NEW i \in DOMAIN items', items'[i].session = sess[t], items'[i].kind # "other"
            PROVE  items'[i].seq > after[t]
        <5>1. items'[i].seq > nextSeq
          BY <4>4, <4>5, <4>6 DEF Effect, HasOutcome
        <5>2. items'[i].seq \in Nat
          <6>1. items'[i] \in Events
            BY <1>3
          <6> QED BY <6>1 DEF Events
        <5> QED BY <1>3, <4>5, <5>1, <5>2
      <4> QED BY <3>1, <4>6 DEF Visible
    <3> QED BY <3>1, <3>2, <3>3
  <2>6. CASE Delivery(t)
    <3>1. Polls(t)
      BY <2>6, DeliveryNumbers DEF Waiting
    <3>2. pc[t] = "waiting" /\ sess' = sess /\ UNCHANGED <<nextSeq, items>> /\ pc \in [Threads -> Labels]
      BY <3>1 DEF Polls, UnchangedService, service, ShellTypes
    <3>3. Visible(t) /\ ~Restarted(t)
      BY <1>1, <1>2, <1>3, <2>1, <3>2 DEF Expected, Waiting, Restarted
    \* It would have taken the outcome, had there been one.
    <3>4. Outcomes(t) = {}
      BY <3>1, <3>2, <3>3 DEF Polls, Goto
    <3>5. \A i \in DOMAIN items : ~(items[i].session = sess[t] /\ items[i].kind # "other")
      BY <3>3, <3>4 DEF Visible, Outcomes, Fresh
    <3> QED BY <3>2, <3>5 DEF Visible
  <2> QED BY <2>3, <2>4, <2>5, <2>6 DEF Next
<1> QED BY <1>4, <1>5

LEMMA OutcomeInitially == Init => OutcomeInv
<1> SUFFICES ASSUME Init PROVE OutcomeInv
  OBVIOUS
<1> USE DEF Init
<1>1. DOMAIN items = {1} /\ items[1].kind = "other"
  OBVIOUS
<1>2. \A s : ~HasOutcome(s)
  BY <1>1 DEF HasOutcome
<1>3. Open /\ Down
  BY DEF Open, Down
<1>4. StartsAreNew
  BY <1>2 DEF StartsAreNew, Known, Starting
<1>5. Named
  BY DEF Named, State
<1>6. CaughtUp /\ Expected
  BY DEF CaughtUp, Expected, Waiting
<1> QED BY <1>3, <1>4, <1>5, <1>6 DEF OutcomeInv

LEMMA StepKeepsOutcome ==
  ShellTypes /\ ServiceTypes /\ ServiceTypes' /\ OutcomeInv /\ [Next]_vars => OutcomeInv'
<1> SUFFICES ASSUME ShellTypes, ServiceTypes, ServiceTypes', OutcomeInv, [Next]_vars PROVE OutcomeInv'
  OBVIOUS
<1>1. Down /\ Open /\ StartsAreNew /\ Named /\ CaughtUp /\ Expected
  BY DEF OutcomeInv
<1>2. CASE UNCHANGED vars
  BY <1>1, <1>2 DEF vars, service, thread, budget, OutcomeInv, Down, Open, HasOutcome, StartsAreNew,
     Known, Starting, New, Named, CaughtUp, Expected, Visible, Restarted
<1>3. CASE Next
  <2>1. Down' /\ StartsAreNew' /\ Named' /\ CaughtUp' /\ Expected'
    BY <1>1, <1>3, StaysDown, StartsStayNew, NamesStay, StayCaughtUp, StaysExpected
  <2>2. Open'
    <3>1. PICK s : Effect(s) /\ (s = 0 \/ ~Known(s))
      BY <1>1, <1>3, StaysDown
    <3> QED BY <1>1, <3>1, OpenKept
  <2> QED BY <2>1, <2>2 DEF OutcomeInv
<1> QED BY <1>2, <1>3

\* Whatever the shell's threads and processes do, as long as there has been only one
\* service, the outcome of a session that is in its history has a number the thread
\* waiting for it (wait_for_transcript) has yet to reach.
THEOREM OutcomesAreFound == Spec => []OutcomeIsVisible
<1>1. OutcomeInv => OutcomeIsVisible
  BY DEF OutcomeInv, Expected, OutcomeIsVisible
<1>2. ClipInv => ShellTypes
  BY DEF ClipInv
<1> QED BY <1>1, <1>2, OutcomeInitially, StepKeepsOutcome, Typed, PTL DEF Spec

-----------------------------------------------------------------------------
(* The session file and the microphone.                                        *)

\* Among threads of one daemon, a toggle, cancel or retry in progress is the only one.
LEMMA NobodyElse ==
  ASSUME GenInv, ~Doomed, NEW t \in Threads, pc[t] \in Exclusive, op[t] # "shutdown"
  PROVE  /\ \A u \in Threads \ {t} : pc[u] \notin Toggling /\ pc[u] # "cancelling"
         /\ pc[t] \notin Midway => Quiet
<1>1. \A u \in Threads \ {t} : pc[u] \notin Toggling /\ (op[u] # "shutdown" => pc[u] \notin Exclusive)
  BY Alone
<1>2. \A u \in Threads \ {t} : pc[u] # "cancelling"
  BY <1>1 DEF Doomed, Exclusive
<1>3. Midway \subseteq Exclusive
  BY DEF Midway, Exclusive, Toggling
<1> QED BY <1>1, <1>2, <1>3 DEF Quiet

\* A thread that changes the file or the recording has nobody beside it who cares.
LEMMA Bystanders ==
  ASSUME GenInv, ~Doomed, NEW t \in Threads, Frame(t), \A u \in Threads : HalfWay(u),
         \/ UNCHANGED <<session, active>>
         \/ pc[t] \in Exclusive /\ op[t] # "shutdown",
         HalfWay(t)'
  PROVE  (\A u \in Threads : HalfWay(u))'
<1> SUFFICES ASSUME NEW u \in Threads, u # t PROVE HalfWay(u)'
  OBVIOUS
<1>1. pc'[u] = pc[u] /\ sess'[u] = sess[u] /\ old'[u] = old[u]
  BY DEF Frame
<1>2. CASE UNCHANGED <<session, active>>
  BY <1>1, <1>2 DEF HalfWay
<1>3. CASE pc[t] \in Exclusive /\ op[t] # "shutdown"
  <2>1. pc[u] \notin Toggling /\ pc[u] # "cancelling"
    BY <1>3, NobodyElse
  <2> QED BY <1>1, <2>1 DEF HalfWay, Toggling
<1> QED BY <1>2, <1>3

LEMMA CommandIsHonest ==
  ASSUME GenInv, ServiceTypes, Down, Honest, NEW t \in Threads, Command(t) PROVE Honest'
<1>1. /\ ShellTypes /\ ShellTypes' /\ Frame(t) /\ pc \in [Threads -> Labels]
      /\ pc[t] \in Toggling => op[t] = "toggle"
      /\ pc[t] = "releasing" => op[t] = "retry"
  BY CommandTypes DEF GenInv, ShellTypes, MutexHeld
<1> SUFFICES ASSUME up', daemonUp', timeouts' = 0, ~Doomed'
             PROVE  (\A u \in Threads : HalfWay(u))' /\ (Quiet => Truth)'
  BY DEF Honest
<1> USE DEF Goto
<1>2. daemonUp' = daemonUp
  BY DEF Command, ToggleStops, ToggleStarts, PublishesSession, ServiceStarts, StartEnds, ServiceStops,
     StopEnds, CancelBegins, ShutdownBegins, RetryBegins, ModifiersReleased, Invalidates,
     ServiceCancels, RequestFails, RequestTimesOut, Fails, Begins, Elsewhere
<1>3. ~RequestTimesOut(t)
  <2>1. timeouts \in Nat /\ timeouts + 1 # 0
    BY DEF ServiceTypes
  <2> QED BY <2>1 DEF RequestTimesOut
<1>4. daemonUp /\ timeouts = 0
  <2>1. timeouts' = timeouts
    BY <1>3 DEF Command, ToggleStops, ToggleStarts, PublishesSession, ServiceStarts, StartEnds, ServiceStops,
     StopEnds, CancelBegins, ShutdownBegins, RetryBegins, ModifiersReleased, Invalidates,
     ServiceCancels, RequestFails, Fails, Begins
  <2> QED BY <1>2, <2>1
<1>5. up
  <2>1. CASE UnchangedService
    BY <2>1 DEF UnchangedService, service
  <2>2. CASE ~UnchangedService
    BY <2>2 DEF Command, ToggleStops, ToggleStarts, PublishesSession, ServiceStarts, StartEnds,
       ServiceStops, StopEnds, CancelBegins, ShutdownBegins, RetryBegins, ModifiersReleased,
       Invalidates, ServiceCancels, RequestFails, RequestTimesOut, Begins
  <2> QED BY <2>1, <2>2
<1>6. ~RequestFails(t)
  BY <1>5 DEF RequestFails
<1>7. ~Doomed
  <2> SUFFICES ASSUME NEW u \in Threads, pc[u] = "cancelling", op[u] = "shutdown" PROVE FALSE
    BY DEF Doomed
  <2>1. CASE u # t
    BY <1>1, <2>1 DEF Frame, Doomed
  <2>2. CASE u = t
    <3>1. ServiceCancels(t)
      BY <1>3, <1>6, <2>2 DEF Command, ToggleStops, ToggleStarts, PublishesSession, ServiceStarts,
         StartEnds, ServiceStops, StopEnds, CancelBegins, ShutdownBegins, RetryBegins,
         ModifiersReleased, Invalidates, Begins
    <3> QED BY <2>2, <3>1 DEF ServiceCancels, Stopped
  <2> QED BY <2>1, <2>2
<1>8. (\A u \in Threads : HalfWay(u)) /\ (Quiet => Truth)
  BY <1>4, <1>5, <1>7 DEF Honest
<1>9. HalfWay(t)
  BY <1>8
\* The thread is half-way itself, or has made the file true.
<1>10. ASSUME pc[t] \in Exclusive, op[t] # "shutdown", HalfWay(t)',
              (pc'[t] \in Midway /\ op'[t] # "shutdown") \/ Truth'
       PROVE  (\A u \in Threads : HalfWay(u))' /\ (Quiet => Truth)'
  <2>1. (\A u \in Threads : HalfWay(u))'
    BY <1>1, <1>7, <1>8, <1>10, Bystanders
  <2> QED BY <1>10, <2>1 DEF Quiet
<1>11. ASSUME pc[t] \in {"idle", "releasing"}, HalfWay(t)', UNCHANGED <<session, active>>
       PROVE  (\A u \in Threads : HalfWay(u))' /\ (Quiet => Truth)'
  <2>1. (\A u \in Threads : HalfWay(u))'
    BY <1>1, <1>7, <1>8, <1>11, Bystanders
  <2>2. Quiet' => Quiet
    BY <1>1, <1>11 DEF Quiet, Frame, Midway
  <2>3. Truth => Truth'
    BY <1>11 DEF Truth
  <2> QED BY <1>8, <2>1, <2>2, <2>3
<1>12. pc[t] \in Toggling => pc[t] \in Exclusive /\ op[t] # "shutdown"
  BY <1>1 DEF Exclusive
<1>13. CASE ToggleStops(t)
  <2>1. /\ pc[t] = "idle" /\ pc'[t] = "stopping" /\ sess'[t] = session.id /\ session.recording
        /\ UNCHANGED <<session, active>>
    BY <1>1, <1>13 DEF ToggleStops, Begins, UnchangedService, service, ShellTypes
  <2> QED BY <1>11, <2>1 DEF HalfWay
<1>14. CASE ToggleStarts(t)
  <2>1. /\ pc[t] = "idle" /\ pc'[t] = "publishing" /\ old'[t] = session /\ ~session.recording
        /\ UNCHANGED <<session, active>>
    BY <1>1, <1>14 DEF ToggleStarts, Begins, UnchangedService, service, ShellTypes
  <2> QED BY <1>11, <2>1 DEF HalfWay
<1>15. CASE CancelBegins(t) \/ ShutdownBegins(t) \/ RetryBegins(t) \/ ModifiersReleased(t)
  <2>1. /\ pc[t] \in {"idle", "releasing"} /\ pc'[t] \in {"invalidating", "releasing", "idle"}
        /\ UNCHANGED <<session, active>>
    BY <1>1, <1>15 DEF CancelBegins, ShutdownBegins, RetryBegins, ModifiersReleased, Begins,
       UnchangedService, service
  <2> QED BY <1>11, <2>1 DEF HalfWay
<1>16. CASE PublishesSession(t)
  <2>1. /\ pc[t] = "publishing" /\ pc'[t] = "starting" /\ session' = State(TRUE, sess[t])
        /\ UNCHANGED <<active, sess, old, op>>
    BY <1>1, <1>16 DEF PublishesSession, UnchangedService, service
  <2>2. pc[t] \in Exclusive /\ op[t] # "shutdown" /\ pc[t] \notin Midway
    BY <1>12, <2>1 DEF Toggling, Midway
  <2>3. Truth /\ ~session.recording /\ old[t] = session
    BY <1>7, <1>8, <1>9, <2>1, <2>2, NobodyElse DEF HalfWay
  <2>4. active = 0
    BY <2>3 DEF Truth, State
  <2>5. HalfWay(t)' /\ pc'[t] \in Midway
    BY <2>1, <2>3, <2>4 DEF HalfWay, Midway
  <2> QED BY <1>10, <2>1, <2>2, <2>5
<1>17. CASE ServiceStarts(t)
  <2>1. PICK outcome \in {"started", "refused", "skipped"} :
          StartRecording(sess[t], outcome) /\ pc' = [pc EXCEPT ![t] = outcome]
    BY <1>17 DEF ServiceStarts
  <2>2. /\ pc[t] = "starting" /\ pc'[t] = outcome /\ UNCHANGED <<session, sess, old, op>>
        /\ active' = IF outcome = "started" THEN sess[t] ELSE 0
    BY <1>1, <1>17, <2>1 DEF ServiceStarts, StartRecording
  <2>3. pc[t] \in Exclusive /\ op[t] # "shutdown"
    BY <1>12, <2>2 DEF Toggling
  <2>4. session = State(TRUE, sess[t]) /\ ~old[t].recording
    BY <1>9, <2>2 DEF HalfWay
  <2>5. HalfWay(t)'
    BY <2>2, <2>4 DEF HalfWay
  <2>6. pc'[t] \in Midway \/ Truth'
    BY <2>2, <2>4 DEF Midway, Truth, State
  <2> QED BY <1>10, <2>2, <2>3, <2>5, <2>6
<1>18. CASE StartEnds(t)
  <2>1. /\ pc[t] \in {"started", "refused", "skipped"} /\ pc'[t] = "idle" /\ active' = active
        /\ pc[t] = "started" => session' = session
        /\ pc[t] = "refused" => session' = old[t]
        /\ pc[t] = "skipped" => session' = State(FALSE, sess[t])
    BY <1>1, <1>18 DEF StartEnds, UnchangedService, service
  <2>2. pc[t] \in Exclusive /\ op[t] # "shutdown"
    BY <1>12, <2>1 DEF Toggling
  <2>3. HalfWay(t)'
    BY <2>1 DEF HalfWay
  <2>4. Truth'
    <3>1. CASE pc[t] = "started"
      BY <1>9, <2>1, <3>1 DEF HalfWay, Truth, State
    <3>2. CASE pc[t] = "refused" \/ pc[t] = "skipped"
      BY <1>9, <2>1, <3>2 DEF HalfWay, Truth, State
    <3> QED BY <2>1, <3>1, <3>2
  <2> QED BY <1>10, <2>2, <2>3, <2>4
<1>19. CASE ServiceStops(t)
  <2>1. PICK outcome \in {"queued", "ended", "refused"} :
          /\ StopRecording(sess[t], outcome)
          /\ pc' = [pc EXCEPT ![t] = IF outcome = "refused" THEN "idle" ELSE "stopped"]
    BY <1>19 DEF ServiceStops
  <2>2. pc[t] = "stopping" /\ UNCHANGED <<session, sess, old, op>>
    BY <1>19 DEF ServiceStops
  <2>3. pc[t] \in Exclusive /\ op[t] # "shutdown" /\ pc[t] \notin Midway
    BY <1>12, <2>2 DEF Toggling, Midway
  \* The service records the session in the file, so it does not refuse.
  <2>4. active = sess[t]
    BY <1>7, <1>8, <1>9, <2>2, <2>3, NobodyElse DEF HalfWay, Truth
  <2>5. outcome # "refused" /\ active' = 0
    BY <2>1, <2>4 DEF StopRecording
  <2>6. pc'[t] = "stopped"
    BY <1>1, <2>1, <2>5
  <2>7. HalfWay(t)' /\ pc'[t] \in Midway
    BY <2>5, <2>6 DEF HalfWay, Midway
  <2> QED BY <1>10, <2>2, <2>3, <2>7
<1>20. CASE StopEnds(t)
  <2>1. /\ pc[t] = "stopped" /\ pc'[t] = "waiting" /\ session' = State(FALSE, sess[t])
        /\ active' = active
    BY <1>1, <1>20 DEF StopEnds, UnchangedService, service
  <2>2. pc[t] \in Exclusive /\ op[t] # "shutdown" /\ active = 0
    BY <1>9, <1>12, <2>1 DEF Toggling, HalfWay
  <2>3. HalfWay(t)' /\ Truth'
    BY <2>1, <2>2 DEF HalfWay, Truth, State
  <2> QED BY <1>10, <2>2, <2>3
<1>21. CASE Invalidates(t)
  <2>1. /\ pc[t] = "invalidating" /\ pc'[t] = "cancelling" /\ op' = op
        /\ session' = State(FALSE, NextId(old[t].id))
    BY <1>1, <1>21 DEF Invalidates
  <2>2. op[t] # "shutdown"
    BY <2>1 DEF Doomed
  <2>3. pc[t] \in Exclusive /\ pc'[t] \in Midway
    BY <2>1 DEF Exclusive, Midway
  <2>4. HalfWay(t)'
    BY <2>1 DEF HalfWay, State
  <2> QED BY <1>10, <2>1, <2>2, <2>3, <2>4
<1>22. CASE ServiceCancels(t)
  <2>1. pc[t] = "cancelling" /\ session' = session /\ op[t] # "shutdown"
    BY <1>22 DEF ServiceCancels, Stopped
  <2>2. active' = 0 /\ pc'[t] \in {"idle", "delivering"}
    BY <1>1, <1>22, <2>1 DEF ServiceCancels, CancelAll, AfterCancel
  <2>3. pc[t] \in Exclusive /\ ~session.recording
    BY <1>9, <2>1 DEF Exclusive, HalfWay
  <2>4. HalfWay(t)' /\ Truth'
    BY <2>1, <2>2, <2>3 DEF HalfWay, Truth
  <2> QED BY <1>10, <2>1, <2>3, <2>4
<1> QED
  BY <1>3, <1>6, <1>13, <1>14, <1>15, <1>16, <1>17, <1>18, <1>19, <1>20, <1>21, <1>22 DEF Command

LEMMA DeliveryIsHonest ==
  ASSUME GenInv, ServiceTypes, Honest, NEW t \in Threads, Delivery(t) PROVE Honest'
<1>1. /\ Frame(t) /\ pc[t] \notin Exclusive /\ pc'[t] \notin Exclusive
      /\ UNCHANGED <<session, op, sess, old>>
  BY DeliveryFrame DEF GenInv
<1>2. UNCHANGED <<up, active, daemonUp, timeouts>>
  BY DeliveryKeepsService DEF GenInv
<1>3. \A u \in Threads : pc'[u] = pc[u] \/ (u = t /\ pc[u] \notin Exclusive /\ pc'[u] \notin Exclusive)
  BY <1>1 DEF Frame
<1>4. Midway \subseteq Exclusive /\ Toggling \subseteq Exclusive /\ "cancelling" \in Exclusive
  BY DEF Midway, Exclusive, Toggling
<1>5. Doomed' <=> Doomed
  BY <1>1, <1>3, <1>4 DEF Doomed
<1>6. Quiet' <=> Quiet
  BY <1>1, <1>3, <1>4 DEF Quiet
<1>7. \A u \in Threads : HalfWay(u) => HalfWay(u)'
  <2> SUFFICES ASSUME NEW u \in Threads, HalfWay(u) PROVE HalfWay(u)'
    OBVIOUS
  <2>1. CASE pc'[u] = pc[u]
    BY <1>1, <1>2, <2>1 DEF HalfWay
  <2>2. CASE pc'[u] \notin Exclusive
    BY <2>2 DEF HalfWay, Exclusive, Toggling
  <2> QED BY <1>3, <2>1, <2>2
<1>8. Truth' <=> Truth
  BY <1>1, <1>2 DEF Truth
<1> QED BY <1>2, <1>5, <1>6, <1>7, <1>8 DEF Honest

LEMMA EnvironmentIsHonest ==
  ASSUME GenInv, ServiceTypes, Down, AtRest, Honest, timeouts = 0 => orphans = {}, Environment
  PROVE  Honest'
<1>1. ASSUME UNCHANGED <<session, pc, op, sess, old, up, active, daemonUp, timeouts>> PROVE Honest'
  BY <1>1 DEF Honest, Doomed, HalfWay, Quiet, Truth
<1>2. ShellTypes /\ Desk
  BY DEF GenInv, ServiceTypes
<1>3. CASE \E s \in transcribing : Transcribes(s)
  BY <1>1, <1>2, <1>3, TranscribeEffect DEF Transcribes, thread, budget
<1>4. CASE Progress \/ UserCopies
  BY <1>1, <1>4 DEF Progress, UserCopies, thread, service, budget
<1>5. CASE \E r \in orphans : OrphanRuns(r)
  <2>1. timeouts' # 0
    BY <1>5 DEF OrphanRuns, budget
  <2> QED BY <2>1 DEF Honest
<1>6. CASE ServiceDies \/ DaemonExits
  <2>1. ~up' \/ ~daemonUp'
    BY <1>6 DEF ServiceDies, Stopped, DaemonExits
  <2> QED BY <2>1 DEF Honest
<1>7. CASE DaemonStarts
  <2>1. ~daemonUp /\ UNCHANGED <<session, pc, active>>
    BY <1>7 DEF DaemonStarts, thread
  <2>2. ~session.recording /\ active = 0 /\ \A t \in Threads : pc[t] = "idle"
    BY <2>1 DEF AtRest, Down
  <2>3. Truth' /\ (\A t \in Threads : HalfWay(t))'
    BY <2>1, <2>2 DEF Truth, HalfWay
  <2> QED BY <2>3 DEF Honest
<1> QED BY <1>3, <1>4, <1>5, <1>6, <1>7 DEF Environment

\* Nothing happens while the daemon is down, and only a time-out leaves a request behind.
LEMMA StaysAtRest ==
  ASSUME GenInv, ServiceTypes, Down, AtRest, Next PROVE AtRest'
<1>1. ShellTypes /\ OneDaemon
  BY DEF GenInv
<1>2. ASSUME NEW t \in Threads, Command(t) PROVE AtRest'
  <2>1. daemonUp' = daemonUp
    BY <1>2 DEF Command, ToggleStops, ToggleStarts, PublishesSession, ServiceStarts, StartEnds,
       ServiceStops, StopEnds, CancelBegins, ShutdownBegins, RetryBegins, ModifiersReleased,
       Invalidates, ServiceCancels, RequestFails, RequestTimesOut, Fails, Begins, Elsewhere
  <2>2. daemonUp
    <3> SUFFICES ASSUME ~daemonUp PROVE FALSE
      OBVIOUS
    <3>1. pc[t] = "idle" /\ t \in Daemon
      BY <1>1 DEF AtRest, OneDaemon
    <3> QED BY <1>2, <3>1 DEF Command, ToggleStops, ToggleStarts, PublishesSession, ServiceStarts,
       StartEnds, ServiceStops, StopEnds, CancelBegins, ShutdownBegins, RetryBegins,
       ModifiersReleased, Invalidates, ServiceCancels, RequestFails, RequestTimesOut, Requesting, Begins
  <2> QED BY <2>1, <2>2 DEF AtRest
<1>3. ASSUME NEW t \in Threads, Delivery(t) PROVE AtRest'
  <2>1. pc[t] # "idle" /\ daemonUp' = daemonUp
    BY <1>1, <1>3, DeliveryKeepsService DEF Delivery, Polls, WaitEnds, ChecksTranscript, Remembers,
       ChoosesMode, Types, LocksClipboard, PublishesText, Verifies, SendsKey, Completes
  <2> QED BY <2>1 DEF AtRest
<1>4. CASE Environment
  <2>1. CASE DaemonExits
    BY <1>1, <2>1 DEF DaemonExits, AtRest, OneDaemon, State, service
  <2>2. CASE DaemonStarts
    BY <2>2 DEF DaemonStarts, AtRest
  <2>3. CASE ~DaemonExits /\ ~DaemonStarts
    <3>1. UNCHANGED <<session, pc>>
      BY <1>1, <1>4, <2>3, EnvironmentFrame
    <3>2. daemonUp' = daemonUp /\ up' \in {up, FALSE}
      BY <1>4, <2>3 DEF Environment, Transcribes, Progress, OrphanRuns, ServiceDies, Stopped, UserCopies,
         StartRecording, StopRecording, CancelAll, service
    <3>3. up \in BOOLEAN
      BY DEF ServiceTypes, Desk
    <3> QED BY <3>1, <3>2, <3>3 DEF AtRest
  <2> QED BY <2>1, <2>2, <2>3
<1> QED BY <1>2, <1>3, <1>4 DEF Next

LEMMA OnlyTimeoutsLeave ==
  ASSUME ShellTypes, ServiceTypes, timeouts = 0 => orphans = {}, Next, timeouts' = 0 PROVE orphans' = {}
<1>1. timeouts \in Nat /\ timeouts + 1 # 0
  BY DEF ServiceTypes
<1>2. ASSUME NEW t \in Threads, Command(t) PROVE orphans' = {}
  <2>1. ~RequestTimesOut(t)
    BY <1>1 DEF RequestTimesOut
  <2>2. timeouts' = timeouts /\ orphans' \subseteq orphans
    BY <1>2, <2>1 DEF Command, ToggleStops, ToggleStarts, PublishesSession, ServiceStarts, StartEnds,
       ServiceStops, StopEnds, CancelBegins, ShutdownBegins, RetryBegins, ModifiersReleased,
       Invalidates, ServiceCancels, RequestFails, Fails, Begins, UnchangedService, service, Stopped
  <2> QED BY <2>2
<1>3. ASSUME NEW t \in Threads, Delivery(t) PROVE orphans' = {}
  <2>1. UNCHANGED <<timeouts, orphans>>
    BY <1>3, DeliveryKeepsService
  <2> QED BY <2>1
<1>4. CASE Environment
  <2>1. timeouts' = timeouts /\ orphans' \subseteq orphans
    BY <1>4 DEF Environment, Transcribes, Progress, OrphanRuns, ServiceDies, Stopped, UserCopies,
       DaemonExits, DaemonStarts, service, budget
  <2> QED BY <2>1
<1> QED BY <1>2, <1>3, <1>4 DEF Next

LEMMA MicInitially == Init /\ OneDaemon => MicInv
<1> SUFFICES ASSUME Init, OneDaemon PROVE MicInv
  OBVIOUS
<1>1. GenInv
  BY GenInitially
<1> USE DEF Init
<1>2. AtRest /\ orphans = {}
  BY DEF AtRest
<1>3. Truth /\ \A t \in Threads : HalfWay(t)
  BY DEF Truth, HalfWay, State
<1> QED BY <1>1, <1>2, <1>3 DEF MicInv, Honest

LEMMA StepKeepsMic ==
  ServiceTypes /\ Down /\ MicInv /\ [Next]_vars => MicInv'
<1> SUFFICES ASSUME ServiceTypes, Down, MicInv, [Next]_vars PROVE MicInv'
  OBVIOUS
<1>1. GenInv /\ ShellTypes /\ AtRest /\ Honest /\ (timeouts = 0 => orphans = {})
  BY DEF MicInv, GenInv
<1>2. GenInv'
  BY <1>1, StepKeepsGen
<1>3. CASE UNCHANGED vars
  BY <1>1, <1>2, <1>3 DEF vars, service, thread, budget, MicInv, AtRest, Honest, Doomed, HalfWay, Quiet, Truth
<1>4. CASE Next
  <2>1. Honest'
    BY <1>1, <1>4, CommandIsHonest, DeliveryIsHonest, EnvironmentIsHonest DEF Next
  <2>2. AtRest' /\ (timeouts' = 0 => orphans' = {})
    BY <1>1, <1>4, StaysAtRest, OnlyTimeoutsLeave
  <2> QED BY <1>2, <2>1, <2>2 DEF MicInv
<1> QED BY <1>3, <1>4

\* Where all commands are threads of one daemon and none has given up on a request: when
\* no command is half-way, the session file says recording exactly when the service
\* records that session.
THEOREM FileTellsTruth == Spec /\ OneDaemon => []MicrophoneIsKnown
<1>1. MicInv => MicrophoneIsKnown
  <2> SUFFICES ASSUME MicInv, Settled PROVE Truth
    BY DEF MicrophoneIsKnown, Truth
  <2>1. up /\ daemonUp /\ timeouts = 0 /\ Honest
    BY DEF MicInv, Settled
  <2>2. \A t \in Threads : pc[t] \notin Midway /\ pc[t] # "cancelling"
    BY DEF Settled, Acting, Midway
  <2> QED BY <2>1, <2>2 DEF Honest, Doomed, Quiet
<1>2. ClipInv => ShellTypes
  BY DEF ClipInv
<1>3. OutcomeInv => Down
  BY DEF OutcomeInv
<1> QED BY <1>1, <1>2, <1>3, MicInitially, StepKeepsMic, OutcomeInitially, StepKeepsOutcome, Typed, PTL DEF Spec

=============================================================================
