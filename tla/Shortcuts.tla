----------------------------- MODULE Shortcuts -----------------------------
(***************************************************************************)
(* Global shortcuts in the Linux daemon (simple_stt_linux.rs): a listener  *)
(* thread takes activations and deactivations from the desktop portal or   *)
(* from an X11 connection, and hands each of them to a thread of its own,  *)
(* so that a press and its release are worked on in either order.  Two     *)
(* gates are kept by the listener itself: the record gate, which makes a   *)
(* delivery wait until the record shortcut is up, and the retry gate,      *)
(* which makes a retry wait for its own release.                           *)
(*                                                                         *)
(* Starting, stopping and retrying are one step here, under the daemon's   *)
(* lock; what they consist of is the subject of ShellSession.  The         *)
(* shortcuts for cancelling and for the toggles only start threads.        *)
(***************************************************************************)
EXTENDS Naturals, Sequences

CONSTANTS
    Threads,      \* bound: threads at work at once; numbers
    Backends,     \* "portal" and "x11"
    Modes,        \* "hold" and "toggle"
    MaxPresses,   \* bound: presses and repeats
    MaxClosures   \* bound: times the listener loses its session

ASSUME ShortcutAssumption ==
    /\ Threads \subseteq Nat \ {0}
    /\ Backends \subseteq {"portal", "x11"} /\ Modes \subseteq {"hold", "toggle"}
    /\ MaxPresses \in Nat /\ MaxClosures \in Nat

Nobody == 0
Ids    == {"record", "retry"}

VARIABLES
    backend, mode,  \* the listener's backend, and general.recording_mode
    down,      \* the shortcuts the user is holding
    wire,      \* events the listener has not taken
    listening, \* whether the listener has a session
    epoch,     \* which one
    closed,    \* the last one whose end the portal has reported; 0: none yet
    recent,    \* shortcuts activated within the last 350 ms
    held,      \* x11: shortcuts whose key was pressed
    pressed,   \* the record gate
    pending,   \* the retry gate: the thread that waits for the release
    armed,     \* the session in which that thread was started
    pc,        \* what each thread is at
    owed,      \* threads of a press that no release has followed
    dictation, \* the dictation a thread delivers
    session,   \* session.json
    presses, closures

user     == <<down, presses, closures>>
gates    == <<recent, held, pressed, pending, armed>>
threads  == <<pc, owed, dictation>>
settings == <<backend, mode>>
link     == <<listening, epoch, closed>>
vars     == <<user, wire, link, gates, threads, session, settings>>

Event == [id : Ids, on : BOOLEAN]

Current(s) == ~session.recording /\ session.id = s

\* DICTATION_ACTION_LOCK is held while a retry waits for the modifiers.
LockFree == \A t \in Threads : pc[t] # "retrying"

NewThread == CHOOSE t \in Threads : pc[t] = "free"

GoesTo(t, label) ==
    /\ pc' = [pc EXCEPT ![t] = label]
    /\ owed' = IF label = "free" THEN owed \ {t} ELSE owed

----------------------------------------------------------------------------
(* The desktop.                                                            *)

Tells(id, on) ==
    wire' = IF listening THEN Append(wire, [id |-> id, on |-> on]) ELSE wire

\* A key goes down; while it is held the desktop may say so again.
Press(id) ==
    /\ presses < MaxPresses
    /\ presses' = presses + 1
    /\ down' = down \cup {id}
    /\ Tells(id, TRUE)
    /\ UNCHANGED <<closures, link, gates, threads, session, settings>>

Release(id) ==
    /\ id \in down
    /\ down' = down \ {id}
    /\ Tells(id, FALSE)
    /\ UNCHANGED <<presses, closures, link, gates, threads, session, settings>>

\* The 350 ms of a shortcut's debounce are over.
Forgets(id) ==
    /\ id \in recent
    /\ recent' = recent \ {id}
    /\ UNCHANGED <<user, wire, link, held, pressed, pending, armed, threads, session,
                   settings>>

----------------------------------------------------------------------------
(* The listener.                                                           *)

\* The portal's activations and deactivations are separate streams, and the
\* loop polls the activations first.
Next1 == IF backend = "portal" /\ \E i \in DOMAIN wire : wire[i].on
         THEN CHOOSE i \in DOMAIN wire : wire[i].on /\ \A j \in 1..(i - 1) : ~wire[j].on
         ELSE 1

Takes(id, on) ==
    /\ wire # <<>> /\ wire[Next1] = [id |-> id, on |-> on]
    /\ wire' = [i \in 1..(Len(wire) - 1) |-> IF i < Next1 THEN wire[i] ELSE wire[i + 1]]
    /\ UNCHANGED <<user, link, session, settings>>

\* portal_activation_allowed; x11 has its own memory of the keys that are down.
Allowed(id) == id \notin recent /\ (backend = "x11" => id \notin held)

Ignores(id) ==
    /\ ~Allowed(id) /\ Takes(id, TRUE)
    /\ UNCHANGED <<gates, threads>>

Allows(id) ==
    /\ Allowed(id) /\ Takes(id, TRUE)
    /\ recent' = recent \cup {id}
    /\ held' = IF backend = "x11" THEN held \cup {id} ELSE held

\* The gate closes before the thread starts, which may be quick to stop the
\* recording and to have its transcript.
ForgetsToClose == UNCHANGED pressed

ClosesGate == pressed' = TRUE

ActivatesRecord ==
    /\ \E t \in Threads : pc[t] = "free"
    /\ Allows("record")
    /\ ClosesGate
    /\ pc' = [pc EXCEPT ![NewThread] = "press"]
    /\ owed' = owed \cup {NewThread}
    /\ UNCHANGED <<dictation, pending, armed>>

\* RetryShortcutGate::arm
ActivatesRetry ==
    /\ \E t \in Threads : pc[t] = "free"
    /\ Allows("retry")
    /\ IF pending = Nobody
       THEN pending' = NewThread /\ armed' = epoch /\ GoesTo(NewThread, "armed")
       ELSE UNCHANGED <<pending, armed, pc, owed>>
    /\ UNCHANGED <<pressed, dictation>>

\* An x11 release without an allowed press is not dispatched.
Dispatched(id) == backend = "x11" => id \in held

Drops(id) ==
    /\ ~Dispatched(id) /\ Takes(id, FALSE)
    /\ UNCHANGED <<gates, threads>>

DeactivatesRecord ==
    /\ \E t \in Threads : pc[t] = "free"
    /\ Dispatched("record") /\ Takes("record", FALSE)
    /\ held' = held \ {"record"}
    /\ pressed' = FALSE
    /\ pc' = [pc EXCEPT ![NewThread] = "release"]
    /\ owed' = {}
    /\ UNCHANGED <<dictation, recent, pending, armed>>

\* RetryShortcutGate::release
DeactivatesRetry ==
    /\ Dispatched("retry") /\ Takes("retry", FALSE)
    /\ held' = held \ {"retry"}
    /\ IF pending # Nobody THEN GoesTo(pending, "retry") ELSE UNCHANGED <<pc, owed>>
    /\ pending' = Nobody /\ armed' = 0
    /\ UNCHANGED <<dictation, recent, pressed>>

\* The listener's session ends, and whatever had not been taken is lost.
EndsSession ==
    /\ listening /\ closures < MaxClosures
    /\ closures' = closures + 1
    /\ listening' = FALSE /\ wire' = <<>> /\ held' = {}
    /\ UNCHANGED <<down, presses, epoch, recent, pressed, dictation, session, settings>>

KeepsRetry == UNCHANGED <<pending, armed, pc, owed>>

\* A held retry is abandoned when the portal reports the end of the session.
DropsRetry ==
    IF pending # Nobody
    THEN pending' = Nobody /\ armed' = 0 /\ GoesTo(pending, "free")
    ELSE UNCHANGED <<pending, armed, pc, owed>>

Closes ==
    /\ backend = "portal" /\ EndsSession
    /\ closed' = epoch
    /\ DropsRetry

\* The listener gives its session up by itself: the portal has changed the
\* triggers and they cannot be written down, or the X11 connection fails.
\* Nothing is done about a held retry.
Fails == EndsSession /\ UNCHANGED <<closed, pending, armed, pc, owed>>

\* hotkey_supervisor tries again.
Reopens ==
    /\ ~listening
    /\ listening' = TRUE /\ epoch' = epoch + 1
    /\ UNCHANGED <<user, wire, closed, gates, threads, session, settings>>

----------------------------------------------------------------------------
(* The threads.                                                            *)

ThreadStep(t, label, next) ==
    /\ pc[t] = label
    /\ GoesTo(t, next)
    /\ dictation' = [dictation EXCEPT ![t] =
                        CASE next = "free" -> 0
                          [] next = "transcribing" -> session.id
                          [] next = "awaiting release" /\ label = "retrying" -> session.id + 1
                          [] OTHER -> @]
    /\ UNCHANGED <<user, wire, link, gates, settings>>

\* handle_portal_activation: what it reads of the session is not locked.
PressHandled(t) ==
    /\ ThreadStep(t, "press", IF mode = "hold" /\ session.recording THEN "free" ELSE "toggling")
    /\ UNCHANGED session

\* handle_portal_deactivation
ReleaseHandled(t) ==
    /\ ThreadStep(t, "release", IF mode = "hold" THEN "stopping" ELSE "free")
    /\ UNCHANGED session

Stops(t, label) ==
    /\ LockFree /\ session.recording
    /\ ThreadStep(t, label, "transcribing")
    /\ session' = [session EXCEPT !.recording = FALSE]

\* toggle_recording with nothing to stop; a start may fail.
Starts(t) ==
    /\ LockFree /\ ~session.recording
    /\ ThreadStep(t, "toggling", "free")
    /\ session' \in {session, [id |-> session.id + 1, recording |-> TRUE]}

\* stop with nothing to stop.
StopsNothing(t) ==
    /\ LockFree /\ ~session.recording
    /\ ThreadStep(t, "stopping", "free")
    /\ UNCHANGED session

\* finish_stop_recording: the transcript arrives, for a dictation that may have
\* been superseded, or never does.
Transcribed(t) ==
    /\ \/ Current(dictation[t]) /\ ThreadStep(t, "transcribing", "awaiting release")
       \/ ThreadStep(t, "transcribing", "free")
    /\ UNCHANGED session

\* wait_record_release_on: until the gate opens, the dictation is superseded, or
\* five seconds have passed.
WaitsOnly(t) ==
    /\ \/ ~pressed /\ ThreadStep(t, "awaiting release", "settling")
       \/ pressed /\ ~Current(dictation[t]) /\ ThreadStep(t, "awaiting release", "free")
    /\ UNCHANGED session

AwaitsRelease(t) ==
    /\ \/ ~pressed /\ ThreadStep(t, "awaiting release", "settling")
       \/ pressed /\ ThreadStep(t, "awaiting release", "free")
    /\ UNCHANGED session

Settles(t) ==
    /\ ThreadStep(t, "settling", IF Current(dictation[t]) THEN "delivering" ELSE "free")
    /\ UNCHANGED session

Delivers(t) ==
    /\ ThreadStep(t, "delivering", "free")
    /\ UNCHANGED session

\* retry_delivery_inner, up to the modifiers' release; there may be no text.
RetryBegins(t) ==
    /\ LockFree
    /\ \E next \in {"retrying", "free"} : ThreadStep(t, "retry", next)
    /\ UNCHANGED session

\* Whatever goes on is superseded, and the last text delivered like a new one.
RetryDelivers(t) ==
    /\ ThreadStep(t, "retrying", "awaiting release")
    /\ session' = [id |-> session.id + 1, recording |-> FALSE]

RetryFails(t) ==
    /\ ThreadStep(t, "retrying", "free")
    /\ UNCHANGED session

----------------------------------------------------------------------------

Init ==
    /\ backend \in Backends /\ mode \in Modes
    /\ down = {} /\ wire = <<>> /\ listening = TRUE /\ epoch = 1 /\ closed = 0
    /\ recent = {} /\ held = {} /\ pressed = FALSE /\ pending = Nobody /\ armed = 0
    /\ pc = [t \in Threads |-> "free"] /\ owed = {}
    /\ dictation = [t \in Threads |-> 0]
    /\ session = [id |-> 0, recording |-> FALSE]
    /\ presses = 0 /\ closures = 0

Desktop == \E id \in Ids : Press(id) \/ Release(id) \/ Forgets(id)

Listener ==
    \/ \E id \in Ids : Ignores(id) \/ Drops(id)
    \/ ActivatesRecord \/ ActivatesRetry \/ DeactivatesRecord \/ DeactivatesRetry
    \/ Closes \/ Fails \/ Reopens

ThreadNext(t) ==
    \/ PressHandled(t) \/ ReleaseHandled(t)
    \/ Stops(t, "toggling") \/ Stops(t, "stopping") \/ Starts(t) \/ StopsNothing(t)
    \/ Transcribed(t) \/ AwaitsRelease(t) \/ Settles(t) \/ Delivers(t)
    \/ RetryBegins(t) \/ RetryDelivers(t) \/ RetryFails(t)

Next == Desktop \/ Listener \/ \E t \in Threads : ThreadNext(t)

\* Threads are scheduled, and their waits have deadlines; nobody has to press or
\* to release anything.
Spec == Init /\ [][Next]_vars /\ \A t \in Threads : WF_vars(ThreadNext(t))

----------------------------------------------------------------------------
(* Properties.                                                             *)

Labels == {"free", "press", "release", "toggling", "stopping", "transcribing",
           "awaiting release", "settling", "delivering", "armed", "retry", "retrying"}

TypeOK ==
    /\ backend \in Backends /\ mode \in Modes
    /\ down \in SUBSET Ids /\ wire \in Seq(Event)
    /\ listening \in BOOLEAN /\ epoch \in Nat /\ closed \in Nat
    /\ recent \in SUBSET Ids /\ held \in SUBSET Ids /\ pressed \in BOOLEAN
    /\ pending \in Threads \cup {Nobody} /\ armed \in Nat
    /\ pc \in [Threads -> Labels]
    /\ owed \in SUBSET Threads
    /\ dictation \in [Threads -> Nat]
    /\ session \in [id : Nat, recording : BOOLEAN]
    /\ presses \in 0..MaxPresses /\ closures \in 0..MaxClosures

\* A retry that is held when the portal reports the end of a session never
\* pastes, whether it was pressed in that session or was left over from an
\* earlier one: what the gate holds was pressed after the last such report.
\* And a thread waits for its release only while the gate can still tell it.
ClosingEndsRetries ==
    /\ pending # Nobody => armed > closed
    /\ \A t \in Threads : pc[t] = "armed" <=> pending = t

\* A held retry does not paste after a reconnect, as the comment in the code has
\* it.  The code does not hold this: the listener also leaves the session when
\* it cannot write the changed triggers down, and then the retry stays.
RetryOfThisPortal ==
    backend = "portal" /\ pending # Nobody /\ listening => armed = epoch

\* A dictation that was stopped by a press of the record shortcut is not
\* delivered before a release has been reported after that press: typing into
\* the focused window with the shortcut's modifiers down would trigger its own
\* shortcuts there.
DeliversReleased == \A t \in owed : pc[t] \notin {"settling", "delivering"}

\* Every delivery that is ready is over within a bounded time, also when the
\* release of the record shortcut is never reported, as after the portal's
\* session has ended with the shortcut down.
DeliveryEnds ==
    \A t \in Threads : pc[t] = "awaiting release" ~> pc[t] = "free"

\* In hold mode the microphone is only on while the record shortcut is down:
\* once everything has been dealt with and the shortcut is up, nothing is being
\* recorded.  The code does not hold this: the thread of a release may take the
\* lock before the thread of its press does, and finds nothing to stop.
Idle == listening /\ wire = <<>> /\ \A t \in Threads : pc[t] = "free"

RecordsOnlyWhileHeld ==
    mode = "hold" /\ Idle /\ "record" \notin down => ~session.recording

=============================================================================
