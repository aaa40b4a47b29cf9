--------------------------- MODULE Shortcuts_proofs ---------------------------
(***************************************************************************)
(* Safety of the shortcut listener for every number of threads, presses    *)
(* and lost sessions, under either backend and mode.                       *)
(*                                                                         *)
(* DeliversReleased is inductive only together with GateClosed: a press    *)
(* whose release has not been seen keeps the record gate closed, whatever  *)
(* other shortcuts, threads and sessions do meanwhile.  ClosingEndsRetries *)
(* needs SessionOpen: events come from a session that is open, and an open *)
(* session is newer than any whose end the portal has reported.            *)
(***************************************************************************)
EXTENDS Shortcuts, TLAPS

GateClosed == owed # {} => pressed

SessionOpen ==
    /\ ~listening => wire = <<>>
    /\ closed <= epoch /\ (listening => closed < epoch)

IInv == TypeOK /\ GateClosed /\ SessionOpen /\ DeliversReleased /\ ClosingEndsRetries

----------------------------------------------------------------------------

LEMMA InitEstablishes == Init => IInv
<1> SUFFICES ASSUME Init PROVE IInv
  OBVIOUS
<1> USE ShortcutAssumption DEF Init, Nobody
<1>1. wire \in Seq(Event)
  OBVIOUS
<1>2. pc \in [Threads -> Labels] /\ dictation \in [Threads -> Nat]
  BY DEF Labels
<1>3. session \in [id : Nat, recording : BOOLEAN] /\ presses \in 0..MaxPresses
      /\ closures \in 0..MaxClosures
  OBVIOUS
<1>4. TypeOK
  BY <1>1, <1>2, <1>3 DEF TypeOK
<1>5. GateClosed /\ SessionOpen /\ DeliversReleased
  BY DEF GateClosed, SessionOpen, DeliversReleased
<1>6. ClosingEndsRetries
  <2>1. \A t \in Threads : pc[t] = "free" /\ pending # t
    OBVIOUS
  <2> QED BY <2>1 DEF ClosingEndsRetries
<1> QED BY <1>4, <1>5, <1>6 DEF IInv

LEMMA NewThreadIsFree ==
    ASSUME \E t \in Threads : pc[t] = "free"
    PROVE  NewThread \in Threads /\ pc[NewThread] = "free"
BY DEF NewThread

\* Events taken from the wire leave a wire of events.
LEMMA TakingKeepsWire ==
    ASSUME TypeOK, NEW id, NEW on, Takes(id, on)
    PROVE  wire' \in Seq(Event) /\ wire # <<>>
<1>1. wire \in Seq(Event) /\ wire # <<>>
  BY DEF TypeOK, Takes
<1>2. Len(wire) \in Nat /\ Len(wire) - 1 \in Nat
  BY <1>1
<1> DEFINE w == [i \in 1..(Len(wire) - 1) |-> IF i < Next1 THEN wire[i] ELSE wire[i + 1]]
<1>3. \A i \in 1..(Len(wire) - 1) : wire[i] \in Event /\ wire[i + 1] \in Event
  BY <1>1
<1>4. w \in [1..(Len(wire) - 1) -> Event]
  BY <1>3
<1>5. w \in Seq(Event)
  BY <1>2, <1>4
<1> QED BY <1>1, <1>5 DEF Takes

----------------------------------------------------------------------------
(* The desktop. *)

LEMMA DesktopPreserves ==
    ASSUME IInv, Desktop PROVE IInv'
<1> USE ShortcutAssumption DEF gates, threads, settings, link
<1>1. PICK id \in Ids : Press(id) \/ Release(id) \/ Forgets(id)
  BY DEF Desktop
<1>2. wire' \in Seq(Event) /\ SessionOpen'
  <2>1. [id |-> id, on |-> TRUE] \in Event /\ [id |-> id, on |-> FALSE] \in Event
    BY DEF Event
  <2>2. wire \in Seq(Event) /\ SessionOpen
    BY DEF IInv, TypeOK
  <2>3. CASE wire' = wire
    <3>1. UNCHANGED <<listening, epoch, closed>>
      BY <1>1 DEF Press, Release, Forgets
    <3> QED BY <2>2, <2>3, <3>1 DEF SessionOpen
  <2>4. CASE wire' # wire
    BY <1>1, <2>1, <2>2, <2>4 DEF Press, Release, Forgets, Tells, SessionOpen
  <2> QED BY <2>3, <2>4
<1>3. TypeOK'
  <2>1. CASE Press(id)
    BY <1>2, <2>1 DEF Press, IInv, TypeOK
  <2>2. CASE Release(id)
    BY <1>2, <2>2 DEF Release, IInv, TypeOK
  <2>3. CASE Forgets(id)
    <3>1. recent' \in SUBSET Ids
      BY <2>3 DEF Forgets, IInv, TypeOK
    <3>2. UNCHANGED <<user, link, held, pressed, pending, armed, threads, session, settings>>
      BY <2>3 DEF Forgets
    <3> QED BY <1>2, <3>1, <3>2 DEF IInv, TypeOK, user
  <2> QED BY <1>1, <2>1, <2>2, <2>3
<1>4. UNCHANGED <<pc, owed, pressed, pending, armed, link>>
  BY <1>1 DEF Press, Release, Forgets
<1> QED
  BY <1>2, <1>3, <1>4 DEF IInv, GateClosed, DeliversReleased, ClosingEndsRetries

----------------------------------------------------------------------------
(* The listener. *)

LEMMA ListenerPreserves ==
    ASSUME IInv, Listener PROVE IInv'
<1> USE ShortcutAssumption DEF gates, threads, settings, user, link, Nobody
<1>1. TypeOK /\ GateClosed /\ SessionOpen /\ DeliversReleased /\ ClosingEndsRetries
  BY DEF IInv
<1>2. ASSUME NEW id \in Ids, NEW on \in BOOLEAN, Takes(id, on)
      PROVE  /\ wire' \in Seq(Event) /\ listening /\ SessionOpen'
             /\ UNCHANGED <<user, link, session, settings>>
  BY <1>1, <1>2, TakingKeepsWire DEF Takes, SessionOpen, TypeOK
<1>3. ASSUME NEW id \in Ids, Ignores(id) \/ Drops(id) PROVE IInv'
  <2>1. /\ wire' \in Seq(Event) /\ SessionOpen'
        /\ UNCHANGED <<user, link, session, settings, gates, threads>>
    BY <1>2, <1>3 DEF Ignores, Drops
  <2> QED
    BY <1>1, <2>1 DEF IInv, TypeOK, GateClosed, DeliversReleased, ClosingEndsRetries
<1>4. "record" \in Ids /\ "retry" \in Ids
  BY DEF Ids
<1>5. CASE ActivatesRecord
  <2>1. /\ wire' \in Seq(Event) /\ SessionOpen' /\ listening
        /\ UNCHANGED <<user, link, session, settings>>
    BY <1>2, <1>4, <1>5 DEF ActivatesRecord, Allows
  <2>2. NewThread \in Threads /\ pc[NewThread] = "free"
    BY <1>5, NewThreadIsFree DEF ActivatesRecord
  <2>3. /\ pc' = [pc EXCEPT ![NewThread] = "press"] /\ owed' = owed \cup {NewThread}
        /\ pressed' = TRUE /\ UNCHANGED <<dictation, pending, armed>>
    BY <1>5 DEF ActivatesRecord, ClosesGate
  <2>4. recent' \in SUBSET Ids /\ held' \in SUBSET Ids
    BY <1>1, <1>4, <1>5 DEF ActivatesRecord, Allows, TypeOK
  <2>5. TypeOK'
    BY <1>1, <2>1, <2>2, <2>3, <2>4 DEF TypeOK, Labels
  <2>6. GateClosed' /\ DeliversReleased'
    BY <1>1, <2>2, <2>3 DEF GateClosed, DeliversReleased, TypeOK
  <2>7. ClosingEndsRetries'
    BY <1>1, <2>1, <2>2, <2>3 DEF ClosingEndsRetries, TypeOK
  <2> QED BY <2>1, <2>5, <2>6, <2>7 DEF IInv
<1>6. CASE ActivatesRetry
  <2>1. /\ wire' \in Seq(Event) /\ SessionOpen' /\ listening
        /\ UNCHANGED <<user, link, session, settings>>
    BY <1>2, <1>4, <1>6 DEF ActivatesRetry, Allows
  <2>2. NewThread \in Threads /\ pc[NewThread] = "free"
    BY <1>6, NewThreadIsFree DEF ActivatesRetry
  <2>3. recent' \in SUBSET Ids /\ held' \in SUBSET Ids /\ UNCHANGED <<pressed, dictation>>
    BY <1>1, <1>4, <1>6 DEF ActivatesRetry, Allows, TypeOK
  <2>4. CASE pending = Nobody
    <3>1. /\ pc' = [pc EXCEPT ![NewThread] = "armed"] /\ owed' = owed
          /\ pending' = NewThread /\ armed' = epoch
      BY <1>6, <2>4 DEF ActivatesRetry, GoesTo
    <3>2. TypeOK'
      BY <1>1, <2>1, <2>2, <2>3, <3>1 DEF TypeOK, Labels
    <3>3. GateClosed' /\ DeliversReleased'
      BY <1>1, <2>2, <2>3, <3>1 DEF GateClosed, DeliversReleased, TypeOK
    <3>4. closed' = closed /\ epoch > closed
      BY <1>1, <2>1 DEF SessionOpen, TypeOK
    <3>5. armed' > closed'
      BY <3>1, <3>4
    <3>6. \A u \in Threads : pc'[u] = "armed" <=> pending' = u
      BY <1>1, <2>2, <2>4, <3>1 DEF ClosingEndsRetries, TypeOK
    <3>7. ClosingEndsRetries'
      BY <3>5, <3>6 DEF ClosingEndsRetries
    <3> QED BY <2>1, <3>2, <3>3, <3>7 DEF IInv
  <2>5. CASE pending # Nobody
    <3>1. UNCHANGED <<pending, armed, pc, owed>>
      BY <1>6, <2>5 DEF ActivatesRetry
    <3> QED
      BY <1>1, <2>1, <2>3, <3>1 DEF IInv, TypeOK, GateClosed, DeliversReleased, ClosingEndsRetries
  <2> QED BY <2>4, <2>5
<1>7. CASE DeactivatesRecord
  <2>1. /\ wire' \in Seq(Event) /\ SessionOpen' /\ listening
        /\ UNCHANGED <<user, link, session, settings>>
    BY <1>2, <1>4, <1>7 DEF DeactivatesRecord
  <2>2. NewThread \in Threads /\ pc[NewThread] = "free"
    BY <1>7, NewThreadIsFree DEF DeactivatesRecord
  <2>3. /\ pc' = [pc EXCEPT ![NewThread] = "release"] /\ owed' = {}
        /\ pressed' = FALSE /\ UNCHANGED <<dictation, pending, armed, recent>>
    BY <1>7 DEF DeactivatesRecord
  <2>4. held' \in SUBSET Ids
    BY <1>1, <1>7 DEF DeactivatesRecord, TypeOK
  <2>5. TypeOK'
    BY <1>1, <2>1, <2>2, <2>3, <2>4 DEF TypeOK, Labels
  <2>6. GateClosed' /\ DeliversReleased'
    BY <2>3 DEF GateClosed, DeliversReleased
  <2>7. ClosingEndsRetries'
    BY <1>1, <2>1, <2>2, <2>3 DEF ClosingEndsRetries, TypeOK
  <2> QED BY <2>1, <2>5, <2>6, <2>7 DEF IInv
<1>8. CASE DeactivatesRetry
  <2>1. /\ wire' \in Seq(Event) /\ SessionOpen' /\ listening
        /\ UNCHANGED <<user, link, session, settings>>
    BY <1>2, <1>4, <1>8 DEF DeactivatesRetry
  <2>2. held' \in SUBSET Ids /\ UNCHANGED <<dictation, recent, pressed>>
        /\ pending' = Nobody /\ armed' = 0
    BY <1>1, <1>8 DEF DeactivatesRetry, TypeOK
  <2>3. CASE pending # Nobody
    <3>1. pc' = [pc EXCEPT ![pending] = "retry"] /\ owed' = owed /\ pending \in Threads
      BY <1>1, <1>8, <2>3 DEF DeactivatesRetry, GoesTo, TypeOK
    <3>2. TypeOK'
      BY <1>1, <2>1, <2>2, <3>1 DEF TypeOK, Labels
    <3>3. GateClosed' /\ DeliversReleased'
      BY <1>1, <2>2, <3>1 DEF GateClosed, DeliversReleased, TypeOK
    <3>4. ClosingEndsRetries'
      BY <1>1, <2>2, <3>1 DEF ClosingEndsRetries, TypeOK
    <3> QED BY <2>1, <3>2, <3>3, <3>4 DEF IInv
  <2>4. CASE pending = Nobody
    <3>1. UNCHANGED <<pc, owed>>
      BY <1>8, <2>4 DEF DeactivatesRetry
    <3> QED
      BY <1>1, <2>1, <2>2, <2>4, <3>1
         DEF IInv, TypeOK, GateClosed, DeliversReleased, ClosingEndsRetries
  <2> QED BY <2>3, <2>4
<1>9. ASSUME EndsSession
      PROVE  /\ closures' \in 0..MaxClosures /\ listening' = FALSE /\ wire' = <<>> /\ held' = {}
             /\ listening /\ wire' \in Seq(Event)
             /\ UNCHANGED <<down, presses, epoch, recent, pressed, dictation, session, settings>>
  BY <1>1, <1>9 DEF EndsSession, TypeOK
<1>10. CASE Closes
  <2>1. /\ closures' \in 0..MaxClosures /\ listening' = FALSE /\ wire' = <<>> /\ held' = {}
        /\ wire' \in Seq(Event) /\ closed' = epoch
        /\ UNCHANGED <<down, presses, epoch, recent, pressed, dictation, session, settings>>
    BY <1>9, <1>10 DEF Closes
  <2>2. SessionOpen'
    BY <1>1, <2>1 DEF SessionOpen, TypeOK
  <2>3. CASE pending # Nobody
    <3>1. /\ pc' = [pc EXCEPT ![pending] = "free"] /\ owed' = owed \ {pending}
          /\ pending \in Threads /\ pending' = Nobody /\ armed' = 0
      BY <1>1, <1>10, <2>3 DEF Closes, DropsRetry, GoesTo, TypeOK
    <3>2. TypeOK'
      BY <1>1, <2>1, <3>1 DEF TypeOK, Labels
    <3>3. GateClosed' /\ DeliversReleased'
      BY <1>1, <2>1, <3>1 DEF GateClosed, DeliversReleased, TypeOK
    <3>4. ClosingEndsRetries'
      BY <1>1, <3>1 DEF ClosingEndsRetries, TypeOK
    <3> QED BY <2>2, <3>2, <3>3, <3>4 DEF IInv
  <2>4. CASE pending = Nobody
    <3>1. UNCHANGED <<pending, armed, pc, owed>>
      BY <1>10, <2>4 DEF Closes, DropsRetry
    <3>2. TypeOK'
      BY <1>1, <2>1, <3>1 DEF TypeOK
    <3> QED
      BY <1>1, <2>1, <2>2, <2>4, <3>1, <3>2
         DEF IInv, GateClosed, DeliversReleased, ClosingEndsRetries
  <2> QED BY <2>3, <2>4
<1>11. CASE Fails
  \* A held retry stays, and is as new as it was.
  <2>1. /\ closures' \in 0..MaxClosures /\ listening' = FALSE /\ wire' = <<>> /\ held' = {}
        /\ wire' \in Seq(Event) /\ UNCHANGED <<closed, pending, armed, pc, owed>>
        /\ UNCHANGED <<down, presses, epoch, recent, pressed, dictation, session, settings>>
    BY <1>9, <1>11 DEF Fails
  <2>2. TypeOK' /\ SessionOpen'
    BY <1>1, <2>1 DEF TypeOK, SessionOpen
  <2> QED
    BY <1>1, <2>1, <2>2 DEF IInv, GateClosed, DeliversReleased, ClosingEndsRetries
<1>12. CASE Reopens
  BY <1>1, <1>12 DEF Reopens, IInv, TypeOK, GateClosed, SessionOpen, DeliversReleased,
     ClosingEndsRetries
<1> QED
  BY <1>3, <1>5, <1>6, <1>7, <1>8, <1>10, <1>11, <1>12 DEF Listener

----------------------------------------------------------------------------
(* The threads. *)

\* What any step of a thread does: it never takes part in the retry gate, and it
\* starts to deliver only when the record gate is open.
LEMMA ThreadEffect ==
    ASSUME IInv, NEW t \in Threads, ThreadNext(t)
    PROVE  /\ session' \in [id : Nat, recording : BOOLEAN]
           /\ \E label, next \in Labels \ {"armed"} :
                /\ ThreadStep(t, label, next)
                /\ next = "settling" => ~pressed
                /\ next = "delivering" => label = "settling"
<1> DEFINE Effect(label, next) ==
        /\ label \in Labels \ {"armed"} /\ next \in Labels \ {"armed"}
        /\ ThreadStep(t, label, next)
        /\ next = "settling" => ~pressed
        /\ next = "delivering" => label = "settling"
<1>1. session \in [id : Nat, recording : BOOLEAN]
  BY DEF IInv, TypeOK
<1>2. session' \in [id : Nat, recording : BOOLEAN]
  <2>1. \/ session' = session
        \/ session' = [session EXCEPT !.recording = FALSE]
        \/ session' = [id |-> session.id + 1, recording |-> TRUE]
        \/ session' = [id |-> session.id + 1, recording |-> FALSE]
    BY DEF ThreadNext, PressHandled, ReleaseHandled, Stops, Starts, StopsNothing, Transcribed,
       AwaitsRelease, Settles, Delivers, RetryBegins, RetryDelivers, RetryFails
  <2>2. session.id + 1 \in Nat
    BY <1>1
  <2>3. CASE session' = [session EXCEPT !.recording = FALSE]
    BY <1>1, <2>3
  <2>4. CASE session' \in {[id |-> session.id + 1, recording |-> b] : b \in BOOLEAN}
    BY <2>2, <2>4
  <2> QED BY <1>1, <2>1, <2>3, <2>4
<1>3. \E label, next : Effect(label, next)
  <2> USE DEF Labels
  <2>1. CASE PressHandled(t)
    <3>1. Effect("press", "free") \/ Effect("press", "toggling")
      BY <2>1 DEF PressHandled
    <3> QED BY <3>1
  <2>2. CASE ReleaseHandled(t)
    <3>1. Effect("release", "free") \/ Effect("release", "stopping")
      BY <2>2 DEF ReleaseHandled
    <3> QED BY <3>1
  <2>3. CASE Stops(t, "toggling")
    <3>1. Effect("toggling", "transcribing")
      BY <2>3 DEF Stops
    <3> QED BY <3>1
  <2>4. CASE Stops(t, "stopping")
    <3>1. Effect("stopping", "transcribing")
      BY <2>4 DEF Stops
    <3> QED BY <3>1
  <2>5. CASE Starts(t) \/ StopsNothing(t)
    <3>1. Effect("toggling", "free") \/ Effect("stopping", "free")
      BY <2>5 DEF Starts, StopsNothing
    <3> QED BY <3>1
  <2>6. CASE Transcribed(t)
    <3>1. Effect("transcribing", "awaiting release") \/ Effect("transcribing", "free")
      BY <2>6 DEF Transcribed
    <3> QED BY <3>1
  <2>7. CASE AwaitsRelease(t)
    <3>1. Effect("awaiting release", "settling") \/ Effect("awaiting release", "free")
      BY <2>7 DEF AwaitsRelease
    <3> QED BY <3>1
  <2>8. CASE Settles(t)
    <3>1. Effect("settling", "delivering") \/ Effect("settling", "free")
      BY <2>8 DEF Settles
    <3> QED BY <3>1
  <2>9. CASE Delivers(t)
    <3>1. Effect("delivering", "free")
      BY <2>9 DEF Delivers
    <3> QED BY <3>1
  <2>10. CASE RetryBegins(t)
    <3>1. Effect("retry", "retrying") \/ Effect("retry", "free")
      BY <2>10 DEF RetryBegins
    <3> QED BY <3>1
  <2>11. CASE RetryDelivers(t)
    <3>1. Effect("retrying", "awaiting release")
      BY <2>11 DEF RetryDelivers
    <3> QED BY <3>1
  <2>12. CASE RetryFails(t)
    <3>1. Effect("retrying", "free")
      BY <2>12 DEF RetryFails
    <3> QED BY <3>1
  <2> QED
    BY <2>1, <2>2, <2>3, <2>4, <2>5, <2>6, <2>7, <2>8, <2>9, <2>10, <2>11, <2>12
       DEF ThreadNext
<1> QED BY <1>2, <1>3

LEMMA ThreadPreserves ==
    ASSUME IInv, NEW t \in Threads, ThreadNext(t) PROVE IInv'
<1> USE ShortcutAssumption DEF gates, threads, settings, user, link, Nobody
<1>1. TypeOK /\ GateClosed /\ SessionOpen /\ DeliversReleased /\ ClosingEndsRetries
  BY DEF IInv
<1>2. session' \in [id : Nat, recording : BOOLEAN]
  BY ThreadEffect
<1>3. PICK label \in Labels \ {"armed"}, next \in Labels \ {"armed"} :
        /\ ThreadStep(t, label, next)
        /\ next = "settling" => ~pressed
        /\ next = "delivering" => label = "settling"
  BY ThreadEffect
<1>4. /\ pc[t] = label /\ pc' = [pc EXCEPT ![t] = next]
      /\ owed' \subseteq owed /\ UNCHANGED <<user, wire, link, gates, settings>>
  BY <1>3 DEF ThreadStep, GoesTo
<1>5. dictation' \in [Threads -> Nat]
  <2>1. session.id \in Nat /\ session.id + 1 \in Nat /\ dictation \in [Threads -> Nat]
    BY <1>1 DEF TypeOK
  <2>2. \E d \in {0, session.id, session.id + 1, dictation[t]} :
           dictation' = [dictation EXCEPT ![t] = d]
    <3>1. dictation' = [dictation EXCEPT ![t] =
                          CASE next = "free" -> 0
                            [] next = "transcribing" -> session.id
                            [] next = "awaiting release" /\ label = "retrying" -> session.id + 1
                            [] OTHER -> dictation[t]]
      BY <1>3 DEF ThreadStep
    <3>2. CASE next = "free"
      BY <3>1, <3>2
    <3>3. CASE next = "transcribing"
      BY <3>1, <3>3
    <3>4. CASE next = "awaiting release" /\ label = "retrying"
      BY <3>1, <3>4
    <3>5. CASE next \notin {"free", "transcribing", "awaiting release"}
      BY <3>1, <3>5
    <3>6. CASE next = "awaiting release" /\ label # "retrying"
      BY <3>1, <3>6
    <3> QED BY <3>2, <3>3, <3>4, <3>5, <3>6
  <2> QED BY <2>1, <2>2
<1>6. TypeOK'
  <2>1. pc' \in [Threads -> Labels] /\ owed' \in SUBSET Threads
    BY <1>1, <1>3, <1>4 DEF TypeOK
  <2> QED BY <1>1, <1>2, <1>4, <1>5, <2>1 DEF TypeOK
<1>7. GateClosed' /\ SessionOpen'
  BY <1>1, <1>4 DEF GateClosed, SessionOpen
<1>8. DeliversReleased'
  BY <1>1, <1>3, <1>4 DEF GateClosed, DeliversReleased, TypeOK
<1>9. ClosingEndsRetries'
  BY <1>1, <1>3, <1>4 DEF ClosingEndsRetries, TypeOK
<1> QED BY <1>6, <1>7, <1>8, <1>9 DEF IInv

----------------------------------------------------------------------------
(* The theorems. *)

LEMMA StepPreserves == IInv /\ [Next]_vars => IInv'
<1> SUFFICES ASSUME IInv, [Next]_vars PROVE IInv'
  OBVIOUS
<1>1. CASE UNCHANGED vars
  BY <1>1 DEF vars, user, link, gates, threads, settings, IInv, TypeOK, GateClosed, SessionOpen,
     DeliversReleased, ClosingEndsRetries
<1>2. CASE Next
  BY <1>2, DesktopPreserves, ListenerPreserves, ThreadPreserves DEF Next
<1> QED BY <1>1, <1>2

\* The inductive invariant holds in every state the daemon can reach.
THEOREM Invariance == Spec => []IInv
BY InitEstablishes, StepPreserves, PTL DEF Spec

\* Type correctness.
THEOREM TypeCorrect == Spec => []TypeOK
BY Invariance, PTL DEF IInv

\* No dictation is typed while the record shortcut that ended it is held.
THEOREM ReleasedFirst == Spec => []DeliversReleased
BY Invariance, PTL DEF IInv

\* A held retry never outlives a session whose end the portal has reported after
\* it was pressed.
THEOREM NoForeignRetry == Spec => []ClosingEndsRetries
BY Invariance, PTL DEF IInv

=============================================================================
