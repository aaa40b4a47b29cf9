------------------------- MODULE OverlayWindow_proofs -------------------------
(***************************************************************************)
(* Safety of the overlay's window for all texts, locales and severities    *)
(* and any number of commands and answers.  Every way to paint ends in     *)
(* Shows or in Configured, so what these two establish (Painted) holds     *)
(* after every step, whatever the window was like before.                  *)
(***************************************************************************)
EXTENDS OverlayWindow, TLAPS

ShowsWanted == IF Blank(Wanted) THEN shown = {} ELSE \E pic \in shown : pic.plan = Wanted

\* Stronger than NothingLeftToPaint: what is on its way does not matter.
UpToDate == alive /\ ~redraw => ShowsWanted

WindowOK ==
    /\ surface \in {"none", "waiting", "ready"}
    /\ size \in Sizes /\ asked \in Sizes /\ lastAsk \in Sizes
    /\ shown \in SUBSET [plan : Plans, buffer : Sizes]
    /\ redraw \in BOOLEAN /\ wire \in Seq(Sizes)

ContentOK ==
    /\ primary \in Primary /\ notice \in Notice \cup {NoNotice} /\ locale \in Locales
    /\ alive \in BOOLEAN /\ commands \in 0..MaxCommands

IInv == ContentOK /\ WindowOK /\ BufferFits /\ UpToDate

\* After a plan was presented the window has its types, fits, and shows the plan
\* or will be repainted.
Painted(plan) ==
    /\ WindowOK' /\ BufferFits'
    /\ ~redraw' => IF Blank(plan) THEN shown' = {} ELSE \E pic \in shown' : pic.plan = plan

----------------------------------------------------------------------------

LEMMA PlansHaveSizes ==
    ASSUME NEW p \in Primary, NEW n \in Notice \cup {NoNotice}, NEW l \in Locales
    PROVE  Plan(p, n, l) \in Plans /\ Size(Plan(p, n, l)) \in Sizes
<1>1. n.text \in Texts \cup {""}
  <2>1. CASE n \in Notice
    BY <2>1 DEF Notice
  <2>2. CASE n = NoNotice
    BY <2>2 DEF NoNotice
  <2> QED BY <2>1, <2>2
<1> QED BY <1>1 DEF Plan, Plans, Size, Sizes

LEMMA ReadyPaints ==
    ASSUME NEW plan \in Plans, Size(plan) \in Sizes, ~Blank(plan),
           NEW s \in Sizes, NEW pending \in Sizes, NEW q \in Seq(Sizes),
           shown \in SUBSET [plan : Plans, buffer : Sizes], lastAsk \in Sizes, BufferFits,
           PresentsReady(plan, s, pending, q)
    PROVE  Painted(plan)
<1> DEFINE pic == [plan |-> plan, buffer |-> s]
<1>1. surface' = "ready" /\ size' = s
  BY DEF PresentsReady
<1>2. CASE s = Size(plan)
  <2>1. shown' = {pic} /\ redraw' = FALSE /\ asked' = pending /\ wire' = q /\ lastAsk' = lastAsk
    BY <1>2 DEF PresentsReady, Draws
  <2>2. pic \in [plan : Plans, buffer : Sizes] /\ pic.plan = plan /\ pic.buffer = Size(pic.plan)
    BY <1>2
  <2>3. WindowOK'
    BY <1>1, <2>1, <2>2 DEF WindowOK
  <2>4. BufferFits'
    BY <2>1, <2>2 DEF BufferFits
  <2> QED BY <2>1, <2>2, <2>3, <2>4 DEF Painted
<1>3. CASE s # Size(plan)
  <2>1. /\ asked' = Size(plan) /\ redraw' = TRUE /\ lastAsk' = Size(plan) /\ shown' = shown
        /\ Answers(q, Size(plan))
    BY <1>3 DEF PresentsReady, Asks
  <2>2. Zero \in Sizes
    BY DEF Zero, Sizes
  <2>3. wire' \in Seq(Sizes)
    BY <2>1, <2>2 DEF Answers
  <2>4. WindowOK'
    BY <1>1, <2>1, <2>3 DEF WindowOK
  <2> QED BY <2>1, <2>4 DEF Painted, BufferFits
<1> QED BY <1>2, <1>3

LEMMA DestroyingPaints ==
    ASSUME WindowOK, NEW plan \in Plans, Blank(plan), Destroys PROVE Painted(plan)
<1>1. /\ surface' = "none" /\ shown' = {} /\ wire' = <<>> /\ redraw' = FALSE
      /\ UNCHANGED <<size, asked, lastAsk>>
  BY DEF Destroys
<1>2. wire' \in Seq(Sizes)
  BY <1>1
<1>3. WindowOK'
  BY <1>1, <1>2 DEF WindowOK
<1>4. BufferFits'
  BY <1>1 DEF BufferFits
<1> QED BY <1>1, <1>3, <1>4 DEF Painted

LEMMA PresentingPaints ==
    ASSUME WindowOK, BufferFits, NEW plan \in Plans, Size(plan) \in Sizes, Presents(plan)
    PROVE  Painted(plan)
<1>1. CASE Blank(plan)
  BY <1>1, DestroyingPaints DEF Presents, Shows
<1>2. CASE ~Blank(plan) /\ surface = "none"
  <2>1. Creates(plan)
    BY <1>2 DEF Presents, Shows
  <2>2. Zero \in Sizes
    BY DEF Zero, Sizes
  <2>3. wire' \in Seq(Sizes)
    BY <2>1, <2>2 DEF Creates
  <2>4. /\ surface' = "waiting" /\ size' = Size(plan) /\ asked' = Zero
        /\ shown' = {} /\ redraw' = TRUE /\ lastAsk' = Size(plan)
    BY <2>1 DEF Creates
  <2> QED BY <2>2, <2>3, <2>4 DEF WindowOK, Painted, BufferFits
<1>3. CASE ~Blank(plan) /\ surface = "waiting"
  <2>1. redraw' = TRUE /\ UNCHANGED <<surface, size, asked, shown, wire, lastAsk>>
    BY <1>3 DEF Presents, Shows
  <2> QED BY <2>1 DEF WindowOK, Painted, BufferFits
<1>4. CASE ~Blank(plan) /\ surface = "ready"
  <2>1. PresentsReady(plan, size, asked, wire)
    BY <1>4 DEF Presents, Shows
  <2> QED BY <1>4, <2>1, ReadyPaints DEF WindowOK
<1> QED BY <1>1, <1>2, <1>3, <1>4 DEF WindowOK

LEMMA InitEstablishes == Init => IInv
<1> SUFFICES ASSUME Init PROVE IInv
  OBVIOUS
<1>1. Zero \in Sizes
  BY DEF Zero, Sizes
<1>2. ContentOK
  <2>1. commands \in 0..MaxCommands
    <3>1. commands = 0 /\ MaxCommands \in Nat
      BY OverlayAssumption DEF Init
    <3> QED BY <3>1
  <2>2. /\ primary = "Hidden" /\ notice = NoNotice /\ locale \in Locales /\ alive = TRUE
    BY DEF Init
  <2> QED BY <2>1, <2>2 DEF ContentOK, Primary
<1>3. WindowOK
  BY <1>1 DEF Init, WindowOK
<1>4. BufferFits /\ UpToDate
  BY DEF Init, BufferFits, UpToDate
<1> QED BY <1>2, <1>3, <1>4 DEF IInv

\* A command, whatever it sets, presents what it has set.
LEMMA CommandPreserves ==
    ASSUME IInv, NEW p \in Primary, NEW n \in Notice \cup {NoNotice}, NEW l \in Locales,
           Command(p, n, l)
    PROVE  IInv'
<1>1. ContentOK /\ WindowOK /\ BufferFits
  BY DEF IInv
<1>2. Painted(Plan(p, n, l))
  BY <1>1, PlansHaveSizes, PresentingPaints DEF Command
<1>3. primary' = p /\ notice' = n /\ locale' = l /\ alive' = alive
  BY DEF Command
<1>4. commands' \in 0..MaxCommands
  <2>1. commands \in 0..MaxCommands /\ commands < MaxCommands /\ commands' = commands + 1
    BY <1>1 DEF Command, ContentOK
  <2>2. MaxCommands \in Nat
    BY OverlayAssumption
  <2> QED BY <2>1, <2>2
<1>5. ContentOK'
  BY <1>1, <1>3, <1>4 DEF ContentOK
<1>6. Wanted' = Plan(p, n, l)
  BY <1>3 DEF Wanted
<1>7. UpToDate'
  BY <1>2, <1>6 DEF UpToDate, ShowsWanted, Painted
<1> QED BY <1>2, <1>5, <1>7 DEF IInv, Painted

LEMMA ServicePreserves == ASSUME IInv, Service PROVE IInv'
<1>1. /\ primary \in Primary /\ notice \in Notice \cup {NoNotice} /\ locale \in Locales
      /\ "Recording" \in Primary /\ "Hidden" \in Primary /\ NoNotice \in Notice \cup {NoNotice}
  BY DEF IInv, ContentOK, Primary
<1>2. CASE StartRecording
  BY <1>1, <1>2, CommandPreserves DEF StartRecording
<1>3. CASE Hide
  BY <1>1, <1>3, CommandPreserves DEF Hide
<1>4. ASSUME NEW p \in Primary, SetPrimary(p) PROVE IInv'
  BY <1>1, <1>4, CommandPreserves DEF SetPrimary
<1>5. ASSUME NEW l \in Locales, SetLocale(l) PROVE IInv'
  BY <1>1, <1>5, CommandPreserves DEF SetLocale
<1>6. ASSUME NEW n \in Notice, Notify(n) PROVE IInv'
  <2>1. Command(primary, n, locale) \/ Command(primary, notice, locale)
    BY <1>6 DEF Notify
  <2> QED BY <1>1, <2>1, CommandPreserves
<1> QED BY <1>2, <1>3, <1>4, <1>5, <1>6 DEF Service

\* An answer for an older text: the present text is drawn, or asks for its size.
LEMMA ConfigurePreserves == ASSUME IInv, Configure PROVE IInv'
<1>1. ContentOK /\ WindowOK /\ BufferFits
  BY DEF IInv
<1>2. Wanted \in Plans /\ Size(Wanted) \in Sizes
  BY <1>1, PlansHaveSizes DEF ContentOK, Wanted
<1>3. wire # <<>> /\ wire \in Seq(Sizes) /\ Configured(Resolved(Head(wire)), Tail(wire))
  BY <1>1 DEF Configure, WindowOK
<1>4. Head(wire) \in Sizes /\ Tail(wire) \in Seq(Sizes)
  BY <1>3
<1>5. Zero \in Sizes /\ Resolved(Head(wire)) \in Sizes
  BY <1>1, <1>4 DEF Resolved, Zero, Sizes, WindowOK
<1>6. Painted(Wanted)
  <2>1. CASE Blank(Wanted)
    BY <1>1, <1>2, <1>3, <2>1, DestroyingPaints DEF Configured
  <2>2. CASE ~Blank(Wanted)
    <3>1. PresentsReady(Wanted, Resolved(Head(wire)), Zero, Tail(wire))
      BY <1>3, <2>2 DEF Configured
    <3> QED BY <1>1, <1>2, <1>4, <1>5, <2>2, <3>1, ReadyPaints DEF WindowOK
  <2> QED BY <2>1, <2>2
<1>7. UNCHANGED <<content, alive, commands>>
  BY DEF Configure
<1>8. ContentOK' /\ Wanted' = Wanted
  BY <1>1, <1>7 DEF ContentOK, content, Wanted
<1>9. UpToDate'
  BY <1>6, <1>8 DEF UpToDate, ShowsWanted, Painted
<1> QED BY <1>6, <1>8, <1>9 DEF IInv, Painted

LEMMA StepPreserves == IInv /\ [Next]_vars => IInv'
<1> SUFFICES ASSUME IInv, [Next]_vars PROVE IInv'
  OBVIOUS
<1>1. ContentOK /\ WindowOK /\ BufferFits
  BY DEF IInv
<1>2. CASE UNCHANGED vars
  BY <1>2 DEF vars, content, window, IInv, ContentOK, WindowOK, BufferFits, UpToDate,
     ShowsWanted, Wanted
<1>3. CASE Service
  BY <1>3, ServicePreserves
<1>4. CASE Expires
  <2> DEFINE plan == Plan(primary, NoNotice, locale)
  <2>1. plan \in Plans /\ Size(plan) \in Sizes
    BY <1>1, PlansHaveSizes DEF ContentOK
  <2>2. Painted(plan)
    BY <1>1, <1>4, <2>1, PresentingPaints DEF Expires
  <2>3. notice' = NoNotice /\ UNCHANGED <<primary, locale, alive, commands>>
    BY <1>4 DEF Expires
  <2>4. ContentOK' /\ Wanted' = plan
    BY <1>1, <2>3 DEF ContentOK, Wanted
  <2>5. UpToDate'
    BY <2>2, <2>4 DEF UpToDate, ShowsWanted, Painted
  <2> QED BY <2>2, <2>4, <2>5 DEF IInv, Painted
<1>5. CASE Repaints
  <2>1. Wanted \in Plans /\ Size(Wanted) \in Sizes
    BY <1>1, PlansHaveSizes DEF ContentOK, Wanted
  <2>2. Painted(Wanted)
    BY <1>1, <1>5, <2>1, PresentingPaints DEF Repaints
  <2>3. UNCHANGED <<content, alive, commands>>
    BY <1>5 DEF Repaints
  <2>4. ContentOK' /\ Wanted' = Wanted
    BY <1>1, <2>3 DEF ContentOK, content, Wanted
  <2>5. UpToDate'
    BY <2>2, <2>4 DEF UpToDate, ShowsWanted, Painted
  <2> QED BY <2>2, <2>4, <2>5 DEF IInv, Painted
<1>6. CASE Configure
  BY <1>6, ConfigurePreserves
<1>7. CASE Closed
  <2>1. /\ alive' = FALSE /\ surface' = "none" /\ shown' = {} /\ wire' = <<>>
        /\ UNCHANGED <<primary, notice, locale, size, asked, redraw, lastAsk, commands>>
    BY <1>7 DEF Closed, content
  <2>2. wire' \in Seq(Sizes)
    BY <2>1
  <2>3. WindowOK'
    BY <1>1, <2>1, <2>2 DEF WindowOK
  <2>4. ContentOK' /\ BufferFits' /\ UpToDate'
    BY <1>1, <2>1 DEF ContentOK, BufferFits, UpToDate
  <2> QED BY <2>3, <2>4 DEF IInv
<1> QED BY <1>2, <1>3, <1>4, <1>5, <1>6, <1>7 DEF Next

----------------------------------------------------------------------------

\* The inductive invariant holds in every state of the window.
THEOREM Invariance == Spec => []IInv
BY InitEstablishes, StepPreserves, PTL DEF Spec

\* Type correctness.
THEOREM TypeCorrect == Spec => []TypeOK
<1>1. IInv => TypeOK
  BY DEF IInv, ContentOK, WindowOK, TypeOK
<1> QED BY <1>1, Invariance, PTL

\* A picture is never drawn into a buffer of another text's size.
THEOREM PicturesFit == Spec => []BufferFits
BY Invariance, PTL DEF IInv

\* A window that waits for neither the timer nor the compositor shows what it
\* should, or nothing if it should show nothing.
THEOREM NothingForgotten == Spec => []NothingLeftToPaint
<1>1. IInv => NothingLeftToPaint
  BY DEF IInv, UpToDate, ShowsWanted, NothingLeftToPaint
<1> QED BY <1>1, Invariance, PTL

=============================================================================
