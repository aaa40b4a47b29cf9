--------------------------- MODULE OverlayWindow ---------------------------
(***************************************************************************)
(* The overlay's window under Wayland (overlay_linux.rs): a thread that    *)
(* takes commands from the service and shows a line for the primary state  *)
(* and a line for a notice in a layer-shell surface just large enough for  *)
(* them.  A new surface, and every change of its size, needs a round trip  *)
(* to the compositor, whose answers arrive while further commands change   *)
(* the text and may be several commands old.                               *)
(*                                                                         *)
(* A text is named by what it says; its picture, its layout and the        *)
(* visualizer's levels are left out.  The compositor grants the sizes it   *)
(* is asked for.                                                           *)
(***************************************************************************)
EXTENDS Naturals, Sequences

CONSTANTS
    Primaries,    \* the primary states besides "Hidden" and "Recording"
    Levels,       \* severities of notices
    Texts,        \* their texts
    Locales,
    MaxCommands,  \* bound: commands of the service
    MaxAnswers    \* bound: answers of the compositor under way

ASSUME OverlayAssumption ==
    /\ Levels \subseteq Nat /\ "" \notin Texts
    /\ MaxCommands \in Nat /\ MaxAnswers \in Nat \ {0}

Primary == Primaries \cup {"Hidden", "Recording"}

Notice   == [level : Levels, text : Texts, expires : BOOLEAN]
NoNotice == [level |-> 0, text |-> "", expires |-> FALSE]

\* build_plan: what is to be shown; Blank when it is nothing.
Plan(p, n, l) == [primary |-> p, notice |-> n.text, locale |-> l]
Plans         == [primary : Primary, notice : Texts \cup {""}, locale : Locales]
Blank(plan)   == plan.primary = "Hidden" /\ plan.notice = ""

\* The size that fits a text: two texts of different lines differ in it.
Size(plan) == [state |-> plan.primary # "Hidden", notice |-> plan.notice]
Sizes      == [state : BOOLEAN, notice : Texts \cup {""}]

\* In an answer: "as you like"; and a size that is not there.
Zero == [state |-> FALSE, notice |-> ""]

VARIABLES
    primary, notice, locale,
    surface,  \* "none", "waiting" for its first configure, or "ready"
    size,     \* width and height
    asked,    \* pending_size, or Zero
    shown,    \* mapped, last_signature and the buffer: [plan, buffer], in a set
    redraw,   \* needs_redraw
    wire,     \* the compositor's answers under way
    lastAsk,  \* the compositor's: the size it was asked for last
    alive,    \* the thread runs
    commands

content == <<primary, notice, locale>>
window  == <<surface, size, asked, shown, redraw, wire, lastAsk>>
vars    == <<content, window, alive, commands>>

Wanted == Plan(primary, notice, locale)

----------------------------------------------------------------------------
(* Presenting.                                                             *)

\* The compositor answers a request, or not when it repeats the last one.
Answers(q, s) ==
    \/ \E a \in {s, Zero} : Len(q) < MaxAnswers /\ wire' = Append(q, a)
    \/ s = lastAsk /\ q # <<>> /\ wire' = q

\* A surface that is not needed is destroyed, with what was on its way to it.
Destroys ==
    /\ surface' = "none" /\ shown' = {} /\ wire' = <<>> /\ redraw' = FALSE
    /\ UNCHANGED <<size, asked, lastAsk>>

Creates(plan) ==
    /\ surface' = "waiting" /\ size' = Size(plan) /\ asked' = Zero
    /\ shown' = {} /\ redraw' = TRUE
    /\ lastAsk' = Size(plan)
    /\ \E a \in {Size(plan), Zero} : wire' = <<a>>

\* The buffer has the size of the surface, the picture that of its text.
Draws(plan, s) ==
    /\ shown' = {[plan |-> plan, buffer |-> s]}
    /\ redraw' = FALSE

\* Another size has to be granted first.
Asks(plan, q) ==
    /\ asked' = Size(plan) /\ redraw' = TRUE
    /\ Answers(q, Size(plan)) /\ lastAsk' = Size(plan)
    /\ UNCHANGED shown

\* present, for a surface that is ready and has size s; q is still under way.
PresentsReady(plan, s, pending, q) ==
    /\ surface' = "ready" /\ size' = s
    /\ IF s = Size(plan)
       THEN /\ Draws(plan, s)
            /\ asked' = pending /\ wire' = q /\ UNCHANGED lastAsk
       ELSE Asks(plan, q)

Shows(plan) ==
    CASE Blank(plan)         -> Destroys
      [] ~Blank(plan) /\ surface = "none"    -> Creates(plan)
      [] ~Blank(plan) /\ surface = "waiting" ->
            redraw' = TRUE /\ UNCHANGED <<surface, size, asked, shown, wire, lastAsk>>
      [] ~Blank(plan) /\ surface = "ready"   -> PresentsReady(plan, size, asked, wire)

PresentsIfNeeded(plan) == IF redraw THEN Shows(plan) ELSE UNCHANGED window

\* present; a command and an expiry have set needs_redraw.
Presents(plan) == Shows(plan)

----------------------------------------------------------------------------
(* Commands of the service, which never sends ClearNotice; each of them is *)
(* presented at once.                                                      *)

Command(p, n, l) ==
    /\ alive /\ commands < MaxCommands
    /\ commands' = commands + 1
    /\ primary' = p /\ notice' = n /\ locale' = l
    /\ Presents(Plan(p, n, l))
    /\ UNCHANGED alive

StartRecording == Command("Recording", NoNotice, locale)

SetPrimary(p) == Command(p, notice, locale)

SetLocale(l) == Command(primary, IF l = locale THEN notice ELSE NoNotice, l)

Hide == Command("Hidden", NoNotice, locale)

\* notify: a notice is neither repeated nor replaced by a lesser one, unless it
\* has expired, which one with an end may have at any time.
Repeats(n) == n.level = notice.level /\ n.text = notice.text

Notify(n) ==
    \/ /\ notice = NoNotice \/ notice.expires \/ (~Repeats(n) /\ n.level >= notice.level)
       /\ Command(primary, n, locale)
    \/ /\ notice # NoNotice /\ (Repeats(n) \/ n.level < notice.level)
       /\ Command(primary, notice, locale)

----------------------------------------------------------------------------
(* The thread's timer, and the compositor.                                 *)

\* tick, when the notice has expired.
Expires ==
    /\ alive /\ notice.expires
    /\ notice' = NoNotice
    /\ Presents(Plan(primary, NoNotice, locale))
    /\ UNCHANGED <<primary, locale, alive, commands>>

\* tick
Repaints ==
    /\ alive /\ redraw
    /\ Presents(Wanted)
    /\ UNCHANGED <<content, alive, commands>>

\* configure: "as you like" stands for what was asked for.
OldSize(answer) == IF answer # Zero THEN answer ELSE size

Resolved(answer) ==
    IF answer # Zero THEN answer ELSE IF asked # Zero THEN asked ELSE size

DrawsAtOnce(s, q) ==
    /\ surface' = "ready" /\ size' = s /\ asked' = Zero
    /\ Draws(Wanted, s) /\ wire' = q /\ UNCHANGED lastAsk

\* The text may have changed since the answered request, so that the surface is
\* presented anew, never just drawn.
Configured(s, q) ==
    IF Blank(Wanted) THEN Destroys ELSE PresentsReady(Wanted, s, Zero, q)

Configure ==
    /\ alive /\ surface # "none" /\ wire # <<>>
    /\ Configured(Resolved(Head(wire)), Tail(wire))
    /\ UNCHANGED <<content, alive, commands>>

\* closed, as when the surface's output goes away: the thread ends, and the
\* service's commands are no longer taken.
Closed ==
    /\ alive /\ surface # "none"
    /\ alive' = FALSE
    /\ surface' = "none" /\ shown' = {} /\ wire' = <<>>
    /\ UNCHANGED <<content, size, asked, redraw, lastAsk, commands>>

----------------------------------------------------------------------------

Init ==
    /\ primary = "Hidden" /\ notice = NoNotice /\ locale \in Locales
    /\ surface = "none" /\ size = Zero /\ asked = Zero /\ shown = {}
    /\ redraw = TRUE /\ wire = <<>> /\ lastAsk = Zero
    /\ alive = TRUE /\ commands = 0

Service ==
    \/ StartRecording \/ Hide
    \/ \E p \in Primary : SetPrimary(p)
    \/ \E l \in Locales : SetLocale(l)
    \/ \E n \in Notice : Notify(n)

Next == Service \/ Expires \/ Repaints \/ Configure \/ Closed

\* The timer ticks and the compositor's answers are dispatched; the service need
\* not say anything, and the compositor need not close the surface.
Spec == Init /\ [][Next]_vars /\ WF_vars(Expires) /\ WF_vars(Repaints) /\ WF_vars(Configure)

----------------------------------------------------------------------------
(* Properties.                                                             *)

TypeOK ==
    /\ primary \in Primary /\ notice \in Notice \cup {NoNotice} /\ locale \in Locales
    /\ surface \in {"none", "waiting", "ready"}
    /\ size \in Sizes /\ asked \in Sizes /\ lastAsk \in Sizes
    /\ shown \in SUBSET [plan : Plans, buffer : Sizes]
    /\ redraw \in BOOLEAN /\ alive \in BOOLEAN
    /\ wire \in Seq(Sizes)
    /\ commands \in 0..MaxCommands

\* A picture is never drawn into a buffer made for another text, although the
\* text may change while the answer to a request for its size is under way.
BufferFits == \A pic \in shown : pic.buffer = Size(pic.plan)

\* Whatever is still to be shown, to be changed or to be taken away, the next tick
\* or the next answer does it: a window that waits for neither shows what it
\* should.
NothingLeftToPaint ==
    alive /\ ~redraw /\ wire = <<>> =>
        IF Blank(Wanted) THEN shown = {} ELSE \E pic \in shown : pic.plan = Wanted

\* Once the service is silent, the window shows what was last asked of it, at the
\* right size, and no notice past its end, unless the compositor has closed it.
OverlayCatchesUp ==
    <>[](alive => /\ ~notice.expires
                  /\ {pic.plan : pic \in shown} = IF Blank(Wanted) THEN {} ELSE {Wanted})

=============================================================================
