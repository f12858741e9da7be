------------------------------ MODULE Screens ------------------------------
(***************************************************************************)
(* What is on the screen in a state of the dashboard: the frame that Frame *)
(* draws of the rows, the cursor and the mode that Dashboard has, whatever *)
(* else a frame depends on.                                                *)
(***************************************************************************)
EXTENDS Dashboard, Frame

CONSTANT Looks  \* the size of the terminal; how many rows there are above and below those
                \* of the model, and which was on top before; the widths of what is shown,
                \* the columns of a rune, and whether a text is broken

\* A port has at most five digits, a protocol four letters and a process seven
\* digits; the question names the process within the box.
ASSUME LooksAreDrawn ==
    \A look \in Looks :
        /\ look.width \in Nat /\ look.width >= 50 /\ look.height \in Nat /\ look.height >= 10
        /\ look.above \in Nat /\ look.below \in Nat /\ look.scroll \in Nat
        /\ look.filter \in Nat /\ look.status \in Nat /\ look.report \in Seq(Nat)
        /\ look.field.port \in 1..6 /\ look.field.proto \in 0..5 /\ look.field.pid \in 1..7
        /\ look.field.process \in Nat /\ look.field.service \in Nat
        /\ look.question \in 1..52 /\ look.rest \in Nat
        /\ look.spread \in Nat /\ look.broken \in BOOLEAN

\* What is drawn of n rows, one of them selected.
Drawn(look, n, at, md) ==
    [width |-> look.width, height |-> look.height, mode |-> md,
     listed |-> IF n = 0 THEN 0 ELSE look.above + n + look.below,
     selected |-> IF n = 0 THEN 0 ELSE look.above + at, scroll |-> look.scroll,
     filter |-> look.filter, status |-> look.status, report |-> look.report,
     field |-> look.field, question |-> look.question, rest |-> look.rest,
     spread |-> look.spread, broken |-> look.broken]

\* Every rune that is shown takes one column, and no text has a line break.
PlainTexts(m) == m.spread = 1 /\ ~m.broken

\* It has the size of the terminal; the row under the cursor can be seen when it
\* can be acted on, and so can the question when there is one.
InView(m) ==
    LET frame == Render(m)
    IN  /\ FitsTerminal(frame, m)
        /\ m.listed > 0 /\ (m.mode \in {"normal", "filter"} \/ m.width < 58) =>
              Shown(frame, "port") /\ Shown(frame, "pid")
        /\ m.mode = "confirm" /\ m.width >= 58 => Shown(frame, "question")

Modes == {"normal", "filter", "confirm", "help"}
Situations == UNION {{<<n, at, md>> : at \in 0..AtLeast(n - 1, 0), md \in Modes} : n \in 0..NSockets}
Frames(s) == {Drawn(look, s[1], s[2], s[3]) : look \in Looks}
DrawnRight == {s \in Situations : \A m \in Frames(s) : PlainTexts(m) => InView(m)}

\* As long as every rune that is shown takes one column and no text has a line break,
\* what an action is aimed at is on the screen: the port and the number of the
\* process of the row under the cursor, whatever the size of the terminal, the
\* filter, the rows around it and the one that was on top before; and over them,
\* where there is room for it, the question up to the number of the process it is
\* about (Render, EnsureVisible, overlayConfirm, truncateVisible).  And no frame is
\* higher or wider than the terminal, and none scrolls it.
AimIsOnScreen == <<Cardinality(Visible), cursor, mode>> \in DrawnRight

\* "visibleLen calculates the displayed column width": this does NOT hold, for it
\* counts runes.  A name with runes of two columns, or a command with a line break,
\* makes a frame that wraps, or that scrolls its first rows off the screen.
FramesFit ==
    \A m \in Frames(<<Cardinality(Visible), cursor, mode>>) : FitsTerminal(Render(m), m)
=============================================================================
