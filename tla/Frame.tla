------------------------------- MODULE Frame -------------------------------
(***************************************************************************)
(* The frame that internal/tui/render.go draws for portlens top, and the   *)
(* scrolling of internal/tui/model.go, as far as it decides what can be    *)
(* seen.  A line is a sequence of pieces.  Each has a width, which is the  *)
(* number of its runes, for that is what the code counts, and the number   *)
(* of columns that the terminal gives each rune; a piece that is cut is no *)
(* longer what it was.  Colours count for nothing and are left out.        *)
(*                                                                         *)
(* m is what is drawn: the size, the number of rows listed, which of them  *)
(* is selected and which comes first, the mode, the widths of the fields   *)
(* of a row, the widths of the lines of the report, and the widths of the  *)
(* question up to the number of the process and after it; the columns that *)
(* a rune of a name takes, and whether a line of the report is broken.     *)
(***************************************************************************)
EXTENDS Integers, Sequences

Piece(is, w) == [is |-> is, w |-> w, c |-> 1]

\* A name or another text that is not the code's own.
Text(m, is, w) == [is |-> is, w |-> w, c |-> m.spread]

Blank(w) == <<Piece("blank", w)>>

\* visibleLen.
Width(line) ==
    LET upTo[k \in 0..Len(line)] == IF k = 0 THEN 0 ELSE upTo[k - 1] + line[k].w
    IN  upTo[Len(line)]

\* padRight and padLeft.
PadRight(line, w) == IF Width(line) >= w THEN line ELSE line \o Blank(w - Width(line))
PadLeft(line, w) == IF Width(line) >= w THEN line ELSE Blank(w - Width(line)) \o line

\* A piece goes into what is left of the room, as a whole or as the part that fits.
Fit(part, piece) ==
    IF part.left <= 0 THEN part
    ELSE IF piece.w <= part.left
    THEN [line |-> Append(part.line, piece), left |-> part.left - piece.w]
    ELSE [line |-> Append(part.line, [piece EXCEPT !.is = "cut", !.w = part.left]), left |-> 0]

\* truncateVisible: whole pieces as long as they fit, and a part of the next.
Truncate(line, w) ==
    LET fitted[k \in 0..Len(line)] == IF k = 0 THEN [line |-> <<>>, left |-> w]
                                                ELSE Fit(fitted[k - 1], line[k])
    IN  fitted[Len(line)].line

Cell(m, is, field, w) == PadRight(Truncate(<<Text(m, is, field)>>, w), w)
AtMost(n, w) == IF n < w THEN n ELSE w
AtLeast(n, w) == IF n < w THEN w ELSE n

-----------------------------------------------------------------------------
(* The left pane.                                                          *)

\* The last row is taken for the first one below the window.
EnsureVisibleLate(selected, scroll, rows) ==
    IF selected < scroll THEN selected
    ELSE IF selected > scroll + rows THEN selected - rows + 1
    ELSE scroll

EnsureVisible(selected, scroll, rows) ==
    IF selected < scroll THEN selected
    ELSE IF selected >= scroll + rows THEN selected - rows + 1
    ELSE scroll

\* One row; that of the selected one is marked and as wide as the pane, and
\* its fields are told from those of the others.
DrawnRow(m, i, width) ==
    LET procW == IF width > 45 THEN 15 ELSE 12
        srvW == AtLeast(width - 2 - 6 - 5 - 7 - procW - 4, 6)
        here(field) == IF i = m.selected THEN field ELSE "another row"
        fields == PadRight(<<Piece(here("port"), m.field.port)>>, 6) \o Blank(1)
                  \o PadRight(<<Piece(here("proto"), m.field.proto)>>, 5) \o Blank(1)
                  \o Cell(m, here("process"), m.field.process, procW) \o Blank(1)
                  \o PadLeft(<<Piece(here("pid"), m.field.pid)>>, 7) \o Blank(1)
                  \o Cell(m, here("service"), m.field.service, srvW)
    IN  IF i = m.selected THEN PadRight(<<Piece("marker", 3)>> \o fields, width)
                          ELSE <<Piece("marker", 2)>> \o fields

LeftPane(m, width, height) ==
    LET rows == height - 1
        first == EnsureVisible(m.selected, m.scroll, rows)
        last == AtMost(first + rows, m.listed) - 1
        head == <<Piece("head", width)>>
    IN  IF rows <= 0 THEN <<head>>
        ELSE IF m.listed = 0 THEN <<head, <<Piece("nothing", 32)>>>>
        ELSE <<head>> \o [k \in 1..(last - first + 1) |-> DrawnRow(m, first + k - 1, width)]

\* A line of the report; a command may have a line break in it.
ReportLine(m, n) == <<Text(m, "report", n)>>
                    \o (IF m.broken THEN <<Piece("break", 1), Text(m, "report", n)>> ELSE <<>>)

\* The tabs, a rule, and the lines of the report or of what stands in for it.
RightPane(m, width) ==
    << <<Piece("tabs", 38)>>, <<Piece("rule", width)>> >>
    \o [k \in DOMAIN m.report |-> ReportLine(m, m.report[k])]

-----------------------------------------------------------------------------
(* The frame.                                                              *)

LineOf(pane, i, width) == IF i \in DOMAIN pane THEN PadRight(pane[i], width) ELSE Blank(width)

Body(m, height) ==
    IF m.width >= 80
    THEN LET leftW == AtMost(AtLeast((m.width * 42) \div 100, 38), 55)
             rightW == m.width - leftW - 1
             left == LeftPane(m, leftW, height)
             right == RightPane(m, rightW)
         IN  [i \in 1..height |-> LineOf(left, i, leftW) \o <<Piece("divider", 1)>>
                                  \o LineOf(right, i, rightW)]
    ELSE LET left == LeftPane(m, m.width, height)
         IN  [i \in 1..height |-> LineOf(left, i, m.width)]

Header(m) ==
    LET left == <<Piece("title", 16), Piece("count", 18), Piece("clock", 13)>>
                \o (IF m.filter = 0 THEN <<>> ELSE <<Text(m, "filter", 13 + m.filter)>>)
        right == <<Piece("help", 16)>>
        gap == m.width - Width(left) - Width(right)
    IN  IF gap < 1 THEN Truncate(left \o Blank(1) \o right, m.width)
                   ELSE left \o Blank(gap) \o right

Footer(m) == IF m.mode = "filter" THEN PadRight(<<Text(m, "filter", 11 + m.filter)>>, m.width)
             ELSE IF m.status > 0 THEN <<Text(m, "status", 3 + m.status)>>
             ELSE Truncate(<<Piece("shortcuts", 106)>>, m.width)

\* drawBox: a box over the middle of the frame.
Boxed(lines, content, boxW, boxH, m) ==
    LET top == (m.height - boxH) \div 2
        left == (m.width - boxW) \div 2
        before(line) == IF Width(line) >= left THEN PadRight(Truncate(line, left), left)
                                               ELSE Blank(left)
        after == AtLeast(m.width - left - boxW, 0)
    IN  [i \in DOMAIN lines |->
            IF i - top \in DOMAIN content
               THEN before(lines[i]) \o PadRight(content[i - top], boxW) \o Blank(after)
               ELSE lines[i]]

Box(is, n) == [i \in 1..n |-> <<Piece(is, 56)>>]

\* overlayHelp and overlayConfirm draw nothing where there is no room.
Overlaid(lines, m) ==
    IF m.mode = "help" /\ m.width >= 64 /\ m.height >= 18
       THEN Boxed(lines, Box("help", 16), 62, 16, m)
    ELSE IF m.mode = "confirm" /\ m.width >= 58 /\ m.height >= 10
       THEN LET asked == <<Piece("blank", 2)>>
                         \o Truncate(<<Text(m, "question", m.question),
                                       Text(m, "rest", m.rest)>>, 52)
            IN  Boxed(lines, [Box("confirm", 6) EXCEPT ![4] = asked], 56, 8, m)
    ELSE lines

\* Render: no line is wider than the terminal, and the last one is shorter.
Render(m) ==
    IF m.width < 50 \/ m.height < 10 THEN <<Blank(2) \o <<Piece("tooSmall", 68)>>>>
    ELSE LET rule == <<Piece("rule", m.width)>>
             lines == <<Header(m), rule>> \o Body(m, m.height - 4) \o <<rule, Footer(m)>>
             drawn == Overlaid(lines, m)
         IN  [i \in DOMAIN drawn |->
                 Truncate(drawn[i], IF i = Len(drawn) THEN m.width - 1 ELSE m.width)]

\* What a line is on the terminal, where a rune may be two columns wide.
OnTerminal(line) == [k \in DOMAIN line |-> [line[k] EXCEPT !.w = line[k].w * line[k].c]]

\* A frame neither wraps nor scrolls.
FitsTerminal(frame, m) ==
    /\ Len(frame) = m.height
    /\ \A i \in DOMAIN frame : /\ Width(OnTerminal(frame[i])) <= m.width
                              /\ \A k \in DOMAIN frame[i] : frame[i][k].is # "break"
    /\ Width(OnTerminal(frame[m.height])) < m.width

Shown(frame, is) == \E i \in DOMAIN frame : \E k \in DOMAIN frame[i] : frame[i][k].is = is
=============================================================================
