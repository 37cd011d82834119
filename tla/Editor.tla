-------------------------------- MODULE Editor --------------------------------
(***************************************************************************)
(* The editor window: editor.c, and the keys ui.c (ui_process_char) hands  *)
(* to it.  The text is one array of characters with two index arrays that  *)
(* say where each line starts and ends; the view is a window of rows with  *)
(* a cursor.  Every key is a function from the editor's state to its next. *)
(* Drawing is left out: it only reads this state.                          *)
(***************************************************************************)
EXTENDS Integers, Sequences

CONSTANTS Chars,       \* what can be typed
          Files,       \* the files loaded: sequences of lines
          Rows,        \* window_num_rows
          BufferSize,  \* TEXT_BUFFER_SIZE
          GotoLines,   \* where errors, breakpoints and steps send the cursor
          Careful      \* the user edits only where the cursor is on its line, jumps
                       \* only to lines of the file, and pages only if it fills the
                       \* window

ASSUME EditorAssumption ==
    /\ Rows \in Nat \ {0} /\ BufferSize \in Nat
    /\ \A f \in Files : f # <<>> /\ f \in Seq(Seq(Chars))
    /\ GotoLines \subseteq Int /\ Careful \in BOOLEAN

VARIABLE ed            \* editor_t

LineLen(e, k) == e.line_ends[k] - e.line_starts[k]

-----------------------------------------------------------------------------
(* ed_init: a line ends before its end-of-line characters, one or two of   *)
(* them; the end-of-file character is stored behind the last line.         *)

Starts(file, eol) ==
    LET s[k \in 0..(Len(file) - 1)] == IF k = 0 THEN 0 ELSE s[k - 1] + Len(file[k]) + eol
    IN s

Joined(file, eol) ==
    LET t[k \in 1..Len(file)] ==
            IF k = 1 THEN file[1] ELSE t[k - 1] \o [i \in 1..eol |-> "eol"] \o file[k]
    IN Append(t[Len(file)], "eof")

Loaded(file, eol) ==
    [buffer |-> Joined(file, eol),
     line_starts |-> Starts(file, eol),
     line_ends |-> [k \in 0..(Len(file) - 1) |-> Starts(file, eol)[k] + Len(file[k + 1])],
     num_lines |-> Len(file),
     first_displayed_line |-> 0,
     last_displayed_line |-> (IF Len(file) < Rows THEN Len(file) ELSE Rows) - 1,
     cursor_x |-> 0, cursor_y |-> 0, current_line |-> 0]

-----------------------------------------------------------------------------
(* The keys *)

\* ed_right's and the vertical moves' adjustment to the length of the line.
Clamp(e, x) == LET max == LineLen(e, e.current_line) - 1
               IN IF max < 0 THEN 0 ELSE IF x > max THEN max ELSE x

ed_home(e) == [e EXCEPT !.current_line = e.first_displayed_line, !.cursor_x = 0, !.cursor_y = 0]

\* Scroll by one line when the cursor is at the edge, else move the cursor.
Vertical(e, step, scroll) ==
    LET moved == [e EXCEPT !.current_line = @ + step]
        x == Clamp(moved, e.cursor_x)
    IN IF scroll
       THEN [moved EXCEPT !.first_displayed_line = @ + step, !.last_displayed_line = @ + step,
                          !.cursor_x = x]
       ELSE [moved EXCEPT !.cursor_y = @ + step, !.cursor_x = x]

ed_up(e) == IF e.current_line > 0
            THEN Vertical(e, -1, e.cursor_y = 0 /\ e.first_displayed_line > 0)
            ELSE e

\* Mutant: the edge of the window is a row too low.
AtBottomLate(e) == e.cursor_y = Rows

AtBottom(e) == e.cursor_y = Rows - 1

HasLineBelow(e) == e.current_line < e.num_lines - 1

ed_down(e) == IF HasLineBelow(e)
              THEN Vertical(e, 1, AtBottom(e) /\ e.last_displayed_line < e.num_lines - 1)
              ELSE e

ed_right(e) == [e EXCEPT !.cursor_x = Clamp(e, e.cursor_x + 1)]

ed_left(e) == [e EXCEPT !.cursor_x = IF @ <= 0 THEN 0 ELSE @ - 1]

\* The cursor keeps its place in the window and its column, whatever the line
\* it comes to.
ed_page_down(e) ==
    LET last == IF e.last_displayed_line + Rows >= e.num_lines THEN e.num_lines - 1
                ELSE e.last_displayed_line + Rows
    IN [e EXCEPT !.last_displayed_line = last, !.first_displayed_line = last - Rows + 1,
                 !.current_line = @ + last - e.last_displayed_line]

ed_page_up(e) ==
    LET first == IF e.first_displayed_line - Rows <= 0 THEN 0 ELSE e.first_displayed_line - Rows
    IN [e EXCEPT !.first_displayed_line = first, !.last_displayed_line = first + Rows - 1,
                 !.current_line = @ - (e.first_displayed_line - first)]

\* Mutant: the current line's start moves, too.
BehindAndHere(e, indices, by) ==
    [k \in DOMAIN indices |-> IF k >= e.current_line THEN indices[k] + by ELSE indices[k]]

\* The lines behind the current one move by one place.
Behind(e, indices, by) ==
    [k \in DOMAIN indices |-> IF k > e.current_line THEN indices[k] + by ELSE indices[k]]

Resized(e, by) ==
    [e EXCEPT !.line_starts = Behind(e, e.line_starts, by),
              !.line_ends = [Behind(e, e.line_ends, by) EXCEPT ![e.current_line] = @ + by]]

\* Mutant: the column is forgotten.
PositionOfLine(e) == e.line_starts[e.current_line]

\* Where the character under the cursor is in the buffer.
Position(e) == e.line_starts[e.current_line] + e.cursor_x

\* num_chars is the length of the buffer.
ed_del_char(e) ==
    LET n == Len(e.buffer)
        pos == IF Position(e) < n THEN Position(e) ELSE n - 1
    IN [Resized(e, -1) EXCEPT !.buffer = SubSeq(e.buffer, 1, pos) \o SubSeq(e.buffer, pos + 2, n)]

ed_insert_char(e, ch) ==
    LET n == Len(e.buffer)
        pos == IF Position(e) < n THEN Position(e) ELSE n
    IN IF n >= BufferSize THEN e
       ELSE ed_right([Resized(e, 1) EXCEPT
                !.buffer = SubSeq(e.buffer, 1, pos) \o <<ch>> \o SubSeq(e.buffer, pos + 1, n)])

\* A jump beyond the window scrolls the line to its top.  Near the end of the
\* file the window comes to end one line behind the last.
ed_goto_line(e, line_num) ==
    LET target == line_num - 1
        inside == e.first_displayed_line <= target /\ target <= e.last_displayed_line
        past == target + Rows - 1 >= e.num_lines
        first == IF inside THEN e.first_displayed_line
                 ELSE IF past THEN e.num_lines - Rows + 1 ELSE target
        last == IF inside THEN e.last_displayed_line
                ELSE IF past THEN e.num_lines ELSE target + Rows - 1
    IN [e EXCEPT !.first_displayed_line = first, !.last_displayed_line = last,
                 !.cursor_y = target - first, !.cursor_x = 0, !.current_line = target]

-----------------------------------------------------------------------------

\* A file that fits the buffer is loaded whole.
Init == \E file \in Files, eol \in {1, 2} :
            /\ Len(Joined(file, eol)) < BufferSize
            /\ ed = Loaded(file, eol)

\* The code takes each of these keys anywhere: it deletes behind a line's end,
\* jumps behind the last line, and in a file shorter than the window pages down to
\* a negative line and up to a window that ends behind the file.  A careful user
\* does none of that: where one deletes, types and pages.
OnChar(e) == e.cursor_x < LineLen(e, e.current_line)
OnLine(e) == e.cursor_x <= LineLen(e, e.current_line)
FillsWindow(e) == e.num_lines >= Rows

Up == ed' = ed_up(ed)
Down == ed' = ed_down(ed)
Left == ed' = ed_left(ed)
Right == ed' = ed_right(ed)
Home == ed' = ed_home(ed)
PageDown == (Careful => FillsWindow(ed)) /\ ed' = ed_page_down(ed)
PageUp == (Careful => FillsWindow(ed)) /\ ed' = ed_page_up(ed_left(ed))    \* KEY_PPAGE
GotoLine == \E n \in GotoLines : (Careful => n \in 1..ed.num_lines) /\ ed' = ed_goto_line(ed, n)

Delete == (Careful => OnChar(ed)) /\ ed' = ed_del_char(ed)
Backspace == (Careful => OnChar(ed_left(ed))) /\ ed' = ed_del_char(ed_left(ed))
Insert == \E ch \in Chars : (Careful => OnLine(ed)) /\ ed' = ed_insert_char(ed, ch)

Next == \/ Up \/ Down \/ Left \/ Right \/ Home
        \/ PageDown \/ PageUp \/ GotoLine
        \/ Delete \/ Backspace \/ Insert

Spec == Init /\ [][Next]_ed

-----------------------------------------------------------------------------
(* What must hold *)

\* The index arrays cut the buffer into the lines and the end-of-line characters
\* between them, in order and without a gap, after any number of edits.
LinesLaidOut ==
    /\ ed.current_line \in DOMAIN ed.line_starts /\ Len(ed.buffer) <= BufferSize
    /\ ed.line_starts[0] = 0
    /\ \A k \in DOMAIN ed.line_starts :
          /\ ed.line_starts[k] <= ed.line_ends[k]
          /\ k + 1 < ed.num_lines =>
                /\ ed.line_ends[k] < ed.line_starts[k + 1]
                /\ \A p \in (ed.line_ends[k] + 1)..ed.line_starts[k + 1] : ed.buffer[p] = "eol"
    /\ ed.buffer[ed.line_ends[ed.num_lines - 1] + 1] = "eof"
    /\ Len(ed.buffer) = ed.line_ends[ed.num_lines - 1] + 1

\* The rows that show a line: all, unless the file is shorter.
Shown(e) == IF FillsWindow(e) THEN Rows ELSE e.num_lines

\* The cursor's row in the window shows the line that keys act on, and lies in
\* the window, whatever mixture of moves, pages and jumps led here.
CursorShowsCurrentLine ==
    /\ ed.first_displayed_line + ed.cursor_y = ed.current_line
    /\ ed.cursor_y \in 0..(Shown(ed) - 1)
    /\ ed.first_displayed_line >= 0
    /\ ed.last_displayed_line = ed.first_displayed_line + Shown(ed) - 1
    /\ ed.last_displayed_line <= ed.num_lines

\* The text of line k (from one).
LineText(k) == SubSeq(ed.buffer, ed.line_starts[k - 1] + 1, ed.line_ends[k - 1])

Text == INSTANCE LineEditor WITH lines <- [k \in 1..ed.num_lines |-> LineText(k)],
                                 line <- ed.current_line, col <- ed.cursor_x

\* editor.c: "model: a linear array (buffer) of chars ... with an array of
\* indecies into the first char on a line".  Edits of the array are edits of the
\* line under the cursor and of no other.
ImplementsLineEditor == Text!ESpec
=============================================================================
