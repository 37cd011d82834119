---------------------------- MODULE EditorProofs ----------------------------
(***************************************************************************)
(* What holds of Editor for every careful user, any files and a window of  *)
(* any height: the index arrays cut the text into its lines, the cursor    *)
(* shows the current line, and the keys edit lines as LineEditor says.     *)
(***************************************************************************)
EXTENDS Editor, SequenceTheorems, WellFoundedInduction, TLAPS

-----------------------------------------------------------------------------
(* The inductive invariant, of a state e of the editor *)

Symbols == Chars \cup {"eol", "eof"}
Indices == UNION {[0..(n - 1) -> Int] : n \in Nat \ {0}}
EditorState == [buffer : Seq(Symbols), line_starts : Indices, line_ends : Indices,
                num_lines : Nat \ {0}, first_displayed_line : Int, last_displayed_line : Int,
                cursor_x : Nat, cursor_y : Int, current_line : Int]

LinesOf(e) == 0..(e.num_lines - 1)

Typed(e) == /\ e \in EditorState
            /\ e.line_starts \in [LinesOf(e) -> Int] /\ e.line_ends \in [LinesOf(e) -> Int]

\* LinesLaidOut says how neighbouring lines lie; that an edit leaves every other
\* line alone needs the order of any two lines.  That lines hold characters is what
\* the refinement needs.
Ordered(e) == /\ e.line_starts[0] = 0
              /\ \A k \in LinesOf(e) : 0 <= e.line_starts[k] /\ e.line_starts[k] <= e.line_ends[k]
              /\ \A j, k \in LinesOf(e) : j < k => e.line_ends[j] < e.line_starts[k]

Filled(e) == /\ \A k \in LinesOf(e) :
                   \A p \in (e.line_starts[k] + 1)..e.line_ends[k] : e.buffer[p] \in Chars
             /\ \A k \in LinesOf(e) : k + 1 < e.num_lines =>
                   \A p \in (e.line_ends[k] + 1)..e.line_starts[k + 1] : e.buffer[p] = "eol"
             /\ e.buffer[Len(e.buffer)] = "eof"
             /\ Len(e.buffer) = e.line_ends[e.num_lines - 1] + 1
             /\ Len(e.buffer) <= BufferSize

Layout(e) == Typed(e) /\ Ordered(e) /\ Filled(e)

\* The window may end one line behind the last, but never shows no line; it does
\* not scroll in a file that is shorter.
Window(e) == /\ e.first_displayed_line \in LinesOf(e)
             /\ e.last_displayed_line = e.first_displayed_line + Shown(e) - 1
             /\ e.last_displayed_line <= e.num_lines
             /\ FillsWindow(e) \/ e.first_displayed_line = 0
             /\ e.cursor_y \in 0..(Shown(e) - 1)
             /\ e.first_displayed_line + e.cursor_y = e.current_line
             /\ e.current_line \in LinesOf(e)

Good(e) == Layout(e) /\ Window(e)

-----------------------------------------------------------------------------
(* Moving the cursor and the window *)

\* f is e with another place of the cursor or the window.
SameText(e, f) == /\ f \in EditorState
                  /\ f.buffer = e.buffer /\ f.num_lines = e.num_lines
                  /\ f.line_starts = e.line_starts /\ f.line_ends = e.line_ends

LEMMA SameTextLayout ==
    ASSUME NEW e, NEW f, Layout(e), SameText(e, f) PROVE Layout(f)
  BY DEF Layout, SameText, Typed, Ordered, Filled, LinesOf

\* The adjusted column is one.
LEMMA ClampType ==
    ASSUME NEW e, NEW x \in Nat, LineLen(e, e.current_line) \in Int PROVE Clamp(e, x) \in Nat
  BY DEF Clamp

LEMMA LineLenType ==
    ASSUME NEW e, Layout(e), NEW k \in LinesOf(e) PROVE LineLen(e, k) \in Nat
  BY DEF Layout, Typed, Ordered, LineLen

\* The parts of Good that are about numbers.
LEMMA WindowNumbers ==
    ASSUME NEW e, Good(e)
    PROVE  /\ e \in EditorState /\ Rows \in Nat \ {0}
           /\ e.num_lines \in Nat \ {0}
           /\ Shown(e) = IF e.num_lines >= Rows THEN Rows ELSE e.num_lines
           /\ e.first_displayed_line \in 0..(e.num_lines - 1)
           /\ e.last_displayed_line = e.first_displayed_line + Shown(e) - 1
           /\ e.last_displayed_line <= e.num_lines
           /\ e.num_lines >= Rows \/ e.first_displayed_line = 0
           /\ e.cursor_y \in 0..(Shown(e) - 1) /\ e.cursor_x \in Nat
           /\ e.first_displayed_line + e.cursor_y = e.current_line
           /\ e.current_line \in 0..(e.num_lines - 1)
  BY EditorAssumption DEF Good, Window, Layout, Typed, LinesOf, EditorState, Shown, FillsWindow

\* e with another view of its text.
View(e, first, last, x, y, line) ==
    [e EXCEPT !.first_displayed_line = first, !.last_displayed_line = last,
              !.cursor_x = x, !.cursor_y = y, !.current_line = line]

LEMMA ViewFields ==
    ASSUME NEW e \in EditorState, NEW first \in Int, NEW last \in Int, NEW x \in Nat,
           NEW y \in Int, NEW line \in Int
    PROVE  LET f == View(e, first, last, x, y, line)
           IN /\ SameText(e, f)
              /\ f.first_displayed_line = first /\ f.last_displayed_line = last
              /\ f.cursor_x = x /\ f.cursor_y = y /\ f.current_line = line
  BY DEF View, EditorState, SameText

\* What a new view must satisfy.
Visible(e, first, last, x, y, line) ==
    /\ first \in LinesOf(e) /\ last = first + Shown(e) - 1 /\ last <= e.num_lines
    /\ FillsWindow(e) \/ first = 0
    /\ x \in Nat /\ y \in 0..(Shown(e) - 1)
    /\ first + y = line /\ line \in LinesOf(e)

Keeps(e, f) == Good(f) /\ SameText(e, f)

LEMMA ViewKeeps ==
    ASSUME NEW e, Good(e), NEW first, NEW last, NEW x, NEW y, NEW line,
           Visible(e, first, last, x, y, line)
    PROVE  Keeps(e, View(e, first, last, x, y, line))
<1> DEFINE f == View(e, first, last, x, y, line)
<1>1. /\ e \in EditorState /\ first \in Int /\ last \in Int /\ x \in Nat /\ y \in Int
      /\ line \in Int
  BY WindowNumbers, EditorAssumption DEF Visible, LinesOf
<1>2. /\ SameText(e, f)
      /\ f.first_displayed_line = first /\ f.last_displayed_line = last
      /\ f.cursor_x = x /\ f.cursor_y = y /\ f.current_line = line
  BY <1>1, ViewFields
<1> HIDE DEF f
<1>3. Window(f)
  BY <1>2, WindowNumbers DEF Window, LinesOf, SameText, Visible, Shown, FillsWindow
<1> QED BY <1>2, <1>3, SameTextLayout DEF Good, f, Keeps

\* The vertical keys, by one line.
LEMMA VerticalKeeps ==
    ASSUME NEW e, Good(e), NEW step \in Int, NEW scroll \in BOOLEAN,
           e.current_line + step \in LinesOf(e),
           scroll => /\ e.first_displayed_line + step \in LinesOf(e)
                     /\ e.last_displayed_line + step <= e.num_lines
                     /\ FillsWindow(e),
           ~scroll => e.cursor_y + step \in 0..(Shown(e) - 1)
    PROVE  Keeps(e, Vertical(e, step, scroll))
<1> DEFINE line == e.current_line + step
           moved == [e EXCEPT !.current_line = line]
           x == Clamp(moved, e.cursor_x)
           first == IF scroll THEN e.first_displayed_line + step ELSE e.first_displayed_line
           last == IF scroll THEN e.last_displayed_line + step ELSE e.last_displayed_line
           y == IF scroll THEN e.cursor_y ELSE e.cursor_y + step
           f == Vertical(e, step, scroll)
<1>1. /\ line \in Int /\ e \in EditorState
      /\ line \in LinesOf(e) /\ e.cursor_x \in Nat
  BY WindowNumbers
<1>2. x \in Nat
  <2>1. SameText(e, moved) /\ moved.current_line = line
    <3> HIDE DEF line
    <3> QED BY <1>1 DEF EditorState, SameText
  <2>2. LineLen(moved, moved.current_line) = LineLen(e, line)
    BY <2>1 DEF SameText, LineLen
  <2>3. LineLen(e, line) \in Nat
    BY <1>1, LineLenType DEF Good
  <2> HIDE DEF moved
  <2> QED BY <1>1, <2>2, <2>3, ClampType
<1>3. f = View(e, first, last, x, y, line)
  <2>1. CASE scroll
    <3>1. f = [moved EXCEPT !.first_displayed_line = e.first_displayed_line + step,
                            !.last_displayed_line = e.last_displayed_line + step, !.cursor_x = x]
      BY <1>1, <2>1 DEF Vertical, EditorState
    <3> HIDE DEF f, x
    <3> QED BY <1>1, <2>1, <3>1 DEF EditorState, View
  <2>2. CASE ~scroll
    <3>1. f = [moved EXCEPT !.cursor_y = e.cursor_y + step, !.cursor_x = x]
      BY <1>1, <2>2 DEF Vertical, EditorState
    <3> HIDE DEF f, x
    <3> QED BY <1>1, <2>2, <3>1 DEF EditorState, View
  <2> QED BY <2>1, <2>2
<1>4. Visible(e, first, last, x, y, line)
  <2> HIDE DEF x
  <2> QED BY <1>1, <1>2, WindowNumbers DEF Visible, LinesOf, FillsWindow
<1> HIDE DEF f, x, first, last, y, line
<1>5. Keeps(e, View(e, first, last, x, y, line))
  BY <1>4, ViewKeeps
<1> QED BY <1>3, <1>5 DEF f

\* ed_up and ed_down stay in the text and in the window.
LEMMA UpKeeps == ASSUME NEW e, Good(e) PROVE Keeps(e, ed_up(e))
<1>1. CASE e.current_line > 0
  <2> DEFINE scroll == e.cursor_y = 0 /\ e.first_displayed_line > 0
  <2>1. /\ scroll \in BOOLEAN /\ e.current_line + (-1) \in LinesOf(e)
        /\ scroll => /\ e.first_displayed_line + (-1) \in LinesOf(e)
                     /\ e.last_displayed_line + (-1) <= e.num_lines
                     /\ FillsWindow(e)
        /\ ~scroll => e.cursor_y + (-1) \in 0..(Shown(e) - 1)
    BY <1>1, WindowNumbers DEF LinesOf, FillsWindow
  <2>2. ed_up(e) = Vertical(e, -1, scroll)
    BY <1>1 DEF ed_up
  <2> HIDE DEF scroll
  <2>3. Keeps(e, Vertical(e, -1, scroll))
    BY <2>1, VerticalKeeps
  <2> QED BY <2>2, <2>3
<1>2. CASE ~(e.current_line > 0)
  BY <1>2, WindowNumbers DEF ed_up, Keeps, SameText
<1> QED BY <1>1, <1>2

LEMMA DownKeeps == ASSUME NEW e, Good(e) PROVE Keeps(e, ed_down(e))
<1>1. CASE HasLineBelow(e)
  <2> DEFINE scroll == AtBottom(e) /\ e.last_displayed_line < e.num_lines - 1
  <2>1. /\ scroll \in BOOLEAN /\ e.current_line + 1 \in LinesOf(e)
        /\ scroll => /\ e.first_displayed_line + 1 \in LinesOf(e)
                     /\ e.last_displayed_line + 1 <= e.num_lines
                     /\ FillsWindow(e)
        /\ ~scroll => e.cursor_y + 1 \in 0..(Shown(e) - 1)
    BY <1>1, WindowNumbers DEF LinesOf, AtBottom, HasLineBelow, FillsWindow
  <2>2. ed_down(e) = Vertical(e, 1, scroll)
    BY <1>1 DEF ed_down
  <2> HIDE DEF scroll
  <2>3. Keeps(e, Vertical(e, 1, scroll))
    BY <2>1, VerticalKeeps
  <2> QED BY <2>2, <2>3
<1>2. CASE ~HasLineBelow(e)
  BY <1>2, WindowNumbers DEF ed_down, Keeps, SameText
<1> QED BY <1>1, <1>2

LEMMA LeftKeeps == ASSUME NEW e, Good(e) PROVE Keeps(e, ed_left(e))
<1> DEFINE x == IF e.cursor_x <= 0 THEN 0 ELSE e.cursor_x - 1
<1>1. Visible(e, e.first_displayed_line, e.last_displayed_line, x, e.cursor_y, e.current_line)
  BY WindowNumbers DEF Visible, LinesOf, FillsWindow
<1>2. ed_left(e) = View(e, e.first_displayed_line, e.last_displayed_line, x, e.cursor_y,
                        e.current_line)
  BY WindowNumbers DEF ed_left, View, EditorState
<1> HIDE DEF x
<1> QED BY <1>1, <1>2, ViewKeeps

LEMMA RightKeeps == ASSUME NEW e, Good(e) PROVE Keeps(e, ed_right(e))
<1> DEFINE x == Clamp(e, e.cursor_x + 1)
<1>1. x \in Nat
  <2>1. e.cursor_x + 1 \in Nat /\ LineLen(e, e.current_line) \in Int
    BY WindowNumbers, LineLenType DEF Good, LinesOf
  <2> QED BY <2>1, ClampType
<1>2. ed_right(e) = View(e, e.first_displayed_line, e.last_displayed_line, x, e.cursor_y,
                         e.current_line)
  <2>1. ed_right(e) = [e EXCEPT !.cursor_x = x]
    BY DEF ed_right
  <2> HIDE DEF x
  <2> QED BY <2>1, WindowNumbers DEF View, EditorState
<1> HIDE DEF x
<1>3. Visible(e, e.first_displayed_line, e.last_displayed_line, x, e.cursor_y, e.current_line)
  BY <1>1, WindowNumbers DEF Visible, LinesOf, FillsWindow
<1> QED BY <1>2, <1>3, ViewKeeps

LEMMA HomeKeeps == ASSUME NEW e, Good(e) PROVE Keeps(e, ed_home(e))
<1>1. Visible(e, e.first_displayed_line, e.last_displayed_line, 0, 0, e.first_displayed_line)
  BY WindowNumbers DEF Visible, LinesOf, FillsWindow
<1>2. ed_home(e) = View(e, e.first_displayed_line, e.last_displayed_line, 0, 0,
                        e.first_displayed_line)
  BY WindowNumbers DEF ed_home, View, EditorState
<1> QED BY <1>1, <1>2, ViewKeeps

LEMMA PageDownKeeps ==
    ASSUME NEW e, Good(e), FillsWindow(e) PROVE Keeps(e, ed_page_down(e))
<1> DEFINE last == IF e.last_displayed_line + Rows >= e.num_lines THEN e.num_lines - 1
                   ELSE e.last_displayed_line + Rows
           line == e.current_line + last - e.last_displayed_line
<1>1. Visible(e, last - Rows + 1, last, e.cursor_x, e.cursor_y, line)
  BY WindowNumbers DEF Visible, LinesOf, FillsWindow
<1>2. ed_page_down(e) = View(e, last - Rows + 1, last, e.cursor_x, e.cursor_y, line)
  BY WindowNumbers DEF ed_page_down, View, EditorState
<1> HIDE DEF last, line
<1> QED BY <1>1, <1>2, ViewKeeps

LEMMA PageUpKeeps ==
    ASSUME NEW e, Good(e), FillsWindow(e) PROVE Keeps(e, ed_page_up(e))
<1> DEFINE first == IF e.first_displayed_line - Rows <= 0 THEN 0
                    ELSE e.first_displayed_line - Rows
           line == e.current_line - (e.first_displayed_line - first)
<1>1. Visible(e, first, first + Rows - 1, e.cursor_x, e.cursor_y, line)
  BY WindowNumbers DEF Visible, LinesOf, FillsWindow
<1>2. ed_page_up(e) = View(e, first, first + Rows - 1, e.cursor_x, e.cursor_y, line)
  BY WindowNumbers DEF ed_page_up, View, EditorState
<1> HIDE DEF first, line
<1> QED BY <1>1, <1>2, ViewKeeps

\* A careful user jumps to a line of the text.
LEMMA GotoLineKeeps ==
    ASSUME NEW e, Good(e), NEW n \in 1..e.num_lines PROVE Keeps(e, ed_goto_line(e, n))
<1> DEFINE target == n - 1
           inside == e.first_displayed_line <= target /\ target <= e.last_displayed_line
           past == target + Rows - 1 >= e.num_lines
           first == IF inside THEN e.first_displayed_line
                    ELSE IF past THEN e.num_lines - Rows + 1 ELSE target
           last == IF inside THEN e.last_displayed_line
                   ELSE IF past THEN e.num_lines ELSE target + Rows - 1
<1>1. Visible(e, first, last, 0, target - first, target)
  BY WindowNumbers DEF Visible, LinesOf, FillsWindow
<1>2. ed_goto_line(e, n) = View(e, first, last, 0, target - first, target)
  BY WindowNumbers DEF ed_goto_line, View, EditorState
<1> HIDE DEF target, first, last
<1> QED BY <1>1, <1>2, ViewKeeps

-----------------------------------------------------------------------------
(* Edits of the buffer *)

\* A character typed into a sequence pushes what lies behind it back ...
InsertAt(s, x, pos) == SubSeq(s, 1, pos) \o <<x>> \o SubSeq(s, pos + 1, Len(s))

HasAt(t, s, x, pos) ==
    /\ Len(t) = Len(s) + 1
    /\ \A p \in 1..pos : t[p] = s[p]
    /\ t[pos + 1] = x
    /\ \A p \in (pos + 1)..Len(s) : t[p + 1] = s[p]

LEMMA Inserted ==
    ASSUME NEW T, NEW s \in Seq(T), NEW x \in T, NEW pos \in 0..Len(s)
    PROVE  InsertAt(s, x, pos) \in Seq(T) /\ HasAt(InsertAt(s, x, pos), s, x, pos)
<1> DEFINE front == SubSeq(s, 1, pos)
           back == SubSeq(s, pos + 1, Len(s))
<1>1. /\ front \in Seq(T) /\ Len(front) = pos /\ \A p \in 1..pos : front[p] = s[p]
  BY SubSeqProperties
<1>2. /\ back \in Seq(T) /\ Len(back) = Len(s) - pos
      /\ \A p \in 1..(Len(s) - pos) : back[p] = s[pos + p]
  BY SubSeqProperties
<1> HIDE DEF front, back
<1>3. /\ front \o <<x>> \in Seq(T) /\ Len(front \o <<x>>) = pos + 1
      /\ \A p \in 1..(pos + 1) : (front \o <<x>>)[p] = IF p <= pos THEN s[p] ELSE x
  BY <1>1
<1> DEFINE mid == front \o <<x>>
<1> HIDE DEF mid
<1>4. /\ mid \o back \in Seq(T) /\ Len(mid \o back) = Len(s) + 1
      /\ \A p \in 1..(Len(s) + 1) :
            (mid \o back)[p] = IF p <= pos + 1 THEN mid[p] ELSE back[p - (pos + 1)]
  BY <1>2, <1>3 DEF mid
<1>5. \A p \in 1..pos : (mid \o back)[p] = s[p]
  <2>1. \A p \in 1..pos : p \in 1..(pos + 1) /\ p \in 1..(Len(s) + 1) /\ p <= pos
    OBVIOUS
  <2>2. \A q \in 1..(pos + 1) : mid[q] = IF q <= pos THEN s[q] ELSE x
    BY <1>3 DEF mid
  <2> QED BY <1>4, <2>1, <2>2
<1>6. (mid \o back)[pos + 1] = x
  <2>1. pos + 1 \in 1..(pos + 1) /\ pos + 1 \in 1..(Len(s) + 1) /\ ~(pos + 1 <= pos)
    OBVIOUS
  <2>2. mid[pos + 1] = x
    BY <1>3, <2>1 DEF mid
  <2> QED BY <1>4, <2>1, <2>2
<1>7. ASSUME NEW p \in (pos + 1)..Len(s) PROVE (mid \o back)[p + 1] = s[p]
  <2>1. /\ p + 1 \in 1..(Len(s) + 1) /\ ~(p + 1 <= pos + 1)
        /\ (p + 1) - (pos + 1) = p - pos /\ p - pos \in 1..(Len(s) - pos)
        /\ pos + (p - pos) = p
    OBVIOUS
  <2>2. (mid \o back)[p + 1] = back[p - pos]
    BY <1>4, <2>1
  <2> QED BY <1>2, <2>1, <2>2
<1> QED BY <1>4, <1>5, <1>6, <1>7 DEF mid, front, back, InsertAt, HasAt

\* ... and one deleted lets it close up.
RemoveAt(s, pos) == SubSeq(s, 1, pos) \o SubSeq(s, pos + 2, Len(s))

LEMMA Removed ==
    ASSUME NEW T, NEW s \in Seq(T), NEW pos \in 0..(Len(s) - 1)
    PROVE  /\ RemoveAt(s, pos) \in Seq(T) /\ Len(RemoveAt(s, pos)) = Len(s) - 1
           /\ \A p \in 1..(Len(s) - 1) :
                 RemoveAt(s, pos)[p] = IF p <= pos THEN s[p] ELSE s[p + 1]
<1> DEFINE front == SubSeq(s, 1, pos)
           back == SubSeq(s, pos + 2, Len(s))
<1>1. /\ front \in Seq(T) /\ Len(front) = pos /\ \A p \in 1..pos : front[p] = s[p]
  BY SubSeqProperties
<1>2. /\ back \in Seq(T) /\ Len(back) = Len(s) - pos - 1
      /\ \A p \in 1..(Len(s) - pos - 1) : back[p] = s[pos + 1 + p]
  BY SubSeqProperties
<1> HIDE DEF front, back
<1>3. /\ front \o back \in Seq(T) /\ Len(front \o back) = Len(s) - 1
      /\ \A p \in 1..(Len(s) - 1) :
            (front \o back)[p] = IF p <= pos THEN front[p] ELSE back[p - pos]
  BY <1>1, <1>2, SMTT(20)
<1>4. \A p \in 1..(Len(s) - 1) : (front \o back)[p] = IF p <= pos THEN s[p] ELSE s[p + 1]
  BY <1>1, <1>2, <1>3
<1> QED BY <1>3, <1>4 DEF front, back, RemoveAt

\* Two pieces of sequences that agree.
LEMMA SamePiece ==
    ASSUME NEW T, NEW s \in Seq(T), NEW t \in Seq(T), NEW m \in Nat, NEW n \in Nat,
           NEW k \in Int, m + k \in Nat, m <= n, n <= Len(s), n + k <= Len(t),
           \A p \in (m + 1)..n : t[p + k] = s[p]
    PROVE  SubSeq(t, m + k + 1, n + k) = SubSeq(s, m + 1, n)
<1> DEFINE a == SubSeq(s, m + 1, n)
           b == SubSeq(t, m + k + 1, n + k)
<1>1. a \in Seq(T) /\ Len(a) = n - m /\ \A p \in 1..(n - m) : a[p] = s[m + p]
  BY SubSeqProperties
<1>2. b \in Seq(T) /\ Len(b) = n - m /\ \A p \in 1..(n - m) : b[p] = t[m + k + p]
  BY SubSeqProperties
<1> HIDE DEF a, b
<1>3. ASSUME NEW p \in 1..(n - m) PROVE a[p] = b[p]
  <2>1. m + p \in (m + 1)..n /\ m + k + p = (m + p) + k
    OBVIOUS
  <2> QED BY <1>1, <1>2, <2>1
<1>4. a = b
  BY <1>1, <1>2, <1>3, SeqEqual
<1> QED BY <1>4 DEF a, b

\* f is e with by more characters at place pos of the current line, or fewer: what
\* edits do to everything but the characters of that line and the column.
Edited(e, f, by, pos) ==
    /\ Typed(f)
    /\ Len(f.buffer) = Len(e.buffer) + by
    /\ f.num_lines = e.num_lines /\ f.current_line = e.current_line
    /\ f.first_displayed_line = e.first_displayed_line
    /\ f.last_displayed_line = e.last_displayed_line /\ f.cursor_y = e.cursor_y
    /\ \A k \in LinesOf(e) :
          /\ f.line_starts[k] = IF k > e.current_line THEN e.line_starts[k] + by
                                ELSE e.line_starts[k]
          /\ f.line_ends[k] = IF k >= e.current_line THEN e.line_ends[k] + by
                              ELSE e.line_ends[k]
    /\ \A p \in 1..Len(e.buffer) :
          /\ p <= pos => f.buffer[p] = e.buffer[p]
          /\ p > e.line_ends[e.current_line] => f.buffer[p + by] = e.buffer[p]
    /\ e.line_starts[e.current_line] <= pos /\ pos <= e.line_ends[e.current_line]
    /\ pos \in Nat /\ by \in Int
    /\ e.line_starts[e.current_line] <= e.line_ends[e.current_line] + by

\* The current line still holds characters.
CurrentFilled(e, f) ==
    \A p \in (f.line_starts[e.current_line] + 1)..f.line_ends[e.current_line] :
        f.buffer[p] \in Chars

\* Where lines lie in the buffer.
LEMMA LinesInBuffer ==
    ASSUME NEW e, Layout(e)
    PROVE  /\ e.num_lines \in Nat \ {0} /\ Len(e.buffer) \in Nat
           /\ e.buffer \in Seq(Symbols)
           /\ \A k \in LinesOf(e) : /\ e.line_starts[k] \in Nat /\ e.line_ends[k] \in Nat
                                    /\ e.line_starts[k] <= e.line_ends[k]
                                    /\ e.line_ends[k] < Len(e.buffer)
           /\ \A j, k \in LinesOf(e) : j < k => e.line_ends[j] < e.line_starts[k]
<1>1. e.num_lines \in Nat \ {0} /\ e.buffer \in Seq(Symbols)
  BY DEF Layout, Typed, EditorState
<1>2. \A k \in LinesOf(e) : /\ e.line_starts[k] \in Nat /\ e.line_ends[k] \in Nat
                            /\ e.line_starts[k] <= e.line_ends[k]
  BY DEF Layout, Typed, Ordered
<1>3. \A j, k \in LinesOf(e) : j < k => e.line_ends[j] < e.line_starts[k]
  BY DEF Layout, Ordered
<1>4. ASSUME NEW k \in LinesOf(e) PROVE e.line_ends[k] < Len(e.buffer)
  <2>1. e.num_lines - 1 \in LinesOf(e) /\ k \in Int
    BY <1>1 DEF LinesOf
  <2>2. Len(e.buffer) = e.line_ends[e.num_lines - 1] + 1
    BY DEF Layout, Filled
  <2>3. CASE k = e.num_lines - 1
    BY <1>2, <2>1, <2>2, <2>3
  <2>4. CASE k # e.num_lines - 1
    <3>1. k < e.num_lines - 1
      BY <1>1, <2>4 DEF LinesOf
    <3>2. e.line_ends[k] < e.line_starts[e.num_lines - 1]
      BY <1>3, <2>1, <3>1
    <3>3. /\ e.line_starts[e.num_lines - 1] \in Nat /\ e.line_ends[e.num_lines - 1] \in Nat
          /\ e.line_starts[e.num_lines - 1] <= e.line_ends[e.num_lines - 1]
          /\ e.line_ends[k] \in Nat
      BY <1>2, <2>1
    <3> QED BY <2>2, <3>2, <3>3
  <2> QED BY <2>3, <2>4
<1> QED BY <1>1, <1>2, <1>3, <1>4

\* Lines before and behind the current one, from the place of the edit.
LEMMA LinesAround ==
    ASSUME NEW e, Layout(e), e.current_line \in LinesOf(e), NEW f, NEW by, NEW pos,
           Edited(e, f, by, pos), NEW k \in LinesOf(e)
    PROVE  /\ k < e.current_line =>
                 /\ f.line_starts[k] = e.line_starts[k] /\ f.line_ends[k] = e.line_ends[k]
                 /\ e.line_ends[k] < pos
           /\ k > e.current_line =>
                 /\ f.line_starts[k] = e.line_starts[k] + by
                 /\ f.line_ends[k] = e.line_ends[k] + by
                 /\ e.line_ends[e.current_line] < e.line_starts[k]
<1> DEFINE c == e.current_line
<1>1. /\ c \in Int /\ k \in Int /\ e.line_ends[k] \in Nat /\ e.line_starts[c] \in Nat
      /\ e.line_starts[c] <= pos /\ pos \in Nat
  BY LinesInBuffer DEF LinesOf, Edited
<1>2. /\ f.line_starts[k] = IF k > c THEN e.line_starts[k] + by ELSE e.line_starts[k]
      /\ f.line_ends[k] = IF k >= c THEN e.line_ends[k] + by ELSE e.line_ends[k]
  BY DEF Edited
<1>3. CASE k < c
  <2>1. e.line_ends[k] < e.line_starts[c]
    BY <1>3, LinesInBuffer
  <2> QED BY <1>1, <1>2, <1>3, <2>1
<1>4. CASE k > c
  <2>1. e.line_ends[c] < e.line_starts[k]
    BY <1>4, LinesInBuffer
  <2> QED BY <1>1, <1>2, <1>4, <2>1
<1> QED BY <1>3, <1>4

\* Places in a piece.
LEMMA InFront ==
    ASSUME NEW lo \in Nat, NEW hi \in Nat, NEW end \in Nat, hi <= end, NEW p \in (lo + 1)..hi
    PROVE  p \in 1..end
  OBVIOUS

LEMMA OffsetIn ==
    ASSUME NEW base \in Nat, NEW len \in Nat, NEW p \in (base + 1)..(base + len)
    PROVE  p - base \in 1..len /\ base + (p - base) = p
  OBVIOUS

\* Places pushed by as many.
LEMMA Pushed ==
    ASSUME NEW lo \in Nat, NEW hi \in Nat, NEW by \in Int, NEW p \in (lo + by + 1)..(hi + by)
    PROVE  p - by \in (lo + 1)..hi /\ (p - by) + by = p /\ p - by \in Nat /\ p - by > lo
  OBVIOUS

LEMMA EditedOrdered ==
    ASSUME NEW e, Layout(e), e.current_line \in LinesOf(e), NEW f, NEW by, NEW pos,
           Edited(e, f, by, pos)
    PROVE  Ordered(f)
<1> DEFINE c == e.current_line
<1>1. LinesOf(f) = LinesOf(e) /\ 0 \in LinesOf(e) /\ c \in Nat
  BY LinesInBuffer DEF Edited, LinesOf
<1>2. f.line_starts[c] = e.line_starts[c] /\ f.line_ends[c] = e.line_ends[c] + by
  BY <1>1 DEF Edited
<1>3. f.line_starts[0] = 0
  <2>1. e.line_starts[0] = 0
    BY DEF Layout, Ordered
  <2>2. ~(0 > c)
    BY <1>1
  <2> QED BY <1>1, <2>1, <2>2 DEF Edited
<1>4. by \in Int /\ e.line_starts[c] <= e.line_ends[c] + by
  BY DEF Edited
<1>5. ASSUME NEW k \in LinesOf(e)
      PROVE  0 <= f.line_starts[k] /\ f.line_starts[k] <= f.line_ends[k]
  <2>1. CASE k < c
    BY <1>1, <2>1, LinesAround, LinesInBuffer
  <2>2. CASE k = c
    BY <1>1, <1>2, <1>4, <2>2, LinesInBuffer
  <2>3. CASE k > c
    <3>1. /\ f.line_starts[k] = e.line_starts[k] + by /\ f.line_ends[k] = e.line_ends[k] + by
          /\ e.line_ends[c] < e.line_starts[k]
      BY <2>3, LinesAround
    <3>2. /\ e.line_starts[k] \in Nat /\ e.line_ends[k] \in Nat
          /\ e.line_starts[k] <= e.line_ends[k]
          /\ e.line_starts[c] \in Nat /\ e.line_ends[c] \in Nat
      BY LinesInBuffer
    <3>3. 0 <= e.line_ends[c] + by
      BY <1>4, <3>2
    <3> QED BY <1>4, <3>1, <3>2, <3>3
  <2> QED BY <1>1, <2>1, <2>2, <2>3 DEF LinesOf
<1>6. ASSUME NEW j \in LinesOf(e), NEW k \in LinesOf(e), j < k
      PROVE  f.line_ends[j] < f.line_starts[k]
  <2>1. /\ e.line_ends[j] < e.line_starts[k] /\ j \in Int /\ k \in Int
        /\ e.line_ends[j] \in Nat /\ e.line_starts[k] \in Nat
        /\ e.line_ends[c] \in Nat /\ e.line_starts[c] \in Nat
    BY <1>6, LinesInBuffer DEF LinesOf
  <2>2. CASE j < c /\ k <= c
    <3>1. f.line_ends[j] = e.line_ends[j]
      BY <2>2, LinesAround
    <3>2. f.line_starts[k] = e.line_starts[k]
      BY <1>1, <1>2, <2>1, <2>2, LinesAround
    <3> QED BY <2>1, <3>1, <3>2
  <2>3. CASE j < c /\ k > c
    <3>1. /\ f.line_ends[j] = e.line_ends[j] /\ e.line_ends[j] < e.line_starts[c]
          /\ f.line_starts[k] = e.line_starts[k] + by /\ e.line_ends[c] < e.line_starts[k]
      BY <2>3, LinesAround, LinesInBuffer
    <3> QED BY <1>4, <2>1, <3>1
  <2>4. CASE j >= c
    <3>1. f.line_ends[j] = e.line_ends[j] + by
      BY <1>1, <1>2, <2>1, <2>4, LinesAround
    <3>2. f.line_starts[k] = e.line_starts[k] + by
      BY <1>1, <1>6, <2>1, <2>4, LinesAround
    <3> QED BY <1>4, <2>1, <3>1, <3>2
  <2> QED BY <1>1, <2>1, <2>2, <2>3, <2>4
<1> QED BY <1>1, <1>3, <1>5, <1>6 DEF Ordered

LEMMA EditedFilled ==
    ASSUME NEW e, Layout(e), e.current_line \in LinesOf(e), NEW f, NEW by, NEW pos,
           Edited(e, f, by, pos), CurrentFilled(e, f), Len(e.buffer) + by <= BufferSize
    PROVE  Filled(f)
<1> DEFINE c == e.current_line
           b == e.buffer
<1>1. LinesOf(f) = LinesOf(e) /\ c \in Nat /\ f.num_lines = e.num_lines
  BY LinesInBuffer DEF Edited, LinesOf
<1>2. f.line_starts[c] = e.line_starts[c] /\ f.line_ends[c] = e.line_ends[c] + by
  BY <1>1 DEF Edited
<1>3. /\ by \in Int /\ pos \in Nat /\ pos <= e.line_ends[c]
      /\ e.line_starts[c] <= pos
      /\ \A p \in 1..Len(b) : /\ p <= pos => f.buffer[p] = b[p]
                              /\ p > e.line_ends[c] => f.buffer[p + by] = b[p]
  BY DEF Edited
<1>4. ASSUME NEW k \in LinesOf(e), NEW p \in (f.line_starts[k] + 1)..f.line_ends[k]
      PROVE  f.buffer[p] \in Chars
  <2>1. /\ e.line_starts[k] \in Nat /\ e.line_ends[k] \in Nat /\ e.line_ends[k] < Len(b)
        /\ Len(b) \in Nat /\ k \in Int
        /\ e.line_starts[c] \in Nat /\ e.line_ends[c] \in Nat
    BY LinesInBuffer DEF LinesOf
  <2>2. \A q \in (e.line_starts[k] + 1)..e.line_ends[k] : b[q] \in Chars
    BY DEF Layout, Filled
  <2>3. CASE k < c
    <3>1. p \in (e.line_starts[k] + 1)..e.line_ends[k] /\ e.line_ends[k] < pos
      BY <2>3, LinesAround
    <3>2. p \in 1..Len(b) /\ p <= pos
      BY <1>3, <2>1, <3>1, SMTT(20)
    <3> QED BY <1>3, <2>2, <3>1, <3>2
  <2>4. CASE k = c
    BY <2>4 DEF CurrentFilled
  <2>5. CASE k > c
    <3>1. /\ f.line_starts[k] = e.line_starts[k] + by /\ f.line_ends[k] = e.line_ends[k] + by
          /\ e.line_ends[c] < e.line_starts[k]
      BY <2>5, LinesAround
    <3>2. p - by \in (e.line_starts[k] + 1)..e.line_ends[k] /\ (p - by) + by = p
      <4>1. p \in (e.line_starts[k] + by + 1)..(e.line_ends[k] + by)
        BY <3>1
      <4>2. by \in Int /\ e.line_starts[k] \in Nat /\ e.line_ends[k] \in Nat
        BY <1>3, <2>1
      <4>3. ASSUME NEW lo \in Nat, NEW hi \in Nat, p \in (lo + by + 1)..(hi + by)
            PROVE  p - by \in (lo + 1)..hi /\ (p - by) + by = p
        BY <4>2, <4>3, Pushed
      <4> QED BY <4>1, <4>2, <4>3
    <3>3. p - by \in 1..Len(b) /\ p - by > e.line_ends[c]
      <4> DEFINE q == p - by
      <4>1. q \in (e.line_starts[k] + 1)..e.line_ends[k]
        BY <3>2
      <4> HIDE DEF q
      <4>2. q \in 1..Len(b) /\ q > e.line_ends[c]
        BY <2>1, <3>1, <4>1
      <4> QED BY <4>2 DEF q
    <3> QED BY <1>3, <2>2, <3>2, <3>3
  <2> QED BY <1>1, <2>1, <2>3, <2>4, <2>5
<1>5. ASSUME NEW k \in LinesOf(e), k + 1 < e.num_lines,
             NEW p \in (f.line_ends[k] + 1)..f.line_starts[k + 1]
      PROVE  f.buffer[p] = "eol"
  <2>1. k + 1 \in LinesOf(e) /\ k \in Int
    BY <1>5, LinesInBuffer DEF LinesOf
  <2>2. /\ e.line_starts[k + 1] \in Nat /\ e.line_ends[k] \in Nat
        /\ e.line_starts[k + 1] <= e.line_ends[k + 1] /\ e.line_ends[k + 1] \in Nat
        /\ e.line_ends[k + 1] < Len(b) /\ Len(b) \in Nat
        /\ e.line_starts[c] \in Nat /\ e.line_ends[c] \in Nat
    BY <2>1, LinesInBuffer
  <2>3. \A q \in (e.line_ends[k] + 1)..e.line_starts[k + 1] : b[q] = "eol"
    BY <1>5 DEF Layout, Filled
  <2>4. CASE k < c
    <3>1. f.line_ends[k] = e.line_ends[k]
      BY <2>4, LinesAround
    <3>2. f.line_starts[k + 1] = e.line_starts[k + 1] /\ e.line_starts[k + 1] <= pos
      <4>1. CASE k + 1 = c
        BY <1>2, <1>3, <4>1
      <4>2. CASE k + 1 < c
        BY <1>3, <2>1, <2>2, <4>2, LinesAround, SMTT(20)
      <4> QED BY <1>1, <2>1, <2>4, <4>1, <4>2
    <3>3. p \in (e.line_ends[k] + 1)..e.line_starts[k + 1] /\ p \in 1..Len(b) /\ p <= pos
      <4>1. p \in (e.line_ends[k] + 1)..e.line_starts[k + 1]
        BY <3>1, <3>2
      <4>2. e.line_starts[k + 1] <= Len(b)
        BY <2>2
      <4>3. p \in 1..Len(b)
        BY <2>2, <4>1, <4>2, InFront
      <4>4. p \in 1..pos
        BY <1>3, <2>2, <3>2, <4>1, InFront
      <4>5. p <= pos
        BY <1>3, <4>4
      <4> QED BY <4>1, <4>3, <4>5
    <3> QED BY <1>3, <2>3, <3>3
  <2>5. CASE k >= c
    <3>1. f.line_ends[k] = e.line_ends[k] + by /\ e.line_ends[c] <= e.line_ends[k]
      <4>1. CASE k = c
        BY <1>2, <2>2, <4>1
      <4>2. CASE k > c
        BY <2>2, <4>2, LinesAround, LinesInBuffer
      <4> QED BY <1>1, <2>1, <2>5, <4>1, <4>2
    <3>2. f.line_starts[k + 1] = e.line_starts[k + 1] + by
      BY <1>1, <2>1, <2>5, LinesAround
    <3>3. p - by \in (e.line_ends[k] + 1)..e.line_starts[k + 1] /\ (p - by) + by = p
      <4>1. p \in (e.line_ends[k] + by + 1)..(e.line_starts[k + 1] + by)
        BY <3>1, <3>2
      <4>2. by \in Int /\ e.line_ends[k] \in Nat /\ e.line_starts[k + 1] \in Nat
        BY <1>3, <2>2
      <4> QED BY <4>1, <4>2, Pushed, SMTT(20)
    <3>4. p - by \in 1..Len(b) /\ p - by > e.line_ends[c]
      <4> DEFINE q == p - by
      <4>1. q \in (e.line_ends[k] + 1)..e.line_starts[k + 1]
        BY <3>3
      <4> HIDE DEF q
      <4>2. q \in 1..Len(b) /\ q > e.line_ends[c]
        BY <2>2, <3>1, <4>1, SMTT(20)
      <4> QED BY <4>2 DEF q
    <3> QED BY <1>3, <2>3, <3>3, <3>4
  <2> QED BY <1>1, <2>1, <2>4, <2>5
<1> DEFINE last == e.num_lines - 1
<1>6. last \in LinesOf(e) /\ c <= last /\ last \in Nat
  BY LinesInBuffer DEF LinesOf
<1>7. Len(f.buffer) = f.line_ends[last] + 1 /\ Len(f.buffer) = Len(b) + by
  <2>1. Len(b) = e.line_ends[last] + 1 /\ Len(f.buffer) = Len(b) + by
    BY DEF Layout, Filled, Edited
  <2>2. f.line_ends[last] = e.line_ends[last] + by
    BY <1>1, <1>6 DEF Edited
  <2> QED BY <1>3, <1>6, <2>1, <2>2, LinesInBuffer
<1>8. f.buffer[Len(f.buffer)] = "eof"
  <2>1. b[Len(b)] = "eof"
    BY DEF Layout, Filled
  <2>2. Len(b) \in 1..Len(b) /\ Len(b) > e.line_ends[c]
    BY LinesInBuffer
  <2> QED BY <1>3, <1>7, <2>1, <2>2
<1> QED BY <1>1, <1>4, <1>5, <1>7, <1>8 DEF Filled

LEMMA EditKeeps ==
    ASSUME NEW e, Good(e), NEW f, NEW by, NEW pos,
           Edited(e, f, by, pos), CurrentFilled(e, f), Len(e.buffer) + by <= BufferSize
    PROVE  Good(f)
<1>1. Layout(f)
  <2>1. Layout(e) /\ e.current_line \in LinesOf(e) /\ Typed(f)
    BY DEF Good, Window, Edited
  <2>2. Ordered(f)
    BY <2>1, EditedOrdered
  <2>3. Filled(f)
    BY <2>1, EditedFilled
  <2> QED BY <2>1, <2>2, <2>3 DEF Layout
<1>2. Window(f)
  BY DEF Good, Window, Edited, LinesOf, Shown, FillsWindow
<1> QED BY <1>1, <1>2 DEF Good
-----------------------------------------------------------------------------
(* The three editing keys *)

Rewritten(e, by, b) == [Resized(e, by) EXCEPT !.buffer = b]

LEMMA Replaced ==
    ASSUME NEW S, NEW g \in [S -> Int], NEW c \in S, NEW v \in Int
    PROVE  /\ [g EXCEPT ![c] = v] \in [S -> Int] /\ [g EXCEPT ![c] = v][c] = v
           /\ \A k \in S : k # c => [g EXCEPT ![c] = v][k] = g[k]
  OBVIOUS

LEMMA RewrittenFields ==
    ASSUME NEW e, Layout(e), e.current_line \in LinesOf(e), NEW by \in Int,
           NEW b \in Seq(Symbols)
    PROVE  LET f == Rewritten(e, by, b)
           IN /\ Typed(f) /\ f.buffer = b /\ f.cursor_x = e.cursor_x
              /\ f.num_lines = e.num_lines /\ f.current_line = e.current_line
              /\ f.first_displayed_line = e.first_displayed_line
              /\ f.last_displayed_line = e.last_displayed_line /\ f.cursor_y = e.cursor_y
              /\ \A k \in LinesOf(e) :
                    /\ f.line_starts[k] = IF k > e.current_line THEN e.line_starts[k] + by
                                          ELSE e.line_starts[k]
                    /\ f.line_ends[k] = IF k >= e.current_line THEN e.line_ends[k] + by
                                        ELSE e.line_ends[k]
<1> DEFINE f == Rewritten(e, by, b)
           c == e.current_line
           starts == Behind(e, e.line_starts, by)
           ends == [Behind(e, e.line_ends, by) EXCEPT ![c] = @ + by]
<1>1. /\ e \in EditorState /\ e.num_lines \in Nat \ {0} /\ c \in Int
      /\ e.line_starts \in [LinesOf(e) -> Int] /\ e.line_ends \in [LinesOf(e) -> Int]
  BY DEF Layout, Typed, EditorState
<1>2. /\ starts \in [LinesOf(e) -> Int]
      /\ \A k \in LinesOf(e) : starts[k] = IF k > c THEN e.line_starts[k] + by
                                           ELSE e.line_starts[k]
  BY <1>1 DEF Behind
<1>3. /\ ends \in [LinesOf(e) -> Int]
      /\ \A k \in LinesOf(e) : ends[k] = IF k >= c THEN e.line_ends[k] + by
                                         ELSE e.line_ends[k]
  <2> DEFINE shifted == Behind(e, e.line_ends, by)
  <2>1. /\ shifted \in [LinesOf(e) -> Int]
        /\ \A k \in LinesOf(e) : shifted[k] = IF k > c THEN e.line_ends[k] + by
                                              ELSE e.line_ends[k]
    BY <1>1 DEF Behind
  <2> HIDE DEF shifted
  <2>2. shifted[c] = e.line_ends[c] /\ e.line_ends[c] \in Int
    BY <1>1, <2>1
  <2>3. ends = [shifted EXCEPT ![c] = e.line_ends[c] + by]
    BY <2>2 DEF shifted
  <2>4. /\ ends \in [LinesOf(e) -> Int] /\ ends[c] = e.line_ends[c] + by
        /\ \A k \in LinesOf(e) : k # c => ends[k] = shifted[k]
    <3> DEFINE v == e.line_ends[c] + by
    <3>1. v \in Int
      BY <2>2
    <3> HIDE DEF v, c, ends
    <3>2. c \in LinesOf(e)
      BY DEF c
    <3>3. [shifted EXCEPT ![c] = v] \in [LinesOf(e) -> Int]
      BY <2>1, <3>1, <3>2, Replaced
    <3>4. /\ [shifted EXCEPT ![c] = v][c] = v
          /\ \A k \in LinesOf(e) : k # c => [shifted EXCEPT ![c] = v][k] = shifted[k]
      BY <2>1, <3>1, <3>2, Replaced
    <3> QED BY <2>3, <3>3, <3>4 DEF v
  <2>5. LinesOf(e) \subseteq Int
    BY DEF LinesOf
  <2> HIDE DEF ends
  <2>6. ASSUME NEW k \in LinesOf(e)
        PROVE  ends[k] = IF k >= c THEN e.line_ends[k] + by ELSE e.line_ends[k]
    <3>1. k \in Int /\ c \in Int
      BY <1>1, <2>5
    <3>2. CASE k = c
      BY <2>4, <3>1, <3>2
    <3>3. CASE k # c
      <4>1. ends[k] = IF k > c THEN e.line_ends[k] + by ELSE e.line_ends[k]
        BY <2>1, <2>4, <3>3
      <4>2. (k >= c) <=> (k > c)
        BY <3>1, <3>3
      <4> QED BY <4>1, <4>2
    <3> QED BY <3>2, <3>3
  <2> QED BY <2>4, <2>6
<1>4. f = [e EXCEPT !.line_starts = starts, !.line_ends = ends, !.buffer = b]
  BY DEF Rewritten, Resized
<1> HIDE DEF f, starts, ends
<1>5. starts \in Indices /\ ends \in Indices
  BY <1>1, <1>2, <1>3 DEF Indices, LinesOf
<1>6. /\ f \in EditorState /\ f.buffer = b /\ f.cursor_x = e.cursor_x
      /\ f.line_starts = starts /\ f.line_ends = ends
      /\ f.num_lines = e.num_lines /\ f.current_line = e.current_line
      /\ f.first_displayed_line = e.first_displayed_line
      /\ f.last_displayed_line = e.last_displayed_line /\ f.cursor_y = e.cursor_y
  BY <1>1, <1>4, <1>5 DEF EditorState
<1>7. Typed(f)
  BY <1>2, <1>3, <1>6 DEF Typed, LinesOf
<1> QED BY <1>2, <1>3, <1>6, <1>7 DEF f

\* A character typed where the cursor is on its line.
InsertedBuffer(e, ch) == InsertAt(e.buffer, ch, Position(e))

LEMMA InsertEdits ==
    ASSUME NEW e, Layout(e), e.current_line \in LinesOf(e), OnLine(e), NEW ch \in Chars
    PROVE  LET f == Rewritten(e, 1, InsertedBuffer(e, ch))
           IN /\ Edited(e, f, 1, Position(e)) /\ CurrentFilled(e, f)
              /\ f.cursor_x = e.cursor_x
              /\ \A p \in 1..Position(e) : f.buffer[p] = e.buffer[p]
              /\ f.buffer[Position(e) + 1] = ch
              /\ \A p \in (Position(e) + 1)..Len(e.buffer) : f.buffer[p + 1] = e.buffer[p]
<1> DEFINE c == e.current_line
           pos == Position(e)
           b == InsertedBuffer(e, ch)
           f == Rewritten(e, 1, b)
           n == Len(e.buffer)
<1>1. /\ e.buffer \in Seq(Symbols) /\ n \in Nat /\ ch \in Symbols
      /\ e.line_starts[c] \in Nat /\ e.line_ends[c] \in Nat /\ e.line_ends[c] < n
  BY LinesInBuffer DEF Symbols
<1>2. /\ pos \in Nat /\ e.line_starts[c] <= pos /\ pos <= e.line_ends[c]
  <2>1. e.cursor_x \in Nat
    BY DEF Layout, Typed, EditorState
  <2> QED BY <1>1, <2>1 DEF Position, OnLine, LineLen
<1>3. /\ b \in Seq(Symbols) /\ Len(b) = n + 1
      /\ \A p \in 1..pos : b[p] = e.buffer[p]
      /\ b[pos + 1] = ch
      /\ \A p \in (pos + 1)..n : b[p + 1] = e.buffer[p]
  <2> HIDE DEF pos, n
  <2>1. pos \in 0..n
    BY <1>1, <1>2
  <2> DEFINE t == InsertAt(e.buffer, ch, Position(e))
  <2>2. ch \in Symbols /\ e.buffer \in Seq(Symbols) /\ Position(e) \in 0..Len(e.buffer)
    BY <1>1, <2>1 DEF pos, n
  <2> HIDE DEF b, f, c
  <2>3. t \in Seq(Symbols) /\ HasAt(t, e.buffer, ch, Position(e))
    BY <2>2, Inserted
  <2>5. b = t
    BY DEF InsertedBuffer, b
  <2> HIDE DEF t
  <2> QED BY <2>3, <2>5 DEF pos, n, HasAt
<1> HIDE DEF b, pos
<1>4. /\ Typed(f) /\ f.buffer = b /\ f.cursor_x = e.cursor_x
      /\ f.num_lines = e.num_lines /\ f.current_line = e.current_line
      /\ f.first_displayed_line = e.first_displayed_line
      /\ f.last_displayed_line = e.last_displayed_line /\ f.cursor_y = e.cursor_y
      /\ \A k \in LinesOf(e) :
            /\ f.line_starts[k] = IF k > c THEN e.line_starts[k] + 1 ELSE e.line_starts[k]
            /\ f.line_ends[k] = IF k >= c THEN e.line_ends[k] + 1 ELSE e.line_ends[k]
  BY <1>3, RewrittenFields
<1> HIDE DEF f
<1>5. \A p \in 1..n : /\ p <= pos => f.buffer[p] = e.buffer[p]
                      /\ p > e.line_ends[c] => f.buffer[p + 1] = e.buffer[p]
  <2>1. TAKE p \in 1..n
  <2>2. p \in Nat
    BY <1>1
  <2>3. ASSUME p <= pos PROVE f.buffer[p] = e.buffer[p]
    BY <1>2, <1>3, <1>4, <2>1, <2>2, <2>3
  <2>4. ASSUME p > e.line_ends[c] PROVE f.buffer[p + 1] = e.buffer[p]
    <3>1. p \in (pos + 1)..n
      BY <1>1, <1>2, <2>1, <2>2, <2>4
    <3> QED BY <1>3, <1>4, <3>1
  <2> QED BY <2>3, <2>4
<1>6. Edited(e, f, 1, pos)
  <2>1. e.line_starts[c] <= e.line_ends[c] + 1 /\ Len(f.buffer) = n + 1
    BY <1>1, <1>2, <1>3, <1>4
  <2> QED BY <1>2, <1>4, <1>5, <2>1 DEF Edited
<1>7. CurrentFilled(e, f)
  <2>1. f.line_starts[c] = e.line_starts[c] /\ f.line_ends[c] = e.line_ends[c] + 1
    BY <1>1, <1>4 DEF LinesOf
  <2>2. ASSUME NEW p \in (e.line_starts[c] + 1)..(e.line_ends[c] + 1)
        PROVE  f.buffer[p] \in Chars
    <3>1. \A q \in (e.line_starts[c] + 1)..e.line_ends[c] : e.buffer[q] \in Chars
      BY DEF Layout, Filled
    <3>2. p \in 1..(n + 1) /\ p \in Nat
      BY <1>1
    <3>3. CASE p <= pos
      <4>1. p \in (e.line_starts[c] + 1)..e.line_ends[c] /\ b[p] = e.buffer[p]
        BY <1>1, <1>2, <1>3, <3>2, <3>3, SMTT(20)
      <4> QED BY <1>4, <3>1, <4>1
    <3>4. CASE p = pos + 1
      BY <1>2, <1>3, <1>4, <3>2, <3>4
    <3>5. CASE p > pos + 1
      <4>1. p - 1 \in (e.line_starts[c] + 1)..e.line_ends[c]
        BY <1>1, <1>2, <3>2, <3>5, SMTT(20)
      <4>2. b[p] = e.buffer[p - 1]
        <5>1. p - 1 \in (pos + 1)..n /\ (p - 1) + 1 = p
          BY <1>1, <1>2, <3>2, <3>5
        <5> QED BY <1>3, <5>1
      <4> QED BY <1>4, <3>1, <4>1, <4>2
    <3> QED BY <1>2, <3>2, <3>3, <3>4, <3>5
  <2> QED BY <2>1, <2>2 DEF CurrentFilled
<1> QED BY <1>3, <1>4, <1>6, <1>7 DEF f, b, pos

\* A character deleted under the cursor.
RemovedBuffer(e) == RemoveAt(e.buffer, Position(e))

LEMMA DeleteEdits ==
    ASSUME NEW e, Layout(e), e.current_line \in LinesOf(e), OnChar(e)
    PROVE  LET f == Rewritten(e, -1, RemovedBuffer(e))
           IN /\ Edited(e, f, -1, Position(e)) /\ CurrentFilled(e, f)
              /\ f.cursor_x = e.cursor_x
              /\ \A p \in 1..Len(f.buffer) :
                    f.buffer[p] = IF p <= Position(e) THEN e.buffer[p] ELSE e.buffer[p + 1]
<1> DEFINE c == e.current_line
           pos == Position(e)
           b == RemovedBuffer(e)
           f == Rewritten(e, -1, b)
           n == Len(e.buffer)
<1>1. /\ e.buffer \in Seq(Symbols) /\ n \in Nat
      /\ e.line_starts[c] \in Nat /\ e.line_ends[c] \in Nat /\ e.line_ends[c] < n
  BY LinesInBuffer
<1>2. /\ pos \in Nat /\ e.line_starts[c] <= pos /\ pos < e.line_ends[c]
  <2>1. e.cursor_x \in Nat
    BY DEF Layout, Typed, EditorState
  <2> QED BY <1>1, <2>1 DEF Position, OnChar, LineLen
<1>3. /\ b \in Seq(Symbols) /\ Len(b) = n - 1
      /\ \A p \in 1..(n - 1) : b[p] = IF p <= pos THEN e.buffer[p] ELSE e.buffer[p + 1]
  <2> HIDE DEF pos, n
  <2>1. pos \in 0..(n - 1)
    BY <1>1, <1>2
  <2> QED BY <1>1, <2>1, Removed DEF RemovedBuffer, pos, n
<1> HIDE DEF b, pos
<1>4. /\ Typed(f) /\ f.buffer = b /\ f.cursor_x = e.cursor_x
      /\ f.num_lines = e.num_lines /\ f.current_line = e.current_line
      /\ f.first_displayed_line = e.first_displayed_line
      /\ f.last_displayed_line = e.last_displayed_line /\ f.cursor_y = e.cursor_y
      /\ \A k \in LinesOf(e) :
            /\ f.line_starts[k] = IF k > c THEN e.line_starts[k] + (-1) ELSE e.line_starts[k]
            /\ f.line_ends[k] = IF k >= c THEN e.line_ends[k] + (-1) ELSE e.line_ends[k]
  BY <1>3, RewrittenFields
<1> HIDE DEF f
<1>5. \A p \in 1..n : /\ p <= pos => f.buffer[p] = e.buffer[p]
                      /\ p > e.line_ends[c] => f.buffer[p + (-1)] = e.buffer[p]
  <2>1. TAKE p \in 1..n
  <2>2. p \in Nat
    BY <1>1, <2>1
  <2>3. ASSUME p <= pos PROVE f.buffer[p] = e.buffer[p]
    <3>1. p \in 1..(n - 1)
      BY <1>1, <1>2, <2>1, <2>2, <2>3
    <3> QED BY <1>3, <1>4, <2>3, <3>1
  <2>4. ASSUME p > e.line_ends[c] PROVE f.buffer[p + (-1)] = e.buffer[p]
    <3>1. /\ p + (-1) \in 1..(n - 1) /\ ~(p + (-1) <= pos) /\ (p + (-1)) + 1 = p
      BY <1>1, <1>2, <2>1, <2>2, <2>4
    <3>2. b[p + (-1)] = e.buffer[(p + (-1)) + 1]
      BY <1>3, <3>1
    <3> QED BY <1>4, <3>1, <3>2
  <2> QED BY <2>3, <2>4
<1>6. Edited(e, f, -1, pos)
  <2>1. /\ e.line_starts[c] <= e.line_ends[c] + (-1) /\ Len(f.buffer) = n + (-1)
        /\ -1 \in Int /\ pos <= e.line_ends[c]
    BY <1>1, <1>2, <1>3, <1>4
  <2> QED BY <1>2, <1>4, <1>5, <2>1 DEF Edited
<1>7. CurrentFilled(e, f)
  <2>1. f.line_starts[c] = e.line_starts[c] /\ f.line_ends[c] = e.line_ends[c] + (-1)
    BY <1>1, <1>4 DEF LinesOf
  <2>2. ASSUME NEW p \in (e.line_starts[c] + 1)..(e.line_ends[c] + (-1))
        PROVE  f.buffer[p] \in Chars
    <3>1. \A q \in (e.line_starts[c] + 1)..e.line_ends[c] : e.buffer[q] \in Chars
      BY DEF Layout, Filled
    <3>2. p \in 1..(n - 1) /\ p \in Nat
      BY <1>1, SMTT(20)
    <3>3. CASE p <= pos
      <4>1. p \in (e.line_starts[c] + 1)..e.line_ends[c] /\ b[p] = e.buffer[p]
        BY <1>1, <1>2, <1>3, <3>2, <3>3
      <4> QED BY <1>4, <3>1, <4>1
    <3>4. CASE p > pos
      <4>1. p + 1 \in (e.line_starts[c] + 1)..e.line_ends[c]
        BY <1>1, <1>2, <3>2, <3>4
      <4>2. b[p] = e.buffer[p + 1]
        BY <1>2, <1>3, <3>2, <3>4
      <4> QED BY <1>4, <3>1, <4>1, <4>2
    <3> QED BY <1>2, <3>2, <3>3, <3>4
  <2> QED BY <2>1, <2>2 DEF CurrentFilled
<1> QED BY <1>3, <1>4, <1>6, <1>7 DEF f, b, pos
\* What the keys make of a good state.
LEMMA InsertRewrites ==
    ASSUME NEW e, Good(e), OnLine(e), NEW ch \in Chars, Len(e.buffer) < BufferSize
    PROVE  ed_insert_char(e, ch) = ed_right(Rewritten(e, 1, InsertedBuffer(e, ch)))
<1>1. Position(e) < Len(e.buffer)
  <2>1. /\ e.line_ends[e.current_line] < Len(e.buffer) /\ Len(e.buffer) \in Nat
        /\ e.line_starts[e.current_line] \in Nat /\ e.line_ends[e.current_line] \in Nat
    BY LinesInBuffer DEF Good, Window
  <2> QED BY <2>1, WindowNumbers DEF Position, OnLine, LineLen
<1>2. ~(Len(e.buffer) >= BufferSize)
  BY EditorAssumption, LinesInBuffer DEF Good
<1> QED BY <1>1, <1>2 DEF ed_insert_char, Rewritten, InsertedBuffer, InsertAt

LEMMA DeleteRewrites ==
    ASSUME NEW e, Good(e), OnChar(e)
    PROVE  ed_del_char(e) = Rewritten(e, -1, RemovedBuffer(e))
<1>1. Position(e) < Len(e.buffer)
  <2>1. /\ e.line_ends[e.current_line] < Len(e.buffer) /\ Len(e.buffer) \in Nat
        /\ e.line_starts[e.current_line] \in Nat /\ e.line_ends[e.current_line] \in Nat
    BY LinesInBuffer DEF Good, Window
  <2> QED BY <2>1, WindowNumbers, SMTT(20) DEF Position, OnChar, LineLen
<1> QED BY <1>1 DEF ed_del_char, Rewritten, RemovedBuffer, RemoveAt

LEMMA InsertKeeps ==
    ASSUME NEW e, Good(e), OnLine(e), NEW ch \in Chars, Len(e.buffer) < BufferSize
    PROVE  LET g == Rewritten(e, 1, InsertedBuffer(e, ch))
           IN Good(g) /\ Keeps(g, ed_right(g))
<1> DEFINE g == Rewritten(e, 1, InsertedBuffer(e, ch))
<1>1. Layout(e) /\ e.current_line \in LinesOf(e)
  BY DEF Good, Window
<1>2. Edited(e, g, 1, Position(e)) /\ CurrentFilled(e, g)
  BY <1>1, InsertEdits
<1>3. Len(e.buffer) + 1 <= BufferSize
  BY <1>1, LinesInBuffer, EditorAssumption
<1> HIDE DEF g
<1>4. Good(g)
  BY <1>2, <1>3, EditKeeps
<1>5. Keeps(g, ed_right(g))
  BY <1>4, RightKeeps
<1> QED BY <1>4, <1>5 DEF g

LEMMA DeleteKeeps ==
    ASSUME NEW e, Good(e), OnChar(e)
    PROVE  Good(Rewritten(e, -1, RemovedBuffer(e)))
<1> DEFINE g == Rewritten(e, -1, RemovedBuffer(e))
<1>1. Layout(e) /\ e.current_line \in LinesOf(e)
  BY DEF Good, Window
<1>2. Edited(e, g, -1, Position(e)) /\ CurrentFilled(e, g)
  BY <1>1, DeleteEdits
<1>3. Len(e.buffer) + (-1) <= BufferSize
  BY <1>1, LinesInBuffer, EditorAssumption DEF Layout, Filled
<1> HIDE DEF g
<1>4. Good(g)
  BY <1>2, <1>3, EditKeeps
<1> QED BY <1>4 DEF g

-----------------------------------------------------------------------------
(* The text of a line, as LineEditor sees it *)

TextOf(e, k) == SubSeq(e.buffer, e.line_starts[k] + 1, e.line_ends[k])

TextLines(e) == [k \in 1..e.num_lines |-> TextOf(e, k - 1)]

LEMMA Piece ==
    ASSUME NEW T, NEW s, NEW m \in Nat, NEW n \in Nat, m <= n, \A p \in (m + 1)..n : s[p] \in T
    PROVE  /\ SubSeq(s, m + 1, n) \in Seq(T) /\ Len(SubSeq(s, m + 1, n)) = n - m
           /\ \A i \in 1..(n - m) : SubSeq(s, m + 1, n)[i] = s[m + i]
  BY SubSeqProperties

LEMMA Within ==
    ASSUME NEW lo \in Nat, NEW len \in Nat, NEW n \in Nat, lo + len < n, NEW j \in 1..len
    PROVE  /\ lo + j \in 1..(n - 1)
           /\ \A x \in Nat : j \in (x + 1)..len => lo + j \in (lo + x + 1)..n
  OBVIOUS

LEMMA NextPlace ==
    ASSUME NEW len \in Nat, NEW i \in 1..(len - 1)
    PROVE  i \in 1..len /\ i + 1 \in 1..len /\ i \in Nat
  OBVIOUS

LEMMA TextOfLine ==
    ASSUME NEW e, Layout(e), NEW k \in LinesOf(e)
    PROVE  /\ TextOf(e, k) \in Seq(Chars) /\ Len(TextOf(e, k)) = LineLen(e, k)
           /\ \A i \in 1..LineLen(e, k) : TextOf(e, k)[i] = e.buffer[e.line_starts[k] + i]
<1> DEFINE lo == e.line_starts[k]
           hi == e.line_ends[k]
<1>1. lo \in Nat /\ hi \in Nat /\ lo <= hi
  BY LinesInBuffer
<1>2. \A p \in (lo + 1)..hi : e.buffer[p] \in Chars
  BY DEF Layout, Filled
<1> HIDE DEF lo, hi
<1>3. /\ SubSeq(e.buffer, lo + 1, hi) \in Seq(Chars)
      /\ Len(SubSeq(e.buffer, lo + 1, hi)) = hi - lo
      /\ \A i \in 1..(hi - lo) : SubSeq(e.buffer, lo + 1, hi)[i] = e.buffer[lo + i]
  BY <1>1, <1>2, Piece
<1> QED BY <1>3 DEF TextOf, LineLen, lo, hi

\* An edit leaves the text of every other line alone.
LEMMA OtherLines ==
    ASSUME NEW e, Layout(e), e.current_line \in LinesOf(e), NEW f, Layout(f), NEW by, NEW pos,
           Edited(e, f, by, pos), NEW k \in LinesOf(e), k # e.current_line
    PROVE  TextOf(f, k) = TextOf(e, k)
<1> DEFINE c == e.current_line
           lo == e.line_starts[k]
           hi == e.line_ends[k]
           b == e.buffer
<1>1. /\ lo \in Nat /\ hi \in Nat /\ lo <= hi /\ hi < Len(b) /\ Len(b) \in Nat
      /\ b \in Seq(Symbols) /\ k \in Int /\ c \in Int /\ e.line_ends[c] \in Nat
  BY LinesInBuffer DEF LinesOf
<1>2. /\ k \in LinesOf(f) /\ f.line_starts[k] \in Nat /\ f.line_ends[k] < Len(f.buffer)
      /\ f.buffer \in Seq(Symbols)
  <2>1. LinesOf(f) = LinesOf(e)
    BY DEF LinesOf, Edited
  <2> QED BY <2>1, LinesInBuffer
<1>3. /\ by \in Int /\ pos \in Nat
      /\ \A p \in 1..Len(b) : /\ p <= pos => f.buffer[p] = b[p]
                              /\ p > e.line_ends[c] => f.buffer[p + by] = b[p]
  BY DEF Edited
<1>4. CASE k < c
  <2>1. f.line_starts[k] = lo /\ f.line_ends[k] = hi /\ hi < pos
    BY <1>4, LinesAround
  <2> HIDE DEF lo, hi, b, c
  <2>2. \A p \in (lo + 1)..hi : f.buffer[p + 0] = b[p]
    <3>1. TAKE p \in (lo + 1)..hi
    <3>2. p \in 1..Len(b) /\ p <= pos /\ p + 0 = p
      BY <1>1, <1>3, <2>1, <3>1
    <3> QED BY <1>3, <3>2
  <2>3. 0 \in Int /\ lo + 0 \in Nat /\ hi <= Len(b) /\ hi + 0 <= Len(f.buffer)
    BY <1>1, <1>2, <2>1, LenProperties
  <2>4. SubSeq(f.buffer, lo + 0 + 1, hi + 0) = SubSeq(b, lo + 1, hi)
    BY <1>1, <1>2, <2>2, <2>3, SamePiece
  <2>5. lo + 0 + 1 = lo + 1 /\ hi + 0 = hi
    BY <1>1
  <2> QED BY <2>1, <2>4, <2>5 DEF TextOf, lo, hi, b
<1>5. CASE k > c
  <2>1. /\ f.line_starts[k] = lo + by /\ f.line_ends[k] = hi + by /\ e.line_ends[c] < lo
    BY <1>5, LinesAround
  <2> HIDE DEF lo, hi, b, c
  <2>2. \A p \in (lo + 1)..hi : f.buffer[p + by] = b[p]
    <3>1. TAKE p \in (lo + 1)..hi
    <3>2. p \in 1..Len(b) /\ p > e.line_ends[c]
      BY <1>1, <2>1, <3>1
    <3> QED BY <1>3, <3>2
  <2>3. lo + by \in Nat /\ hi <= Len(b) /\ hi + by <= Len(f.buffer)
    BY <1>1, <1>2, <1>3, <2>1, LenProperties
  <2>4. SubSeq(f.buffer, lo + by + 1, hi + by) = SubSeq(b, lo + 1, hi)
    BY <1>1, <1>2, <1>3, <2>2, <2>3, SamePiece
  <2> QED BY <2>1, <2>4 DEF TextOf, lo, hi, b
<1> QED BY <1>1, <1>4, <1>5

\* The current line gets the character at the cursor ...
LEMMA InsertText ==
    ASSUME NEW e, Layout(e), e.current_line \in LinesOf(e), OnLine(e), NEW ch \in Chars,
           NEW f, Layout(f), Edited(e, f, 1, Position(e)),
           HasAt(f.buffer, e.buffer, ch, Position(e))
    PROVE  TextOf(f, e.current_line) = InsertAt(TextOf(e, e.current_line), ch, e.cursor_x)
<1> DEFINE c == e.current_line
           lo == e.line_starts[c]
           len == LineLen(e, c)
           x == e.cursor_x
           t == TextOf(e, c)
           u == TextOf(f, c)
           v == InsertAt(t, ch, x)
<1>1. /\ lo \in Nat /\ e.line_ends[c] \in Nat /\ len = e.line_ends[c] - lo /\ len \in Nat
      /\ x \in Nat /\ x <= len /\ Position(e) = lo + x /\ lo + len < Len(e.buffer)
      /\ Len(e.buffer) \in Nat
  <2>1. x \in Nat
    BY DEF Layout, Typed, EditorState
  <2> QED BY <2>1, LinesInBuffer, LineLenType, SMTT(20) DEF OnLine, LineLen, Position
<1>2. t \in Seq(Chars) /\ Len(t) = len /\ \A i \in 1..len : t[i] = e.buffer[lo + i]
  BY TextOfLine
<1>3. u \in Seq(Chars) /\ Len(u) = len + 1 /\ \A i \in 1..(len + 1) : u[i] = f.buffer[lo + i]
  <2>1. c \in LinesOf(f) /\ f.line_starts[c] = lo /\ f.line_ends[c] = e.line_ends[c] + 1
    <3>1. c \in Int /\ c \in LinesOf(e)
      BY LinesInBuffer DEF LinesOf
    <3>2. LinesOf(f) = LinesOf(e)
      BY DEF Edited, LinesOf
    <3> HIDE DEF t, u, v, x, len
    <3>3. f.line_starts[c] = lo /\ f.line_ends[c] = e.line_ends[c] + 1
      BY <3>1 DEF Edited
    <3> QED BY <3>1, <3>2, <3>3
  <2>2. LineLen(f, c) = len + 1
    BY <1>1, <2>1, SMTT(20) DEF LineLen
  <2> QED BY <2>1, <2>2, TextOfLine
<1>4. v \in Seq(Chars) /\ HasAt(v, t, ch, x)
  <2>1. x \in 0..Len(t)
    BY <1>1, <1>2
  <2> QED BY <1>2, <2>1, Inserted
<1> HIDE DEF t, u, v, x, lo, len, c
<1>5. /\ \A p \in 1..(lo + x) : f.buffer[p] = e.buffer[p]
      /\ f.buffer[lo + x + 1] = ch
      /\ \A p \in (lo + x + 1)..Len(e.buffer) : f.buffer[p + 1] = e.buffer[p]
  BY <1>1 DEF HasAt
<1>6. /\ Len(v) = len + 1 /\ \A i \in 1..x : v[i] = t[i]
      /\ v[x + 1] = ch /\ \A i \in (x + 1)..len : v[i + 1] = t[i]
  BY <1>2, <1>4 DEF HasAt
<1>7. ASSUME NEW i \in 1..(len + 1) PROVE u[i] = v[i]
  <2>1. i \in Nat
    BY <1>1
  <2>2. CASE i <= x
    <3>1. i \in 1..len /\ i \in 1..x /\ lo + i \in 1..(lo + x)
      BY <1>1, <2>1, <2>2
    <3> QED BY <1>2, <1>3, <1>5, <1>6, <3>1
  <2>3. CASE i = x + 1
    <3>1. lo + i = lo + x + 1
      BY <1>1, <2>3
    <3> QED BY <1>3, <1>5, <1>6, <2>3, <3>1
  <2>4. CASE i > x + 1
    <3> DEFINE j == i - 1
    <3>1. j \in 1..len /\ j \in (x + 1)..len /\ j + 1 = i /\ j \in Nat
      BY <1>1, <2>1, <2>4
    <3> HIDE DEF j
    <3>2. lo + j \in (lo + x + 1)..Len(e.buffer)
      BY <1>1, <3>1, Within
    <3>3. lo + i = (lo + j) + 1
      BY <1>1, <3>1
    <3>4. v[i] = t[j] /\ t[j] = e.buffer[lo + j]
      BY <1>2, <1>6, <3>1
    <3>5. f.buffer[(lo + j) + 1] = e.buffer[lo + j]
      BY <1>5, <3>2
    <3>6. u[i] = f.buffer[lo + i]
      BY <1>3
    <3> QED BY <3>3, <3>4, <3>5, <3>6
  <2>5. x \in Nat /\ (i <= x \/ i = x + 1 \/ i > x + 1)
    <3>1. x \in Nat
      BY <1>1
    <3> QED BY <2>1, <3>1
  <2> QED BY <2>2, <2>3, <2>4, <2>5
<1>8. u = v
  BY <1>3, <1>4, <1>6, <1>7, SeqEqual
<1> QED BY <1>8 DEF t, u, v, x, c

\* ... or loses the one under it.
LEMMA DeleteText ==
    ASSUME NEW e, Layout(e), e.current_line \in LinesOf(e), OnChar(e),
           NEW f, Layout(f), Edited(e, f, -1, Position(e)),
           \A p \in 1..Len(f.buffer) :
              f.buffer[p] = IF p <= Position(e) THEN e.buffer[p] ELSE e.buffer[p + 1]
    PROVE  TextOf(f, e.current_line) = RemoveAt(TextOf(e, e.current_line), e.cursor_x)
<1> DEFINE c == e.current_line
           lo == e.line_starts[c]
           len == LineLen(e, c)
           x == e.cursor_x
           t == TextOf(e, c)
           u == TextOf(f, c)
           v == RemoveAt(t, x)
<1>1. /\ lo \in Nat /\ e.line_ends[c] \in Nat /\ len = e.line_ends[c] - lo /\ len \in Nat
      /\ x \in Nat /\ x < len /\ Position(e) = lo + x /\ lo + len < Len(e.buffer)
      /\ Len(e.buffer) \in Nat
  <2>1. x \in Nat
    BY DEF Layout, Typed, EditorState
  <2> QED BY <2>1, LinesInBuffer, LineLenType, SMTT(20) DEF OnChar, LineLen, Position
<1>2. t \in Seq(Chars) /\ Len(t) = len /\ \A i \in 1..len : t[i] = e.buffer[lo + i]
  BY TextOfLine
<1>3. u \in Seq(Chars) /\ Len(u) = len - 1 /\ \A i \in 1..(len - 1) : u[i] = f.buffer[lo + i]
  <2>1. /\ c \in LinesOf(f) /\ f.line_starts[c] = lo /\ f.line_ends[c] = e.line_ends[c] + (-1)
    <3>1. c \in Int /\ c \in LinesOf(e)
      BY LinesInBuffer DEF LinesOf
    <3>2. LinesOf(f) = LinesOf(e)
      BY DEF Edited, LinesOf
    <3> HIDE DEF t, u, v, x, len
    <3>3. f.line_starts[c] = lo /\ f.line_ends[c] = e.line_ends[c] + (-1)
      BY <3>1 DEF Edited
    <3> QED BY <3>1, <3>2, <3>3
  <2>2. LineLen(f, c) = len - 1
    BY <1>1, <2>1, SMTT(20) DEF LineLen
  <2> QED BY <2>1, <2>2, TextOfLine
<1>4. /\ v \in Seq(Chars) /\ Len(v) = len - 1
      /\ \A i \in 1..(len - 1) : v[i] = IF i <= x THEN t[i] ELSE t[i + 1]
  <2>1. x \in 0..(Len(t) - 1)
    BY <1>1, <1>2
  <2> HIDE DEF t
  <2>2. /\ v \in Seq(Chars) /\ Len(v) = Len(t) - 1
        /\ \A i \in 1..(Len(t) - 1) : v[i] = IF i <= x THEN t[i] ELSE t[i + 1]
    BY <1>2, <2>1, Removed
  <2> HIDE DEF v
  <2> QED BY <1>2, <2>2
<1>5. Len(f.buffer) = Len(e.buffer) - 1
  BY <1>1 DEF Edited
<1> HIDE DEF t, u, v, x, lo, len, c
<1>6. ASSUME NEW i \in 1..(len - 1) PROVE u[i] = v[i]
  <2>1. /\ i \in 1..len /\ i + 1 \in 1..len /\ i \in Nat /\ lo + (i + 1) = (lo + i) + 1
    <3>1. len \in Nat /\ lo \in Nat
      BY <1>1
    <3>2. i \in 1..len /\ i + 1 \in 1..len /\ i \in Nat
      BY <3>1, NextPlace
    <3> QED BY <3>1, <3>2
  <2>5. lo + i \in 1..Len(f.buffer)
    <3>1. lo + i \in 1..(Len(e.buffer) - 1)
      BY <1>1, <2>1, Within
    <3> QED BY <1>5, <3>1
  <2>6. (lo + i <= lo + x) <=> (i <= x)
    BY <1>1, <2>1
  <2>2. f.buffer[lo + i] = IF lo + i <= lo + x THEN e.buffer[lo + i] ELSE e.buffer[(lo + i) + 1]
    BY <1>1, <2>5
  <2>3. CASE i <= x
    BY <1>2, <1>3, <1>4, <2>1, <2>2, <2>3, <2>6
  <2>4. CASE ~(i <= x)
    BY <1>2, <1>3, <1>4, <2>1, <2>2, <2>4, <2>6
  <2> QED BY <2>3, <2>4
<1>7. u = v
  BY <1>3, <1>4, <1>6, SeqEqual
<1> QED BY <1>7 DEF t, u, v, x, c

\* So that the lines of the text change in one place.
LEMMA LinesEdited ==
    ASSUME NEW e, Layout(e), e.current_line \in LinesOf(e), NEW f, Layout(f), NEW by, NEW pos,
           Edited(e, f, by, pos)
    PROVE  TextLines(f) = [TextLines(e) EXCEPT ![e.current_line + 1] = TextOf(f, e.current_line)]
<1> DEFINE c == e.current_line
           t == TextOf(f, c)
           old == TextLines(e)
           new == TextLines(f)
<1>1. f.num_lines = e.num_lines /\ e.num_lines \in Nat /\ c \in Int /\ c \in 0..(e.num_lines - 1)
  BY LinesInBuffer DEF Edited, LinesOf
<1>2. ASSUME NEW k \in 1..e.num_lines PROVE new[k] = [old EXCEPT ![c + 1] = t][k]
  <2>1. new[k] = TextOf(f, k - 1) /\ old[k] = TextOf(e, k - 1) /\ k - 1 \in LinesOf(e)
    BY <1>1 DEF TextLines, LinesOf
  <2>2. DOMAIN old = 1..e.num_lines
    BY DEF TextLines
  <2> HIDE DEF old, new
  <2>3. CASE k = c + 1
    <3>1. k - 1 = c
      BY <1>1, <2>3
    <3> QED BY <2>1, <2>2, <2>3, <3>1
  <2>4. CASE k # c + 1
    <3>1. k - 1 # c
      BY <1>1, <2>4
    <3>2. TextOf(f, k - 1) = TextOf(e, k - 1)
      BY <2>1, <3>1, OtherLines
    <3> QED BY <2>1, <2>2, <2>4, <3>2
  <2> QED BY <2>3, <2>4
<1> QED BY <1>1, <1>2 DEF TextLines
-----------------------------------------------------------------------------
(* A file as it is loaded.  The two recursive functions are reasoned about *)
(* by induction, which goes over a set: the indices a claim holds of.      *)

LEMMA UpTo ==
    ASSUME NEW T, NEW n \in Nat, 0 \in T, \A k \in 0..(n - 1) : k \in T => k + 1 \in T
    PROVE  \A k \in 0..n : k \in T
<1> DEFINE U == {k \in 0..n : k \notin T}
<1>1. SUFFICES ASSUME U # {} PROVE FALSE
  OBVIOUS
<1>2. U \subseteq Nat
  OBVIOUS
<1>3. PICK x \in U : \A y \in U : ~(<<y, x>> \in OpToRel(<, Nat))
  <2>1. IsWellFoundedOn(OpToRel(<, Nat), Nat)
    BY NatLessThanWellFounded
  <2> HIDE DEF U
  <2> QED BY <1>1, <1>2, <2>1, WFMin
<1>4. \A y \in U : ~(y < x)
  BY <1>2, <1>3 DEF OpToRel
<1>5. x # 0 /\ x \in 0..n /\ x \notin T
  OBVIOUS
<1>6. x - 1 \in 0..(n - 1) /\ x - 1 \in 0..n /\ (x - 1) + 1 = x /\ x - 1 < x
  BY <1>5
<1>7. x - 1 \in T
  BY <1>4, <1>6
<1> QED BY <1>5, <1>6, <1>7

\* The starts of the lines exist, ...
StartsUpTo(file, eol, k, g) ==
    g = [i \in 0..k |-> IF i = 0 THEN 0 ELSE g[i - 1] + Len(file[i]) + eol]

LEMMA StartsExist ==
    ASSUME NEW file, NEW eol, NEW n \in Nat
    PROVE  \E g : StartsUpTo(file, eol, n, g)
<1> DEFINE T == {k \in 0..n : \E g : StartsUpTo(file, eol, k, g)}
<1>1. 0 \in T
  <2> DEFINE g == [i \in 0..0 |-> 0]
  <2>1. \A i \in 0..0 : i = 0
    OBVIOUS
  <2>2. g = [i \in 0..0 |-> IF i = 0 THEN 0 ELSE g[i - 1] + Len(file[i]) + eol]
    BY <2>1
  <2>3. StartsUpTo(file, eol, 0, g)
    BY <2>2 DEF StartsUpTo
  <2>4. \E h : StartsUpTo(file, eol, 0, h)
    BY <2>3
  <2> QED BY <2>4
<1>2. ASSUME NEW k \in 0..(n - 1), k \in T PROVE k + 1 \in T
  <2>1. PICK g : StartsUpTo(file, eol, k, g)
    BY <1>2
  <2>2. DOMAIN g = 0..k /\ \A i \in 0..k : g[i] = IF i = 0 THEN 0 ELSE g[i - 1] + Len(file[i]) + eol
    BY <2>1 DEF StartsUpTo
  <2> DEFINE h == [i \in 0..(k + 1) |-> IF i = k + 1 THEN g[k] + Len(file[k + 1]) + eol ELSE g[i]]
             F(i) == IF i = 0 THEN 0 ELSE h[i - 1] + Len(file[i]) + eol
  <2>3. ASSUME NEW i \in 0..(k + 1) PROVE h[i] = F(i)
    <3>1. CASE i = k + 1
      <4>1. i # 0 /\ i - 1 = k /\ k \in 0..(k + 1) /\ k # k + 1
        BY <3>1
      <4>2. h[k] = g[k] /\ h[i] = g[k] + Len(file[i]) + eol
        BY <3>1, <4>1
      <4> HIDE DEF h
      <4> QED BY <4>1, <4>2
    <3>2. CASE i # k + 1
      <4>1. i \in 0..k /\ h[i] = g[i]
        BY <3>2
      <4>2. i # 0 => i - 1 \in 0..(k + 1) /\ i - 1 # k + 1
        BY <3>2
      <4>3. i # 0 => h[i - 1] = g[i - 1]
        BY <4>2
      <4> HIDE DEF h
      <4> QED BY <2>2, <4>1, <4>3
    <3> QED BY <3>1, <3>2
  <2>4. h = [i \in 0..(k + 1) |-> F(i)]
    <3>1. DOMAIN h = 0..(k + 1) /\ h = [i \in 0..(k + 1) |-> h[i]]
      OBVIOUS
    <3> HIDE DEF h
    <3> QED BY <2>3, <3>1
  <2> HIDE DEF h
  <2>5. StartsUpTo(file, eol, k + 1, h)
    BY <2>4 DEF StartsUpTo
  <2>6. k + 1 \in 0..n
    OBVIOUS
  <2> QED BY <2>5, <2>6
<1>3. n \in T
  <2> HIDE DEF T
  <2>1. \A k \in 0..n : k \in T
    BY <1>1, <1>2, UpTo
  <2> QED BY <2>1
<1> QED BY <1>3

\* ... and are what the definition says.
LEMMA StartsAre ==
    ASSUME NEW file \in Seq(Seq(Chars)), file # <<>>, NEW eol \in Nat
    PROVE  LET s == Starts(file, eol)
               n == Len(file)
           IN /\ s \in [0..(n - 1) -> Nat] /\ s[0] = 0
              /\ \A k \in 1..(n - 1) : s[k] = s[k - 1] + Len(file[k]) + eol
<1> DEFINE s == Starts(file, eol)
           n == Len(file)
<1>1. n \in Nat \ {0} /\ \A k \in 1..n : Len(file[k]) \in Nat
  <2>1. \A k \in 1..n : file[k] \in Seq(Chars)
    BY ElementOfSeq
  <2> QED BY <2>1, EmptySeq, LenProperties
<1>2. StartsUpTo(file, eol, n - 1, s)
  <2>1. \E g : StartsUpTo(file, eol, n - 1, g)
    <3>1. n - 1 \in Nat
      BY <1>1
    <3> HIDE DEF n
    <3> QED BY <3>1, StartsExist
  <2>2. s = CHOOSE g : StartsUpTo(file, eol, n - 1, g)
    BY DEF Starts, StartsUpTo
  <2> HIDE DEF s
  <2> QED BY <2>1, <2>2
<1> HIDE DEF s, n
<1>3. /\ DOMAIN s = 0..(n - 1) /\ s = [k \in 0..(n - 1) |-> s[k]]
      /\ \A k \in 0..(n - 1) : s[k] = IF k = 0 THEN 0 ELSE s[k - 1] + Len(file[k]) + eol
  BY <1>2 DEF StartsUpTo
<1>4. s[0] = 0 /\ \A k \in 1..(n - 1) : s[k] = s[k - 1] + Len(file[k]) + eol
  <2>1. 0 \in 0..(n - 1) /\ \A k \in 1..(n - 1) : k \in 0..(n - 1) /\ k # 0
    BY <1>1
  <2> QED BY <1>3, <2>1
<1>5. \A k \in 0..(n - 1) : s[k] \in Nat
  <2> DEFINE T == {k \in 0..(n - 1) : s[k] \in Nat}
  <2>1. 0 \in T
    BY <1>1, <1>4
  <2>2. ASSUME NEW k \in 0..((n - 1) - 1), k \in T PROVE k + 1 \in T
    <3>1. k + 1 \in 1..(n - 1) /\ k + 1 \in 1..n /\ (k + 1) - 1 = k /\ s[k] \in Nat
      BY <1>1, <2>2
    <3>2. s[k + 1] = s[k] + Len(file[k + 1]) + eol /\ Len(file[k + 1]) \in Nat
      BY <1>1, <1>4, <3>1
    <3> QED BY <3>1, <3>2
  <2>3. n - 1 \in Nat
    BY <1>1
  <2> HIDE DEF T
  <2>4. \A k \in 0..(n - 1) : k \in T
    BY <2>1, <2>2, <2>3, UpTo
  <2> QED BY <2>4 DEF T
<1> QED BY <1>3, <1>4, <1>5 DEF s, n
\* The lines of the file lie one behind the other, apart by their ends.
Ends(file, eol) == [k \in 0..(Len(file) - 1) |-> Starts(file, eol)[k] + Len(file[k + 1])]

LoadedLines(file, eol) ==
    LET s == Starts(file, eol)
        e == Ends(file, eol)
        n == Len(file)
    IN /\ n \in Nat \ {0} /\ s \in [0..(n - 1) -> Nat] /\ e \in [0..(n - 1) -> Nat]
       /\ s[0] = 0 /\ \A k \in 0..(n - 1) : e[k] = s[k] + Len(file[k + 1]) /\ s[k] <= e[k]
       /\ \A k \in 0..(n - 2) : s[k + 1] = e[k] + eol
       /\ \A j, k \in 0..(n - 1) : j < k => e[j] < s[k]

LEMMA LoadedLinesLie ==
    ASSUME NEW file \in Seq(Seq(Chars)), file # <<>>, NEW eol \in Nat \ {0}
    PROVE  LoadedLines(file, eol)
<1> DEFINE s == Starts(file, eol)
           e == Ends(file, eol)
           n == Len(file)
<1>1. /\ n \in Nat \ {0} /\ s \in [0..(n - 1) -> Nat] /\ s[0] = 0
      /\ \A k \in 1..(n - 1) : s[k] = s[k - 1] + Len(file[k]) + eol
  <2>1. n \in Nat \ {0}
    BY EmptySeq
  <2> QED BY <2>1, StartsAre
<1>2. \A k \in 0..(n - 1) : Len(file[k + 1]) \in Nat
  <2>1. \A k \in 0..(n - 1) : k + 1 \in 1..n
    BY <1>1
  <2>2. \A k \in 1..n : file[k] \in Seq(Chars)
    BY ElementOfSeq
  <2> QED BY <2>1, <2>2, LenProperties
<1>3. DOMAIN e = 0..(n - 1) /\ \A k \in 0..(n - 1) : e[k] = s[k] + Len(file[k + 1])
  BY DEF Ends
<1>4. e = [k \in 0..(n - 1) |-> e[k]]
  BY DEF Ends
<1> HIDE DEF s, e, n
<1>5. \A k \in 0..(n - 1) : e[k] \in Nat /\ s[k] \in Nat /\ s[k] <= e[k]
  <2>1. TAKE k \in 0..(n - 1)
  <2>2. s[k] \in Nat /\ Len(file[k + 1]) \in Nat /\ e[k] = s[k] + Len(file[k + 1])
    BY <1>1, <1>2, <1>3, <2>1
  <2> QED BY <2>2
<1>6. e \in [0..(n - 1) -> Nat]
  BY <1>4, <1>5
<1>7. ASSUME NEW k \in 0..(n - 2) PROVE s[k + 1] = e[k] + eol
  <2>1. k + 1 \in 1..(n - 1) /\ (k + 1) - 1 = k /\ k \in 0..(n - 1)
    BY <1>1
  <2>2. s[k + 1] = s[k] + Len(file[k + 1]) + eol
    BY <1>1, <2>1
  <2> QED BY <1>3, <2>1, <2>2
<1>8. ASSUME NEW j \in 0..(n - 1), NEW k \in 0..(n - 1), j < k PROVE e[j] < s[k]
  <2> DEFINE T == {i \in 0..(n - 1) : j < i => e[j] < s[i]}
  <2>1. 0 \in T
    BY <1>1
  <2>2. ASSUME NEW i \in 0..((n - 1) - 1), i \in T PROVE i + 1 \in T
    <3>1. i \in 0..(n - 2) /\ i + 1 \in 0..(n - 1) /\ i \in 0..(n - 1)
      BY <1>1
    <3>2. s[i + 1] = e[i] + eol /\ s[i] <= e[i] /\ e[i] \in Nat /\ s[i] \in Nat /\ e[j] \in Nat
      BY <1>5, <1>7, <3>1
    <3>3. ASSUME j < i + 1 PROVE e[j] < s[i + 1]
      <4>1. CASE j = i
        BY <3>2, <4>1
      <4>2. CASE j < i
        <5>1. e[j] < s[i]
          BY <2>2, <4>2
        <5> QED BY <3>2, <5>1
      <4> QED BY <3>1, <3>3, <4>1, <4>2
    <3> QED BY <3>1, <3>3
  <2>3. n - 1 \in Nat
    BY <1>1
  <2> HIDE DEF T
  <2>4. \A i \in 0..(n - 1) : i \in T
    BY <2>1, <2>2, <2>3, UpTo
  <2> QED BY <1>8, <2>4 DEF T
<1> QED BY <1>1, <1>3, <1>5, <1>6, <1>7, <1>8 DEF LoadedLines, s, e, n

\* Their text joined, ...
TextUpTo(file, eol, k, g) ==
    g = [i \in 1..k |-> IF i = 1 THEN file[1]
                        ELSE g[i - 1] \o [j \in 1..eol |-> "eol"] \o file[i]]

LEMMA TextExists ==
    ASSUME NEW file, NEW eol, NEW n \in Nat
    PROVE  \E g : TextUpTo(file, eol, n + 1, g)
<1> DEFINE T == {k \in 0..n : \E g : TextUpTo(file, eol, k + 1, g)}
<1>1. 0 \in T
  <2> DEFINE g == [i \in 1..1 |-> file[1]]
  <2>1. \A i \in 1..1 : i = 1
    OBVIOUS
  <2>2. g = [i \in 1..1 |-> IF i = 1 THEN file[1]
                            ELSE g[i - 1] \o [j \in 1..eol |-> "eol"] \o file[i]]
    BY <2>1
  <2>3. TextUpTo(file, eol, 1, g)
    BY <2>2 DEF TextUpTo
  <2>4. \E h : TextUpTo(file, eol, 1, h)
    BY <2>3
  <2>5. 0 + 1 = 1
    OBVIOUS
  <2> QED BY <2>4, <2>5
<1>2. ASSUME NEW k \in 0..(n - 1), k \in T PROVE k + 1 \in T
  <2> DEFINE m == k + 1
             More(x, i) == x \o [j \in 1..eol |-> "eol"] \o file[i]
  <2>1. PICK g : TextUpTo(file, eol, m, g)
    BY <1>2
  <2>2. DOMAIN g = 1..m /\ \A i \in 1..m : g[i] = IF i = 1 THEN file[1] ELSE More(g[i - 1], i)
    BY <2>1 DEF TextUpTo
  <2> DEFINE h == [i \in 1..(m + 1) |-> IF i = m + 1 THEN More(g[m], m + 1) ELSE g[i]]
             F(i) == IF i = 1 THEN file[1] ELSE More(h[i - 1], i)
  <2>3. m \in Nat \ {0}
    OBVIOUS
  <2> HIDE DEF m, More
  <2>4. ASSUME NEW i \in 1..(m + 1) PROVE h[i] = F(i)
    <3>1. CASE i = m + 1
      <4>1. i # 1 /\ i - 1 = m /\ m \in 1..(m + 1) /\ m # m + 1
        BY <2>3, <3>1
      <4>2. h[m] = g[m] /\ h[i] = More(g[m], i)
        BY <3>1, <4>1
      <4> HIDE DEF h
      <4> QED BY <4>1, <4>2
    <3>2. CASE i # m + 1
      <4>1. i \in 1..m /\ h[i] = g[i]
        BY <2>3, <3>2
      <4>2. i # 1 => i - 1 \in 1..(m + 1) /\ i - 1 # m + 1
        BY <2>3, <3>2
      <4>3. i # 1 => h[i - 1] = g[i - 1]
        BY <4>2
      <4> HIDE DEF h
      <4> QED BY <2>2, <4>1, <4>3
    <3> QED BY <3>1, <3>2
  <2>5. h = [i \in 1..(m + 1) |-> F(i)]
    <3>1. DOMAIN h = 1..(m + 1) /\ h = [i \in 1..(m + 1) |-> h[i]]
      OBVIOUS
    <3> HIDE DEF h
    <3> QED BY <2>4, <3>1
  <2> HIDE DEF h
  <2>6. TextUpTo(file, eol, m + 1, h)
    BY <2>5 DEF TextUpTo, More
  <2>7. k + 1 \in 0..n
    OBVIOUS
  <2> QED BY <2>6, <2>7 DEF m
<1>3. n \in T
  <2> HIDE DEF T
  <2>1. \A k \in 0..n : k \in T
    BY <1>1, <1>2, UpTo
  <2> QED BY <2>1
<1> QED BY <1>3

\* ... a sequence joined from two, or three.
JoinsTwo(w, x, y) ==
    /\ Len(w) = Len(x) + Len(y)
    /\ \A p \in 1..Len(x) : w[p] = x[p]
    /\ \A p \in 1..Len(y) : w[Len(x) + p] = y[p]

JoinsThree(w, x, y, z) ==
    /\ Len(w) = Len(x) + Len(y) + Len(z)
    /\ \A p \in 1..Len(x) : w[p] = x[p]
    /\ \A p \in 1..Len(y) : w[Len(x) + p] = y[p]
    /\ \A p \in 1..Len(z) : w[Len(x) + Len(y) + p] = z[p]

LEMMA TwoJoined ==
    ASSUME NEW T, NEW x \in Seq(T), NEW y \in Seq(T)
    PROVE  x \o y \in Seq(T) /\ JoinsTwo(x \o y, x, y)
  BY DEF JoinsTwo

LEMMA ThreeJoined ==
    ASSUME NEW T, NEW x \in Seq(T), NEW y \in Seq(T), NEW z \in Seq(T)
    PROVE  x \o y \o z \in Seq(T) /\ JoinsThree(x \o y \o z, x, y, z)
<1> DEFINE w == x \o y
           v == w \o z
<1>1. w \in Seq(T) /\ JoinsTwo(w, x, y)
  BY TwoJoined
<1> HIDE DEF w
<1>2. v \in Seq(T) /\ JoinsTwo(v, w, z)
  BY <1>1, TwoJoined
<1> HIDE DEF v
<1>3. Len(x) \in Nat /\ Len(y) \in Nat /\ Len(w) = Len(x) + Len(y)
  BY <1>1, LenProperties DEF JoinsTwo
<1>4. /\ \A p \in 1..Len(x) : p \in 1..Len(w)
      /\ \A p \in 1..Len(y) : Len(x) + p \in 1..Len(w)
  BY <1>3
<1>5. \A p \in 1..Len(x) : v[p] = x[p]
  BY <1>1, <1>2, <1>4 DEF JoinsTwo
<1>6. \A p \in 1..Len(y) : v[Len(x) + p] = y[p]
  BY <1>1, <1>2, <1>4 DEF JoinsTwo
<1>7. Len(v) = Len(x) + Len(y) + Len(z) /\ \A p \in 1..Len(z) : v[Len(x) + Len(y) + p] = z[p]
  BY <1>2, <1>3 DEF JoinsTwo
<1>8. v \in Seq(T) /\ JoinsThree(v, x, y, z)
  BY <1>2, <1>5, <1>6, <1>7 DEF JoinsThree
<1> QED BY <1>8 DEF v, w

\* What is loaded of the first k + 1 lines.
PartLoaded(file, eol, k, x) ==
    LET s == Starts(file, eol)
        e == Ends(file, eol)
    IN /\ x \in Seq(Symbols) /\ Len(x) = e[k]
       /\ \A j \in 0..k : \A p \in (s[j] + 1)..e[j] : x[p] \in Chars
       /\ \A j \in 0..(k - 1) : \A p \in (e[j] + 1)..s[j + 1] : x[p] = "eol"

LEMMA OneMoreLine ==
    ASSUME NEW file \in Seq(Seq(Chars)), file # <<>>, NEW eol \in Nat \ {0},
           NEW k \in 0..(Len(file) - 2), NEW x, PartLoaded(file, eol, k, x)
    PROVE  PartLoaded(file, eol, k + 1, x \o [j \in 1..eol |-> "eol"] \o file[k + 2])
<1> DEFINE s == Starts(file, eol)
           e == Ends(file, eol)
           n == Len(file)
           y == [j \in 1..eol |-> "eol"]
           z == file[k + 2]
           w == x \o y \o z
<1>1. /\ n \in Nat \ {0} /\ s \in [0..(n - 1) -> Nat] /\ e \in [0..(n - 1) -> Nat]
      /\ \A j \in 0..(n - 1) : e[j] = s[j] + Len(file[j + 1]) /\ s[j] <= e[j]
      /\ \A j \in 0..(n - 2) : s[j + 1] = e[j] + eol
      /\ \A i, j \in 0..(n - 1) : i < j => e[i] < s[j]
  BY LoadedLinesLie DEF LoadedLines
<1>2. /\ x \in Seq(Symbols) /\ Len(x) = e[k]
      /\ \A j \in 0..k : \A p \in (s[j] + 1)..e[j] : x[p] \in Chars
      /\ \A j \in 0..(k - 1) : \A p \in (e[j] + 1)..s[j + 1] : x[p] = "eol"
  BY DEF PartLoaded
<1>3. /\ y \in Seq(Symbols) /\ Len(y) = eol /\ \A p \in 1..eol : y[p] = "eol"
  BY DEF Symbols
<1>4. /\ z \in Seq(Symbols) /\ Len(z) \in Nat /\ \A p \in 1..Len(z) : z[p] \in Chars
  <2>1. k + 2 \in 1..n
    BY <1>1
  <2>2. z \in Seq(Chars)
    BY <2>1, ElementOfSeq
  <2> HIDE DEF z
  <2>3. \A p \in 1..Len(z) : z[p] \in Chars
    BY <2>2, ElementOfSeq
  <2>4. z \in Seq(Symbols) /\ Len(z) \in Nat
    BY <2>2 DEF Symbols
  <2> QED BY <2>3, <2>4
<1> HIDE DEF s, e, n, y, z
<1>5. /\ w \in Seq(Symbols) /\ Len(w) = e[k] + eol + Len(z)
      /\ \A p \in 1..e[k] : w[p] = x[p]
      /\ \A p \in 1..eol : w[e[k] + p] = y[p]
      /\ \A p \in 1..Len(z) : w[e[k] + eol + p] = z[p]
  <2>1. w \in Seq(Symbols) /\ JoinsThree(w, x, y, z)
    BY <1>2, <1>3, <1>4, ThreeJoined
  <2> HIDE DEF w
  <2> QED BY <1>2, <1>3, <2>1 DEF JoinsThree
<1> HIDE DEF w
<1>6. /\ k \in Nat /\ k \in 0..(n - 1) /\ k + 1 \in 0..(n - 1) /\ k \in 0..(n - 2)
      /\ (k + 1) + 1 = k + 2 /\ (k + 1) - 1 = k
  BY <1>1 DEF n
<1>7. /\ e[k] \in Nat /\ s[k + 1] \in Nat /\ s[k + 1] = e[k] + eol
      /\ e[k + 1] = s[k + 1] + Len(z) /\ e[k + 1] \in Nat
  <2>1. e[k + 1] = s[k + 1] + Len(file[(k + 1) + 1])
    BY <1>1, <1>6
  <2> QED BY <1>1, <1>6, <2>1 DEF z
<1>8. Len(w) = e[k + 1]
  BY <1>5, <1>7
<1>9. \A j \in 0..k : e[j] <= e[k] /\ e[j] \in Nat /\ s[j] \in Nat /\ s[j] <= e[j]
  <2>1. TAKE j \in 0..k
  <2>2. j \in 0..(n - 1) /\ j \in Int
    BY <1>1, <1>6, <2>1
  <2>3. /\ e[j] \in Nat /\ s[j] \in Nat /\ s[j] <= e[j]
        /\ s[k] \in Nat /\ s[k] <= e[k]
    BY <1>1, <1>6, <2>2
  <2>4. CASE j = k
    BY <2>3, <2>4, <1>7
  <2>5. CASE j < k
    <3>1. e[j] < s[k]
      BY <1>1, <1>6, <2>2, <2>5
    <3>2. \A a, b, c \in Nat : a < b /\ b <= c => a <= c
      OBVIOUS
    <3> QED BY <1>7, <2>3, <3>1, <3>2
  <2> QED BY <1>6, <2>1, <2>4, <2>5
<1>10. ASSUME NEW j \in 0..(k + 1), NEW p \in (s[j] + 1)..e[j] PROVE w[p] \in Chars
  <2>1. CASE j \in 0..k
    <3>1. p \in 1..e[k]
      <4>1. e[j] <= e[k] /\ e[j] \in Nat /\ s[j] \in Nat
        BY <1>9, <2>1
      <4> QED BY <1>7, <4>1, InFront
    <3>2. x[p] \in Chars
      BY <1>2, <2>1
    <3> QED BY <1>5, <3>1, <3>2
  <2>2. CASE j = k + 1
    <3> DEFINE q == p - s[k + 1]
    <3>1. q \in 1..Len(z) /\ e[k] + eol + q = p
      <4>1. p \in (s[k + 1] + 1)..(s[k + 1] + Len(z))
        BY <1>7, <2>2
      <4>2. s[k + 1] \in Nat /\ s[k + 1] = e[k] + eol
        BY <1>7
      <4>3. q \in 1..Len(z) /\ s[k + 1] + q = p
        BY <1>4, <4>1, <4>2, OffsetIn
      <4> HIDE DEF q
      <4> QED BY <4>2, <4>3
    <3> HIDE DEF q
    <3> QED BY <1>4, <1>5, <3>1
  <2> QED BY <1>6, <2>1, <2>2
<1>11. ASSUME NEW j \in 0..((k + 1) - 1), NEW p \in (e[j] + 1)..s[j + 1] PROVE w[p] = "eol"
  <2>1. CASE j \in 0..(k - 1)
    <3>1. j + 1 \in 0..k /\ j \in 0..k
      BY <1>6, <2>1
    <3>2. p \in 1..e[k]
      <4>1. e[j + 1] <= e[k] /\ s[j + 1] <= e[j + 1]
        BY <1>9, <3>1
      <4>2. e[j] \in Nat /\ s[j + 1] \in Nat /\ e[j + 1] \in Nat
        BY <1>9, <3>1
      <4>3. s[j + 1] <= e[k]
        <5>1. \A a, b, c \in Nat : a <= b /\ b <= c => a <= c
          OBVIOUS
        <5> QED BY <1>7, <4>1, <4>2, <5>1
      <4>4. e[k] \in Nat
        BY <1>7
      <4> QED BY <4>2, <4>3, <4>4, InFront
    <3>3. x[p] = "eol"
      BY <1>2, <2>1
    <3> QED BY <1>5, <3>2, <3>3
  <2>2. CASE j = k
    <3> DEFINE q == p - e[k]
    <3>1. q \in 1..eol /\ e[k] + q = p
      <4>1. p \in (e[k] + 1)..(e[k] + eol)
        BY <1>7, <2>2
      <4> QED BY <1>7, <4>1, OffsetIn
    <3> HIDE DEF q
    <3> QED BY <1>3, <1>5, <3>1
  <2> QED BY <1>6, <2>1, <2>2
<1> QED BY <1>5, <1>8, <1>10, <1>11 DEF PartLoaded, s, e, w, y, z

\* The buffer: the text of the lines, and the end of the file.
LEMMA JoinedIs ==
    ASSUME NEW file \in Seq(Seq(Chars)), file # <<>>, NEW eol \in Nat \ {0}
    PROVE  \E t : PartLoaded(file, eol, Len(file) - 1, t) /\ Joined(file, eol) = Append(t, "eof")
<1> DEFINE n == Len(file)
           t == CHOOSE g : TextUpTo(file, eol, n, g)
           More(x, i) == x \o [j \in 1..eol |-> "eol"] \o file[i]
<1>1. n \in Nat \ {0}
  BY EmptySeq
<1>2. TextUpTo(file, eol, n, t)
  <2>1. \E g : TextUpTo(file, eol, (n - 1) + 1, g)
    <3>1. n - 1 \in Nat
      BY <1>1
    <3> HIDE DEF n
    <3> QED BY <3>1, TextExists
  <2>2. (n - 1) + 1 = n
    BY <1>1
  <2> HIDE DEF n
  <2> QED BY <2>1, <2>2
<1>3. Joined(file, eol) = Append(t[n], "eof")
  BY DEF Joined, TextUpTo
<1> HIDE DEF t, n
<1>4. \A i \in 1..n : t[i] = IF i = 1 THEN file[1] ELSE More(t[i - 1], i)
  BY <1>2 DEF TextUpTo
<1> DEFINE T == {k \in 0..(n - 1) : PartLoaded(file, eol, k, t[k + 1])}
<1>5. 0 \in T
  <2>1. 1 \in 1..n /\ 0 \in 0..(n - 1) /\ 0 + 1 = 1
    BY <1>1
  <2>2. t[1] = file[1] /\ file[1] \in Seq(Chars)
    BY <1>4, <2>1, ElementOfSeq DEF n
  <2>3. /\ Starts(file, eol)[0] = 0 /\ Ends(file, eol)[0] = Starts(file, eol)[0] + Len(file[0 + 1])
    BY <2>1, LoadedLinesLie DEF LoadedLines, n
  <2>4. Ends(file, eol)[0] = Len(file[1])
    BY <2>1, <2>2, <2>3, LenProperties
  <2> DEFINE x == file[1]
  <2> HIDE DEF x
  <2>5. x \in Seq(Chars)
    BY <2>2 DEF x
  <2>6. x \in Seq(Symbols) /\ \A p \in (0 + 1)..Len(x) : x[p] \in Chars
    BY <2>5 DEF Symbols
  <2>7. /\ \A j \in 0..0 : j = 0
        /\ \A j \in 0..(0 - 1) : FALSE
    OBVIOUS
  <2>8. PartLoaded(file, eol, 0, x)
    BY <2>3, <2>4, <2>6, <2>7 DEF PartLoaded, x
  <2> QED BY <2>1, <2>2, <2>8 DEF x
<1>6. ASSUME NEW k \in 0..((n - 1) - 1), k \in T PROVE k + 1 \in T
  <2>1. /\ k \in 0..(Len(file) - 2) /\ (k + 1) + 1 \in 1..n /\ (k + 1) + 1 # 1
        /\ ((k + 1) + 1) - 1 = k + 1 /\ k + 2 = (k + 1) + 1 /\ k + 1 \in 0..(n - 1)
    BY <1>1 DEF n
  <2>2. PartLoaded(file, eol, k, t[k + 1])
    BY <1>6
  <2>3. PartLoaded(file, eol, k + 1, t[k + 1] \o [j \in 1..eol |-> "eol"] \o file[k + 2])
    BY <2>1, <2>2, OneMoreLine
  <2>4. t[(k + 1) + 1] = t[k + 1] \o [j \in 1..eol |-> "eol"] \o file[k + 2]
    BY <1>4, <2>1
  <2> QED BY <2>1, <2>3, <2>4
<1>7. n - 1 \in T
  <2> HIDE DEF T
  <2>1. n - 1 \in Nat
    BY <1>1
  <2>2. \A k \in 0..(n - 1) : k \in T
    BY <1>5, <1>6, <2>1, UpTo
  <2> QED BY <2>1, <2>2
<1>8. (n - 1) + 1 = n
  BY <1>1
<1>9. PartLoaded(file, eol, n - 1, t[n])
  BY <1>7, <1>8
<1> QED BY <1>3, <1>9 DEF n
LEMMA LoadedGood ==
    ASSUME NEW file \in Seq(Seq(Chars)), file # <<>>, NEW eol \in Nat \ {0},
           Len(Joined(file, eol)) < BufferSize
    PROVE  Good(Loaded(file, eol))
<1> DEFINE s == Starts(file, eol)
           e == Ends(file, eol)
           n == Len(file)
           b == Joined(file, eol)
           f == Loaded(file, eol)
           last == (IF n < Rows THEN n ELSE Rows) - 1
<1>1. /\ n \in Nat \ {0} /\ s \in [0..(n - 1) -> Nat] /\ e \in [0..(n - 1) -> Nat]
      /\ s[0] = 0 /\ \A j \in 0..(n - 1) : s[j] <= e[j]
      /\ \A i, j \in 0..(n - 1) : i < j => e[i] < s[j]
  BY LoadedLinesLie DEF LoadedLines
<1>2. PICK t : PartLoaded(file, eol, n - 1, t) /\ b = Append(t, "eof")
  BY JoinedIs
<1>3. /\ t \in Seq(Symbols) /\ Len(t) = e[n - 1]
      /\ \A j \in 0..(n - 1) : \A p \in (s[j] + 1)..e[j] : t[p] \in Chars
      /\ \A j \in 0..((n - 1) - 1) : \A p \in (e[j] + 1)..s[j + 1] : t[p] = "eol"
  BY <1>2 DEF PartLoaded
<1>4. f = [buffer |-> b, line_starts |-> s, line_ends |-> e, num_lines |-> n,
           first_displayed_line |-> 0, last_displayed_line |-> last,
           cursor_x |-> 0, cursor_y |-> 0, current_line |-> 0]
  BY DEF Loaded, Ends
<1>5. last = (IF n < Rows THEN n ELSE Rows) - 1 /\ last \in Int /\ Len(b) < BufferSize
  BY <1>1, EditorAssumption
<1> HIDE DEF s, e, n, b, f, last
<1>6. /\ b \in Seq(Symbols) /\ Len(b) = e[n - 1] + 1 /\ b[Len(b)] = "eof"
      /\ \A p \in 1..e[n - 1] : b[p] = t[p]
  <2>1. "eof" \in Symbols
    BY DEF Symbols
  <2> QED BY <1>2, <1>3, <2>1, AppendProperties
<1>7. s \in Indices /\ e \in Indices
  <2>1. s \in [0..(n - 1) -> Int] /\ e \in [0..(n - 1) -> Int]
    BY <1>1
  <2> QED BY <1>1, <2>1 DEF Indices
<1>8. /\ f \in EditorState /\ f.buffer = b /\ f.line_starts = s /\ f.line_ends = e
      /\ f.num_lines = n /\ f.first_displayed_line = 0 /\ f.last_displayed_line = last
      /\ f.cursor_x = 0 /\ f.cursor_y = 0 /\ f.current_line = 0
  BY <1>1, <1>4, <1>5, <1>6, <1>7 DEF EditorState
<1>9. LinesOf(f) = 0..(n - 1)
  BY <1>8 DEF LinesOf
<1>10. Typed(f)
  BY <1>1, <1>8, <1>9 DEF Typed
<1>11. Ordered(f)
  <2>1. \A j \in 0..(n - 1) : 0 <= s[j] /\ s[j] <= e[j]
    BY <1>1
  <2>2. s[0] = 0 /\ \A i, j \in 0..(n - 1) : i < j => e[i] < s[j]
    BY <1>1
  <2> QED BY <1>8, <1>9, <2>1, <2>2 DEF Ordered
<1>12. \A j \in 0..(n - 1) : e[j] <= e[n - 1] /\ e[j] \in Nat /\ s[j] \in Nat
  <2>1. TAKE j \in 0..(n - 1)
  <2>2. n - 1 \in 0..(n - 1) /\ j \in Int
    BY <1>1, <2>1
  <2>3. CASE j = n - 1
    BY <1>1, <2>2, <2>3
  <2>4. CASE j < n - 1
    <3>1. e[j] < s[n - 1] /\ s[n - 1] <= e[n - 1] /\ s[n - 1] \in Nat
          /\ e[j] \in Nat /\ e[n - 1] \in Nat /\ s[j] \in Nat
      BY <1>1, <2>1, <2>2, <2>4
    <3>2. \A x, y, z \in Nat : x < y /\ y <= z => x <= z
      OBVIOUS
    <3> QED BY <3>1, <3>2
  <2> QED BY <1>1, <2>1, <2>3, <2>4
<1>13. e[n - 1] \in Nat
  <2>1. n - 1 \in 0..(n - 1)
    BY <1>1
  <2> QED BY <1>1, <2>1
<1>14. ASSUME NEW k \in 0..(n - 1), NEW p \in (s[k] + 1)..e[k] PROVE b[p] \in Chars
  <2>1. e[k] <= e[n - 1] /\ e[k] \in Nat /\ s[k] \in Nat
    BY <1>12
  <2>2. p \in 1..e[n - 1]
    BY <1>13, <2>1, InFront
  <2> QED BY <1>3, <1>6, <2>2
<1>15. ASSUME NEW k \in 0..(n - 1), k + 1 < n, NEW p \in (e[k] + 1)..s[k + 1]
       PROVE  b[p] = "eol"
  <2>1. k + 1 \in 0..(n - 1) /\ k \in 0..((n - 1) - 1)
    BY <1>1, <1>15
  <2>2. /\ e[k] \in Nat /\ s[k + 1] \in Nat /\ s[k + 1] <= e[k + 1] /\ e[k + 1] \in Nat
        /\ e[k + 1] <= e[n - 1]
    BY <1>1, <1>12, <2>1
  <2>3. s[k + 1] <= e[n - 1]
    <3>1. \A x, y, z \in Nat : x <= y /\ y <= z => x <= z
      OBVIOUS
    <3> QED BY <1>13, <2>2, <3>1
  <2>4. p \in 1..e[n - 1]
    BY <1>13, <2>2, <2>3, InFront, SMTT(20)
  <2> QED BY <1>3, <1>6, <2>1, <2>4
<1>16. Filled(f)
  <2>1. Len(b) <= BufferSize
    BY <1>5, <1>6, <1>13, EditorAssumption
  <2> QED BY <1>6, <1>8, <1>9, <1>14, <1>15, <2>1 DEF Filled
<1>17. Window(f)
  <2>1. 0 \in 0..(n - 1) /\ Rows \in Nat \ {0} /\ n \in Nat
    BY <1>1, EditorAssumption
  <2> QED BY <1>5, <1>8, <1>9, <2>1 DEF Window, Shown, FillsWindow
<1> QED BY <1>10, <1>11, <1>16, <1>17 DEF Good, Layout, f

-----------------------------------------------------------------------------
(* What the editing keys do to the lines of the text *)

LEMMA SameLines ==
    ASSUME NEW e, NEW f, SameText(e, f) PROVE TextLines(f) = TextLines(e)
  BY DEF SameText, TextLines, TextOf

LEMMA CurrentText ==
    ASSUME NEW e, Good(e)
    PROVE  /\ TextLines(e)[e.current_line + 1] = TextOf(e, e.current_line)
           /\ Len(TextOf(e, e.current_line)) = LineLen(e, e.current_line)
           /\ LineLen(e, e.current_line) \in Nat
<1>1. /\ e.current_line + 1 \in 1..e.num_lines /\ (e.current_line + 1) - 1 = e.current_line
      /\ e.current_line \in LinesOf(e)
  BY WindowNumbers DEF LinesOf
<1>2. TextLines(e)[e.current_line + 1] = TextOf(e, e.current_line)
  BY <1>1 DEF TextLines
<1> QED BY <1>1, <1>2, TextOfLine, LineLenType DEF Good

\* f is e with text t in the current line and the cursor in column x of it.
LineBecomes(e, f, t, x) ==
    /\ TextLines(f) = [TextLines(e) EXCEPT ![e.current_line + 1] = t]
    /\ f.current_line = e.current_line /\ f.cursor_x = x

LEMMA InsertLine ==
    ASSUME NEW e, Good(e), OnLine(e), NEW ch \in Chars, Len(e.buffer) < BufferSize
    PROVE  /\ Good(ed_insert_char(e, ch))
           /\ LineBecomes(e, ed_insert_char(e, ch),
                          InsertAt(TextOf(e, e.current_line), ch, e.cursor_x),
                          IF e.cursor_x = LineLen(e, e.current_line) THEN e.cursor_x
                          ELSE e.cursor_x + 1)
<1> DEFINE g == Rewritten(e, 1, InsertedBuffer(e, ch))
           f == ed_right(g)
           c == e.current_line
           len == LineLen(e, c)
<1>1. Layout(e) /\ c \in LinesOf(e) /\ c \in Int /\ e.cursor_x \in Nat
  BY WindowNumbers DEF Good, LinesOf
<1>2. Good(g) /\ Keeps(g, f)
  BY InsertKeeps
<1>3. Edited(e, g, 1, Position(e)) /\ g.cursor_x = e.cursor_x
  BY <1>1, InsertEdits
<1>4. HasAt(g.buffer, e.buffer, ch, Position(e))
  <2>1. /\ \A p \in 1..Position(e) : g.buffer[p] = e.buffer[p]
        /\ g.buffer[Position(e) + 1] = ch
        /\ \A p \in (Position(e) + 1)..Len(e.buffer) : g.buffer[p + 1] = e.buffer[p]
    BY <1>1, InsertEdits
  <2>2. Len(g.buffer) = Len(e.buffer) + 1
    BY <1>3 DEF Edited
  <2> HIDE DEF g
  <2> QED BY <2>1, <2>2 DEF HasAt
<1>5. ed_insert_char(e, ch) = f
  BY InsertRewrites
<1>6. f = [g EXCEPT !.cursor_x = Clamp(g, g.cursor_x + 1)]
  BY DEF ed_right
<1> HIDE DEF g, f
<1>7. TextOf(g, c) = InsertAt(TextOf(e, c), ch, e.cursor_x)
  BY <1>1, <1>2, <1>3, <1>4, InsertText DEF Good
<1>8. TextLines(f) = [TextLines(e) EXCEPT ![c + 1] = TextOf(g, c)]
  <2>1. TextLines(g) = [TextLines(e) EXCEPT ![c + 1] = TextOf(g, c)]
    BY <1>1, <1>2, <1>3, LinesEdited DEF Good
  <2>2. TextLines(f) = TextLines(g)
    BY <1>2, SameLines DEF Keeps
  <2> QED BY <2>1, <2>2
<1>9. g.current_line = c /\ LineLen(g, c) = len + 1 /\ len \in Nat
  <2>1. g.current_line = c /\ g.line_starts[c] = e.line_starts[c]
        /\ g.line_ends[c] = e.line_ends[c] + 1
    BY <1>1, <1>3 DEF Edited
  <2>2. e.line_starts[c] \in Nat /\ e.line_ends[c] \in Nat
    BY <1>1, LinesInBuffer
  <2>3. len \in Nat
    BY <1>1, LineLenType
  <2>4. LineLen(g, c) = len + 1
    BY <2>1, <2>2 DEF LineLen
  <2> QED BY <2>1, <2>3, <2>4
<1>10. Clamp(g, g.cursor_x + 1) = IF e.cursor_x = len THEN e.cursor_x ELSE e.cursor_x + 1
  <2>1. e.cursor_x <= len
    BY DEF OnLine
  <2> HIDE DEF len, c
  <2> QED BY <1>1, <1>3, <1>9, <2>1 DEF Clamp
<1>11. /\ f.current_line = c
       /\ f.cursor_x = IF e.cursor_x = len THEN e.cursor_x ELSE e.cursor_x + 1
  <2>1. g \in EditorState
    BY <1>2, WindowNumbers
  <2>2. f.current_line = g.current_line /\ f.cursor_x = Clamp(g, g.cursor_x + 1)
    BY <1>6, <2>1 DEF EditorState
  <2> QED BY <1>9, <1>10, <2>2
<1> QED BY <1>2, <1>5, <1>7, <1>8, <1>11 DEF LineBecomes, Keeps

LEMMA DeleteLine ==
    ASSUME NEW e, Good(e), OnChar(e)
    PROVE  /\ Good(ed_del_char(e))
           /\ LineBecomes(e, ed_del_char(e), RemoveAt(TextOf(e, e.current_line), e.cursor_x),
                          e.cursor_x)
<1> DEFINE g == Rewritten(e, -1, RemovedBuffer(e))
           c == e.current_line
<1>1. Layout(e) /\ c \in LinesOf(e)
  BY WindowNumbers DEF Good, LinesOf
<1>2. Good(g) /\ ed_del_char(e) = g
  BY DeleteKeeps, DeleteRewrites
<1>3. /\ Edited(e, g, -1, Position(e)) /\ g.cursor_x = e.cursor_x
      /\ \A p \in 1..Len(g.buffer) :
            g.buffer[p] = IF p <= Position(e) THEN e.buffer[p] ELSE e.buffer[p + 1]
  BY <1>1, DeleteEdits
<1> HIDE DEF g
<1>4. TextOf(g, c) = RemoveAt(TextOf(e, c), e.cursor_x)
  BY <1>1, <1>2, <1>3, DeleteText DEF Good
<1>5. TextLines(g) = [TextLines(e) EXCEPT ![c + 1] = TextOf(g, c)]
  BY <1>1, <1>2, <1>3, LinesEdited DEF Good
<1>6. g.current_line = c
  BY <1>3 DEF Edited
<1> QED BY <1>2, <1>3, <1>4, <1>5, <1>6 DEF LineBecomes
-----------------------------------------------------------------------------
(* The theorems.  Both invariants follow from one inductive invariant.     *)

IInv == Good(ed)

\* The code leaves it to the user to edit where the cursor is on its line and to page
\* only in a file that fills the window.
CarefulUser == Careful = TRUE

LEMMA GoodInit == ASSUME Init PROVE IInv
<1>1. PICK file \in Files, eol \in {1, 2} : Len(Joined(file, eol)) < BufferSize
                                            /\ ed = Loaded(file, eol)
  BY DEF Init
<1>2. file \in Seq(Seq(Chars)) /\ file # <<>>
  BY EditorAssumption
<1>3. eol \in Nat \ {0}
  OBVIOUS
<1>4. Good(Loaded(file, eol))
  BY <1>1, <1>2, <1>3, LoadedGood
<1> QED BY <1>1, <1>4 DEF IInv

\* Moves leave the text alone.
Moves == Up \/ Down \/ Left \/ Right \/ Home \/ PageDown \/ PageUp \/ GotoLine

LEMMA MovesKeep == ASSUME CarefulUser, IInv, Moves PROVE Keeps(ed, ed')
<1>1. Good(ed)
  BY DEF IInv
<1>2. CASE Up
  BY <1>1, <1>2, UpKeeps DEF Up
<1>3. CASE Down
  BY <1>1, <1>3, DownKeeps DEF Down
<1>4. CASE Left
  BY <1>1, <1>4, LeftKeeps DEF Left
<1>5. CASE Right
  BY <1>1, <1>5, RightKeeps DEF Right
<1>6. CASE Home
  BY <1>1, <1>6, HomeKeeps DEF Home
<1>7. CASE PageDown
  <2>1. FillsWindow(ed) /\ ed' = ed_page_down(ed)
    BY <1>7 DEF PageDown, CarefulUser
  <2> QED BY <1>1, <2>1, PageDownKeeps
<1>8. CASE PageUp
  <2>1. Keeps(ed, ed_left(ed))
    BY <1>1, LeftKeeps
  <2>2. FillsWindow(ed) /\ ed' = ed_page_up(ed_left(ed))
    BY <1>8 DEF PageUp, CarefulUser
  <2>3. Good(ed_left(ed)) /\ FillsWindow(ed_left(ed))
    BY <2>1, <2>2 DEF Keeps, SameText, FillsWindow
  <2>4. Keeps(ed_left(ed), ed')
    BY <2>2, <2>3, PageUpKeeps
  <2> QED BY <2>1, <2>4 DEF Keeps, SameText
<1>9. CASE GotoLine
  <2>1. PICK n \in GotoLines : (Careful => n \in 1..ed.num_lines) /\ ed' = ed_goto_line(ed, n)
    BY <1>9 DEF GotoLine
  <2>2. n \in 1..ed.num_lines
    BY <2>1 DEF CarefulUser
  <2> QED BY <1>1, <2>1, <2>2, GotoLineKeeps
<1> QED BY <1>2, <1>3, <1>4, <1>5, <1>6, <1>7, <1>8, <1>9 DEF Moves

\* A full buffer takes no more characters.
LEMMA FullInsert ==
    ASSUME NEW e, ~(Len(e.buffer) < BufferSize), Layout(e), NEW ch
    PROVE  ed_insert_char(e, ch) = e
<1>1. Len(e.buffer) >= BufferSize
  BY LinesInBuffer, EditorAssumption
<1> QED BY <1>1 DEF ed_insert_char

LEMMA GoodNext == ASSUME CarefulUser, IInv, [Next]_ed PROVE IInv'
<1>1. Good(ed)
  BY DEF IInv
<1>2. CASE Moves
  BY <1>2, MovesKeep DEF Keeps, IInv
<1>3. CASE Delete
  <2>1. OnChar(ed) /\ ed' = ed_del_char(ed)
    BY <1>3 DEF Delete, CarefulUser
  <2> QED BY <1>1, <2>1, DeleteLine DEF IInv
<1>4. CASE Backspace
  <2>1. OnChar(ed_left(ed)) /\ ed' = ed_del_char(ed_left(ed))
    BY <1>4 DEF Backspace, CarefulUser
  <2>2. Good(ed_left(ed))
    BY <1>1, LeftKeeps DEF Keeps
  <2> QED BY <2>1, <2>2, DeleteLine DEF IInv
<1>5. CASE Insert
  <2>1. PICK ch \in Chars : OnLine(ed) /\ ed' = ed_insert_char(ed, ch)
    BY <1>5 DEF Insert, CarefulUser
  <2>2. CASE Len(ed.buffer) < BufferSize
    BY <1>1, <2>1, <2>2, InsertLine DEF IInv
  <2>3. CASE ~(Len(ed.buffer) < BufferSize)
    BY <1>1, <2>1, <2>3, FullInsert DEF IInv, Good
  <2> QED BY <2>2, <2>3
<1>6. CASE UNCHANGED ed
  BY <1>1, <1>6 DEF IInv
<1> QED BY <1>2, <1>3, <1>4, <1>5, <1>6 DEF Next, Moves

LEMMA GoodAlways == CarefulUser /\ Spec => []IInv
<1> SUFFICES ASSUME CarefulUser PROVE Spec => []IInv
  OBVIOUS
<1>1. Init => IInv
  BY GoodInit
<1>2. IInv /\ [Next]_ed => IInv'
  BY GoodNext
<1> QED BY <1>1, <1>2, PTL DEF Spec

\* After any keys, typed, deleted, moved and jumped, the index arrays cut the buffer
\* into its lines, one behind the other with nothing between but the line ends.
THEOREM LinesStayLaidOut == CarefulUser /\ Spec => []LinesLaidOut
<1>1. IInv => LinesLaidOut
  <2> SUFFICES ASSUME IInv PROVE LinesLaidOut
    OBVIOUS
  <2>1. Layout(ed) /\ ed.current_line \in LinesOf(ed)
    BY DEF IInv, Good, Window
  <2>2. DOMAIN ed.line_starts = LinesOf(ed) /\ LinesOf(ed) \subseteq Int
    BY <2>1 DEF Layout, Typed, LinesOf
  <2>3. ed.line_starts[0] = 0 /\ Len(ed.buffer) <= BufferSize
    BY <2>1 DEF Layout, Ordered, Filled
  <2>4. ASSUME NEW k \in LinesOf(ed)
        PROVE  /\ ed.line_starts[k] <= ed.line_ends[k]
               /\ k + 1 < ed.num_lines =>
                     /\ ed.line_ends[k] < ed.line_starts[k + 1]
                     /\ \A p \in (ed.line_ends[k] + 1)..ed.line_starts[k + 1] : ed.buffer[p] = "eol"
    <3>1. ed.line_starts[k] <= ed.line_ends[k]
      BY <2>1, LinesInBuffer
    <3>2. ASSUME k + 1 < ed.num_lines PROVE ed.line_ends[k] < ed.line_starts[k + 1]
      <4>1. k + 1 \in LinesOf(ed) /\ k < k + 1
        BY <2>1, <3>2, LinesInBuffer DEF LinesOf
      <4> QED BY <2>1, <4>1, LinesInBuffer
    <3> QED BY <2>1, <3>1, <3>2 DEF Layout, Filled
  <2>5. /\ Len(ed.buffer) = ed.line_ends[ed.num_lines - 1] + 1
        /\ ed.buffer[ed.line_ends[ed.num_lines - 1] + 1] = "eof"
    BY <2>1 DEF Layout, Filled
  <2> QED BY <2>1, <2>2, <2>3, <2>4, <2>5 DEF LinesLaidOut
<1> QED BY <1>1, GoodAlways, PTL

\* The cursor's row shows the line that the keys act on, and lies in the window.
THEOREM CursorStaysOnLine == CarefulUser /\ Spec => []CursorShowsCurrentLine
<1>1. IInv => CursorShowsCurrentLine
  BY DEF IInv, Good, Window, LinesOf, CursorShowsCurrentLine
<1> QED BY <1>1, GoodAlways, PTL

-----------------------------------------------------------------------------
(* The refinement *)

lines == [k \in 1..ed.num_lines |-> LineText(k)]

LEMMA LinesAre == lines = TextLines(ed) /\ lines' = TextLines(ed')
  BY DEF lines, TextLines, TextOf, LineText

LEMMA TextStarts == ASSUME IInv, Init PROVE Text!EInit
<1>1. Layout(ed) /\ ed.num_lines \in Nat \ {0}
  BY DEF IInv, Good, Layout, Typed, EditorState
<1>2. \A k \in 1..ed.num_lines : TextOf(ed, k - 1) \in Seq(Chars)
  <2>1. \A k \in 1..ed.num_lines : k - 1 \in LinesOf(ed)
    BY <1>1 DEF LinesOf
  <2> QED BY <1>1, <2>1, TextOfLine
<1>3. TextLines(ed) \in Seq(Seq(Chars)) /\ TextLines(ed) # <<>>
  BY <1>1, <1>2 DEF TextLines
<1>4. ed.current_line = 0 /\ ed.cursor_x = 0
  BY DEF Init, Loaded
<1>5. lines \in Seq(Seq(Chars)) /\ lines # <<>>
  BY <1>3, LinesAre
<1> QED BY <1>4, <1>5 DEF Text!EInit, lines

LEMMA TextMoves == ASSUME CarefulUser, IInv, Moves PROVE Text!Move
<1>1. Keeps(ed, ed')
  BY MovesKeep
<1>2. lines' = lines
  BY <1>1, SameLines, LinesAre DEF Keeps
<1>3. Len(lines) = ed.num_lines
  BY WindowNumbers DEF lines, IInv
<1>4. ed'.current_line \in 0..(ed.num_lines - 1) /\ ed'.cursor_x \in Nat
  <2>1. ed'.num_lines = ed.num_lines
    BY <1>1 DEF Keeps, SameText
  <2> QED BY <1>1, <2>1, WindowNumbers DEF Keeps
<1> QED BY <1>2, <1>3, <1>4 DEF Text!Move, lines

LEMMA TextDeletes ==
    ASSUME IInv, NEW e, Good(e), OnChar(e), TextLines(e) = TextLines(ed),
           e.current_line = ed.current_line, ed' = ed_del_char(e)
    PROVE  Text!Delete(e.cursor_x)
<1> DEFINE t == TextOf(e, e.current_line)
<1>1. LineBecomes(e, ed', RemoveAt(t, e.cursor_x), e.cursor_x)
  BY DeleteLine
<1>2. lines[ed.current_line + 1] = t /\ e.cursor_x < Len(t)
  BY CurrentText, LinesAre DEF OnChar
<1>3. lines' = [lines EXCEPT ![ed.current_line + 1] = RemoveAt(t, e.cursor_x)]
  BY <1>1, LinesAre DEF LineBecomes
<1>4. ed'.current_line = ed.current_line /\ ed'.cursor_x = e.cursor_x
  BY <1>1 DEF LineBecomes
<1> HIDE DEF t
<1> QED BY <1>2, <1>3, <1>4 DEF Text!Delete, Text!Current, RemoveAt, lines

LEMMA TextTypes ==
    ASSUME IInv, OnLine(ed), NEW ch \in Chars, Len(ed.buffer) < BufferSize,
           ed' = ed_insert_char(ed, ch)
    PROVE  Text!Type(ch)
<1> DEFINE t == TextOf(ed, ed.current_line)
<1>1. Good(ed)
  BY DEF IInv
<1>2. LineBecomes(ed, ed', InsertAt(t, ch, ed.cursor_x),
                  IF ed.cursor_x = LineLen(ed, ed.current_line) THEN ed.cursor_x
                  ELSE ed.cursor_x + 1)
  BY <1>1, InsertLine
<1>3. /\ lines[ed.current_line + 1] = t /\ ed.cursor_x <= Len(t)
      /\ Len(t) = LineLen(ed, ed.current_line)
  BY <1>1, CurrentText, LinesAre DEF OnLine
<1>4. lines' = [lines EXCEPT ![ed.current_line + 1] = InsertAt(t, ch, ed.cursor_x)]
  BY <1>2, LinesAre DEF LineBecomes
<1>5. /\ ed'.current_line = ed.current_line
      /\ ed'.cursor_x = IF ed.cursor_x = Len(t) THEN ed.cursor_x ELSE ed.cursor_x + 1
  BY <1>2, <1>3 DEF LineBecomes
<1> HIDE DEF t
<1> QED BY <1>3, <1>4, <1>5 DEF Text!Type, Text!Current, InsertAt, lines

LEMMA TextNext == ASSUME CarefulUser, IInv, [Next]_ed PROVE [Text!ENext]_(Text!text)
<1>1. Good(ed)
  BY DEF IInv
<1>2. CASE Moves
  BY <1>2, TextMoves DEF Text!ENext
<1>3. CASE Delete
  <2>1. OnChar(ed) /\ ed' = ed_del_char(ed)
    BY <1>3 DEF Delete, CarefulUser
  <2>2. Text!Delete(ed.cursor_x)
    BY <1>1, <2>1, TextDeletes
  <2> QED BY <2>2 DEF Text!ENext
<1>4. CASE Backspace
  <2> DEFINE e == ed_left(ed)
  <2>1. OnChar(e) /\ ed' = ed_del_char(e)
    BY <1>4 DEF Backspace, CarefulUser
  <2>2. Keeps(ed, e)
    BY <1>1, LeftKeeps
  <2>3. e.current_line = ed.current_line /\ e.cursor_x = IF ed.cursor_x = 0 THEN 0 ELSE ed.cursor_x - 1
    BY <1>1, WindowNumbers DEF ed_left, EditorState
  <2> HIDE DEF e
  <2>4. Text!Delete(e.cursor_x)
    BY <2>1, <2>2, <2>3, SameLines, TextDeletes DEF Keeps
  <2> QED BY <2>3, <2>4 DEF Text!ENext
<1>5. CASE Insert
  <2>1. PICK ch \in Chars : OnLine(ed) /\ ed' = ed_insert_char(ed, ch)
    BY <1>5 DEF Insert, CarefulUser
  <2>2. CASE Len(ed.buffer) < BufferSize
    BY <2>1, <2>2, TextTypes DEF Text!ENext
  <2>3. CASE ~(Len(ed.buffer) < BufferSize)
    <3>1. ed' = ed
      BY <1>1, <2>1, <2>3, FullInsert DEF Good
    <3>2. lines' = lines
      BY <3>1, LinesAre
    <3> QED BY <3>1, <3>2 DEF Text!text, lines
  <2> QED BY <2>2, <2>3
<1>6. CASE UNCHANGED ed
  <2>1. lines' = lines
    BY <1>6, LinesAre
  <2> QED BY <1>6, <2>1 DEF Text!text, lines
<1> QED BY <1>2, <1>3, <1>4, <1>5, <1>6 DEF Next, Moves

\* The array of characters with its index arrays is a text of lines: an edit changes the
\* line under the cursor and no other, and nothing else changes any.
THEOREM EditorEditsLines == CarefulUser /\ Spec => ImplementsLineEditor
<1> SUFFICES ASSUME CarefulUser PROVE Spec => ImplementsLineEditor
  OBVIOUS
<1>1. Init => Text!EInit
  BY GoodInit, TextStarts
<1>2. IInv /\ [Next]_ed => [Text!ENext]_(Text!text)
  BY TextNext
<1>3. Spec => []IInv
  BY GoodAlways
<1> QED BY <1>1, <1>2, <1>3, PTL DEF Spec, ImplementsLineEditor, Text!ESpec
=============================================================================
