--------------------------- MODULE ConsoleProofs ----------------------------
(***************************************************************************)
(* Two results about the console, for every font and every framebuffer     *)
(* higher than a line and wider than a glyph, whatever is typed.           *)
(*                                                                         *)
(* The cursor never leaves the screen.  The subtraction in con_scroll() is *)
(* the step that could go wrong: the cursor scrolls once it is less than a *)
(* line above the bottom edge, and moves up by a line.  It is at zero or   *)
(* below the first line then only if it is always a whole number of lines  *)
(* down: that is the strengthening.                                        *)
(*                                                                         *)
(* The screen shows the end of the text, in whole lines.  That needs, of   *)
(* the roll, that no line with ink is in the last line of the screen, and  *)
(* that no line of the roll is below it: the line that scrolling lays bare *)
(* is then blank in the roll as well.                                      *)
(***************************************************************************)
EXTENDS Console, CommonLemmas

\* A cursor on the screen, a whole number of lines down.
OnGrid(k) ==
  /\ DOMAIN k = {"cx", "cy", "px"}
  /\ k.cx \in Nat /\ k.cx < fb.width
  /\ k.cy \in Nat /\ k.cy < fb.height
  /\ \E n \in Nat : k.cy = n * cell_h

CursorInv == fb \in Framebuffers /\ OnGrid(kconsole)

\* Unsigned arithmetic is exact while it stays in range.
LEMMA U32Exact ==
  ASSUME NEW n \in Nat, n <= U32_MAX
  PROVE  U32(n) = n
BY ConsoleAssumption DEF U32

\* The sizes of the framebuffer and the font, from the assumption on the constants.
LEMMA Sizes ==
  ASSUME fb \in Framebuffers
  PROVE  /\ cell_h \in Nat /\ cell_h > 0 /\ x_advance \in Nat /\ x_advance > 0
         /\ fb.width \in Nat /\ x_advance <= fb.width
         /\ fb.height \in Nat /\ cell_h < fb.height
         /\ U32_MAX \in Nat
         /\ fb.height + cell_h <= U32_MAX
         /\ tab_w \in Nat /\ tab_w > 0
         /\ fb.width + tab_w <= U32_MAX
<1>1. /\ cell_h \in Nat /\ cell_h > 0 /\ x_advance \in Nat /\ x_advance > 0
      /\ KCONSOLE_TABSTOP \in Nat /\ KCONSOLE_TABSTOP > 0 /\ U32_MAX \in Nat
  BY ConsoleAssumption
<1>2. /\ fb.width \in Nat /\ x_advance <= fb.width
      /\ fb.height \in Nat /\ cell_h < fb.height
      /\ fb.height + cell_h <= U32_MAX
      /\ fb.width + x_advance * KCONSOLE_TABSTOP <= U32_MAX
  BY ConsoleAssumption
<1>3. x_advance * KCONSOLE_TABSTOP \in Nat /\ x_advance * KCONSOLE_TABSTOP > 0
  BY <1>1
<1> QED
  BY <1>1, <1>2, <1>3 DEF tab_w

\* con_ctrl_newl() from a line that has another below it.
LEMMA NewLineDown ==
  ASSUME fb \in Framebuffers, NEW k, OnGrid(k), k.cy + cell_h < fb.height
  PROVE  OnGrid(con_ctrl_newl(k)) /\ con_ctrl_newl(k).cx = 0
<1>1. U32(k.cy + cell_h) = k.cy + cell_h
  BY Sizes, U32Exact DEF OnGrid
<1>2. con_ctrl_newl(k) = [[k EXCEPT !.cy = k.cy + cell_h] EXCEPT !.cx = 0]
  <2>1. ~(U32(k.cy + cell_h) >= fb.height)
    BY <1>1, Sizes DEF OnGrid
  <2> QED
    BY <1>1, <2>1, Zenon DEF con_ctrl_newl, con_ctrl_carriage_ret
<1>3. PICK n \in Nat : k.cy = n * cell_h
  BY DEF OnGrid
<1>4. k.cy + cell_h = (n + 1) * cell_h
  BY <1>3, Sizes
<1>5. \E m \in Nat : k.cy + cell_h = m * cell_h
  BY <1>4
<1> QED
  BY <1>2, <1>5, Sizes DEF OnGrid

\* MadeRoom() scrolls a cursor that is in the last line.
LEMMA RoomByScroll ==
  ASSUME fb \in Framebuffers, NEW k, OnGrid(k), k.cy >= fb.height - cell_h
  PROVE  /\ MadeRoom(k) = [[k EXCEPT !.px = gop_scroll(@, cell_h), !.cy = k.cy - cell_h]
                             EXCEPT !.cx = 0]
         /\ k.cy >= cell_h
<1>1. U32(fb.height - cell_h) = fb.height - cell_h
  BY Sizes, U32Exact
<1>2. U32(k.cy + cell_h) = k.cy + cell_h
  BY Sizes, U32Exact DEF OnGrid
<1>3. PICK n \in Nat : k.cy = n * cell_h
  BY DEF OnGrid
<1>4. n # 0
  BY <1>3, Sizes
<1>5. n - 1 \in Nat /\ k.cy - cell_h = (n - 1) * cell_h
  BY <1>3, <1>4, Sizes
<1>6. k.cy - cell_h \in Nat
  BY <1>5, Sizes
<1>7. U32(k.cy - cell_h) = k.cy - cell_h
  BY <1>6, Sizes, U32Exact DEF OnGrid
<1>8. k.cy >= U32(fb.height - cell_h) /\ U32(k.cy + cell_h) >= fb.height
  BY <1>1, <1>2, Sizes DEF OnGrid
<1>9. con_scroll(k) = [k EXCEPT !.px = gop_scroll(@, cell_h), !.cy = k.cy - cell_h]
  BY <1>7, Zenon DEF con_scroll
<1>10. k.cy >= cell_h
  BY <1>6, Sizes DEF OnGrid
<1> QED BY <1>8, <1>9, <1>10, Zenon DEF MadeRoom, con_ctrl_newl, con_ctrl_carriage_ret

\* After the test at the top of the loop of kcon_write() there is a line below.
LEMMA RoomBelow ==
  ASSUME fb \in Framebuffers, NEW k, OnGrid(k)
  PROVE  OnGrid(MadeRoom(k)) /\ MadeRoom(k).cy + cell_h < fb.height
<1>1. U32(fb.height - cell_h) = fb.height - cell_h
  BY Sizes, U32Exact
<1>2. CASE k.cy < fb.height - cell_h
  <2>1. MadeRoom(k) = k
    BY <1>1, <1>2, Sizes DEF MadeRoom, OnGrid
  <2> QED
    BY <2>1, <1>2, Sizes DEF OnGrid
<1>3. CASE k.cy >= fb.height - cell_h
  <2>1. /\ MadeRoom(k) = [[k EXCEPT !.px = gop_scroll(@, cell_h), !.cy = k.cy - cell_h]
                             EXCEPT !.cx = 0]
        /\ k.cy >= cell_h
    BY <1>3, RoomByScroll
  <2>2. PICK n \in Nat : k.cy = n * cell_h
    BY DEF OnGrid
  <2>3. n # 0
    BY <2>1, <2>2, Sizes
  <2>4. n - 1 \in Nat /\ k.cy - cell_h = (n - 1) * cell_h
    BY <2>2, <2>3, Sizes
  <2>5. k.cy - cell_h \in Nat
    BY <2>4, Sizes
  <2>6. \E m \in Nat : k.cy - cell_h = m * cell_h
    BY <2>4
  <2> QED
    BY <2>1, <2>5, <2>6, Sizes DEF OnGrid
<1> QED
  BY <1>2, <1>3, Sizes DEF OnGrid

\* Moving right, or to the next line.
LEMMA WrapKeeps ==
  ASSUME fb \in Framebuffers, NEW k, OnGrid(k), k.cy + cell_h < fb.height,
         NEW x \in Nat, x <= U32_MAX
  PROVE  OnGrid(WrapAt(k, x))
<1>1. CASE x >= fb.width
  BY <1>1, U32Exact, NewLineDown DEF WrapAt
<1>2. CASE x < fb.width
  <2>1. WrapAt(k, x) = [k EXCEPT !.cx = x]
    BY <1>2, U32Exact, Sizes DEF WrapAt
  <2> QED
    BY <1>2, <2>1 DEF OnGrid
<1> QED
  BY <1>1, <1>2, Sizes

\* Drawing and filling leave the cursor alone.
LEMMA InkKeeps ==
  ASSUME NEW k, OnGrid(k), NEW c
  PROVE  /\ OnGrid(con_draw_glyph(k, c))
         /\ con_draw_glyph(k, c).cx = k.cx /\ con_draw_glyph(k, c).cy = k.cy
         /\ OnGrid(con_fill_glyph(k))
<1>1. \A p : LET q == [k EXCEPT !.px = p] IN OnGrid(q) /\ q.cx = k.cx /\ q.cy = k.cy
  BY DEF OnGrid
<1> QED
  BY <1>1 DEF con_draw_glyph, con_fill_glyph

\* Backspace, to the left or to the end of the line above.
LEMMA BackspaceKeeps ==
  ASSUME fb \in Framebuffers, NEW k, OnGrid(k)
  PROVE  OnGrid(con_ctrl_backspace(k))
<1>1. CASE k.cx >= x_advance
  <2>1. OnGrid([k EXCEPT !.cx = k.cx - x_advance])
    BY <1>1, Sizes DEF OnGrid
  <2> QED
    BY <1>1, <2>1, InkKeeps DEF con_ctrl_backspace
<1>2. CASE ~(k.cx >= x_advance) /\ k.cy >= cell_h
  <2> DEFINE q == [k EXCEPT !.cx = fb.width - x_advance, !.cy = k.cy - cell_h]
  <2>1. PICK n \in Nat : k.cy = n * cell_h
    BY DEF OnGrid
  <2>2. n - 1 \in Nat /\ k.cy - cell_h = (n - 1) * cell_h
    BY <1>2, <2>1, Sizes
  <2>3. \E m \in Nat : k.cy - cell_h = m * cell_h
    BY <2>2
  <2>4. OnGrid(q)
    BY <1>2, <2>3, Sizes DEF OnGrid
  <2> QED
    BY <1>2, <2>4, InkKeeps DEF con_ctrl_backspace
<1>3. CASE ~(k.cx >= x_advance) /\ ~(k.cy >= cell_h)
  BY <1>3 DEF con_ctrl_backspace
<1> QED
  BY <1>1, <1>2, <1>3

\* Every control character keeps the cursor on the screen.
LEMMA ControlKeeps ==
  ASSUME fb \in Framebuffers, NEW k, OnGrid(k), k.cy + cell_h < fb.height, NEW c \in Control
  PROVE  OnGrid(con_ascii_ctrl(k, c))
<1>1. CASE c = "CR"
  BY <1>1, Sizes DEF con_ascii_ctrl, con_ctrl_carriage_ret, OnGrid
<1>2. CASE c = "LF"
  BY <1>2, NewLineDown DEF con_ascii_ctrl
<1>3. CASE c = "TAB"
  <2>1. k.cx % tab_w \in 0 .. tab_w - 1
    BY Sizes DEF OnGrid
  <2>2. k.cx + tab_w - (k.cx % tab_w) \in Nat /\ k.cx + tab_w - (k.cx % tab_w) <= U32_MAX
    BY <2>1, Sizes DEF OnGrid
  <2> QED
    BY <1>3, <2>2, WrapKeeps DEF con_ascii_ctrl, con_ctrl_tab
<1>4. CASE c = "BS"
  BY <1>4, BackspaceKeeps DEF con_ascii_ctrl
<1>5. CASE c = "BEL"
  BY <1>5 DEF con_ascii_ctrl
<1> QED
  BY <1>1, <1>2, <1>3, <1>4, <1>5 DEF Control

\* One character of kcon_write() keeps the cursor on the screen.
LEMMA WriteKeeps ==
  ASSUME CursorInv, NEW c \in Chars, kcon_write(c)
  PROVE  CursorInv'
<1> DEFINE k == MadeRoom(kconsole)
<1>1. fb \in Framebuffers /\ OnGrid(k) /\ k.cy + cell_h < fb.height
  BY RoomBelow DEF CursorInv
<1>2. CASE c \in Control
  <2>1. kconsole' = con_ascii_ctrl(k, c) /\ fb' = fb
    BY <1>2 DEF kcon_write, Written
  <2>2. OnGrid(con_ascii_ctrl(k, c))
    BY <1>1, <1>2, ControlKeeps
  <2> QED
    BY <1>1, <2>1, <2>2 DEF CursorInv, OnGrid
<1>3. CASE c \notin Control
  <2> DEFINE d == con_draw_glyph(k, c)
  <2>1. kconsole' = WrapAt(d, k.cx + x_advance) /\ fb' = fb
    BY <1>3 DEF kcon_write, Written
  <2>2. OnGrid(d) /\ d.cy + cell_h < fb.height
    BY <1>1, InkKeeps
  <2>3. k.cx + x_advance \in Nat /\ k.cx + x_advance <= U32_MAX
    <3>1. x_advance <= tab_w
      BY ConsoleAssumption DEF tab_w
    <3> QED
      BY <1>1, <3>1, Sizes DEF OnGrid
  <2>4. OnGrid(WrapAt(d, k.cx + x_advance))
    BY <1>1, <2>2, <2>3, WrapKeeps
  <2> QED
    BY <1>1, <2>1, <2>4 DEF CursorInv, OnGrid
<1> QED
  BY <1>2, <1>3

LEMMA InitCursor == Init => CursorInv
<1> SUFFICES ASSUME Init PROVE CursorInv
  OBVIOUS
<1>1. fb \in Framebuffers /\ kconsole.cx = 0 /\ kconsole.cy = 0
  BY DEF Init, fbcon_display_init
<1>2. DOMAIN kconsole = {"cx", "cy", "px"}
  BY DEF Init
<1>3. 0 \in Nat /\ 0 = 0 * cell_h
  BY <1>1, Sizes
<1> QED
  BY <1>1, <1>2, <1>3, Sizes DEF CursorInv, OnGrid

\* The cursor of kcon_write() is on the screen between any two characters,
\* and always at the start of a line.
THEOREM CursorStays == Spec => []CursorInv
<1>1. Init => CursorInv
  BY InitCursor
<1>2. CursorInv /\ [Next]_vars => CursorInv'
  <2> SUFFICES ASSUME CursorInv, [Next]_vars PROVE CursorInv'
    OBVIOUS
  <2>1. CASE \E c \in Chars : kcon_write(c)
    BY <2>1, WriteKeeps
  <2>2. CASE kcon_clear
    <3>1. fb' = fb /\ kconsole'.cx = 0 /\ kconsole'.cy = 0 /\ DOMAIN kconsole' = {"cx", "cy", "px"}
      BY <2>2 DEF kcon_clear
    <3>2. 0 \in Nat /\ 0 = 0 * cell_h /\ fb \in Framebuffers
      BY Sizes DEF CursorInv
    <3> QED
      BY <3>1, <3>2, Sizes DEF CursorInv, OnGrid
  <2>3. CASE UNCHANGED vars
    BY <2>3 DEF vars, CursorInv, OnGrid
  <2> QED
    BY <2>1, <2>2, <2>3 DEF Next
<1> QED
  BY <1>1, <1>2, PTL DEF Spec

\* The unsigned cursor never leaves the screen, whatever is printed.
THEOREM Onscreen == Spec => []CursorInside
<1>1. CursorInv => CursorInside
  BY DEF CursorInv, OnGrid, CursorInside
<1> QED
  BY <1>1, CursorStays, PTL

-----------------------------------------------------------------------------
(***************************************************************************)
(* The second result: the screen shows the end of the text.                *)
(*                                                                         *)
(* The loops over pixel rows are folds, which FoldShift and FoldMarks of   *)
(* CommonLemmas put in closed form.                                        *)
(***************************************************************************)
\* memmove() copies from below: no row is overwritten before it is read.
LEMMA MoveUp ==
  ASSUME fb.height \in Nat, NEW n \in Nat \ {0}, n <= fb.height,
         NEW px, px = [r \in Rows |-> px[r]]
  PROVE  memmove(px, n) = [r \in Rows |-> IF r < fb.height - n THEN px[r + n] ELSE px[r]]
<1>1. memmove(px, n) = Shift(px, n, fb.height)
  BY Zenon DEF memmove, Shift, FoldLeft, MapThenFoldSet
<1>2. OnRows(px, fb.height)
  BY DEF OnRows, Rows
<1>3. Shift(px, n, fb.height) = Shifted(px, n, fb.height)
  BY <1>2, FoldShift
<1> QED BY <1>1, <1>3 DEF Rows, Shifted

\* The loop over the rows of a glyph puts each below the one before.
LEMMA Drawn ==
  ASSUME fb \in Framebuffers, NEW k, OnGrid(k), k.px = [r \in Rows |-> k.px[r]], NEW c \in Glyphs
  PROVE  con_draw_glyph(k, c) =
           [k EXCEPT !.px = [r \in Rows |->
              IF r \in k.cy .. k.cy + cell_h - 1
              THEN k.px[r] \cup {[x |-> k.cx, ch |-> c, row |-> r - k.cy]} ELSE k.px[r]]]
<1> DEFINE px == Marked(k.px, k.cx, k.cy, c, cell_h, fb.height, fb.width)
<1>1. fb.height \in Nat /\ cell_h \in Nat /\ k.cy \in Nat /\ k.cx \in 0 .. fb.width - 1
  BY Sizes DEF OnGrid
<1>2. con_draw_glyph(k, c) = [k EXCEPT !.px = px]
  <2>1. OnRows(k.px, fb.height)
    BY DEF OnRows, Rows
  <2>2. AddMarks(k.px, k.cx, k.cy, c, cell_h, fb.height, fb.width) = px
    BY <1>1, <2>1, FoldMarks
  <2> HIDE DEF px
  <2>3. con_draw_glyph(k, c) =
          [k EXCEPT !.px = AddMarks(k.px, k.cx, k.cy, c, cell_h, fb.height, fb.width)]
    BY Zenon DEF con_draw_glyph, gop_blit, Rows, AddMarks, FoldLeft, MapThenFoldSet
  <2> QED BY <2>2, <2>3, Zenon
<1>3. px = [r \in Rows |-> IF r \in k.cy .. k.cy + cell_h - 1
              THEN k.px[r] \cup {[x |-> k.cx, ch |-> c, row |-> r - k.cy]} ELSE k.px[r]]
  BY <1>1 DEF Marked, Rows
<1> HIDE DEF px
<1> QED BY <1>2, <1>3, Zenon

\* gop_scroll() by n rows.
LEMMA Scrolled ==
  ASSUME fb \in Framebuffers, NEW px, px = [r \in Rows |-> px[r]]
  PROVE  gop_scroll(px, cell_h) =
           [r \in Rows |-> IF r < fb.height - cell_h THEN px[r + cell_h] ELSE {}]
<1>1. memmove(px, cell_h) = [r \in Rows |-> IF r < fb.height - cell_h THEN px[r + cell_h] ELSE px[r]]
  BY Sizes, MoveUp
<1> QED BY <1>1 DEF gop_scroll, memset

\* A row of a line of the roll, as ink.
Ink(rl, n, i) ==
  IF n \in DOMAIN rl THEN {[x |-> g.x, ch |-> g.ch, row |-> i] : g \in rl[n]} ELSE {}

\* The screen shows the roll from line o on.
Shows(px, rl, o) ==
  \A q \in Nat, i \in 0 .. cell_h - 1 :
    q * cell_h + i < fb.height => px[q * cell_h + i] = Ink(rl, o + q, i)

Marks == [x : Nat, ch : Glyphs]

\* The cursor is in line ln of the roll and line m of the screen.
Paper(k, rl, ln, m) ==
  /\ k.px = [r \in Rows |-> k.px[r]]
  /\ k.cy = m * cell_h
  /\ rl \in Seq(SUBSET Marks) /\ Len(rl) <= RollLines
  /\ ln \in 1 .. Len(rl) /\ m < ln
  /\ (Len(rl) - ln + m) * cell_h < fb.height
  /\ \A n \in 1 .. Len(rl) : rl[n] # {} => (n - ln + m + 1) * cell_h < fb.height
  /\ Shows(k.px, rl, ln - m)

\* The paper is at least as long as a screen is high.
RollSuffices == \A f \in Framebuffers : f.height <= RollLines * cell_h

\* Scrolling loses only what is above the screen: the lowest line is blank.
LEMMA RoomPaper ==
  ASSUME fb \in Framebuffers, NEW k, OnGrid(k), NEW rl, NEW ln, NEW m \in Nat, Paper(k, rl, ln, m),
         k.cy + cell_h >= fb.height => k.cx = 0
  PROVE  /\ MadeRoom(k).cx = k.cx
         /\ \E j \in Nat : Paper(MadeRoom(k), rl, ln, j)
<1> DEFINE h == cell_h
           H == fb.height
<1>1. h \in Nat /\ h > 0 /\ H \in Nat /\ h < H /\ k.cy \in Nat
  BY Sizes DEF OnGrid
<1>2. CASE k.cy < H - h
  <2>1. MadeRoom(k) = k
    BY <1>1, <1>2, U32Exact, Sizes DEF MadeRoom
  <2> QED BY <2>1
<1>3. CASE k.cy >= H - h
  <2> DEFINE px == k.px
             qx == [r \in Rows |-> IF r < H - h THEN px[r + h] ELSE {}]
  <2>1. /\ MadeRoom(k) = [[k EXCEPT !.px = gop_scroll(@, cell_h), !.cy = k.cy - cell_h]
                             EXCEPT !.cx = 0]
        /\ k.cy >= h
    BY <1>3, RoomByScroll
  <2>2. gop_scroll(px, h) = qx
    BY Scrolled DEF Paper
  <2>3. /\ MadeRoom(k).cx = 0 /\ MadeRoom(k).cy = k.cy - h /\ MadeRoom(k).px = qx
    BY <2>1, <2>2 DEF OnGrid
  <2>4. m # 0 /\ m - 1 \in Nat /\ k.cy - h = (m - 1) * h
    BY <1>1, <2>1 DEF Paper
  <2>5. /\ ln \in Nat /\ Len(rl) \in Nat /\ ln \in 1 .. Len(rl) /\ m < ln
        /\ DOMAIN rl = 1 .. Len(rl)
    BY DEF Paper
  <2>6. (Len(rl) - ln + (m - 1)) * h < H
    <3> DEFINE a == Len(rl) - ln + m
    <3>1. a \in Int /\ a * h < H
      BY <2>5 DEF Paper
    <3>2. (a - 1) * h < H
      BY <3>1, <1>1
    <3>3. Len(rl) - ln + (m - 1) = a - 1
      BY <2>5
    <3> QED BY <3>2, <3>3
  <2>7. ASSUME NEW n \in 1 .. Len(rl), rl[n] # {}
        PROVE  (n - ln + (m - 1) + 1) * h < H
    <3> DEFINE a == n - ln + m + 1
    <3>1. a \in Int /\ a * h < H
      BY <2>5, <2>7 DEF Paper
    <3>2. (a - 1) * h < H
      BY <3>1, <1>1
    <3>3. n - ln + (m - 1) + 1 = a - 1
      BY <2>5
    <3> QED BY <3>2, <3>3
  <2>8. ASSUME NEW q \in Nat, NEW i \in 0 .. h - 1, q * h + i < H
        PROVE  qx[q * h + i] = Ink(rl, ln - (m - 1) + q, i)
    <3> DEFINE r == q * h + i
               n == ln - (m - 1) + q
    <3>1. r \in Rows /\ n \in Int /\ r \in Nat
      <4>1. q * h \in Nat
        BY <1>1
      <4> QED BY <4>1, <1>1, <2>5, <2>8 DEF Rows
    <3>2. CASE r < H - h
      <4>1. r + h = (q + 1) * h + i /\ q + 1 \in Nat /\ (q + 1) * h + i < H
        BY <1>1, <3>2
      <4>2. px[(q + 1) * h + i] = Ink(rl, (ln - m) + (q + 1), i)
        BY <4>1 DEF Paper, Shows
      <4>3. (ln - m) + (q + 1) = n
        BY <2>5
      <4> QED BY <4>1, <4>2, <4>3, <3>1, <3>2
    <3>3. CASE ~(r < H - h)
      <4>1. (q + 2) * h >= H
        BY <1>1, <3>1, <3>3
      <4>2. n - ln + m + 1 = q + 2
        BY <2>5
      <4>3. n \in 1 .. Len(rl) => rl[n] = {}
        <5>1. \A j \in 1 .. Len(rl) : rl[j] # {} => (j - ln + m + 1) * h < H
          BY DEF Paper
        <5> HIDE DEF n
        <5>2. n \in 1 .. Len(rl) /\ rl[n] # {} => (q + 2) * h < H
          BY <5>1, <4>2
        <5>3. (q + 2) * h \in Nat
          BY <1>1
        <5> QED BY <5>2, <5>3, <4>1, <1>1
      <4>4. Ink(rl, n, i) = {}
        BY <4>3, <2>5 DEF Ink
      <4>5. qx[r] = {}
        BY <3>1, <3>3
      <4> QED BY <4>4, <4>5
    <3> QED BY <3>2, <3>3
  <2>9. qx = [r \in Rows |-> qx[r]]
    OBVIOUS
  <2> HIDE DEF qx
  <2>10. Paper(MadeRoom(k), rl, ln, m - 1)
    <3>1. Shows(qx, rl, ln - (m - 1))
      BY <2>8 DEF Shows
    <3>2. rl \in Seq(SUBSET Marks) /\ Len(rl) <= RollLines /\ m - 1 < ln
      BY <2>5 DEF Paper
    <3> QED BY <2>3, <2>4, <2>5, <2>6, <2>7, <2>9, <3>1, <3>2, Zenon DEF Paper
  <2>11. k.cx = 0
    BY <1>1, <1>3
  <2> QED BY <2>3, <2>4, <2>10, <2>11
<1> QED BY <1>1, <1>2, <1>3

\* Paper does not know the column of the cursor.
LEMMA SamePaper ==
  ASSUME NEW k, NEW j, NEW rl, NEW ln, NEW m, Paper(k, rl, ln, m), j.px = k.px, j.cy = k.cy
  PROVE  Paper(j, rl, ln, m)
BY DEF Paper

\* A line is appended, or takes the place of the oldest.
LEMMA Appended ==
  ASSUME NEW S, NEW rl \in Seq(S), NEW e \in S
  PROVE  /\ Append(rl, e) \in Seq(S) /\ Len(Append(rl, e)) = Len(rl) + 1
         /\ \A j \in 1 .. Len(rl) : Append(rl, e)[j] = rl[j]
         /\ Append(rl, e)[Len(rl) + 1] = e
OBVIOUS

LEMMA Forgotten ==
  ASSUME NEW S, NEW rl \in Seq(S), NEW e \in S, rl # <<>>
  PROVE  /\ Append(Tail(rl), e) \in Seq(S) /\ Len(Append(Tail(rl), e)) = Len(rl)
         /\ \A j \in 1 .. Len(rl) - 1 : Append(Tail(rl), e)[j] = rl[j + 1]
         /\ Append(Tail(rl), e)[Len(rl)] = e
<1> DEFINE t == Tail(rl)
<1>1. t \in Seq(S) /\ Len(t) = Len(rl) - 1 /\ \A j \in 1 .. Len(rl) - 1 : t[j] = rl[j + 1]
  OBVIOUS
<1>2. Len(rl) \in Nat
  OBVIOUS
<1> HIDE DEF t
<1>3. /\ Append(t, e) \in Seq(S) /\ Len(Append(t, e)) = Len(t) + 1
      /\ \A j \in 1 .. Len(t) : Append(t, e)[j] = t[j]
      /\ Append(t, e)[Len(t) + 1] = e
  BY <1>1, Appended
<1>4. Len(t) + 1 = Len(rl)
  BY <1>1, <1>2
<1> QED BY <1>1, <1>3, <1>4, <1>2 DEF t

\* The cursor moves to the next line of the screen, and of the roll.
LEMMA FeedPaper ==
  ASSUME fb \in Framebuffers, RollSuffices, NEW k, OnGrid(k), k.cy + cell_h < fb.height,
         NEW rl, NEW ln, NEW m \in Nat, Paper(k, rl, ln, m)
  PROVE  Paper(con_ctrl_newl(k), LineFeed(rl, ln).roll, LineFeed(rl, ln).line, m + 1)
<1> DEFINE h == cell_h
           H == fb.height
           d == con_ctrl_newl(k)
           N == Len(rl)
<1>1. h \in Nat /\ h > 0 /\ H \in Nat /\ h < H /\ k.cy \in Nat /\ H <= RollLines * h
  BY Sizes DEF OnGrid, RollSuffices
<1>2. d.px = k.px /\ d.cy = k.cy + h
  <2>1. U32(k.cy + h) = k.cy + h /\ ~(k.cy + h >= H)
    BY <1>1, U32Exact, Sizes
  <2>2. d = [[k EXCEPT !.cy = k.cy + h] EXCEPT !.cx = 0]
    BY <2>1, Zenon DEF con_ctrl_newl, con_ctrl_carriage_ret
  <2> QED BY <2>2 DEF OnGrid
<1>3. /\ rl \in Seq(SUBSET Marks) /\ N \in Nat /\ ln \in 1 .. N /\ m < ln /\ N <= RollLines
      /\ DOMAIN rl = 1 .. N /\ RollLines \in Nat
  BY ConsoleAssumption DEF Paper
<1>4. k.cy = m * h /\ d.cy = (m + 1) * h /\ (m + 1) * h < H
  <2>1. k.cy = m * h
    BY DEF Paper
  <2>2. (m + 1) * h = m * h + h
    BY <1>1
  <2> QED BY <2>1, <2>2, <1>2
<1>5. /\ d.px = [r \in Rows |-> d.px[r]]
      /\ (N - ln + m) * h < H
      /\ \A n \in 1 .. N : rl[n] # {} => (n - ln + m + 1) * h < H
      /\ Shows(d.px, rl, ln - m)
  <2> HIDE DEF d
  <2> QED BY <1>2 DEF Paper
<1> HIDE DEF d, N
<1>6. CASE ln < N
  <2>1. LineFeed(rl, ln) = [roll |-> rl, line |-> ln + 1]
    BY <1>6 DEF LineFeed, N
  <2>2. ln + 1 \in 1 .. N /\ m + 1 < ln + 1
    BY <1>3, <1>6
  <2>3. /\ (ln + 1) - (m + 1) = ln - m /\ N - (ln + 1) + (m + 1) = N - ln + m
        /\ \A n \in 1 .. N : n - (ln + 1) + (m + 1) + 1 = n - ln + m + 1
    BY <1>3
  <2>4. Shows(d.px, rl, (ln + 1) - (m + 1))
    BY <2>3, <1>5
  <2>5. (N - (ln + 1) + (m + 1)) * h < H
    BY <2>3, <1>5
  <2>6. \A n \in 1 .. N : rl[n] # {} => (n - (ln + 1) + (m + 1) + 1) * h < H
    BY <2>3, <1>5
  <2>7. Paper(d, rl, ln + 1, m + 1)
    <3>1. /\ d.px = [r \in Rows |-> d.px[r]] /\ d.cy = (m + 1) * h
          /\ rl \in Seq(SUBSET Marks) /\ N <= RollLines
      BY <1>3, <1>4, <1>5
    <3> QED BY <3>1, <2>2, <2>4, <2>5, <2>6, Zenon DEF Paper, N
  <2> QED BY <2>1, <2>7 DEF d
<1>7. CASE ln = N /\ N < RollLines
  <2> DEFINE al == Append(rl, {})
  <2>1. LineFeed(rl, ln) = [roll |-> al, line |-> ln + 1]
    BY <1>7, <1>3 DEF LineFeed, N
  <2>2. /\ al \in Seq(SUBSET Marks) /\ Len(al) = N + 1
        /\ \A j \in 1 .. N : al[j] = rl[j]
        /\ al[N + 1] = {}
    BY <1>3, Appended DEF N
  <2> HIDE DEF al
  <2>3. DOMAIN al = 1 .. N + 1
    BY <2>2
  <2>4. /\ ln + 1 \in 1 .. Len(al) /\ m + 1 < ln + 1 /\ Len(al) <= RollLines
        /\ Len(al) - (ln + 1) + (m + 1) = m + 1
        /\ (ln + 1) - (m + 1) = ln - m
    BY <1>3, <1>7, <2>2
  <2>5. ASSUME NEW q \in Nat, NEW i \in 0 .. h - 1
        PROVE  Ink(al, ln - m + q, i) = Ink(rl, ln - m + q, i)
    <3> DEFINE n == ln - m + q
    <3>1. n \in Int
      BY <1>3
    <3> HIDE DEF n
    <3>2. CASE n \in 1 .. N
      <4>1. n \in 1 .. N + 1 /\ al[n] = rl[n]
        BY <3>2, <2>2, <1>3
      <4> QED BY <4>1, <3>2, <2>3, <1>3 DEF Ink, n
    <3>3. CASE n = N + 1
      <4>1. n \in DOMAIN al /\ n \notin DOMAIN rl /\ al[n] = {}
        BY <3>3, <2>2, <2>3, <1>3
      <4> QED BY <4>1 DEF Ink, n
    <3>4. CASE n \notin 1 .. N + 1
      <4>1. n \notin 1 .. N
        BY <3>4, <1>3
      <4> QED BY <4>1, <3>4, <2>3, <1>3 DEF Ink, n
    <3> QED BY <3>1, <3>2, <3>3, <3>4, <1>3
  <2>6. Shows(d.px, al, (ln + 1) - (m + 1))
    BY <2>4, <2>5, <1>5 DEF Shows
  <2>7. ASSUME NEW n \in 1 .. Len(al), al[n] # {}
        PROVE  (n - (ln + 1) + (m + 1) + 1) * h < H
    <3>1. n \in 1 .. N /\ rl[n] # {}
      BY <2>7, <2>2, <1>3
    <3>2. n - (ln + 1) + (m + 1) + 1 = n - ln + m + 1
      BY <1>3
    <3> QED BY <3>1, <3>2, <1>5
  <2>8. (Len(al) - (ln + 1) + (m + 1)) * h < H
    BY <2>4, <1>4
  <2>9. Paper(d, al, ln + 1, m + 1)
    <3>1. /\ d.px = [r \in Rows |-> d.px[r]] /\ d.cy = (m + 1) * h
          /\ al \in Seq(SUBSET Marks) /\ Len(al) <= RollLines
          /\ ln + 1 \in 1 .. Len(al) /\ m + 1 < ln + 1
      BY <2>2, <2>4, <1>4, <1>5
    <3> QED BY <3>1, <2>6, <2>7, <2>8, Zenon DEF Paper
  <2> QED BY <2>1, <2>9 DEF d
<1>8. CASE ln = N /\ N = RollLines
  <2> DEFINE al == Append(Tail(rl), {})
  <2>1. LineFeed(rl, ln) = [roll |-> al, line |-> ln]
    BY <1>8, <1>3 DEF LineFeed, N
  <2>2. /\ al \in Seq(SUBSET Marks) /\ Len(al) = N
        /\ \A j \in 1 .. N - 1 : al[j] = rl[j + 1]
        /\ al[N] = {}
    BY <1>3, Forgotten DEF N
  <2> HIDE DEF al
  <2>3. DOMAIN al = 1 .. N
    BY <2>2
  <2>4. m + 1 < ln
    <3> SUFFICES ASSUME ln <= m + 1 PROVE FALSE
      BY <1>3
    <3>1. ln * h <= (m + 1) * h
      BY <1>1, <1>3, MulMono
    <3>2. ln * h \in Nat /\ (m + 1) * h \in Nat
      BY <1>1, <1>3
    <3> QED BY <3>1, <3>2, <1>1, <1>4, <1>8
  <2>5. ASSUME NEW q \in Nat, NEW i \in 0 .. h - 1
        PROVE  Ink(al, ln - (m + 1) + q, i) = Ink(rl, ln - m + q, i)
    <3> DEFINE n == ln - (m + 1) + q
    <3>1. n \in Int /\ n >= 1 /\ ln - m + q = n + 1
      BY <1>3, <2>4
    <3> HIDE DEF n
    <3>2. CASE n \in 1 .. N - 1
      <4>1. n \in 1 .. N /\ n + 1 \in 1 .. N /\ al[n] = rl[n + 1]
        BY <3>2, <2>2, <1>3
      <4> QED BY <4>1, <3>1, <2>3, <1>3 DEF Ink, n
    <3>3. CASE n = N
      <4>1. n \in DOMAIN al /\ n + 1 \notin DOMAIN rl /\ al[n] = {}
        BY <3>1, <3>3, <2>2, <2>3, <1>3
      <4> QED BY <4>1, <3>1 DEF Ink, n
    <3>4. CASE n > N
      <4>1. n \notin 1 .. N /\ n + 1 \notin 1 .. N
        BY <3>1, <3>4, <1>3
      <4> QED BY <4>1, <3>1, <2>3, <1>3 DEF Ink, n
    <3> QED BY <3>1, <3>2, <3>3, <3>4, <1>3
  <2>6. Shows(d.px, al, ln - (m + 1))
    BY <2>5, <1>5 DEF Shows
  <2>7. ASSUME NEW n \in 1 .. Len(al), al[n] # {}
        PROVE  (n - ln + (m + 1) + 1) * h < H
    <3>1. n + 1 \in 1 .. N /\ rl[n + 1] # {}
      BY <2>7, <2>2, <1>3
    <3>2. n - ln + (m + 1) + 1 = (n + 1) - ln + m + 1
      BY <1>3
    <3> QED BY <3>1, <3>2, <1>5
  <2>8. /\ (Len(al) - ln + (m + 1)) * h < H
        /\ ln \in 1 .. Len(al) /\ Len(al) <= RollLines
    <3>1. Len(al) - ln + (m + 1) = m + 1
      BY <2>2, <1>3, <1>8
    <3> QED BY <3>1, <1>3, <1>4, <1>8, <2>2
  <2>9. Paper(d, al, ln, m + 1)
    BY <1>4, <1>5, <2>2, <2>4, <2>6, <2>7, <2>8, Zenon DEF Paper
  <2> QED BY <2>1, <2>9 DEF d
<1> QED BY <1>3, <1>6, <1>7, <1>8

\* A glyph appears on the screen and in the roll.
LEMMA TypePaper ==
  ASSUME fb \in Framebuffers, NEW k, OnGrid(k), k.cy + cell_h < fb.height, NEW c \in Glyphs,
         NEW rl, NEW ln, NEW m \in Nat, Paper(k, rl, ln, m)
  PROVE  Paper(con_draw_glyph(k, c), [rl EXCEPT ![ln] = @ \cup {[x |-> k.cx, ch |-> c]}], ln, m)
<1> DEFINE h == cell_h
           H == fb.height
           px == k.px
           g == [x |-> k.cx, ch |-> c]
           d == con_draw_glyph(k, c)
           al == [rl EXCEPT ![ln] = @ \cup {g}]
<1>1. h \in Nat /\ h > 0 /\ H \in Nat /\ h < H /\ k.cy \in Nat /\ k.cx \in Nat
  BY Sizes DEF OnGrid
<1>2. /\ rl \in Seq(SUBSET Marks) /\ Len(rl) \in Nat /\ ln \in 1 .. Len(rl) /\ m < ln
      /\ DOMAIN rl = 1 .. Len(rl) /\ k.cy = m * h /\ (m + 1) * h < H
  <2>1. k.cy = m * h
    BY DEF Paper
  <2>2. (m + 1) * h = m * h + h
    BY <1>1
  <2> QED BY <2>1, <2>2 DEF Paper
<1>3. /\ d.cy = k.cy
      /\ d.px = [r \in Rows |-> IF r \in k.cy .. k.cy + h - 1
                   THEN px[r] \cup {[x |-> k.cx, ch |-> c, row |-> r - k.cy]} ELSE px[r]]
  <2>1. px = [r \in Rows |-> px[r]]
    BY DEF Paper
  <2> DEFINE qx == [r \in Rows |-> IF r \in k.cy .. k.cy + h - 1
                     THEN px[r] \cup {[x |-> k.cx, ch |-> c, row |-> r - k.cy]} ELSE px[r]]
  <2>2. d = [k EXCEPT !.px = qx]
    BY <2>1, Drawn, Zenon
  <2> HIDE DEF qx, d
  <2>3. d.cy = k.cy /\ d.px = qx
    BY <2>2 DEF OnGrid
  <2> QED BY <2>3 DEF qx
<1>4. g \in Marks
  BY <1>1 DEF Marks
<1> HIDE DEF g, d
<1>5. /\ al \in Seq(SUBSET Marks) /\ Len(al) = Len(rl) /\ DOMAIN al = 1 .. Len(rl)
      /\ al[ln] = rl[ln] \cup {g} /\ \A n \in 1 .. Len(rl) : n # ln => al[n] = rl[n]
  <2>1. rl[ln] \cup {g} \in SUBSET Marks
    BY <1>2, <1>4
  <2> QED BY <2>1, <1>2
<1> HIDE DEF al
<1>6. ASSUME NEW n \in 1 .. Len(al), al[n] # {}
      PROVE  (n - ln + m + 1) * h < H
  <2>1. CASE n = ln
    <3>1. n - ln + m + 1 = m + 1
      BY <2>1, <1>2
    <3> QED BY <3>1, <1>2
  <2>2. CASE n # ln
    BY <2>2, <1>5, <1>6 DEF Paper
  <2> QED BY <2>1, <2>2
<1>7. ASSUME NEW q \in Nat, NEW i \in 0 .. h - 1, q * h + i < H
      PROVE  d.px[q * h + i] = Ink(al, ln - m + q, i)
  <2> DEFINE r == q * h + i
             n == ln - m + q
  <2>1. q * h \in Nat /\ m * h \in Nat
    BY <1>1
  <2>2. r \in Rows /\ r \in Nat /\ n \in Int
    BY <2>1, <1>1, <1>2, <1>7 DEF Rows
  <2>3. px[r] = Ink(rl, n, i)
    BY <1>7 DEF Paper, Shows
  <2>4. CASE q = m
    <3>1. r \in k.cy .. k.cy + h - 1 /\ r - k.cy = i /\ n = ln
      BY <2>1, <2>4, <1>1, <1>2
    <3>2. d.px[r] = px[r] \cup {[x |-> k.cx, ch |-> c, row |-> i]}
      BY <3>1, <2>2, <1>3
    <3>3. Ink(rl, n, i) = {[x |-> f.x, ch |-> f.ch, row |-> i] : f \in rl[ln]}
      BY <3>1, <1>2 DEF Ink
    <3>4. Ink(al, n, i) = {[x |-> f.x, ch |-> f.ch, row |-> i] : f \in rl[ln] \cup {g}}
      BY <3>1, <1>2, <1>5 DEF Ink
    <3>5. [x |-> g.x, ch |-> g.ch, row |-> i] = [x |-> k.cx, ch |-> c, row |-> i]
      BY DEF g
    <3> HIDE DEF r, n
    <3>6. d.px[r] = Ink(al, n, i)
      BY <2>3, <3>2, <3>3, <3>4, <3>5
    <3> QED BY <3>6 DEF n, r
  <2>5. CASE q # m
    <3>1. r \notin k.cy .. k.cy + h - 1
      <4>1. CASE q < m
        <5>1. (q + 1) * h <= m * h
          BY <4>1, <1>1, MulMono
        <5>2. (q + 1) * h = q * h + h
          BY <1>1
        <5> QED BY <5>1, <5>2, <2>1, <1>1, <1>2
      <4>2. CASE q > m
        <5>1. (m + 1) * h <= q * h
          BY <4>2, <1>1, MulMono
        <5>2. (m + 1) * h = m * h + h
          BY <1>1
        <5> QED BY <5>1, <5>2, <2>1, <1>1, <1>2
      <4> QED BY <4>1, <4>2, <2>5
    <3>2. d.px[r] = px[r]
      BY <3>1, <2>2, <1>3
    <3>3. n # ln
      BY <2>5, <1>2
    <3> HIDE DEF n, r
    <3>4. Ink(al, n, i) = Ink(rl, n, i)
      BY <3>3, <1>2, <1>5 DEF Ink
    <3> QED BY <2>3, <3>2, <3>4 DEF n, r
  <2> QED BY <2>4, <2>5
<1>8. d.px = [r \in Rows |-> d.px[r]]
  BY <1>3
<1>9. /\ Shows(d.px, al, ln - m) /\ d.cy = m * h /\ Len(al) <= RollLines /\ ln \in 1 .. Len(al)
      /\ (Len(al) - ln + m) * h < H
  <2>1. Shows(d.px, al, ln - m)
    BY <1>7 DEF Shows
  <2> QED BY <2>1, <1>2, <1>3, <1>5 DEF Paper
<1>10. Paper(d, al, ln, m)
  BY <1>2, <1>5, <1>6, <1>8, <1>9, Zenon DEF Paper
<1> QED BY <1>10, Zenon DEF d, al, g

\* Filling the glyph of the space changes nothing: it has no size.
LEMMA FillNothing ==
  ASSUME NEW k, OnGrid(k), k.px = [r \in Rows |-> k.px[r]]
  PROVE  LET d == con_fill_glyph(k) IN d.cx = k.cx /\ d.cy = k.cy /\ d.px = k.px
<1>1. gop_fill_rect(k.px, k.cx, k.cy, 0, 0) = [r \in Rows |-> k.px[r]]
  <2>1. \A r \in Rows : r \notin k.cy .. k.cy + 0 - 1
    BY DEF OnGrid
  <2> QED BY <2>1, Zenon DEF gop_fill_rect
<1>2. con_fill_glyph(k) = [k EXCEPT !.px = k.px]
  BY <1>1, Zenon DEF con_fill_glyph, SpaceGlyph
<1> QED BY <1>2 DEF OnGrid

\* Backspace at the start of a line.
LEMMA BackPaper ==
  ASSUME NEW k, NEW rl, NEW ln, NEW m \in Nat, Paper(k, rl, ln, m), m # 0, cell_h \in Nat,
         NEW j, j.px = k.px, j.cy = k.cy - cell_h
  PROVE  Paper(j, rl, ln - 1, m - 1)
<1>1. ln \in Int /\ Len(rl) \in Nat /\ ln \in 1 .. Len(rl) /\ m < ln
  BY DEF Paper
<1>2. /\ (ln - 1) - (m - 1) = ln - m
      /\ Len(rl) - (ln - 1) + (m - 1) = Len(rl) - ln + m
      /\ \A n \in 1 .. Len(rl) : n - (ln - 1) + (m - 1) + 1 = n - ln + m + 1
      /\ ln - 1 \in 1 .. Len(rl) /\ m - 1 < ln - 1
  BY <1>1
<1>3. j.cy = (m - 1) * cell_h
  BY DEF Paper
<1>4. /\ (Len(rl) - (ln - 1) + (m - 1)) * cell_h < fb.height
      /\ \A n \in 1 .. Len(rl) : rl[n] # {} => (n - (ln - 1) + (m - 1) + 1) * cell_h < fb.height
  BY <1>2 DEF Paper
<1>5. Shows(j.px, rl, (ln - 1) - (m - 1))
  BY <1>2 DEF Paper
<1>6. /\ j.px = [r \in Rows |-> j.px[r]]
      /\ rl \in Seq(SUBSET Marks) /\ Len(rl) <= RollLines
  BY DEF Paper
<1> QED BY <1>2, <1>3, <1>4, <1>5, <1>6, Zenon DEF Paper

\* A cursor in the last line is at its start.
Bottom(k) == k.cy + cell_h >= fb.height => k.cx = 0

\* The console after a character, and what a terminal with endless paper made of it.
Settled(k, p) == Bottom(k) /\ \E m \in Nat : Paper(k, p.roll, p.line, m)

LEMMA WrapPaper ==
  ASSUME fb \in Framebuffers, RollSuffices, NEW k, OnGrid(k), k.cy + cell_h < fb.height,
         NEW rl, NEW ln, NEW m \in Nat, Paper(k, rl, ln, m), NEW x \in Nat, x <= U32_MAX
  PROVE  Settled(WrapAt(k, x), IF x >= fb.width THEN LineFeed(rl, ln) ELSE [roll |-> rl, line |-> ln])
<1>1. CASE x >= fb.width
  <2>1. WrapAt(k, x) = con_ctrl_newl(k)
    BY <1>1, U32Exact DEF WrapAt
  <2>2. Paper(con_ctrl_newl(k), LineFeed(rl, ln).roll, LineFeed(rl, ln).line, m + 1) /\ m + 1 \in Nat
    BY FeedPaper
  <2>3. con_ctrl_newl(k).cx = 0
    BY NewLineDown
  <2> QED BY <1>1, <2>1, <2>2, <2>3 DEF Settled, Bottom
<1>2. CASE x < fb.width
  <2>1. WrapAt(k, x) = [k EXCEPT !.cx = x]
    BY <1>2, U32Exact, Sizes DEF WrapAt
  <2>2. WrapAt(k, x).px = k.px /\ WrapAt(k, x).cy = k.cy
    BY <2>1 DEF OnGrid
  <2>3. Paper(WrapAt(k, x), rl, ln, m)
    BY <2>2, SamePaper
  <2>4. ~(k.cy + cell_h >= fb.height) /\ ~(x >= fb.width)
    BY <1>2, Sizes DEF OnGrid
  <2> QED BY <2>2, <2>3, <2>4 DEF Settled, Bottom
<1> QED BY <1>1, <1>2, Sizes

\* What backspace does to the cursor, it does to the line of the roll.
LEMMA BackspacePaper ==
  ASSUME fb \in Framebuffers, NEW k, OnGrid(k), k.cy + cell_h < fb.height,
         NEW rl, NEW ln, NEW m \in Nat, Paper(k, rl, ln, m)
  PROVE  Settled(con_ctrl_backspace(k),
                 [roll |-> rl, line |-> IF k.cx < x_advance /\ k.cy > 0 THEN ln - 1 ELSE ln])
<1>1. /\ k.px = [r \in Rows |-> k.px[r]] /\ k.cy = m * cell_h /\ cell_h \in Nat /\ cell_h > 0
      /\ k.cx \in Nat /\ x_advance \in Nat /\ k.cy \in Nat /\ fb.height \in Nat
  BY Sizes DEF Paper, OnGrid
<1>2. CASE k.cx >= x_advance
  <2> DEFINE j == [k EXCEPT !.cx = k.cx - x_advance]
  <2>1. OnGrid(j) /\ j.px = k.px /\ j.cy = k.cy
    BY <1>1, <1>2, Sizes DEF OnGrid
  <2>2. con_ctrl_backspace(k) = con_fill_glyph(j)
    BY <1>2 DEF con_ctrl_backspace
  <2> HIDE DEF j
  <2>3. con_fill_glyph(j).px = k.px /\ con_fill_glyph(j).cy = k.cy
    BY <1>1, <2>1, FillNothing
  <2>4. Paper(con_fill_glyph(j), rl, ln, m)
    BY <2>3, SamePaper
  <2>5. ~(k.cx < x_advance) /\ ~(k.cy + cell_h >= fb.height)
    BY <1>1, <1>2
  <2> QED BY <2>2, <2>3, <2>4, <2>5 DEF Settled, Bottom
<1>3. CASE k.cx < x_advance /\ k.cy >= cell_h
  <2> DEFINE j == [k EXCEPT !.cx = fb.width - x_advance, !.cy = k.cy - cell_h]
  <2>1. m # 0 /\ m - 1 \in Nat /\ k.cy - cell_h = (m - 1) * cell_h
    BY <1>1, <1>3
  <2>2. j.px = k.px /\ j.cy = k.cy - cell_h
    BY DEF OnGrid
  <2>3. OnGrid(j)
    <3>1. \E n \in Nat : k.cy - cell_h = n * cell_h
      BY <2>1
    <3> QED BY <3>1, <1>1, <1>3, Sizes DEF OnGrid
  <2>4. con_ctrl_backspace(k) = con_fill_glyph(j)
    BY <1>1, <1>3 DEF con_ctrl_backspace
  <2> HIDE DEF j
  <2>5. con_fill_glyph(j).px = k.px /\ con_fill_glyph(j).cy = k.cy - cell_h
    BY <1>1, <2>2, <2>3, FillNothing
  <2>6. Paper(con_fill_glyph(j), rl, ln - 1, m - 1)
    BY <1>1, <2>1, <2>5, BackPaper
  <2>7. ~((k.cy - cell_h) + cell_h >= fb.height) /\ k.cy > 0
    BY <1>1, <1>3
  <2> QED BY <1>3, <2>1, <2>4, <2>5, <2>6, <2>7 DEF Settled, Bottom
<1>4. CASE k.cx < x_advance /\ ~(k.cy >= cell_h)
  <2>1. con_ctrl_backspace(k) = k
    BY <1>1, <1>4 DEF con_ctrl_backspace
  <2>2. m = 0
    <3> SUFFICES ASSUME m >= 1 PROVE FALSE
      OBVIOUS
    <3>1. m * cell_h >= cell_h
      BY <1>1, MulGe
    <3> QED BY <3>1, <1>1, <1>4
  <2>3. ~(k.cy > 0) /\ ~(k.cy + cell_h >= fb.height)
    BY <1>1, <2>2
  <2> QED BY <2>1, <2>3 DEF Settled, Bottom
<1> QED BY <1>1, <1>2, <1>3, <1>4

\* The screen and the roll agree.
ScreenInv == CursorInv /\ Settled(kconsole, [roll |-> roll, line |-> line])

\* The column to which a tab moves, as the code and as the paper have it.
LEMMA TabColumn ==
  ASSUME fb \in Framebuffers, NEW x \in Nat, x < fb.width
  PROVE  /\ x + tab_w - (x % tab_w) = (x \div tab_w + 1) * tab_w
         /\ x + tab_w - (x % tab_w) \in Nat /\ x + tab_w - (x % tab_w) <= U32_MAX
<1>1. tab_w \in Nat \ {0} /\ fb.width \in Nat /\ U32_MAX \in Nat /\ fb.width + tab_w <= U32_MAX
  BY Sizes
<1> HIDE DEF tab_w
<1> DEFINE d == x \div tab_w
<1>2. d \in Int /\ x % tab_w \in 0 .. tab_w - 1 /\ x = tab_w * d + (x % tab_w)
  <2>1. x \in Int
    OBVIOUS
  <2> QED BY <2>1, <1>1, DivMod, Zenon
<1> HIDE DEF d
<1>3. (d + 1) * tab_w = tab_w * d + tab_w /\ tab_w * d \in Int
  BY <1>1, <1>2
<1>4. x + tab_w - (x % tab_w) = (d + 1) * tab_w
  BY <1>1, <1>2, <1>3
<1> QED BY <1>1, <1>2, <1>4 DEF d

\* One character of kcon_write(): the screen does what the paper does.
LEMMA WrittenSettled ==
  ASSUME RollSuffices, ScreenInv, NEW c \in Chars
  PROVE  Settled(Written(kconsole, c), OnPaper(c))
<1> DEFINE k == MadeRoom(kconsole)
           here == [roll |-> roll, line |-> line]
<1>1. fb \in Framebuffers /\ OnGrid(k) /\ k.cy + cell_h < fb.height /\ OnGrid(kconsole)
  BY RoomBelow DEF ScreenInv, CursorInv
<1>2. PICK j \in Nat : Paper(k, roll, line, j) /\ k.cx = kconsole.cx
  <2>1. PICK m \in Nat : Paper(kconsole, roll, line, m)
    BY DEF ScreenInv, Settled
  <2>2. kconsole.cy + cell_h >= fb.height => kconsole.cx = 0
    BY DEF ScreenInv, Settled, Bottom
  <2> QED BY <1>1, <2>1, <2>2, RoomPaper
<1>3. /\ k.cx \in Nat /\ k.cx < fb.width /\ k.cy \in Nat /\ k.cx + x_advance \in Nat
      /\ k.cx + x_advance <= U32_MAX /\ ~(k.cy + cell_h >= fb.height)
  <2>1. x_advance <= tab_w
    BY ConsoleAssumption DEF tab_w
  <2> QED BY <1>1, <2>1, Sizes DEF OnGrid
<1>4. Glyphs \cap Control = {}
  BY ConsoleAssumption DEF Control
<1> HIDE DEF k
<1>5. CASE c = "LF"
  <2>1. Written(kconsole, c) = con_ctrl_newl(k)
    BY <1>5 DEF Written, Control, con_ascii_ctrl, k
  <2>2. OnPaper(c) = LineFeed(roll, line)
    BY <1>5 DEF OnPaper
  <2>3. Paper(con_ctrl_newl(k), LineFeed(roll, line).roll, LineFeed(roll, line).line, j + 1)
    BY <1>1, <1>2, FeedPaper
  <2>4. con_ctrl_newl(k).cx = 0 /\ j + 1 \in Nat
    BY <1>1, NewLineDown
  <2> QED BY <2>1, <2>2, <2>3, <2>4 DEF Settled, Bottom
<1>6. CASE c \in {"CR", "BEL"}
  <2>1. Written(kconsole, c) = k \/ Written(kconsole, c) = [k EXCEPT !.cx = 0]
    BY <1>6 DEF Written, Control, con_ascii_ctrl, con_ctrl_carriage_ret, k
  <2>2. Written(kconsole, c).px = k.px /\ Written(kconsole, c).cy = k.cy
    BY <1>1, <2>1 DEF OnGrid
  <2>3. OnPaper(c) = here
    BY <1>6 DEF OnPaper, Control
  <2>4. Paper(Written(kconsole, c), roll, line, j)
    BY <1>2, <2>2, SamePaper
  <2> QED BY <1>3, <2>2, <2>3, <2>4 DEF Settled, Bottom
<1>7. CASE c = "BS"
  <2>1. Written(kconsole, c) = con_ctrl_backspace(k)
    BY <1>7 DEF Written, Control, con_ascii_ctrl, k
  <2>2. OnPaper(c) = [roll |-> roll,
                      line |-> IF k.cx < x_advance /\ k.cy > 0 THEN line - 1 ELSE line]
    <3>1. OnPaper(c) = IF k.cx < x_advance /\ k.cy > 0 THEN [here EXCEPT !.line = @ - 1] ELSE here
      BY <1>2, <1>7 DEF OnPaper, Control, k
    <3> QED BY <3>1
  <2> QED BY <1>1, <1>2, <2>1, <2>2, BackspacePaper
<1>8. CASE c = "TAB"
  <2> DEFINE x == k.cx + tab_w - (k.cx % tab_w)
  <2>1. Written(kconsole, c) = WrapAt(k, x)
    BY <1>8 DEF Written, Control, con_ascii_ctrl, con_ctrl_tab, k
  <2>2. x = (k.cx \div tab_w + 1) * tab_w /\ x \in Nat /\ x <= U32_MAX
    BY <1>1, <1>3, TabColumn
  <2>3. c \notin Glyphs
    BY <1>4, <1>8 DEF Control
  <2> HIDE DEF x
  <2>4. OnPaper(c) = IF x >= fb.width THEN LineFeed(roll, line) ELSE here
    BY <1>2, <1>8, <2>2, <2>3 DEF OnPaper, Control
  <2> QED BY <1>1, <1>2, <2>1, <2>2, <2>4, WrapPaper
<1>9. CASE c \notin Control
  <2> DEFINE d == con_draw_glyph(k, c)
             x == k.cx + x_advance
             rl == IF c \in Glyphs THEN [roll EXCEPT ![line] = @ \cup {[x |-> k.cx, ch |-> c]}]
                   ELSE roll
  <2>1. Written(kconsole, c) = WrapAt(d, x)
    BY <1>9 DEF Written, k
  <2>2. Paper(d, rl, line, j)
    <3>1. CASE c \in Glyphs
      BY <3>1, <1>1, <1>2, TypePaper
    <3>2. CASE c \notin Glyphs
      BY <3>2, <1>2 DEF con_draw_glyph
    <3> QED BY <3>1, <3>2
  <2>3. OnGrid(d) /\ d.cy = k.cy
    BY <1>1, InkKeeps
  <2>4. OnPaper(c) = IF x >= fb.width THEN LineFeed(rl, line) ELSE [roll |-> rl, line |-> line]
    <3>1. c # "LF" /\ c # "TAB" /\ c # "BS" /\ c \notin Control \ {"LF", "TAB", "BS"}
      BY <1>9 DEF Control
    <3> HIDE DEF rl
    <3>2. OnPaper(c) = IF x >= fb.width THEN LineFeed(rl, line) ELSE [here EXCEPT !.roll = rl]
      BY <1>2, <3>1 DEF OnPaper, rl
    <3> QED BY <3>2
  <2> HIDE DEF d, x, rl
  <2>5. x \in Nat /\ x <= U32_MAX
    BY <1>3 DEF x
  <2>6. d.cy + cell_h < fb.height
    BY <1>1, <2>3
  <2> QED BY <1>1, <2>1, <2>2, <2>3, <2>4, <2>5, <2>6, WrapPaper
<1> QED BY <1>5, <1>6, <1>7, <1>8, <1>9 DEF Control

\* A blank screen is the beginning of a roll.
LEMMA BlankSettled ==
  ASSUME fb \in Framebuffers, NEW k, k.cx = 0, k.cy = 0, k.px = [r \in Rows |-> {}]
  PROVE  Settled(k, [roll |-> <<{}>>, line |-> 1])
<1> DEFINE rl == <<{}>>
<1>1. /\ rl \in Seq(SUBSET Marks) /\ Len(rl) = 1 /\ DOMAIN rl = {1} /\ rl[1] = {}
  OBVIOUS
<1> HIDE DEF rl
<1>2. /\ cell_h \in Nat /\ cell_h > 0 /\ fb.height \in Nat /\ cell_h < fb.height
      /\ RollLines \in Nat /\ 1 <= RollLines
  BY Sizes, ConsoleAssumption
<1>3. Shows(k.px, rl, 1 - 0)
  <2> SUFFICES ASSUME NEW q \in Nat, NEW i \in 0 .. cell_h - 1, q * cell_h + i < fb.height
               PROVE  k.px[q * cell_h + i] = Ink(rl, 1 - 0 + q, i)
    BY DEF Shows
  <2>1. q * cell_h \in Nat
    BY <1>2
  <2>2. q * cell_h + i \in Rows
    BY <2>1, <1>2 DEF Rows
  <2>3. Ink(rl, 1 - 0 + q, i) = {}
    BY <1>1 DEF Ink
  <2> QED BY <2>2, <2>3
<1>4. /\ (Len(rl) - 1 + 0) * cell_h < fb.height
      /\ \A n \in 1 .. Len(rl) : rl[n] # {} => (n - 1 + 0 + 1) * cell_h < fb.height
      /\ Len(rl) <= RollLines /\ 1 \in 1 .. Len(rl) /\ 0 < 1
      /\ k.cy = 0 * cell_h /\ k.px = [r \in Rows |-> k.px[r]]
  BY <1>1, <1>2
<1>5. Paper(k, rl, 1, 0)
  BY <1>1, <1>3, <1>4, Zenon DEF Paper
<1> QED BY <1>5 DEF Settled, Bottom, rl

\* Every step keeps screen and roll together.
LEMMA NextScreen == ASSUME RollSuffices PROVE ScreenInv /\ CursorInv' /\ [Next]_vars => ScreenInv'
<1> SUFFICES ASSUME ScreenInv, CursorInv', [Next]_vars PROVE ScreenInv'
  OBVIOUS
<1>1. ASSUME fb' = fb, Settled(kconsole', [roll |-> roll', line |-> line'])
      PROVE  ScreenInv'
  BY <1>1 DEF ScreenInv, Settled, Bottom, Paper, Shows, Rows
<1>2. ASSUME NEW c \in Chars, kcon_write(c)
      PROVE  ScreenInv'
  <2>1. fb' = fb /\ kconsole' = Written(kconsole, c) /\ roll' = OnPaper(c).roll /\ line' = OnPaper(c).line
    BY <1>2 DEF kcon_write
  <2>2. Settled(Written(kconsole, c), OnPaper(c))
    BY WrittenSettled
  <2>3. Settled(kconsole', [roll |-> roll', line |-> line'])
    BY <2>1, <2>2 DEF Settled
  <2> QED BY <2>1, <2>3, <1>1
<1>3. CASE kcon_clear
  <2>1. /\ fb' = fb /\ kconsole'.cx = 0 /\ kconsole'.cy = 0 /\ kconsole'.px = [r \in Rows |-> {}]
        /\ roll' = <<{}>> /\ line' = 1
    BY <1>3 DEF kcon_clear, gop_clear
  <2>2. fb \in Framebuffers
    BY DEF ScreenInv, CursorInv
  <2> QED BY <2>1, <2>2, <1>1, BlankSettled
<1>4. CASE UNCHANGED vars
  BY <1>4, <1>1 DEF vars, ScreenInv
<1> QED BY <1>2, <1>3, <1>4 DEF Next

\* The line of a pixel row, and its place in it.
LEMMA RowOf ==
  ASSUME NEW r \in Nat, NEW h \in Nat \ {0}
  PROVE  r \div h \in Nat /\ r % h \in 0 .. h - 1 /\ r = h * (r \div h) + (r % h)
<1>1. r \in Int
  OBVIOUS
<1>2. r % h \in 0 .. h - 1 /\ r = h * (r \div h) + (r % h)
  BY <1>1, DivMod, Zenon
<1>3. r \div h \in Nat
  BY DivBelow, Zenon
<1> QED BY <1>2, <1>3

\* The screen and the roll agree after every character, whatever is printed.
THEOREM ScreenFollows == ASSUME RollSuffices PROVE Spec => []ScreenInv
<1>1. Init => CursorInv
  BY InitCursor
<1>2. Init => ScreenInv
  <2> SUFFICES ASSUME Init PROVE ScreenInv
    OBVIOUS
  <2>1. /\ fb \in Framebuffers /\ kconsole.cx = 0 /\ kconsole.cy = 0 /\ kconsole.px = [r \in Rows |-> {}]
        /\ roll = <<{}>> /\ line = 1
    BY DEF Init, fbcon_display_init
  <2> QED BY <1>1, <2>1, BlankSettled DEF ScreenInv
<1>3. ScreenInv /\ CursorInv' /\ [Next]_vars => ScreenInv'
  BY NextScreen
<1> QED BY <1>2, <1>3, CursorStays, PTL DEF Spec

\* However much is typed, scrolled, wrapped and taken back, each line stands
\* where it belongs: con_scroll_by(), con_ctrl_newl() and the memmove() of
\* gop_scroll() lose nothing but what is above the screen.
THEOREM TailShown == ASSUME RollSuffices PROVE Spec => []ScreenIsTail
<1>1. ScreenInv => ScreenIsTail
  <2> SUFFICES ASSUME ScreenInv, NEW r \in Rows
               PROVE  LET n == line + (r - kconsole.cy) \div cell_h
                      IN  kconsole.px[r] =
                            IF n \notin DOMAIN roll THEN {}
                            ELSE {[x |-> g.x, ch |-> g.ch, row |-> (r - kconsole.cy) % cell_h]
                                    : g \in roll[n]}
    BY DEF ScreenIsTail
  <2>1. PICK m \in Nat : Paper(kconsole, roll, line, m)
    BY DEF ScreenInv, Settled
  <2>2. /\ cell_h \in Nat \ {0} /\ fb.height \in Nat /\ r \in Nat /\ r < fb.height /\ line \in Int
        /\ kconsole.cy = m * cell_h /\ Shows(kconsole.px, roll, line - m)
    BY <2>1, Sizes DEF ScreenInv, CursorInv, Rows, Paper
  <2> DEFINE q == r \div cell_h
             i == r % cell_h
  <2>3. q \in Nat /\ i \in 0 .. cell_h - 1 /\ r = cell_h * q + i
    BY <2>2, RowOf
  <2> HIDE DEF q, i
  <2>4. cell_h * q = q * cell_h /\ r - m * cell_h = cell_h * (q - m) + i /\ q - m \in Int
    BY <2>2, <2>3
  <2>5. (r - kconsole.cy) \div cell_h = q - m /\ (r - kconsole.cy) % cell_h = i
    <3>1. r - m * cell_h \in Int
      BY <2>2
    <3> QED BY <2>2, <2>3, <2>4, <3>1, DivUnique
  <2>6. kconsole.px[q * cell_h + i] = Ink(roll, (line - m) + q, i)
    BY <2>2, <2>3, <2>4 DEF Shows
  <2>7. line + (q - m) = (line - m) + q /\ q * cell_h + i = r
    BY <2>2, <2>3, <2>4
  <2> QED BY <2>5, <2>6, <2>7 DEF Ink
<1> QED BY <1>1, ScreenFollows, PTL

\* A line is on the screen with all its rows or not at all: kcon_write() makes
\* room before it draws, and nothing is cut by the edge above.
THEOREM WholeLines == ASSUME RollSuffices PROVE Spec => []LinesWhole
<1>1. ScreenInv => LinesWhole
  <2> SUFFICES ASSUME ScreenInv, NEW r \in Rows, NEW s \in kconsole.px[r], NEW t \in 0 .. cell_h - 1
               PROVE  r - s.row + t \in Rows /\ [s EXCEPT !.row = t] \in kconsole.px[r - s.row + t]
    BY DEF LinesWhole
  <2>1. PICK m \in Nat : Paper(kconsole, roll, line, m)
    BY DEF ScreenInv, Settled
  <2>2. /\ cell_h \in Nat \ {0} /\ fb.height \in Nat /\ r \in Nat /\ r < fb.height /\ line \in Int
        /\ Shows(kconsole.px, roll, line - m) /\ DOMAIN roll = 1 .. Len(roll)
        /\ \A n \in 1 .. Len(roll) : roll[n] # {} => (n - line + m + 1) * cell_h < fb.height
    <3>1. cell_h \in Nat \ {0} /\ fb.height \in Nat /\ r \in Nat /\ r < fb.height
      BY Sizes DEF ScreenInv, CursorInv, Rows
    <3>2. line \in Int /\ DOMAIN roll = 1 .. Len(roll)
      BY <2>1 DEF Paper
    <3> QED BY <2>1, <3>1, <3>2, Zenon DEF Paper
  <2> DEFINE q == r \div cell_h
             i == r % cell_h
  <2>3. q \in Nat /\ i \in 0 .. cell_h - 1 /\ r = cell_h * q + i
    BY <2>2, RowOf
  <2> HIDE DEF q, i
  <2>4. q * cell_h + i = r /\ q * cell_h \in Nat
    BY <2>2, <2>3
  <2> DEFINE n == (line - m) + q
  <2>5. s \in Ink(roll, n, i)
    BY <2>2, <2>3, <2>4 DEF Shows
  <2>6. n - line + m + 1 = q + 1
    BY <2>2, <2>3
  <2> HIDE DEF n
  <2>7. n \in DOMAIN roll
    BY <2>5 DEF Ink
  <2>8. PICK g \in roll[n] : s = [x |-> g.x, ch |-> g.ch, row |-> i]
    BY <2>5, <2>7 DEF Ink
  <2>9. (q + 1) * cell_h < fb.height
    BY <2>2, <2>6, <2>7, <2>8
  <2>10. q * cell_h + t < fb.height /\ q * cell_h + t \in Rows
    <3>1. (q + 1) * cell_h = q * cell_h + cell_h
      BY <2>2, <2>3
    <3> QED BY <3>1, <2>2, <2>4, <2>9 DEF Rows
  <2>11. kconsole.px[q * cell_h + t] = Ink(roll, n, t)
    BY <2>2, <2>3, <2>10 DEF Shows, n
  <2>12. r - s.row + t = q * cell_h + t
    BY <2>2, <2>3, <2>4, <2>8
  <2>13. [s EXCEPT !.row = t] = [x |-> g.x, ch |-> g.ch, row |-> t]
    BY <2>8
  <2>14. [x |-> g.x, ch |-> g.ch, row |-> t] \in Ink(roll, n, t)
    BY <2>7 DEF Ink
  <2> QED BY <2>10, <2>11, <2>12, <2>13, <2>14
<1> QED BY <1>1, ScreenFollows, PTL

=============================================================================
