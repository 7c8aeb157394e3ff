------------------------------- MODULE Console -------------------------------
(***************************************************************************)
(* The kernel's console, kernel/io/console.c, on the framebuffer driver of *)
(* kernel/drivers/video/gop/gop.c: characters become glyphs at a cursor,   *)
(* and the screen scrolls when the cursor nears its bottom.                *)
(*                                                                         *)
(* The screen is a function from pixel rows to the ink the console has put *)
(* there; what the firmware left, which kcon_init() does not clear, is not *)
(* followed.  The ink of a glyph is one slice per row: where the glyph     *)
(* starts, which it is, and which of its rows this is.  Every glyph of a   *)
(* font advances by the same; that of the space has no ink, and no size.   *)
(* Colours are left out.                                                   *)
(*                                                                         *)
(* printk(), kcon_puts() and kcon_putchar() all come down to characters    *)
(* given to kcon_write(), one after the other: a step of Next is one.      *)
(***************************************************************************)
EXTENDS Integers, Sequences, SequencesExt

CONSTANTS
  Framebuffers,      \* [width, height] in pixels a boot may report
  cell_h,            \* font->pixel_h
  x_advance,         \* x_advance of the glyphs
  KCONSOLE_TABSTOP,  \* 8 in the code
  BytesPerPixel,     \* bpp >> 3
  U32_MAX,
  Glyphs,            \* printable characters other than the space
  RollLines          \* lines of text the roll remembers

ASSUME ConsoleAssumption ==
  /\ cell_h \in Nat \ {0} /\ x_advance \in Nat \ {0}
  /\ KCONSOLE_TABSTOP \in Nat \ {0} /\ BytesPerPixel \in Nat \ {0}
  /\ U32_MAX \in Nat /\ RollLines \in Nat \ {0}
  /\ Glyphs \cap {"SPACE", "CR", "LF", "TAB", "BS", "BEL"} = {}
  /\ \A f \in Framebuffers :
       /\ f.width \in Nat /\ x_advance <= f.width
       /\ f.height \in Nat /\ cell_h < f.height
       /\ f.height + cell_h <= U32_MAX
       /\ f.width + x_advance * KCONSOLE_TABSTOP <= U32_MAX

VARIABLES
  fb,        \* the framebuffer
  kconsole,  \* [cx, cy] and px, the rows of the framebuffer
  roll,      \* history: the last lines of text, as if on endless paper
  line       \* history: the line of the roll the cursor is in

vars == <<fb, kconsole, roll, line>>

U32(n) == n % (U32_MAX + 1)

Rows == 0 .. fb.height - 1

Control == {"CR", "LF", "TAB", "BS", "BEL"}

Chars == Glyphs \cup {"SPACE"} \cup Control

\* The framebuffer of the boot parameters.  The boot is by UEFI: otherwise
\* there is no driver.
fbcon_display_init == fb \in Framebuffers

Init ==
  /\ fbcon_display_init
  /\ kconsole = [cx |-> 0, cy |-> 0, px |-> [r \in Rows |-> {}]]
  /\ roll = <<{}>>
  /\ line = 1

-----------------------------------------------------------------------------
(***************************************************************************)
(* The driver.                                                             *)
(***************************************************************************)

\* Variant: the copy runs downwards.
memmove_Descending(px, n) ==
  FoldLeft(LAMBDA m, i : [m EXCEPT ![fb.height - n - i] = m[fb.height - i]], px,
           [i \in 1 .. fb.height - n |-> i])

\* Rows n and above move to row 0 and above, the lowest first.
memmove(px, n) ==
  FoldLeft(LAMBDA m, i : [m EXCEPT ![i - 1] = m[i - 1 + n]], px, [i \in 1 .. fb.height - n |-> i])

\* Row `first' and those below it become blank.
memset(px, first) == [r \in Rows |-> IF r < first THEN px[r] ELSE {}]

gop_scroll(px, n) == memset(memmove(px, n), fb.height - n)

gop_clear == [r \in Rows |-> {}]

\* A pixel is three bytes here, whatever it is elsewhere.
gop_fill_rect(px, x, y, w, h) ==
  LET Wiped(s) == \E b \in 3 * x .. 3 * (x + w) - 1 :
                    b \div BytesPerPixel \in s.x .. s.x + x_advance - 1
  IN  [r \in Rows |-> IF r \in y .. y + h - 1 THEN {s \in px[r] : ~Wiped(s)} ELSE px[r]]

\* Ink outside the framebuffer is clipped.
gop_blit(px, y, ink) ==
  [r \in Rows |-> IF r = y /\ ink.x \in 0 .. fb.width - 1 THEN px[r] \cup {ink} ELSE px[r]]

con_draw_glyph(k, c) ==
  IF c \notin Glyphs THEN k
  ELSE [k EXCEPT !.px = FoldLeft(LAMBDA px, h : gop_blit(px, k.cy + h - 1,
                                                         [x |-> k.cx, ch |-> c, row |-> h - 1]),
                                 @, [h \in 1 .. cell_h |-> h])]

-----------------------------------------------------------------------------
(***************************************************************************)
(* The cursor.                                                             *)
(***************************************************************************)

con_scroll(k) == [k EXCEPT !.px = gop_scroll(@, cell_h), !.cy = U32(@ - cell_h)]

con_ctrl_carriage_ret(k) == [k EXCEPT !.cx = 0]

\* Variant: one row too late.
con_ctrl_newl_Late(k) ==
  con_ctrl_carriage_ret(IF U32(k.cy + cell_h) > fb.height THEN con_scroll(k)
                        ELSE [k EXCEPT !.cy = U32(@ + cell_h)])

con_ctrl_newl(k) ==
  con_ctrl_carriage_ret(IF U32(k.cy + cell_h) >= fb.height THEN con_scroll(k)
                        ELSE [k EXCEPT !.cy = U32(@ + cell_h)])

\* The cursor moves right to x, or to the next line.
WrapAt(k, x) ==
  IF U32(x) >= fb.width THEN con_ctrl_newl(k) ELSE [k EXCEPT !.cx = U32(x)]

tab_w == x_advance * KCONSOLE_TABSTOP

con_ctrl_tab(k) == WrapAt(k, k.cx + tab_w - (k.cx % tab_w))

\* The glyph of the space, in both fonts.
SpaceGlyph == [width |-> 0, height |-> 0]

con_fill_glyph(k) ==
  [k EXCEPT !.px = gop_fill_rect(@, k.cx, k.cy, SpaceGlyph.width, SpaceGlyph.height)]

con_ctrl_backspace(k) ==
  IF k.cx >= x_advance THEN con_fill_glyph([k EXCEPT !.cx = @ - x_advance])
  ELSE IF k.cy >= cell_h
       THEN con_fill_glyph([k EXCEPT !.cx = fb.width - x_advance, !.cy = @ - cell_h])
  ELSE k

con_ascii_ctrl(k, c) ==
  CASE c = "CR" -> con_ctrl_carriage_ret(k)
    [] c = "LF" -> con_ctrl_newl(k)
    [] c = "TAB" -> con_ctrl_tab(k)
    [] c = "BS" -> con_ctrl_backspace(k)
    [] OTHER -> k

\* Variant: the last row of text is used as well.
MadeRoom_Never(k) == k

MadeRoom(k) == IF k.cy >= U32(fb.height - cell_h) THEN con_ctrl_newl(k) ELSE k

-----------------------------------------------------------------------------
(***************************************************************************)
(* The roll: what a terminal with endless paper would hold.  The oldest    *)
(* line is forgotten when there are more than RollLines.                   *)
(***************************************************************************)
LineFeed(r, n) ==
  IF n < Len(r) THEN [roll |-> r, line |-> n + 1]
  ELSE IF Len(r) < RollLines THEN [roll |-> Append(r, {}), line |-> n + 1]
  ELSE [roll |-> Append(Tail(r), {}), line |-> n]

OnPaper(c) ==
  LET here  == [roll |-> roll, line |-> line]
      typed == [roll EXCEPT ![line] = @ \cup {[x |-> kconsole.cx, ch |-> c]}]
      ink   == IF c \in Glyphs THEN typed ELSE roll
      right == IF c = "TAB" THEN (kconsole.cx \div tab_w + 1) * tab_w ELSE kconsole.cx + x_advance
  IN  CASE c = "LF" -> LineFeed(roll, line)
        [] c \in Control \ {"LF", "TAB", "BS"} -> here
        [] c = "BS" -> IF kconsole.cx < x_advance /\ MadeRoom(kconsole).cy > 0
                       THEN [here EXCEPT !.line = @ - 1] ELSE here
        [] OTHER -> IF right >= fb.width THEN LineFeed(ink, line) ELSE [here EXCEPT !.roll = ink]

-----------------------------------------------------------------------------
\* What one character of kcon_write() makes of the console.
Written(console, c) ==
  LET k == MadeRoom(console)
  IN  IF c \in Control THEN con_ascii_ctrl(k, c)
      ELSE WrapAt(con_draw_glyph(k, c), k.cx + x_advance)

kcon_write(c) ==
  /\ kconsole' = Written(kconsole, c)
  /\ roll' = OnPaper(c).roll
  /\ line' = OnPaper(c).line
  /\ fb' = fb

kcon_clear ==
  /\ kconsole' = [cx |-> 0, cy |-> 0, px |-> gop_clear]
  /\ roll' = <<{}>>
  /\ line' = 1
  /\ fb' = fb

Next == (\E c \in Chars : kcon_write(c)) \/ kcon_clear

Spec == Init /\ [][Next]_vars

-----------------------------------------------------------------------------
(***************************************************************************)
(* What the console promises.                                              *)
(***************************************************************************)

\* Between characters the cursor is on the screen: cy, which is unsigned,
\* never goes below zero, and no line ends beyond the edge.
CursorInside == kconsole.cx < fb.width /\ kconsole.cy < fb.height

\* The screen shows the end of the roll: whatever is typed, each line is
\* where it belongs, once, and only lines above the screen are gone.
ScreenIsTail ==
  \A r \in Rows :
    LET n == line + (r - kconsole.cy) \div cell_h
    IN  kconsole.px[r] =
          IF n \notin DOMAIN roll THEN {}
          ELSE {[x |-> g.x, ch |-> g.ch, row |-> (r - kconsole.cy) % cell_h] : g \in roll[n]}

\* A line of text is on the screen with all its rows or not at all.
LinesWhole ==
  \A r \in Rows : \A s \in kconsole.px[r] :
    \A i \in 0 .. cell_h - 1 :
      r - s.row + i \in Rows /\ [s EXCEPT !.row = i] \in kconsole.px[r - s.row + i]

=============================================================================
