------------------------------ MODULE MCConsole ------------------------------
(***************************************************************************)
(* Instances of Console for TLC: a screen of four lines of three glyphs,   *)
(* and one that cuts the second glyph of a line and the third line.        *)
(***************************************************************************)
EXTENDS Console

TwoScreens == {[width |-> 6, height |-> 8], [width |-> 3, height |-> 5]}

=============================================================================
