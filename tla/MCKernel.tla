------------------------------ MODULE MCKernel -------------------------------
(***************************************************************************)
(* Instances of Kernel for TLC: a screen of eight lines of two glyphs,     *)
(* where two glyphs wrap, and one of six lines that has room for half a    *)
(* glyph and for half a line more.  Both are large enough for a panic      *)
(* (RoomForPanic of KernelPrintProofs).                                    *)
(***************************************************************************)
EXTENDS Kernel

TwoScreens == {[width |-> 4, height |-> 16], [width |-> 5, height |-> 13]}

AllGlyphs == ToSet(table) \cup {"temporary", "mm_init", "ioremap", "!", "P", "K", "s", "v"}

TwoLines == <<"s", "s", "LF">>
OneGlyph == <<"v", "LF">>

=============================================================================
