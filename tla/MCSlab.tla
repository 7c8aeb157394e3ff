------------------------------- MODULE MCSlab --------------------------------
(***************************************************************************)
(* Instances of Slab for TLC.  Pages of 5 units and a header of 1: objects *)
(* of 2 go into blocks of one page, two in each; objects of 4 need blocks  *)
(* of two pages; objects of 9 fit no slab.                                 *)
(***************************************************************************)
EXTENDS Slab

\* Five pages: two aligned blocks of two pages, and a page of its own.
FiveFrames == {0, 5, 10, 15, 25}

=============================================================================
