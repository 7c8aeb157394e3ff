------------------------------- MODULE MCBuddy -------------------------------
(***************************************************************************)
(* Instances of Buddy for TLC.                                             *)
(***************************************************************************)
EXTENDS Buddy

\* One region whose usable part is aligned to its largest block: header page
\* 3, pages 4 .. 11.
AlignedRanges == {[base |-> 3, len |-> 9]}

\* The same pages after a header that leaves them at an odd address.
OddRanges == {[base |-> 4, len |-> 9]}

\* Regions of every shape: aligned with a tail that kbud_push refuses, unaligned,
\* and one that its header fills.
WildRanges == {[base |-> 1, len |-> 7], [base |-> 8, len |-> 5], [base |-> 14, len |-> 1]}

=============================================================================
