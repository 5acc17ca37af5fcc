--------------------------- MODULE MCOrderedMerge ---------------------------
(***************************************************************************)
(* OrderedMerge on a small window.                                         *)
(***************************************************************************)
EXTENDS OrderedMerge

\* More than two windows of three slots; 0 is the number that the code also takes
\* for "no message yet".
MCNumbers == 0 .. 6
=============================================================================
