------------------------------- MODULE MCFrames -------------------------------
(***************************************************************************)
(* One frame, and two threads for turns next to the frame's thread and for *)
(* forks of it.                                                            *)
(***************************************************************************)
EXTENDS Frames, TLC

CONSTANTS t1, t2

MCThreads == {t1, t2}
MCSymmetry == Permutations(MCThreads)
=============================================================================
