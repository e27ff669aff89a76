---------------------------- MODULE MCConversation ----------------------------
(***************************************************************************)
(* Three threads, enough for the fork of a fork.                           *)
(***************************************************************************)
EXTENDS Conversation, TLC

CONSTANTS t1, t2, t3

MCThreads == {t1, t2, t3}
MCSymmetry == Permutations(MCThreads)
=============================================================================
