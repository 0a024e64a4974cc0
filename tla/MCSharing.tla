----------------------------- MODULE MCSharing -----------------------------
(* Two users, one team: each can own, be shared with, or be a stranger.  What *)
(* is tried with one kind of user is not tried again with another name.       *)
EXTENDS Sharing, TLC

CONSTANTS u1, u2

WriteOrAdmin == {RightWrite, RightAdmin}

Symmetry == Permutations(Users)
=============================================================================
