-------------------------------- MODULE MCShm --------------------------------
(* Bounds for ShmChat: three clients (model values).                       *)
EXTENDS ShmChat, TLC

CONSTANTS c1, c2, c3

ThreeConns == {c1, c2, c3}
OneTalker == {c1}
TwoTalkers == {c2, c3}
Sym == Permutations({c2, c3})
=============================================================================
