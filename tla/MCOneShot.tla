------------------------------ MODULE MCOneShot ------------------------------
(* OneShot for TLC. Three descriptors and two threads: enough for a batch  *)
(* with two events whose threads race for the argument, while the third    *)
(* descriptor is served as it should be. The peers of the two lowest       *)
(* numbers may leave, and these are used again first.                      *)
EXTENDS OneShot

CONSTANTS w1, w2

MCFds == {5, 6, 7}
MCLeavers == {5, 6}
MCListenFd == 3
MCWorkers == {w1, w2}
=============================================================================
