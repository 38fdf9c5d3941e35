------------------------------- MODULE MCTimer -------------------------------
(* TimerServer for TLC. Three connections: the least for which the head,   *)
(* the middle and the tail of the list are different timers.               *)
EXTENDS TimerServer

MCFds == {5, 6, 7}
MCListenFd == 3
MCPipeFd == 4
MCTwoTalkers == {5, 7}
MCOneTalker == {6}
MCTwoFds == {5, 6}
=============================================================================
