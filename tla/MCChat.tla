-------------------------------- MODULE MCChat --------------------------------
(* ChatServer for TLC: three connections, who find a room for two or for   *)
(* three. A third is refused, takes over a descriptor another has left, or *)
(* receives from both others. One connection sends two texts, so that they *)
(* could change places, and a second one has a buffer of its own to leave. *)
EXTENDS ChatServer, TLC

CONSTANTS c1, c2, c3

MCConns == {c1, c2, c3}
MCFds == {4, 5, 6, 7}
MCListenFd == 3

OneTalks  == c1 :> 1 @@ c2 :> 0 @@ c3 :> 0
TwoTalk   == c1 :> 1 @@ c2 :> 1 @@ c3 :> 0
TwoOfOne  == c1 :> 2 @@ c2 :> 1 @@ c3 :> 0
=============================================================================
