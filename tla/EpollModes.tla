------------------------------ MODULE EpollModes ------------------------------
(***************************************************************************)
(* ch9/9-3_LT_ET.cpp: a server that reads its connections level-triggered, *)
(* one recv() for each event (lt), or edge-triggered, recv() until nothing *)
(* is left (et). main() calls lt() and has the call of et() in a comment;  *)
(* mode says which of the two runs. The listening socket is always edge-   *)
(* triggered. The source never calls listen(); the model supplies it.      *)
(*                                                                         *)
(* One step is one epoll_wait(), accept() or recv(), so that peers write   *)
(* and close in between. A piece is what one recv() takes.                 *)
(***************************************************************************)
EXTENDS Naturals, Sequences

CONSTANTS
  Conns,
  Listener, Nobody,
  MaxPieces     (* bound: pieces written on one connection                 *)

ASSUME ModesAssumption ==
  /\ Listener \notin Conns /\ Nobody \notin Conns /\ Listener # Nobody
  /\ MaxPieces \in Nat

VARIABLES
  mode,         (* "lt" or "et"                                            *)
  arrived,      (* connections waiting for accept()                        *)
  opened, closed,
  written, received,    (* pieces, by connection                           *)
  finished, aborted,    (* connections whose peer has closed; was reset    *)
  ready,        (* edges epoll has not reported                            *)
  events,       (* those of the last epoll_wait() not handled              *)
  reading       (* the connection et() is in its while loop for            *)

peerSide  == <<written, finished, aborted>>
modesVars == <<mode, arrived, opened, closed, peerSide, received, ready, events, reading>>

(* The type of each variable.                                              *)
ModesTypeOK ==
  /\ mode \in {"lt", "et"}
  /\ arrived \in Seq(Conns)
  /\ opened \subseteq Conns /\ closed \subseteq opened
  /\ written \in [Conns -> 0..MaxPieces] /\ received \in [Conns -> 0..MaxPieces]
  /\ finished \subseteq Conns /\ aborted \subseteq Conns
  /\ ready \subseteq Conns \cup {Listener} /\ events \subseteq Conns \cup {Listener}
  /\ reading \in Conns \cup {Nobody}

ModesInit ==
  /\ mode \in {"lt", "et"}
  /\ arrived = <<>> /\ opened = {} /\ closed = {}
  /\ written = [c \in Conns |-> 0] /\ received = [c \in Conns |-> 0]
  /\ finished = {} /\ aborted = {}
  /\ ready = {} /\ events = {} /\ reading = Nobody

-----------------------------------------------------------------------------
(* The peers.                                                              *)

Come == opened \cup {arrived[k] : k \in DOMAIN arrived}
Talking(c) == c \in Come \ (closed \cup finished \cup aborted)

(* An edge on a connection that epoll watches edge-triggered.              *)
EdgeOn(c) == ready' = ready \cup (IF mode = "et" /\ c \in opened THEN {c} ELSE {})

Arrive(c) ==
  /\ c \notin Come
  /\ arrived' = Append(arrived, c) /\ ready' = ready \cup {Listener}
  /\ UNCHANGED <<mode, opened, closed, peerSide, received, events, reading>>

Write(c) ==
  /\ Talking(c) /\ written[c] < MaxPieces
  /\ written' = [written EXCEPT ![c] = @ + 1] /\ EdgeOn(c)
  /\ UNCHANGED <<mode, arrived, opened, closed, finished, aborted, received, events, reading>>

Finish(c) ==
  /\ Talking(c)
  /\ finished' = finished \cup {c} /\ EdgeOn(c)
  /\ UNCHANGED <<mode, arrived, opened, closed, written, aborted, received, events, reading>>

Abort(c) ==
  /\ Talking(c)
  /\ aborted' = aborted \cup {c} /\ EdgeOn(c)
  /\ UNCHANGED <<mode, arrived, opened, closed, written, finished, received, events, reading>>

ModesPeers == \E c \in Conns : Arrive(c) \/ Write(c) \/ Finish(c) \/ Abort(c)

-----------------------------------------------------------------------------
(* The server.                                                             *)

Readable(c) == received[c] < written[c] \/ c \in finished \cup aborted

Level == IF mode = "lt" THEN {c \in opened \ closed : Readable(c)} ELSE {}

EpollWait ==
  /\ events = {} /\ reading = Nobody
  /\ ready \cup Level # {}
  /\ events' = ready \cup Level /\ ready' = {}
  /\ UNCHANGED <<mode, arrived, opened, closed, peerSide, received, reading>>

Handling(e) ==
  /\ e \in events /\ reading = Nobody
  /\ events' = events \ {e}
  /\ UNCHANGED <<mode, peerSide>>

(* accept() once, whatever the edge stands for, and addfd(): what is there *)
(* to read already is an edge.                                             *)
Added(c) == IF mode = "et" /\ Readable(c) THEN {c} ELSE {}

AcceptOne ==
  /\ Handling(Listener) /\ arrived # <<>>
  /\ arrived' = Tail(arrived) /\ opened' = opened \cup {Head(arrived)}
  /\ ready' = ready \cup Added(Head(arrived))
  /\ UNCHANGED <<closed, received, reading>>

(* accept() returns -1, and addfd() can do nothing with it.                *)
AcceptNone ==
  /\ Handling(Listener)
  /\ UNCHANGED <<arrived, opened, closed, ready, received, reading>>

HasPiece(c)  == received[c] < written[c]
HasFailed(c) == c \in aborted
AtEnd(c)     == c \in finished /\ ~HasPiece(c)

TakePiece(c) == HasPiece(c) /\ received' = [received EXCEPT ![c] = @ + 1] /\ UNCHANGED closed
CloseIt(c) == closed' = closed \cup {c} /\ ready' = ready \ {c} /\ UNCHANGED received

(* lt(): one recv(), which takes a piece, or returns 0 or -1.              *)
LtRecv(c) ==
  /\ mode = "lt" /\ Handling(c)
  /\ TakePiece(c) /\ UNCHANGED <<arrived, opened, ready, reading>>

LtClose(c) ==
  /\ mode = "lt" /\ Handling(c)
  /\ HasFailed(c) \/ AtEnd(c)
  /\ CloseIt(c) /\ UNCHANGED <<arrived, opened, reading>>

(* et(): while (1).                                                        *)
EtTake(c) ==
  /\ mode = "et" /\ Handling(c)
  /\ reading' = c
  /\ UNCHANGED <<arrived, opened, closed, ready, received>>

AfterOneRecv == Nobody
AfterRecv == reading

EtRecv(c) ==
  /\ reading = c /\ TakePiece(c)
  /\ reading' = AfterRecv
  /\ UNCHANGED <<mode, arrived, opened, peerSide, ready, events>>

EtAgain(c) ==
  /\ reading = c /\ ~Readable(c)
  /\ reading' = Nobody
  /\ UNCHANGED <<mode, arrived, opened, closed, peerSide, received, ready, events>>

(* After recv() has returned 0 the loop goes on: recv() on the closed      *)
(* descriptor fails, which closes it again, in vain, and ends the loop.    *)
EtClose(c) ==
  /\ reading = c /\ (HasFailed(c) \/ AtEnd(c))
  /\ CloseIt(c) /\ reading' = Nobody
  /\ UNCHANGED <<mode, arrived, opened, peerSide, events>>

ModesServer ==
  \/ EpollWait \/ AcceptOne \/ AcceptNone
  \/ \E c \in Conns : \/ LtRecv(c) \/ LtClose(c)
                      \/ EtTake(c) \/ EtRecv(c) \/ EtAgain(c) \/ EtClose(c)

ModesNext == ModesServer \/ ModesPeers

ModesSpec == ModesInit /\ [][ModesNext]_modesVars

(* The server is scheduled; nothing is assumed of the peers.               *)
ModesFairSpec == ModesSpec /\ WF_modesVars(ModesServer)
-----------------------------------------------------------------------------
(* Properties.                                                             *)

Duty == INSTANCE Reader

(* Both functions read all that comes in, whatever arrives between two     *)
(* recv() calls or before the connection was added to epoll, and close     *)
(* only what is at its end: lt() because it is told again, et() because it *)
(* goes on to EAGAIN (the comments of lines 61 and 95).                    *)
BothRead == Duty!FairSpec
=============================================================================
