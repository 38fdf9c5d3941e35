------------------------------- MODULE OneShot -------------------------------
(***************************************************************************)
(* ch9/9-4_EPOLLONESHOT.cpp: the main thread accepts and, for each event   *)
(* on a connection, starts a worker thread that reads until recv() finds   *)
(* nothing. EPOLLONESHOT disarms the descriptor when its event is reported *)
(* and the worker arms it again, so that one thread reads it at a time.    *)
(*                                                                         *)
(* A worker gets a pointer to one variable on the main thread's stack,     *)
(* slot, that the next event overwrites. A worker that reads it too late   *)
(* serves another descriptor than its own: misled keeps the descriptors    *)
(* that met in this race. Descriptors are numbers that are used again      *)
(* after close().                                                          *)
(***************************************************************************)
EXTENDS Integers, FiniteSets

CONSTANTS
  Fds,          (* descriptors for connections                             *)
  ListenFd,
  Workers,      (* bound: threads alive at the same time                   *)
  Leavers,      (* bound: descriptors whose peers may close                *)
  MaxBacklog    (* bound: connections waiting for accept()                 *)

ASSUME OneShotAssumption ==
  /\ Fds \subseteq Nat /\ IsFiniteSet(Fds) /\ Fds # {}
  /\ ListenFd \notin Fds
  /\ Leavers \subseteq Fds /\ MaxBacklog \in Nat

VARIABLES
  backlog,      (* number of connections waiting for accept()              *)
  open,         (* accepted connections                                    *)
  input,        (* connections with bytes to read                          *)
  gone,         (* connections whose peer has closed                       *)
  armed,        (* descriptors whose edges epoll takes note of             *)
  ready,        (* edges not reported                                      *)
  batch,        (* events[] not handled                                    *)
  pc,           (* main: "wait" or "scan"                                  *)
  slot,         (* fds_for_new_worker.sockfd                               *)
  wpc,          (* workers: "none", "start", "recv", "again" (after EAGAIN)*)
  sockfd,       (* the worker's own copy                                   *)
  asked,        (* history: the descriptor it was started for              *)
  misled        (* history: descriptors that a late thread was started for *)
                (* or took instead                                         *)

clientVars == <<input, gone>>
epollVars  == <<armed, ready>>
mainVars   == <<batch, pc, slot>>
workerVars == <<wpc, sockfd, asked, misled>>
vars == <<backlog, open, clientVars, epollVars, mainVars, workerVars>>

(* The type of each variable.                                              *)
TypeOK ==
  /\ backlog \in 0..MaxBacklog
  /\ open \subseteq Fds /\ input \subseteq open /\ gone \subseteq open
  /\ armed \subseteq Fds \cup {ListenFd}
  /\ ready \subseteq armed /\ batch \subseteq Fds \cup {ListenFd}
  /\ pc \in {"wait", "scan"}
  /\ slot \in Fds
  /\ wpc \in [Workers -> {"none", "start", "recv", "again"}]
  /\ sockfd \in [Workers -> Fds] /\ asked \in [Workers -> Fds]
  /\ misled \subseteq Fds

AnyFd == CHOOSE fd \in Fds : TRUE

Init ==
  /\ backlog = 0 /\ open = {} /\ input = {} /\ gone = {}
  /\ armed = {ListenFd} /\ ready = {} /\ batch = {} /\ pc = "wait"
  /\ slot = AnyFd
  /\ wpc = [w \in Workers |-> "none"]
  /\ sockfd = [w \in Workers |-> AnyFd] /\ asked = [w \in Workers |-> AnyFd]
  /\ misled = {}

Readable(fd) == fd \in open /\ fd \in input \cup gone

-----------------------------------------------------------------------------
(* The peers.                                                              *)

Edge(fd) == ready' = ready \cup ({fd} \cap armed)

Connect ==
  /\ backlog < MaxBacklog /\ backlog' = backlog + 1
  /\ Edge(ListenFd)
  /\ UNCHANGED <<open, clientVars, armed, mainVars, workerVars>>

Send(fd) ==
  /\ fd \in open \ (gone \cup input)
  /\ input' = input \cup {fd} /\ Edge(fd)
  /\ UNCHANGED <<backlog, open, gone, armed, mainVars, workerVars>>

Hangup(fd) ==
  /\ fd \in (open \cap Leavers) \ gone
  /\ gone' = gone \cup {fd} /\ Edge(fd)
  /\ UNCHANGED <<backlog, open, input, armed, mainVars, workerVars>>

Peers == Connect \/ \E fd \in Fds : Send(fd) \/ Hangup(fd)

-----------------------------------------------------------------------------
(* The main thread.                                                        *)

NotDisarmed(events) == armed
Disarmed(events) == armed \ (events \cap Fds)

EpollWait ==
  /\ pc = "wait" /\ ready # {}
  /\ batch' = ready /\ ready' = {} /\ armed' = Disarmed(ready)
  /\ pc' = "scan"
  /\ UNCHANGED <<backlog, open, clientVars, slot, workerVars>>

Handling(s) ==
  /\ pc = "scan" /\ s \in batch
  /\ batch' = batch \ {s}
  /\ pc' = IF batch = {s} THEN "wait" ELSE "scan"

NeverListener(s) == FALSE
IsListener(s) == s = ListenFd

(* accept() once for the edge, and addfd with oneshot.                     *)
Accept(s) ==
  /\ Handling(s) /\ IsListener(s)
  /\ \E fd \in Fds \ open :
       /\ \A g \in Fds \ open : fd <= g
       /\ open' = open \cup {fd} /\ armed' = armed \cup {fd}
  /\ backlog' = backlog - 1
  /\ UNCHANGED <<clientVars, ready, slot, workerVars>>

(* accept() returns -1, and addfd does nothing with it.                    *)
AcceptFails(s) ==
  /\ Handling(s) /\ IsListener(s) /\ open = Fds
  /\ UNCHANGED <<backlog, open, clientVars, epollVars, slot, workerVars>>

Spawn(s, w) ==
  /\ Handling(s) /\ ~IsListener(s) /\ wpc[w] = "none"
  /\ slot' = s
  /\ wpc' = [wpc EXCEPT ![w] = "start"] /\ asked' = [asked EXCEPT ![w] = s]
  /\ UNCHANGED <<backlog, open, clientVars, epollVars, sockfd, misled>>

Main ==
  \/ EpollWait
  \/ \E s \in batch : Accept(s) \/ AcceptFails(s) \/ \E w \in Workers : Spawn(s, w)

-----------------------------------------------------------------------------
(* A worker.                                                               *)

Start(w) ==
  /\ wpc[w] = "start"
  /\ sockfd' = [sockfd EXCEPT ![w] = slot] /\ wpc' = [wpc EXCEPT ![w] = "recv"]
  /\ misled' = misled \cup (IF slot = asked[w] THEN {} ELSE {slot, asked[w]})
  /\ UNCHANGED <<backlog, open, clientVars, epollVars, mainVars, asked>>

(* The end of a thread: what the model keeps of it is cleared.             *)
Ends(w) ==
  /\ wpc' = [wpc EXCEPT ![w] = "none"]
  /\ sockfd' = [sockfd EXCEPT ![w] = AnyFd] /\ asked' = [asked EXCEPT ![w] = AnyFd]
  /\ UNCHANGED misled

RecvData(w) ==
  /\ wpc[w] = "recv" /\ sockfd[w] \in input
  /\ input' = input \ {sockfd[w]}
  /\ UNCHANGED <<backlog, open, gone, epollVars, mainVars, workerVars>>

(* recv() returns 0. close() takes the descriptor out of epoll.            *)
RecvEnd(w) ==
  LET fd == sockfd[w] IN
  /\ wpc[w] = "recv" /\ fd \in gone \ input
  /\ open' = open \ {fd} /\ gone' = gone \ {fd}
  /\ armed' = armed \ {fd} /\ ready' = ready \ {fd}
  /\ Ends(w)
  /\ UNCHANGED <<backlog, input, mainVars>>

RecvAgain(w) ==
  /\ wpc[w] = "recv" /\ sockfd[w] \in open /\ ~Readable(sockfd[w])
  /\ wpc' = [wpc EXCEPT ![w] = "again"]
  /\ UNCHANGED <<backlog, open, clientVars, epollVars, mainVars, sockfd, asked, misled>>

(* reset_oneshot: EPOLL_CTL_MOD reports what came since. On a descriptor   *)
(* closed meanwhile it fails.                                              *)
RearmedNothing(fd) == {}
Rearmed(fd) == {fd} \cap open

ResetOneshot(w) ==
  LET fd == sockfd[w] IN
  /\ wpc[w] = "again"
  /\ armed' = armed \cup Rearmed(fd)
  /\ ready' = ready \cup {f \in Rearmed(fd) : Readable(f)}
  /\ Ends(w)
  /\ UNCHANGED <<backlog, open, clientVars, mainVars>>

(* recv() on a descriptor that another thread closed fails with EBADF, for *)
(* ever: no action, the worker stays.                                      *)
Worker(w) == Start(w) \/ RecvData(w) \/ RecvEnd(w) \/ RecvAgain(w) \/ ResetOneshot(w)

Next == Main \/ Peers \/ \E w \in Workers : Worker(w)

Spec == Init /\ [][Next]_vars

(* Every thread runs; nothing is assumed of the peers.                     *)
FairSpec == Spec /\ WF_vars(Main) /\ \A w \in Workers : WF_vars(Worker(w))
-----------------------------------------------------------------------------
(* Properties.                                                             *)

Serving(fd) == {w \in Workers : IF wpc[w] = "start" THEN asked[w] = fd
                                ELSE wpc[w] # "none" /\ sockfd[w] = fd}

(* A descriptor that no late thread has touched never has two threads that *)
(* read it, nor one thread and an event about to start another, through    *)
(* every order of reports, EAGAINs, rearmings, closes and reuses of the    *)
(* number (lines 38-55, 66-89), and whatever the misled threads do.        *)
OneWorkerPerFd ==
  \A fd \in Fds \ misled :
    Cardinality(Serving(fd)) + Cardinality({fd} \cap (ready \cup batch)) <= 1

(* A connection with something to read that no late thread has touched has *)
(* a thread on it or an event on its way: what arrives between EAGAIN and  *)
(* reset_oneshot is not lost.                                              *)
NobodyForgotten ==
  \A fd \in open \ misled : Readable(fd) => fd \in ready \cup batch \/ Serving(fd) # {}

(* What a connection sends is read, unless a late thread has touched it or *)
(* its event waits for one of the Workers, a bound that the code has not.  *)
Waits(fd) == fd \in ready \cup batch /\ \A w \in Workers : wpc[w] # "none"
InputRead == \A fd \in Fds : fd \in input ~> fd \notin input \/ fd \in misled \/ Waits(fd)

(* Line 150: the thread that is started for sockfd serves sockfd.          *)
WorkerServesItsFd == \A w \in Workers : wpc[w] \in {"recv", "again"} => sockfd[w] = asked[w]
=============================================================================
