---------------------------- MODULE OneShotProofs ----------------------------
(***************************************************************************)
(* OneShot's invariants for every set of descriptors and threads. A        *)
(* connection that no late thread has touched is always in exactly one     *)
(* place: armed in epoll, among the events of the batch, or with one       *)
(* thread. Arming, reporting, starting a thread and rearming move it from  *)
(* one to the next; accept() and close() create and end it. A thread that  *)
(* reads the wrong argument misleads two descriptors at most, its own and  *)
(* the one it takes, and what it does later stays with these.              *)
(***************************************************************************)
EXTENDS OneShot, FiniteSetTheorems, TLAPS

Busy == {w \in Workers : wpc[w] # "none"}

(* The descriptor a thread serves.                                         *)
Server(w) == IF wpc[w] = "start" THEN asked[w] ELSE sockfd[w]

(* A thread serves the descriptor it was started for, or misled has both. *)
Argument ==
  \A w \in Workers : wpc[w] \in {"recv", "again"} =>
    sockfd[w] = asked[w] \/ (sockfd[w] \in misled /\ asked[w] \in misled)

(* Where a connection is that is not misled.                               *)
Clean == Fds \ misled
OnlyOpen    == (armed \cup batch) \cap Clean \subseteq open
NotBoth     == armed \cap batch \cap Clean = {}
BusyOpen    == \A w \in Busy : Server(w) \in Clean => Server(w) \in open
BusyAlone   == \A w \in Busy : Server(w) \in Clean => Server(w) \notin armed \cup batch
BusyApart   == \A v, w \in Busy : Server(v) = Server(w) /\ Server(v) \in Clean => v = w
Somewhere   == \A fd \in open \cap Clean :
                 fd \in armed \cup batch \/ \E w \in Busy : Server(w) = fd
ArmedIsTold == \A fd \in armed \cap Clean : Readable(fd) => fd \in ready

Places == OnlyOpen /\ NotBoth /\ BusyOpen /\ BusyAlone /\ BusyApart /\ Somewhere /\ ArmedIsTold

(* An edge on the listener stands for a connection that waits, and batch   *)
(* is empty when epoll_wait() fills it.                                    *)
ListenEdges ==
  /\ ListenFd \in ready \cup batch => backlog >= 1
  /\ ListenFd \in ready \cap batch => backlog >= 2
BatchDone == pc = "wait" => batch = {}

Basic == TypeOK /\ ListenEdges /\ BatchDone
IInv  == Basic /\ Argument /\ Places

-----------------------------------------------------------------------------
LEMMA InitInv == Init => IInv
<1> SUFFICES ASSUME Init PROVE IInv
  OBVIOUS
<1>1. AnyFd \in Fds
  BY OneShotAssumption DEF AnyFd, OneShotAssumption
<1>2. TypeOK
  BY <1>1, OneShotAssumption DEF Init, TypeOK, OneShotAssumption
<1>3. ListenEdges /\ BatchDone
  BY DEF Init, ListenEdges, BatchDone
<1>4. Argument
  BY DEF Init, Argument
<1>5. Places
  BY OneShotAssumption DEF Init, Places, OnlyOpen, NotBoth, Clean, BusyOpen, BusyAlone, BusyApart,
       Somewhere, ArmedIsTold, Busy, OneShotAssumption
<1> QED
  BY <1>2, <1>3, <1>4, <1>5 DEF IInv, Basic

-----------------------------------------------------------------------------
(* The types and the listener's edges.                                     *)

LEMMA BasicMain ==
  ASSUME Basic, Main
  PROVE  Basic'
<1> USE OneShotAssumption DEF Basic, TypeOK, ListenEdges, BatchDone, OneShotAssumption
<1>1. CASE EpollWait
  BY <1>1 DEF EpollWait, Disarmed, clientVars, workerVars
<1>2. ASSUME NEW s \in batch, Accept(s) PROVE Basic'
  <2>1. PICK fd \in Fds \ open : open' = open \cup {fd} /\ armed' = armed \cup {fd}
    BY <1>2 DEF Accept
  <2>2. /\ s = ListenFd /\ batch' = batch \ {s} /\ backlog' = backlog - 1
        /\ pc' = IF batch = {s} THEN "wait" ELSE "scan"
        /\ UNCHANGED <<clientVars, ready, slot, workerVars>>
    BY <1>2 DEF Accept, Handling, IsListener
  <2> QED
    BY <2>1, <2>2 DEF clientVars, workerVars
<1>3. ASSUME NEW s \in batch, AcceptFails(s) PROVE Basic'
  BY <1>3 DEF AcceptFails, Handling, clientVars, epollVars, workerVars
<1>4. ASSUME NEW s \in batch, NEW w \in Workers, Spawn(s, w) PROVE Basic'
  BY <1>4 DEF Spawn, Handling, IsListener, clientVars, epollVars
<1> QED
  BY <1>1, <1>2, <1>3, <1>4 DEF Main

LEMMA BasicPeers ==
  ASSUME Basic, Peers
  PROVE  Basic'
<1> USE OneShotAssumption DEF Basic, TypeOK, ListenEdges, BatchDone, OneShotAssumption
<1>1. CASE Connect
  <2>1. /\ backlog \in 0..MaxBacklog /\ MaxBacklog \in Nat /\ backlog < MaxBacklog
        /\ backlog' = backlog + 1
    BY <1>1 DEF Connect
  <2>2. backlog' \in 0..MaxBacklog
    BY <2>1
  <2>3. ready' \subseteq armed /\ ready' \subseteq ready \cup {ListenFd}
        /\ UNCHANGED <<open, clientVars, armed, mainVars, workerVars>>
    BY <1>1 DEF Connect, Edge
  <2>4. TypeOK'
    BY <2>2, <2>3 DEF clientVars, mainVars, workerVars
  <2>5. ListenEdges'
    BY <2>1, <2>3 DEF mainVars
  <2> QED
    BY <2>3, <2>4, <2>5 DEF mainVars
<1>2. ASSUME NEW fd \in Fds, Send(fd) \/ Hangup(fd) PROVE Basic'
  BY <1>2 DEF Send, Hangup, Edge, mainVars, workerVars
<1> QED
  BY <1>1, <1>2 DEF Peers

LEMMA BasicWorker ==
  ASSUME Basic, NEW w \in Workers, Worker(w)
  PROVE  Basic'
<1> USE OneShotAssumption DEF Basic, TypeOK, ListenEdges, BatchDone, OneShotAssumption
<1>0. AnyFd \in Fds
  BY DEF AnyFd
<1>1. CASE Start(w)
  BY <1>1 DEF Start, clientVars, epollVars, mainVars
<1>2. CASE RecvData(w)
  BY <1>2 DEF RecvData, epollVars, mainVars, workerVars
<1>3. CASE RecvEnd(w)
  BY <1>0, <1>3 DEF RecvEnd, Ends, mainVars
<1>4. CASE RecvAgain(w)
  BY <1>4 DEF RecvAgain, clientVars, epollVars, mainVars
<1>5. CASE ResetOneshot(w)
  BY <1>0, <1>5 DEF ResetOneshot, Rearmed, Ends, clientVars, mainVars
<1> QED
  BY <1>1, <1>2, <1>3, <1>4, <1>5 DEF Worker

LEMMA BasicStep == Basic /\ [Next]_vars => Basic'
<1>1. Basic /\ UNCHANGED vars => Basic'
  BY DEF Basic, TypeOK, ListenEdges, BatchDone, vars, clientVars, epollVars, mainVars, workerVars
<1> QED
  BY <1>1, BasicMain, BasicPeers, BasicWorker DEF Next

-----------------------------------------------------------------------------
(* The peers add edges, and nothing else that matters here.                *)

LEMMA PeersInv ==
  ASSUME IInv, Basic', Peers
  PROVE  IInv'
<1>1. CASE Connect
  <2>0. /\ backlog' = backlog + 1 /\ ready' \subseteq ready \cup {ListenFd} /\ ready' \subseteq armed
        /\ backlog \in 0..MaxBacklog /\ backlog' \in 0..MaxBacklog
        /\ UNCHANGED <<open, clientVars, armed, mainVars, workerVars>>
    <3>1. backlog < MaxBacklog /\ backlog' = backlog + 1 /\ ready' = ready \cup ({ListenFd} \cap armed)
          /\ UNCHANGED <<open, clientVars, armed, mainVars, workerVars>>
      BY <1>1 DEF Connect, Edge
    <3>2. backlog \in 0..MaxBacklog /\ ready \subseteq armed /\ MaxBacklog \in Nat
      BY OneShotAssumption DEF IInv, Basic, TypeOK, OneShotAssumption
    <3>3. backlog' \in 0..MaxBacklog
      BY <3>1, <3>2
    <3> QED
      BY <3>1, <3>2, <3>3
  <2>2. Argument'
    BY <1>1 DEF IInv, Argument, Connect, mainVars, workerVars
  <2>3. Places'
    BY <1>1, OneShotAssumption DEF IInv, Places, OnlyOpen, NotBoth, Clean, BusyOpen, BusyAlone, BusyApart,
         Somewhere, ArmedIsTold, Busy, Server, Readable, Connect, Edge, clientVars, mainVars,
         workerVars, OneShotAssumption
  <2> QED
    BY <2>2, <2>3 DEF IInv
<1>2. ASSUME NEW fd \in Fds, Send(fd) \/ Hangup(fd)
      PROVE  IInv'
  <2>0. UNCHANGED <<backlog, open, armed, mainVars, workerVars>> /\ fd \in open /\ Edge(fd)
        /\ input \subseteq input' /\ gone \subseteq gone'
        /\ input' \subseteq input \cup {fd} /\ gone' \subseteq gone \cup {fd}
    BY <1>2 DEF Send, Hangup
  <2>2. Argument'
    BY <2>0 DEF IInv, Argument, mainVars, workerVars
  <2>3. Places'
    BY <2>0, OneShotAssumption DEF IInv, Places, OnlyOpen, NotBoth, Clean, BusyOpen, BusyAlone, BusyApart,
         Somewhere, ArmedIsTold, Busy, Server, Readable, Edge, mainVars,
         workerVars, OneShotAssumption
  <2> QED
    BY <2>2, <2>3 DEF IInv
<1> QED
  BY <1>1, <1>2 DEF Peers

-----------------------------------------------------------------------------
(* The main thread.                                                        *)

LEMMA EpollWaitInv ==
  ASSUME IInv, Basic', EpollWait
  PROVE  IInv'
<1>1. /\ batch = {} /\ batch' = ready /\ ready' = {} /\ armed' = armed \ (ready \cap Fds)
      /\ ready \subseteq armed
      /\ UNCHANGED <<open, input, gone, wpc, sockfd, asked, misled>>
  BY DEF IInv, Basic, TypeOK, BatchDone, EpollWait, Disarmed, clientVars, workerVars
<1>2. Argument'
  BY <1>1 DEF IInv, Argument
<1>3. /\ Busy' = Busy /\ Clean' = Clean /\ \A w \in Workers : Server(w)' = Server(w)
      /\ \A fd : Readable(fd)' = Readable(fd)
  BY <1>1 DEF Busy, Clean, Server, Readable
<1>4. (armed' \cup batch') \cap Fds = armed \cap Fds /\ armed' \cap batch' \cap Fds = {}
  BY <1>1
<1>5. Clean \subseteq Fds
  BY DEF Clean
<1>6. Places'
  <2>1. OnlyOpen' /\ NotBoth' /\ BusyOpen' /\ BusyApart'
    BY <1>1, <1>3, <1>4, <1>5 DEF IInv, Places, OnlyOpen, NotBoth, BusyOpen, BusyApart, Busy
  <2>2. BusyAlone'
    BY <1>1, <1>3, <1>4, <1>5 DEF IInv, Places, BusyAlone, Busy
  <2>3. Somewhere'
    BY <1>1, <1>3, <1>4, <1>5 DEF IInv, Places, Somewhere, Busy
  <2>4. ArmedIsTold'
    BY <1>1, <1>3, <1>5 DEF IInv, Places, ArmedIsTold
  <2> QED
    BY <2>1, <2>2, <2>3, <2>4 DEF Places
<1> QED
  BY <1>2, <1>6 DEF IInv

(* The new descriptor was closed, and therefore nowhere.                   *)
LEMMA AcceptInv ==
  ASSUME IInv, Basic', NEW s \in batch, Accept(s)
  PROVE  IInv'
<1>1. PICK fd \in Fds \ open : open' = open \cup {fd} /\ armed' = armed \cup {fd}
  BY DEF Accept
<1>2. /\ s = ListenFd /\ batch' = batch \ {s} /\ backlog' = backlog - 1
      /\ pc' = IF batch = {s} THEN "wait" ELSE "scan"
      /\ UNCHANGED <<clientVars, ready, slot, workerVars>>
  BY DEF Accept, Handling, IsListener
<1>4. Argument'
  BY <1>2 DEF IInv, Argument, workerVars
<1>5. Places'
  BY <1>1, <1>2, OneShotAssumption DEF IInv, Basic, TypeOK, Places, OnlyOpen, NotBoth, Clean, BusyOpen, BusyAlone,
       BusyApart, Somewhere, ArmedIsTold, Busy, Server, Readable, clientVars, workerVars,
       OneShotAssumption
<1> QED
  BY <1>4, <1>5 DEF IInv

LEMMA AcceptFailsInv ==
  ASSUME IInv, Basic', NEW s \in batch, AcceptFails(s)
  PROVE  IInv'
<1>1. /\ s = ListenFd /\ batch' = batch \ {s}
      /\ pc' = IF batch = {s} THEN "wait" ELSE "scan"
      /\ UNCHANGED <<backlog, open, clientVars, epollVars, slot, workerVars>>
  BY DEF AcceptFails, Handling, IsListener
<1>3. Argument'
  BY <1>1 DEF IInv, Argument, workerVars
<1>4. Places'
  BY <1>1, OneShotAssumption DEF IInv, Basic, TypeOK, Places, OnlyOpen, NotBoth, Clean, BusyOpen, BusyAlone, BusyApart,
       Somewhere, ArmedIsTold, Busy, Server, Readable, clientVars, epollVars, workerVars,
       OneShotAssumption
<1> QED
  BY <1>3, <1>4 DEF IInv

(* From the batch to a thread. What slot held is lost.                     *)
LEMMA SpawnInv ==
  ASSUME IInv, Basic', NEW s \in batch, NEW w \in Workers, Spawn(s, w)
  PROVE  IInv'
<1>1. /\ s \in Fds /\ batch' = batch \ {s} /\ wpc[w] = "none"
      /\ pc' = IF batch = {s} THEN "wait" ELSE "scan"
      /\ slot' = s
      /\ wpc' = [wpc EXCEPT ![w] = "start"] /\ asked' = [asked EXCEPT ![w] = s]
      /\ UNCHANGED <<backlog, open, clientVars, epollVars, sockfd, misled>>
  BY DEF Spawn, Handling, IsListener, IInv, Basic, TypeOK
<1>3. Argument'
  BY <1>1 DEF IInv, Basic, TypeOK, Argument
<1>4. \A v \in Workers : v # w => wpc'[v] = wpc[v] /\ Server(v)' = Server(v)
  BY <1>1 DEF IInv, Basic, TypeOK, Server
<1>5. Busy' = Busy \cup {w} /\ w \notin Busy /\ Server(w)' = s
  BY <1>1, <1>4 DEF IInv, Basic, TypeOK, Busy, Server
<1>6. Places'
  BY <1>1, <1>4, <1>5 DEF IInv, Places, OnlyOpen, NotBoth, Clean, BusyOpen, BusyAlone, BusyApart,
       Somewhere, ArmedIsTold, Busy, Readable, clientVars, epollVars
<1> QED
  BY <1>3, <1>6 DEF IInv

-----------------------------------------------------------------------------
(* The workers.                                                            *)

(* Reading slot misleads the thread, or changes nothing that matters.      *)
LEMMA StartInv ==
  ASSUME IInv, Basic', NEW w \in Workers, Start(w)
  PROVE  IInv'
<1>1. /\ wpc[w] = "start" /\ slot \in Fds /\ asked[w] \in Fds
      /\ sockfd' = [sockfd EXCEPT ![w] = slot] /\ wpc' = [wpc EXCEPT ![w] = "recv"]
      /\ misled' = misled \cup (IF slot = asked[w] THEN {} ELSE {slot, asked[w]})
      /\ UNCHANGED <<backlog, open, clientVars, epollVars, mainVars, asked>>
  BY DEF IInv, Basic, TypeOK, Start
<1>2. slot = asked[w] \/ (slot \in misled' /\ asked[w] \in misled')
  BY <1>1
<1>3. \A v \in Workers : v # w => wpc'[v] = wpc[v] /\ sockfd'[v] = sockfd[v]
  BY <1>1 DEF IInv, Basic, TypeOK
<1>4. wpc'[w] = "recv" /\ sockfd'[w] = slot /\ misled \subseteq misled' /\ asked' = asked
  BY <1>1 DEF IInv, Basic, TypeOK
<1>5. Argument'
  BY <1>2, <1>3, <1>4 DEF IInv, Argument
<1>6. Busy' = Busy /\ Clean' \subseteq Clean
  BY <1>1, <1>3, <1>4 DEF Busy, Clean
<1>7. \A v \in Workers : \/ Server(v)' = Server(v)
                         \/ Server(v)' \notin Clean' /\ Server(v) \notin Clean'
  BY <1>1, <1>2, <1>3, <1>4 DEF Server, Clean
<1>8. UNCHANGED <<open, input, gone, armed, ready, batch>>
  BY <1>1 DEF clientVars, epollVars, mainVars
<1>9. Places'
  <2>1. OnlyOpen' /\ NotBoth'
    BY <1>6, <1>8 DEF IInv, Places, OnlyOpen, NotBoth
  <2>2. BusyOpen' /\ BusyAlone'
    BY <1>6, <1>7, <1>8 DEF IInv, Places, BusyOpen, BusyAlone, Busy
  <2>3. BusyApart'
    BY <1>6, <1>7 DEF IInv, Places, BusyApart, Busy
  <2>4. Somewhere'
    BY <1>6, <1>7, <1>8 DEF IInv, Places, Somewhere, Busy
  <2>5. ArmedIsTold'
    BY <1>6, <1>8 DEF IInv, Places, ArmedIsTold, Readable
  <2> QED
    BY <2>1, <2>2, <2>3, <2>4, <2>5 DEF Places
<1> QED
  BY <1>5, <1>9 DEF IInv

LEMMA RecvDataInv ==
  ASSUME IInv, Basic', NEW w \in Workers, RecvData(w)
  PROVE  IInv'
<1>2. Argument'
  BY DEF IInv, Argument, RecvData, mainVars, workerVars
<1>3. Places'
  BY DEF IInv, Places, OnlyOpen, NotBoth, Clean, BusyOpen, BusyAlone, BusyApart, Somewhere,
       ArmedIsTold, Busy, Server, Readable, RecvData, epollVars, mainVars, workerVars
<1> QED
  BY <1>2, <1>3 DEF IInv

LEMMA RecvAgainInv ==
  ASSUME IInv, Basic', NEW w \in Workers, RecvAgain(w)
  PROVE  IInv'
<1>2. Argument'
  BY DEF IInv, Basic, TypeOK, Argument, RecvAgain, mainVars
<1>3. Busy' = Busy /\ \A v \in Workers : Server(v)' = Server(v)
  BY DEF IInv, Basic, TypeOK, Busy, Server, RecvAgain
<1>4. Places'
  BY <1>3 DEF IInv, Places, OnlyOpen, NotBoth, Clean, BusyOpen, BusyAlone, BusyApart, Somewhere,
       ArmedIsTold, Busy, Readable, RecvAgain, clientVars, epollVars, mainVars
<1> QED
  BY <1>2, <1>4 DEF IInv

LEMMA EndsParts ==
  ASSUME IInv, NEW w \in Workers, wpc[w] \in {"recv", "again"}, Ends(w), UNCHANGED slot
  PROVE  /\ w \in Busy /\ Server(w) = sockfd[w] /\ Clean' = Clean
         /\ Busy' = Busy \ {w} /\ \A v \in Busy \ {w} : Server(v)' = Server(v)
         /\ wpc' \in [Workers -> {"none", "start", "recv", "again"}]
         /\ sockfd' \in [Workers -> Fds] /\ asked' \in [Workers -> Fds]
         /\ Argument'
<1>1. AnyFd \in Fds
  BY OneShotAssumption DEF AnyFd, OneShotAssumption
<1>2. w \in Busy /\ Server(w) = sockfd[w] /\ Clean' = Clean
  BY DEF Busy, Server, Clean, Ends
<1>3. Busy' = Busy \ {w} /\ \A v \in Busy \ {w} : Server(v)' = Server(v)
  BY DEF IInv, Basic, TypeOK, Busy, Server, Ends
<1>4. /\ wpc' \in [Workers -> {"none", "start", "recv", "again"}]
      /\ sockfd' \in [Workers -> Fds] /\ asked' \in [Workers -> Fds]
  BY <1>1 DEF IInv, Basic, TypeOK, Ends
<1>5. Argument'
  BY DEF IInv, Basic, TypeOK, Argument, Ends
<1> QED
  BY <1>2, <1>3, <1>4, <1>5

(* close(): a clean descriptor was with this thread, and then is nowhere.  *)
LEMMA RecvEndInv ==
  ASSUME IInv, Basic', NEW w \in Workers, RecvEnd(w)
  PROVE  IInv'
<1> DEFINE fd == sockfd[w]
<1>1. /\ w \in Busy /\ Server(w) = fd /\ Clean' = Clean
      /\ Busy' = Busy \ {w} /\ \A v \in Busy \ {w} : Server(v)' = Server(v)
      /\ wpc' \in [Workers -> {"none", "start", "recv", "again"}]
      /\ sockfd' \in [Workers -> Fds] /\ asked' \in [Workers -> Fds]
      /\ Argument'
  BY EndsParts DEF RecvEnd, mainVars
<1>2. /\ fd \in Fds /\ fd \in gone \ input
      /\ open' = open \ {fd} /\ gone' = gone \ {fd}
      /\ armed' = armed \ {fd} /\ ready' = ready \ {fd}
      /\ UNCHANGED <<backlog, input, mainVars>>
  BY DEF RecvEnd, IInv, Basic, TypeOK
<1>4. fd \in Clean => fd \notin batch
  BY <1>1 DEF IInv, Places, BusyAlone
<1>5. fd \in Clean => \A v \in Busy \ {w} : Server(v) # fd
  BY <1>1 DEF IInv, Places, BusyApart
<1>6. Places'
  <2>1. OnlyOpen' /\ NotBoth' /\ BusyOpen' /\ BusyAlone' /\ BusyApart'
    BY <1>1, <1>2, <1>4, <1>5 DEF IInv, Places, OnlyOpen, NotBoth, BusyOpen, BusyAlone,
         BusyApart, mainVars
  <2>2. Somewhere'
    BY <1>1, <1>2 DEF IInv, Places, Somewhere, mainVars
  <2>3. ArmedIsTold'
    BY <1>1, <1>2 DEF IInv, Places, ArmedIsTold, Readable
  <2> QED
    BY <2>1, <2>2, <2>3 DEF Places
<1> QED
  BY <1>1, <1>6 DEF IInv

(* From the thread back to epoll, which tells at once what has come since. *)
LEMMA ResetInv ==
  ASSUME IInv, Basic', NEW w \in Workers, ResetOneshot(w)
  PROVE  IInv'
<1> DEFINE fd == sockfd[w]
<1>1. /\ w \in Busy /\ Server(w) = fd /\ Clean' = Clean
      /\ Busy' = Busy \ {w} /\ \A v \in Busy \ {w} : Server(v)' = Server(v)
      /\ wpc' \in [Workers -> {"none", "start", "recv", "again"}]
      /\ sockfd' \in [Workers -> Fds] /\ asked' \in [Workers -> Fds]
      /\ Argument'
  BY EndsParts DEF ResetOneshot, mainVars
<1>2. fd \in Fds /\ (fd \in Clean => fd \in open)
  BY <1>1 DEF IInv, Basic, TypeOK, Places, BusyOpen
<1>3. /\ armed \subseteq armed' /\ armed' \subseteq armed \cup {fd}
      /\ ready \subseteq ready' /\ ready' \subseteq ready \cup {fd}
      /\ fd \in Clean => fd \in armed' /\ (Readable(fd) => fd \in ready')
      /\ UNCHANGED <<backlog, open, clientVars, mainVars>>
  BY <1>2 DEF ResetOneshot, Rearmed
<1>5. fd \in Clean => fd \notin batch /\ \A v \in Busy \ {w} : Server(v) # fd
  BY <1>1 DEF IInv, Places, BusyAlone, BusyApart
<1>6. Places'
  <2>1. OnlyOpen' /\ NotBoth' /\ BusyOpen' /\ BusyAlone' /\ BusyApart'
    BY <1>1, <1>2, <1>3, <1>5 DEF IInv, Places, OnlyOpen, NotBoth, BusyOpen, BusyAlone,
         BusyApart, mainVars
  <2>2. Somewhere'
    BY <1>1, <1>3 DEF IInv, Places, Somewhere, mainVars
  <2>3. ArmedIsTold'
    BY <1>1, <1>3 DEF IInv, Places, ArmedIsTold, Readable, clientVars
  <2> QED
    BY <2>1, <2>2, <2>3 DEF Places
<1> QED
  BY <1>1, <1>6 DEF IInv

-----------------------------------------------------------------------------
LEMMA StutterInv == ASSUME IInv, Basic', UNCHANGED vars PROVE IInv'
<1> USE DEF vars, clientVars, epollVars, mainVars, workerVars
<1>2. Argument'
  BY DEF IInv, Argument
<1>3. Places'
  BY DEF IInv, Places, OnlyOpen, NotBoth, Clean, BusyOpen, BusyAlone, BusyApart, Somewhere,
       ArmedIsTold, Busy, Server, Readable
<1> QED
  BY <1>2, <1>3 DEF IInv

LEMMA NextInv ==
  ASSUME IInv, [Next]_vars
  PROVE  IInv'
<1>0. Basic'
  BY BasicStep DEF IInv
<1>1. CASE Main
  BY <1>0, <1>1, EpollWaitInv, AcceptInv, AcceptFailsInv, SpawnInv DEF Main
<1>2. CASE Peers
  BY <1>0, <1>2, PeersInv
<1>3. CASE \E w \in Workers : Worker(w)
  BY <1>0, <1>3, StartInv, RecvDataInv, RecvEndInv, RecvAgainInv, ResetInv DEF Worker
<1>4. CASE UNCHANGED vars
  BY <1>0, <1>4, StutterInv
<1> QED
  BY <1>1, <1>2, <1>3, <1>4 DEF Next

(* The invariant, with the race of lines 149-151 and without it.           *)
THEOREM Inductive == Spec => []IInv
<1>1. IInv /\ [Next]_vars => IInv'
  BY NextInv
<1> QED
  BY <1>1, InitInv, PTL DEF Spec

-----------------------------------------------------------------------------
(* What follows from it.                                                   *)

LEMMA AtMostOne ==
  ASSUME NEW S, \A x, y \in S : x = y
  PROVE  S = {} \/ (S # {} /\ \E x \in S : S = {x})
OBVIOUS

LEMMA ServingIsServer ==
  ASSUME NEW fd
  PROVE  Serving(fd) = {w \in Busy : Server(w) = fd}
BY DEF Serving, Busy, Server

LEMMA OneWorkerFollows == ASSUME IInv PROVE OneWorkerPerFd
<1> SUFFICES ASSUME NEW fd \in Fds \ misled
             PROVE  Cardinality(Serving(fd)) + Cardinality({fd} \cap (ready \cup batch)) <= 1
  BY DEF OneWorkerPerFd
<1>1. {fd} \cap (ready \cup batch) = {} \/ {fd} \cap (ready \cup batch) = {fd}
  OBVIOUS
<1>2. Serving(fd) = {} \/ \E w \in Workers : Serving(fd) = {w}
  BY ServingIsServer, AtMostOne DEF IInv, Places, BusyApart, Busy, Clean
<1>3. Serving(fd) # {} => {fd} \cap (ready \cup batch) = {}
  BY ServingIsServer DEF IInv, Basic, TypeOK, Places, BusyAlone, Clean
<1>4. Cardinality({}) = 0 /\ \A x : Cardinality({x}) = 1
  BY FS_EmptySet, FS_Singleton
<1>5. /\ Cardinality(Serving(fd)) \in {0, 1}
      /\ Cardinality({fd} \cap (ready \cup batch)) \in {0, 1}
      /\ Serving(fd) = {} => Cardinality(Serving(fd)) = 0
      /\ {fd} \cap (ready \cup batch) = {} => Cardinality({fd} \cap (ready \cup batch)) = 0
  BY <1>1, <1>2, <1>4
<1>6. Cardinality(Serving(fd)) = 0 \/ Cardinality({fd} \cap (ready \cup batch)) = 0
  BY <1>3, <1>5
<1> QED
  BY <1>5, <1>6

LEMMA NobodyFollows == ASSUME IInv PROVE NobodyForgotten
<1> SUFFICES ASSUME NEW fd \in open \ misled, Readable(fd)
             PROVE  fd \in ready \cup batch \/ Serving(fd) # {}
  BY DEF NobodyForgotten
<1>1. fd \in Fds
  BY DEF IInv, Basic, TypeOK
<1> QED
  BY <1>1, ServingIsServer DEF IInv, Places, Somewhere, ArmedIsTold, Clean

(* Every variable has its type, and the accept() of line 140 finds a       *)
(* connection.                                                             *)
THEOREM BasicCorrect == Spec => []Basic
<1>1. Init => Basic
  BY InitInv DEF IInv
<1> QED
  BY <1>1, BasicStep, PTL DEF Spec

(* Every variable has its type, whatever the order of steps.               *)
THEOREM TypeCorrect == Spec => []TypeOK
<1>1. Basic => TypeOK
  BY DEF Basic
<1> QED
  BY <1>1, BasicCorrect, PTL

(* A descriptor that no late thread has touched never has two threads, nor *)
(* a thread and an event about to start another (lines 38-55, 66-89), for  *)
(* any number of both and through every race on the others.                *)
THEOREM OneWorkerCorrect == Spec => []OneWorkerPerFd
<1>1. IInv => OneWorkerPerFd
  BY OneWorkerFollows
<1> QED
  BY <1>1, Inductive, PTL

(* What arrives on such a descriptor between EAGAIN and reset_oneshot is   *)
(* not lost (lines 75-82, 49-55).                                          *)
THEOREM NobodyForgottenCorrect == Spec => []NobodyForgotten
<1>1. IInv => NobodyForgotten
  BY NobodyFollows
<1> QED
  BY <1>1, Inductive, PTL
=============================================================================
