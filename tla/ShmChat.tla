------------------------------- MODULE ShmChat -------------------------------
(***************************************************************************)
(* The multi-process chat room of ch13/13-4_shm_communication.cpp. The     *)
(* parent accepts and forks one child per connection; child idx reads its  *)
(* client's text into segment idx of the shared memory and writes idx to   *)
(* its pipe; the parent passes idx on to the other children, which send    *)
(* the segment to their clients. The parent keeps users dense by moving    *)
(* the last entry into a hole; the children keep the idx they were forked  *)
(* with.                                                                   *)
(*                                                                         *)
(* Listening tells whether the socket listens. The source never calls      *)
(* listen(): as it stands it is the instance with FALSE, in which no       *)
(* connection ever comes. Every descriptor is edge-triggered: an edge is   *)
(* reported once, and then one recv() is made.                             *)
(***************************************************************************)
EXTENDS Integers, Sequences, FiniteSets

CONSTANTS
  Conns,        (* connections, each with the pid of its child             *)
  None,
  UserLimit,    (* USER_LIMIT                                              *)
  Listening,
  Talkers,      (* bound: the connections that send anything, once each    *)
  Stops         (* bound: whether SIGTERM or SIGINT may come               *)

ASSUME ShmAssumption ==
  /\ None \notin Conns /\ Conns \cap {"listen", "sig"} = {}
  /\ UserLimit \in Nat \ {0}
  /\ Talkers \subseteq Conns
  /\ Listening \in BOOLEAN /\ Stops \in BOOLEAN

VARIABLES
  backlog,      (* connections not accepted yet                            *)
  conn,         (* "idle", "queued", "open", "closed" at the server's side *)
  input,        (* connections with text to be read                        *)
  sent, gone,   (* connections that have sent; whose peer has closed       *)
  got,          (* whose texts each client was sent                        *)
  ppc,          (* parent: "wait", "scan" or "end"                         *)
  pready,       (* edges the parent's epoll has not reported               *)
  pbatch,       (* events the parent has not handled                       *)
  sigpipe,      (* signal bytes in sig_pipefd                              *)
  sigs,         (* signal bytes read and not handled                       *)
  users, user_count, sub_process,
  terminate, stop_server,
  cpc,          (* children: see the type invariant                        *)
  idx, stop_child,
  cready, cbatch,
  toParent, toChild,   (* the two directions of each child's pipe          *)
  shm           (* who wrote the text in each segment                      *)

clientVars == <<input, sent, gone>>
tableVars  == <<users, user_count, sub_process>>
stopVars   == <<terminate, stop_server>>
parentVars == <<ppc, pready, pbatch, sigpipe, sigs>>
childVars  == <<cpc, idx, stop_child, cready, cbatch>>
vars == <<backlog, conn, clientVars, got, parentVars, tableVars, stopVars, childVars,
          toParent, toChild, shm>>

Live == {"forked", "start", "checked", "wait", "scan"}

(* The type of each variable.                                              *)
TypeOK ==
  /\ backlog \in Seq(Conns)
  /\ conn \in [Conns -> {"idle", "queued", "open", "closed"}]
  /\ input \subseteq Conns /\ sent \subseteq Talkers /\ gone \subseteq Conns
  /\ got \in [Conns -> SUBSET Conns]
  /\ ppc \in {"wait", "scan", "end"}
  /\ pready \subseteq Conns \cup {"listen", "sig"}
  /\ pbatch \subseteq Conns \cup {"listen", "sig"}
  /\ sigpipe \subseteq {"CHLD", "TERM"} /\ sigs \subseteq {"CHLD", "TERM"}
  /\ users \in [0..UserLimit -> Conns \cup {None}]
  /\ user_count \in 0..UserLimit
  /\ sub_process \in [Conns -> -1..UserLimit]
  /\ terminate \in BOOLEAN /\ stop_server \in BOOLEAN
  (* "forked": before sig_pipefd is closed; "start": before addsig;        *)
  (* "checked": between the test of stop_child and the sleep in epoll_wait;*)
  (* "wait": asleep; "scan": handling events.                              *)
  /\ cpc \in [Conns -> Live \cup {"none", "zombie", "reaped"}]
  /\ idx \in [Conns -> 0..UserLimit - 1]
  /\ stop_child \in [Conns -> BOOLEAN]
  /\ cready \in [Conns -> SUBSET {"conn", "pipe"}]
  /\ cbatch \in [Conns -> SUBSET {"conn", "pipe"}]
  /\ toParent \in [Conns -> Seq(0..UserLimit - 1)]
  /\ toChild \in [Conns -> Seq(0..UserLimit - 1)]
  /\ shm \in [0..UserLimit - 1 -> Conns \cup {None}]

Init ==
  /\ backlog = <<>> /\ conn = [c \in Conns |-> "idle"]
  /\ input = {} /\ sent = {} /\ gone = {}
  /\ got = [c \in Conns |-> {}]
  /\ ppc = "wait" /\ pready = {} /\ pbatch = {} /\ sigpipe = {} /\ sigs = {}
  /\ users = [k \in 0..UserLimit |-> None] /\ user_count = 0
  /\ sub_process = [c \in Conns |-> -1]
  /\ terminate = FALSE /\ stop_server = FALSE
  /\ cpc = [c \in Conns |-> "none"] /\ idx = [c \in Conns |-> 0]
  /\ stop_child = [c \in Conns |-> FALSE]
  /\ cready = [c \in Conns |-> {}] /\ cbatch = [c \in Conns |-> {}]
  /\ toParent = [c \in Conns |-> <<>>] /\ toChild = [c \in Conns |-> <<>>]
  /\ shm = [k \in 0..UserLimit - 1 |-> None]

(***************************************************************************)
(* The clients. A send and a close are an edge on the connection; edges not *)
(* reported yet melt into one.                                             *)
(***************************************************************************)
Connect(c) ==
  /\ Listening /\ ppc # "end"
  /\ conn[c] = "idle"
  /\ conn' = [conn EXCEPT ![c] = "queued"]
  /\ backlog' = Append(backlog, c)
  /\ pready' = pready \cup {"listen"}
  /\ UNCHANGED <<clientVars, got, ppc, pbatch, sigpipe, sigs, tableVars, stopVars, childVars,
                 toParent, toChild, shm>>

ConnEdge(c) == cready' = [cready EXCEPT ![c] = @ \cup {"conn"}]

ClientSend(c) ==
  /\ c \in Talkers \ (sent \cup gone) /\ conn[c] \in {"queued", "open"}
  /\ sent' = sent \cup {c} /\ input' = input \cup {c}
  /\ ConnEdge(c)
  /\ UNCHANGED <<backlog, conn, gone, got, parentVars, tableVars, stopVars, cpc, idx,
                 stop_child, cbatch, toParent, toChild, shm>>

ClientClose(c) ==
  /\ c \notin gone /\ conn[c] \in {"queued", "open"}
  /\ gone' = gone \cup {c}
  /\ ConnEdge(c)
  /\ UNCHANGED <<backlog, conn, sent, input, got, parentVars, tableVars, stopVars, cpc, idx,
                 stop_child, cbatch, toParent, toChild, shm>>

(***************************************************************************)
(* Signals. Each one not blocked writes a byte to sig_pipefd; bytes of the *)
(* same kind are one element of a set.                                     *)
(***************************************************************************)
Terminate ==
  /\ Stops /\ ppc # "end" /\ "TERM" \notin sigpipe
  /\ sigpipe' = sigpipe \cup {"TERM"} /\ pready' = pready \cup {"sig"}
  /\ UNCHANGED <<backlog, conn, clientVars, got, ppc, pbatch, sigs, tableVars, stopVars,
                 childVars, toParent, toChild, shm>>

Zombies == {c \in Conns : cpc[c] = "zombie"}

(***************************************************************************)
(* The parent.                                                             *)
(***************************************************************************)
ParentWait ==
  /\ ppc = "wait" /\ pready # {}
  /\ pbatch' = pready /\ pready' = {} /\ ppc' = "scan"
  /\ UNCHANGED <<backlog, conn, clientVars, got, sigpipe, sigs, tableVars, stopVars, childVars,
                 toParent, toChild, shm>>

Handle(e) ==
  /\ ppc = "scan" /\ sigs = {}
  /\ e \in pbatch /\ pbatch' = pbatch \ {e}
  /\ UNCHANGED <<ppc, clientVars>>

(* One accept() for each edge of the listening socket, however many wait.  *)
(* When it fails, the connection stays where it is.                        *)
AcceptFails ==
  /\ Handle("listen")
  /\ UNCHANGED <<backlog, conn, got, pready, sigpipe, sigs, tableVars, stopVars, childVars,
                 toParent, toChild, shm>>

Accept(c, status) ==
  /\ Handle("listen") /\ backlog # <<>>
  /\ c = Head(backlog) /\ backlog' = Tail(backlog)
  /\ conn' = [conn EXCEPT ![c] = status]
  /\ UNCHANGED <<got, pready, sigpipe, sigs, stopVars, toParent, toChild, shm>>

RoomOverLimit == user_count <= UserLimit
Room == user_count < UserLimit

(* Too many users, or fork() fails: the connection is closed.              *)
Refuse(c) ==
  /\ ~Room
  /\ Accept(c, "closed")
  /\ UNCHANGED <<tableVars, childVars>>

ForkFails(c) ==
  /\ Room
  /\ Accept(c, "closed")
  /\ UNCHANGED <<tableVars, childVars>>

Fork(c) ==
  /\ Room
  /\ Accept(c, "open")
  /\ users' = [users EXCEPT ![user_count] = c]
  /\ sub_process' = [sub_process EXCEPT ![c] = user_count]
  /\ user_count' = user_count + 1
  /\ cpc' = [cpc EXCEPT ![c] = "forked"] /\ idx' = [idx EXCEPT ![c] = user_count]
  /\ UNCHANGED <<stop_child, cready, cbatch>>

(* recv() on sig_pipefd[0]; it may find nothing, when an earlier recv() took *)
(* the byte this edge was for.                                             *)
ReadSignals ==
  /\ Handle("sig")
  /\ sigs' = sigpipe /\ sigpipe' = {}
  /\ UNCHANGED <<backlog, conn, got, pready, tableVars, stopVars, childVars, toParent, toChild, shm>>

(* What is left of the signals after one turn of the waitpid() loop.       *)
AfterReapNoLoop == sigs \ {"CHLD"}
AfterReap == sigs

(* The entry that sub_process gives to the process whose entry was moved.  *)
MovedNotTold(c, d) == [sub_process EXCEPT ![c] = -1]
Moved(c, d) == [sub_process EXCEPT ![c] = -1, ![users'[d]] = d]

ReapOne(c) ==
  LET d == sub_process[c] IN
  /\ ppc = "scan" /\ "CHLD" \in sigs
  /\ cpc[c] = "zombie"
  /\ cpc' = [cpc EXCEPT ![c] = "reaped"]
  /\ IF d < 0 \/ d > UserLimit
       THEN /\ sub_process' = [sub_process EXCEPT ![c] = -1]
            /\ UNCHANGED <<users, user_count, pready, toParent, toChild>>
       ELSE /\ pready' = pready \ {users[d]}
            /\ toParent' = [toParent EXCEPT ![users[d]] = <<>>]
            /\ toChild' = [toChild EXCEPT ![users[d]] = <<>>]
            /\ users' = [users EXCEPT ![d] = users[user_count - 1]]
            /\ user_count' = user_count - 1
            /\ sub_process' = Moved(c, d)
  /\ sigs' = AfterReap
  /\ UNCHANGED <<backlog, conn, clientVars, got, ppc, pbatch, sigpipe, stopVars, idx,
                 stop_child, cready, cbatch, shm>>

StopsWithUsers == terminate
LastGone == terminate /\ user_count = 0

ReapDone ==
  /\ ppc = "scan" /\ "CHLD" \in sigs
  /\ Zombies = {}
  /\ sigs' = sigs \ {"CHLD"}
  /\ stop_server' = (stop_server \/ LastGone)
  /\ UNCHANGED <<backlog, conn, clientVars, got, ppc, pready, pbatch, sigpipe, tableVars,
                 terminate, childVars, toParent, toChild, shm>>

(* kill(users[i].pid, SIGTERM). A child that has not closed sig_pipefd yet *)
(* still runs the parent's handler and writes the byte back to the parent; *)
(* one that closed it and has not reached addsig loses the signal.         *)
Killed == {users[i] : i \in 0..user_count - 1}

HandleTerm ==
  /\ ppc = "scan" /\ "TERM" \in sigs
  /\ sigs' = sigs \ {"TERM"}
  /\ stop_server' = (stop_server \/ user_count = 0)
  /\ terminate' = (terminate \/ user_count > 0)
  /\ stop_child' = [c \in Conns |-> stop_child[c] \/ (c \in Killed /\ cpc[c] \in {"checked", "wait", "scan"})]
  /\ cpc' = [c \in Conns |-> IF c \in Killed /\ cpc[c] = "wait" THEN "scan" ELSE cpc[c]]
  /\ IF \E c \in Killed : cpc[c] = "forked"
       THEN sigpipe' = sigpipe \cup {"TERM"} /\ pready' = pready \cup {"sig"}
       ELSE UNCHANGED <<sigpipe, pready>>
  /\ UNCHANGED <<backlog, conn, clientVars, got, ppc, pbatch, tableVars, idx, cready, cbatch,
                 toParent, toChild, shm>>

(* One number is read from a child's pipe and passed to every other child. *)
(* The pipe may be closed, empty, or at its end: nothing is done.          *)
Forward(c) ==
  /\ Handle(c)
  /\ IF toParent[c] = <<>>
       THEN UNCHANGED <<toParent, toChild, cready>>
       ELSE LET others == Killed \ {c} IN
            /\ toParent' = [toParent EXCEPT ![c] = Tail(@)]
            /\ toChild' = [d \in Conns |-> IF d \in others
                              THEN Append(toChild[d], Head(toParent[c])) ELSE toChild[d]]
            /\ cready' = [d \in Conns |-> IF d \in others THEN cready[d] \cup {"pipe"} ELSE cready[d]]
  /\ UNCHANGED <<backlog, conn, got, pready, sigpipe, sigs, tableVars, stopVars, cpc, idx,
                 stop_child, cbatch, shm>>

(* while (!stop_server). The end of the process closes its pipes.          *)
ParentLoop ==
  /\ ppc = "scan" /\ pbatch = {} /\ sigs = {}
  /\ IF stop_server
       THEN /\ ppc' = "end"
            /\ cready' = [c \in Conns |-> IF cpc[c] \in Live THEN cready[c] \cup {"pipe"} ELSE cready[c]]
       ELSE ppc' = "wait" /\ UNCHANGED cready
  /\ UNCHANGED <<backlog, conn, clientVars, got, pready, pbatch, sigpipe, sigs, tableVars, stopVars,
                 cpc, idx, stop_child, cbatch, toParent, toChild, shm>>

(***************************************************************************)
(* A child.                                                                *)
(***************************************************************************)
ChildStart(c) ==
  /\ cpc[c] \in {"forked", "start", "checked"}
  /\ cpc' = [cpc EXCEPT ![c] = CASE @ = "forked" -> "start" [] @ = "start" -> "checked"
                                  [] @ = "checked" -> "wait"]
  /\ UNCHANGED <<backlog, conn, clientVars, got, parentVars, tableVars, stopVars, idx,
                 stop_child, cready, cbatch, toParent, toChild, shm>>

ChildWait(c) ==
  /\ cpc[c] = "wait" /\ cready[c] # {}
  /\ cpc' = [cpc EXCEPT ![c] = "scan"]
  /\ cbatch' = [cbatch EXCEPT ![c] = cready[c]] /\ cready' = [cready EXCEPT ![c] = {}]
  /\ UNCHANGED <<backlog, conn, clientVars, got, parentVars, tableVars, stopVars, idx,
                 stop_child, toParent, toChild, shm>>

ChildHandle(c, e) ==
  /\ cpc[c] = "scan"
  /\ e \in cbatch[c] /\ cbatch' = [cbatch EXCEPT ![c] = @ \ {e}]
  /\ UNCHANGED <<backlog, conn, sent, gone, ppc, pbatch, sigpipe, sigs, tableVars, stopVars,
                 cpc, idx, cready>>

(* The segment is cleared, one recv() is made, and the parent is told.     *)
ChildRead(c) ==
  /\ ChildHandle(c, "conn")
  /\ IF c \in input
       THEN /\ input' = input \ {c}
            /\ shm' = [shm EXCEPT ![idx[c]] = c]
            /\ toParent' = [toParent EXCEPT ![c] = Append(@, idx[c])]
            /\ pready' = pready \cup (IF ppc = "end" THEN {} ELSE {c})
            /\ UNCHANGED stop_child
       ELSE /\ shm' = [shm EXCEPT ![idx[c]] = None]
            /\ stop_child' = [stop_child EXCEPT ![c] = @ \/ c \in gone]
            /\ UNCHANGED <<input, toParent, pready>>
  /\ UNCHANGED <<got, toChild>>

(* The text now in the segment the number names goes to the client.        *)
ChildSend(c) ==
  /\ ChildHandle(c, "pipe")
  /\ IF toChild[c] # <<>>
       THEN /\ toChild' = [toChild EXCEPT ![c] = Tail(@)]
            /\ got' = [got EXCEPT ![c] = @ \cup ({shm[Head(toChild[c])]} \ {None})]
            /\ UNCHANGED stop_child
       ELSE /\ stop_child' = [stop_child EXCEPT ![c] = @ \/ ppc = "end"]
            /\ UNCHANGED <<toChild, got>>
  /\ UNCHANGED <<input, pready, toParent, shm>>

ChildLoop(c) ==
  /\ cpc[c] = "scan" /\ cbatch[c] = {} /\ ~stop_child[c]
  /\ cpc' = [cpc EXCEPT ![c] = "checked"]
  /\ UNCHANGED <<backlog, conn, clientVars, got, parentVars, tableVars, stopVars, idx,
                 stop_child, cready, cbatch, toParent, toChild, shm>>

(* The child exits: both its descriptors close, the parent gets the end of *)
(* the pipe and SIGCHLD.                                                   *)
ChildExit(c) ==
  /\ cpc[c] = "scan" /\ cbatch[c] = {} /\ stop_child[c]
  /\ cpc' = [cpc EXCEPT ![c] = "zombie"]
  /\ conn' = [conn EXCEPT ![c] = "closed"]
  /\ input' = input \ {c} /\ cready' = [cready EXCEPT ![c] = {}]
  /\ IF ppc = "end"
       THEN UNCHANGED <<pready, sigpipe>>
       ELSE pready' = pready \cup {c, "sig"} /\ sigpipe' = sigpipe \cup {"CHLD"}
  /\ UNCHANGED <<backlog, sent, gone, got, ppc, pbatch, sigs, tableVars, stopVars, idx,
                 stop_child, cbatch, toParent, toChild, shm>>

-----------------------------------------------------------------------------
ParentSignal == ReapDone \/ HandleTerm \/ \E c \in Conns : ReapOne(c)
ParentEvent ==
  \/ AcceptFails
  \/ \E c \in Conns : Refuse(c) \/ ForkFails(c) \/ Fork(c) \/ Forward(c)
  \/ ReadSignals
Parent == ParentWait \/ ParentEvent \/ ParentSignal \/ ParentLoop
Child(c) == ChildStart(c) \/ ChildWait(c) \/ ChildRead(c) \/ ChildSend(c) \/ ChildLoop(c) \/ ChildExit(c)
Client(c) == Connect(c) \/ ClientSend(c) \/ ClientClose(c)

Next == Parent \/ Terminate \/ \E c \in Conns : Child(c) \/ Client(c)

Spec == Init /\ [][Next]_vars
-----------------------------------------------------------------------------
(* users[0..user_count-1] holds each child that was forked and not reaped, *)
(* once, and sub_process gives its place: whatever order children exit in, *)
(* waitpid() finds the entry of the child it returns (l.299-302, 330-343). *)
ParentTable ==
  /\ Killed = {c \in Conns : cpc[c] \in Live \cup {"zombie"}}
  /\ \A i \in 0..user_count - 1 : sub_process[users[i]] = i

(* While the parent runs, a zombie has its SIGCHLD byte in sig_pipefd with  *)
(* an edge to come, or in the buffer being handled: no exit is forgotten,   *)
(* though bytes and edges melt together (l.326-343).                       *)
NoZombieForgotten ==
  ppc # "end" /\ Zombies # {} =>
    \/ "CHLD" \in sigs
    \/ "CHLD" \in sigpipe /\ "sig" \in pready \cup pbatch

(* The server decides to stop only when it has no child left; the rest of  *)
(* that batch can add one, never more (l.344-358 and 252-304).             *)
StopLeavesAtMostOne == stop_server => user_count <= 1

(* The roster the parent keeps. A child's connection closes when the child *)
(* exits; it is a member until the parent has reaped the child.            *)
Roll == INSTANCE Roster WITH
          MayFail <- TRUE, waiting <- backlog, members <- Killed,
          past <- {c \in Conns : conn[c] = "closed"} \ Killed

(* The parent implements the roster: connections are served in order, each *)
(* place in users stands for one of them from fork() to waitpid(), at most *)
(* USER_LIMIT at a time, and each reap takes out one (lines 252-304,       *)
(* 326-343). fork() may fail, so that one may be turned away at any time.  *)
KeepsRoster == Roll!Spec

(* Line 393: the number of a connection with new text is passed to every   *)
(* child but the one in charge of that connection, so no client is sent    *)
(* its own text.                                                           *)
ShmNoEcho == \A c \in Conns : c \notin got[c]
=============================================================================
