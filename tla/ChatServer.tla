----------------------------- MODULE ChatServer -----------------------------
(***************************************************************************)
(* The chat room server of ch9/9-6_communication_server.cpp: one thread    *)
(* around poll(), a table fds of pollfd entries kept dense by moving the   *)
(* last entry into a hole, and a table users indexed by descriptor whose   *)
(* write_buf fields point INTO the buf of another user.                    *)
(*                                                                         *)
(* One step is one poll() or one iteration of the scan over its results,   *)
(* so that peers may connect, send, close or reset between any two         *)
(* iterations. The server is scanning while i <= user_count, and polls     *)
(* when i > user_count.                                                    *)
(***************************************************************************)
EXTENDS Naturals, Sequences, FiniteSets

CONSTANTS
  Conns,      (* client connections, each made at most once                *)
  Fds,        (* descriptors accept() can return                           *)
  ListenFd,   (* sockfd                                                    *)
  UserLimit,  (* USER_LIMIT                                                *)
  Script,     (* bound: how many texts each connection sends               *)
  MaxSends,   (* bound: the most of these                                  *)
  NoConn, Null, Wild, Blank   (* model values, see the type invariant      *)

ASSUME ChatAssumption ==
  /\ Fds \subseteq Nat
  /\ ListenFd \notin Fds
  /\ UserLimit \in Nat \ {0}
  /\ IsFiniteSet(Fds) /\ Cardinality(Fds) > UserLimit
  /\ MaxSends \in Nat
  /\ Script \in [Conns -> 0..MaxSends]
  /\ NoConn \notin Conns
  /\ Null # Wild /\ Null \notin Fds /\ Wild \notin Fds
  /\ Blank \notin [from : Conns, seq : Nat]

VARIABLES
  backlog,    (* connections the kernel completed, not accepted yet        *)
  conn,       (* state of each connection                                  *)
  peer,       (* "up", closed ("fin"), reset ("rst") or reset and reported *)
  inq,        (* what one recv() each will return, per connection          *)
  sent,       (* number of messages sent on each connection                *)
  got,        (* messages the server has sent down each connection         *)
  sock,       (* the process's descriptor table                            *)
  fds, users, user_count, i,
  seen,       (* history: descriptors handled since the last poll()        *)
  copied,     (* history: descriptors whose buf holds a copy of another's  *)
  running     (* FALSE once assert() has aborted the server                *)

peerVars  == <<peer, inq, sent>>
tableVars == <<fds, users, user_count>>
vars == <<backlog, conn, peer, inq, sent, got, sock, fds, users, user_count, i,
          seen, copied, running>>

Message == [from : Conns, seq : 1..MaxSends]
Event   == {"IN", "OUT", "RDHUP", "ERR"}
PollFd  == [fd : Fds \cup {ListenFd, Null}, events : SUBSET Event,
            revents : SUBSET Event]
(* Wild is the indeterminate write_buf of `new client_data[FD_LIMIT]`.     *)
UserRec == [buf : Message \cup {Blank}, write_buf : Fds \cup {Null, Wild}]

(* The type of each variable.                                              *)
TypeOK ==
  /\ backlog \in Seq(Conns)
  /\ conn \in [Conns -> {"idle", "queued", "open", "closed"}]
  /\ peer \in [Conns -> {"up", "fin", "rst", "rstseen"}]
  /\ inq \in [Conns -> Seq(Message)]
  /\ sent \in [Conns -> 0..MaxSends]
  /\ got \in [Conns -> SUBSET Message]
  /\ sock \in [Fds -> Conns \cup {NoConn}]
  /\ fds \in [0..UserLimit -> PollFd]
  /\ users \in [Fds -> UserRec]
  /\ user_count \in 0..UserLimit
  /\ i \in 0..UserLimit + 1
  /\ seen \subseteq Fds
  /\ copied \subseteq Fds
  /\ running \in BOOLEAN

Init ==
  /\ backlog = <<>>
  /\ conn = [c \in Conns |-> "idle"]
  /\ peer = [c \in Conns |-> "up"]
  /\ inq = [c \in Conns |-> <<>>]
  /\ sent = [c \in Conns |-> 0]
  /\ got = [c \in Conns |-> {}]
  /\ sock = [fd \in Fds |-> NoConn]
  /\ fds = [j \in 0..UserLimit |->
              IF j = 0 THEN [fd |-> ListenFd, events |-> {"IN", "ERR"}, revents |-> {}]
                       ELSE [fd |-> Null, events |-> {}, revents |-> {}]]
  /\ users = [fd \in Fds |-> [buf |-> Blank, write_buf |-> Wild]]
  /\ user_count = 0
  /\ i = 1
  /\ seen = {}
  /\ copied = {}
  /\ running = TRUE

-----------------------------------------------------------------------------
(* The peers.                                                              *)

Connect(c) ==
  /\ conn[c] = "idle"
  /\ conn' = [conn EXCEPT ![c] = "queued"]
  /\ backlog' = Append(backlog, c)
  /\ UNCHANGED <<peerVars, got, copied, sock, tableVars, i, seen, running>>

SendText(c) ==
  /\ conn[c] \in {"queued", "open"} /\ peer[c] = "up"
  /\ sent[c] < Script[c]
  /\ sent' = [sent EXCEPT ![c] = @ + 1]
  /\ inq' = [inq EXCEPT ![c] = Append(@, [from |-> c, seq |-> sent[c] + 1])]
  /\ UNCHANGED <<backlog, conn, peer, got, copied, sock, tableVars, i, seen, running>>

(* close() or shutdown(SHUT_WR) by the peer.                               *)
Hangup(c) ==
  /\ conn[c] \in {"queued", "open"} /\ peer[c] = "up"
  /\ peer' = [peer EXCEPT ![c] = "fin"]
  /\ UNCHANGED <<backlog, conn, inq, sent, got, copied, sock, tableVars, i, seen, running>>

(* The peer's kernel answers with RST: an abort, or data sent after close. *)
Reset(c) ==
  /\ conn[c] \in {"queued", "open"} /\ peer[c] \in {"up", "fin"}
  /\ peer' = [peer EXCEPT ![c] = "rst"]
  /\ UNCHANGED <<backlog, conn, inq, sent, got, copied, sock, tableVars, i, seen, running>>

Peers == \E c \in Conns : Connect(c) \/ SendText(c) \/ Hangup(c) \/ Reset(c)

-----------------------------------------------------------------------------
(* poll() and the kernel's view of a descriptor.                           *)

Readable(c) == inq[c] # <<>> \/ peer[c] # "up"

ReadyEvents(c) ==
  {"OUT"} \cup (IF Readable(c) THEN {"IN"} ELSE {})
          \cup (IF peer[c] # "up" THEN {"RDHUP"} ELSE {})
          \cup (IF peer[c] = "rst" THEN {"ERR"} ELSE {})

(* ERR is reported whether it was asked for or not.                        *)
Revents(entry) ==
  IF entry.fd = ListenFd
    THEN IF backlog # <<>> THEN {"IN"} ELSE {}
    ELSE ReadyEvents(sock[entry.fd]) \cap (entry.events \cup {"ERR"})

(* nfds: poll(fds, user_count + 1, -1).                                    *)
PolledTooFew == {j \in 0..UserLimit : j < user_count}
Polled == 0..user_count

Poll ==
  /\ running
  /\ i > user_count
  /\ \E j \in Polled : Revents(fds[j]) # {}
  /\ fds' = [j \in 0..UserLimit |->
               IF j \in Polled THEN [fds[j] EXCEPT !.revents = Revents(fds[j])]
                               ELSE fds[j]]
  /\ i' = 0
  /\ seen' = {}
  /\ UNCHANGED <<backlog, conn, peerVars, got, copied, sock, users, user_count, running>>

-----------------------------------------------------------------------------
(* The scan. The branches of the else-if chain are tried in this order.    *)

Here     == fds[i]
HereConn == sock[Here.fd]
Scanning == running /\ i <= user_count
AtListener == Scanning /\ Here.fd = ListenFd /\ "IN" \in Here.revents
AtUser     == Scanning /\ ~(Here.fd = ListenFd /\ "IN" \in Here.revents)
AtError  == AtUser /\ "ERR" \in Here.revents
AtHangup == AtUser /\ "ERR" \notin Here.revents /\ "RDHUP" \in Here.revents
AtInput  == AtUser /\ Here.revents \cap {"ERR", "RDHUP"} = {} /\ "IN" \in Here.revents
AtOutput == AtUser /\ Here.revents = {"OUT"}

Advance == i' = i + 1 /\ seen' = seen \cup ({Here.fd} \cap Fds)

(* accept() returned -1: the connection stays in the backlog.              *)
AcceptFail ==
  /\ AtListener
  /\ Advance
  /\ UNCHANGED <<backlog, conn, peerVars, got, copied, sock, tableVars, running>>

(* close(): what the kernel has of the connection is dropped, and what the *)
(* model keeps of its peer is cleared.                                     *)
Discard(c) ==
  /\ conn' = [conn EXCEPT ![c] = "closed"]
  /\ inq' = [inq EXCEPT ![c] = <<>>]
  /\ peer' = [peer EXCEPT ![c] = "up"]

RoomOffByOne == user_count <= UserLimit
Room == user_count < UserLimit

Refuse ==
  /\ AtListener /\ backlog # <<>>
  /\ ~Room
  /\ Discard(Head(backlog))
  /\ backlog' = Tail(backlog)
  /\ Advance
  /\ UNCHANGED <<sent, got, copied, sock, tableVars, running>>

LowestFree(fd) ==
  /\ sock[fd] = NoConn
  /\ \A g \in Fds : sock[g] = NoConn => fd <= g

NewEntryNoRdhup(fd) == [fd |-> fd, events |-> {"IN", "ERR"}, revents |-> {}]
NewEntryOr(fd) == [fd |-> fd, revents |-> {},
                   events |-> fds[user_count + 1].events \cup {"IN", "RDHUP", "ERR"}]
NewEntry(fd) == [fd |-> fd, events |-> {"IN", "RDHUP", "ERR"}, revents |-> {}]

(* users[connfd] keeps the buf and write_buf of the descriptor's last use. *)
Accept ==
  /\ AtListener /\ backlog # <<>>
  /\ Room
  /\ \E fd \in Fds :
       /\ LowestFree(fd)
       /\ sock' = [sock EXCEPT ![fd] = Head(backlog)]
       /\ fds' = [fds EXCEPT ![user_count + 1] = NewEntry(fd)]
  /\ conn' = [conn EXCEPT ![Head(backlog)] = "open"]
  /\ backlog' = Tail(backlog)
  /\ user_count' = user_count + 1
  /\ Advance
  /\ UNCHANGED <<peerVars, got, copied, users, running>>

(* POLLERR: getsockopt(SO_ERROR) takes the error, and nothing else is done. *)
TakeError ==
  /\ AtError
  /\ peer' = [peer EXCEPT ![HereConn] = "rstseen"]
  /\ Advance
  /\ UNCHANGED <<backlog, conn, inq, sent, got, copied, sock, tableVars, running>>

(* The entry that fills the hole, with the revents poll() gave it.         *)
LastEntryFdOnly == [fds[user_count] EXCEPT !.revents = Here.revents]
LastEntry == fds[user_count]

ClosedFdAfterMove == LastEntry.fd
ClosedFd == Here.fd

(* After i-- and the loop's i++ the moved entry is looked at next.         *)
NextIndexSkips == i + 1
NextIndex == i

(* users[fds[i].fd] = users[fds[user_count].fd]; close; fds[i] =           *)
(* fds[user_count]; i--; user_count--, with the client data in data. Only  *)
(* the last entry's own assignment to itself copies nothing.               *)
DropUser(data) ==
  /\ users' = [data EXCEPT ![Here.fd] = data[LastEntry.fd]]
  /\ copied' = copied \cup ({Here.fd} \ {LastEntry.fd})
  /\ sock' = [sock EXCEPT ![ClosedFd] = NoConn]
  /\ Discard(sock[ClosedFd])
  /\ fds' = [fds EXCEPT ![i] = LastEntry]
  /\ user_count' = user_count - 1
  /\ seen' = seen \cup {Here.fd}
  /\ i' = NextIndex

Leave ==
  /\ AtHangup
  /\ DropUser(users)
  /\ UNCHANGED <<backlog, sent, got, running>>

(* memset(users[connfd].buf, 0, BUFFER_SIZE) comes before recv().          *)
Cleared == [users EXCEPT ![Here.fd].buf = Blank]

(* recv() fails, with what it should have read not read.                   *)
ReadError ==
  /\ AtInput
  /\ DropUser(Cleared)
  /\ UNCHANGED <<backlog, sent, got, running>>

(* recv() returns 0 or EAGAIN: poll() may report what recv() then does not *)
(* find.                                                                   *)
ReadNothing ==
  /\ AtInput
  /\ users' = Cleared
  /\ copied' = copied \ {Here.fd}
  /\ Advance
  /\ UNCHANGED <<backlog, conn, peerVars, got, sock, fds, user_count, running>>

(* events |= ~POLLIN sets every bit but POLLIN, and clears none.           *)
ReadText ==
  /\ AtInput
  /\ inq[HereConn] # <<>>
  /\ inq' = [inq EXCEPT ![HereConn] = Tail(@)]
  /\ LET others == {j \in 1..user_count : fds[j].fd # Here.fd}
     IN /\ fds' = [j \in 0..UserLimit |->
                     IF j \in others
                       THEN [fds[j] EXCEPT !.events = @ \cup (Event \ {"IN"}) \cup {"OUT"}]
                       ELSE fds[j]]
        /\ users' = [fd \in Fds |->
                       [buf |-> IF fd = Here.fd THEN Head(inq[HereConn]) ELSE users[fd].buf,
                        write_buf |-> IF \E j \in others : fds[j].fd = fd
                                        THEN Here.fd ELSE users[fd].write_buf]]
  /\ copied' = copied \ {Here.fd}
  /\ Advance
  /\ UNCHANGED <<backlog, conn, peer, sent, got, sock, user_count, running>>

WriteNothing ==
  /\ AtOutput
  /\ users[Here.fd].write_buf = Null
  /\ Advance
  /\ UNCHANGED <<backlog, conn, peerVars, got, copied, sock, tableVars, running>>

SentKeeps(rec) == rec
Sent(rec) == [rec EXCEPT !.write_buf = Null]

(* What is sent is what the buffer holds NOW. events |= ~POLLOUT leaves    *)
(* POLLOUT registered.                                                     *)
WriteText ==
  /\ AtOutput
  /\ users[Here.fd].write_buf \in Fds
  /\ peer[HereConn] \in {"up", "fin"}
  /\ got' = [got EXCEPT ![HereConn] =
               @ \cup ({users[users[Here.fd].write_buf].buf} \ {Blank})]
  /\ users' = [users EXCEPT ![Here.fd] = Sent(@)]
  /\ fds' = [fds EXCEPT ![i].events = @ \cup (Event \ {"OUT"}) \cup {"IN"}]
  /\ Advance
  /\ UNCHANGED <<backlog, conn, peerVars, copied, sock, user_count, running>>

(* send() on a connection reset since poll(): ECONNRESET and the assert,   *)
(* or SIGPIPE.                                                             *)
WriteAbort ==
  /\ AtOutput
  /\ users[Here.fd].write_buf \in Fds
  /\ peer[HereConn] \notin {"up", "fin"}
  /\ running' = FALSE
  /\ UNCHANGED <<backlog, conn, peerVars, got, copied, sock, tableVars, i, seen>>

Pass ==
  /\ AtUser
  /\ Here.revents = {}
  /\ Advance
  /\ UNCHANGED <<backlog, conn, peerVars, got, copied, sock, tableVars, running>>

Server ==
  \/ Poll \/ AcceptFail \/ Refuse \/ Accept \/ TakeError \/ Leave \/ ReadError
  \/ ReadNothing \/ ReadText \/ WriteNothing \/ WriteText \/ WriteAbort \/ Pass

Next == Server \/ Peers

Spec == Init /\ [][Next]_vars

(* The server is never descheduled for ever, and accept() does not fail    *)
(* for ever. Nothing is assumed of the peers.                              *)
FairSpec == Spec /\ WF_vars(Server) /\ SF_vars(Accept \/ Refuse)
-----------------------------------------------------------------------------
(* Properties.                                                             *)

Live == 1..user_count

(* The dense table and the kernel agree: entry 0 is the listener, every    *)
(* other entry below user_count is a different open descriptor, and no     *)
(* open descriptor is missing. A leaver's hole filled with the wrong entry *)
(* (lines 127-131, 147-150) leaks one descriptor and polls another twice.  *)
TableConsistent ==
  /\ fds[0].fd = ListenFd
  /\ \A j, k \in Live : fds[j].fd = fds[k].fd => j = k
  /\ {fds[j].fd : j \in Live} = {fd \in Fds : sock[fd] # NoConn}

(* However entries move during the scan, the ones below i have been        *)
(* handled since the last poll() and the ones from i on have not: the      *)
(* i-- of lines 130 and 149 makes the moved entry the next one.            *)
ScannedOnce == \A j \in Live : j < i <=> fds[j].fd \in seen

(* The revents not looked at yet still describe the descriptor they sit    *)
(* with, though poll() took them before other entries moved and peers      *)
(* went on: no recv() or accept() of the scan blocks or reads nothing new. *)
EventsFresh ==
  /\ running /\ i = 0 /\ "IN" \in fds[0].revents => backlog # <<>>
  /\ \A j \in Live : j >= i =>
       LET ev == fds[j].revents
           c  == sock[fds[j].fd]
       IN /\ "IN" \in ev => Readable(c)
          /\ "RDHUP" \in ev => peer[c] # "up"
          /\ "ERR" \in ev => peer[c] = "rst"
          /\ "OUT" \in ev => "OUT" \in fds[j].events

(* An entry whose events hold POLLOUT has a write_buf someone has set,     *)
(* never the indeterminate one of line 62, and never its own buffer.       *)
ArmedPointer ==
  \A j \in Live : "OUT" \in fds[j].events =>
     users[fds[j].fd].write_buf \in (Fds \cup {Null}) \ {fds[j].fd}

(* A text is sent to a member again, or after a later one of its sender,   *)
(* only out of a buffer that holds a copy lines 127 or 147 have made.      *)
(* Buffers that are overwritten, that their user has left behind, or whose *)
(* descriptor is used again lose texts, but repeat and reorder none.       *)
OnlyCopiesRepeat ==
  \A j \in Live :
     LET fd == fds[j].fd
         p  == users[fd].write_buf
     IN "OUT" \in fds[j].events /\ p \in Fds \ copied =>
          LET m == users[p].buf
          IN m # Blank => \A g \in got[sock[fd]] : g.from = m.from => g.seq < m.seq

(* The roster the table makes: its entries' connections are the members.   *)
TableRoster == INSTANCE Roster WITH
           MayFail <- FALSE, waiting <- backlog,
           members <- {sock[fds[j].fd] : j \in Live},
           past <- {c \in Conns : conn[c] = "closed"}

(* The server implements the roster: whoever is in the table was next in   *)
(* the queue, one is refused only when the table really is full, and an    *)
(* entry disappears from the table exactly when its connection is closed   *)
(* (lines 95-109, 124-132, 141-151), though entries move in every scan.    *)
KeepsRoster == TableRoster!Spec

(* The comment of line 159: a text is passed to the OTHER sockets.         *)
NoEcho == \A c \in Conns : \A m \in got[c] : m.from # c

(* Line 126: when a client has closed, the server closes its side.         *)
ClosedReaped ==
  \A c \in Conns : peer[c] # "up" /\ conn[c] = "open" ~> conn[c] = "closed" \/ ~running

(* Every connection that reaches the backlog is accepted or refused,       *)
(* whatever the other members do meanwhile.                                *)
EveryConnectionAnswered ==
  \A c \in Conns : conn[c] = "queued" ~> conn[c] # "queued" \/ ~running
=============================================================================
