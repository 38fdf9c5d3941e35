------------------------------ MODULE ChatProofs ------------------------------
(***************************************************************************)
(* The invariants of ChatServer, for every number of connections and       *)
(* descriptors and every USER_LIMIT. Each property needs the table to be   *)
(* consistent, and the table needs to know that entry 0, the listener, is  *)
(* never taken for a member: its revents are POLLIN at most, because it is *)
(* registered for nothing else and never in error.                         *)
(***************************************************************************)
EXTENDS ChatServer, SequenceTheorems, FunctionTheorems, FiniteSetTheorems, TLAPS

ListenerEvents == fds[0].fd = ListenFd /\ fds[0].revents \subseteq {"IN"}

(* TableConsistent, one quantifier per direction.                          *)
EntriesDistinct == \A j, k \in Live : fds[j].fd = fds[k].fd => j = k
EntriesOpen     == \A j \in Live : fds[j].fd \in Fds /\ sock[fds[j].fd] # NoConn
OpenListed      == \A fd \in Fds : sock[fd] # NoConn => \E j \in Live : fds[j].fd = fd

Table == ListenerEvents /\ EntriesDistinct /\ EntriesOpen /\ OpenListed

IInv == TypeOK /\ Table

-----------------------------------------------------------------------------
(* Which entry a step of the scan is at.                                   *)

LEMMA Bounds ==
  ASSUME TypeOK
  PROVE  UserLimit \in Nat /\ user_count \in Nat /\ user_count <= UserLimit /\ i \in Nat
BY ChatAssumption DEF TypeOK, ChatAssumption

LEMMA UserEntry ==
  ASSUME IInv, AtError \/ AtHangup \/ AtInput \/ AtOutput
  PROVE  /\ i \in Live /\ Here.fd \in Fds /\ HereConn \in Conns
         /\ user_count \in 1..UserLimit /\ user_count \in Live
         /\ fds[user_count].fd \in Fds
<1>1. running /\ i \in 0..user_count /\ fds[i].revents # {}
  BY Bounds DEF IInv, AtError, AtHangup, AtInput, AtOutput, AtUser, Scanning, Here
<1>2. i # 0
  <2>1. SUFFICES ASSUME i = 0 PROVE FALSE
    OBVIOUS
  <2>2. fds[i].fd = ListenFd /\ fds[i].revents \subseteq {"IN"}
    BY <2>1 DEF IInv, Table, ListenerEvents
  <2>3. fds[i].revents = {"IN"}
    BY <1>1, <2>2
  <2> QED
    BY <2>2, <2>3 DEF AtError, AtHangup, AtInput, AtOutput, AtUser, Here
<1>3. i \in Live
  BY <1>1, <1>2, Bounds DEF IInv, Live
<1>4. user_count \in 1..UserLimit /\ user_count \in Live
  BY <1>3, Bounds DEF IInv, Live
<1> QED
  BY <1>3, <1>4 DEF IInv, Table, EntriesOpen, TypeOK, Here, HereConn

-----------------------------------------------------------------------------
(* Type correctness.                                                       *)

LEMMA TypeInit == ASSUME ChatAssumption PROVE Init => TypeOK
BY DEF Init, TypeOK, ChatAssumption, PollFd, UserRec, Event

LEMMA WithinScript ==
  ASSUME TypeOK, NEW c \in Conns, SendText(c)
  PROVE  sent[c] \in 0..MaxSends /\ sent[c] < MaxSends /\ MaxSends \in Nat
<1>1. Script[c] \in 0..MaxSends /\ MaxSends \in Nat /\ sent[c] \in 0..MaxSends
  BY ChatAssumption DEF ChatAssumption, TypeOK
<1>2. sent[c] < Script[c]
  BY DEF SendText
<1> QED
  BY <1>1, <1>2

LEMMA TypePeers ==
  ASSUME TypeOK, NEW c \in Conns, Connect(c) \/ SendText(c) \/ Hangup(c) \/ Reset(c)
  PROVE  TypeOK'
<1>1. CASE Connect(c)
  BY <1>1 DEF TypeOK, Connect, peerVars, tableVars
<1>2. CASE SendText(c)
  <2>1. [from |-> c, seq |-> sent[c] + 1] \in Message
    <3>1. sent[c] + 1 \in 1..MaxSends
      BY <1>2, WithinScript
    <3> QED
      BY <3>1 DEF Message
  <2>2. sent' \in [Conns -> 0..MaxSends]
    <3>1. sent[c] + 1 \in 0..MaxSends
      BY <1>2, WithinScript
    <3>2. sent' = [sent EXCEPT ![c] = sent[c] + 1]
      BY <1>2 DEF SendText
    <3>3. sent \in [Conns -> 0..MaxSends]
      BY DEF TypeOK
    <3> QED
      BY <3>1, <3>2, <3>3
  <2>3. inq' \in [Conns -> Seq(Message)]
    BY <1>2, <2>1 DEF SendText, TypeOK
  <2> QED
    BY <1>2, <2>2, <2>3 DEF TypeOK, SendText, tableVars
<1>3. CASE Hangup(c)
  BY <1>3 DEF TypeOK, Hangup, tableVars
<1>4. CASE Reset(c)
  BY <1>4 DEF TypeOK, Reset, tableVars
<1> QED
  BY <1>1, <1>2, <1>3, <1>4

LEMMA EntryType ==
  ASSUME NEW e \in PollFd, NEW S \in SUBSET Event
  PROVE  [e EXCEPT !.revents = S] \in PollFd /\ [e EXCEPT !.events = S] \in PollFd
BY DEF PollFd

LEMMA TypeAdvance ==
  ASSUME TypeOK, Scanning, Advance
  PROVE  i' \in 0..UserLimit + 1 /\ seen' \subseteq Fds
BY Bounds DEF TypeOK, Scanning, Advance

(* What close() leaves of a connection.                                    *)
LEMMA TypeDiscard ==
  ASSUME TypeOK, NEW c, Discard(c)
  PROVE  /\ conn' \in [Conns -> {"idle", "queued", "open", "closed"}]
         /\ inq' \in [Conns -> Seq(Message)]
         /\ peer' \in [Conns -> {"up", "fin", "rst", "rstseen"}]
<1>1. <<>> \in Seq(Message)
  OBVIOUS
<1> QED
  BY <1>1 DEF TypeOK, Discard

LEMMA TypeScanIdle ==
  ASSUME IInv, AcceptFail \/ Refuse \/ TakeError \/ WriteNothing \/ WriteAbort \/ Pass
  PROVE  TypeOK'
<1>3. CASE AcceptFail
  BY <1>3, TypeAdvance DEF IInv, TypeOK, AcceptFail, AtListener, AtUser, AtError, AtOutput, peerVars, tableVars
<1>4. CASE Refuse
  <2>1. /\ conn' \in [Conns -> {"idle", "queued", "open", "closed"}]
        /\ inq' \in [Conns -> Seq(Message)]
        /\ peer' \in [Conns -> {"up", "fin", "rst", "rstseen"}]
    BY <1>4, TypeDiscard DEF IInv, Refuse
  <2> QED
    BY <1>4, <2>1, TypeAdvance DEF IInv, TypeOK, Refuse, AtListener, tableVars
<1>5. CASE TakeError
  BY <1>5, TypeAdvance DEF IInv, TypeOK, TakeError, AtListener, AtUser, AtError, AtOutput, tableVars
<1>6. CASE WriteNothing
  BY <1>6, TypeAdvance DEF IInv, TypeOK, WriteNothing, AtListener, AtUser, AtError, AtOutput, peerVars, tableVars
<1>7. CASE WriteAbort
  BY <1>7 DEF IInv, TypeOK, WriteAbort, peerVars, tableVars
<1>8. CASE Pass
  BY <1>8, TypeAdvance DEF IInv, TypeOK, Pass, AtListener, AtUser, AtError, AtOutput, peerVars, tableVars
<1> QED
  BY <1>3, <1>4, <1>5, <1>6, <1>7, <1>8

LEMMA TypePoll == ASSUME TypeOK, Poll PROVE TypeOK'
<1>1. \A j \in 0..UserLimit : Revents(fds[j]) \in SUBSET Event
  BY DEF Revents, ReadyEvents, Event
<1>2. fds' \in [0..UserLimit -> PollFd]
  BY <1>1, EntryType DEF TypeOK, Poll
<1> QED
  BY <1>2, Bounds DEF TypeOK, Poll, peerVars

LEMMA TypeAccept == ASSUME TypeOK, Accept PROVE TypeOK'
<1>1. PICK fd \in Fds :
         /\ sock' = [sock EXCEPT ![fd] = Head(backlog)]
         /\ fds' = [fds EXCEPT ![user_count + 1] = NewEntry(fd)]
  BY DEF Accept
<1>2. Head(backlog) \in Conns /\ Tail(backlog) \in Seq(Conns)
  BY DEF TypeOK, Accept
<1>3. sock' \in [Fds -> Conns \cup {NoConn}] /\ conn' \in [Conns -> {"idle", "queued", "open", "closed"}]
  BY <1>1, <1>2 DEF TypeOK, Accept
<1>4. NewEntry(fd) \in PollFd
  BY DEF NewEntry, PollFd, Event
<1>5. fds' \in [0..UserLimit -> PollFd]
  BY <1>1, <1>4 DEF TypeOK
<1>6. user_count' \in 0..UserLimit
  BY Bounds DEF Accept, Room
<1>7. i' \in 0..UserLimit + 1 /\ seen' \subseteq Fds
  BY TypeAdvance DEF Accept, AtListener
<1> QED
  BY <1>2, <1>3, <1>5, <1>6, <1>7 DEF TypeOK, Accept, peerVars

LEMMA TypeDrop ==
  ASSUME IInv, AtHangup \/ AtInput, NEW data \in [Fds -> UserRec], DropUser(data),
         UNCHANGED <<backlog, sent, got, running>>
  PROVE  TypeOK'
<1>1. i \in Live /\ Here.fd \in Fds /\ HereConn \in Conns /\ user_count \in 1..UserLimit
      /\ fds[user_count].fd \in Fds /\ fds[user_count] \in PollFd
  BY UserEntry DEF IInv, TypeOK
<1>2. user_count' \in 0..UserLimit /\ i' \in 0..UserLimit + 1
  BY <1>1, Bounds DEF IInv, DropUser, NextIndex, Live
<1>3. users' \in [Fds -> UserRec]
  BY <1>1 DEF DropUser, LastEntry
<1>4. sock' \in [Fds -> Conns \cup {NoConn}]
  BY <1>1 DEF IInv, TypeOK, DropUser
<1>5. fds' \in [0..UserLimit -> PollFd] /\ seen' \subseteq Fds /\ copied' \subseteq Fds
  BY <1>1 DEF IInv, TypeOK, DropUser, LastEntry
<1>6. /\ conn' \in [Conns -> {"idle", "queued", "open", "closed"}]
      /\ inq' \in [Conns -> Seq(Message)]
      /\ peer' \in [Conns -> {"up", "fin", "rst", "rstseen"}]
  BY TypeDiscard DEF IInv, DropUser
<1> QED
  BY <1>2, <1>3, <1>4, <1>5, <1>6 DEF IInv, TypeOK

LEMMA TypeRead == ASSUME IInv, ReadError \/ ReadNothing \/ ReadText PROVE TypeOK'
<1>1. Here.fd \in Fds /\ HereConn \in Conns
  BY UserEntry DEF ReadError, ReadNothing, ReadText
<1>2. Cleared \in [Fds -> UserRec]
  BY <1>1 DEF IInv, TypeOK, Cleared, UserRec
<1>3. CASE ReadError
  BY <1>2, <1>3, TypeDrop DEF ReadError
<1>4. CASE ReadNothing
  BY <1>2, <1>4, TypeAdvance DEF IInv, TypeOK, ReadNothing, AtInput, AtUser, peerVars
<1>5. CASE ReadText
  <2> DEFINE others == {j \in 1..user_count : fds[j].fd # Here.fd}
  <2>1. Head(inq[HereConn]) \in Message /\ Tail(inq[HereConn]) \in Seq(Message)
    BY <1>1, <1>5 DEF IInv, TypeOK, ReadText
  <2>2. \A j \in 0..UserLimit : fds[j].events \cup (Event \ {"IN"}) \cup {"OUT"} \in SUBSET Event
    BY DEF IInv, TypeOK, PollFd, Event
  <2>3. fds' \in [0..UserLimit -> PollFd]
    <3> HIDE DEF others
    <3>1. fds' = [j \in 0..UserLimit |->
                    IF j \in others
                      THEN [fds[j] EXCEPT !.events = @ \cup (Event \ {"IN"}) \cup {"OUT"}]
                      ELSE fds[j]]
      BY <1>5 DEF ReadText, others
    <3> QED
      BY <2>2, <3>1, EntryType DEF IInv, TypeOK
  <2>4. users' \in [Fds -> UserRec]
    BY <1>1, <1>5, <2>1 DEF ReadText, IInv, TypeOK, UserRec
  <2> QED
    BY <1>5, <2>1, <2>3, <2>4, TypeAdvance DEF IInv, TypeOK, ReadText, AtInput, AtUser
<1> QED
  BY <1>3, <1>4, <1>5

LEMMA TypeWrite == ASSUME IInv, WriteText PROVE TypeOK'
<1>1. i \in Live /\ Here.fd \in Fds /\ HereConn \in Conns /\ i \in 0..UserLimit
  BY UserEntry, Bounds DEF WriteText, IInv, Live
<1>2. users[users[Here.fd].write_buf].buf \in Message \cup {Blank}
  BY DEF IInv, TypeOK, WriteText, UserRec
<1>3. got' \in [Conns -> SUBSET Message]
  BY <1>1, <1>2 DEF IInv, TypeOK, WriteText
<1>4. users' \in [Fds -> UserRec]
  BY <1>1, ZenonT(40) DEF IInv, TypeOK, WriteText, Sent, UserRec
<1>5. fds' \in [0..UserLimit -> PollFd]
  <2>1. fds[i] \in PollFd /\ fds[i].events \cup (Event \ {"OUT"}) \cup {"IN"} \in SUBSET Event
    BY <1>1 DEF IInv, TypeOK, PollFd, Event
  <2>2. fds' = [fds EXCEPT ![i] = [fds[i] EXCEPT !.events = @ \cup (Event \ {"OUT"}) \cup {"IN"}]]
    BY DEF WriteText
  <2> QED
    BY <2>1, <2>2, EntryType DEF IInv, TypeOK
<1> QED
  BY <1>3, <1>4, <1>5, TypeAdvance DEF IInv, TypeOK, WriteText, AtOutput, AtUser, peerVars

-----------------------------------------------------------------------------
(* The table of pollfd entries and the descriptors of the process.         *)

LEMMA TableInit == ASSUME ChatAssumption PROVE Init => Table
BY DEF Init, Table, ListenerEvents, EntriesDistinct, EntriesOpen, OpenListed, Live, ChatAssumption

(* Steps that change events or revents only.                               *)
LEMMA TableFrame ==
  ASSUME Table, UNCHANGED <<sock, user_count>>, fds'[0].revents \subseteq {"IN"},
         fds'[0].fd = fds[0].fd, \A j \in Live : fds'[j].fd = fds[j].fd
  PROVE  Table'
BY DEF Table, ListenerEvents, EntriesDistinct, EntriesOpen, OpenListed, Live

LEMMA EventsOnly ==
  ASSUME IInv, ReadText \/ WriteText
  PROVE  \A j \in 0..UserLimit :
           /\ fds'[j].fd = fds[j].fd /\ fds'[j].revents = fds[j].revents
           /\ fds[j].events \subseteq fds'[j].events
<1>1. CASE ReadText
  BY <1>1 DEF IInv, TypeOK, ReadText, PollFd
<1>2. CASE WriteText
  BY <1>2 DEF IInv, TypeOK, WriteText, PollFd
<1> QED
  BY <1>1, <1>2

LEMMA TablePoll == ASSUME IInv, Poll PROVE Table'
<1>1. /\ 0 \in 0..UserLimit /\ 0 \in 0..user_count
      /\ \A j \in Live : j \in 0..UserLimit
  BY Bounds DEF IInv, Live
<1>2. \A j \in 0..UserLimit : fds'[j].fd = fds[j].fd
  BY DEF IInv, TypeOK, Poll, PollFd
<1>3. fds'[0].revents = Revents(fds[0])
  BY <1>1 DEF IInv, TypeOK, Poll, PollFd, Polled
<1>4. fds'[0].revents \subseteq {"IN"}
  BY <1>3 DEF IInv, Table, ListenerEvents, Revents
<1> QED
  BY <1>1, <1>2, <1>4, TableFrame DEF IInv, Poll

LEMMA TableRead == ASSUME IInv, ReadText PROVE Table'
<1>1. 0 \in 0..UserLimit /\ \A j \in Live : j \in 0..UserLimit
  BY Bounds DEF IInv, Live
<1>2. \A j \in 0..UserLimit : fds'[j].fd = fds[j].fd /\ fds'[j].revents = fds[j].revents
  BY EventsOnly
<1> QED
  BY <1>1, <1>2, TableFrame DEF IInv, Table, ListenerEvents, ReadText

LEMMA TableWrite == ASSUME IInv, WriteText PROVE Table'
<1>1. 0 \in 0..UserLimit /\ \A j \in Live : j \in 0..UserLimit
  BY Bounds DEF IInv, Live
<1>2. \A j \in 0..UserLimit : fds'[j].fd = fds[j].fd /\ fds'[j].revents = fds[j].revents
  BY EventsOnly
<1> QED
  BY <1>1, <1>2, TableFrame DEF IInv, Table, ListenerEvents, WriteText

LEMMA TableAccept == ASSUME IInv, Accept PROVE Table'
<1>1. PICK fd \in Fds :
         /\ LowestFree(fd)
         /\ sock' = [sock EXCEPT ![fd] = Head(backlog)]
         /\ fds' = [fds EXCEPT ![user_count + 1] = NewEntry(fd)]
  BY DEF Accept
<1>2. user_count' = user_count + 1 /\ user_count \in Nat /\ user_count + 1 \in 0..UserLimit
  BY Bounds DEF IInv, Accept, Room
<1>3. Head(backlog) # NoConn
  BY ChatAssumption DEF IInv, TypeOK, Accept, ChatAssumption
<1>4. Live' = Live \cup {user_count + 1} /\ user_count + 1 \notin Live /\ 0 \notin Live'
  BY <1>2 DEF Live
<1>5. \A j \in 0..UserLimit : j # user_count + 1 => fds'[j] = fds[j]
  BY <1>1 DEF IInv, TypeOK
<1>6. fds'[user_count + 1].fd = fd
  BY <1>1, <1>2 DEF IInv, TypeOK, NewEntry
<1>7. \A j \in Live : j \in 0..UserLimit /\ j # user_count + 1 /\ fds'[j] = fds[j]
  BY <1>2, <1>4, <1>5, Bounds DEF IInv, Live
<1>8. sock[fd] = NoConn /\ sock'[fd] # NoConn /\ \A g \in Fds : g # fd => sock'[g] = sock[g]
  BY <1>1, <1>3 DEF IInv, TypeOK, LowestFree
<1>9. ListenerEvents'
  BY <1>2, <1>5, Bounds DEF IInv, Table, ListenerEvents
<1>10. EntriesDistinct'
  BY <1>4, <1>6, <1>7, <1>8 DEF IInv, Table, EntriesDistinct, EntriesOpen
<1>11. EntriesOpen'
  BY <1>4, <1>6, <1>7, <1>8 DEF IInv, Table, EntriesOpen
<1>12. OpenListed'
  BY <1>4, <1>6, <1>7, <1>8 DEF IInv, Table, OpenListed
<1> QED
  BY <1>9, <1>10, <1>11, <1>12 DEF Table

(* The last entry fills the hole: its descriptor keeps exactly one entry,  *)
(* and the one that is closed loses its only one.                          *)
LEMMA TableDrop ==
  ASSUME IInv, AtHangup \/ AtInput, NEW data, DropUser(data)
  PROVE  Table'
<1>1. i \in Live /\ user_count \in Live /\ Here.fd \in Fds /\ user_count \in 1..UserLimit
  BY UserEntry
<1>2. user_count' = user_count - 1 /\ Live' = Live \ {user_count}
  BY <1>1 DEF DropUser, Live
<1>3. \A j \in Live : j \in 0..UserLimit /\ j # 0
  BY Bounds DEF IInv, Live
<1>4. fds'[i] = fds[user_count] /\ \A j \in 0..UserLimit : j # i => fds'[j] = fds[j]
  BY <1>1, <1>3 DEF IInv, TypeOK, DropUser, LastEntry
<1>5. sock'[fds[i].fd] = NoConn /\ \A g \in Fds : g # fds[i].fd => sock'[g] = sock[g]
  BY <1>1 DEF IInv, TypeOK, DropUser, ClosedFd, Here
<1>6. ListenerEvents'
  BY <1>1, <1>3, <1>4, Bounds DEF IInv, Table, ListenerEvents
<1>7. EntriesDistinct'
  <2>1. SUFFICES ASSUME NEW j \in Live', NEW k \in Live', fds'[j].fd = fds'[k].fd
                 PROVE  j = k
    BY DEF EntriesDistinct
  <2>2. j \in Live /\ k \in Live /\ j # user_count /\ k # user_count
    BY <1>2
  <2> QED
    BY <1>1, <1>3, <1>4, <2>1, <2>2 DEF IInv, Table, EntriesDistinct
<1>8. EntriesOpen'
  <2>1. SUFFICES ASSUME NEW j \in Live' PROVE fds'[j].fd \in Fds /\ sock'[fds'[j].fd] # NoConn
    BY DEF EntriesOpen
  <2>2. PICK k \in Live : fds'[j] = fds[k] /\ k # i
    <3>1. CASE j = i
      BY <1>1, <1>2, <1>4, <2>1, <3>1
    <3>2. CASE j # i
      BY <1>2, <1>3, <1>4, <2>1, <3>2
    <3> QED
      BY <3>1, <3>2
  <2>3. fds[k].fd \in Fds /\ sock[fds[k].fd] # NoConn
    BY DEF IInv, Table, EntriesOpen
  <2>4. fds[k].fd # fds[i].fd
    BY <1>1, <2>2 DEF IInv, Table, EntriesDistinct
  <2> QED
    BY <1>5, <2>2, <2>3, <2>4
<1>9. OpenListed'
  <2>1. SUFFICES ASSUME NEW g \in Fds, sock'[g] # NoConn
                 PROVE  \E j \in Live' : fds'[j].fd = g
    BY DEF OpenListed
  <2>2. g # fds[i].fd /\ sock[g] # NoConn
    BY <1>5, <2>1
  <2>3. PICK j \in Live : fds[j].fd = g
    BY <2>2 DEF IInv, Table, OpenListed
  <2>4. CASE j = user_count
    BY <1>1, <1>2, <1>4, <2>2, <2>3, <2>4
  <2>5. CASE j # user_count
    BY <1>2, <1>3, <1>4, <2>2, <2>3, <2>5
  <2> QED
    BY <2>4, <2>5
<1> QED
  BY <1>6, <1>7, <1>8, <1>9 DEF Table

LEMMA TableIdle ==
  ASSUME Table, UNCHANGED <<sock, fds, user_count>>
  PROVE  Table'
BY DEF Table, ListenerEvents, EntriesDistinct, EntriesOpen, OpenListed, Live

-----------------------------------------------------------------------------
(* IInv is inductive.                                                      *)

LEMMA IInvStep == IInv /\ [Next]_vars => IInv'
<1> SUFFICES ASSUME IInv, [Next]_vars PROVE TypeOK' /\ Table'
  BY DEF IInv
<1>1. CASE Peers
  <2>1. PICK c \in Conns : Connect(c) \/ SendText(c) \/ Hangup(c) \/ Reset(c)
    BY <1>1 DEF Peers
  <2>2. TypeOK'
    BY <2>1, TypePeers DEF IInv
  <2>3. UNCHANGED <<sock, fds, user_count>>
    BY <2>1 DEF Connect, SendText, Hangup, Reset, tableVars
  <2> QED
    BY <2>2, <2>3, TableIdle DEF IInv
<1>2. CASE Poll
  BY <1>2, TypePoll, TablePoll DEF IInv
<1>3. CASE Accept
  BY <1>3, TypeAccept, TableAccept DEF IInv
<1>4. CASE AcceptFail \/ Refuse \/ TakeError \/ WriteNothing \/ WriteAbort \/ Pass
  <2>1. UNCHANGED <<sock, fds, user_count>>
    BY <1>4 DEF AcceptFail, Refuse, TakeError, WriteNothing, WriteAbort, Pass, tableVars
  <2> QED
    BY <1>4, <2>1, TypeScanIdle, TableIdle DEF IInv
<1>5. CASE Leave
  <2>1. users \in [Fds -> UserRec]
    BY DEF IInv, TypeOK
  <2> QED
    BY <1>5, <2>1, TypeDrop, TableDrop DEF Leave
<1>6. CASE ReadError
  BY <1>6, TypeRead, TableDrop DEF ReadError
<1>7. CASE ReadNothing
  BY <1>7, TypeRead, TableIdle DEF IInv, ReadNothing
<1>8. CASE ReadText
  BY <1>8, TypeRead, TableRead
<1>9. CASE WriteText
  BY <1>9, TypeWrite, TableWrite
<1>10. CASE UNCHANGED vars
  BY <1>10, TableIdle DEF IInv, TypeOK, vars, peerVars, tableVars
<1> QED
  BY <1>1, <1>2, <1>3, <1>4, <1>5, <1>6, <1>7, <1>8, <1>9, <1>10 DEF Next, Server

LEMMA IInvInit == Init => IInv
BY ChatAssumption, TypeInit, TableInit DEF IInv

(* The invariant: every index the scan uses is that of an entry in use.    *)
THEOREM Inductive == Spec => []IInv
BY IInvInit, IInvStep, PTL DEF Spec

(* Every variable keeps its type: in particular user_count stays within    *)
(* USER_LIMIT and the scan never indexes fds outside the table.            *)
THEOREM TypeCorrect == Spec => []TypeOK
<1>1. IInv => TypeOK
  BY DEF IInv
<1> QED
  BY Inductive, <1>1, PTL

LEMMA TableMeaning == IInv => TableConsistent
BY DEF IInv, Table, ListenerEvents, EntriesDistinct, EntriesOpen, OpenListed, TableConsistent

(* The table lists each open descriptor exactly once and nothing else,     *)
(* through every accept and every leave (lines 104-109, 127-131, 146-150). *)
THEOREM TableCorrect == Spec => []TableConsistent
BY Inductive, TableMeaning, PTL

-----------------------------------------------------------------------------
(* The scan handles every entry exactly once.                              *)

ScanInv == ScannedOnce /\ (i = 0 => seen = {})

LEMMA AtListenerZero == ASSUME IInv, AtListener PROVE i = 0
BY Bounds, ChatAssumption DEF IInv, Table, ListenerEvents, EntriesOpen, AtListener, Scanning,
   Here, Live, ChatAssumption

LEMMA ScanAdvance ==
  ASSUME IInv, ScanInv, Scanning, Advance, user_count' = user_count,
         \A j \in Live : fds'[j].fd = fds[j].fd
  PROVE  ScanInv'
<1>1. i \in 0..user_count /\ i' = i + 1 /\ Live' = Live /\ \A j \in Live : j \in Nat /\ j # 0
  BY Bounds DEF IInv, Scanning, Advance, Live
<1>2. \A j \in Live : fds[j].fd \in {Here.fd} \cap Fds <=> j = i
  <2>1. CASE i = 0
    BY <1>1, <2>1, ChatAssumption DEF IInv, Table, ListenerEvents, EntriesOpen, Here, ChatAssumption
  <2>2. CASE i # 0
    <3>1. i \in Live
      BY <1>1, <2>2, Bounds DEF IInv, Live
    <3> QED
      BY <3>1 DEF IInv, Table, EntriesDistinct, EntriesOpen, Here
  <2> QED
    BY <2>1, <2>2
<1>3. \A j \in Live : j < i' <=> j < i \/ j = i
  BY <1>1
<1> QED
  BY <1>1, <1>2, <1>3 DEF ScanInv, ScannedOnce, Advance

LEMMA ScanDrop ==
  ASSUME IInv, ScanInv, AtHangup \/ AtInput, NEW data, DropUser(data)
  PROVE  ScanInv'
<1>1. /\ i \in Live /\ user_count \in Live /\ Here.fd \in Fds /\ i' = i
      /\ Live' = Live \ {user_count} /\ \A j \in Live : j \in 0..UserLimit /\ j <= user_count /\ j # 0
  BY UserEntry, Bounds DEF IInv, DropUser, NextIndex, Live
<1>2. fds'[i] = fds[user_count] /\ \A j \in 0..UserLimit : j # i => fds'[j] = fds[j]
  BY <1>1 DEF IInv, TypeOK, DropUser, LastEntry
<1>3. \A j \in Live : fds[j].fd \in seen \cup {Here.fd} <=> j < i \/ j = i
  BY <1>1 DEF ScanInv, ScannedOnce, IInv, Table, EntriesDistinct, Here
<1>4. seen' = seen \cup {Here.fd}
  BY DEF DropUser
<1>5. ScannedOnce'
  <2>1. SUFFICES ASSUME NEW j \in Live' PROVE j < i <=> fds'[j].fd \in seen'
    BY <1>1 DEF ScannedOnce
  <2>2. CASE j = i
    BY <1>1, <1>2, <1>3, <1>4, <2>1, <2>2
  <2>3. CASE j # i
    BY <1>1, <1>2, <1>3, <1>4, <2>1, <2>3
  <2> QED
    BY <2>2, <2>3
<1> QED
  BY <1>1, <1>5 DEF ScanInv

LEMMA ScanAccept == ASSUME IInv, ScanInv, Accept PROVE ScanInv'
<1>1. i = 0 /\ seen = {} /\ i' = 1
  BY AtListenerZero DEF Accept, ScanInv, Advance
<1>2. seen' = {}
  BY <1>1, ChatAssumption DEF Accept, AtListener, Advance, ChatAssumption
<1>3. \A j \in Live' : ~(j < 1)
  BY Bounds DEF IInv, Accept, Live
<1> QED
  BY <1>1, <1>2, <1>3 DEF ScanInv, ScannedOnce

LEMMA ScanPoll == ASSUME IInv, Poll PROVE ScanInv'
<1>1. i' = 0 /\ seen' = {} /\ \A j \in Live' : ~(j < 0)
  BY Bounds DEF IInv, Poll, Live
<1> QED
  BY <1>1 DEF ScanInv, ScannedOnce

LEMMA ScanStep == IInv /\ ScanInv /\ [Next]_vars => ScanInv'
<1> SUFFICES ASSUME IInv, ScanInv, [Next]_vars PROVE ScanInv'
  OBVIOUS
<1>1. CASE Peers \/ WriteAbort \/ UNCHANGED vars
  <2>1. UNCHANGED <<fds, user_count, i, seen>>
    BY <1>1 DEF Peers, Connect, SendText, Hangup, Reset, WriteAbort, vars, tableVars
  <2> QED
    BY <2>1 DEF ScanInv, ScannedOnce, Live
<1>2. CASE Poll
  BY <1>2, ScanPoll
<1>3. CASE Accept
  BY <1>3, ScanAccept
<1>4. CASE AcceptFail \/ Refuse \/ TakeError \/ WriteNothing \/ Pass \/ ReadNothing
  <2>1. Scanning /\ Advance /\ UNCHANGED <<fds, user_count>>
    BY <1>4 DEF AcceptFail, Refuse, TakeError, WriteNothing, Pass, ReadNothing, tableVars,
       AtListener, AtUser, AtError, AtOutput, AtInput
  <2> QED
    BY <2>1, ScanAdvance
<1>5. CASE Leave
  BY <1>5, ScanDrop DEF Leave
<1>6. CASE ReadError
  BY <1>6, ScanDrop DEF ReadError
<1>7. CASE ReadText \/ WriteText
  <2>1. Scanning /\ Advance /\ user_count' = user_count
    BY <1>7 DEF ReadText, WriteText, AtOutput, AtInput, AtUser
  <2>2. \A j \in 0..UserLimit : fds'[j].fd = fds[j].fd
    BY <1>7, EventsOnly
  <2>3. \A j \in Live : j \in 0..UserLimit
    BY Bounds DEF IInv, Live
  <2> QED
    BY <2>1, <2>2, <2>3, ScanAdvance
<1> QED
  BY <1>1, <1>2, <1>3, <1>4, <1>5, <1>6, <1>7 DEF Next, Server

LEMMA ScanInit == Init => ScanInv
BY DEF Init, ScanInv, ScannedOnce, Live

(* No entry is skipped and none is looked at twice between two calls of    *)
(* poll(), however many users the scan removes (lines 83, 130, 149).       *)
THEOREM ScanCorrect == Spec => []ScannedOnce
<1>1. ScanInv => ScannedOnce
  BY DEF ScanInv
<1> QED
  BY Inductive, ScanInit, ScanStep, <1>1, PTL DEF Spec

-----------------------------------------------------------------------------
(* The write_buf of an entry with POLLOUT.                                 *)

LEMMA ArmedFrame ==
  ASSUME ArmedPointer, UNCHANGED user_count,
         \A j \in Live : /\ fds'[j].fd = fds[j].fd /\ fds'[j].events = fds[j].events
                         /\ users'[fds[j].fd].write_buf = users[fds[j].fd].write_buf
  PROVE  ArmedPointer'
BY DEF ArmedPointer, Live

LEMMA ArmedPoll == ASSUME IInv, ArmedPointer, Poll PROVE ArmedPointer'
<1>1. \A j \in 0..UserLimit : fds'[j].fd = fds[j].fd /\ fds'[j].events = fds[j].events
  BY DEF IInv, TypeOK, Poll, PollFd
<1>2. \A j \in Live : j \in 0..UserLimit
  BY Bounds DEF IInv, Live
<1> QED
  BY <1>1, <1>2, ArmedFrame DEF Poll

LEMMA ArmedRead == ASSUME IInv, ArmedPointer, ReadText PROVE ArmedPointer'
<1>1. i \in Live /\ Here.fd \in Fds /\ Live' = Live /\ \A j \in Live : j \in 0..UserLimit
  BY UserEntry, Bounds DEF ReadText, IInv, Live
<1>2. \A j \in 0..UserLimit : fds'[j].fd = fds[j].fd
  BY EventsOnly
<1>3. SUFFICES ASSUME NEW j \in Live, "OUT" \in fds'[j].events
               PROVE  users'[fds[j].fd].write_buf \in (Fds \cup {Null}) \ {fds[j].fd}
  BY <1>1, <1>2 DEF ArmedPointer
<1>4. fds[j].fd \in Fds
  BY DEF IInv, Table, EntriesOpen
<1>5. CASE fds[j].fd = Here.fd
  <2>1. fds'[j] = fds[j]
    BY <1>1, <1>5 DEF ReadText
  <2>2. users'[fds[j].fd].write_buf = users[fds[j].fd].write_buf
    BY <1>4, <1>5 DEF ReadText
  <2> QED
    BY <1>3, <2>1, <2>2 DEF ArmedPointer
<1>6. CASE fds[j].fd # Here.fd
  <2>1. users'[fds[j].fd].write_buf = Here.fd
    BY <1>4, <1>6 DEF ReadText, Live
  <2> QED
    BY <1>1, <1>6, <2>1
<1> QED
  BY <1>5, <1>6

LEMMA ArmedWrite == ASSUME IInv, ArmedPointer, WriteText PROVE ArmedPointer'
<1>1. i \in Live /\ Here.fd \in Fds /\ Live' = Live /\ \A j \in Live : j \in 0..UserLimit
  BY UserEntry, Bounds DEF WriteText, IInv, Live
<1>2. \A j \in 0..UserLimit : fds'[j].fd = fds[j].fd /\ (j # i => fds'[j] = fds[j])
  BY EventsOnly DEF WriteText, IInv, TypeOK
<1>3. users'[Here.fd].write_buf = Null /\ \A g \in Fds : g # Here.fd => users'[g] = users[g]
  BY <1>1 DEF IInv, TypeOK, WriteText, Sent, UserRec
<1>4. \A j \in Live : fds[j].fd \in Fds /\ (j # i => fds[j].fd # Here.fd)
  BY <1>1 DEF IInv, Table, EntriesDistinct, EntriesOpen, Here
<1>5. Null \notin Fds
  BY ChatAssumption DEF ChatAssumption
<1>6. SUFFICES ASSUME NEW j \in Live, "OUT" \in fds'[j].events
               PROVE  users'[fds[j].fd].write_buf \in (Fds \cup {Null}) \ {fds[j].fd}
  BY <1>1, <1>2 DEF ArmedPointer
<1>7. CASE j = i
  BY <1>3, <1>4, <1>5, <1>7 DEF Here
<1>8. CASE j # i
  BY <1>1, <1>2, <1>3, <1>4, <1>6, <1>8 DEF ArmedPointer
<1> QED
  BY <1>7, <1>8

LEMMA ArmedAccept == ASSUME IInv, ArmedPointer, Accept PROVE ArmedPointer'
<1>1. PICK fd \in Fds : fds' = [fds EXCEPT ![user_count + 1] = NewEntry(fd)]
  BY DEF Accept
<1>2. user_count + 1 \in 0..UserLimit /\ Live' = Live \cup {user_count + 1}
      /\ \A j \in Live : j \in 0..UserLimit /\ j # user_count + 1
  BY Bounds DEF IInv, Accept, Room, Live
<1>3. "OUT" \notin fds'[user_count + 1].events
  BY <1>1, <1>2 DEF IInv, TypeOK, NewEntry
<1>4. \A j \in Live : fds'[j] = fds[j]
  BY <1>1, <1>2 DEF IInv, TypeOK
<1> QED
  BY <1>2, <1>3, <1>4 DEF ArmedPointer, Accept

(* The record the leaver's slot receives is not the one of a live entry.   *)
LEMMA ArmedDrop ==
  ASSUME IInv, ArmedPointer, AtHangup \/ AtInput, NEW data \in [Fds -> UserRec],
         DropUser(data), \A g \in Fds : data[g].write_buf = users[g].write_buf
  PROVE  ArmedPointer'
<1>1. i \in Live /\ user_count \in Live /\ Here.fd \in Fds
      /\ Live' = Live \ {user_count} /\ \A j \in Live : j \in 0..UserLimit
  BY UserEntry, Bounds DEF IInv, DropUser, Live
<1>2. fds'[i] = fds[user_count] /\ \A j \in 0..UserLimit : j # i => fds'[j] = fds[j]
  BY <1>1 DEF IInv, TypeOK, DropUser, LastEntry
<1>3. \A g \in Fds : g # Here.fd => users'[g].write_buf = users[g].write_buf
  BY DEF DropUser
<1>4. \A j \in Live' : \E k \in Live : k # i /\ fds'[j] = fds[k]
  BY <1>1, <1>2
<1>5. \A k \in Live : k # i => fds[k].fd \in Fds /\ fds[k].fd # Here.fd
  BY <1>1 DEF IInv, Table, EntriesDistinct, EntriesOpen, Here
<1> QED
  BY <1>3, <1>4, <1>5 DEF ArmedPointer

LEMMA ArmedStep == IInv /\ ArmedPointer /\ [Next]_vars => ArmedPointer'
<1> SUFFICES ASSUME IInv, ArmedPointer, [Next]_vars PROVE ArmedPointer'
  OBVIOUS
<1>1. CASE Peers \/ AcceptFail \/ Refuse \/ TakeError \/ WriteNothing \/ WriteAbort \/ Pass
           \/ UNCHANGED vars
  <2>1. UNCHANGED <<fds, users, user_count>>
    BY <1>1 DEF Peers, Connect, SendText, Hangup, Reset, AcceptFail, Refuse, TakeError,
       WriteNothing, WriteAbort, Pass, vars, tableVars
  <2> QED
    BY <2>1 DEF ArmedPointer, Live
<1>2. CASE Poll
  BY <1>2, ArmedPoll
<1>3. CASE Accept
  BY <1>3, ArmedAccept
<1>4. \A g \in Fds : Cleared[g].write_buf = users[g].write_buf
  BY DEF IInv, TypeOK, Cleared, UserRec
<1>5. CASE Leave
  BY <1>5, ArmedDrop DEF IInv, TypeOK, Leave
<1>6. CASE ReadError
  <2>1. Cleared \in [Fds -> UserRec]
    BY DEF IInv, TypeOK, Cleared, UserRec
  <2> QED
    BY <1>4, <1>6, <2>1, ArmedDrop DEF ReadError
<1>7. CASE ReadNothing
  <2>1. \A j \in Live : fds[j].fd \in Fds
    BY DEF IInv, Table, EntriesOpen
  <2> QED
    BY <1>4, <1>7, <2>1, ArmedFrame DEF ReadNothing
<1>8. CASE ReadText
  BY <1>8, ArmedRead
<1>9. CASE WriteText
  BY <1>9, ArmedWrite
<1> QED
  BY <1>1, <1>2, <1>3, <1>5, <1>6, <1>7, <1>8, <1>9 DEF Next, Server

LEMMA ArmedInit == Init => ArmedPointer
BY DEF Init, ArmedPointer, Live

(* send() at line 179 is never given the pointer `new client_data[]` left  *)
(* uninitialized (line 62), nor the receiver's own buffer.                 *)
THEOREM ArmedCorrect == Spec => []ArmedPointer
BY Inductive, ArmedInit, ArmedStep, PTL DEF Spec

-----------------------------------------------------------------------------
(***************************************************************************)
(* What the chat server does for each connection, for every number of      *)
(* them: it implements the roster, handles only events that are still      *)
(* true, and repeats a text only out of a copied buffer. All three rest on *)
(* one fact, that a connection is in one place: idle, once in the backlog, *)
(* behind one descriptor, or closed; so that handling one entry of the     *)
(* table leaves the connections of the others alone.                       *)
(***************************************************************************)
BehindIsOpen == \A fd \in Fds : sock[fd] # NoConn => conn[sock[fd]] = "open"
BehindOne    == \A f, g \in Fds : sock[f] = sock[g] /\ sock[f] # NoConn => f = g
QueuedIsIn   == \A k \in 1..Len(backlog) : conn[backlog[k]] = "queued"
QueuedOnce   == \A j, k \in 1..Len(backlog) : backlog[j] = backlog[k] => j = k

Placed == BehindIsOpen /\ BehindOne /\ QueuedIsIn /\ QueuedOnce

(* Texts that are somewhere past recv() are older than those before it.    *)
InOrder ==
  \A c \in Conns :
    /\ \A k \in 1..Len(inq[c]) : inq[c][k].from = c /\ inq[c][k].seq <= sent[c]
    /\ \A j, k \in 1..Len(inq[c]) : j < k => inq[c][j].seq < inq[c][k].seq

Past(m) ==
  /\ conn[m.from] \in {"open", "closed"} /\ m.seq <= sent[m.from]
  /\ \A k \in 1..Len(inq[m.from]) : m.seq < inq[m.from][k].seq

BufferedPast == \A fd \in Fds : users[fd].buf # Blank => Past(users[fd].buf)
GotPast      == \A c \in Conns : \A m \in got[c] : Past(m)

Texts == InOrder /\ BufferedPast /\ GotPast /\ OnlyCopiesRepeat

-----------------------------------------------------------------------------
(* Sequences.                                                              *)

LEMMA QueueTail ==
  ASSUME NEW S, NEW s \in Seq(S), s # <<>>
  PROVE  /\ Head(s) = s[1] /\ 1 \in 1..Len(s) /\ Tail(s) \in Seq(S)
         /\ \A k \in 1..Len(Tail(s)) :
              Tail(s)[k] = s[k + 1] /\ k + 1 \in 1..Len(s) /\ k \in Nat \ {0}
<1>1. Len(s) \in Nat /\ Len(s) # 0
  BY LenProperties, EmptySeq
<1>2. Tail(s) \in Seq(S) /\ Len(Tail(s)) = Len(s) - 1 /\ \A k \in 1..Len(Tail(s)) : Tail(s)[k] = s[k + 1]
  BY HeadTailProperties
<1>3. Head(s) = s[1]
  OBVIOUS
<1> QED
  BY <1>1, <1>2, <1>3

LEMMA QueueAppend ==
  ASSUME NEW S, NEW s \in Seq(S), NEW x \in S
  PROVE  /\ Len(s) \in Nat /\ Len(Append(s, x)) = Len(s) + 1
         /\ Append(s, x)[Len(s) + 1] = x
         /\ \A k \in 1..Len(s) : Append(s, x)[k] = s[k]
         /\ \A k \in 1..Len(Append(s, x)) : k \in 1..Len(s) \/ k = Len(s) + 1
<1>1. Len(s) \in Nat
  BY LenProperties
<1> QED
  BY <1>1, AppendProperties

-----------------------------------------------------------------------------
(* A connection is in one place.                                           *)

LEMMA PlacedFrame ==
  ASSUME Placed, UNCHANGED <<backlog, conn, sock>>
  PROVE  Placed'
BY DEF Placed, BehindIsOpen, BehindOne, QueuedIsIn, QueuedOnce

LEMMA PlacedConnect ==
  ASSUME IInv, Placed, NEW c \in Conns, Connect(c)
  PROVE  Placed'
<1>1. /\ conn[c] = "idle" /\ backlog' = Append(backlog, c) /\ conn' = [conn EXCEPT ![c] = "queued"]
      /\ sock' = sock /\ backlog \in Seq(Conns) /\ conn \in [Conns -> {"idle", "queued", "open", "closed"}]
      /\ sock \in [Fds -> Conns \cup {NoConn}]
  BY DEF Connect, IInv, TypeOK
<1>2. /\ Len(backlog) \in Nat /\ backlog'[Len(backlog) + 1] = c
      /\ \A k \in 1..Len(backlog) : backlog'[k] = backlog[k] /\ backlog[k] \in Conns
      /\ \A k \in 1..Len(backlog') : k \in 1..Len(backlog) \/ k = Len(backlog) + 1
  BY <1>1, QueueAppend, ElementOfSeq
<1>3. \A k \in 1..Len(backlog) : backlog[k] # c
  BY <1>1 DEF Placed, QueuedIsIn
<1>4. BehindIsOpen' /\ BehindOne'
  BY <1>1 DEF Placed, BehindIsOpen, BehindOne
<1>5. QueuedIsIn'
  BY <1>1, <1>2, <1>3 DEF Placed, QueuedIsIn
<1>6. QueuedOnce'
  BY <1>2, <1>3 DEF Placed, QueuedOnce
<1> QED
  BY <1>4, <1>5, <1>6 DEF Placed

(* Whoever is next in the backlog goes to state.                           *)
LEMMA PlacedServe ==
  ASSUME IInv, Placed, backlog # <<>>, NEW state, backlog' = Tail(backlog),
         conn' = [conn EXCEPT ![Head(backlog)] = state]
  PROVE  /\ Head(backlog) \in Conns /\ conn[Head(backlog)] = "queued"
         /\ QueuedIsIn' /\ QueuedOnce'
         /\ \A fd \in Fds : sock[fd] # Head(backlog)
<1>1. /\ Head(backlog) = backlog[1] /\ 1 \in 1..Len(backlog)
      /\ \A k \in 1..Len(backlog') :
           backlog'[k] = backlog[k + 1] /\ k + 1 \in 1..Len(backlog) /\ k \in Nat \ {0}
  BY QueueTail DEF IInv, TypeOK
<1>2. Head(backlog) \in Conns /\ conn[Head(backlog)] = "queued"
  BY <1>1, ElementOfSeq DEF IInv, TypeOK, Placed, QueuedIsIn
<1>3. \A k \in 1..Len(backlog') : backlog'[k] # Head(backlog)
  BY <1>1 DEF Placed, QueuedOnce
<1>4. QueuedIsIn'
  <2>1. SUFFICES ASSUME NEW k \in 1..Len(backlog') PROVE conn'[backlog'[k]] = "queued"
    BY DEF QueuedIsIn
  <2>2. backlog'[k] \in Conns /\ conn[backlog'[k]] = "queued"
    BY <1>1, ElementOfSeq DEF IInv, TypeOK, Placed, QueuedIsIn
  <2> QED
    BY <1>3, <2>2 DEF IInv, TypeOK
<1>5. QueuedOnce'
  BY <1>1 DEF Placed, QueuedOnce
<1>6. \A fd \in Fds : sock[fd] # Head(backlog)
  <2>1. NoConn \notin Conns
    BY ChatAssumption DEF ChatAssumption
  <2> QED
    BY <1>2, <2>1 DEF Placed, BehindIsOpen
<1> QED
  BY <1>2, <1>4, <1>5, <1>6

LEMMA PlacedRefuse ==
  ASSUME IInv, Placed, Refuse
  PROVE  Placed'
<1>1. Head(backlog) \in Conns /\ QueuedIsIn' /\ QueuedOnce' /\ \A fd \in Fds : sock[fd] # Head(backlog)
  BY PlacedServe DEF Refuse, Discard
<1>2. sock' = sock /\ conn' = [conn EXCEPT ![Head(backlog)] = "closed"]
  BY DEF Refuse, Discard
<1>3. BehindIsOpen' /\ BehindOne'
  BY <1>1, <1>2 DEF Placed, BehindIsOpen, BehindOne, IInv, TypeOK
<1> QED
  BY <1>1, <1>3 DEF Placed

LEMMA PlacedAccept ==
  ASSUME IInv, Placed, Accept
  PROVE  Placed'
<1>1. Head(backlog) \in Conns /\ QueuedIsIn' /\ QueuedOnce' /\ \A fd \in Fds : sock[fd] # Head(backlog)
  BY PlacedServe DEF Accept
<1>2. PICK fd \in Fds : sock[fd] = NoConn /\ sock' = [sock EXCEPT ![fd] = Head(backlog)]
  BY DEF Accept, LowestFree
<1>3. conn' = [conn EXCEPT ![Head(backlog)] = "open"]
  BY DEF Accept
<1>4. BehindIsOpen' /\ BehindOne'
  BY <1>1, <1>2, <1>3 DEF Placed, BehindIsOpen, BehindOne, IInv, TypeOK
<1> QED
  BY <1>1, <1>4 DEF Placed

LEMMA PlacedDrop ==
  ASSUME IInv, Placed, AtHangup \/ AtInput, NEW data, DropUser(data), UNCHANGED backlog
  PROVE  Placed'
<1>1. /\ Here.fd \in Fds /\ HereConn \in Conns /\ HereConn = sock[Here.fd]
      /\ sock' = [sock EXCEPT ![Here.fd] = NoConn] /\ conn' = [conn EXCEPT ![HereConn] = "closed"]
  BY UserEntry DEF DropUser, Discard, ClosedFd, HereConn
<1>2. HereConn # NoConn
  BY <1>1, ChatAssumption DEF ChatAssumption
<1>3. conn[HereConn] = "open"
  BY <1>1, <1>2 DEF Placed, BehindIsOpen
<1>4. BehindIsOpen' /\ BehindOne'
  BY <1>1, <1>2 DEF Placed, BehindIsOpen, BehindOne, IInv, TypeOK
<1>5. QueuedIsIn' /\ QueuedOnce'
  <2>1. \A k \in 1..Len(backlog) : backlog[k] # HereConn
    BY <1>3 DEF Placed, QueuedIsIn
  <2>2. \A k \in 1..Len(backlog) : backlog[k] \in Conns
    BY ElementOfSeq DEF IInv, TypeOK
  <2> QED
    BY <1>1, <2>1, <2>2 DEF Placed, QueuedIsIn, QueuedOnce, IInv, TypeOK
<1> QED
  BY <1>4, <1>5 DEF Placed

LEMMA PlacedStep == IInv /\ Placed /\ [Next]_vars => Placed'
<1> SUFFICES ASSUME IInv, Placed, [Next]_vars PROVE Placed'
  OBVIOUS
<1>1. CASE \E c \in Conns : Connect(c)
  BY <1>1, PlacedConnect
<1>2. CASE \/ \E c \in Conns : SendText(c) \/ Hangup(c) \/ Reset(c)
           \/ Poll \/ AcceptFail \/ TakeError \/ ReadNothing \/ ReadText \/ WriteNothing
           \/ WriteText \/ WriteAbort \/ Pass \/ UNCHANGED vars
  <2>1. UNCHANGED <<backlog, conn, sock>>
    BY <1>2 DEF SendText, Hangup, Reset, Poll, AcceptFail, TakeError, ReadNothing, ReadText,
       WriteNothing, WriteText, WriteAbort, Pass, vars
  <2> QED
    BY <2>1, PlacedFrame
<1>3. CASE Refuse \/ Accept
  BY <1>3, PlacedRefuse, PlacedAccept
<1>4. CASE Leave \/ ReadError
  BY <1>4, PlacedDrop DEF Leave, ReadError
<1> QED
  BY <1>1, <1>2, <1>3, <1>4 DEF Next, Server, Peers

LEMMA PlacedInit == Init => Placed
<1> SUFFICES ASSUME Init PROVE Placed
  OBVIOUS
<1>1. Len(backlog) = 0
  BY EmptySeq DEF Init
<1> QED
  BY <1>1 DEF Init, Placed, BehindIsOpen, BehindOne, QueuedIsIn, QueuedOnce

(* accept() and close() move a connection from one place to the next, and  *)
(* no other step touches it (lines 90-109, 124-132, 141-151).              *)
THEOREM PlacedCorrect == Spec => []Placed
BY Inductive, PlacedInit, PlacedStep, PTL DEF Spec

-----------------------------------------------------------------------------
(* The roster.                                                             *)

Members == {sock[fds[j].fd] : j \in Live}

LEMMA MembersAre ==
  ASSUME IInv
  PROVE  \A c : c \in Members <=> \E fd \in Fds : sock[fd] # NoConn /\ sock[fd] = c
BY DEF Members, IInv, Table, EntriesOpen, OpenListed

LEMMA MembersCount ==
  ASSUME IInv, Placed
  PROVE  Cardinality(Members) = user_count
<1>1. user_count \in Nat /\ Live = 1..user_count
  BY Bounds DEF IInv, Live
<1> DEFINE f == [j \in Live |-> sock[fds[j].fd]]
<1>2. f \in [Live -> Members]
  BY DEF Members
<1>3. \A m \in Members : \E j \in Live : f[j] = m
  BY DEF Members
<1>4. \A j, k \in Live : f[j] = f[k] => j = k
  BY DEF IInv, Table, EntriesOpen, EntriesDistinct, Placed, BehindOne
<1>5. f \in Bijection(Live, Members)
  <2> HIDE DEF f
  <2> QED
    BY <1>2, <1>3, <1>4, Fun_IsBij
<1>6. ExistsBijection(Live, Members)
  BY <1>5, Fun_ExistsBij, Zenon
<1>7. IsFiniteSet(Live) /\ Cardinality(Live) = user_count
  <2>1. IsFiniteSet(1..user_count) /\ Cardinality(1..user_count) = IF 1 > user_count THEN 0 ELSE user_count - 1 + 1
    BY <1>1, FS_Interval
  <2>2. (IF 1 > user_count THEN 0 ELSE user_count - 1 + 1) = user_count
    BY <1>1
  <2> QED
    BY <1>1, <2>1, <2>2
<1> QED
  <2>1. Cardinality(Members) = Cardinality(Live)
    BY <1>6, <1>7, FS_Bijection
  <2> QED
    BY <1>7, <2>1

LEMMA MembersAfter ==
  ASSUME IInv'
  PROVE  \A c : c \in Members' <=> \E fd \in Fds : sock'[fd] # NoConn /\ sock'[fd] = c
BY DEF Members, IInv, Table, EntriesOpen, OpenListed

ClosedOnes == {c \in Conns : conn[c] = "closed"}

TableSteps == TableRoster!Next \/ UNCHANGED <<backlog, Members, ClosedOnes>>

LEMMA SameCardinality == \A S : TableRoster!Cardinality(S) = Cardinality(S)
BY DEF TableRoster!Cardinality, Cardinality

LEMMA RosterFrame ==
  ASSUME IInv, IInv', UNCHANGED <<backlog, conn, sock>>
  PROVE  UNCHANGED <<backlog, Members, ClosedOnes>>
<1>1. Members' = Members
  BY MembersAre, MembersAfter
<1> QED
  BY <1>1 DEF ClosedOnes

LEMMA RosterArrive ==
  ASSUME IInv, IInv', Placed, NEW c \in Conns, Connect(c)
  PROVE  TableRoster!Arrive(c)
<1>1. /\ conn[c] = "idle" /\ backlog' = Append(backlog, c) /\ sock' = sock
      /\ conn' = [conn EXCEPT ![c] = "queued"]
  BY DEF Connect
<1>2. Members' = Members
  BY <1>1, MembersAre, MembersAfter
<1>3. ClosedOnes' = ClosedOnes
  BY <1>1 DEF ClosedOnes, IInv, TypeOK
<1>4. c \notin Members
  BY <1>1, MembersAre DEF Placed, BehindIsOpen
<1>5. \A k \in 1..Len(backlog) : backlog[k] # c
  BY <1>1 DEF Placed, QueuedIsIn
<1>6. DOMAIN backlog = 1..Len(backlog)
  BY LenProperties DEF IInv, TypeOK
<1>7. c \notin TableRoster!Queued
  BY <1>5, <1>6 DEF TableRoster!Queued
<1> QED
  BY <1>1, <1>2, <1>3, <1>4, <1>7 DEF TableRoster!Arrive, Members, ClosedOnes

LEMMA RosterTurnAway ==
  ASSUME IInv, IInv', Placed, Refuse
  PROVE  TableRoster!TurnAway
<1>1. Head(backlog) \in Conns /\ conn[Head(backlog)] = "queued"
  BY PlacedServe DEF Refuse, Discard
<1>2. /\ backlog # <<>> /\ backlog' = Tail(backlog) /\ sock' = sock
      /\ conn' = [conn EXCEPT ![Head(backlog)] = "closed"]
  BY DEF Refuse, Discard
<1>3. Members' = Members
  BY <1>2, MembersAre, MembersAfter
<1>4. ClosedOnes' = ClosedOnes \cup {Head(backlog)}
  BY <1>1, <1>2, SMTT(30) DEF ClosedOnes, IInv, TypeOK
<1>5. TableRoster!Cardinality(Members) >= UserLimit
  BY MembersCount, SameCardinality, Bounds, ChatAssumption DEF IInv, Refuse, Room, ChatAssumption
<1>6. TableRoster!Serve
  BY <1>2 DEF TableRoster!Serve
<1> QED
  BY <1>3, <1>4, <1>5, <1>6, Zenon DEF TableRoster!TurnAway, Members, ClosedOnes

LEMMA RosterAdmit ==
  ASSUME IInv, IInv', Placed, Accept
  PROVE  TableRoster!Admit
<1>1. Head(backlog) \in Conns /\ conn[Head(backlog)] = "queued"
  BY PlacedServe DEF Accept
<1>2. PICK fd \in Fds : sock[fd] = NoConn /\ sock' = [sock EXCEPT ![fd] = Head(backlog)]
  BY DEF Accept, LowestFree
<1>3. /\ backlog # <<>> /\ backlog' = Tail(backlog)
      /\ conn' = [conn EXCEPT ![Head(backlog)] = "open"]
  BY DEF Accept
<1>4. Head(backlog) # NoConn
  BY <1>1, ChatAssumption DEF ChatAssumption
<1>5. Members' = Members \cup {Head(backlog)}
  BY <1>2, <1>4, MembersAre, MembersAfter DEF IInv, TypeOK
<1>6. ClosedOnes' = ClosedOnes
  BY <1>1, <1>3 DEF ClosedOnes, IInv, TypeOK
<1>7. TableRoster!Cardinality(Members) < UserLimit
  BY MembersCount, SameCardinality DEF Accept, Room
<1>8. TableRoster!Serve
  BY <1>3 DEF TableRoster!Serve
<1> QED
  BY <1>5, <1>6, <1>7, <1>8, Zenon DEF TableRoster!Admit, Members, ClosedOnes

LEMMA RosterLeave ==
  ASSUME IInv, IInv', Placed, AtHangup \/ AtInput, NEW data, DropUser(data), UNCHANGED backlog
  PROVE  TableRoster!Next
<1>1. /\ Here.fd \in Fds /\ HereConn \in Conns /\ HereConn = sock[Here.fd]
      /\ sock' = [sock EXCEPT ![Here.fd] = NoConn] /\ conn' = [conn EXCEPT ![HereConn] = "closed"]
  BY UserEntry DEF DropUser, Discard, ClosedFd, HereConn
<1>2. PICK c \in Conns : c = HereConn
  BY <1>1
<1>3. c # NoConn
  BY <1>2, ChatAssumption DEF ChatAssumption
<1>4. \A fd \in Fds : sock'[fd] = IF fd = Here.fd THEN NoConn ELSE sock[fd]
  BY <1>1 DEF IInv, TypeOK
<1>5. \A fd \in Fds : sock[fd] = c <=> fd = Here.fd
  BY <1>1, <1>2, <1>3 DEF Placed, BehindOne
<1>6. Members' = Members \ {c}
  <2>1. \A d : d \in Members' <=> d \in Members /\ d # c
    BY <1>4, <1>5, MembersAre, MembersAfter
  <2> QED
    BY <2>1
<1>7. c \in Members
  BY <1>1, <1>2, <1>3, MembersAre
<1>8. ClosedOnes' = ClosedOnes \cup {c}
  BY <1>1, <1>2 DEF ClosedOnes, IInv, TypeOK
<1>9. TableRoster!Leave(c)
  BY <1>6, <1>7, <1>8 DEF TableRoster!Leave, Members, ClosedOnes
<1> QED
  BY <1>9 DEF TableRoster!Next

LEMMA RosterStep ==
  IInv /\ IInv' /\ Placed /\ [Next]_vars => TableSteps
<1> SUFFICES ASSUME IInv, IInv', Placed, [Next]_vars PROVE TableSteps
  OBVIOUS
<1>1. CASE \E c \in Conns : Connect(c)
  BY <1>1, RosterArrive DEF TableSteps, TableRoster!Next
<1>2. CASE \/ \E c \in Conns : SendText(c) \/ Hangup(c) \/ Reset(c)
           \/ Poll \/ AcceptFail \/ TakeError \/ ReadNothing \/ ReadText \/ WriteNothing
           \/ WriteText \/ WriteAbort \/ Pass \/ UNCHANGED vars
  <2>1. UNCHANGED <<backlog, conn, sock>>
    BY <1>2 DEF SendText, Hangup, Reset, Poll, AcceptFail, TakeError, ReadNothing, ReadText,
       WriteNothing, WriteText, WriteAbort, Pass, vars
  <2> QED
    BY <2>1, RosterFrame DEF TableSteps
<1>3. CASE Refuse
  BY <1>3, RosterTurnAway DEF TableSteps, TableRoster!Next
<1>4. CASE Accept
  BY <1>4, RosterAdmit DEF TableSteps, TableRoster!Next
<1>5. CASE Leave \/ ReadError
  BY <1>5, RosterLeave DEF TableSteps, Leave, ReadError
<1> QED
  BY <1>1, <1>2, <1>3, <1>4, <1>5 DEF Next, Server, Peers

(* The server implements the roster for any number of connections and any  *)
(* USER_LIMIT (lines 95-109, 124-132, 141-151).                            *)
THEOREM RosterKept == Spec => KeepsRoster
<1>1. Init => TableRoster!Init
  BY DEF Init, TableRoster!Init, Live
<1> QED
  BY <1>1, Inductive, PlacedCorrect, RosterStep, PTL DEF Spec, KeepsRoster, TableRoster!Spec,
     TableSteps, Members, ClosedOnes

-----------------------------------------------------------------------------
(* The events that wait to be handled.                                     *)

FreshAt(j) ==
  LET ev == fds[j].revents
      c  == sock[fds[j].fd]
  IN /\ "IN" \in ev => Readable(c)
     /\ "RDHUP" \in ev => peer[c] # "up"
     /\ "ERR" \in ev => peer[c] = "rst"
     /\ "OUT" \in ev => "OUT" \in fds[j].events

FreshQueue == running /\ i = 0 /\ "IN" \in fds[0].revents => backlog # <<>>

LEMMA FreshParts == EventsFresh <=> FreshQueue /\ \A j \in Live : j >= i => FreshAt(j)
BY DEF EventsFresh, FreshQueue, FreshAt

LEMMA FreshPartsAfter == EventsFresh' <=> FreshQueue' /\ \A j \in Live' : j >= i' => FreshAt(j)'
BY DEF EventsFresh, FreshQueue, FreshAt

(* An entry stays fresh when its connection is left alone, whatever        *)
(* events are added to those it is registered for.                         *)
LEMMA FreshKept ==
  ASSUME NEW j, NEW k, FreshAt(k), fds'[j].fd = fds[k].fd, fds'[j].revents = fds[k].revents,
         fds[k].events \subseteq fds'[j].events, NEW c, sock[fds[k].fd] = c, sock'[fds[k].fd] = c,
         peer'[c] = peer[c], inq'[c] = inq[c]
  PROVE  FreshAt(j)'
BY DEF FreshAt, Readable

LEMMA FreshPeers ==
  ASSUME IInv, EventsFresh, Peers
  PROVE  EventsFresh'
<1>1. UNCHANGED <<fds, sock, user_count, i, running>> /\ (backlog # <<>> => backlog' # <<>>)
  BY DEF Peers, Connect, SendText, Hangup, Reset, tableVars, IInv, TypeOK
<1>2. \A c \in Conns : /\ peer[c] # "up" => peer'[c] # "up"
                       /\ peer[c] = "rst" => peer'[c] = "rst"
                       /\ inq[c] # <<>> => inq'[c] # <<>>
  <2>1. PICK d \in Conns : Connect(d) \/ SendText(d) \/ Hangup(d) \/ Reset(d)
    BY DEF Peers
  <2>2. CASE Connect(d)
    BY <2>2 DEF Connect, peerVars
  <2>3. CASE SendText(d)
    <3>1. Append(inq[d], [from |-> d, seq |-> sent[d] + 1]) # <<>>
      <4>1. sent[d] \in 0..MaxSends /\ sent[d] < MaxSends /\ MaxSends \in Nat
        BY <2>3, WithinScript DEF IInv
      <4>2. [from |-> d, seq |-> sent[d] + 1] \in Message
        BY <4>1 DEF Message
      <4>3. inq[d] \in Seq(Message)
        BY DEF IInv, TypeOK
      <4> QED
        BY <4>2, <4>3, AppendProperties
    <3>2. peer' = peer /\ inq' = [inq EXCEPT ![d] = Append(@, [from |-> d, seq |-> sent[d] + 1])]
      BY <2>3 DEF SendText
    <3> QED
      BY <3>1, <3>2 DEF IInv, TypeOK
  <2>4. CASE Hangup(d) \/ Reset(d)
    BY <2>4 DEF Hangup, Reset, IInv, TypeOK
  <2> QED
    BY <2>1, <2>2, <2>3, <2>4
<1>3. \A j \in Live : sock[fds[j].fd] \in Conns
  BY DEF IInv, TypeOK, Table, EntriesOpen
<1>4. \A j \in Live : FreshAt(j) => FreshAt(j)'
  BY <1>1, <1>2, <1>3 DEF FreshAt, Readable
<1> QED
  BY <1>1, <1>4, FreshParts, FreshPartsAfter DEF FreshQueue, Live

LEMMA FreshPoll ==
  ASSUME IInv, Poll
  PROVE  EventsFresh'
<1>1. /\ i' = 0 /\ Live' = Live /\ 0 \in Polled /\ \A j \in Live : j \in Polled /\ j \in 0..UserLimit
      /\ 0 \in 0..UserLimit
  BY Bounds DEF IInv, Poll, Live, Polled
<1>2. \A j \in Polled : j \in 0..UserLimit =>
        fds'[j].fd = fds[j].fd /\ fds'[j].events = fds[j].events /\ fds'[j].revents = Revents(fds[j])
  BY DEF Poll, IInv, TypeOK, PollFd
<1>3. UNCHANGED <<backlog, sock, peer, inq>>
  BY DEF Poll, peerVars
<1>4. FreshQueue'
  BY <1>1, <1>2, <1>3 DEF FreshQueue, Revents, IInv, Table, ListenerEvents
<1>5. ASSUME NEW j \in Live PROVE FreshAt(j)'
  <2>1. fds[j].fd \in Fds /\ fds[j].fd # ListenFd
    BY ChatAssumption DEF IInv, Table, EntriesOpen, ChatAssumption
  <2>2. fds'[j].revents = ReadyEvents(sock[fds[j].fd]) \cap (fds[j].events \cup {"ERR"})
    BY <1>1, <1>2, <2>1 DEF Revents
  <2>3. fds'[j].fd = fds[j].fd /\ fds'[j].events = fds[j].events
    BY <1>1, <1>2
  <2> QED
    BY <1>3, <2>2, <2>3 DEF FreshAt, ReadyEvents, Readable
<1> QED
  BY <1>1, <1>4, <1>5, FreshPartsAfter

(* The entries after i when the one at i was handled and stays.            *)
LEMMA FreshAdvance ==
  ASSUME IInv, Placed, EventsFresh, Scanning, Advance, UNCHANGED <<sock, user_count>>,
         \A j \in Live : /\ fds'[j].fd = fds[j].fd /\ fds'[j].revents = fds[j].revents
                         /\ fds[j].events \subseteq fds'[j].events,
         i \in Live => \A c \in Conns : c # HereConn => peer'[c] = peer[c] /\ inq'[c] = inq[c],
         i \notin Live => UNCHANGED <<peer, inq>>
  PROVE  EventsFresh'
<1>1. i' = i + 1 /\ i \in Nat /\ Live' = Live /\ \A j \in Live : j \in Nat
  BY Bounds DEF IInv, Advance, Live
<1>2. FreshQueue'
  BY <1>1 DEF FreshQueue
<1>3. ASSUME NEW j \in Live, j >= i' PROVE FreshAt(j)'
  <2>1. j >= i /\ j # i
    BY <1>1, <1>3
  <2>2. FreshAt(j) /\ sock[fds[j].fd] \in Conns
    BY <2>1, FreshParts DEF IInv, TypeOK, Table, EntriesOpen
  <2>3. i \in Live => sock[fds[j].fd] # HereConn
    BY <2>1 DEF IInv, Table, EntriesOpen, EntriesDistinct, Placed, BehindOne, HereConn, Here
  <2>4. peer'[sock[fds[j].fd]] = peer[sock[fds[j].fd]] /\ inq'[sock[fds[j].fd]] = inq[sock[fds[j].fd]]
    BY <2>2, <2>3
  <2> QED
    BY <2>2, <2>4, FreshKept
<1> QED
  BY <1>1, <1>2, <1>3, FreshPartsAfter

LEMMA FreshAccept ==
  ASSUME IInv, EventsFresh, Accept
  PROVE  EventsFresh'
<1>1. PICK fd \in Fds : /\ sock[fd] = NoConn /\ sock' = [sock EXCEPT ![fd] = Head(backlog)]
                       /\ fds' = [fds EXCEPT ![user_count + 1] = NewEntry(fd)]
  BY DEF Accept, LowestFree
<1>2. /\ user_count + 1 \in 0..UserLimit /\ Live' = Live \cup {user_count + 1} /\ user_count + 1 \notin Live
      /\ \A j \in Live : j \in 0..UserLimit /\ j >= 0
  BY Bounds DEF IInv, Accept, Room, Live
<1>3. i = 0 /\ i' = 1
  BY AtListenerZero DEF Accept, Advance
<1>4. UNCHANGED <<peer, inq>>
  BY DEF Accept, peerVars
<1>5. FreshQueue'
  BY <1>3 DEF FreshQueue
<1>6. fds'[user_count + 1].revents = {}
  BY <1>1, <1>2 DEF IInv, TypeOK, NewEntry
<1>7. \A n \in Nat : n = user_count + 1 => FreshAt(n)'
  BY <1>6 DEF FreshAt
<1>8. ASSUME NEW j \in Live PROVE FreshAt(j)'
  <2>1. FreshAt(j)
    BY <1>2, <1>3, FreshParts
  <2>2. fds'[j] = fds[j]
    BY <1>1, <1>2 DEF IInv, TypeOK
  <2>3. sock'[fds[j].fd] = sock[fds[j].fd]
    BY <1>1 DEF IInv, TypeOK, Table, EntriesOpen
  <2> QED
    BY <1>4, <2>1, <2>2, <2>3, FreshKept
<1>9. \A n \in Live' : FreshAt(n)'
  BY <1>2, <1>7, <1>8, Bounds DEF IInv, Live
<1> QED
  BY <1>5, <1>9, FreshPartsAfter

(* The connection that is refused has no entry.                            *)
LEMMA FreshRefuse ==
  ASSUME IInv, Placed, EventsFresh, Refuse
  PROVE  EventsFresh'
<1>1. i = 0 /\ i' = 1 /\ UNCHANGED <<sock, fds, user_count>>
  BY AtListenerZero DEF Refuse, Advance, tableVars
<1>2. \A fd \in Fds : sock[fd] # Head(backlog)
  BY PlacedServe DEF Refuse, Discard
<1>3. ASSUME NEW j \in Live PROVE FreshAt(j)'
  <2>1. FreshAt(j) /\ sock[fds[j].fd] \in Conns /\ sock[fds[j].fd] # Head(backlog)
    BY <1>1, <1>2, FreshParts, Bounds DEF IInv, Live, TypeOK, Table, EntriesOpen
  <2>2. peer'[sock[fds[j].fd]] = peer[sock[fds[j].fd]] /\ inq'[sock[fds[j].fd]] = inq[sock[fds[j].fd]]
    BY <2>1 DEF Refuse, Discard, IInv, TypeOK
  <2> QED
    BY <1>1, <2>1, <2>2, FreshKept
<1>4. FreshQueue'
  BY <1>1 DEF FreshQueue
<1> QED
  BY <1>1, <1>3, <1>4, FreshPartsAfter DEF Live

(* The entry that moves keeps its events with its descriptor.              *)
LEMMA FreshDrop ==
  ASSUME IInv, Placed, EventsFresh, AtHangup \/ AtInput, NEW data, DropUser(data), UNCHANGED backlog
  PROVE  EventsFresh'
<1>1. /\ i \in Live /\ user_count \in Live /\ Here.fd \in Fds /\ i' = i /\ i # 0
      /\ Live' = Live \ {user_count} /\ \A j \in Live : j \in 0..UserLimit /\ j <= user_count
      /\ i \in Nat /\ user_count \in Nat
  BY UserEntry, Bounds DEF IInv, DropUser, NextIndex, Live
<1>2. fds'[i] = fds[user_count] /\ \A j \in 0..UserLimit : j # i => fds'[j] = fds[j]
  BY <1>1 DEF IInv, TypeOK, DropUser, LastEntry
<1>3. \A g \in Fds : g # fds[i].fd => sock'[g] = sock[g]
  BY <1>1 DEF IInv, TypeOK, DropUser, ClosedFd, Here
<1>4. FreshQueue'
  BY <1>1 DEF FreshQueue
<1>5. ASSUME NEW j \in Live', j >= i' PROVE FreshAt(j)'
  <2>1. PICK k \in Live : fds'[j] = fds[k] /\ k # i /\ k >= i
    <3>1. CASE j = i
      BY <1>1, <1>2, <1>5, <3>1
    <3>2. CASE j # i
      BY <1>1, <1>2, <1>5, <3>2
    <3> QED
      BY <3>1, <3>2
  <2>2. FreshAt(k)
    BY <2>1, FreshParts
  <2>3. fds[k].fd \in Fds /\ fds[k].fd # fds[i].fd
    BY <1>1, <2>1 DEF IInv, Table, EntriesOpen, EntriesDistinct
  <2>4. /\ sock'[fds[k].fd] = sock[fds[k].fd] /\ sock[fds[k].fd] \in Conns
        /\ sock[fds[k].fd] # sock[fds[i].fd]
    BY <1>1, <1>3, <2>1, <2>3 DEF IInv, TypeOK, Table, EntriesOpen, Placed, BehindOne
  <2>5. peer'[sock[fds[k].fd]] = peer[sock[fds[k].fd]] /\ inq'[sock[fds[k].fd]] = inq[sock[fds[k].fd]]
    BY <2>4 DEF DropUser, Discard, ClosedFd, Here, IInv, TypeOK
  <2> QED
    BY <2>1, <2>2, <2>4, <2>5, FreshKept
<1> QED
  BY <1>4, <1>5, FreshPartsAfter

LEMMA FreshStep == IInv /\ Placed /\ EventsFresh /\ [Next]_vars => EventsFresh'
<1> SUFFICES ASSUME IInv, Placed, EventsFresh, [Next]_vars PROVE EventsFresh'
  OBVIOUS
<1>1. CASE Peers \/ Poll \/ Accept \/ Refuse
  BY <1>1, FreshPeers, FreshPoll, FreshAccept, FreshRefuse
<1>2. CASE Leave \/ ReadError
  BY <1>2, FreshDrop DEF Leave, ReadError
<1>3. CASE AcceptFail \/ WriteNothing \/ Pass \/ ReadNothing
  <2>1. Scanning /\ Advance /\ UNCHANGED <<sock, user_count, fds, peer, inq>>
    BY <1>3 DEF AcceptFail, WriteNothing, Pass, ReadNothing, tableVars, peerVars,
       AtListener, AtUser, AtOutput, AtInput
  <2> QED
    BY <2>1, FreshAdvance
<1>4. CASE TakeError
  <2>1. /\ Scanning /\ Advance /\ UNCHANGED <<sock, user_count, fds, inq>> /\ i \in Live
        /\ peer' = [peer EXCEPT ![HereConn] = "rstseen"]
    BY <1>4, UserEntry DEF TakeError, AtError, AtUser, tableVars
  <2>2. \A c \in Conns : c # HereConn => peer'[c] = peer[c] /\ inq'[c] = inq[c]
    BY <2>1 DEF IInv, TypeOK
  <2> QED
    BY <2>1, <2>2, FreshAdvance
<1>5. CASE ReadText \/ WriteText
  <2>1. Scanning /\ Advance /\ UNCHANGED <<sock, user_count, peer>> /\ i \in Live
    BY <1>5, UserEntry DEF ReadText, WriteText, AtInput, AtOutput, AtUser, peerVars
  <2>2. \A c \in Conns : c # HereConn => inq'[c] = inq[c]
    BY <1>5 DEF ReadText, WriteText, peerVars, IInv, TypeOK
  <2>3. \A j \in Live : j \in 0..UserLimit
    BY Bounds DEF IInv, Live
  <2> QED
    BY <1>5, <2>1, <2>2, <2>3, EventsOnly, FreshAdvance
<1>6. CASE WriteAbort
  <2>1. running' = FALSE /\ UNCHANGED <<fds, sock, user_count, i, peer, inq>>
    BY <1>6 DEF WriteAbort, tableVars, peerVars
  <2> QED
    BY <2>1 DEF EventsFresh, Readable, Live
<1>7. CASE UNCHANGED vars
  BY <1>7 DEF vars, EventsFresh, Readable, Live, peerVars
<1> QED
  BY <1>1, <1>2, <1>3, <1>4, <1>5, <1>6, <1>7 DEF Next, Server

LEMMA FreshInit == Init => EventsFresh
BY DEF Init, EventsFresh, Live

(* What poll() has reported of an entry is true when the scan comes to it, *)
(* however long that takes and whatever moves meanwhile (lines 75-83, 109, *)
(* 131, 150).                                                              *)
THEOREM EventsFreshCorrect == Spec => []EventsFresh
BY Inductive, PlacedCorrect, FreshInit, FreshStep, PTL DEF Spec

-----------------------------------------------------------------------------
(* Texts, past recv() and before it.                                       *)

Begun(c) == conn[c] \in {"open", "closed"}

(* What a step may do to the texts that are not read: take the first away, *)
(* or add one that is newer than all.                                      *)
Onward ==
  \A c \in Conns :
    /\ Begun(c) => Begun(c)'
    /\ sent'[c] >= sent[c]
    /\ \A k \in 1..Len(inq'[c]) :
         \/ \E j \in 1..Len(inq[c]) : inq'[c][k] = inq[c][j]
         \/ inq'[c][k].seq > sent[c]

LEMMA MessageType ==
  ASSUME NEW m \in Message
  PROVE  m.from \in Conns /\ m.seq \in Nat /\ m # Blank
<1>1. m.from \in Conns /\ m.seq \in 1..MaxSends /\ MaxSends \in Nat
  BY ChatAssumption DEF Message, ChatAssumption
<1>2. m.seq \in Nat
  BY <1>1
<1>3. m \in [from : Conns, seq : Nat]
  BY <1>1, <1>2 DEF Message
<1> QED
  BY <1>1, <1>2, <1>3, ChatAssumption DEF ChatAssumption

LEMMA TextTypes ==
  ASSUME IInv, NEW c \in Conns
  PROVE  /\ sent[c] \in Nat /\ inq[c] \in Seq(Message) /\ Len(inq[c]) \in Nat
         /\ \A k \in 1..Len(inq[c]) : inq[c][k] \in Message /\ inq[c][k].seq \in Nat
<1>1. sent[c] \in 0..MaxSends /\ MaxSends \in Nat /\ inq[c] \in Seq(Message)
  BY ChatAssumption DEF IInv, TypeOK, ChatAssumption
<1> QED
  BY <1>1, ElementOfSeq, LenProperties, MessageType

LEMMA PastKept ==
  ASSUME IInv, IInv', Onward, NEW m \in Message, Past(m)
  PROVE  Past(m)'
<1>1. m.from \in Conns /\ m.seq \in Nat
  BY MessageType
<1>2. sent[m.from] \in Nat /\ sent'[m.from] \in Nat
  BY <1>1, ChatAssumption DEF IInv, TypeOK, ChatAssumption
<1>3. Begun(m.from)' /\ m.seq <= sent'[m.from]
  BY <1>1, <1>2 DEF Onward, Past, Begun
<1>4. ASSUME NEW k \in 1..Len(inq'[m.from]) PROVE m.seq < inq'[m.from][k].seq
  <2>1. CASE \E j \in 1..Len(inq[m.from]) : inq'[m.from][k] = inq[m.from][j]
    BY <2>1 DEF Past
  <2>2. CASE inq'[m.from][k].seq > sent[m.from]
    <3>1. inq'[m.from][k] \in Message
      BY <1>1, <1>4, ElementOfSeq DEF IInv, TypeOK
    <3>2. inq'[m.from][k].seq \in Nat
      BY <3>1, MessageType
    <3> QED
      BY <1>1, <1>2, <2>2, <3>2 DEF Past
  <2> QED
    BY <1>1, <1>4, <2>1, <2>2 DEF Onward
<1> QED
  BY <1>3, <1>4 DEF Past, Begun

LEMMA OnwardFrame ==
  ASSUME IInv, UNCHANGED <<sent, inq>>, \A c \in Conns : Begun(c) => Begun(c)'
  PROVE  Onward
<1>1. \A c \in Conns : sent'[c] >= sent[c]
  BY TextTypes
<1> QED
  BY <1>1 DEF Onward

LEMMA OnwardSend ==
  ASSUME IInv, NEW c \in Conns, SendText(c)
  PROVE  Onward /\ (InOrder => InOrder')
<1> DEFINE m == [from |-> c, seq |-> sent[c] + 1]
<1>1. /\ sent[c] \in 0..MaxSends /\ sent[c] < MaxSends /\ MaxSends \in Nat
      /\ sent' = [sent EXCEPT ![c] = @ + 1] /\ inq' = [inq EXCEPT ![c] = Append(@, m)]
      /\ conn' = conn
  BY WithinScript DEF SendText, IInv
<1>2. m \in Message /\ m.seq = sent[c] + 1 /\ m.from = c
  BY <1>1 DEF Message
<1> HIDE DEF m
<1>3. /\ sent'[c] = sent[c] + 1 /\ inq'[c] = Append(inq[c], m)
      /\ \A d \in Conns : d # c => sent'[d] = sent[d] /\ inq'[d] = inq[d]
  BY <1>1 DEF IInv, TypeOK
<1>4. /\ Len(inq[c]) \in Nat /\ inq'[c][Len(inq[c]) + 1] = m
      /\ \A k \in 1..Len(inq[c]) : inq'[c][k] = inq[c][k]
      /\ \A k \in 1..Len(inq'[c]) : k \in 1..Len(inq[c]) \/ k = Len(inq[c]) + 1
  BY <1>2, <1>3, TextTypes, QueueAppend
<1>5. \A d \in Conns : sent[d] \in Nat
  BY TextTypes
<1>6. Onward
  BY <1>1, <1>2, <1>3, <1>4, <1>5 DEF Onward, Begun
<1>7. ASSUME InOrder, NEW d \in Conns
      PROVE  /\ \A k \in 1..Len(inq'[d]) : inq'[d][k].from = d /\ inq'[d][k].seq <= sent'[d]
             /\ \A j, k \in 1..Len(inq'[d]) : j < k => inq'[d][j].seq < inq'[d][k].seq
  <2>1. CASE d # c
    BY <1>3, <1>7, <2>1 DEF InOrder
  <2>2. CASE d = c
    <3>1. \A k \in 1..Len(inq[c]) : inq[c][k].from = c /\ inq[c][k].seq <= sent[c] /\ inq[c][k].seq \in Nat
      BY <1>7, TextTypes DEF InOrder
    <3>2. \A j, k \in 1..Len(inq[c]) : j < k => inq[c][j].seq < inq[c][k].seq
      BY <1>7 DEF InOrder
    <3>3. \A k \in 1..Len(inq'[c]) : inq'[c][k].from = c /\ inq'[c][k].seq <= sent'[c]
      BY <1>2, <1>3, <1>4, <1>5, <3>1
    <3>4. \A j, k \in 1..Len(inq'[c]) : j < k => inq'[c][j].seq < inq'[c][k].seq
      <4>1. SUFFICES ASSUME NEW j \in 1..Len(inq'[c]), NEW k \in 1..Len(inq'[c]), j < k
                     PROVE  inq'[c][j].seq < inq'[c][k].seq
        OBVIOUS
      <4>2. j \in 1..Len(inq[c])
        BY <1>4, <4>1
      <4>3. CASE k \in 1..Len(inq[c])
        BY <1>4, <3>2, <4>1, <4>2, <4>3
      <4>4. CASE k = Len(inq[c]) + 1
        <5>1. inq'[c][j] = inq[c][j] /\ inq'[c][k] = m
          BY <1>4, <4>2, <4>4
        <5>2. inq[c][j].seq <= sent[c] /\ inq[c][j].seq \in Nat /\ sent[c] \in Nat
          BY <1>5, <3>1, <4>2
        <5> QED
          BY <1>2, <5>1, <5>2
      <4> QED
        BY <1>4, <4>3, <4>4
    <3> QED
      BY <2>2, <3>3, <3>4
  <2> QED
    BY <2>1, <2>2
<1> QED
  BY <1>6, <1>7 DEF InOrder

(* recv() takes the oldest text.                                           *)
LEMMA ReadWhat ==
  ASSUME IInv, Placed, InOrder, ReadText
  PROVE  \E c \in Conns, m \in Message :
           /\ c = HereConn /\ m = Head(inq[c]) /\ m.from = c /\ m.seq <= sent[c]
           /\ conn[c] = "open" /\ inq[c] # <<>> /\ inq' = [inq EXCEPT ![c] = Tail(@)]
           /\ m = inq[c][1] /\ 1 \in 1..Len(inq[c])
<1>1. PICK c \in Conns : c = HereConn /\ c = sock[Here.fd] /\ Here.fd \in Fds
  BY UserEntry DEF ReadText, HereConn
<1>2. inq[c] # <<>> /\ inq' = [inq EXCEPT ![c] = Tail(@)]
  BY <1>1 DEF ReadText
<1>3. conn[c] = "open"
  BY <1>1, ChatAssumption DEF Placed, BehindIsOpen, ChatAssumption
<1>4. Head(inq[c]) = inq[c][1] /\ 1 \in 1..Len(inq[c])
  BY <1>2, TextTypes, QueueTail
<1>5. Head(inq[c]) \in Message /\ Head(inq[c]).from = c /\ Head(inq[c]).seq <= sent[c]
  BY <1>4, TextTypes DEF InOrder
<1> QED
  BY <1>1, <1>2, <1>3, <1>4, <1>5

LEMMA OnwardRead ==
  ASSUME IInv, IInv', InOrder, NEW c \in Conns, NEW m \in Message, m.from = c, m.seq <= sent[c],
         m = inq[c][1], 1 \in 1..Len(inq[c]), inq[c] # <<>>, conn[c] = "open",
         inq' = [inq EXCEPT ![c] = Tail(@)], UNCHANGED <<sent, conn>>
  PROVE  Onward /\ InOrder' /\ Past(m)'
         /\ \A g \in Message : Past(g) /\ g.from = c => g.seq < m.seq
<1>1. inq'[c] = Tail(inq[c]) /\ \A d \in Conns : d # c => inq'[d] = inq[d]
  BY DEF IInv, TypeOK
<1>2. inq[c] \in Seq(Message)
  BY TextTypes
<1>3. \A k \in 1..Len(inq'[c]) : inq'[c][k] = inq[c][k + 1] /\ k + 1 \in 1..Len(inq[c]) /\ k \in Nat \ {0}
  <2>1. \A k \in 1..Len(Tail(inq[c])) :
          Tail(inq[c])[k] = inq[c][k + 1] /\ k + 1 \in 1..Len(inq[c]) /\ k \in Nat \ {0}
    BY <1>2, QueueTail
  <2> QED
    BY <1>1, <2>1
<1>4. \A d \in Conns : sent[d] \in Nat
  BY TextTypes
<1>5. Onward
  BY <1>1, <1>3, <1>4 DEF Onward, Begun
<1>6. InOrder'
  <2>1. SUFFICES ASSUME NEW d \in Conns
                 PROVE  /\ \A k \in 1..Len(inq'[d]) : inq'[d][k].from = d /\ inq'[d][k].seq <= sent[d]
                        /\ \A j, k \in 1..Len(inq'[d]) : j < k => inq'[d][j].seq < inq'[d][k].seq
    BY DEF InOrder
  <2>2. CASE d # c
    BY <1>1, <2>2 DEF InOrder
  <2>3. CASE d = c
    <3>1. \A k \in 1..Len(inq'[c]) : inq'[c][k].from = c /\ inq'[c][k].seq <= sent[c]
      BY <1>3 DEF InOrder
    <3>2. ASSUME NEW j \in 1..Len(inq'[c]), NEW k \in 1..Len(inq'[c]), j < k
          PROVE  inq'[c][j].seq < inq'[c][k].seq
      <4>1. j + 1 \in 1..Len(inq[c]) /\ k + 1 \in 1..Len(inq[c]) /\ j + 1 < k + 1
        <5>1. /\ j + 1 \in 1..Len(inq[c]) /\ j \in Nat /\ k + 1 \in 1..Len(inq[c]) /\ k \in Nat
          BY <1>3
        <5> QED
          BY <3>2, <5>1
      <4>2. inq[c][j + 1].seq < inq[c][k + 1].seq
        BY <4>1 DEF InOrder
      <4> QED
        BY <1>3, <4>2
    <3> QED
      BY <2>3, <3>1, <3>2
  <2> QED
    BY <2>2, <2>3
<1>7. \A k \in 1..Len(inq'[c]) : m.seq < inq'[c][k].seq
  <2>1. SUFFICES ASSUME NEW k \in 1..Len(inq'[c]) PROVE m.seq < inq[c][k + 1].seq
    BY <1>3
  <2>2. k + 1 \in 1..Len(inq[c]) /\ 1 < k + 1
    BY <1>3
  <2> QED
    BY <2>2 DEF InOrder
<1>8. Past(m)'
  BY <1>7 DEF Past
<1>9. \A g \in Message : Past(g) /\ g.from = c => g.seq < m.seq
  BY DEF Past
<1> QED
  BY <1>5, <1>6, <1>8, <1>9

(* close() drops the texts that are left.                                  *)
LEMMA OnwardDiscard ==
  ASSUME IInv, InOrder, NEW c \in Conns, Discard(c), sent' = sent
  PROVE  Onward /\ InOrder'
<1>1. \A d \in Conns : /\ sent'[d] >= sent[d]
                       /\ inq'[d] = IF d = c THEN <<>> ELSE inq[d]
                       /\ Begun(d) => Begun(d)'
  BY TextTypes DEF Discard, Begun, IInv, TypeOK
<1>2. \A k \in 1..Len(<<>>) : FALSE
  BY EmptySeq
<1>3. Onward
  <2>1. \A d \in Conns : \A k \in 1..Len(inq'[d]) : d # c /\ inq'[d] = inq[d]
    BY <1>1, <1>2
  <2> QED
    BY <1>1, <2>1 DEF Onward
<1>4. InOrder'
  <2>1. \A d \in Conns : \A k \in 1..Len(inq'[d]) : d # c /\ inq'[d] = inq[d]
    BY <1>1, <1>2
  <2> QED
    BY <2>1 DEF InOrder
<1> QED
  BY <1>3, <1>4

LEMMA OnwardStep ==
  ASSUME IInv, IInv', Placed, InOrder, [Next]_vars
  PROVE  Onward /\ InOrder'
<1>1. CASE \E c \in Conns : SendText(c)
  BY <1>1, OnwardSend
<1>2. CASE ReadText
  <2>1. UNCHANGED <<sent, conn>>
    BY <1>2 DEF ReadText
  <2> QED
    BY <1>2, <2>1, ReadWhat, OnwardRead
<1>3. ASSUME UNCHANGED <<sent, inq>>, \A c \in Conns : Begun(c) => Begun(c)'
      PROVE  Onward /\ InOrder'
  <2>1. InOrder'
    BY <1>3 DEF InOrder
  <2> QED
    BY <1>3, <2>1, OnwardFrame
<1>4. CASE \E c \in Conns : Connect(c)
  <2>1. PICK c \in Conns : Connect(c)
    BY <1>4
  <2>2. conn[c] = "idle" /\ conn' = [conn EXCEPT ![c] = "queued"] /\ UNCHANGED <<sent, inq>>
    BY <2>1 DEF Connect, peerVars
  <2> QED
    BY <1>3, <2>2 DEF Begun, IInv, TypeOK
<1>5. CASE Accept
  <2>1. UNCHANGED <<sent, inq>> /\ conn' = [conn EXCEPT ![Head(backlog)] = "open"]
    BY <1>5 DEF Accept, peerVars
  <2> QED
    BY <1>3, <2>1 DEF Begun, IInv, TypeOK
<1>7. CASE Refuse
  <2>1. backlog # <<>> /\ Head(backlog) \in Conns /\ Discard(Head(backlog)) /\ sent' = sent
    BY <1>7, PlacedServe DEF Refuse, Discard
  <2> QED
    BY <2>1, OnwardDiscard
<1>8. CASE Leave \/ ReadError
  <2>1. HereConn \in Conns /\ Discard(HereConn) /\ sent' = sent
    BY <1>8, UserEntry DEF Leave, ReadError, DropUser, ClosedFd, HereConn
  <2> QED
    BY <2>1, OnwardDiscard
<1>6. CASE \/ \E c \in Conns : Hangup(c) \/ Reset(c)
           \/ Poll \/ AcceptFail \/ TakeError \/ ReadNothing \/ WriteNothing
           \/ WriteText \/ WriteAbort \/ Pass \/ UNCHANGED vars
  <2>1. UNCHANGED <<conn, sent, inq>>
    BY <1>6 DEF Hangup, Reset, Poll, AcceptFail, TakeError, ReadNothing, WriteNothing,
       WriteText, WriteAbort, Pass, vars, peerVars
  <2> QED
    BY <1>3, <2>1 DEF Begun
<1> QED
  BY <1>1, <1>2, <1>4, <1>5, <1>6, <1>7, <1>8 DEF Next, Server, Peers

(* A buffer's text was there before, or has just been read.                *)
LEMMA BuffersFrom ==
  ASSUME IInv, [Next]_vars, ~ReadText
  PROVE  \A fd \in Fds : \/ users'[fd].buf = Blank
                         \/ \E g \in Fds : users'[fd].buf = users[g].buf
<1>1. CASE users' = users
  BY <1>1
<1>2. \A g \in Fds : Cleared[g].buf = Blank \/ Cleared[g].buf = users[g].buf
  BY DEF IInv, TypeOK, UserRec, Cleared
<1>3. Cleared \in [Fds -> UserRec] /\ users \in [Fds -> UserRec]
  BY DEF IInv, TypeOK, UserRec, Cleared
<1>4. ASSUME NEW data \in [Fds -> UserRec], DropUser(data), AtHangup \/ AtInput
      PROVE  \A fd \in Fds : \E g \in Fds : users'[fd] = data[g]
  <2>1. Here.fd \in Fds /\ LastEntry.fd \in Fds
    BY <1>4, UserEntry DEF LastEntry
  <2> QED
    BY <1>4, <2>1 DEF DropUser
<1>5. CASE Leave
  BY <1>3, <1>4, <1>5 DEF Leave
<1>6. CASE ReadError
  <2>1. \A fd \in Fds : \E g \in Fds : users'[fd] = Cleared[g]
    BY <1>3, <1>4, <1>6 DEF ReadError
  <2> QED
    BY <1>2, <2>1
<1>7. CASE ReadNothing
  BY <1>2, <1>7 DEF ReadNothing
<1>8. CASE WriteText
  BY <1>8 DEF WriteText, Sent, IInv, TypeOK, UserRec
<1>9. CASE Peers \/ Poll \/ Accept \/ AcceptFail \/ Refuse \/ TakeError \/ WriteNothing
           \/ WriteAbort \/ Pass \/ UNCHANGED vars
  BY <1>1, <1>9 DEF Peers, Connect, SendText, Hangup, Reset, Poll, Accept, AcceptFail, Refuse,
     TakeError, WriteNothing, WriteAbort, Pass, vars, tableVars
<1> QED
  BY <1>5, <1>6, <1>7, <1>8, <1>9 DEF Next, Server

LEMMA BufferedStep ==
  ASSUME IInv, IInv', Placed, InOrder, BufferedPast, [Next]_vars
  PROVE  BufferedPast'
<1>1. SUFFICES ASSUME NEW fd \in Fds, users'[fd].buf # Blank PROVE Past(users[fd].buf)'
  BY DEF BufferedPast
<1>2. PICK b \in Message : b = users'[fd].buf
  BY <1>1 DEF IInv, TypeOK, UserRec
<1>3. Onward
  BY OnwardStep
<1>4. ASSUME NEW g \in Fds, b = users[g].buf PROVE Past(b)'
  <2>1. b # Blank
    BY <1>1, <1>2
  <2>2. Past(b)
    BY <1>4, <2>1 DEF BufferedPast
  <2> QED
    BY <1>3, <2>2, PastKept
<1>5. CASE ~ReadText
  <2>1. \E g \in Fds : b = users[g].buf
    BY <1>1, <1>2, <1>5, BuffersFrom
  <2>2. Past(b)'
    BY <1>4, <2>1
  <2> QED
    BY <1>2, <2>2 DEF Past
<1>6. CASE ReadText
  <2>1. PICK c \in Conns, m \in Message :
           /\ c = HereConn /\ m = Head(inq[c]) /\ m.from = c /\ m.seq <= sent[c]
           /\ conn[c] = "open" /\ inq[c] # <<>> /\ inq' = [inq EXCEPT ![c] = Tail(@)]
           /\ m = inq[c][1] /\ 1 \in 1..Len(inq[c])
    BY <1>6, ReadWhat
  <2>2. UNCHANGED <<sent, conn>>
    BY <1>6 DEF ReadText
  <2>3. Past(m)'
    BY <2>1, <2>2, OnwardRead
  <2>4. b = m \/ b = users[fd].buf
    BY <1>2, <1>6, <2>1 DEF ReadText
  <2>5. Past(b)'
    BY <1>4, <2>3, <2>4
  <2> QED
    BY <1>2, <2>5 DEF Past
<1> QED
  BY <1>5, <1>6

LEMMA GotStep ==
  ASSUME IInv, IInv', Placed, InOrder, BufferedPast, GotPast, [Next]_vars
  PROVE  GotPast'
<1>1. SUFFICES ASSUME NEW c \in Conns, NEW m \in got'[c] PROVE Past(m)'
  BY DEF GotPast
<1>2. m \in Message
  BY DEF IInv, TypeOK
<1>3. m \in got[c] \/ \E p \in Fds : m = users[p].buf /\ m # Blank
  <2>1. CASE WriteText
    BY <2>1 DEF WriteText, IInv, TypeOK
  <2>2. CASE ~WriteText
    <3>1. got' = got
      BY <2>2 DEF Next, Server, Peers, Connect, SendText, Hangup, Reset, Poll, Accept, AcceptFail,
         Refuse, TakeError, Leave, ReadError, ReadNothing, ReadText, WriteNothing, WriteAbort,
         Pass, vars
    <3> QED
      BY <3>1
  <2> QED
    BY <2>1, <2>2
<1>4. Past(m)
  BY <1>3 DEF BufferedPast, GotPast
<1> QED
  BY <1>2, <1>4, OnwardStep, PastKept

-----------------------------------------------------------------------------
(* What waits to be sent.                                                  *)

Deliverable(p) == users[p].buf # Blank /\ p \notin copied

PendingAt(j) ==
  \A p \in Fds :
    "OUT" \in fds[j].events /\ p = users[fds[j].fd].write_buf /\ Deliverable(p) =>
      \A g \in got[sock[fds[j].fd]] : g.from = users[p].buf.from => g.seq < users[p].buf.seq

LEMMA PendingParts == OnlyCopiesRepeat <=> \A j \in Live : PendingAt(j)
BY DEF OnlyCopiesRepeat, PendingAt, Deliverable

LEMMA PendingPartsAfter == OnlyCopiesRepeat' <=> \A j \in Live' : PendingAt(j)'
BY DEF OnlyCopiesRepeat, PendingAt, Deliverable

(* The entry that was at k is at j, and what it waits for is not new.      *)
LEMMA PendingKept ==
  ASSUME NEW j, NEW k, PendingAt(k), fds'[j].fd = fds[k].fd,
         fds'[j].events = fds[k].events,
         NEW fd, fd = fds[k].fd, users'[fd].write_buf = users[fd].write_buf,
         sock'[fd] = sock[fd], got'[sock[fd]] = got[sock[fd]],
         \A p \in Fds : "OUT" \in fds[k].events /\ p = users[fd].write_buf /\ Deliverable(p)'
                          => Deliverable(p) /\ users'[p].buf = users[p].buf
  PROVE  PendingAt(j)'
BY ZenonT(40) DEF PendingAt, Deliverable

LEMMA PendingFrame ==
  ASSUME OnlyCopiesRepeat, UNCHANGED <<users, copied, sock, got, user_count>>,
         \A j \in Live : fds'[j].fd = fds[j].fd /\ fds'[j].events = fds[j].events
  PROVE  OnlyCopiesRepeat'
<1>1. \A j \in Live : PendingAt(j) => PendingAt(j)'
  BY DEF PendingAt, Deliverable
<1> QED
  BY <1>1, PendingParts, PendingPartsAfter DEF Live

(* Nothing points for the new member yet.                                  *)
LEMMA PendingAccept ==
  ASSUME IInv, OnlyCopiesRepeat, Accept
  PROVE  OnlyCopiesRepeat'
<1>2. PICK fd \in Fds : /\ sock[fd] = NoConn /\ sock' = [sock EXCEPT ![fd] = Head(backlog)]
                        /\ fds' = [fds EXCEPT ![user_count + 1] = NewEntry(fd)]
  BY DEF Accept, LowestFree
<1>3. /\ user_count + 1 \in 0..UserLimit /\ Live' = Live \cup {user_count + 1} /\ user_count + 1 \notin Live
      /\ \A j \in Live : j \in 0..UserLimit
  BY Bounds DEF IInv, Accept, Room, Live
<1>4. UNCHANGED <<users, copied, got>>
  BY DEF Accept
<1>5. "OUT" \notin fds'[user_count + 1].events
  BY <1>2, <1>3 DEF IInv, TypeOK, NewEntry
<1>6. \A p \in Fds : Deliverable(p)' => Deliverable(p)
  BY <1>4 DEF Deliverable
<1>7. ASSUME NEW j \in Live PROVE PendingAt(j)'
  <2>1. fds'[j] = fds[j]
    BY <1>2, <1>3 DEF IInv, TypeOK
  <2>2. sock'[fds[j].fd] = sock[fds[j].fd]
    BY <1>2 DEF IInv, TypeOK, Table, EntriesOpen
  <2>3. PendingAt(j)
    BY PendingParts
  <2> QED
    BY <1>4, <1>6, <2>1, <2>2, <2>3, PendingKept
<1>8. \A n \in Nat : n = user_count + 1 => PendingAt(n)'
  BY <1>5 DEF PendingAt
<1>9. \A n \in Live' : PendingAt(n)'
  BY <1>3, <1>7, <1>8, Bounds DEF IInv, Live
<1> QED
  BY <1>9, PendingPartsAfter

LEMMA PendingReadNothing ==
  ASSUME IInv, OnlyCopiesRepeat, ReadNothing
  PROVE  OnlyCopiesRepeat'
<1>1. /\ users' = Cleared /\ UNCHANGED <<sock, got, fds, user_count>> /\ Here.fd \in Fds
  BY UserEntry DEF ReadNothing
<1>2. \A p \in Fds : /\ users'[p].write_buf = users[p].write_buf
                     /\ users'[p].buf = Blank \/ users'[p].buf = users[p].buf
  BY <1>1 DEF Cleared, IInv, TypeOK, UserRec
<1>3. \A p \in Fds : Deliverable(p)' => Deliverable(p) /\ users'[p].buf = users[p].buf
  <2>1. users'[Here.fd].buf = Blank /\ \A p \in Fds : p # Here.fd => (p \in copied' <=> p \in copied)
    BY <1>1 DEF ReadNothing, Cleared, IInv, TypeOK, UserRec
  <2> QED
    BY <1>1, <1>2, <2>1 DEF Deliverable
<1>4. ASSUME NEW j \in Live PROVE PendingAt(j)'
  <2>1. PendingAt(j) /\ fds[j].fd \in Fds
    BY PendingParts DEF IInv, Table, EntriesOpen
  <2> QED
    BY <1>1, <1>2, <1>3, <2>1, PendingKept
<1> QED
  BY <1>1, <1>4, PendingPartsAfter DEF Live

(* Whoever still points at the leaver's buffer finds there what it held,   *)
(* if the leaver was the last entry, nothing, or a copy.                   *)
LEMMA PendingDrop ==
  ASSUME IInv, IInv', OnlyCopiesRepeat, AtHangup \/ AtInput, NEW data, data \in {users, Cleared},
         DropUser(data), got' = got
  PROVE  OnlyCopiesRepeat'
<1>1. /\ i \in Live /\ user_count \in Live /\ Here.fd \in Fds
      /\ Live' = Live \ {user_count} /\ \A j \in Live : j \in 0..UserLimit
  BY UserEntry, Bounds DEF IInv, DropUser, Live
<1>2. fds'[i] = fds[user_count] /\ \A j \in 0..UserLimit : j # i => fds'[j] = fds[j]
  BY <1>1 DEF IInv, TypeOK, DropUser, LastEntry
<1>3. \A p \in Fds : p # Here.fd => users'[p] = users[p]
  BY <1>1 DEF IInv, TypeOK, DropUser, Cleared
<1>4. \A p \in Fds : sock'[p] = IF p = Here.fd THEN NoConn ELSE sock[p]
  BY <1>1 DEF IInv, TypeOK, DropUser, ClosedFd
<1>5. ASSUME NEW p \in Fds, Deliverable(p)'
      PROVE  Deliverable(p) /\ users'[p].buf = users[p].buf
  <2>1. p \notin copied /\ users'[p].buf # Blank /\ (p = Here.fd => LastEntry.fd = Here.fd)
    BY <1>5 DEF DropUser, Deliverable
  <2>2. CASE p # Here.fd
    BY <1>3, <2>1, <2>2 DEF Deliverable
  <2>3. CASE p = Here.fd
    <3>1. users'[p] = data[p]
      BY <1>1, <2>1, <2>3 DEF DropUser, Cleared, IInv, TypeOK
    <3>2. data[p].buf = Blank \/ data[p].buf = users[p].buf
      <4>1. Cleared[p].buf = Blank \/ Cleared[p].buf = users[p].buf
        BY DEF Cleared, IInv, TypeOK, UserRec
      <4>2. data = users \/ data = Cleared
        OBVIOUS
      <4> QED
        BY <4>1, <4>2
    <3> QED
      BY <2>1, <3>1, <3>2 DEF Deliverable
  <2> QED
    BY <2>2, <2>3
<1>6. ASSUME NEW j \in Live' PROVE PendingAt(j)'
  <2>1. PICK k \in Live : fds'[j] = fds[k] /\ k # i
    <3>1. CASE j = i
      BY <1>1, <1>2, <1>6, <3>1
    <3>2. CASE j # i
      BY <1>1, <1>2, <1>6, <3>2
    <3> QED
      BY <3>1, <3>2
  <2>2. PendingAt(k)
    BY PendingParts
  <2>3. fds[k].fd \in Fds /\ fds[k].fd # Here.fd
    BY <1>1, <2>1 DEF IInv, Table, EntriesOpen, EntriesDistinct, Here
  <2> QED
    BY <1>3, <1>4, <1>5, <2>1, <2>2, <2>3, PendingKept
<1> QED
  BY <1>6, PendingPartsAfter

(* The others wait for a text that was not read before: all that they got  *)
(* from its sender was.                                                    *)
LEMMA PendingRead ==
  ASSUME IInv, IInv', Placed, ArmedPointer, Texts, ReadText
  PROVE  OnlyCopiesRepeat'
<1>1. PICK c \in Conns, m \in Message :
         /\ c = HereConn /\ m = Head(inq[c]) /\ m.from = c /\ m.seq <= sent[c]
         /\ conn[c] = "open" /\ inq[c] # <<>> /\ inq' = [inq EXCEPT ![c] = Tail(@)]
         /\ m = inq[c][1] /\ 1 \in 1..Len(inq[c])
  BY ReadWhat DEF Texts
<1>2. UNCHANGED <<sent, conn, sock, got, user_count>> /\ Live' = Live
  BY DEF ReadText, Live
<1>3. \A g \in Message : Past(g) /\ g.from = c => g.seq < m.seq
  BY <1>1, <1>2, OnwardRead DEF Texts
<1>4. Here.fd \in Fds /\ \A j \in Live : j \in 0..UserLimit /\ fds[j].fd \in Fds
  BY UserEntry, Bounds DEF ReadText, IInv, Live, Table, EntriesOpen
<1>5. \A j \in 0..UserLimit : fds'[j].fd = fds[j].fd
  BY EventsOnly
<1>6. \A p \in Fds : IF p = Here.fd THEN users'[p].buf = m ELSE users'[p].buf = users[p].buf
  BY <1>1 DEF ReadText
<1>7. ASSUME NEW j \in Live, fds[j].fd = Here.fd PROVE PendingAt(j)'
  <2>1. fds'[j] = fds[j] /\ users'[Here.fd].write_buf = users[Here.fd].write_buf
    BY <1>4, <1>7 DEF ReadText
  <2>2. "OUT" \in fds[j].events => users[Here.fd].write_buf # Here.fd
    BY <1>7 DEF ArmedPointer
  <2>3. \A p \in Fds : p # Here.fd /\ Deliverable(p)' => Deliverable(p) /\ users'[p].buf = users[p].buf
    BY <1>6 DEF Deliverable, ReadText
  <2>4. PendingAt(j)
    BY PendingParts DEF Texts
  <2> QED
    BY <1>2, <1>7, <2>1, <2>2, <2>3, <2>4, PendingKept
<1>8. ASSUME NEW j \in Live, fds[j].fd # Here.fd PROVE PendingAt(j)'
  <2>1. users'[fds[j].fd].write_buf = Here.fd
    BY <1>4, <1>8 DEF ReadText, Live
  <2>2. \A g \in got[sock[fds[j].fd]] : g.from = c => g.seq < m.seq
    <3>1. sock[fds[j].fd] \in Conns
      BY DEF IInv, TypeOK, Table, EntriesOpen
    <3> QED
      BY <1>3, <3>1 DEF IInv, TypeOK, Texts, GotPast
  <2>3. users'[Here.fd].buf = m /\ fds'[j].fd = fds[j].fd
    BY <1>4, <1>5, <1>6
  <2> QED
    BY <1>1, <1>2, <2>1, <2>2, <2>3 DEF PendingAt
<1> QED
  BY <1>2, <1>7, <1>8, PendingPartsAfter

LEMMA PendingWrite ==
  ASSUME IInv, Placed, OnlyCopiesRepeat, WriteText
  PROVE  OnlyCopiesRepeat'
<1>1. /\ i \in Live /\ Here.fd \in Fds /\ HereConn \in Conns /\ Live' = Live /\ sock' = sock
      /\ \A j \in Live : j \in 0..UserLimit /\ fds[j].fd \in Fds
  BY UserEntry, Bounds DEF WriteText, IInv, Live, Table, EntriesOpen
<1>2. /\ users'[Here.fd].write_buf = Null /\ users'[Here.fd].buf = users[Here.fd].buf
      /\ \A g \in Fds : g # Here.fd => users'[g] = users[g]
  BY <1>1 DEF IInv, TypeOK, WriteText, Sent, UserRec
<1>3. \A j \in 0..UserLimit : fds'[j].fd = fds[j].fd /\ (j # i => fds'[j] = fds[j])
  BY EventsOnly DEF WriteText, IInv, TypeOK
<1>4. \A c \in Conns : c # HereConn => got'[c] = got[c]
  BY DEF WriteText, IInv, TypeOK
<1>5. \A p \in Fds : Deliverable(p)' => Deliverable(p) /\ users'[p].buf = users[p].buf
  BY <1>1, <1>2 DEF Deliverable, WriteText
<1>6. ASSUME NEW j \in Live, j = i PROVE PendingAt(j)'
  <2>1. fds'[j].fd = Here.fd /\ Null \notin Fds
    BY <1>1, <1>3, <1>6, ChatAssumption DEF Here, ChatAssumption
  <2>2. ASSUME NEW p \in Fds PROVE p # users'[Here.fd].write_buf
    BY <1>2, <2>1
  <2> QED
    BY <2>1, <2>2 DEF PendingAt
<1>7. ASSUME NEW j \in Live, j # i PROVE PendingAt(j)'
  <2>1. PendingAt(j)
    BY PendingParts
  <2>2. fds[j].fd # Here.fd /\ sock[fds[j].fd] # HereConn /\ sock[fds[j].fd] \in Conns
    BY <1>1, <1>7 DEF IInv, TypeOK, Table, EntriesOpen, EntriesDistinct, Here, HereConn, Placed, BehindOne
  <2>3. users'[fds[j].fd] = users[fds[j].fd] /\ got'[sock[fds[j].fd]] = got[sock[fds[j].fd]]
    BY <1>1, <1>2, <1>4, <2>2
  <2> QED
    BY <1>1, <1>3, <1>5, <1>7, <2>1, <2>3, PendingKept
<1> QED
  BY <1>1, <1>6, <1>7, PendingPartsAfter

LEMMA PendingStep ==
  ASSUME IInv, IInv', Placed, ArmedPointer, Texts, [Next]_vars
  PROVE  OnlyCopiesRepeat'
<1>1. CASE Accept
  BY <1>1, PendingAccept DEF Texts
<1>2. CASE Leave \/ ReadError
  BY <1>2, PendingDrop DEF Texts, Leave, ReadError
<1>3. CASE ReadNothing
  BY <1>3, PendingReadNothing DEF Texts
<1>4. CASE ReadText \/ WriteText
  BY <1>4, PendingRead, PendingWrite DEF Texts
<1>5. CASE Peers \/ Poll \/ AcceptFail \/ Refuse \/ TakeError \/ WriteNothing \/ WriteAbort \/ Pass
           \/ UNCHANGED vars
  <2>1. UNCHANGED <<users, copied, sock, got, user_count>>
    BY <1>5 DEF Peers, Connect, SendText, Hangup, Reset, Poll, AcceptFail, Refuse, TakeError,
       WriteNothing, WriteAbort, Pass, vars, tableVars
  <2>2. \A j \in Live : fds'[j].fd = fds[j].fd /\ fds'[j].events = fds[j].events
    <3>1. CASE Poll
      <4>1. \A j \in 0..UserLimit : fds'[j].fd = fds[j].fd /\ fds'[j].events = fds[j].events
        BY <3>1 DEF IInv, TypeOK, Poll, PollFd
      <4> QED
        BY <4>1, Bounds DEF IInv, Live
    <3>2. CASE fds' = fds
      BY <3>2
    <3> QED
      BY <1>5, <3>1, <3>2 DEF Peers, Connect, SendText, Hangup, Reset, AcceptFail, Refuse, TakeError,
         WriteNothing, WriteAbort, Pass, vars, tableVars
  <2> QED
    BY <2>1, <2>2, PendingFrame DEF Texts
<1> QED
  BY <1>1, <1>2, <1>3, <1>4, <1>5 DEF Next, Server

LEMMA TextsStep ==
  IInv /\ IInv' /\ Placed /\ ArmedPointer /\ Texts /\ [Next]_vars => Texts'
BY OnwardStep, BufferedStep, GotStep, PendingStep DEF Texts

LEMMA TextsInit == Init => Texts
<1> SUFFICES ASSUME Init PROVE Texts
  OBVIOUS
<1>1. \A c \in Conns : Len(inq[c]) = 0
  BY EmptySeq DEF Init
<1> QED
  BY <1>1 DEF Init, Texts, InOrder, BufferedPast, GotPast, OnlyCopiesRepeat, Live

(* Whoever leaves, whichever descriptors are used again and whichever      *)
(* buffers are overwritten before they are sent (lines 128, 137, 155-164): *)
(* as long as a buffer does not hold a copy made in lines 127 or 147, the  *)
(* text in it is new to each member that waits for it, and later than all  *)
(* this member has of its sender (lines 173-182).                          *)
THEOREM OnlyCopiesRepeatCorrect == Spec => []OnlyCopiesRepeat
<1>1. Texts => OnlyCopiesRepeat
  BY DEF Texts
<1> QED
  BY Inductive, PlacedCorrect, ArmedCorrect, TextsInit, TextsStep, <1>1, PTL DEF Spec
=============================================================================
