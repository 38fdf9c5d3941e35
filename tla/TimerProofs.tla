------------------------------ MODULE TimerProofs ------------------------------
(***************************************************************************)
(* The event loop of the server that closes idle connections: no tick is   *)
(* ever lost and accept() always finds a connection, for every number of   *)
(* descriptors and every TIMESLOT. Both follow one thing through the       *)
(* places it can be in: the alarm, a byte in the pipe with an edge, and a  *)
(* flag; or the backlog and the edge of the listener. The loop hands them  *)
(* on without a gap because it goes to sleep with no event left to handle. *)
(* Then the connections: each open one has its timer in a well-formed      *)
(* list, no operation touches a deleted timer, and none but idle           *)
(* connections are closed, whatever order the list is in.                  *)
(***************************************************************************)
EXTENDS TimerServer, ListProofs

Handled == pc = "wait" => batch = {}

Counts == backlog \in Nat /\ alarm \in Nat /\ pc \in {"wait", "scan", "end"}

(* AcceptNeverEmpty without cardinalities.                                 *)
EdgesCovered ==
  /\ ListenFd \in batch \cup ready => backlog >= 1
  /\ ListenFd \in batch \cap ready => backlog >= 2

IInv == Counts /\ Handled /\ EdgesCovered /\ TickOnItsWay

-----------------------------------------------------------------------------
LEMMA NotFds == ListenFd \notin Fds /\ PipeFd \notin Fds /\ ListenFd # PipeFd
                /\ TimeSlot \in Nat /\ TimeSlot > 0
BY TimerAssumption DEF TimerAssumption

(* Connections and what their peers do.                                    *)
LEMMA InvEnvironment ==
  ASSUME IInv, Environment
  PROVE  IInv'
<1>1. Alive /\ pc # "end"
  BY DEF Environment
<1>2. CASE Connect
  BY <1>1, <1>2, NotFds DEF IInv, Counts, Handled, EdgesCovered, TickOnItsWay, Connect, loopVars, timeVars, Alive
<1>3. ASSUME NEW fd \in Fds, Send(fd) \/ Hangup(fd) PROVE IInv'
  <2>1. /\ ready' = ready \cup {fd} /\ fd # ListenFd /\ fd # PipeFd
        /\ UNCHANGED <<backlog, batch, pc, loopVars, timeVars, list, wild>>
    BY <1>3, NotFds DEF Send, Hangup
  <2> QED
    BY <1>1, <2>1 DEF IInv, Counts, Handled, EdgesCovered, TickOnItsWay, loopVars, timeVars, Alive
<1>4. CASE Terminate
  <2>1. /\ pipe \subseteq pipe' /\ ready' = ready \cup {PipeFd}
        /\ UNCHANGED <<backlog, batch, pc, timeout, alarm>>
    BY <1>4 DEF Terminate, Signal, timeVars
  <2> QED
    BY <1>1, <2>1, NotFds DEF IInv, Counts, Handled, EdgesCovered, TickOnItsWay
<1>5. CASE Elapse
  <2>1. /\ alarm' = IF alarm = 0 THEN 0 ELSE alarm - 1
        /\ \/ alarm = 1 /\ "ALRM" \in pipe' /\ ready' = ready \cup {PipeFd}
           \/ alarm # 1 /\ UNCHANGED <<pipe, ready>>
        /\ UNCHANGED <<backlog, batch, pc, timeout>>
    BY <1>5 DEF Elapse, Signal
  <2> QED
    BY <1>1, <2>1, NotFds DEF IInv, Counts, Handled, EdgesCovered, TickOnItsWay
<1> QED
  BY <1>2, <1>3, <1>4, <1>5 DEF Environment

LEMMA InvWait ==
  ASSUME IInv, EpollWait
  PROVE  IInv'
<1>1. /\ pc = "wait" /\ Alive /\ batch = {} /\ ready' = {} /\ pc' = "scan"
      /\ UNCHANGED <<backlog, pipe, timeout, alarm>>
  BY DEF EpollWait, IInv, Handled, loopVars, timeVars
<1>2. /\ ListenFd \in batch' => ListenFd \in ready
      /\ PipeFd \in ready => PipeFd \in batch'
  BY NotFds DEF EpollWait
<1> QED
  BY <1>1, <1>2 DEF IInv, Counts, Handled, EdgesCovered, TickOnItsWay

(* An event of a connection is handled.                                    *)
LEMMA InvConnection ==
  ASSUME IInv, NEW fd \in Fds, Read(fd) \/ Leave(fd)
  PROVE  IInv'
<1>1. /\ Alive /\ pc = "scan" /\ batch' = batch \ {fd} /\ fd # ListenFd /\ fd # PipeFd
      /\ ready' = ready \/ ready' = ready \ {fd}
      /\ UNCHANGED <<backlog, pc, pipe, timeout, alarm>>
  BY NotFds DEF Read, Leave, Handling, Close, loopVars
<1> QED
  BY <1>1 DEF IInv, Counts, Handled, EdgesCovered, TickOnItsWay

(* accept() answers for one edge with one connection.                      *)
LEMMA InvAccept ==
  ASSUME IInv, Accept
  PROVE  IInv'
<1>1. /\ Alive /\ pc = "scan" /\ ListenFd \in batch /\ batch' = batch \ {ListenFd}
      /\ backlog' = backlog - 1 /\ UNCHANGED <<ready, pc, pipe, timeout, alarm>>
  BY DEF Accept, Handling, Taken, loopVars
<1>2. PipeFd \in batch => PipeFd \in batch'
  BY <1>1, NotFds
<1> QED
  BY <1>1, <1>2 DEF IInv, Counts, Handled, EdgesCovered, TickOnItsWay

LEMMA InvAcceptFail ==
  ASSUME IInv, AcceptFail
  PROVE  IInv'
<1>1. /\ pc = "scan" /\ batch' = batch \ {ListenFd} /\ wild' = TRUE
      /\ UNCHANGED <<backlog, ready, pc, alarm>>
  BY DEF AcceptFail, Handling, timeVars
<1> QED
  BY <1>1 DEF IInv, Counts, Handled, EdgesCovered, TickOnItsWay, Alive

(* The byte in the pipe becomes the flag.                                  *)
LEMMA InvReadPipe ==
  ASSUME IInv, ReadPipe
  PROVE  IInv'
<1>1. /\ Alive /\ pc = "scan" /\ batch' = batch \ {PipeFd}
      /\ timeout' = (timeout \/ "ALRM" \in pipe)
      /\ UNCHANGED <<backlog, ready, pc, alarm>>
  BY DEF ReadPipe, Handling, timeVars
<1>2. TickOnItsWay'
  <2>1. alarm > 0 \/ "ALRM" \in pipe \/ timeout
    BY <1>1 DEF IInv, TickOnItsWay
  <2> QED
    BY <1>1, <2>1 DEF TickOnItsWay
<1> QED
  BY <1>1, <1>2 DEF IInv, Counts, Handled, EdgesCovered

(* After the batch the flag becomes the next alarm; without it there is no *)
(* event left, so that the edge of the pipe, if any, is still to come.     *)
LEMMA InvAfterBatch ==
  ASSUME IInv, AfterBatch
  PROVE  IInv'
<1>1. /\ Alive /\ pc = "scan" /\ batch = {} /\ pc' \in {"wait", "end"}
      /\ UNCHANGED <<backlog, batch, pipe>>
  BY DEF AfterBatch
<1>2. CASE timeout
  <2>1. ready' \subseteq ready /\ alarm' = TimeSlot
    BY <1>2 DEF AfterBatch, Close, NextAlarm
  <2> QED
    BY <1>1, <2>1, NotFds DEF IInv, Counts, Handled, EdgesCovered, TickOnItsWay
<1>3. CASE ~timeout
  <2>1. UNCHANGED <<ready, alarm>>
    BY <1>3 DEF AfterBatch, timeVars
  <2> QED
    BY <1>1, <1>3, <2>1 DEF IInv, Counts, Handled, EdgesCovered, TickOnItsWay
<1> QED
  BY <1>2, <1>3

LEMMA IInvStep == IInv /\ [Next]_vars => IInv'
<1>1. IInv /\ UNCHANGED vars => IInv'
  BY DEF IInv, Counts, Handled, EdgesCovered, TickOnItsWay, Alive, vars, loopVars, timeVars
<1> QED
  BY <1>1, InvEnvironment, InvWait, InvConnection, InvAccept, InvAcceptFail, InvReadPipe, InvAfterBatch
     DEF Next, Server

LEMMA IInvInit == Init => IInv
BY NotFds DEF Init, IInv, Counts, Handled, EdgesCovered, TickOnItsWay

(* The invariant: where the next tick is, and what the edges stand for.    *)
THEOREM Inductive == Spec => []IInv
BY IInvInit, IInvStep, PTL DEF Spec

(* The chain of SIGALRM, byte, flag and alarm never breaks, whatever other *)
(* events share a batch with it (lines 42-48, 60-64, 147-179, 223-227).    *)
THEOREM TickCorrect == Spec => []TickOnItsWay
<1>1. IInv => TickOnItsWay
  BY DEF IInv
<1> QED
  BY Inductive, <1>1, PTL

LEMMA OneOrNone ==
  ASSUME NEW x, NEW S
  PROVE  Cardinality({x} \cap S) = IF x \in S THEN 1 ELSE 0
<1>1. CASE x \in S
  <2>1. {x} \cap S = {x}
    BY <1>1
  <2> QED
    BY <1>1, <2>1, FS_Singleton
<1>2. CASE x \notin S
  <2>1. {x} \cap S = {}
    BY <1>2
  <2> QED
    BY <1>2, <2>1, FS_EmptySet
<1> QED
  BY <1>1, <1>2

(* The accept() of line 135 never finds the queue empty.                   *)
THEOREM AcceptCorrect == Spec => []AcceptNeverEmpty
<1>1. IInv => AcceptNeverEmpty
  <2> SUFFICES ASSUME IInv PROVE AcceptNeverEmpty
    OBVIOUS
  <2>1. /\ Cardinality({ListenFd} \cap batch) = IF ListenFd \in batch THEN 1 ELSE 0
        /\ Cardinality({ListenFd} \cap ready) = IF ListenFd \in ready THEN 1 ELSE 0
    BY OneOrNone
  <2> QED
    BY <2>1 DEF IInv, Counts, EdgesCovered, AcceptNeverEmpty
<1> QED
  BY Inductive, <1>1, PTL

-----------------------------------------------------------------------------
(* The connections and their timers. ListProofs says what an operation     *)
(* does to a list; here the list is the one of the open connections, the   *)
(* events are of open connections, and idle is what left tells.            *)
ListKept ==
  /\ list \in ListType /\ list.fault \in {"none", "null"}
  /\ list.fault = "none" => list.heap = open /\ \E n, s : Listed(list, n, s)

EventsOfOpen == (ready \cup batch) \cap Fds \subseteq open

IdleTold ==
  \A fd \in open : /\ left[fd] >= 0 => idle[fd] = Timeout - left[fd]
                   /\ left[fd] <= 0 => idle[fd] = Timeout

Served == TypeOK /\ ListKept /\ EventsOfOpen /\ IdleTold

LEMMA Sizes ==
  /\ Memory /\ Fds = Timers /\ Timeout \in Nat /\ Timeout > 0 /\ TimeSlot \in Nat /\ TimeSlot > 0
  /\ MaxBacklog \in Nat /\ MaxInput \in Nat /\ MaxLate \in Nat
BY TimerAssumption DEF TimerAssumption, Memory, Fds, Timeout

LEMMA ServedInit == Init => Served
<1> SUFFICES ASSUME Init PROVE Served
  OBVIOUS
<1>1. list \in ListType /\ list.fault = "none" /\ list.heap = {}
  BY DEF Init, EmptyList, ListType
<1>2. Listed(list, 0, [k \in 1..0 |-> Null])
  BY DEF Init, EmptyList, Listed, Chain, Members
<1>3. TypeOK
  <2>1. 0 \in 0..MaxBacklog /\ 0 \in 0..MaxInput /\ 0 \in -MaxLate..Timeout /\ 0 \in 0..Timeout
        /\ TimeSlot \in 0..TimeSlot
    BY Sizes
  <2> QED
    BY <1>1, <2>1 DEF Init, TypeOK
<1> QED
  BY <1>1, <1>2, <1>3 DEF Init, Served, ListKept, EventsOfOpen, IdleTold

LEMMA ServedEnvironment ==
  ASSUME Served, Environment
  PROVE  Served'
<1>1. CASE Connect
  BY <1>1, Sizes, NotFds DEF Connect, Served, TypeOK, ListKept, EventsOfOpen, IdleTold, Source,
     clientVars, loopVars, timeVars
<1>2. ASSUME NEW fd \in Fds, Send(fd) PROVE Served'
  <2>1. fd \in open /\ input' \in [Fds -> 0..MaxInput] /\ ready' = ready \cup {fd}
        /\ UNCHANGED <<backlog, open, gone, batch, pc, loopVars, timeVars, list, wild>>
    BY <1>2, Sizes DEF Send, Served, TypeOK
  <2> QED
    BY <2>1 DEF Served, TypeOK, ListKept, EventsOfOpen, IdleTold, Source, loopVars, timeVars
<1>3. ASSUME NEW fd \in Fds, Hangup(fd) PROVE Served'
  <2>1. fd \in open /\ gone' = gone \cup {fd} /\ ready' = ready \cup {fd}
        /\ UNCHANGED <<backlog, open, input, batch, pc, loopVars, timeVars, list, wild>>
    BY <1>3 DEF Hangup
  <2> QED
    BY <2>1 DEF Served, TypeOK, ListKept, EventsOfOpen, IdleTold, Source, loopVars, timeVars
<1>4. CASE Terminate
  BY <1>4, NotFds DEF Terminate, Signal, Served, TypeOK, ListKept, EventsOfOpen, IdleTold, Source,
     clientVars, timeVars
<1>5. CASE Elapse
  <2>1. /\ left' = [fd \in Fds |-> IF fd \in open /\ left[fd] > -MaxLate THEN left[fd] - 1 ELSE left[fd]]
        /\ idle' = [fd \in Fds |-> IF fd \in open /\ idle[fd] < Timeout THEN idle[fd] + 1 ELSE idle[fd]]
        /\ UNCHANGED <<backlog, open, clientVars, batch, pc, timeout, stop_server, list, wild>>
    BY <1>5 DEF Elapse
  <2>2. /\ pipe' \subseteq {"ALRM", "TERM"} /\ ready' \subseteq Source /\ ready' \cap Fds = ready \cap Fds
        /\ alarm' \in 0..TimeSlot
    <3>1. /\ alarm' = IF alarm = 0 THEN 0 ELSE alarm - 1
          /\ \/ pipe' = pipe \cup {"ALRM"} /\ ready' = ready \cup {PipeFd}
             \/ UNCHANGED <<pipe, ready>>
      BY <1>5 DEF Elapse, Signal
    <3>2. alarm \in 0..TimeSlot /\ pipe \subseteq {"ALRM", "TERM"} /\ ready \subseteq Source
      BY DEF Served, TypeOK
    <3>3. alarm' \in 0..TimeSlot
      BY <3>1, <3>2, Sizes
    <3> QED
      BY <3>1, <3>2, <3>3, NotFds DEF Source
  <2>3. left' \in [Fds -> -MaxLate..Timeout] /\ idle' \in [Fds -> 0..Timeout]
    <3>1. \A fd \in Fds : left[fd] \in -MaxLate..Timeout /\ idle[fd] \in 0..Timeout
      BY DEF Served, TypeOK
    <3> QED
      BY <2>1, <3>1, Sizes
  <2>4. IdleTold'
    <3> SUFFICES ASSUME NEW fd \in open
                 PROVE  /\ left'[fd] >= 0 => idle'[fd] = Timeout - left'[fd]
                        /\ left'[fd] <= 0 => idle'[fd] = Timeout
      BY <2>1, Sizes DEF IdleTold, Timeout
    <3>1. /\ fd \in Fds /\ left[fd] \in -MaxLate..Timeout /\ idle[fd] \in 0..Timeout
          /\ left[fd] >= 0 => idle[fd] = Timeout - left[fd]
          /\ left[fd] <= 0 => idle[fd] = Timeout
      BY DEF Served, TypeOK, IdleTold
    <3>2. /\ left'[fd] = IF left[fd] > -MaxLate THEN left[fd] - 1 ELSE left[fd]
          /\ idle'[fd] = IF idle[fd] < Timeout THEN idle[fd] + 1 ELSE idle[fd]
      BY <2>1, <3>1
    <3> QED
      BY <3>1, <3>2, Sizes
  <2> QED
    BY <2>1, <2>2, <2>3, <2>4 DEF Served, TypeOK, ListKept, EventsOfOpen, clientVars
<1> QED
  BY <1>1, <1>2, <1>3, <1>4, <1>5 DEF Environment

LEMMA ServedWait ==
  ASSUME Served, EpollWait
  PROVE  Served'
BY DEF EpollWait, Served, TypeOK, ListKept, EventsOfOpen, IdleTold, Source, clientVars, loopVars, timeVars

(* A connection and its timer.                                             *)
LEMMA ServedAccept ==
  ASSUME Served, IInv, Accept
  PROVE  Served'
<1>1. PICK fd \in Fds \ open :
        /\ open' = open \cup {fd}
        /\ left' = [left EXCEPT ![fd] = Timeout]
        /\ idle' = [idle EXCEPT ![fd] = 0]
        /\ list' = AddTimer(Alloc(list, fd), left', fd)
  BY DEF Accept
<1>2. /\ Alive /\ batch' = batch \ {ListenFd} /\ ListenFd \in batch /\ backlog' = backlog - 1
      /\ UNCHANGED <<clientVars, ready, pc, loopVars, alarm, wild>>
  BY DEF Accept, Handling, Taken
<1>3. PICK n, s : Intact(list) /\ list.heap = open /\ Listed(list, n, s)
  BY <1>2 DEF Alive, Served, ListKept, Intact
<1>4. Intact(list') /\ list'.heap = open' /\ \E k, w : Listed(list', k, w)
  <2>1. fd \in Timers \ list.heap
    BY <1>3, Sizes
  <2> QED
    BY <1>1, <1>3, <2>1, Sizes, AddLists
<1>5. backlog' \in 0..MaxBacklog
  BY <1>2, Sizes DEF IInv, EdgesCovered, Served, TypeOK
<1>6. left' \in [Fds -> -MaxLate..Timeout] /\ idle' \in [Fds -> 0..Timeout]
  BY <1>1, Sizes DEF Served, TypeOK
<1>7. IdleTold'
  <2>1. \A g \in open' : g \in Fds /\ (g = fd \/ g \in open)
    BY <1>1 DEF Served, TypeOK
  <2>2. \A g \in open' : /\ left'[g] = IF g = fd THEN Timeout ELSE left[g]
                         /\ idle'[g] = IF g = fd THEN 0 ELSE idle[g]
    BY <1>1, <2>1 DEF Served, TypeOK
  <2> QED
    BY <2>1, <2>2, Sizes DEF Served, IdleTold
<1> QED
  BY <1>1, <1>2, <1>4, <1>5, <1>6, <1>7
     DEF Served, TypeOK, ListKept, EventsOfOpen, Intact, clientVars, loopVars

LEMMA ServedFail ==
  ASSUME Served, AcceptFail
  PROVE  Served'
BY DEF AcceptFail, Handling, Served, TypeOK, ListKept, EventsOfOpen, IdleTold, clientVars, loopVars, timeVars

LEMMA ServedPipe ==
  ASSUME Served, ReadPipe
  PROVE  Served'
BY DEF ReadPipe, Handling, Served, TypeOK, ListKept, EventsOfOpen, IdleTold, clientVars, timeVars

LEMMA ServedRead ==
  ASSUME Served, NEW fd \in Fds, Read(fd)
  PROVE  Served'
<1>1. /\ Alive /\ batch' = batch \ {fd} /\ fd \in batch /\ fd \in open
      /\ left' = [left EXCEPT ![fd] = Timeout]
      /\ idle' = [idle EXCEPT ![fd] = 0]
      /\ list' = AdjustTimer(list, left', fd)
      /\ UNCHANGED <<backlog, open, gone, ready, pc, loopVars, alarm, wild>>
  BY DEF Read, Handling, Restart, Served, EventsOfOpen
<1>2. PICK n, s : Intact(list) /\ list.heap = open /\ Listed(list, n, s)
  BY <1>1 DEF Alive, Served, ListKept, Intact
<1>3. Intact(list') /\ list'.heap = open' /\ \E k, w : Listed(list', k, w)
  <2>1. fd \in list.heap
    BY <1>1, <1>2
  <2> QED
    BY <1>1, <1>2, <2>1, Sizes, AdjustLists
<1>4. left' \in [Fds -> -MaxLate..Timeout] /\ idle' \in [Fds -> 0..Timeout]
  BY <1>1, Sizes DEF Served, TypeOK
<1>5. input' \in [Fds -> 0..MaxInput]
  <2>1. PICK n0 \in 1..input[fd] : input' = [input EXCEPT ![fd] = @ - n0]
    BY DEF Read
  <2>2. input[fd] - n0 \in 0..MaxInput
    BY Sizes DEF Served, TypeOK
  <2> QED
    BY <2>1, <2>2 DEF Served, TypeOK
<1>6. IdleTold'
  <2>1. \A g \in open' : /\ g \in open /\ g \in Fds
                         /\ left'[g] = IF g = fd THEN Timeout ELSE left[g]
                         /\ idle'[g] = IF g = fd THEN 0 ELSE idle[g]
    BY <1>1 DEF Served, TypeOK
  <2> QED
    BY <2>1, Sizes DEF Served, IdleTold
<1> QED
  BY <1>1, <1>3, <1>4, <1>5, <1>6 DEF Served, TypeOK, ListKept, EventsOfOpen, Intact, loopVars

(* Connections go, and what is kept for them is cleared.                   *)
LEMMA ServedClose ==
  ASSUME Served, NEW fds, Close(fds)
  PROVE  /\ gone' \subseteq open' /\ open' = open \ fds /\ ready' \subseteq ready
         /\ ready' \cap Fds \subseteq ready \ fds
         /\ input' \in [Fds -> 0..MaxInput]
         /\ left' \in [Fds -> -MaxLate..Timeout] /\ idle' \in [Fds -> 0..Timeout]
         /\ IdleTold'
<1>1. input' \in [Fds -> 0..MaxInput]
  BY Sizes DEF Close, Served, TypeOK
<1>2. left' \in [Fds -> -MaxLate..Timeout] /\ idle' \in [Fds -> 0..Timeout]
  BY Sizes DEF Close, Served, TypeOK
<1>3. IdleTold'
  <2>1. \A g \in open' : g \in open /\ g \in Fds /\ left'[g] = left[g] /\ idle'[g] = idle[g]
    BY DEF Close, Served, TypeOK
  <2> QED
    BY <2>1 DEF Served, IdleTold
<1> QED
  BY <1>1, <1>2, <1>3 DEF Close, Served, TypeOK

LEMMA ServedLeave ==
  ASSUME Served, NEW fd \in Fds, Leave(fd)
  PROVE  Served'
<1>1. /\ Alive /\ batch' = batch \ {fd} /\ fd \in open
      /\ Close({fd}) /\ list' = DelTimer(list, fd)
      /\ UNCHANGED <<backlog, pc, loopVars, alarm, wild>>
  BY DEF Leave, Handling, Served, TypeOK
<1>2. PICK n, s : Intact(list) /\ list.heap = open /\ Listed(list, n, s)
  BY <1>1 DEF Alive, Served, ListKept, Intact
<1>3. /\ gone' \subseteq open' /\ open' = open \ {fd} /\ ready' \subseteq ready
      /\ ready' \cap Fds \subseteq ready \ {fd}
      /\ input' \in [Fds -> 0..MaxInput]
      /\ left' \in [Fds -> -MaxLate..Timeout] /\ idle' \in [Fds -> 0..Timeout]
      /\ IdleTold'
  BY <1>1, ServedClose
<1>4. ListKept'
  <2>1. fd \in list.heap
    BY <1>1, <1>2
  <2>2. /\ list' \in ListType /\ list'.fault \in {"none", "null"}
        /\ list'.fault = "none" => list'.heap = list.heap \ {fd} /\ \E w : Listed(list', n - 1, w)
    BY <1>1, <1>2, <2>1, Sizes, DelLists
  <2> QED
    BY <1>2, <1>3, <2>2 DEF ListKept
<1>5. ready' \subseteq Source /\ batch' \subseteq Source /\ open' \subseteq Fds /\ EventsOfOpen'
  BY <1>1, <1>3 DEF Served, TypeOK, EventsOfOpen
<1>6. list' \in ListType
  BY <1>4 DEF ListKept
<1>7. TypeOK'
  BY <1>1, <1>3, <1>5, <1>6 DEF Served, TypeOK, loopVars
<1> QED
  BY <1>3, <1>4, <1>5, <1>7 DEF Served

LEMMA ServedAfterBatch ==
  ASSUME Served, AfterBatch
  PROVE  Served'
<1>1. /\ Alive /\ batch = {} /\ batch' = {} /\ timeout' = FALSE /\ pc' \in {"wait", "end"}
      /\ UNCHANGED <<backlog, pipe, stop_server, wild>>
  BY DEF AfterBatch
<1>2. CASE ~timeout
  <2>1. UNCHANGED <<open, clientVars, ready, list, timeVars>>
    BY <1>2 DEF AfterBatch
  <2> QED
    BY <1>1, <2>1 DEF Served, TypeOK, ListKept, EventsOfOpen, IdleTold, clientVars, timeVars
<1>3. CASE timeout
  <2>1. Close(Expired(list, left, 0)) /\ list' = Tick(list, left, 0) /\ alarm' = TimeSlot
    BY <1>3 DEF AfterBatch, NextAlarm
  <2>2. PICK n, s : Intact(list) /\ list.heap = open /\ Listed(list, n, s)
    BY <1>1 DEF Alive, Served, ListKept, Intact
  <2>3. Intact(list') /\ list'.heap = open \ Expired(list, left, 0) /\ \E k \in Nat : \E w : Listed(list', k, w)
    BY <2>1, <2>2, Sizes, TickLists
  <2> DEFINE X == Expired(list, left, 0)
  <2> HIDE DEF X
  <2>4. /\ gone' \subseteq open' /\ open' = open \ X /\ ready' \subseteq ready
        /\ ready' \cap Fds \subseteq ready \ X
        /\ input' \in [Fds -> 0..MaxInput]
        /\ left' \in [Fds -> -MaxLate..Timeout] /\ idle' \in [Fds -> 0..Timeout]
        /\ IdleTold'
    BY <2>1, ServedClose DEF X
  <2>5. ListKept'
    BY <2>3, <2>4 DEF ListKept, Intact, X
  <2>6. ready' \subseteq Source /\ batch' \subseteq Source /\ open' \subseteq Fds /\ EventsOfOpen'
    BY <1>1, <2>4 DEF Served, TypeOK, EventsOfOpen
  <2>7. list' \in ListType /\ alarm' \in 0..TimeSlot
    BY <2>1, <2>5, Sizes DEF ListKept
  <2>8. TypeOK'
    BY <1>1, <2>4, <2>6, <2>7 DEF Served, TypeOK
  <2> QED
    BY <2>4, <2>5, <2>6, <2>8 DEF Served
<1> QED
  BY <1>2, <1>3

LEMMA ServedStep == IInv /\ Served /\ [Next]_vars => Served'
<1>1. Served /\ UNCHANGED vars => Served'
  BY DEF Served, TypeOK, ListKept, EventsOfOpen, IdleTold, vars, clientVars, loopVars, timeVars
<1> QED
  BY <1>1, ServedEnvironment, ServedWait, ServedAccept, ServedFail, ServedPipe, ServedRead, ServedLeave,
     ServedAfterBatch DEF Next, Server

(* Every open connection has its timer in a well-formed list, or a store   *)
(* through NULL has ended the server.                                      *)
THEOREM AlwaysServed == Spec => []Served
BY Inductive, ServedInit, ServedStep, PTL DEF Spec

(* The type of each variable, the counter of the backlog included.         *)
THEOREM TypeCorrect == Spec => []TypeOK
<1>1. Served => TypeOK
  BY DEF Served
<1> QED
  BY AlwaysServed, <1>1, PTL

(* As long as the server runs, the list of 11-2_LIST_TIMER.h holds the     *)
(* timers of the open connections, each once, from head to tail, whatever  *)
(* mixture of add, adjust, delete and tick came before.                    *)
THEOREM ListCorrect == Spec => []ListMatchesClients
<1>1. Served => ListMatchesClients
  <2> SUFFICES ASSUME Served, Alive PROVE list.heap = open /\ Chained(list)
    BY DEF ListMatchesClients
  <2>1. PICK n, s : list.heap = open /\ Listed(list, n, s)
    BY DEF Alive, Served, ListKept
  <2> QED
    BY <2>1, Sizes, ListedChained
<1> QED
  BY AlwaysServed, <1>1, PTL

(* The stale prev and tail pointers of the list are never followed: no     *)
(* operation touches a timer that was deleted.                             *)
THEOREM MemorySafe == Spec => []NoUseAfterFree
<1>1. Served => NoUseAfterFree
  BY DEF Served, ListKept, NoUseAfterFree
<1> QED
  BY AlwaysServed, <1>1, PTL

(* tick() stops at the first timer that has not expired, so that only      *)
(* those that have are closed, and expire is three TIMESLOTs after the     *)
(* last input.                                                             *)
THEOREM IdleCorrect == Spec => OnlyIdleClosed
<1>1. ASSUME Served, [Next]_vars, NEW fd \in open \ open'
      PROVE  fd \in gone \/ idle[fd] = Timeout
  <2>1. CASE AfterBatch
    <3>1. timeout /\ open' = open \ Expired(list, left, 0) /\ Alive
      BY <1>1, <2>1 DEF AfterBatch, Close
    <3>2. PICK n, s : Intact(list) /\ list.heap = open /\ Listed(list, n, s)
      BY <1>1, <3>1 DEF Alive, Served, ListKept, Intact
    <3>3. \A t \in Expired(list, left, 0) : ~(0 < left[t])
      BY <3>2, Sizes, TickLists
    <3>4. ~(0 < left[fd]) /\ left[fd] \in -MaxLate..Timeout
      BY <1>1, <3>1, <3>3 DEF Served, TypeOK
    <3> QED
      BY <1>1, <3>4, Sizes DEF Served, IdleTold
  <2>2. ASSUME NEW g \in Fds, Leave(g) PROVE fd \in gone
    BY <1>1, <2>2 DEF Leave, Close
  <2>3. CASE EpollWait \/ Accept \/ AcceptFail \/ ReadPipe
    BY <1>1, <2>3 DEF EpollWait, Accept, AcceptFail, ReadPipe
  <2>4. ASSUME NEW g \in Fds, Read(g) PROVE FALSE
    BY <1>1, <2>4 DEF Read
  <2>5. CASE Environment
    BY <1>1, <2>5 DEF Environment, Connect, Terminate, Elapse, Send, Hangup
  <2>6. CASE UNCHANGED vars
    BY <1>1, <2>6 DEF vars
  <2> QED
    BY <1>1, <2>1, <2>2, <2>3, <2>4, <2>5, <2>6 DEF Next, Server
<1>2. Served /\ [Next]_vars => [\A fd \in open \ open' : fd \in gone \/ idle[fd] = Timeout]_vars
  BY <1>1
<1> QED
  BY AlwaysServed, <1>2, PTL DEF Spec, OnlyIdleClosed
=============================================================================
