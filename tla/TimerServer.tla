----------------------------- MODULE TimerServer -----------------------------
(***************************************************************************)
(* ch11/11-3_close_nonactive_connection.cpp: one thread around epoll_wait  *)
(* with edge-triggered descriptors, signals turned into bytes on a pipe,   *)
(* and a timer per connection, kept in a sort_timer_lst, that closes the   *)
(* connection when nothing came from it for three TIMESLOTs.               *)
(*                                                                         *)
(* One step is one epoll_wait, one event of the batch it returned, or the  *)
(* work after the batch. A descriptor has at most one event in a batch,    *)
(* and one timer.                                                          *)
(***************************************************************************)
EXTENDS TimerList

CONSTANTS
  ListenFd,     (* listenfd                                                *)
  PipeFd,       (* pipefd[0]                                               *)
  Talkers,      (* bound: the descriptors whose peers send anything        *)
  Leavers,      (* bound: the descriptors whose peers close                *)
  Stops,        (* bound: whether SIGTERM may come                         *)
  TimeSlot,     (* TIMESLOT, in units of time(NULL)                        *)
  MaxBacklog,   (* bound: connections waiting for accept()                 *)
  MaxInput,     (* bound: pieces of input waiting for recv()               *)
  MaxLate       (* bound: how late an expired timer can be told to be      *)

(* The descriptors the process may still open: a connection's timer is     *)
(* named by its descriptor.                                                *)
Fds == Timers

ASSUME TimerAssumption ==
  /\ Fds \subseteq Nat /\ IsFiniteSet(Fds)
  /\ {ListenFd, PipeFd} \cap Fds = {} /\ ListenFd # PipeFd
  /\ Null \notin Fds /\ Talkers \subseteq Fds /\ Leavers \subseteq Fds
  /\ Stops \in BOOLEAN /\ TimeSlot \in Nat \ {0}
  /\ MaxBacklog \in Nat /\ MaxInput \in Nat /\ MaxLate \in Nat

VARIABLES
  backlog,    (* number of connections waiting for accept()                *)
  open,       (* descriptors of accepted connections                       *)
  input,      (* pieces of input each has waiting                          *)
  gone,       (* connections whose peer closed or reset                    *)
  ready,      (* the edges epoll has not reported yet                      *)
  batch,      (* what epoll_wait() returned and the loop has not handled   *)
  pc,         (* "wait", "scan", or "end"                                  *)
  pipe,       (* signal bytes in the pipe                                  *)
  timeout, stop_server,
  alarm,      (* time until SIGALRM, 0 when no alarm is set                *)
  left,       (* expire minus the current time, per timer                  *)
  idle,       (* history: time since input was read, up to 3 TIMESLOTs     *)
  list,       (* timer_lst                                                 *)
  wild        (* users[-1] has been written                                *)

clientVars == <<input, gone>>
loopVars   == <<pipe, timeout, stop_server>>
timeVars   == <<alarm, left, idle>>
vars == <<backlog, open, clientVars, ready, batch, pc, loopVars, timeVars, list, wild>>

Timeout == 3 * TimeSlot
Source  == Fds \cup {ListenFd, PipeFd}

(* The type of each variable.                                              *)
TypeOK ==
  /\ backlog \in 0..MaxBacklog
  /\ open \subseteq Fds /\ gone \subseteq open
  /\ input \in [Fds -> 0..MaxInput]
  /\ ready \subseteq Source /\ batch \subseteq Source
  /\ pc \in {"wait", "scan", "end"}
  /\ pipe \subseteq {"ALRM", "TERM"}
  /\ timeout \in BOOLEAN /\ stop_server \in BOOLEAN
  /\ alarm \in 0..TimeSlot
  /\ left \in [Fds -> -MaxLate..Timeout] /\ idle \in [Fds -> 0..Timeout]
  /\ list \in ListType
  /\ wild \in BOOLEAN

Init ==
  /\ backlog = 0
  /\ open = {} /\ gone = {}
  /\ input = [fd \in Fds |-> 0]
  /\ ready = {} /\ batch = {}
  /\ pc = "wait"
  /\ pipe = {}
  /\ timeout = FALSE /\ stop_server = FALSE
  /\ alarm = TimeSlot
  /\ left = [fd \in Fds |-> 0] /\ idle = [fd \in Fds |-> 0]
  /\ list = EmptyList
  /\ wild = FALSE

Alive == list.fault = "none" /\ ~wild

-----------------------------------------------------------------------------
(* The environment: peers, time, and SIGTERM.                              *)

Connect ==
  /\ backlog < MaxBacklog
  /\ backlog' = backlog + 1
  /\ ready' = ready \cup {ListenFd}
  /\ UNCHANGED <<open, clientVars, batch, pc, loopVars, timeVars, list, wild>>

Send(fd) ==
  /\ fd \in (open \cap Talkers) \ gone /\ input[fd] < MaxInput
  /\ input' = [input EXCEPT ![fd] = @ + 1]
  /\ ready' = ready \cup {fd}
  /\ UNCHANGED <<backlog, open, gone, batch, pc, loopVars, timeVars, list, wild>>

Hangup(fd) ==
  /\ fd \in (open \cap Leavers) \ gone
  /\ gone' = gone \cup {fd}
  /\ ready' = ready \cup {fd}
  /\ UNCHANGED <<backlog, open, input, batch, pc, loopVars, timeVars, list, wild>>

(* sig_handler puts the signal in the pipe. No second SIGALRM comes before *)
(* timer_handler() has set the alarm again.                                *)
Signal(sig) ==
  /\ pipe' = pipe \cup {sig}
  /\ ready' = ready \cup {PipeFd}

Terminate ==
  /\ Stops /\ ~stop_server /\ "TERM" \notin pipe
  /\ Signal("TERM")
  /\ UNCHANGED <<backlog, open, clientVars, batch, pc, timeout, stop_server, timeVars, list, wild>>

Elapse ==
  /\ alarm' = IF alarm = 0 THEN 0 ELSE alarm - 1
  /\ IF alarm = 1 THEN Signal("ALRM") ELSE UNCHANGED <<pipe, ready>>
  /\ left' = [fd \in Fds |-> IF fd \in open /\ left[fd] > -MaxLate THEN left[fd] - 1
                                                                   ELSE left[fd]]
  /\ idle' = [fd \in Fds |-> IF fd \in open /\ idle[fd] < Timeout THEN idle[fd] + 1
                                                                  ELSE idle[fd]]
  /\ UNCHANGED <<backlog, open, clientVars, batch, pc, timeout, stop_server, list, wild>>

(* What the others do after a crash or the end is not modelled.            *)
Environment ==
  /\ Alive /\ pc # "end"
  /\ \/ Connect \/ Terminate \/ Elapse
     \/ \E fd \in Fds : Send(fd) \/ Hangup(fd)

-----------------------------------------------------------------------------
(* The loop.                                                               *)

(* epoll_wait() drops an edge whose descriptor is not readable any more.   *)
EpollWait ==
  /\ pc = "wait" /\ Alive
  /\ LET events == {s \in ready : s \notin Fds \/ input[s] > 0 \/ s \in gone}
     IN events # {} /\ batch' = events
  /\ ready' = {}
  /\ pc' = "scan"
  /\ UNCHANGED <<backlog, open, clientVars, loopVars, timeVars, list, wild>>

Handling(s) == pc = "scan" /\ Alive /\ s \in batch /\ batch' = batch \ {s}

TakenTwo == 2
Taken == 1

(* accept() once per event, although the listener is edge-triggered.       *)
Accept ==
  /\ Handling(ListenFd)
  /\ \E fd \in Fds \ open :
       /\ \A g \in Fds \ open : fd <= g
       /\ open' = open \cup {fd}
       /\ left' = [left EXCEPT ![fd] = Timeout]
       /\ idle' = [idle EXCEPT ![fd] = 0]
       /\ list' = AddTimer(Alloc(list, fd), left', fd)
  /\ backlog' = backlog - Taken
  /\ UNCHANGED <<clientVars, ready, pc, loopVars, alarm, wild>>

(* accept() fails: connfd is -1, and users[-1] is written (lines 137-144). *)
AcceptFail ==
  /\ Handling(ListenFd)
  /\ open = Fds
  /\ wild' = TRUE
  /\ UNCHANGED <<backlog, open, clientVars, ready, pc, loopVars, timeVars, list>>

ReadPipe ==
  /\ Handling(PipeFd)
  /\ timeout' = (timeout \/ "ALRM" \in pipe)
  /\ stop_server' = (stop_server \/ "TERM" \in pipe)
  /\ pipe' = {}
  /\ UNCHANGED <<backlog, open, clientVars, ready, pc, timeVars, list, wild>>

RestartKeepsExpire(fd) == left
RestartTooLong(fd) == [left EXCEPT ![fd] = Timeout + 1]
Restart(fd) == [left EXCEPT ![fd] = Timeout]

(* One recv() of up to 63 bytes may take several pieces; what it leaves    *)
(* behind raises no new edge.                                              *)
Read(fd) ==
  /\ Handling(fd) /\ input[fd] > 0
  /\ \E n \in 1..input[fd] : input' = [input EXCEPT ![fd] = @ - n]
  /\ left' = Restart(fd)
  /\ idle' = [idle EXCEPT ![fd] = 0]
  /\ list' = AdjustTimer(list, left', fd)
  /\ UNCHANGED <<backlog, open, gone, ready, pc, loopVars, alarm, wild>>

(* cb_func() on each: close() takes the descriptor out of epoll, too. What *)
(* the model keeps per descriptor is cleared.                              *)
Close(fds) ==
  /\ open' = open \ fds
  /\ gone' = gone \ fds
  /\ ready' = ready \ fds
  /\ input' = [fd \in Fds |-> IF fd \in fds THEN 0 ELSE input[fd]]
  /\ left' = [fd \in Fds |-> IF fd \in fds THEN 0 ELSE left[fd]]
  /\ idle' = [fd \in Fds |-> IF fd \in fds THEN 0 ELSE idle[fd]]

(* recv() returns 0 or an error: cb_func(), then del_timer().              *)
Leave(fd) ==
  /\ Handling(fd) /\ input[fd] = 0 /\ fd \in gone
  /\ Close({fd})
  /\ list' = DelTimer(list, fd)
  /\ UNCHANGED <<backlog, pc, loopVars, alarm, wild>>

NextAlarmUnset == alarm
NextAlarm == TimeSlot

(* timer_handler(): tick() and a new alarm.                                *)
AfterBatch ==
  /\ pc = "scan" /\ batch = {} /\ Alive
  /\ IF timeout
       THEN /\ Close(Expired(list, left, 0))
            /\ list' = Tick(list, left, 0)
            /\ alarm' = NextAlarm
       ELSE UNCHANGED <<open, clientVars, ready, list, timeVars>>
  /\ timeout' = FALSE
  /\ pc' = IF stop_server THEN "end" ELSE "wait"
  /\ UNCHANGED <<backlog, batch, pipe, stop_server, wild>>

Server ==
  \/ EpollWait \/ Accept \/ AcceptFail \/ ReadPipe \/ AfterBatch
  \/ \E fd \in Fds : Read(fd) \/ Leave(fd)

Next == Server \/ Environment

Spec == Init /\ [][Next]_vars

(* The server runs and time passes; nothing is assumed of the peers.       *)
FairSpec == Spec /\ WF_vars(Server) /\ WF_vars(Environment /\ Elapse)

-----------------------------------------------------------------------------
(* Properties.                                                             *)

(* Every open connection has exactly one timer in the list, every timer in *)
(* the list belongs to an open connection, and head, next and tail agree,  *)
(* through every mixture of add, adjust, delete and tick. Timers lost from *)
(* the chain would never close their connections; a timer that outlives    *)
(* its connection would close somebody else's.                             *)
ListMatchesClients == Alive => list.heap = open /\ Chained(list)

(* No operation of the list dereferences a deleted timer, although prev    *)
(* and tail are left pointing at deleted nodes (lines 115-117, 164).       *)
NoUseAfterFree == list.fault # "freed"

(* tick() closes a connection only when nothing was read from it for three *)
(* TIMESLOTs, wherever its timer is in the list.                           *)
OnlyIdleClosed ==
  [][\A fd \in open \ open' : fd \in gone \/ idle[fd] = Timeout]_vars

(* Each edge of the listener stands for at least one connection accept()   *)
(* has not returned: line 135 never finds the queue empty, which would     *)
(* make connfd -1.                                                         *)
AcceptNeverEmpty ==
  Cardinality({ListenFd} \cap batch) + Cardinality({ListenFd} \cap ready) <= backlog

(* While the server runs, the next tick is on its way: the alarm is set, or *)
(* its byte is in the pipe with an edge to come, or it was read in this     *)
(* batch (lines 42-48, 60-64, 147-179, 223-227). Were it ever lost, no      *)
(* timer would fire again.                                                 *)
TickOnItsWay ==
  Alive /\ pc # "end" =>
    \/ alarm > 0
    \/ "ALRM" \in pipe /\ PipeFd \in ready \cup batch
    \/ timeout

(* Lines 112-113 of 11-2_LIST_TIMER.h: with at least two timers, deleting  *)
(* the head makes the next node the head, and does nothing else.           *)
HeadCanBeDeleted == list.fault # "null"

(* Lines 138 and 148 of 11-2_LIST_TIMER.h: ticking handles the timers that *)
(* have expired. A connection from which nothing is read is closed.        *)
IdleIsClosed ==
  \A fd \in Fds : fd \in open ~> fd \notin open \/ idle[fd] < Timeout \/ stop_server \/ ~Alive
=============================================================================
