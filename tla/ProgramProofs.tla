----------------------------- MODULE ProgramProofs -----------------------------
(***************************************************************************)
(* The demonstration programs, for all values of the bounds. Each section  *)
(* is about one of them, with what its invariant says.                     *)
(***************************************************************************)
EXTENDS MCPrograms, ListProofs, SequenceTheorems

-----------------------------------------------------------------------------
(* ChatClient: what is typed is sent whole and in order, for any amount of *)
(* input and whatever the two splice() calls move: each of them takes a    *)
(* prefix of one sequence to the end of the next, so that the three        *)
(* together never change but when the user types.                          *)

ClientInv == ClientTypeOK /\ TypedInOrder

(* A splice() or recv() of n pieces divides a sequence.                    *)
LEMMA Divided ==
  ASSUME NEW S, NEW s \in Seq(S), NEW n \in 0..Len(s)
  PROVE  /\ SubSeq(s, 1, n) \in Seq(S)
         /\ SubSeq(s, n + 1, Len(s)) \in Seq(S)
         /\ SubSeq(s, 1, n) \o SubSeq(s, n + 1, Len(s)) = s
<1>1. Len(s) \in Nat /\ \A k \in 1..Len(s) : s[k] \in S
  BY LenProperties, ElementOfSeq
<1>2. SubSeq(s, 1, n) \in Seq(S)
  <2>1. \A k \in 1..n : s[k] \in S
    BY <1>1
  <2> QED
    BY <1>1, <2>1, SubSeqProperties
<1>3. SubSeq(s, n + 1, Len(s)) \in Seq(S)
  <2>1. \A k \in (n + 1)..Len(s) : s[k] \in S
    BY <1>1
  <2> QED
    BY <1>1, <2>1, SubSeqProperties
<1>4. SubSeq(s, 1, n) \o SubSeq(s, n + 1, Len(s)) = SubSeq(s, 1, Len(s))
  <2>1. 1 \in 1..Len(s) + 1 /\ n \in (1 - 1)..Len(s) /\ Len(s) \in n..Len(s)
    BY <1>1
  <2> QED
    BY <2>1, ConcatAdjacentSubSeq
<1> QED
  BY <1>2, <1>3, <1>4, SubSeqFull

LEMMA PiecesGrow ==
  ASSUME NEW n \in Nat
  PROVE  Append(Pieces(n), n + 1) = Pieces(n + 1)
<1> DEFINE s == Append(Pieces(n), n + 1)
           t == Pieces(n + 1)
<1>1. Pieces(n) \in Seq(Nat) /\ Len(Pieces(n)) = n /\ \A k \in 1..n : Pieces(n)[k] = k
  BY DEF Pieces
<1>2. t \in Seq(Nat) /\ Len(t) = n + 1 /\ \A k \in 1..(n + 1) : t[k] = k
  BY DEF Pieces
<1>3. s \in Seq(Nat) /\ Len(s) = n + 1 /\ \A k \in 1..n : s[k] = k /\ s[n + 1] = n + 1
  BY <1>1, AppendProperties
<1>4. s[n + 1] = n + 1
  BY <1>1, AppendProperties
<1>5. \A k \in 1..(n + 1) : s[k] = t[k]
  BY <1>2, <1>3, <1>4
<1> QED
  BY <1>2, <1>3, <1>5, SeqEqual

LEMMA ClientInitInv == ClientInit => ClientInv
<1> SUFFICES ASSUME ClientInit PROVE ClientInv
  OBVIOUS
<1>1. Pieces(0) = <<>> /\ <<>> \o <<>> \o <<>> = <<>>
  BY DEF Pieces
<1>2. TypedInOrder
  BY <1>1 DEF ClientInit, TypedInOrder
<1>3. ClientTypeOK
  <2>1. 0 \in 0..MaxTyped /\ 0 \in 0..MaxSaid
    BY ClientAssumption DEF ClientAssumption
  <2> QED
    BY <2>1, EmptySeq, Zenon DEF ClientInit, ClientTypeOK
<1> QED
  BY <1>2, <1>3 DEF ClientInv

LEMMA TypeInv ==
  ASSUME ClientInv, Type
  PROVE  ClientInv'
<1> DEFINE S == 1..MaxTyped
<1>1. typed \in Nat /\ typed + 1 \in S /\ typed' = typed + 1 /\ stdin' = Append(stdin, typed + 1)
      /\ UNCHANGED <<pipefd, net>>
  BY ClientAssumption DEF ClientInv, ClientTypeOK, Type, ClientAssumption
<1>2. stdin \in Seq(S) /\ pipefd \in Seq(S) /\ net \in Seq(S)
  BY DEF ClientInv, ClientTypeOK
<1>3. net \o pipefd \in Seq(S)
  BY <1>2, ConcatProperties
<1>4. (net \o pipefd) \o Append(stdin, typed + 1) = Append((net \o pipefd) \o stdin, typed + 1)
  <2> HIDE DEF S
  <2>1. <<typed + 1>> \in Seq(S)
    BY <1>1
  <2>2. Append(stdin, typed + 1) = stdin \o <<typed + 1>>
    BY <1>1, <1>2, AppendIsConcat
  <2>3. (net \o pipefd) \o stdin \in Seq(S)
    BY <1>2, <1>3, ConcatProperties
  <2>4. Append((net \o pipefd) \o stdin, typed + 1) = ((net \o pipefd) \o stdin) \o <<typed + 1>>
    BY <1>1, <2>3, AppendIsConcat
  <2> QED
    BY <1>2, <1>3, <2>1, <2>2, <2>4, ConcatAssociative
<1>5. TypedInOrder'
  BY <1>1, <1>4, PiecesGrow DEF ClientInv, TypedInOrder
<1>6. stdin' \in Seq(S)
  BY <1>1, <1>2, AppendProperties
<1>7. ClientTypeOK'
  BY <1>1, <1>2, <1>6, ClientAssumption DEF ClientInv, ClientTypeOK, Type, ClientAssumption
<1> QED
  BY <1>5, <1>7 DEF ClientInv

LEMMA SpliceInInv ==
  ASSUME ClientInv, SpliceIn
  PROVE  ClientInv'
<1> DEFINE S == 1..MaxTyped
<1>1. stdin \in Seq(S) /\ pipefd \in Seq(S) /\ net \in Seq(S) /\ UNCHANGED <<typed, net>>
  BY DEF ClientInv, ClientTypeOK, SpliceIn
<1>2. PICK first \in Seq(S), rest \in Seq(S) :
        first \o rest = stdin /\ pipefd' = pipefd \o first /\ stdin' = rest
  <2>1. PICK n \in (IF stdin = <<>> THEN {0} ELSE 1..Len(stdin)) :
          pipefd' = pipefd \o SubSeq(stdin, 1, n) /\ stdin' = SubSeq(stdin, n + 1, Len(stdin))
    BY DEF SpliceIn
  <2>2. n \in 0..Len(stdin)
    BY <1>1, <2>1, LenProperties
  <2> QED
    BY <1>1, <2>1, <2>2, Divided
<1>3. pipefd' \in Seq(S)
  BY <1>1, <1>2, ConcatProperties
<1> HIDE DEF S
<1>4. (net \o (pipefd \o first)) \o rest = (net \o pipefd) \o (first \o rest)
  <2>1. net \in Seq(S) /\ pipefd \in Seq(S) /\ first \in Seq(S) /\ rest \in Seq(S)
    BY <1>1, <1>2
  <2>2. (net \o pipefd) \o first = net \o (pipefd \o first)
    BY <2>1, ConcatAssociative, SMTT(30)
  <2>3. net \o pipefd \in Seq(S)
    BY <2>1, ConcatProperties
  <2>4. ((net \o pipefd) \o first) \o rest = (net \o pipefd) \o (first \o rest)
    BY <2>1, <2>3, ConcatAssociative, SMTT(30)
  <2> QED
    BY <2>2, <2>4
<1>5. TypedInOrder'
  BY <1>1, <1>2, <1>4 DEF ClientInv, TypedInOrder
<1>6. ClientTypeOK'
  BY <1>2, <1>3 DEF S, ClientInv, ClientTypeOK, SpliceIn
<1> QED
  BY <1>5, <1>6 DEF ClientInv

LEMMA SpliceOutInv ==
  ASSUME ClientInv, SpliceOut
  PROVE  ClientInv'
<1> DEFINE S == 1..MaxTyped
<1>1. stdin \in Seq(S) /\ pipefd \in Seq(S) /\ net \in Seq(S) /\ UNCHANGED <<typed, stdin>>
  BY DEF ClientInv, ClientTypeOK, SpliceOut
<1>2. PICK first \in Seq(S), rest \in Seq(S) :
        first \o rest = pipefd /\ net' = net \o first /\ pipefd' = rest
  <2>1. PICK n \in 1..Len(pipefd) :
          net' = net \o SubSeq(pipefd, 1, n) /\ pipefd' = SubSeq(pipefd, n + 1, Len(pipefd))
    BY DEF SpliceOut, PipeRest
  <2>2. n \in 0..Len(pipefd)
    BY <1>1, <2>1, LenProperties
  <2> QED
    BY <1>1, <2>1, <2>2, Divided
<1>3. net' \in Seq(S)
  BY <1>1, <1>2, ConcatProperties
<1> HIDE DEF S
<1>4. (net \o first) \o rest = net \o (first \o rest)
  <2>1. net \in Seq(S) /\ first \in Seq(S) /\ rest \in Seq(S)
    BY <1>1, <1>2
  <2> QED
    BY <2>1, ConcatAssociative, SMTT(30)
<1>5. TypedInOrder'
  BY <1>1, <1>2, <1>4 DEF ClientInv, TypedInOrder
<1>6. ClientTypeOK'
  BY <1>2, <1>3 DEF S, ClientInv, ClientTypeOK, SpliceOut
<1> QED
  BY <1>5, <1>6 DEF ClientInv

LEMMA ReadServerInv ==
  ASSUME ClientInv, ReadServer
  PROVE  ClientInv'
<1> DEFINE S == 1..MaxSaid
<1>1. incoming \in Seq(S) /\ printed \in Seq(S)
  BY DEF ClientInv, ClientTypeOK
<1>2. PICK n \in (IF incoming = <<>> THEN {0} ELSE 1..Len(incoming)) :
        /\ printed' = printed \o SubSeq(incoming, 1, n)
        /\ incoming' = SubSeq(incoming, n + 1, Len(incoming))
  BY DEF ReadServer
<1>3. n \in 0..Len(incoming)
  BY <1>1, <1>2, LenProperties
<1>4. SubSeq(incoming, 1, n) \in Seq(S) /\ SubSeq(incoming, n + 1, Len(incoming)) \in Seq(S)
  BY <1>1, <1>3, Divided
<1>5. printed' \in Seq(S) /\ incoming' \in Seq(S)
  BY <1>1, <1>2, <1>4, ConcatProperties
<1> QED
  BY <1>5 DEF ClientInv, ClientTypeOK, TypedInOrder, ReadServer

LEMMA SayInv ==
  ASSUME ClientInv, Say
  PROVE  ClientInv'
<1>1. said + 1 \in 1..MaxSaid /\ said' = said + 1 /\ incoming' = Append(incoming, said + 1)
  BY ClientAssumption DEF ClientInv, ClientTypeOK, Say, ClientAssumption
<1>2. incoming' \in Seq(1..MaxSaid)
  BY <1>1, AppendProperties DEF ClientInv, ClientTypeOK
<1> QED
  BY <1>1, <1>2, ClientAssumption, SMTT(30) DEF ClientInv, ClientTypeOK, TypedInOrder, Say, ClientAssumption

LEMMA ClientNextInv == ClientInv /\ [ClientNext]_clientVars => ClientInv'
<1> SUFFICES ASSUME ClientInv, [ClientNext]_clientVars PROVE ClientInv'
  OBVIOUS
<1>1. CASE Type \/ Say
  BY <1>1, TypeInv, SayInv
<1>2. CASE SpliceIn \/ SpliceOut \/ ReadServer
  BY <1>2, SpliceInInv, SpliceOutInv, ReadServerInv
<1> USE DEF ClientInv, ClientTypeOK, TypedInOrder
<1>3. CASE EndInput
  BY <1>3 DEF EndInput
<1>4. CASE Shut
  BY <1>4 DEF Shut
<1>5. CASE ClientPoll
  BY <1>5 DEF ClientPoll, Reported
<1>6. CASE ServerClosed \/ NothingFromServer \/ NoInput \/ Killed
  BY <1>6 DEF ServerClosed, NothingFromServer, NoInput, Killed
<1>7. CASE UNCHANGED clientVars
  BY <1>7 DEF clientVars
<1> QED
  BY <1>1, <1>2, <1>3, <1>4, <1>5, <1>6, <1>7 DEF ClientNext, User, Server, Client

(* The invariant: the three sequences together are what was typed.         *)
THEOREM ClientInductive == ClientSpec => []ClientInv
BY ClientInitInv, ClientNextInv, PTL DEF ClientSpec

(* What is typed is on its way in the order in which it was typed, however *)
(* little each splice() moves (lines 80-81).                               *)
THEOREM TypedInOrderCorrect == ClientSpec => []TypedInOrder
<1>1. ClientInv => TypedInOrder
  BY DEF ClientInv
<1> QED
  BY <1>1, ClientInductive, PTL

-----------------------------------------------------------------------------
(* Signals: only SIGTERM and SIGINT end the server, for every size of the  *)
(* socket pair. An event that is reported and not yet handled still has    *)
(* what it stands for, because nobody but the main loop takes it away; and *)
(* errno is still epoll_wait()'s when it is tested, because the handler    *)
(* restores it.                                                            *)

ReportedIsThere ==
  /\ "pipe" \in reported => sigpipe # <<>>
  /\ "listen" \in reported => backlog > 0
ErrnoIsOfWait == loop = "check" => errno = "EINTR"

SignalsInv == SignalsTypeOK /\ ReportedIsThere /\ ErrnoIsOfWait /\ OnlyStopEnds

LEMMA SignalsInitInv == SignalsInit => SignalsInv
<1> SUFFICES ASSUME SignalsInit PROVE SignalsInv
  OBVIOUS
<1>1. <<>> \in Seq(Signal) /\ Len(<<>>) <= PipeSize
  <2>1. PipeSize \in Nat
    BY SignalsAssumption DEF SignalsAssumption
  <2>2. <<>> \in Seq(Signal) /\ Len(<<>>) = 0
    BY EmptySeq
  <2> QED
    BY <2>1, <2>2
<1>2. SignalsTypeOK
  <2>1. sigpipe \in Seq(Signal) /\ Len(sigpipe) <= PipeSize
    BY <1>1, Zenon DEF SignalsInit
  <2>2. backlog \in 0..Backlog
    BY SignalsAssumption DEF SignalsInit, SignalsAssumption
  <2> QED
    BY <2>1, <2>2 DEF SignalsInit, SignalsTypeOK
<1>3. ReportedIsThere /\ ErrnoIsOfWait /\ OnlyStopEnds
  BY DEF SignalsInit, ReportedIsThere, ErrnoIsOfWait, OnlyStopEnds
<1> QED
  BY <1>2, <1>3 DEF SignalsInv

(* The handler never empties the socket pair, and never overfills it.      *)
LEMMA HandlerKeeps ==
  ASSUME SignalsInv, NEW s \in Signal, Handler(s)
  PROVE  /\ sigpipe' \in Seq(Signal) /\ Len(sigpipe') <= PipeSize
         /\ sigpipe # <<>> => sigpipe' # <<>>
         /\ edges' \subseteq Sources
<1>1. edges' \subseteq Sources
  BY DEF SignalsInv, SignalsTypeOK, Handler, Sources
<1>2. CASE Full
  BY <1>1, <1>2 DEF SignalsInv, SignalsTypeOK, Handler
<1>3. CASE ~Full
  <2>1. sigpipe' = Append(sigpipe, s) /\ sigpipe \in Seq(Signal) /\ Len(sigpipe) <= PipeSize
        /\ Len(sigpipe) # PipeSize
    BY <1>3 DEF SignalsInv, SignalsTypeOK, Handler, Full
  <2>2. sigpipe' \in Seq(Signal) /\ Len(sigpipe') = Len(sigpipe) + 1 /\ sigpipe' # <<>>
    BY <2>1, AppendProperties
  <2>3. Len(sigpipe) \in Nat /\ PipeSize \in Nat
    BY <2>1, LenProperties, SignalsAssumption DEF SignalsAssumption
  <2> QED
    BY <1>1, <2>1, <2>2, <2>3
<1> QED
  BY <1>2, <1>3

LEMMA SignalInv ==
  ASSUME SignalsInv, SignalComes
  PROVE  SignalsInv'
<1>1. PICK s \in Signal : SignalBetween(s) \/ SignalInWait(s)
  BY DEF SignalComes
<1>2. Handler(s) /\ UNCHANGED <<backlog, reported, stop_server>>
  BY <1>1 DEF SignalBetween, SignalInWait
<1>3. /\ sigpipe' \in Seq(Signal) /\ Len(sigpipe') <= PipeSize
      /\ sigpipe # <<>> => sigpipe' # <<>>
      /\ edges' \subseteq Sources
  BY <1>2, HandlerKeeps
<1>4. CASE SignalBetween(s)
  BY <1>2, <1>3, <1>4 DEF SignalBetween, ErrnoRestored, SignalsInv, SignalsTypeOK, ReportedIsThere,
       ErrnoIsOfWait, OnlyStopEnds
<1>5. CASE SignalInWait(s)
  BY <1>2, <1>3, <1>5 DEF SignalInWait, SignalsInv, SignalsTypeOK, ReportedIsThere,
       ErrnoIsOfWait, OnlyStopEnds
<1> QED
  BY <1>1, <1>4, <1>5

(* One recv() empties the socket pair.                                     *)
LEMMA ReadInv ==
  ASSUME SignalsInv, ReadSignals
  PROVE  SignalsInv'
<1>1. Len(sigpipe) \in Nat /\ Len(sigpipe) <= RecvSize /\ RecvSize \in Nat
  BY LenProperties, SignalsAssumption DEF SignalsAssumption, SignalsInv, SignalsTypeOK
<1>2. Taken = Len(sigpipe)
  BY <1>1 DEF Taken
<1>3. sigpipe' = <<>>
  BY <1>1, <1>2, SubSeqEmpty DEF ReadSignals
<1>4. sigpipe' \in Seq(Signal) /\ Len(sigpipe') <= PipeSize
  BY <1>3, SignalsAssumption DEF SignalsAssumption
<1>5. reported' = reported \ {"pipe"} /\ stop_server' \in BOOLEAN /\ (stop_server => stop_server')
      /\ UNCHANGED <<backlog, edges, loop, errno>>
  BY DEF ReadSignals, Takes, SignalsInv, SignalsTypeOK
<1> QED
  BY <1>4, <1>5 DEF SignalsInv, SignalsTypeOK, ReportedIsThere, ErrnoIsOfWait, OnlyStopEnds

LEMMA SignalsNextInv == SignalsInv /\ [SignalsNext]_signalVars => SignalsInv'
<1> SUFFICES ASSUME SignalsInv, [SignalsNext]_signalVars PROVE SignalsInv'
  OBVIOUS
<1> USE SignalsAssumption DEF SignalsAssumption, SignalsInv, SignalsTypeOK, ReportedIsThere,
      ErrnoIsOfWait, OnlyStopEnds, Sources
<1>1. CASE SignalComes
  BY <1>1, SignalInv
<1>2. CASE Connects
  BY <1>2 DEF Connects
<1>3. CASE Talks
  BY <1>3 DEF Talks
<1>4. CASE Wait
  BY <1>4 DEF Wait, Due, Live
<1>5. CASE CheckErrno
  BY <1>5 DEF CheckErrno
<1>6. CASE AcceptConn
  BY <1>6 DEF AcceptConn, Takes
<1>7. CASE ReadSignals
  BY <1>7, ReadInv
<1>8. CASE IgnoreConn
  BY <1>8 DEF IgnoreConn, Takes
<1>9. CASE EventsDone
  BY <1>9 DEF EventsDone
<1>10. CASE UNCHANGED signalVars
  BY <1>10 DEF signalVars
<1> QED
  BY <1>1, <1>2, <1>3, <1>4, <1>5, <1>6, <1>7, <1>8, <1>9, <1>10 DEF SignalsNext, SignalsMain

(* The invariant: what epoll_wait() reported is there, and errno is its.   *)
THEOREM SignalsInductive == SignalsSpec => []SignalsInv
BY SignalsInitInv, SignalsNextInv, PTL DEF SignalsSpec

(* Whatever signals come between which calls, the server ends by a         *)
(* stopping signal only, never because errno was overwritten (lines 39-43, *)
(* 105-109).                                                               *)
THEOREM OnlyStopEndsCorrect == SignalsSpec => []OnlyStopEnds
<1>1. SignalsInv => OnlyStopEnds
  BY DEF SignalsInv
<1> QED
  BY <1>1, SignalsInductive, PTL

(* The recv() of line 125 and the accept() of line 118 find what epoll has *)
(* reported, so that neither the edge nor the call is wasted.              *)
THEOREM ReportedCorrect == SignalsSpec => []ReportedIsThere
<1>1. SignalsInv => ReportedIsThere
  BY DEF SignalsInv
<1> QED
  BY <1>1, SignalsInductive, PTL

-----------------------------------------------------------------------------
(* Semaphore: it is a lock (the safety part of TakesTurns). What SEM_UNDO  *)
(* will give back is what the process has taken, and the value and all     *)
(* that is taken make one: a process that goes through P therefore finds   *)
(* the other outside.                                                      *)

UndoIsTaken == \A p \in Process : semadj[p] = IF pc[p] = "holds" THEN 1 ELSE 0
Conserved   == semval = 1 - semadj["parent"] - semadj["child"]
ChildLater  == pc["parent"] = "fork" => pc["child"] = "none"

SemInv == SemTypeOK /\ UndoIsTaken /\ Conserved /\ ChildLater

USE DEF Process

LEMMA SemInitInv == SemInit => SemInv
BY DEF SemInit, SemInv, SemTypeOK, UndoIsTaken, Conserved, ChildLater, Places

LEMMA EndInv ==
  ASSUME SemInv, NEW p \in Process, pc[p] # "none", ProcessEnds(p), exists' \in BOOLEAN
  PROVE  SemInv'
<1>1. /\ semadj' = [semadj EXCEPT ![p] = 0] /\ pc' = [pc EXCEPT ![p] = "gone"]
      /\ semval' = semval + semadj[p]
  BY DEF ProcessEnds
<1>2. \A q \in Process : semadj[q] \in {0, 1} /\ semadj'[q] \in {0, 1}
  BY <1>1 DEF SemInv, SemTypeOK, UndoIsTaken
<1>3. UndoIsTaken'
  BY <1>1 DEF SemInv, SemTypeOK, UndoIsTaken
<1>4. Conserved'
  BY <1>1, <1>2 DEF SemInv, SemTypeOK, Conserved
<1>5. ~(semadj'["parent"] = 1 /\ semadj'["child"] = 1)
  BY <1>1 DEF SemInv, SemTypeOK
<1>6. semval' \in 0..1
  <2>1. semadj'["parent"] \in {0, 1} /\ semadj'["child"] \in {0, 1}
    BY <1>2
  <2>2. semval' = 1 - semadj'["parent"] - semadj'["child"]
    BY <1>4 DEF Conserved
  <2>3. \A a, b \in {0, 1} : ~(a = 1 /\ b = 1) => 1 - a - b \in 0..1
    OBVIOUS
  <2> QED
    BY <2>1, <2>2, <2>3, <1>5
<1>7. SemTypeOK'
  <2>1. semadj' \in [Process -> Int]
    BY <1>1 DEF SemInv, SemTypeOK
  <2>2. pc' \in [Process -> Places]
    BY <1>1 DEF SemInv, SemTypeOK, Places
  <2> QED
    BY <1>6, <2>1, <2>2 DEF SemTypeOK
<1>8. ChildLater'
  BY <1>1 DEF SemInv, SemTypeOK, ChildLater
<1> QED
  BY <1>3, <1>4, <1>7, <1>8 DEF SemInv

LEMMA SemNextInv == SemInv /\ [SemNext]_semVars => SemInv'
<1> SUFFICES ASSUME SemInv, [SemNext]_semVars PROVE SemInv'
  OBVIOUS
<1>1. CASE Fork
  BY <1>1 DEF SemInv, SemTypeOK, UndoIsTaken, Conserved, ChildLater, Fork, Places
<1>2. CASE ForkFails
  BY <1>2, EndInv DEF ForkFails, SemInv, SemTypeOK
<1>3. CASE ChildExits
  BY <1>3, EndInv DEF ChildExits, SemInv, SemTypeOK
<1>4. CASE WaitPid
  BY <1>4 DEF SemInv, SemTypeOK, UndoIsTaken, Conserved, ChildLater, WaitPid, Places
<1>5. CASE RemoveSemaphore
  BY <1>5, EndInv DEF RemoveSemaphore
<1>6. ASSUME NEW p \in Process, Try(p) PROVE SemInv'
  BY <1>6 DEF SemInv, SemTypeOK, UndoIsTaken, Conserved, ChildLater, Try, Places
<1>7. ASSUME NEW p \in Process, Take(p) PROVE SemInv'
  BY <1>7 DEF SemInv, SemTypeOK, UndoIsTaken, Conserved, ChildLater, Take, Pv, Undo, Places
<1>8. ASSUME NEW p \in Process, Give(p) PROVE SemInv'
  BY <1>8 DEF SemInv, SemTypeOK, UndoIsTaken, Conserved, ChildLater, Give, Pv, Undo, Places
<1>9. ASSUME NEW p \in Process, Kill(p) PROVE SemInv'
  BY <1>9, EndInv DEF Kill, SemInv, SemTypeOK
<1>10. CASE UNCHANGED semVars
  BY <1>10 DEF SemInv, SemTypeOK, UndoIsTaken, Conserved, ChildLater, semVars
<1> QED
  BY <1>1, <1>2, <1>3, <1>4, <1>5, <1>6, <1>7, <1>8, <1>9, <1>10 DEF SemNext, SemProgram

(* What the kernel would give back for the two processes and what is left  *)
(* make one, through every P, V and kill (lines 19-28).                    *)
THEOREM SemInductive == SemSpec => []SemInv
BY SemInitInv, SemNextInv, PTL DEF SemSpec

-----------------------------------------------------------------------------
(* The lock's steps.                                                       *)

LEMMA SemStepIsLockStep ==
  SemInv /\ SemInv' /\ [SemNext]_semVars => [BinarySemaphore!Next]_(BinarySemaphore!lockVars)
<1> SUFFICES ASSUME SemInv, SemInv', [SemNext]_semVars
             PROVE  BinarySemaphore!Next \/ UNCHANGED BinarySemaphore!lockVars
  OBVIOUS
<1> USE DEF StandingAt, BinarySemaphore!lockVars
<1>1. ASSUME NEW p \in Process, ProcessEnds(p), pc[p] # "gone"
      PROVE  BinarySemaphore!Next \/ UNCHANGED BinarySemaphore!lockVars
  <2>1. CASE pc[p] = "P"
    <3>1. BinarySemaphore!GiveUp(p)
      BY <1>1, <2>1 DEF SemInv, SemTypeOK, ProcessEnds, BinarySemaphore!GiveUp
    <3> QED
      BY <3>1 DEF BinarySemaphore!Next
  <2>2. CASE pc[p] = "holds"
    <3>1. BinarySemaphore!Release(p)
      BY <1>1, <2>2 DEF SemInv, SemTypeOK, ProcessEnds, BinarySemaphore!Release
    <3> QED
      BY <3>1 DEF BinarySemaphore!Next
  <2>3. CASE pc[p] \notin {"P", "holds"}
    BY <1>1, <2>3 DEF SemInv, SemTypeOK, ProcessEnds
  <2> QED
    BY <2>1, <2>2, <2>3
<1>2. CASE Fork
  BY <1>2 DEF SemInv, SemTypeOK, ChildLater, Fork
<1>3. CASE ForkFails \/ ChildExits \/ RemoveSemaphore
  BY <1>1, <1>3 DEF ForkFails, ChildExits, RemoveSemaphore
<1>4. CASE WaitPid
  BY <1>4 DEF SemInv, SemTypeOK, WaitPid
<1>5. ASSUME NEW p \in Process, Try(p)
      PROVE  BinarySemaphore!Next
  <2>1. BinarySemaphore!Ask(p)
    BY <1>5 DEF SemInv, SemTypeOK, Try, BinarySemaphore!Ask
  <2> QED
    BY <2>1 DEF BinarySemaphore!Next
<1>6. ASSUME NEW p \in Process, Take(p)
      PROVE  BinarySemaphore!Next
  <2>1. \A q \in Process : pc[q] # "holds"
    BY <1>6 DEF SemInv, SemTypeOK, UndoIsTaken, Conserved, Take, Pv
  <2>2. BinarySemaphore!Acquire(p)
    BY <1>6, <2>1 DEF SemInv, SemTypeOK, Take, BinarySemaphore!Acquire
  <2> QED
    BY <2>2 DEF BinarySemaphore!Next
<1>7. ASSUME NEW p \in Process, Give(p)
      PROVE  BinarySemaphore!Next
  <2>1. BinarySemaphore!Release(p)
    BY <1>7 DEF SemInv, SemTypeOK, Give, BinarySemaphore!Release
  <2> QED
    BY <2>1 DEF BinarySemaphore!Next
<1>8. ASSUME NEW p \in Process, Kill(p)
      PROVE  BinarySemaphore!Next \/ UNCHANGED BinarySemaphore!lockVars
  BY <1>1, <1>8 DEF Kill
<1>9. CASE UNCHANGED semVars
  BY <1>9 DEF semVars
<1> QED
  BY <1>2, <1>3, <1>4, <1>5, <1>6, <1>7, <1>8, <1>9 DEF SemNext, SemProgram

(* The semaphore implements the lock, kills at any moment included.        *)
THEOREM SemaphoreIsALock == SemSpec => BinarySemaphore!Spec
<1>1. SemInit => BinarySemaphore!Init
  BY DEF SemInit, BinarySemaphore!Init, StandingAt
<1> QED
  BY <1>1, SemInductive, SemStepIsLockStep, PTL DEF SemSpec, BinarySemaphore!Spec

-----------------------------------------------------------------------------
(* TimerTest: the list is in ascending order of the times entered. Each    *)
(* new timer comes behind those that are not later and before one that is, *)
(* so that the order of two neighbours is all that has to be known.        *)

Sorted(n, s, e) == \A k \in 1..n - 1 : e[s[k]] <= e[s[k + 1]]

TestInv ==
  /\ expire \in [Timers -> Timeouts \cup {0}] /\ Intact(stl)
  /\ \E n, s : Listed(stl, n, s) /\ Backed(stl, n, s) /\ Sorted(n, s, expire)

LEMMA TestConstants == Memory /\ Timeouts \subseteq Int
BY TestAssumption DEF TestAssumption, Memory

LEMMA TestInitInv == TestInit => TestInv
<1> SUFFICES ASSUME TestInit PROVE TestInv
  OBVIOUS
<1> DEFINE w == [k \in 1..0 |-> Null]
<1>1. Intact(stl) /\ expire \in [Timers -> Timeouts \cup {0}]
  BY DEF TestInit, EmptyList, Intact, ListType
<1>2. Listed(stl, 0, w) /\ Backed(stl, 0, w) /\ Sorted(0, w, expire)
  BY DEF TestInit, EmptyList, Listed, Chain, Members, Backed, Sorted
<1> QED
  BY <1>1, <1>2 DEF TestInv

(* One timer more, where add_timer puts it.                                *)
LEMMA SortedInserted ==
  ASSUME NEW n \in Nat, NEW s \in [1..n -> Timers],
         \A j, k \in 1..n : s[j] = s[k] => j = k,
         NEW q \in 0..n, NEW t \in Timers \ Members(n, s),
         NEW w, w = Inserted(n, s, q, t),
         NEW e \in [Timers -> Int], Sorted(n, s, e),
         \A k \in 1..q : ~StopsAt(e, t, s[k]), q < n => StopsAt(e, t, s[q + 1])
  PROVE  Sorted(n + 1, w, e)
<1>1. /\ \A k \in 1..q : w[k] = s[k]
      /\ w[q + 1] = t
      /\ \A k \in q + 1..n : w[k + 1] = s[k]
  <2>1. /\ \A k \in 1..q : k \in 1..n + 1 /\ k <= q
        /\ q + 1 \in 1..n + 1 /\ ~(q + 1 <= q)
        /\ \A k \in q + 1..n : k + 1 \in 1..n + 1 /\ ~(k + 1 <= q) /\ k + 1 # q + 1 /\ (k + 1) - 1 = k
    BY SMT
  <2> QED
    BY <2>1 DEF Inserted
<1> SUFFICES ASSUME NEW k \in 1..n PROVE e[w[k]] <= e[w[k + 1]]
  BY DEF Sorted
<1>2. CASE k < q
  <2>1. k \in 1..q /\ k + 1 \in 1..q /\ k \in 1..n - 1
    BY <1>2
  <2> QED
    BY <1>1, <2>1 DEF Sorted
<1>3. CASE k = q
  <2>1. k \in 1..q /\ e[s[k]] \in Int /\ e[t] \in Int
    BY <1>3
  <2> QED
    BY <1>1, <1>3, <2>1 DEF StopsAt
<1>4. CASE k = q + 1
  <2>1. k \in q + 1..n /\ q < n /\ e[s[k]] \in Int /\ e[t] \in Int
    BY <1>4
  <2> QED
    BY <1>1, <1>4, <2>1 DEF StopsAt
<1>5. CASE k > q + 1
  <2>1. k - 1 \in q + 1..n /\ k \in q + 1..n /\ (k - 1) + 1 = k /\ k - 1 \in 1..n - 1
    BY <1>5
  <2>2. w[k] = s[k - 1] /\ w[k + 1] = s[k] /\ e[s[k - 1]] <= e[s[(k - 1) + 1]]
    BY <1>1, <2>1 DEF Sorted
  <2> QED
    BY <2>1, <2>2
<1> QED
  BY <1>2, <1>3, <1>4, <1>5

(* What Enter does to the list.                                            *)
LEMMA Entered ==
  ASSUME TestInv, Enter
  PROVE  \E n \in Nat, q \in Nat, t \in Timers : \E s :
           /\ Listed(stl, n, s) /\ t \notin stl.heap /\ stl'.heap = stl.heap \cup {t}
           /\ q \in 0..n /\ Intact(stl')
           /\ Listed(stl', n + 1, Inserted(n, s, q, t))
           /\ Backed(stl', n + 1, Inserted(n, s, q, t))
           /\ expire' \in [Timers -> Timeouts \cup {0}]
           /\ Sorted(n + 1, Inserted(n, s, q, t), expire')
           /\ q < n => StopsAt(expire', t, s[q + 1])
<1>1. PICK n, s : Listed(stl, n, s) /\ Backed(stl, n, s) /\ Sorted(n, s, expire)
  BY DEF TestInv
<1>2. PICK t \in Timers \ stl.heap, e \in Timeouts :
        expire' = [expire EXCEPT ![t] = e] /\ stl' = AddTimer(Alloc(stl, t), expire', t)
  BY DEF Enter
<1>3. /\ Intact(stl') /\ stl'.heap = stl.heap \cup {t}
      /\ \E q \in 0..n :
           /\ Listed(stl', n + 1, Inserted(n, s, q, t))
           /\ Backed(stl, n, s) => Backed(stl', n + 1, Inserted(n, s, q, t))
           /\ \A i \in 1..q : ~StopsAt(expire', t, s[i])
           /\ q < n => StopsAt(expire', t, s[q + 1])
  BY <1>1, <1>2, TestConstants, AddLists DEF TestInv
<1>4. PICK q \in 0..n :
        /\ Listed(stl', n + 1, Inserted(n, s, q, t))
        /\ Backed(stl', n + 1, Inserted(n, s, q, t))
        /\ \A i \in 1..q : ~StopsAt(expire', t, s[i])
        /\ q < n => StopsAt(expire', t, s[q + 1])
  BY <1>1, <1>3
<1>5. /\ n \in Nat /\ s \in [1..n -> Timers] /\ t \in Timers \ Members(n, s)
      /\ \A j, k \in 1..n : s[j] = s[k] => j = k
  BY <1>1 DEF Listed, Chain
<1>6. expire' \in [Timers -> Timeouts \cup {0}]
  BY <1>2 DEF TestInv
<1>7. expire' \in [Timers -> Int]
  <2>1. Timeouts \cup {0} \subseteq Int
    BY TestConstants, SMT
  <2> QED
    BY <1>6, <2>1
<1>8. Sorted(n, s, expire')
  <2>1. \A k \in 1..n : s[k] # t /\ s[k] \in Timers
    BY <1>5 DEF Members
  <2>2. \A k \in 1..n - 1 : k \in 1..n /\ k + 1 \in 1..n
    BY <1>5
  <2>3. \A k \in 1..n : expire'[s[k]] = expire[s[k]]
    BY <1>2, <2>1 DEF TestInv
  <2> QED
    BY <1>1, <2>2, <2>3 DEF Sorted
<1>9. Sorted(n + 1, Inserted(n, s, q, t), expire')
  BY <1>4, <1>5, <1>7, <1>8, SortedInserted
<1>10. q \in Nat
  BY <1>5
<1> QED
  BY <1>1, <1>3, <1>4, <1>5, <1>6, <1>9, <1>10

LEMMA TestNextInv == TestInv /\ [Enter]_<<stl, expire>> => TestInv'
<1>1. TestInv /\ Enter => TestInv'
  BY Entered DEF TestInv
<1>2. TestInv /\ UNCHANGED <<stl, expire>> => TestInv'
  BY DEF TestInv
<1> QED
  BY <1>1, <1>2

(* The invariant: the nodes in order, forwards and backwards.              *)
THEOREM TestInductive == TestSpec => []TestInv
BY TestInitInv, TestNextInv, PTL DEF TestSpec

(* Whatever times are entered, for however many timers, the program prints *)
(* every timer once and in ascending order, and the pointers back agree.   *)
THEOREM PrintsCorrect == TestSpec => []PrintsAscending
<1>1. TestInv => PrintsAscending
  <2> SUFFICES ASSUME TestInv PROVE PrintsAscending
    OBVIOUS
  <2>1. PICK n, s : Listed(stl, n, s) /\ Backed(stl, n, s) /\ Sorted(n, s, expire)
    BY DEF TestInv
  <2>2. Chained(stl) /\ Nodes(stl) = stl.heap
    BY <2>1, TestConstants, ListedChained
  <2>3. Ascending(stl, expire)
    BY <2>1, TestConstants, ListedAscending DEF Sorted
  <2>4. \A t \in stl.heap : stl.next[t] # Null => stl.prev[stl.next[t]] = t
    <3> SUFFICES ASSUME NEW t \in stl.heap, stl.next[t] # Null
                 PROVE  stl.prev[stl.next[t]] = t
      OBVIOUS
    <3>1. PICK k \in 1..n : t = s[k]
      BY <2>1 DEF Listed, Members
    <3>2. n \in Nat /\ stl.next[s[k]] = IF k = n THEN Null ELSE s[k + 1]
      BY <2>1 DEF Listed, Chain
    <3>3. k + 1 \in 2..n /\ (k + 1) - 1 = k /\ stl.next[t] = s[k + 1]
      BY <3>1, <3>2
    <3>4. stl.prev[s[k + 1]] = s[(k + 1) - 1]
      BY <2>1, <3>3 DEF Backed
    <3> QED
      BY <3>1, <3>3, <3>4
  <2> QED
    BY <2>2, <2>3, <2>4 DEF TestInv, Intact, PrintsAscending
<1> QED
  BY <1>1, TestInductive, PTL

(* A timer is put in front of a later one only, hence behind all with the  *)
(* same time.                                                              *)
THEOREM OrderKept == TestSpec => EqualsKeepOrder
<1>1. ASSUME TestInv, Enter, NEW t \in stl'.heap \ stl.heap, stl'.next[t] # Null
      PROVE  expire'[t] < expire'[stl'.next[t]]
  <2>1. PICK n \in Nat, q \in Nat, u \in Timers : \E s :
           /\ Listed(stl, n, s) /\ u \notin stl.heap /\ stl'.heap = stl.heap \cup {u}
           /\ q \in 0..n /\ Intact(stl')
           /\ Listed(stl', n + 1, Inserted(n, s, q, u))
           /\ q < n => StopsAt(expire', u, s[q + 1])
    BY <1>1, Entered
  <2>2. PICK s :
           /\ Listed(stl, n, s) /\ u \notin stl.heap /\ stl'.heap = stl.heap \cup {u}
           /\ q \in 0..n
           /\ Listed(stl', n + 1, Inserted(n, s, q, u))
           /\ q < n => StopsAt(expire', u, s[q + 1])
    BY <2>1
  <2> DEFINE w == Inserted(n, s, q, u)
  <2>3. t = u
    BY <1>1, <2>2
  <2>4. /\ w[q + 1] = u
        /\ \A k \in q + 1..n : w[k + 1] = s[k]
    <3>1. /\ s \in [1..n -> Timers] /\ u \in Timers \ Members(n, s)
          /\ \A j, k \in 1..n : s[j] = s[k] => j = k
      BY <2>2 DEF Listed, Chain
    <3> HIDE DEF w
    <3> QED
      BY <2>2, <3>1, InsertedIs DEF w
  <2>5. stl'.next[w[q + 1]] = IF q + 1 = n + 1 THEN Null ELSE w[(q + 1) + 1]
    <3>1. q + 1 \in 1..n + 1
      BY <2>2
    <3> HIDE DEF w
    <3> QED
      BY <2>2, <3>1 DEF w, Listed, Chain
  <2> HIDE DEF w
  <2>6. q < n /\ q + 1 \in q + 1..n
    BY <1>1, <2>2, <2>3, <2>4, <2>5
  <2>7. stl'.next[t] = s[q + 1]
    BY <2>2, <2>3, <2>4, <2>5, <2>6
  <2> QED
    BY <2>2, <2>3, <2>6, <2>7 DEF StopsAt
<1>2. TestInv /\ [Enter]_<<stl, expire>> =>
        [\A t \in stl'.heap \ stl.heap :
           stl'.next[t] # Null => expire'[t] < expire'[stl'.next[t]]]_<<stl, expire>>
  BY <1>1
<1> QED
  BY TestInductive, <1>2, PTL DEF TestSpec, EqualsKeepOrder

-----------------------------------------------------------------------------
(* TimeWheel: every slot holds a list that ends, and every timer on it     *)
(* fires on schedule, for any number of slots, timers and timeouts. A new  *)
(* timer is put in front, so that next goes down an order in which the     *)
(* timers were put there; tick() has passed those above its cursor, and    *)
(* only those have been counted down in this turn.                         *)

(* The timers on the wheel are the members of L, each in its slot.         *)
Together(t, u) == time_slot[t] = time_slot[u]

Ranked(L, rank) ==
  /\ L \subseteq heap /\ rank \in [TwTimers -> Nat]
  /\ \A t, u \in L : Together(t, u) /\ rank[t] = rank[u] => t = u

NextIsBelow(L, rank) ==
  \A t \in L :
    \/ next[t] = NoTimer /\ \A u \in L : Together(t, u) => rank[t] <= rank[u]
    \/ /\ next[t] \in L /\ Together(t, next[t]) /\ rank[next[t]] < rank[t]
       /\ \A u \in L : Together(t, u) /\ rank[u] < rank[t] => rank[u] <= rank[next[t]]

PrevIsAbove(L) ==
  \A t \in L :
    /\ next[t] # NoTimer => prev[next[t]] = t
    /\ prev[t] # NoTimer => prev[t] \in L /\ next[prev[t]] = t
    /\ prev[t] = NoTimer <=> t = slots[time_slot[t]]

HeadIsTop(L, rank) ==
  \A s \in 0..N - 1 :
    \/ slots[s] = NoTimer /\ \A t \in L : time_slot[t] # s
    \/ /\ slots[s] \in L /\ time_slot[slots[s]] = s
       /\ \A t \in L : time_slot[t] = s => rank[t] <= rank[slots[s]]

(* What tick() has dropped points at nothing that is on the wheel.         *)
Apart(L) ==
  /\ \A t \in heap \ L : /\ next[t] \in (born \cup {NoTimer}) \ L
                         /\ prev[t] \in (born \cup {NoTimer}) \ L
  /\ \A t \in TwTimers \ born : prev[t] = NoTimer
  /\ fired \cap heap = {}

CursorOnWheel(L) == ticking => tmp = NoTimer \/ (tmp \in L /\ time_slot[tmp] = cur_slot)

(* The turns before a slot is reached, in this round and in r whole ones.  *)
Ahead(s) == IF s >= cur_slot THEN s - cur_slot ELSE s - cur_slot + N
Turns(r) == r * N

Passed(t, rank) ==
  ticking /\ time_slot[t] = cur_slot /\ (tmp = NoTimer \/ rank[t] > rank[tmp])

Scheduled(L, rank) ==
  /\ \A t \in L :
       left[t] = Turns(rotation[t]) + Ahead(time_slot[t]) + (IF Passed(t, rank) THEN N ELSE 0)
  /\ \A t \in fired : left[t] = 0

OnWheel(L, rank) ==
  /\ Ranked(L, rank) /\ NextIsBelow(L, rank) /\ PrevIsAbove(L) /\ HeadIsTop(L, rank)
  /\ Apart(L) /\ CursorOnWheel(L) /\ Scheduled(L, rank)

WheelInv == WheelTypeOK /\ \E L \in SUBSET TwTimers : \E rank : OnWheel(L, rank)

LEMMA TurnsAre ==
  /\ N \in Nat /\ N >= 1
  /\ \A r \in Nat : Turns(r) \in Nat
  /\ Turns(0) = 0
  /\ \A r \in Nat : r > 0 => r - 1 \in Nat /\ Turns(r) = Turns(r - 1) + N
<1>1. N \in Nat /\ N >= 1
  BY WheelAssumption, SMT DEF WheelAssumption
<1>2. \A r \in Nat : r * N \in Nat
  BY <1>1, SMT
<1>3. 0 * N = 0
  BY <1>1, SMT
<1>4. \A r \in Nat : r > 0 => r - 1 \in Nat /\ r * N = (r - 1) * N + N
  BY <1>1, SMT
<1> QED
  BY <1>1, <1>2, <1>3, <1>4 DEF Turns

LEMMA WheelStarts == WheelInit => WheelInv
<1> SUFFICES ASSUME WheelInit PROVE WheelInv
  OBVIOUS
<1>1. N \in Nat /\ N >= 1 /\ 0 \in 0..N - 1
  BY TurnsAre, SMT
<1>2. WheelTypeOK
  <2>1. slots \in [0..N - 1 -> Pointer] /\ next \in [TwTimers -> Pointer] /\ prev \in [TwTimers -> Pointer]
    BY DEF WheelInit, Pointer
  <2>2. /\ cur_slot \in 0..N - 1 /\ rotation \in [TwTimers -> Nat]
        /\ time_slot \in [TwTimers -> 0..N - 1] /\ left \in [TwTimers -> Int]
    BY <1>1, SMT DEF WheelInit
  <2>3. ticking \in BOOLEAN /\ tmp \in Pointer /\ astray \in BOOLEAN /\ heap = {} /\ born = {} /\ fired = {}
    BY DEF WheelInit, Pointer
  <2> QED
    BY <2>1, <2>2, <2>3 DEF WheelTypeOK
<1> DEFINE rank == [t \in TwTimers |-> 0]
<1>3. OnWheel({}, rank)
  BY <1>1 DEF WheelInit, OnWheel, Ranked, NextIsBelow, PrevIsAbove, HeadIsTop, Apart,
              CursorOnWheel, Scheduled
<1> QED
  BY <1>2, <1>3 DEF WheelInv

(* What is linked to a timer on the wheel.                                 *)
LEMMA Neighbours ==
  ASSUME WheelTypeOK, NEW L \in SUBSET TwTimers, NEW rank, OnWheel(L, rank), NEW t \in L
  PROVE  /\ rank \in [TwTimers -> Nat] /\ NoTimer \notin L /\ t \in heap
         /\ next[t] \in L \cup {NoTimer} /\ prev[t] \in L \cup {NoTimer}
         /\ next[t] # t /\ prev[t] # t
         /\ next[t] = NoTimer => \A u \in L : Together(t, u) => rank[t] <= rank[u]
         /\ next[t] # NoTimer =>
              /\ Together(t, next[t]) /\ rank[next[t]] < rank[t] /\ prev[next[t]] = t
              /\ \A u \in L : Together(t, u) /\ rank[u] < rank[t] => rank[u] <= rank[next[t]]
         /\ prev[t] # NoTimer => Together(t, prev[t]) /\ next[prev[t]] = t
         /\ prev[t] = NoTimer <=> t = slots[time_slot[t]]
         /\ time_slot[t] \in 0..N - 1
         /\ \A u \in L : Together(t, u) /\ rank[t] = rank[u] => t = u
<1>1. NoTimer \notin L
  BY WheelAssumption DEF WheelAssumption
<1>2. /\ L \subseteq heap /\ rank \in [TwTimers -> Nat]
      /\ \A u \in L : Together(t, u) /\ rank[t] = rank[u] => t = u
  BY DEF OnWheel, Ranked
<1>3. \/ next[t] = NoTimer /\ \A u \in L : Together(t, u) => rank[t] <= rank[u]
      \/ /\ next[t] \in L /\ Together(t, next[t]) /\ rank[next[t]] < rank[t]
         /\ \A u \in L : Together(t, u) /\ rank[u] < rank[t] => rank[u] <= rank[next[t]]
  BY DEF OnWheel, NextIsBelow
<1>4. /\ next[t] # NoTimer => prev[next[t]] = t
      /\ prev[t] # NoTimer => prev[t] \in L /\ next[prev[t]] = t
      /\ prev[t] = NoTimer <=> t = slots[time_slot[t]]
  BY DEF OnWheel, PrevIsAbove
<1>5. \A u \in L : rank[u] \in Nat
  BY <1>2
<1>6. next[t] # t
  BY <1>1, <1>3, <1>5, SMT
<1>7. prev[t] # NoTimer => Together(t, prev[t])
  <2>1. prev[t] # NoTimer => Together(prev[t], next[prev[t]])
    BY <1>1, <1>4 DEF OnWheel, NextIsBelow
  <2> QED
    BY <2>1, <1>4 DEF Together
<1>8. prev[t] # t
  BY <1>1, <1>4, <1>6
<1>9. time_slot[t] \in 0..N - 1
  BY DEF WheelTypeOK
<1> QED
  BY <1>1, <1>2, <1>3, <1>4, <1>6, <1>7, <1>8, <1>9

(* One timer less on the wheel: its neighbours are linked to each other,   *)
(* or the slot to what follows.                                            *)
Unlinked(t) ==
  /\ slots' = IF prev[t] = NoTimer THEN [slots EXCEPT ![time_slot[t]] = next[t]] ELSE slots
  /\ next' = IF prev[t] = NoTimer THEN next ELSE [next EXCEPT ![prev[t]] = next[t]]
  /\ prev' = IF next[t] = NoTimer THEN prev ELSE [prev EXCEPT ![next[t]] = prev[t]]
  /\ heap' = heap \ {t}
  /\ UNCHANGED time_slot

LEMMA UnlinkedTypes ==
  ASSUME WheelTypeOK, NEW L \in SUBSET TwTimers, NEW rank, OnWheel(L, rank), NEW t \in L, Unlinked(t)
  PROVE  /\ slots' \in [0..N - 1 -> Pointer]
         /\ next' \in [TwTimers -> Pointer] /\ prev' \in [TwTimers -> Pointer]
         /\ heap' \subseteq heap
         /\ \A u \in TwTimers : /\ u # prev[t] => next'[u] = next[u]
                                /\ u # next[t] => prev'[u] = prev[u]
         /\ prev[t] # NoTimer => next'[prev[t]] = next[t] /\ slots' = slots
         /\ next[t] # NoTimer => prev'[next[t]] = prev[t]
         /\ \A s \in 0..N - 1 : slots'[s] = IF prev[t] = NoTimer /\ s = time_slot[t]
                                              THEN next[t] ELSE slots[s]
<1>1. /\ slots \in [0..N - 1 -> Pointer]
      /\ next \in [TwTimers -> Pointer] /\ prev \in [TwTimers -> Pointer]
      /\ next[t] \in Pointer /\ prev[t] \in Pointer
  BY DEF WheelTypeOK
<1>2. prev[t] # NoTimer => prev[t] \in TwTimers
  BY <1>1 DEF Pointer
<1>3. next[t] # NoTimer => next[t] \in TwTimers
  BY <1>1 DEF Pointer
<1>4. NoTimer \notin TwTimers
  BY WheelAssumption DEF WheelAssumption
<1>5. CASE prev[t] = NoTimer
  <2>1. slots' = [slots EXCEPT ![time_slot[t]] = next[t]] /\ next' = next
    BY <1>5 DEF Unlinked
  <2>2. /\ prev' \in [TwTimers -> Pointer]
        /\ next[t] # NoTimer => prev'[next[t]] = prev[t]
        /\ \A u \in TwTimers : u # next[t] => prev'[u] = prev[u]
    BY <1>1, <1>3 DEF Unlinked
  <2> QED
    BY <2>1, <2>2, <1>1, <1>4, <1>5 DEF Unlinked
<1>6. CASE prev[t] # NoTimer
  <2>1. slots' = slots /\ next' = [next EXCEPT ![prev[t]] = next[t]]
    BY <1>6 DEF Unlinked
  <2>2. /\ prev' \in [TwTimers -> Pointer]
        /\ next[t] # NoTimer => prev'[next[t]] = prev[t]
        /\ \A u \in TwTimers : u # next[t] => prev'[u] = prev[u]
    BY <1>1, <1>3 DEF Unlinked
  <2> QED
    BY <2>1, <2>2, <1>1, <1>2, <1>6 DEF Unlinked
<1> QED
  BY <1>5, <1>6

LEMMA Removed ==
  ASSUME WheelTypeOK, NEW L \in SUBSET TwTimers, NEW rank, OnWheel(L, rank), NEW t \in L, Unlinked(t)
  PROVE  LET M == L \ {t}
         IN Ranked(M, rank)' /\ NextIsBelow(M, rank)' /\ PrevIsAbove(M)' /\ HeadIsTop(M, rank)'
<1> DEFINE M == L \ {t}
<1>01. /\ rank \in [TwTimers -> Nat] /\ NoTimer \notin L
       /\ next[t] \in L \cup {NoTimer} /\ prev[t] \in L \cup {NoTimer} /\ next[t] # t /\ prev[t] # t
       /\ prev[t] # NoTimer => Together(t, prev[t]) /\ next[prev[t]] = t
       /\ prev[t] = NoTimer <=> t = slots[time_slot[t]]
       /\ time_slot[t] \in 0..N - 1
  BY Neighbours
<1>02. next[t] = NoTimer => \A u \in L : Together(t, u) => rank[t] <= rank[u]
  BY Neighbours
<1>03. next[t] # NoTimer =>
         /\ Together(t, next[t]) /\ rank[next[t]] < rank[t] /\ prev[next[t]] = t
         /\ \A u \in L : Together(t, u) /\ rank[u] < rank[t] => rank[u] <= rank[next[t]]
  BY Neighbours
<1>04. \A u \in L : Together(t, u) /\ rank[t] = rank[u] => t = u
  BY Neighbours
<1> DEFINE p == prev[t]
           q == next[t]
<1>1. /\ rank \in [TwTimers -> Nat] /\ NoTimer \notin L
      /\ q \in L \cup {NoTimer} /\ p \in L \cup {NoTimer} /\ q # t /\ p # t
      /\ q = NoTimer => \A u \in L : Together(t, u) => rank[t] <= rank[u]
      /\ q # NoTimer =>
           /\ Together(t, q) /\ rank[q] < rank[t] /\ prev[q] = t
           /\ \A u \in L : Together(t, u) /\ rank[u] < rank[t] => rank[u] <= rank[q]
      /\ p # NoTimer => Together(t, p) /\ next[p] = t
      /\ p = NoTimer <=> t = slots[time_slot[t]]
      /\ time_slot[t] \in 0..N - 1
      /\ \A u \in L : Together(t, u) /\ rank[t] = rank[u] => t = u
  BY <1>01, <1>02, <1>03, <1>04
<1>2. /\ \A u \in TwTimers : (u # p => next'[u] = next[u]) /\ (u # q => prev'[u] = prev[u])
      /\ p # NoTimer => next'[p] = q /\ slots' = slots
      /\ q # NoTimer => prev'[q] = p
      /\ \A s \in 0..N - 1 : slots'[s] = IF p = NoTimer /\ s = time_slot[t] THEN q ELSE slots[s]
      /\ heap' = heap \ {t} /\ time_slot' = time_slot
  BY UnlinkedTypes, ZenonT(60) DEF Unlinked
<1>3. M \subseteq L /\ L \subseteq TwTimers /\ \A u \in L : rank[u] \in Nat
  BY <1>1
<1> HIDE DEF p, q
<1>4. Ranked(M, rank)'
  BY <1>2, <1>3 DEF Ranked, OnWheel, Together
<1>5. NextIsBelow(M, rank)'
  <2> SUFFICES ASSUME NEW u \in M
               PROVE  \/ next'[u] = NoTimer /\ \A v \in M : Together(u, v) => rank[u] <= rank[v]
                      \/ /\ next'[u] \in M /\ Together(u, next'[u]) /\ rank[next'[u]] < rank[u]
                         /\ \A v \in M : Together(u, v) /\ rank[v] < rank[u] => rank[v] <= rank[next'[u]]
    BY <1>2 DEF NextIsBelow, Together
  <2>1. /\ next[u] \in L \cup {NoTimer}
        /\ next[u] = NoTimer => \A v \in L : Together(u, v) => rank[u] <= rank[v]
        /\ next[u] # NoTimer =>
             /\ Together(u, next[u]) /\ rank[next[u]] < rank[u] /\ prev[next[u]] = u
             /\ \A v \in L : Together(u, v) /\ rank[v] < rank[u] => rank[v] <= rank[next[u]]
    BY Neighbours
  <2>2. CASE u # p
    <3>1. next'[u] = next[u]
      BY <1>2, <1>3, <2>2
    <3>2. next[u] # t
      BY <1>1, <2>1, <2>2 DEF p
    <3> QED
      BY <2>1, <3>1, <3>2
  <2>3. CASE u = p
    <3>1. next[u] = t /\ next'[u] = q /\ Together(u, t) /\ u \in L
      BY <1>1, <1>2, <2>3 DEF Together
    <3>2. /\ rank[t] < rank[u]
          /\ \A v \in L : Together(u, v) /\ rank[v] < rank[u] => rank[v] <= rank[t]
      BY <1>1, <2>1, <3>1
    <3>3. \A v \in M : Together(u, v) /\ rank[v] < rank[u] => Together(t, v) /\ rank[v] < rank[t]
      <4> SUFFICES ASSUME NEW v \in M, Together(u, v), rank[v] < rank[u]
                   PROVE  Together(t, v) /\ rank[v] < rank[t]
        OBVIOUS
      <4>1. Together(t, v)
        BY <3>1 DEF Together
      <4>2. rank[v] <= rank[t] /\ rank[v] # rank[t]
        BY <1>1, <3>2, <4>1
      <4> QED
        BY <4>1, <4>2, <1>3, SMT
    <3>4. CASE q = NoTimer
      <4>1. \A v \in M : Together(u, v) => rank[u] <= rank[v]
        BY <1>1, <1>3, <3>3, <3>4, SMT
      <4> QED
        BY <3>1, <3>4, <4>1
    <3>5. CASE q # NoTimer
      <4>1. q \in M /\ rank[q] < rank[t] /\ Together(u, q)
        BY <1>1, <3>1, <3>5 DEF Together
      <4>2. rank[q] < rank[u]
        BY <1>3, <3>1, <3>2, <4>1, SMT
      <4>3. \A v \in M : Together(u, v) /\ rank[v] < rank[u] => rank[v] <= rank[q]
        BY <1>1, <3>3, <3>5
      <4> QED
        BY <3>1, <4>1, <4>2, <4>3
    <3> QED
      BY <3>4, <3>5
  <2> QED
    BY <2>2, <2>3
<1>6. PrevIsAbove(M)'
  <2> SUFFICES ASSUME NEW u \in M
               PROVE  /\ next'[u] # NoTimer => prev'[next'[u]] = u
                      /\ prev'[u] # NoTimer => prev'[u] \in M /\ next'[prev'[u]] = u
                      /\ prev'[u] = NoTimer <=> u = slots'[time_slot[u]]
    BY <1>2 DEF PrevIsAbove
  <2>1. /\ next[u] \in L \cup {NoTimer} /\ prev[u] \in L \cup {NoTimer}
        /\ next[u] # NoTimer => prev[next[u]] = u
        /\ prev[u] # NoTimer => next[prev[u]] = u
        /\ prev[u] = NoTimer <=> u = slots[time_slot[u]]
        /\ time_slot[u] \in 0..N - 1
    BY Neighbours
  <2>2. next'[u] # NoTimer => prev'[next'[u]] = u
    <3>1. CASE u = p
      BY <1>1, <1>2, <3>1
    <3>2. CASE u # p
      <4>1. next'[u] = next[u]
        BY <1>2, <1>3, <3>2
      <4>2. next[u] # NoTimer => next[u] # q
        BY <1>1, <2>1
      <4> QED
        BY <1>2, <1>3, <2>1, <4>1, <4>2
    <3> QED
      BY <3>1, <3>2
  <2>3. prev'[u] # NoTimer => prev'[u] \in M /\ next'[prev'[u]] = u
    <3>1. CASE u = q
      BY <1>1, <1>2, <3>1
    <3>2. CASE u # q
      <4>1. prev'[u] = prev[u]
        BY <1>2, <1>3, <3>2
      <4>2. prev[u] # NoTimer => prev[u] # t /\ prev[u] # p
        BY <1>1, <2>1, <3>2 DEF q
      <4> QED
        BY <1>2, <1>3, <2>1, <4>1, <4>2
    <3> QED
      BY <3>1, <3>2
  <2>4. prev'[u] = NoTimer <=> u = slots'[time_slot[u]]
    <3>1. slots'[time_slot[u]] = IF p = NoTimer /\ time_slot[u] = time_slot[t] THEN q ELSE slots[time_slot[u]]
      BY <1>2, <2>1
    <3>2. CASE u = q
      <4>1. q # NoTimer /\ prev'[u] = p /\ time_slot[u] = time_slot[t] /\ prev[u] = t /\ t # NoTimer
        BY <1>1, <1>2, <3>2 DEF Together
      <4> QED
        BY <2>1, <3>1, <3>2, <4>1
    <3>3. CASE u # q
      <4>1. prev'[u] = prev[u]
        BY <1>2, <1>3, <3>3
      <4>2. p = NoTimer /\ time_slot[u] = time_slot[t] => slots[time_slot[u]] = t
        BY <1>1
      <4> QED
        BY <2>1, <3>1, <3>3, <4>1, <4>2
    <3> QED
      BY <3>2, <3>3
  <2> QED
    BY <2>2, <2>3, <2>4
<1>7. HeadIsTop(M, rank)'
  <2> SUFFICES ASSUME NEW s \in 0..N - 1
               PROVE  \/ slots'[s] = NoTimer /\ \A v \in M : time_slot[v] # s
                      \/ /\ slots'[s] \in M /\ time_slot[slots'[s]] = s
                         /\ \A v \in M : time_slot[v] = s => rank[v] <= rank[slots'[s]]
    BY <1>2 DEF HeadIsTop
  <2>1. \/ slots[s] = NoTimer /\ \A v \in L : time_slot[v] # s
        \/ /\ slots[s] \in L /\ time_slot[slots[s]] = s
           /\ \A v \in L : time_slot[v] = s => rank[v] <= rank[slots[s]]
    BY DEF OnWheel, HeadIsTop
  <2>2. CASE p = NoTimer /\ s = time_slot[t]
    <3>1. slots'[s] = q /\ slots[s] = t
      BY <1>1, <1>2, <2>2
    <3>2. \A v \in M : time_slot[v] = s => Together(t, v) /\ rank[v] < rank[t]
      <4> SUFFICES ASSUME NEW v \in M, time_slot[v] = s PROVE Together(t, v) /\ rank[v] < rank[t]
        OBVIOUS
      <4>1. Together(t, v) /\ rank[v] <= rank[t]
        BY <1>1, <2>1, <2>2, <3>1 DEF Together
      <4>2. rank[v] # rank[t]
        BY <1>1, <4>1
      <4> QED
        BY <1>3, <4>1, <4>2, SMT
    <3>3. CASE q = NoTimer
      <4>1. \A v \in M : time_slot[v] # s
        BY <1>1, <1>3, <3>2, <3>3, SMT
      <4> QED
        BY <3>1, <3>3, <4>1
    <3>4. CASE q # NoTimer
      <4>1. q \in M /\ time_slot[q] = s
        BY <1>1, <2>2, <3>4 DEF Together
      <4>2. \A v \in M : time_slot[v] = s => rank[v] <= rank[q]
        BY <1>1, <3>2, <3>4
      <4> QED
        BY <3>1, <4>1, <4>2
    <3> QED
      BY <3>3, <3>4
  <2>3. CASE ~(p = NoTimer /\ s = time_slot[t])
    <3>1. slots'[s] = slots[s]
      BY <1>2, <2>3
    <3>2. slots[s] # t
      BY <1>1, <2>1, <2>3
    <3> QED
      BY <1>3, <2>1, <3>1, <3>2
  <2> QED
    BY <2>2, <2>3
<1> QED
  BY <1>4, <1>5, <1>6, <1>7

(* The slot of a timer and the turns before it is reached.                 *)
LEMMA SlotsAre ==
  ASSUME cur_slot \in 0..N - 1
  PROVE  /\ NextSlot \in 0..N - 1
         /\ NextSlot = IF cur_slot = N - 1 THEN 0 ELSE cur_slot + 1
         /\ \A n \in Nat : /\ RotationOf(n) \in Nat /\ SlotOf(n) \in 0..N - 1
                           /\ n = Turns(RotationOf(n)) + Ahead(SlotOf(n))
<1>1. N \in Nat /\ N >= 1 /\ cur_slot \in Nat /\ cur_slot < N
  BY TurnsAre, SMT
<1>2. NextSlot = IF cur_slot = N - 1 THEN 0 ELSE cur_slot + 1
  BY <1>1, SMT DEF NextSlot
<1>3. NextSlot \in 0..N - 1
  BY <1>1, <1>2, SMT
<1>4. ASSUME NEW n \in Nat
      PROVE  /\ RotationOf(n) \in Nat /\ SlotOf(n) \in 0..N - 1
             /\ n = Turns(RotationOf(n)) + Ahead(SlotOf(n))
  <2> DEFINE r == n \div N
             m == n % N
             s == (cur_slot + m) % N
  <2>1. r \in Nat /\ m \in Nat /\ m < N /\ n = N * r + m
    BY <1>1, SMT
  <2>2. N * r = r * N
    BY <1>1, <2>1, SMT
  <2> HIDE DEF r, m
  <2>3. s = IF cur_slot + m < N THEN cur_slot + m ELSE cur_slot + m - N
    BY <1>1, <2>1, SMT
  <2> HIDE DEF s
  <2>4. s \in 0..N - 1 /\ Ahead(s) = m
    BY <1>1, <2>1, <2>3, SMT DEF Ahead
  <2>5. RotationOf(n) = r /\ SlotOf(n) = s /\ Turns(r) = N * r
    BY <2>2 DEF RotationOf, SlotOf, r, s, m, Turns
  <2> QED
    BY <2>1, <2>4, <2>5
<1> QED
  BY <1>2, <1>3, <1>4

LEMMA TicksAre ==
  ASSUME NEW timeout \in TwTimeouts
  PROVE  /\ Ticks(timeout) \in Nat
         /\ Ticks(timeout) = IF timeout \div SI = 0 THEN 1 ELSE timeout \div SI
<1>1. SI \in Nat /\ SI >= 1 /\ timeout \in Nat
  BY WheelAssumption, SMT DEF WheelAssumption
<1>2. timeout \div SI \in Nat
  BY <1>1, SMT
<1>3. timeout < SI <=> timeout \div SI = 0
  BY <1>1, SMT
<1> QED
  BY <1>2, <1>3, SMT DEF Ticks

LEMMA NewIs ==
  ASSUME WheelTypeOK, born # TwTimers
  PROVE  NewTimer \in TwTimers /\ NewTimer \notin born
<1>1. \E t \in TwTimers : t \notin born
  BY DEF WheelTypeOK
<1> QED
  BY <1>1 DEF NewTimer

LEMMA WheelAddTypes ==
  ASSUME WheelTypeOK, NEW timeout \in TwTimeouts, WheelAddTimer(timeout)
  PROVE  WheelTypeOK'
<1> DEFINE t == NewTimer
           ts == SlotOf(Ticks(timeout))
           w == IF timeout \div SI = 0 THEN 1 ELSE timeout \div SI
<1>1. t \in TwTimers
  BY NewIs DEF WheelAddTimer
<1>2. /\ cur_slot \in 0..N - 1
      /\ slots \in [0..N - 1 -> Pointer] /\ next \in [TwTimers -> Pointer] /\ prev \in [TwTimers -> Pointer]
      /\ rotation \in [TwTimers -> Nat] /\ time_slot \in [TwTimers -> 0..N - 1]
      /\ left \in [TwTimers -> Int]
      /\ heap \subseteq born /\ fired \subseteq born /\ born \subseteq TwTimers
      /\ ticking \in BOOLEAN /\ tmp \in Pointer /\ astray \in BOOLEAN
  BY DEF WheelTypeOK
<1>3. ts \in 0..N - 1 /\ RotationOf(Ticks(timeout)) \in Nat /\ w \in Int
  BY <1>2, SlotsAre, TicksAre
<1>4. t \in Pointer /\ slots[ts] \in Pointer
  BY <1>1, <1>2, <1>3 DEF Pointer
<1>5. slots[ts] # NoTimer => slots[ts] \in TwTimers
  BY <1>4 DEF Pointer
<1>6. /\ born' = born \cup {t} /\ heap' = heap \cup {t}
      /\ rotation' = [rotation EXCEPT ![t] = RotationOf(Ticks(timeout))]
      /\ time_slot' = [time_slot EXCEPT ![t] = ts]
      /\ next' = [next EXCEPT ![t] = slots[ts]]
      /\ prev' = IF slots[ts] = NoTimer THEN prev ELSE [prev EXCEPT ![slots[ts]] = t]
      /\ slots' = [slots EXCEPT ![ts] = t]
      /\ left' = [left EXCEPT ![t] = w]
      /\ UNCHANGED <<cur_slot, ticking, tmp, astray, fired>>
  BY DEF WheelAddTimer, HeadPushed
<1> HIDE DEF t, ts, w
<1>7. prev' \in [TwTimers -> Pointer]
  BY <1>2, <1>4, <1>5, <1>6
<1>8. /\ slots' \in [0..N - 1 -> Pointer] /\ next' \in [TwTimers -> Pointer]
      /\ rotation' \in [TwTimers -> Nat] /\ time_slot' \in [TwTimers -> 0..N - 1]
      /\ left' \in [TwTimers -> Int]
  BY <1>2, <1>3, <1>4, <1>6
<1> QED
  BY <1>1, <1>2, <1>6, <1>7, <1>8 DEF WheelTypeOK, Pointer

LEMMA UnlinkTypes ==
  ASSUME WheelTypeOK, NEW t \in TwTimers, Unlink(t)
  PROVE  /\ next' \in [TwTimers -> Pointer] /\ prev' \in [TwTimers -> Pointer]
         /\ heap' \subseteq heap /\ astray' \in BOOLEAN
<1>1. /\ next \in [TwTimers -> Pointer] /\ prev \in [TwTimers -> Pointer]
      /\ heap \subseteq TwTimers /\ astray \in BOOLEAN
      /\ next[t] \in Pointer /\ prev[t] \in Pointer
  BY DEF WheelTypeOK
<1>2. next[t] # NoTimer => next[t] \in TwTimers
  BY <1>1 DEF Pointer
<1>3. CASE prev[t] \in heap
  <2>1. /\ next' = [next EXCEPT ![prev[t]] = next[t]]
        /\ prev' = IF next[t] = NoTimer THEN prev ELSE [prev EXCEPT ![next[t]] = prev[t]]
        /\ heap' = heap \ {t} /\ astray' = astray
    BY <1>3 DEF Unlink, Delete
  <2> QED
    BY <1>1, <1>2, <2>1
<1>4. CASE prev[t] \notin heap
  BY <1>1, <1>4 DEF Unlink
<1> QED
  BY <1>3, <1>4

LEMMA WheelDelTypes ==
  ASSUME WheelTypeOK, NEW t \in heap, WheelDelTimer(t)
  PROVE  WheelTypeOK'
<1>1. t \in TwTimers
  BY DEF WheelTypeOK
<1>2. UNCHANGED <<cur_slot, rotation, time_slot, ticking, tmp, born, left, fired>>
  BY DEF WheelDelTimer
<1>3. CASE t = slots[time_slot[t]]
  <2>1. /\ slots' = [slots EXCEPT ![time_slot[t]] = next[t]]
        /\ prev' = IF next[t] = NoTimer THEN prev ELSE [prev EXCEPT ![next[t]] = NoTimer]
        /\ heap' = heap \ {t} /\ next' = next /\ astray' = astray
    BY <1>3 DEF WheelDelTimer, DelHead, Delete
  <2>2. next[t] \in Pointer /\ NoTimer \in Pointer
    BY <1>1 DEF WheelTypeOK, Pointer
  <2>3. slots' \in [0..N - 1 -> Pointer] /\ prev' \in [TwTimers -> Pointer]
    BY <1>1, <2>1, <2>2 DEF WheelTypeOK
  <2> QED
    BY <1>2, <2>1, <2>3 DEF WheelTypeOK, Pointer
<1>4. CASE t # slots[time_slot[t]]
  <2>1. Unlink(t) /\ slots' = slots
    BY <1>4 DEF WheelDelTimer
  <2> QED
    BY <1>1, <1>2, <2>1, UnlinkTypes DEF WheelTypeOK, Pointer
<1> QED
  BY <1>3, <1>4

LEMMA WheelTickTypes == 
  ASSUME WheelTypeOK, WheelTick, AtTimer => tmp \in heap
  PROVE  WheelTypeOK'
<1>1. tmp \in Pointer /\ (AtTimer => tmp \in TwTimers /\ tmp \in born)
  BY DEF WheelTypeOK
<1>2. CASE TickBegin
  BY <1>2 DEF TickBegin, WheelTypeOK, Pointer, fieldVars
<1>3. CASE TickPass
  <2>1. /\ tmp \in TwTimers /\ rotation[tmp] > 0 /\ rotation' = [rotation EXCEPT ![tmp] = rotation[tmp] - 1]
        /\ tmp' = next[tmp]
    BY <1>1, <1>3 DEF TickPass
  <2>2. rotation' \in [TwTimers -> Nat]
    <3>1. rotation \in [TwTimers -> Nat] /\ rotation[tmp] - 1 \in Nat
      BY <2>1, SMT DEF WheelTypeOK
    <3> QED
      BY <2>1, <3>1
  <2>3. tmp' \in Pointer
    BY <2>1 DEF WheelTypeOK
  <2> QED
    BY <1>3, <2>2, <2>3 DEF TickPass, WheelTypeOK, Pointer
<1>4. CASE TickHead
  <2>1. fired' = fired \cup {tmp} /\ tmp \in born /\ heap' \subseteq heap
    BY <1>1, <1>4 DEF TickHead, WheelExpired, Delete
  <2>2. slots' \in [0..N - 1 -> Pointer] /\ tmp' \in Pointer
    BY <1>4 DEF TickHead, WheelTypeOK, Pointer
  <2> QED
    BY <1>4, <2>1, <2>2 DEF TickHead, WheelTypeOK, Pointer, fieldVars
<1>5. CASE TickOther
  <2>1. tmp \in TwTimers /\ Unlink(tmp) /\ tmp' = next[tmp]
    BY <1>1, <1>5 DEF TickOther, WheelExpired
  <2>2. tmp' \in Pointer /\ fired' \subseteq born
    BY <1>1, <1>5, <2>1 DEF WheelTypeOK, TickOther, WheelExpired
  <2> QED
    BY <1>5, <2>1, <2>2, UnlinkTypes DEF TickOther, WheelTypeOK, Pointer
<1>6. CASE TickEnd
  <2>1. /\ cur_slot' \in 0..N - 1
    BY <1>6, SlotsAre DEF TickEnd, WheelTypeOK
  <2>2. left' \in [TwTimers -> Int]
    <3>1. \A t \in TwTimers : left[t] \in Int /\ left[t] - 1 \in Int
      BY SMT DEF WheelTypeOK
    <3> QED
      BY <1>6, <3>1 DEF TickEnd
  <2> QED
    BY <1>6, <2>1, <2>2 DEF TickEnd, WheelTypeOK, Pointer, fieldVars
<1> QED
  BY <1>2, <1>3, <1>4, <1>5, <1>6 DEF WheelTick

(* What follows is still linked in the same way after an action that       *)
(* touches nothing on the wheel.                                           *)
LEMMA NotTouched ==
  ASSUME NEW L \in SUBSET TwTimers, NEW rank, OnWheel(L, rank),
         L \subseteq heap', slots' = slots, time_slot' = time_slot,
         \A u \in L : next'[u] = next[u] /\ prev'[u] = prev[u]
  PROVE  Ranked(L, rank)' /\ NextIsBelow(L, rank)' /\ PrevIsAbove(L)' /\ HeadIsTop(L, rank)'
<1>1. Ranked(L, rank)'
  BY DEF OnWheel, Ranked, Together
<1>2. NextIsBelow(L, rank)'
  BY DEF OnWheel, NextIsBelow, Together
<1>3. PrevIsAbove(L)'
  <2>1. \A t \in L : next[t] # NoTimer => next[t] \in L
    BY DEF OnWheel, NextIsBelow
  <2> QED
    BY <2>1 DEF OnWheel, PrevIsAbove
<1>4. HeadIsTop(L, rank)'
  BY DEF OnWheel, HeadIsTop
<1> QED
  BY <1>1, <1>2, <1>3, <1>4

(* The cursor moves on from tmp: of the others it has passed the same.     *)
LEMMA CursorMoves ==
  ASSUME WheelTypeOK, NEW L \in SUBSET TwTimers, NEW rank, OnWheel(L, rank),
         ticking, tmp # NoTimer, tmp' = next[tmp],
         UNCHANGED <<ticking, cur_slot, time_slot>>
  PROVE  /\ tmp \in L /\ time_slot[tmp] = cur_slot
         /\ tmp' = NoTimer \/ (tmp' \in L /\ time_slot[tmp'] = cur_slot /\ tmp' # tmp)
         /\ ~Passed(tmp, rank) /\ \A u \in L : u = tmp => Passed(u, rank)'
         /\ \A u \in L \ {tmp} : Passed(u, rank)' = Passed(u, rank)
<1>1. tmp \in L /\ time_slot[tmp] = cur_slot
  BY DEF OnWheel, CursorOnWheel
<1> DEFINE t == tmp
<1>2. /\ rank \in [TwTimers -> Nat] /\ NoTimer \notin L
      /\ next[t] \in L \cup {NoTimer} /\ next[t] # t
  BY <1>1, Neighbours
<1>3. next[t] = NoTimer => \A u \in L : Together(t, u) => rank[t] <= rank[u]
  BY <1>1, Neighbours
<1>4. next[t] # NoTimer =>
         /\ Together(t, next[t]) /\ rank[next[t]] < rank[t]
         /\ \A u \in L : Together(t, u) /\ rank[u] < rank[t] => rank[u] <= rank[next[t]]
  BY <1>1, Neighbours
<1>5. \A u \in L : Together(t, u) /\ rank[t] = rank[u] => t = u
  BY <1>1, Neighbours
<1>6. \A u \in L : rank[u] \in Nat
  BY <1>2
<1>7. tmp' = NoTimer \/ (tmp' \in L /\ time_slot[tmp'] = cur_slot /\ tmp' # tmp)
  BY <1>1, <1>2, <1>4 DEF Together
<1>8. ~Passed(tmp, rank)
  BY <1>1, <1>6, SMT DEF Passed
<1>9. \A u \in L : u = tmp => Passed(u, rank)'
  BY <1>1, <1>4, <1>6, SMT DEF Passed
<1>10. ASSUME NEW u \in L \ {tmp} PROVE Passed(u, rank)' = Passed(u, rank)
  <2>1. CASE time_slot[u] # cur_slot
    BY <2>1 DEF Passed
  <2>2. CASE time_slot[u] = cur_slot
    <3>1. Together(t, u) /\ rank[u] # rank[t]
      BY <1>1, <1>5, <2>2 DEF Together
    <3>2. Passed(u, rank) <=> rank[u] > rank[t]
      BY <2>2 DEF Passed
    <3>3. Passed(u, rank)' <=> next[t] = NoTimer \/ rank[u] > rank[next[t]]
      BY <2>2 DEF Passed
    <3>4. (next[t] = NoTimer \/ rank[u] > rank[next[t]]) <=> rank[u] > rank[t]
      <4>1. CASE next[t] = NoTimer
        <5>1. rank[t] <= rank[u]
          BY <1>3, <3>1, <4>1
        <5> QED
          BY <1>1, <1>6, <3>1, <4>1, <5>1, SMT
      <4>2. CASE next[t] # NoTimer
        <5>1. /\ rank[next[t]] < rank[t] /\ next[t] \in L
              /\ rank[u] < rank[t] => rank[u] <= rank[next[t]]
          BY <1>2, <1>4, <3>1, <4>2
        <5> QED
          BY <1>1, <1>6, <3>1, <4>2, <5>1, SMT
      <4> QED
        BY <4>1, <4>2
    <3>5. Passed(u, rank) \in BOOLEAN /\ Passed(u, rank)' \in BOOLEAN
      BY DEF Passed, WheelTypeOK
    <3> QED
      BY <3>2, <3>3, <3>4, <3>5
  <2> QED
    BY <2>1, <2>2
<1> QED
  BY <1>1, <1>7, <1>8, <1>9, <1>10

LEMMA StillApart ==
  ASSUME WheelTypeOK, NEW L \in SUBSET TwTimers, NEW rank, OnWheel(L, rank), NEW t \in L,
         Unlinked(t), fired' \subseteq fired \cup {t}, born' = born
  PROVE  Apart(L \ {t})'
<1>1. next[t] \in L \cup {NoTimer} /\ prev[t] \in L \cup {NoTimer} /\ L \subseteq heap
  BY Neighbours DEF OnWheel, Ranked
<1>2. \A u \in TwTimers : (u # prev[t] => next'[u] = next[u]) /\ (u # next[t] => prev'[u] = prev[u])
  BY UnlinkedTypes
<1>3. heap' = heap \ {t} /\ heap \subseteq born /\ born \subseteq TwTimers /\ NoTimer \notin TwTimers
  BY WheelAssumption DEF WheelAssumption, Unlinked, WheelTypeOK
<1>4. /\ \A u \in heap \ L : /\ next[u] \in (born \cup {NoTimer}) \ L
                             /\ prev[u] \in (born \cup {NoTimer}) \ L
      /\ \A u \in TwTimers \ born : prev[u] = NoTimer
      /\ fired \cap heap = {}
  BY DEF OnWheel, Apart
<1>5. ASSUME NEW u \in heap' \ (L \ {t})
      PROVE  /\ next'[u] \in (born' \cup {NoTimer}) \ (L \ {t})
             /\ prev'[u] \in (born' \cup {NoTimer}) \ (L \ {t})
  <2>1. u \in heap \ L /\ u \in TwTimers /\ u # prev[t] /\ u # next[t]
    BY <1>1, <1>3
  <2>2. next'[u] = next[u] /\ prev'[u] = prev[u]
    BY <1>2, <2>1
  <2> QED
    BY <1>4, <2>1, <2>2
<1>6. ASSUME NEW u \in TwTimers \ born PROVE prev'[u] = NoTimer
  <2>1. u # next[t]
    BY <1>1, <1>3
  <2> QED
    BY <1>2, <1>4, <2>1
<1>7. fired' \cap heap' = {}
  BY <1>3, <1>4
<1> QED
  BY <1>5, <1>6, <1>7 DEF Apart

LEMMA WheelDelKeeps ==
  ASSUME WheelTypeOK, NEW L \in SUBSET TwTimers, NEW rank, OnWheel(L, rank),
         NEW t \in heap, WheelDelTimer(t)
  PROVE  \E M \in SUBSET TwTimers : \E r : OnWheel(M, r)'
<1>1. /\ ~ticking /\ ~ticking' /\ L \subseteq heap /\ NoTimer \notin heap
      /\ UNCHANGED <<cur_slot, rotation, time_slot, ticking, tmp, born, left, fired>>
  BY WheelAssumption DEF WheelAssumption, WheelDelTimer, OnWheel, Ranked, WheelTypeOK
<1>2. ASSUME NEW M \in SUBSET L PROVE CursorOnWheel(M)' /\ Scheduled(M, rank)'
  <2>1. CursorOnWheel(M)'
    BY <1>1 DEF CursorOnWheel
  <2>2. Scheduled(M, rank)'
    BY <1>1 DEF OnWheel, Scheduled, Passed, Ahead
  <2> QED
    BY <2>1, <2>2
<1>3. CASE t \in L
  <2>1. prev[t] = NoTimer <=> t = slots[time_slot[t]]
    BY <1>3, Neighbours
  <2>2. prev[t] \in L \cup {NoTimer}
    BY <1>3, Neighbours
  <2>3. Unlinked(t)
    <3>1. CASE t = slots[time_slot[t]]
      BY <1>1, <2>1, <3>1 DEF WheelDelTimer, DelHead, Delete, Unlinked
    <3>2. CASE t # slots[time_slot[t]]
      <4>1. prev[t] # NoTimer /\ prev[t] \in heap
        BY <1>1, <2>1, <2>2, <3>2
      <4> QED
        BY <1>1, <3>2, <4>1 DEF WheelDelTimer, Unlink, Delete, Unlinked
    <3> QED
      BY <3>1, <3>2
  <2> DEFINE M == L \ {t}
  <2>4. Ranked(M, rank)' /\ NextIsBelow(M, rank)' /\ PrevIsAbove(M)' /\ HeadIsTop(M, rank)'
    BY <1>3, <2>3, Removed
  <2>5. Apart(M)'
    <3>1. fired' \subseteq fired \cup {t} /\ born' = born
      BY <1>1
    <3> QED
      BY <1>3, <2>3, <3>1, StillApart
  <2>6. CursorOnWheel(M)' /\ Scheduled(M, rank)'
    BY <1>2
  <2>7. OnWheel(M, rank)'
    BY <2>4, <2>5, <2>6 DEF OnWheel
  <2> QED
    BY <2>7
<1>4. CASE t \notin L
  <2>1. /\ next[t] \in (born \cup {NoTimer}) \ L /\ prev[t] \in (born \cup {NoTimer}) \ L
        /\ \A u \in heap \ L : /\ next[u] \in (born \cup {NoTimer}) \ L
                               /\ prev[u] \in (born \cup {NoTimer}) \ L
        /\ \A u \in TwTimers \ born : prev[u] = NoTimer
        /\ fired \cap heap = {}
    BY <1>4 DEF OnWheel, Apart
  <2>2. t # slots[time_slot[t]]
    <3>1. time_slot[t] \in 0..N - 1
      BY DEF WheelTypeOK
    <3>2. slots[time_slot[t]] = NoTimer \/ slots[time_slot[t]] \in L
      BY <3>1 DEF OnWheel, HeadIsTop
    <3> QED
      BY <1>1, <1>4, <3>2
  <2>3. Unlink(t) /\ slots' = slots
    BY <2>2 DEF WheelDelTimer
  <2>4. /\ next \in [TwTimers -> Pointer] /\ prev \in [TwTimers -> Pointer]
        /\ heap \subseteq TwTimers /\ born \subseteq TwTimers
    BY DEF WheelTypeOK
  <2>5. /\ heap' = heap \/ heap' = heap \ {t}
        /\ \A u \in TwTimers :
             /\ next'[u] = next[u] \/ (next'[u] = next[t] /\ u \notin L)
             /\ prev'[u] = prev[u] \/ (prev'[u] = prev[t] /\ u \in born \ L)
    <3>1. CASE prev[t] \in heap
      <4>1. /\ next' = [next EXCEPT ![prev[t]] = next[t]]
            /\ prev' = IF next[t] = NoTimer THEN prev ELSE [prev EXCEPT ![next[t]] = prev[t]]
            /\ heap' = heap \ {t}
        BY <2>3, <3>1 DEF Unlink, Delete
      <4> QED
        BY <2>1, <2>4, <4>1
    <3>2. CASE prev[t] \notin heap
      BY <2>3, <3>2 DEF Unlink
    <3> QED
      BY <3>1, <3>2
  <2>6. Ranked(L, rank)' /\ NextIsBelow(L, rank)' /\ PrevIsAbove(L)' /\ HeadIsTop(L, rank)'
    <3>1. L \subseteq heap' /\ slots' = slots /\ time_slot' = time_slot
      BY <1>1, <1>4, <2>3, <2>5
    <3>2. \A u \in L : next'[u] = next[u] /\ prev'[u] = prev[u]
      BY <2>5
    <3> QED
      BY <3>1, <3>2, NotTouched
  <2>7. Apart(L)'
    <3>1. /\ \A u \in heap' \ L : /\ next'[u] \in (born' \cup {NoTimer}) \ L
                                  /\ prev'[u] \in (born' \cup {NoTimer}) \ L
          /\ \A u \in TwTimers \ born' : prev'[u] = NoTimer
      BY <1>1, <2>1, <2>4, <2>5
    <3>2. fired' \cap heap' = {}
      BY <1>1, <2>1, <2>5
    <3> QED
      BY <3>1, <3>2 DEF Apart
  <2>8. OnWheel(L, rank)'
    BY <1>2, <2>6, <2>7 DEF OnWheel
  <2> QED
    BY <2>8
<1> QED
  BY <1>3, <1>4

(* What changes when tick() takes one timer from the list: the schedule of *)
(* those that stay.                                                        *)
LEMMA TickOtherKeeps ==
  ASSUME WheelTypeOK, NEW L \in SUBSET TwTimers, NEW rank, OnWheel(L, rank), TickOther
  PROVE  \E M \in SUBSET TwTimers : \E r : OnWheel(M, r)'
<1>1. /\ ticking /\ tmp # NoTimer /\ rotation[tmp] = 0 /\ tmp # slots[cur_slot]
      /\ fired' = fired \cup {tmp} /\ Unlink(tmp) /\ tmp' = next[tmp]
      /\ UNCHANGED <<slots, cur_slot, rotation, time_slot, ticking, born, left>>
  BY DEF TickOther, WheelExpired, AtTimer
<1>2. /\ tmp \in L /\ time_slot[tmp] = cur_slot
      /\ tmp' = NoTimer \/ (tmp' \in L /\ time_slot[tmp'] = cur_slot /\ tmp' # tmp)
      /\ ~Passed(tmp, rank)
      /\ \A u \in L \ {tmp} : Passed(u, rank)' = Passed(u, rank)
  BY <1>1, CursorMoves
<1>3. PICK t \in L : t = tmp
  BY <1>2
<1>4. Unlinked(t)
  <2>1. prev[t] \in L \cup {NoTimer} /\ (prev[t] = NoTimer <=> t = slots[time_slot[t]])
    BY Neighbours
  <2>2. prev[t] # NoTimer /\ prev[t] \in heap
    BY <1>1, <1>2, <1>3, <2>1 DEF OnWheel, Ranked
  <2> QED
    BY <1>1, <1>3, <2>2 DEF Unlink, Delete, Unlinked
<1> DEFINE M == L \ {t}
<1>5. Ranked(M, rank)' /\ NextIsBelow(M, rank)' /\ PrevIsAbove(M)' /\ HeadIsTop(M, rank)'
  BY <1>4, Removed
<1>6. Apart(M)'
  <2>1. fired' \subseteq fired \cup {t} /\ born' = born
    BY <1>1, <1>3
  <2> QED
    BY <1>4, <2>1, StillApart
<1>7. CursorOnWheel(M)'
  BY <1>1, <1>2, <1>3 DEF CursorOnWheel
<1>8. Scheduled(M, rank)'
  <2>1. \A u \in L : left[u] = Turns(rotation[u]) + Ahead(time_slot[u])
                               + (IF Passed(u, rank) THEN N ELSE 0)
    BY DEF OnWheel, Scheduled
  <2>2. \A u \in M : left'[u] = Turns(rotation[u]) + Ahead(time_slot[u])
                                + (IF Passed(u, rank)' THEN N ELSE 0)
    BY <1>1, <1>2, <1>3, <2>1
  <2>3. left[t] = 0
    <3>1. left[t] = Turns(rotation[t]) + Ahead(time_slot[t]) + (IF Passed(t, rank) THEN N ELSE 0)
      BY <2>1
    <3>2. Turns(rotation[t]) = 0 /\ Ahead(time_slot[t]) = 0
      <4>1. cur_slot \in Int
        BY TurnsAre, SMT DEF WheelTypeOK
      <4> QED
        BY <1>1, <1>2, <1>3, <4>1, TurnsAre, SMT DEF Ahead
    <3> QED
      BY <1>2, <1>3, <3>1, <3>2, SMT
  <2>4. \A u \in fired' : left'[u] = 0
    BY <1>1, <1>3, <2>3 DEF OnWheel, Scheduled
  <2> QED
    BY <1>1, <2>2, <2>4 DEF Scheduled, Ahead
<1>9. OnWheel(M, rank)'
  BY <1>5, <1>6, <1>7, <1>8 DEF OnWheel
<1> QED
  BY <1>9

LEMMA TickHeadKeeps ==
  ASSUME WheelTypeOK, NEW L \in SUBSET TwTimers, NEW rank, OnWheel(L, rank), TickHead
  PROVE  \E M \in SUBSET TwTimers : \E r : OnWheel(M, r)'
<1>1. /\ ticking /\ tmp # NoTimer /\ rotation[tmp] = 0
      /\ fired' = fired \cup {tmp} /\ heap' = heap \ {tmp} /\ tmp' = NoTimer
      /\ slots' = [slots EXCEPT ![cur_slot] = NoTimer]
      /\ next' = next /\ prev' = prev
      /\ UNCHANGED <<cur_slot, rotation, time_slot, ticking, born, left>>
  BY DEF TickHead, WheelExpired, AtTimer, Delete, fieldVars
<1>2. tmp \in L /\ time_slot[tmp] = cur_slot
  BY <1>1 DEF OnWheel, CursorOnWheel
<1>20. PICK M \in SUBSET L : M = {u \in L : time_slot[u] # cur_slot}
  OBVIOUS
<1>3. /\ \A u \in L : /\ next[u] \in L \cup {NoTimer} /\ prev[u] \in L \cup {NoTimer}
                      /\ next[u] # NoTimer => time_slot[next[u]] = time_slot[u] /\ prev[next[u]] = u
                      /\ prev[u] # NoTimer => time_slot[prev[u]] = time_slot[u]
      /\ NoTimer \notin L /\ L \subseteq heap /\ L \subseteq born
  <2>1. \A u \in L : next[u] \in L \cup {NoTimer} /\ prev[u] \in L \cup {NoTimer}
    BY Neighbours
  <2>2. \A u \in L : next[u] # NoTimer => Together(u, next[u]) /\ prev[next[u]] = u
    BY Neighbours
  <2>3. \A u \in L : prev[u] # NoTimer => Together(u, prev[u])
    BY Neighbours
  <2>4. NoTimer \notin L /\ L \subseteq heap /\ L \subseteq born
    BY WheelAssumption DEF WheelAssumption, OnWheel, Ranked, WheelTypeOK
  <2> QED
    BY <2>1, <2>2, <2>3, <2>4 DEF Together
<1>4. /\ M \subseteq heap' /\ M \subseteq L
      /\ \A u \in L : u \in M <=> time_slot[u] # cur_slot
  BY <1>1, <1>2, <1>3, <1>20
<1>5. Ranked(M, rank)'
  BY <1>1, <1>4 DEF OnWheel, Ranked, Together
<1>6. NextIsBelow(M, rank)'
  <2>1. \A u \in M : next[u] # NoTimer => next[u] \in M
    BY <1>3, <1>4
  <2> QED
    BY <1>1, <1>3, <1>4, <2>1 DEF OnWheel, NextIsBelow, Together
<1>7. \A s \in 0..N - 1 : slots'[s] = IF s = cur_slot THEN NoTimer ELSE slots[s]
  BY <1>1 DEF WheelTypeOK
<1>8. PrevIsAbove(M)'
  <2>1. \A u \in M : prev[u] # NoTimer => prev[u] \in M
    BY <1>3, <1>4
  <2>2. \A u \in M : time_slot[u] \in 0..N - 1 /\ time_slot[u] # cur_slot
    BY <1>4 DEF WheelTypeOK
  <2>3. \A u \in M : slots'[time_slot[u]] = slots[time_slot[u]]
    BY <1>7, <2>2
  <2> QED
    BY <1>1, <1>4, <2>1, <2>3 DEF OnWheel, PrevIsAbove
<1>9. HeadIsTop(M, rank)'
  <2> SUFFICES ASSUME NEW s \in 0..N - 1
               PROVE  \/ slots'[s] = NoTimer /\ \A v \in M : time_slot[v] # s
                      \/ /\ slots'[s] \in M /\ time_slot[slots'[s]] = s
                         /\ \A v \in M : time_slot[v] = s => rank[v] <= rank[slots'[s]]
    BY <1>1 DEF HeadIsTop
  <2>1. \/ slots[s] = NoTimer /\ \A v \in L : time_slot[v] # s
        \/ /\ slots[s] \in L /\ time_slot[slots[s]] = s
           /\ \A v \in L : time_slot[v] = s => rank[v] <= rank[slots[s]]
    BY DEF OnWheel, HeadIsTop
  <2> QED
    BY <1>4, <1>7, <2>1
<1>10. Apart(M)'
  <2>1. \A u \in heap \ L : /\ next[u] \in (born \cup {NoTimer}) \ L
                            /\ prev[u] \in (born \cup {NoTimer}) \ L
    BY DEF OnWheel, Apart
  <2>2. \A u \in heap' \ M : /\ next'[u] \in (born' \cup {NoTimer}) \ M
                             /\ prev'[u] \in (born' \cup {NoTimer}) \ M
    <3> SUFFICES ASSUME NEW u \in heap, u \notin M
                 PROVE  /\ next[u] \in (born \cup {NoTimer}) \ M
                        /\ prev[u] \in (born \cup {NoTimer}) \ M
      BY <1>1
    <3>1. CASE u \notin L
      BY <1>4, <2>1, <3>1
    <3>2. CASE u \in L
      BY <1>3, <1>4, <3>2
    <3> QED
      BY <3>1, <3>2
  <2>3. fired' \cap heap' = {} /\ \A u \in TwTimers \ born' : prev'[u] = NoTimer
    BY <1>1 DEF OnWheel, Apart
  <2> QED
    BY <2>2, <2>3 DEF Apart
<1>11. CursorOnWheel(M)'
  BY <1>1 DEF CursorOnWheel
<1>12. Scheduled(M, rank)'
  <2>1. \A u \in L : left[u] = Turns(rotation[u]) + Ahead(time_slot[u])
                               + (IF Passed(u, rank) THEN N ELSE 0)
    BY DEF OnWheel, Scheduled
  <2>2. \A u \in M : ~Passed(u, rank) /\ ~Passed(u, rank)'
    BY <1>1, <1>4 DEF Passed
  <2>3. \A u \in M : left'[u] = Turns(rotation[u]) + Ahead(time_slot[u])
                                + (IF Passed(u, rank)' THEN N ELSE 0)
    BY <1>1, <1>4, <2>1, <2>2
  <2>4. left[tmp] = 0
    <3>1. left[tmp] = Turns(rotation[tmp]) + Ahead(time_slot[tmp]) + (IF Passed(tmp, rank) THEN N ELSE 0)
      BY <1>2, <2>1
    <3>2. Turns(rotation[tmp]) = 0 /\ Ahead(time_slot[tmp]) = 0
      <4>1. cur_slot \in Int
        BY TurnsAre, SMT DEF WheelTypeOK
      <4> QED
        BY <1>1, <1>2, <4>1, TurnsAre, SMT DEF Ahead
    <3>3. ~Passed(tmp, rank)
      <4>1. rank[tmp] \in Nat
        BY <1>2 DEF OnWheel, Ranked
      <4> QED
        BY <1>1, <4>1, SMT DEF Passed
    <3> QED
      BY <3>1, <3>2, <3>3, SMT
  <2>5. \A u \in fired' : left'[u] = 0
    BY <1>1, <2>4 DEF OnWheel, Scheduled
  <2> QED
    BY <1>1, <2>3, <2>5 DEF Scheduled, Ahead
<1>13. OnWheel(M, rank)'
  BY <1>5, <1>6, <1>8, <1>9, <1>10, <1>11, <1>12 DEF OnWheel
<1> QED
  BY <1>13

(* The wheel as a whole stays: only the cursor and the counts change.      *)
LEMMA TickPassKeeps ==
  ASSUME WheelTypeOK, NEW L \in SUBSET TwTimers, NEW rank, OnWheel(L, rank), TickPass
  PROVE  OnWheel(L, rank)'
<1>1. /\ ticking /\ tmp # NoTimer /\ rotation[tmp] > 0 /\ tmp' = next[tmp]
      /\ rotation' = [rotation EXCEPT ![tmp] = rotation[tmp] - 1]
      /\ UNCHANGED <<slots, cur_slot, next, prev, time_slot, heap, ticking, astray, born, left, fired>>
  BY DEF TickPass, AtTimer
<1>2. /\ tmp \in L /\ time_slot[tmp] = cur_slot
      /\ tmp' = NoTimer \/ (tmp' \in L /\ time_slot[tmp'] = cur_slot /\ tmp' # tmp)
      /\ ~Passed(tmp, rank) /\ \A u \in L : u = tmp => Passed(u, rank)'
      /\ \A u \in L \ {tmp} : Passed(u, rank)' = Passed(u, rank)
  BY <1>1, CursorMoves
<1>3. Ranked(L, rank)' /\ NextIsBelow(L, rank)' /\ PrevIsAbove(L)' /\ HeadIsTop(L, rank)'
  <2>1. L \subseteq heap'
    BY <1>1 DEF OnWheel, Ranked
  <2> QED
    BY <1>1, <2>1, NotTouched
<1>4. Apart(L)' /\ CursorOnWheel(L)'
  BY <1>1, <1>2 DEF OnWheel, Apart, CursorOnWheel
<1>5. Scheduled(L, rank)'
  <2>1. \A u \in L : left[u] = Turns(rotation[u]) + Ahead(time_slot[u])
                               + (IF Passed(u, rank) THEN N ELSE 0)
    BY DEF OnWheel, Scheduled
  <2>2. rotation \in [TwTimers -> Nat] /\ Ahead(cur_slot) = 0
    <3>1. cur_slot \in Int
      BY TurnsAre, SMT DEF WheelTypeOK
    <3> QED
      BY <3>1, SMT DEF Ahead, WheelTypeOK
  <2>3. ASSUME NEW u \in L
        PROVE  left'[u] = Turns(rotation'[u]) + Ahead(time_slot'[u]) + (IF Passed(u, rank)' THEN N ELSE 0)
    <3>1. CASE u # tmp
      <4>1. rotation'[u] = rotation[u]
        BY <1>1, <2>2, <3>1
      <4> QED
        BY <1>1, <1>2, <2>1, <3>1, <4>1
    <3>2. CASE u = tmp
      <4>1. rotation'[u] = rotation[u] - 1 /\ rotation[u] \in Nat /\ rotation[u] > 0
        BY <1>1, <2>2, <3>2
      <4> DEFINE r == rotation[u]
                 h == rotation[u] - 1
      <4>2. Turns(r) = Turns(h) + N /\ Turns(h) \in Nat /\ N \in Nat
        BY <4>1, TurnsAre
      <4>3. left[u] = Turns(r) + 0 + 0 /\ Ahead(time_slot'[u]) = 0
        BY <1>1, <1>2, <2>1, <2>2, <3>2
      <4>4. rotation'[u] = h /\ left'[u] = left[u] /\ Passed(u, rank)'
        BY <1>1, <1>2, <3>2, <4>1
      <4> HIDE DEF r, h
      <4> QED
        BY <4>2, <4>3, <4>4, SMT
    <3> QED
      BY <3>1, <3>2
  <2>4. \A u \in fired' : left'[u] = 0
    BY <1>1 DEF OnWheel, Scheduled
  <2> QED
    BY <1>1, <2>3, <2>4 DEF Scheduled, Ahead
<1> QED
  BY <1>3, <1>4, <1>5 DEF OnWheel

LEMMA TickBeginKeeps ==
  ASSUME WheelTypeOK, NEW L \in SUBSET TwTimers, NEW rank, OnWheel(L, rank), TickBegin
  PROVE  OnWheel(L, rank)'
<1>1. /\ ~ticking /\ ticking' = TRUE /\ tmp' = slots[cur_slot]
      /\ UNCHANGED <<slots, cur_slot, next, prev, rotation, time_slot, heap, astray, born, left, fired>>
  BY DEF TickBegin, fieldVars
<1>2. Ranked(L, rank)' /\ NextIsBelow(L, rank)' /\ PrevIsAbove(L)' /\ HeadIsTop(L, rank)'
  <2>1. L \subseteq heap'
    BY <1>1 DEF OnWheel, Ranked
  <2> QED
    BY <1>1, <2>1, NotTouched
<1>3. \/ slots[cur_slot] = NoTimer /\ \A t \in L : time_slot[t] # cur_slot
      \/ /\ slots[cur_slot] \in L /\ time_slot[slots[cur_slot]] = cur_slot
         /\ \A t \in L : time_slot[t] = cur_slot => rank[t] <= rank[slots[cur_slot]]
  BY DEF OnWheel, HeadIsTop, WheelTypeOK
<1>4. Apart(L)' /\ CursorOnWheel(L)'
  BY <1>1, <1>3 DEF OnWheel, Apart, CursorOnWheel
<1>5. \A t \in L : ~Passed(t, rank) /\ ~Passed(t, rank)'
  <2>1. \A t \in L : rank[t] \in Nat
    BY DEF OnWheel, Ranked
  <2> SUFFICES ASSUME NEW t \in L PROVE ~Passed(t, rank) /\ ~Passed(t, rank)'
    OBVIOUS
  <2>2. ~Passed(t, rank)
    BY <1>1 DEF Passed
  <2>3. time_slot[t] = cur_slot => slots[cur_slot] \in L /\ rank[t] <= rank[slots[cur_slot]]
    BY <1>3
  <2>4. slots[cur_slot] \in L => slots[cur_slot] # NoTimer
    BY WheelAssumption DEF WheelAssumption
  <2>5. Passed(t, rank)' => time_slot[t] = cur_slot /\ rank[t] > rank[slots[cur_slot]]
    BY <1>1, <2>3, <2>4 DEF Passed
  <2> QED
    BY <2>1, <2>2, <2>3, <2>5, SMT
<1>6. Scheduled(L, rank)'
  BY <1>1, <1>5 DEF OnWheel, Scheduled, Ahead
<1> QED
  BY <1>2, <1>4, <1>6 DEF OnWheel

LEMMA TickEndKeeps ==
  ASSUME WheelTypeOK, NEW L \in SUBSET TwTimers, NEW rank, OnWheel(L, rank), TickEnd
  PROVE  OnWheel(L, rank)'
<1>1. /\ ticking /\ tmp = NoTimer /\ cur_slot' = NextSlot /\ ticking' = FALSE
      /\ left' = [t \in TwTimers |-> IF t \in heap /\ left[t] >= 0 THEN left[t] - 1 ELSE left[t]]
      /\ UNCHANGED <<slots, next, prev, rotation, time_slot, heap, tmp, astray, born, fired>>
  BY DEF TickEnd, fieldVars
<1>2. Ranked(L, rank)' /\ NextIsBelow(L, rank)' /\ PrevIsAbove(L)' /\ HeadIsTop(L, rank)'
  <2>1. L \subseteq heap'
    BY <1>1 DEF OnWheel, Ranked
  <2> QED
    BY <1>1, <2>1, NotTouched
<1>3. Apart(L)' /\ CursorOnWheel(L)'
  BY <1>1 DEF OnWheel, Apart, CursorOnWheel
<1>4. ASSUME NEW t \in L
      PROVE  left'[t] = Turns(rotation[t]) + Ahead(time_slot[t])' + 0
  <2> DEFINE s == time_slot[t]
             w == Turns(rotation[t])
             a == IF time_slot[t] = cur_slot THEN N ELSE 0
  <2>1. s \in 0..N - 1 /\ w \in Nat /\ cur_slot \in 0..N - 1 /\ N \in Nat /\ N >= 1 /\ t \in heap
    BY TurnsAre DEF WheelTypeOK, OnWheel, Ranked
  <2>2. left[t] = w + Ahead(s) + a
    BY <1>1 DEF OnWheel, Scheduled, Passed
  <2>3. left'[t] = IF left[t] >= 0 THEN left[t] - 1 ELSE left[t]
    BY <1>1, <2>1
  <2>4. cur_slot' = IF cur_slot = N - 1 THEN 0 ELSE cur_slot + 1
    BY <1>1, <2>1, SlotsAre
  <2>5. Ahead(s)' = IF s >= cur_slot' THEN s - cur_slot' ELSE s - cur_slot' + N
    BY <1>1 DEF Ahead
  <2>6. a = IF s = cur_slot THEN N ELSE 0
    OBVIOUS
  <2> HIDE DEF s, w, a
  <2>7. left[t] \in Int /\ left[t] >= 0
    BY <2>1, <2>2, <2>6, SMT DEF Ahead
  <2>8. left'[t] = w + Ahead(s)'
    BY <2>1, <2>2, <2>3, <2>4, <2>5, <2>6, <2>7, SMT DEF Ahead
  <2>9. Ahead(s)' \in Int
    BY <2>1, <2>4, <2>5, SMT
  <2>10. s' = s
    BY <1>1 DEF s
  <2> QED
    BY <1>1, <2>1, <2>8, <2>9, SMT DEF s, w
<1>5. Scheduled(L, rank)'
  <2>1. \A t \in fired : t \in TwTimers /\ t \notin heap /\ left[t] = 0
    BY DEF OnWheel, Scheduled, Apart, WheelTypeOK
  <2>2. \A t \in fired' : left'[t] = 0
    BY <1>1, <2>1
  <2> QED
    BY <1>1, <1>4, <2>2 DEF Scheduled, Passed
<1> QED
  BY <1>2, <1>3, <1>5 DEF OnWheel

(* A new timer goes in front of its slot's list.                           *)
LEMMA WheelAddKeeps ==
  ASSUME WheelTypeOK, NEW L \in SUBSET TwTimers, NEW rank, OnWheel(L, rank),
         NEW timeout \in TwTimeouts, WheelAddTimer(timeout)
  PROVE  \E M \in SUBSET TwTimers : \E r : OnWheel(M, r)'
<1> DEFINE n == Ticks(timeout)
<1>1. PICK t \in TwTimers, s \in 0..N - 1 :
        /\ t \notin born /\ s = SlotOf(n)
        /\ born' = born \cup {t} /\ heap' = heap \cup {t}
        /\ rotation' = [rotation EXCEPT ![t] = RotationOf(n)]
        /\ time_slot' = [time_slot EXCEPT ![t] = s]
        /\ next' = [next EXCEPT ![t] = slots[s]]
        /\ prev' = IF slots[s] = NoTimer THEN prev ELSE [prev EXCEPT ![slots[s]] = t]
        /\ slots' = [slots EXCEPT ![s] = t]
        /\ left' = [left EXCEPT ![t] = n]
  <2>1. NewTimer \in TwTimers /\ NewTimer \notin born
    BY NewIs DEF WheelAddTimer
  <2>2. SlotOf(n) \in 0..N - 1
    BY SlotsAre, TicksAre DEF WheelTypeOK
  <2>3. n = IF timeout \div SI = 0 THEN 1 ELSE timeout \div SI
    BY TicksAre
  <2> QED
    BY <2>1, <2>2, <2>3 DEF WheelAddTimer, HeadPushed
<1>2. /\ ~ticking /\ UNCHANGED <<cur_slot, ticking, tmp, fired>>
  BY DEF WheelAddTimer
<1>3. /\ n \in Nat /\ RotationOf(n) \in Nat /\ n = Turns(RotationOf(n)) + Ahead(s)
  BY <1>1, TicksAre, SlotsAre DEF WheelTypeOK
<1> HIDE DEF n
<1>4. /\ slots \in [0..N - 1 -> Pointer]
      /\ next \in [TwTimers -> Pointer] /\ prev \in [TwTimers -> Pointer]
      /\ rotation \in [TwTimers -> Nat] /\ time_slot \in [TwTimers -> 0..N - 1]
      /\ left \in [TwTimers -> Int]
      /\ heap \subseteq born /\ fired \subseteq born /\ born \subseteq TwTimers
      /\ NoTimer \notin TwTimers
  BY WheelAssumption DEF WheelAssumption, WheelTypeOK
<1>5. /\ L \subseteq heap /\ rank \in [TwTimers -> Nat] /\ t \notin L
      /\ \A u, v \in L : Together(u, v) /\ rank[u] = rank[v] => u = v
  BY <1>1, <1>4 DEF OnWheel, Ranked
<1>6. PICK h : h = slots[s]
  OBVIOUS
<1>7. \/ h = NoTimer /\ \A u \in L : time_slot[u] # s
      \/ /\ h \in L /\ time_slot[h] = s
         /\ \A u \in L : time_slot[u] = s => rank[u] <= rank[h]
  BY <1>6 DEF OnWheel, HeadIsTop
<1>8. PICK k \in Nat : \/ h = NoTimer
                       \/ /\ rank[h] < k
                          /\ \A u \in L : time_slot[u] = s => rank[u] < k
  <2>1. CASE h = NoTimer
    BY <2>1
  <2>2. CASE h \in L
    <3>1. rank[h] \in Nat /\ \A u \in L : rank[u] \in Nat
      BY <1>5, <2>2
    <3> DEFINE m == rank[h] + 1
    <3>2. m \in Nat /\ rank[h] < m
      BY <3>1, SMT
    <3>3. \A u \in L : time_slot[u] = s => rank[u] < m
      BY <1>4, <1>5, <1>7, <2>2, <3>1, SMT
    <3> HIDE DEF m
    <3> QED
      BY <3>2, <3>3
  <2> QED
    BY <1>7, <2>1, <2>2
<1>9. PICK M \in SUBSET TwTimers : M = L \cup {t}
  OBVIOUS
<1>10. PICK r \in [TwTimers -> Nat] : r = [rank EXCEPT ![t] = k]
  BY <1>5
<1>11. /\ r[t] = k /\ \A u \in L : r[u] = rank[u] /\ rank[u] \in Nat
       /\ \A u \in L : time_slot[u] = s => rank[u] < k
       /\ h # NoTimer => h \in L /\ rank[h] < k
  <2>1. r[t] = k /\ \A u \in L : r[u] = rank[u] /\ rank[u] \in Nat
    BY <1>5, <1>10
  <2>2. CASE h = NoTimer
    BY <1>4, <1>7, <2>1, <2>2
  <2>3. CASE h # NoTimer
    BY <1>7, <1>8, <2>1, <2>3
  <2> QED
    BY <2>2, <2>3
<1>12. /\ time_slot'[t] = s /\ next'[t] = h /\ slots'[s] = t
       /\ \A u \in L : time_slot'[u] = time_slot[u] /\ next'[u] = next[u] /\ time_slot[u] \in 0..N - 1
       /\ \A i \in 0..N - 1 : i # s => slots'[i] = slots[i]
  BY <1>1, <1>4, <1>5, <1>6
<1>13. /\ h # NoTimer => prev'[h] = t
       /\ \A u \in TwTimers : u # h => prev'[u] = prev[u]
       /\ prev[t] = NoTimer
  BY <1>1, <1>4, <1>6, <1>7 DEF OnWheel, Apart
<1>14. Ranked(M, r)'
  <2>1. M \subseteq heap'
    BY <1>1, <1>5, <1>9
  <2>2. ASSUME NEW u \in M, NEW v \in M, Together(u, v)', r[u] = r[v] PROVE u = v
    <3>1. CASE u \in L /\ v \in L
      BY <1>5, <1>11, <1>12, <2>2, <3>1 DEF Together
    <3>2. CASE u = t /\ v \in L
      BY <1>11, <1>12, <2>2, <3>2, SMT DEF Together
    <3>3. CASE u \in L /\ v = t
      BY <1>11, <1>12, <2>2, <3>3, SMT DEF Together
    <3> QED
      BY <1>9, <3>1, <3>2, <3>3
  <2> QED
    BY <2>1, <2>2 DEF Ranked
<1>15. NextIsBelow(M, r)'
  <2> SUFFICES ASSUME NEW u \in M
               PROVE  \/ next'[u] = NoTimer /\ \A v \in M : Together(u, v)' => r[u] <= r[v]
                      \/ /\ next'[u] \in M /\ Together(u, next[u])' /\ r[next'[u]] < r[u]
                         /\ \A v \in M : Together(u, v)' /\ r[v] < r[u] => r[v] <= r[next'[u]]
    BY DEF NextIsBelow
  <2>1. CASE u = t
    <3>1. ASSUME NEW v \in M, v # t, Together(t, v)' PROVE v \in L /\ time_slot[v] = s
      BY <1>9, <1>12, <3>1 DEF Together
    <3>2. CASE h = NoTimer
      <4>1. \A v \in M : Together(t, v)' => v = t
        BY <1>7, <1>4, <3>1, <3>2
      <4> QED
        BY <1>10, <1>12, <2>1, <3>2, <4>1, SMT
    <3>3. CASE h # NoTimer
      <4>1. h \in M /\ Together(t, next[t])' /\ r[h] < r[t]
        BY <1>7, <1>9, <1>11, <1>12, <3>3 DEF Together
      <4>2. ASSUME NEW v \in M, Together(t, v)', r[v] < r[t] PROVE r[v] <= r[h]
        <5>1. v # t
          BY <1>10, <4>2, SMT
        <5> QED
          BY <1>7, <1>11, <3>1, <3>3, <4>2, <5>1
      <4> QED
        BY <1>12, <2>1, <4>1, <4>2
    <3> QED
      BY <3>2, <3>3
  <2>2. CASE u \in L
    <3>1. /\ next'[u] = next[u]
          /\ \/ next[u] = NoTimer /\ \A v \in L : Together(u, v) => rank[u] <= rank[v]
             \/ /\ next[u] \in L /\ Together(u, next[u]) /\ rank[next[u]] < rank[u]
                /\ \A v \in L : Together(u, v) /\ rank[v] < rank[u] => rank[v] <= rank[next[u]]
      BY <1>12, <2>2 DEF OnWheel, NextIsBelow
    <3>2. \A v \in L : Together(u, v)' <=> Together(u, v)
      BY <1>12, <2>2 DEF Together
    <3>3. Together(u, t)' => r[u] < r[t]
      BY <1>11, <1>12, <2>2 DEF Together
    <3>4. r[u] \in Nat /\ r[t] \in Nat
      BY <1>10
    <3>5. CASE next[u] = NoTimer
      <4>1. \A v \in L : Together(u, v)' => r[u] <= r[v]
        BY <1>11, <1>4, <2>2, <3>1, <3>2, <3>5
      <4>2. Together(u, t)' => r[u] <= r[t]
        BY <3>3, <3>4, SMT
      <4> QED
        BY <1>9, <3>1, <3>5, <4>1, <4>2
    <3>6. CASE next[u] # NoTimer
      <4>1. /\ next[u] \in L /\ Together(u, next[u]) /\ r[next[u]] < r[u]
            /\ \A v \in L : Together(u, v)' /\ r[v] < r[u] => r[v] <= r[next[u]]
        BY <1>11, <2>2, <3>1, <3>2, <3>6
      <4>2. Together(u, next[u])'
        BY <1>12, <2>2, <4>1 DEF Together
      <4>3. ~(Together(u, t)' /\ r[t] < r[u])
        BY <3>3, <3>4, SMT
      <4> QED
        BY <1>9, <3>1, <4>1, <4>2, <4>3
    <3> QED
      BY <3>5, <3>6
  <2> QED
    BY <1>9, <2>1, <2>2
<1>16. PrevIsAbove(M)'
  <2> SUFFICES ASSUME NEW u \in M
               PROVE  /\ next'[u] # NoTimer => prev'[next'[u]] = u
                      /\ prev'[u] # NoTimer => prev'[u] \in M /\ next'[prev'[u]] = u
                      /\ prev'[u] = NoTimer <=> u = slots'[time_slot'[u]]
    BY DEF PrevIsAbove
  <2>1. h # NoTimer => prev[h] = NoTimer
    BY <1>6, <1>7 DEF OnWheel, PrevIsAbove
  <2>2. CASE u = t
    <3>1. prev'[t] = NoTimer
      BY <1>5, <1>7, <1>13, <1>4
    <3> QED
      BY <1>12, <1>13, <2>2, <3>1
  <2>3. CASE u \in L
    <3>1. /\ next[u] \in L \cup {NoTimer} /\ prev[u] \in L \cup {NoTimer}
          /\ next[u] # NoTimer => prev[next[u]] = u
          /\ prev[u] # NoTimer => next[prev[u]] = u
          /\ prev[u] = NoTimer <=> u = slots[time_slot[u]]
      <4>1. next[u] \in L \cup {NoTimer} /\ prev[u] \in L \cup {NoTimer}
        BY <2>3, Neighbours
      <4>2. next[u] # NoTimer => prev[next[u]] = u
        BY <2>3, Neighbours
      <4>3. prev[u] # NoTimer => next[prev[u]] = u
        BY <2>3, Neighbours
      <4>4. prev[u] = NoTimer <=> u = slots[time_slot[u]]
        BY <2>3 DEF OnWheel, PrevIsAbove
      <4> QED
        BY <4>1, <4>2, <4>3, <4>4
    <3>2. next'[u] # NoTimer => prev'[next'[u]] = u
      <4>1. next[u] # NoTimer => next[u] \in TwTimers /\ next[u] # h
        BY <2>1, <2>3, <3>1, <1>4, <1>5
      <4> QED
        BY <1>12, <1>13, <2>3, <3>1, <4>1
    <3>3. CASE u = h
      <4>1. prev'[u] = t /\ t \in M /\ next'[t] = u /\ t # NoTimer /\ u # t
        BY <1>4, <1>5, <1>9, <1>12, <1>13, <2>3, <3>3
      <4>2. time_slot'[u] = s
        BY <1>4, <1>7, <1>12, <2>3, <3>3
      <4> QED
        BY <1>12, <3>2, <4>1, <4>2
    <3>4. CASE u # h
      <4>1. prev'[u] = prev[u] /\ time_slot'[u] = time_slot[u] /\ u # t
        BY <1>5, <1>12, <1>13, <2>3, <3>4
      <4>2. prev[u] # NoTimer => next'[prev[u]] = u /\ prev[u] \in M
        BY <1>9, <1>12, <3>1
      <4>3. u = slots'[time_slot[u]] <=> u = slots[time_slot[u]]
        BY <1>6, <1>12, <2>3, <3>4, <4>1
      <4> QED
        BY <3>1, <3>2, <4>1, <4>2, <4>3
    <3> QED
      BY <3>3, <3>4
  <2> QED
    BY <1>9, <2>2, <2>3
<1>17. HeadIsTop(M, r)'
  <2> SUFFICES ASSUME NEW i \in 0..N - 1
               PROVE  \/ slots'[i] = NoTimer /\ \A v \in M : time_slot'[v] # i
                      \/ /\ slots'[i] \in M /\ time_slot'[slots'[i]] = i
                         /\ \A v \in M : time_slot'[v] = i => r[v] <= r[slots'[i]]
    BY DEF HeadIsTop
  <2>1. CASE i = s
    <3>1. slots'[i] = t /\ t \in M /\ time_slot'[t] = i
      BY <1>9, <1>12, <2>1
    <3>2. ASSUME NEW v \in M, time_slot'[v] = i PROVE r[v] <= r[t]
      <4>1. CASE v = t
        BY <1>10, <4>1, SMT
      <4>2. CASE v \in L
        <5>1. r[v] < r[t] /\ r[v] \in Nat /\ r[t] \in Nat
          BY <1>10, <1>11, <1>12, <2>1, <3>2, <4>2
        <5> QED
          BY <5>1, SMT
      <4> QED
        BY <1>9, <4>1, <4>2
    <3> QED
      BY <3>1, <3>2
  <2>2. CASE i # s
    <3>1. /\ slots'[i] = slots[i]
          /\ \/ slots[i] = NoTimer /\ \A v \in L : time_slot[v] # i
             \/ /\ slots[i] \in L /\ time_slot[slots[i]] = i
                /\ \A v \in L : time_slot[v] = i => rank[v] <= rank[slots[i]]
      BY <1>12, <2>2 DEF OnWheel, HeadIsTop
    <3>2. \A v \in M : time_slot'[v] = i => v \in L /\ time_slot[v] = i
      BY <1>9, <1>12, <2>2
    <3> QED
      BY <1>9, <1>11, <1>12, <3>1, <3>2
  <2> QED
    BY <2>1, <2>2
<1>18. Apart(M)'
  <2>1. /\ \A u \in heap \ L : /\ next[u] \in (born \cup {NoTimer}) \ L
                               /\ prev[u] \in (born \cup {NoTimer}) \ L
        /\ \A u \in TwTimers \ born : prev[u] = NoTimer
        /\ fired \cap heap = {}
    BY DEF OnWheel, Apart
  <2>2. ASSUME NEW u \in heap' \ M
        PROVE  /\ next'[u] \in (born' \cup {NoTimer}) \ M
               /\ prev'[u] \in (born' \cup {NoTimer}) \ M
    <3>1. u \in heap \ L /\ u # t /\ u \in TwTimers /\ u # h
      BY <1>1, <1>4, <1>7, <1>9, <2>2
    <3>2. next'[u] = next[u] /\ prev'[u] = prev[u]
      BY <1>1, <1>4, <1>13, <3>1
    <3> QED
      BY <1>1, <1>4, <1>9, <2>1, <3>1, <3>2
  <2>3. \A u \in TwTimers \ born' : prev'[u] = NoTimer
    <3>1. h # NoTimer => h \in born
      BY <1>4, <1>5, <1>7
    <3> QED
      BY <1>1, <1>4, <1>13, <2>1, <3>1
  <2>4. fired' \cap heap' = {}
    BY <1>1, <1>2, <1>4, <2>1
  <2> QED
    BY <2>2, <2>3, <2>4 DEF Apart
<1>19. Scheduled(M, r)'
  <2>1. \A u \in L : left[u] = Turns(rotation[u]) + Ahead(time_slot[u]) + 0
    BY <1>2 DEF OnWheel, Scheduled, Passed
  <2>2. \A u \in L : /\ left'[u] = left[u] /\ rotation'[u] = rotation[u] /\ time_slot'[u] = time_slot[u]
    BY <1>1, <1>4, <1>5
  <2>3. \A i \in 0..N - 1 : Ahead(i)' = Ahead(i)
    BY <1>2 DEF Ahead
  <2>4. left'[t] = n /\ rotation'[t] = RotationOf(n) /\ time_slot'[t] = s
    BY <1>1, <1>4
  <2>5. n = Turns(RotationOf(n)) + Ahead(s) + 0
    <3> DEFINE a == Turns(RotationOf(n))
               b == Ahead(s)
    <3>1. a \in Nat /\ b \in Int
      BY <1>3, TurnsAre, SMT DEF Ahead, WheelTypeOK
    <3>2. n = a + b
      BY <1>3
    <3> HIDE DEF a, b
    <3>3. n = a + b + 0
      BY <3>1, <3>2, SMT
    <3> QED
      BY <3>3 DEF a, b
  <2>6. \A u \in M : left'[u] = Turns(rotation'[u]) + Ahead(time_slot[u])' + 0
    <3> SUFFICES ASSUME NEW u \in M
                 PROVE  left'[u] = Turns(rotation'[u]) + Ahead(time_slot[u])' + 0
      OBVIOUS
    <3>1. Ahead(time_slot[u])' = Ahead(time_slot'[u])
      BY <1>2 DEF Ahead
    <3> QED
      BY <1>9, <2>1, <2>2, <2>4, <2>5, <3>1
  <2>7. \A u \in fired' : left'[u] = 0
    BY <1>1, <1>2, <1>4 DEF OnWheel, Scheduled
  <2>8. \A u \in M : ~Passed(u, r)'
    BY <1>2 DEF Passed
  <2> QED
    BY <2>6, <2>7, <2>8 DEF Scheduled
<1>20. CursorOnWheel(M)'
  BY <1>2 DEF CursorOnWheel
<1>21. OnWheel(M, r)'
  BY <1>14, <1>15, <1>16, <1>17, <1>18, <1>19, <1>20 DEF OnWheel
<1> QED
  BY <1>21

LEMMA WheelStep == WheelInv /\ [WheelNext]_wheelVars => WheelInv'
<1> SUFFICES ASSUME WheelInv, [WheelNext]_wheelVars PROVE WheelInv'
  OBVIOUS
<1> USE DEF WheelInv
<1>1. PICK L \in SUBSET TwTimers : \E rank : OnWheel(L, rank)
  OBVIOUS
<1>2. PICK rank : OnWheel(L, rank)
  BY <1>1
<1>3. ASSUME NEW timeout \in TwTimeouts, WheelAddTimer(timeout) PROVE WheelInv'
  BY <1>2, <1>3, WheelAddTypes, WheelAddKeeps
<1>4. ASSUME NEW t \in heap, WheelDelTimer(t) PROVE WheelInv'
  BY <1>2, <1>4, WheelDelTypes, WheelDelKeeps
<1>5. ASSUME WheelTick PROVE WheelInv'
  <2>1. AtTimer => tmp \in heap
    BY <1>2 DEF AtTimer, OnWheel, CursorOnWheel, Ranked
  <2>2. WheelTypeOK'
    BY <1>5, <2>1, WheelTickTypes
  <2>3. \E M \in SUBSET TwTimers : \E r : OnWheel(M, r)'
    BY <1>2, <1>5, TickBeginKeeps, TickPassKeeps, TickHeadKeeps, TickOtherKeeps, TickEndKeeps DEF WheelTick
  <2> QED
    BY <2>2, <2>3
<1>6. ASSUME UNCHANGED wheelVars PROVE WheelInv'
  <2>1. OnWheel(L, rank)'
    BY <1>2, <1>6 DEF wheelVars, fieldVars, OnWheel, Ranked, NextIsBelow, PrevIsAbove, HeadIsTop,
                      Apart, CursorOnWheel, Scheduled, Passed, Ahead, Together
  <2> QED
    BY <1>6, <2>1 DEF wheelVars, fieldVars, WheelTypeOK, Pointer
<1> QED
  BY <1>3, <1>4, <1>5, <1>6 DEF WheelNext, Callers

(* The place of a timer in its list: how many are above it.                *)
Higher(L, rank, t) == {u \in L : Together(t, u) /\ rank[t] < rank[u]}
Place(L, rank, t) == Cardinality(Higher(L, rank, t))

LEMMA PlaceIs ==
  ASSUME NEW L \in SUBSET TwTimers, NEW rank, NEW t \in L
  PROVE  /\ IsFiniteSet(Higher(L, rank, t)) /\ Cardinality(TwTimers) \in Nat
         /\ rank \in [TwTimers -> Nat] =>
              Place(L, rank, t) \in 0..Cardinality(TwTimers) - 1
<1>1. IsFiniteSet(TwTimers)
  BY WheelAssumption DEF WheelAssumption
<1>2. IsFiniteSet(Higher(L, rank, t))
  BY <1>1, FS_Subset DEF Higher
<1>3. Place(L, rank, t) \in Nat /\ Cardinality(TwTimers) \in Nat
  BY <1>1, <1>2, FS_CardinalityType DEF Place
<1>4. ASSUME rank \in [TwTimers -> Nat] PROVE Place(L, rank, t) \in 0..Cardinality(TwTimers) - 1
  <2>1. Higher(L, rank, t) \in SUBSET TwTimers /\ t \notin Higher(L, rank, t)
    BY <1>4, SMT DEF Higher
  <2>2. /\ Place(L, rank, t) <= Cardinality(TwTimers)
        /\ Cardinality(TwTimers) = Place(L, rank, t) => TwTimers = Higher(L, rank, t)
    BY <1>1, <2>1, FS_Subset DEF Place
  <2>3. Place(L, rank, t) # Cardinality(TwTimers)
    BY <2>1, <2>2
  <2> QED
    BY <1>3, <2>2, <2>3, SMT
<1> QED
  BY <1>2, <1>3, <1>4

(* No two of a list share a place; what follows a timer is one below it.   *)
LEMMA OnePlace ==
  ASSUME WheelTypeOK, NEW L \in SUBSET TwTimers, NEW rank, OnWheel(L, rank),
         NEW t \in L, NEW u \in L, Together(t, u), rank[t] < rank[u]
  PROVE  Place(L, rank, u) < Place(L, rank, t)
<1>1. rank \in [TwTimers -> Nat] /\ rank[t] \in Nat /\ rank[u] \in Nat
  BY DEF OnWheel, Ranked
<1>2. Higher(L, rank, u) \in SUBSET Higher(L, rank, t)
  <2> SUFFICES ASSUME NEW v \in L, Together(u, v), rank[u] < rank[v]
               PROVE  Together(t, v) /\ rank[t] < rank[v]
    BY DEF Higher
  <2>1. rank[v] \in Nat
    BY <1>1
  <2> QED
    BY <1>1, <2>1, SMT DEF Together
<1>3. u \in Higher(L, rank, t) /\ u \notin Higher(L, rank, u)
  BY <1>1, SMT DEF Higher
<1>4. IsFiniteSet(Higher(L, rank, t))
  BY PlaceIs
<1>5. /\ Place(L, rank, u) <= Place(L, rank, t)
      /\ Place(L, rank, t) = Place(L, rank, u) => Higher(L, rank, t) = Higher(L, rank, u)
  BY <1>2, <1>4, FS_Subset DEF Place
<1>6. Place(L, rank, u) \in Nat /\ Place(L, rank, t) \in Nat
  BY <1>1, PlaceIs, SMT
<1> QED
  BY <1>3, <1>5, <1>6, SMT

LEMMA PlaceOnce ==
  ASSUME WheelTypeOK, NEW L \in SUBSET TwTimers, NEW rank, OnWheel(L, rank), NEW t \in L, NEW u \in L,
         Together(t, u), Place(L, rank, t) = Place(L, rank, u)
  PROVE  t = u
<1>1. rank \in [TwTimers -> Nat] /\ (\A v \in L : rank[v] \in Nat)
  BY DEF OnWheel, Ranked
<1>2. \A v \in L : Place(L, rank, v) \in Nat
  BY <1>1, PlaceIs, SMT
<1>3. Together(u, t)
  BY DEF Together
<1>4. ~(rank[t] < rank[u]) /\ ~(rank[u] < rank[t])
  <2>1. rank[t] < rank[u] => Place(L, rank, u) < Place(L, rank, t)
    BY OnePlace
  <2>2. rank[u] < rank[t] => Place(L, rank, t) < Place(L, rank, u)
    BY <1>3, OnePlace
  <2> QED
    BY <1>2, <2>1, <2>2, SMT
<1>5. rank[t] = rank[u]
  BY <1>1, <1>4, SMT
<1> QED
  BY <1>5 DEF OnWheel, Ranked

LEMMA PlaceNext ==
  ASSUME WheelTypeOK, NEW L \in SUBSET TwTimers, NEW rank, OnWheel(L, rank), NEW t \in L, next[t] # NoTimer
  PROVE  next[t] \in L /\ Together(t, next[t]) /\ Place(L, rank, next[t]) = Place(L, rank, t) + 1
<1>1. rank \in [TwTimers -> Nat] /\ (\A v \in L : rank[v] \in Nat)
  BY DEF OnWheel, Ranked
<1>3. PICK q \in L : q = next[t]
  BY Neighbours
<1>4. /\ Together(t, q) /\ rank[q] < rank[t]
      /\ \A u \in L : Together(t, u) /\ rank[u] < rank[t] => rank[u] <= rank[q]
  BY <1>3 DEF OnWheel, NextIsBelow
<1>5. t \notin Higher(L, rank, t) /\ t \in Higher(L, rank, q)
  BY <1>1, <1>4, SMT DEF Higher, Together
<1>6. \A v \in Higher(L, rank, t) : v \in Higher(L, rank, q)
  <2> SUFFICES ASSUME NEW v \in L, Together(t, v), rank[t] < rank[v]
               PROVE  Together(q, v) /\ rank[q] < rank[v]
    BY DEF Higher
  <2>1. rank[q] < rank[v]
    BY <1>1, <1>4, SMT
  <2> QED
    BY <1>4, <2>1 DEF Together
<1>7. \A v \in Higher(L, rank, q) : v = t \/ v \in Higher(L, rank, t)
  <2> SUFFICES ASSUME NEW v \in L, Together(q, v), rank[q] < rank[v], v # t
               PROVE  Together(t, v) /\ rank[t] < rank[v]
    BY DEF Higher
  <2>1. Together(t, v)
    BY <1>4 DEF Together
  <2>2. rank[v] # rank[t]
    BY <2>1 DEF OnWheel, Ranked
  <2>3. rank[v] < rank[t] => rank[v] <= rank[q]
    BY <1>4, <2>1
  <2>4. rank[q] \in Nat /\ rank[v] \in Nat /\ rank[t] \in Nat
    BY <1>1
  <2> QED
    BY <2>1, <2>2, <2>3, <2>4, SMT
<1>8. Higher(L, rank, q) = Higher(L, rank, t) \cup {t}
  BY <1>5, <1>6, <1>7
<1>9. IsFiniteSet(Higher(L, rank, t))
  BY PlaceIs
<1>10. Place(L, rank, q) = Place(L, rank, t) + 1
  BY <1>5, <1>8, <1>9, FS_AddElement DEF Place
<1> QED
  BY <1>3, <1>4, <1>10

LEMMA PlaceLast ==
  ASSUME WheelTypeOK, NEW L \in SUBSET TwTimers, NEW rank, OnWheel(L, rank), NEW t \in L, next[t] = NoTimer,
         NEW u \in L, Together(t, u)
  PROVE  Place(L, rank, u) <= Place(L, rank, t)
<1>1. rank \in [TwTimers -> Nat] /\ (\A v \in L : rank[v] \in Nat)
  BY DEF OnWheel, Ranked
<1>2. \A v \in L : Place(L, rank, v) \in Nat
  BY <1>1, PlaceIs, SMT
<1>3. rank[t] <= rank[u]
  BY Neighbours
<1>4. CASE rank[t] < rank[u]
  <2>1. Place(L, rank, u) < Place(L, rank, t)
    BY <1>4, OnePlace
  <2> QED
    BY <1>2, <2>1, SMT
<1>5. CASE rank[t] = rank[u]
  <2>1. t = u
    BY <1>5 DEF OnWheel, Ranked
  <2> QED
    BY <1>2, <2>1, SMT
<1> QED
  BY <1>1, <1>3, <1>4, <1>5, SMT

LEMMA PlaceTop ==
  ASSUME WheelTypeOK, NEW L \in SUBSET TwTimers, NEW rank, OnWheel(L, rank), NEW t \in L, prev[t] = NoTimer
  PROVE  Place(L, rank, t) = 0
<1>1. rank \in [TwTimers -> Nat] /\ (\A v \in L : rank[v] \in Nat)
  BY DEF OnWheel, Ranked
<1>3. t = slots[time_slot[t]] /\ time_slot[t] \in 0..N - 1 /\ t # NoTimer
  BY WheelAssumption DEF WheelAssumption, OnWheel, PrevIsAbove, WheelTypeOK
<1>4. \A u \in L : time_slot[u] = time_slot[t] => rank[u] <= rank[t]
  BY <1>3 DEF OnWheel, HeadIsTop
<1>5. Higher(L, rank, t) = {}
  <2>1. \A u \in L : Together(t, u) => ~(rank[t] < rank[u])
    BY <1>1, <1>4, SMT DEF Together
  <2> QED
    BY <2>1 DEF Higher
<1> QED
  BY <1>5, FS_EmptySet DEF Place

(* The walk from the head of a slot meets its timers by their places.      *)
ByPlace(L, rank, s, k) ==
  IF \E t \in L : time_slot[t] = s /\ Place(L, rank, t) = k
    THEN CHOOSE t \in L : time_slot[t] = s /\ Place(L, rank, t) = k
    ELSE NoTimer

LEMMA ByPlaceType ==
  ASSUME NEW L \in SUBSET TwTimers, NEW rank, NEW s, NEW k
  PROVE  ByPlace(L, rank, s, k) \in L \cup {NoTimer} /\ NoTimer \notin L
<1>1. NoTimer \notin L
  BY WheelAssumption DEF WheelAssumption
<1> QED
  BY <1>1 DEF ByPlace

LEMMA ByPlaceAt ==
  ASSUME NEW L \in SUBSET TwTimers, NEW rank, NEW s, NEW k, ByPlace(L, rank, s, k) # NoTimer
  PROVE  /\ time_slot[ByPlace(L, rank, s, k)] = s
         /\ Place(L, rank, ByPlace(L, rank, s, k)) = k
<1>1. \E t \in L : time_slot[t] = s /\ Place(L, rank, t) = k
  BY DEF ByPlace
<1> QED
  BY <1>1 DEF ByPlace

LEMMA ByPlaceIs ==
  ASSUME WheelTypeOK, NEW L \in SUBSET TwTimers, NEW rank, OnWheel(L, rank),
         NEW t \in L, NEW s, time_slot[t] = s, NEW k, Place(L, rank, t) = k
  PROVE  ByPlace(L, rank, s, k) = t
<1> DEFINE b == ByPlace(L, rank, s, k)
<1>1. b \in L /\ time_slot[b] = s /\ Place(L, rank, b) = k
  BY DEF ByPlace
<1> HIDE DEF b
<1>2. Together(b, t)
  BY <1>1 DEF Together
<1>3. b = t
  BY <1>1, <1>2, PlaceOnce
<1> QED
  BY <1>3 DEF b

LEMMA WalkStep ==
  ASSUME WheelTypeOK, NEW L \in SUBSET TwTimers, NEW rank, OnWheel(L, rank), NEW s \in 0..N - 1
  PROVE  /\ ByPlace(L, rank, s, 0) = slots[s]
         /\ \A j \in Nat : LET b == ByPlace(L, rank, s, j)
                           IN ByPlace(L, rank, s, j + 1) = IF b = NoTimer THEN NoTimer ELSE next[b]
<1>1. ByPlace(L, rank, s, 0) = slots[s]
  <2>1. \/ slots[s] = NoTimer /\ \A t \in L : time_slot[t] # s
        \/ slots[s] \in L /\ time_slot[slots[s]] = s
    BY DEF OnWheel, HeadIsTop
  <2>2. CASE slots[s] = NoTimer
    <3>1. \A t \in L : time_slot[t] # s
      BY <2>1, <2>2, WheelAssumption DEF WheelAssumption
    <3> QED
      BY <2>2, <3>1 DEF ByPlace
  <2>3. CASE slots[s] \in L
    <3>1. PICK h \in L : h = slots[s]
      BY <2>3
    <3>2. time_slot[h] = s /\ prev[h] = NoTimer
      BY <2>1, <3>1, WheelAssumption DEF WheelAssumption, OnWheel, PrevIsAbove
    <3>3. Place(L, rank, h) = 0
      BY <3>2, PlaceTop
    <3> QED
      BY <3>1, <3>2, <3>3, ByPlaceIs
  <2> QED
    BY <2>1, <2>2, <2>3
<1>2. ASSUME NEW j \in Nat, NEW b, b = ByPlace(L, rank, s, j), NEW c, c = ByPlace(L, rank, s, j + 1)
      PROVE  c = IF b = NoTimer THEN NoTimer ELSE next[b]
  <2> DEFINE i == j + 1
  <2>1. i \in Nat /\ i > 0 /\ i > j /\ i # 0
    BY SMT
  <2>2. c = ByPlace(L, rank, s, i)
    BY <1>2
  <2> HIDE DEF i
  <2>3. /\ b \in L \cup {NoTimer} /\ NoTimer \notin L
        /\ b # NoTimer => time_slot[b] = s /\ Place(L, rank, b) = j
    <3>1. ByPlace(L, rank, s, j) \in L \cup {NoTimer} /\ NoTimer \notin L
      BY ByPlaceType
    <3>2. ByPlace(L, rank, s, j) # NoTimer =>
            time_slot[ByPlace(L, rank, s, j)] = s /\ Place(L, rank, ByPlace(L, rank, s, j)) = j
      BY ByPlaceAt
    <3> QED
      BY <1>2, <3>1, <3>2
  <2>4. /\ c \in L \cup {NoTimer}
        /\ c # NoTimer => time_slot[c] = s /\ Place(L, rank, c) = i
    <3>1. ByPlace(L, rank, s, i) \in L \cup {NoTimer} /\ NoTimer \notin L
      BY ByPlaceType
    <3>2. ByPlace(L, rank, s, i) # NoTimer =>
            time_slot[ByPlace(L, rank, s, i)] = s /\ Place(L, rank, ByPlace(L, rank, s, i)) = i
      BY ByPlaceAt
    <3> QED
      BY <2>2, <3>1, <3>2
  <2>5. CASE b = NoTimer
    <3> SUFFICES ASSUME c # NoTimer PROVE FALSE
      BY <2>5
    <3>1. c \in L /\ time_slot[c] = s /\ Place(L, rank, c) = i
      BY <2>4
    <3>2. prev[c] # NoTimer
      <4>1. prev[c] = NoTimer => Place(L, rank, c) = 0
        BY <3>1, PlaceTop
      <4> QED
        BY <2>1, <3>1, <4>1
    <3>3. PICK p \in L : p = prev[c] /\ next[p] = c /\ Together(c, p)
      BY <3>1, <3>2, Neighbours
    <3>4. Place(L, rank, c) = Place(L, rank, p) + 1
      <4>1. next[p] # NoTimer
        BY <2>3, <3>1, <3>3
      <4> QED
        BY <3>3, <4>1, PlaceNext
    <3>5. Place(L, rank, p) \in Nat
      BY PlaceIs, SMT DEF OnWheel, Ranked
    <3>6. Place(L, rank, p) = j
      BY <3>1, <3>4, <3>5, SMT DEF i
    <3>7. time_slot[p] = s
      BY <3>1, <3>3 DEF Together
    <3>8. ByPlace(L, rank, s, j) = p
      BY <3>6, <3>7, ByPlaceIs
    <3> QED
      BY <1>2, <2>3, <2>5, <3>8
  <2>6. CASE b # NoTimer
    <3>1. b \in L /\ time_slot[b] = s /\ Place(L, rank, b) = j
      BY <2>3, <2>6
    <3>2. CASE next[b] = NoTimer
      <4>1. \A u \in L : Together(b, u) => Place(L, rank, u) <= j
        BY <3>1, <3>2, PlaceLast
      <4>2. c # NoTimer => c \in L /\ Together(b, c) /\ Place(L, rank, c) = i
        BY <2>4, <3>1 DEF Together
      <4>3. ~(i <= j)
        BY <2>1, SMT
      <4>4. c = NoTimer
        BY <4>1, <4>2, <4>3
      <4> QED
        BY <2>6, <3>2, <4>4
    <3>3. CASE next[b] # NoTimer
      <4>1. next[b] \in L /\ Together(b, next[b]) /\ Place(L, rank, next[b]) = i
        BY <3>1, <3>3, PlaceNext DEF i
      <4>2. time_slot[next[b]] = s
        BY <3>1, <4>1 DEF Together
      <4>3. ByPlace(L, rank, s, i) = next[b]
        BY <4>1, <4>2, ByPlaceIs
      <4> QED
        BY <2>2, <2>6, <4>3
    <3> QED
      BY <3>2, <3>3
  <2> QED
    BY <2>5, <2>6
<1>3. \A j \in Nat : LET b == ByPlace(L, rank, s, j)
                     IN ByPlace(L, rank, s, j + 1) = IF b = NoTimer THEN NoTimer ELSE next[b]
  BY <1>2
<1> QED
  BY <1>1, <1>3

LEMMA WalkIs ==
  ASSUME WheelTypeOK, NEW L \in SUBSET TwTimers, NEW rank, OnWheel(L, rank), NEW s \in 0..N - 1
  PROVE  Walk(s) = [k \in 0..Cardinality(TwTimers) |-> ByPlace(L, rank, s, k)]
<1> DEFINE M == Cardinality(TwTimers)
           g == [k \in 0..M |-> ByPlace(L, rank, s, k)]
           F(node) == [k \in 0..M |-> IF k = 0 THEN slots[s]
                                      ELSE IF node[k - 1] = NoTimer THEN NoTimer ELSE next[node[k - 1]]]
           A == Walk(s)
           S == {k \in Nat : k \in 0..M => A[k] = g[k]}
<1>0. M \in Nat
  BY FS_CardinalityType, WheelAssumption DEF WheelAssumption
<1> HIDE DEF M
<1>1. Walk(s) = CHOOSE node : node = F(node)
  BY DEF Walk, M
<1>2. g = F(g)
  <2>1. \A k \in 0..M : g[k] = IF k = 0 THEN slots[s]
                                 ELSE IF g[k - 1] = NoTimer THEN NoTimer ELSE next[g[k - 1]]
    <3> SUFFICES ASSUME NEW k \in 0..M
                 PROVE  g[k] = IF k = 0 THEN slots[s]
                                 ELSE IF g[k - 1] = NoTimer THEN NoTimer ELSE next[g[k - 1]]
      OBVIOUS
    <3>1. CASE k = 0
      <4>1. g[k] = ByPlace(L, rank, s, 0)
        BY <3>1
      <4> QED
        BY <3>1, <4>1, WalkStep
    <3>2. CASE k # 0
      <4>1. PICK j \in Nat : j = k - 1 /\ k = j + 1 /\ j \in 0..M
        BY <1>0, <3>2, SMT
      <4>2. g[k] = ByPlace(L, rank, s, j + 1) /\ g[j] = ByPlace(L, rank, s, j)
        BY <4>1
      <4>3. ByPlace(L, rank, s, j + 1) =
              IF ByPlace(L, rank, s, j) = NoTimer THEN NoTimer ELSE next[ByPlace(L, rank, s, j)]
        BY WalkStep
      <4>4. g[k] = IF g[j] = NoTimer THEN NoTimer ELSE next[g[j]]
        BY <4>2, <4>3
      <4> QED
        BY <3>2, <4>1, <4>4
    <3> QED
      BY <3>1, <3>2
  <2>2. g = [k \in 0..M |-> g[k]]
    OBVIOUS
  <2> HIDE DEF g
  <2> QED
    BY <2>1, <2>2
<1> HIDE DEF g
<1>3. A = F(A)
  <2> HIDE DEF F
  <2> QED
    BY <1>1, <1>2, Zenon
<1> HIDE DEF A
<1>4. 0 \in S
  BY <1>2, <1>3
<1>5. ASSUME NEW k \in S PROVE k + 1 \in S
  <2>1. k \in Nat /\ (k \in 0..M => A[k] = g[k])
    OBVIOUS
  <2>2. k + 1 \in 0..M => A[k + 1] = g[k + 1]
    <3> HIDE DEF S
    <3> SUFFICES ASSUME k + 1 \in 0..M PROVE A[k + 1] = g[k + 1]
      OBVIOUS
    <3>1. k \in 0..M /\ k + 1 # 0 /\ (k + 1) - 1 = k
      BY <1>0, <2>1, SMT
    <3>2. A[k + 1] = IF A[k] = NoTimer THEN NoTimer ELSE next[A[k]]
      BY <1>3, <3>1
    <3>3. g[k + 1] = IF g[k] = NoTimer THEN NoTimer ELSE next[g[k]]
      BY <1>2, <3>1
    <3> QED
      BY <2>1, <3>1, <3>2, <3>3
  <2> QED
    BY <2>1, <2>2
<1>6. \A k \in 0..M : A[k] = g[k]
  <2> HIDE DEF S
  <2>1. Nat \subseteq S
    BY <1>4, <1>5, NatSet
  <2> QED
    BY <1>0, <2>1, SMT DEF S
<1>7. A = [k \in 0..M |-> A[k]] /\ g = [k \in 0..M |-> g[k]]
  BY <1>2, <1>3
<1> QED
  BY <1>6, <1>7 DEF A, g, M

LEMMA InSlotIs ==
  ASSUME WheelTypeOK, NEW L \in SUBSET TwTimers, NEW rank, OnWheel(L, rank), NEW s \in 0..N - 1
  PROVE  /\ Walk(s)[Cardinality(TwTimers)] = NoTimer
         /\ \A t \in InSlot(s) : t \in L /\ time_slot[t] = s
<1> DEFINE M == Cardinality(TwTimers)
           g == [k \in 0..M |-> ByPlace(L, rank, s, k)]
<1>1. Walk(s) = g /\ M \in Nat /\ M \in 0..M
  <2>1. M \in Nat
    BY FS_CardinalityType, WheelAssumption DEF WheelAssumption
  <2>2. Walk(s) = g
    BY WalkIs
  <2> HIDE DEF M
  <2> QED
    BY <2>1, <2>2, SMT
<1>2. ByPlace(L, rank, s, M) = NoTimer
  <2>1. ASSUME NEW t \in L PROVE Place(L, rank, t) # M
    <3>1. rank \in [TwTimers -> Nat]
      BY DEF OnWheel, Ranked
    <3>2. Place(L, rank, t) \in 0..M - 1
      BY <3>1, PlaceIs
    <3> HIDE DEF M
    <3> QED
      BY <1>1, <3>2, SMT
  <2> QED
    BY <2>1 DEF ByPlace
<1>3. \A k : ByPlace(L, rank, s, k) \in L \cup {NoTimer}
  BY ByPlaceType
<1>4. \A k : ByPlace(L, rank, s, k) # NoTimer => time_slot[ByPlace(L, rank, s, k)] = s
  BY ByPlaceAt
<1> HIDE DEF M
<1>5. \A t \in InSlot(s) : t # NoTimer /\ \E k \in 0..M : t = ByPlace(L, rank, s, k)
  BY <1>1 DEF InSlot
<1>6. Walk(s)[M] = NoTimer
  BY <1>1, <1>2
<1> QED
  BY <1>3, <1>4, <1>5, <1>6 DEF M

LEMMA WheelInvLinked == WheelInv => SlotsLinked
<1> SUFFICES ASSUME WheelInv PROVE SlotsLinked
  OBVIOUS
<1>1. PICK L \in SUBSET TwTimers : \E rank : OnWheel(L, rank)
  BY DEF WheelInv
<1>2. PICK rank : OnWheel(L, rank)
  BY <1>1
<1>3. WheelTypeOK
  BY DEF WheelInv
<1>4. ASSUME NEW s \in 0..N - 1
      PROVE  /\ Walk(s)[Cardinality(TwTimers)] = NoTimer
             /\ InSlot(s) \subseteq heap
             /\ \A t \in InSlot(s) : /\ time_slot[t] = s
                                     /\ prev[t] = NoTimer <=> t = slots[s]
                                     /\ next[t] # NoTimer => prev[next[t]] = t
  <2>1. /\ Walk(s)[Cardinality(TwTimers)] = NoTimer
        /\ \A t \in InSlot(s) : t \in L /\ time_slot[t] = s
    BY <1>2, <1>3, InSlotIs
  <2>2. L \subseteq heap
    BY <1>2 DEF OnWheel, Ranked
  <2>3. \A t \in L : /\ next[t] # NoTimer => prev[next[t]] = t
                     /\ prev[t] = NoTimer <=> t = slots[time_slot[t]]
    BY <1>2 DEF OnWheel, PrevIsAbove
  <2> QED
    BY <2>1, <2>2, <2>3
<1> QED
  BY <1>4 DEF SlotsLinked

LEMMA WheelInvOnTime == WheelInv => FiresOnSchedule
<1> SUFFICES ASSUME WheelInv PROVE FiresOnSchedule
  OBVIOUS
<1>1. PICK L \in SUBSET TwTimers : \E rank : OnWheel(L, rank)
  BY DEF WheelInv
<1>2. PICK rank : OnWheel(L, rank)
  BY <1>1
<1>3. WheelTypeOK
  BY DEF WheelInv
<1>4. ASSUME NEW t \in L PROVE left[t] >= 0
  <2> DEFINE w == Turns(rotation[t])
             a == Ahead(time_slot[t])
             p == IF Passed(t, rank) THEN N ELSE 0
  <2>1. left[t] = w + a + p
    BY <1>2 DEF OnWheel, Scheduled
  <2>2. w \in Nat /\ N \in Nat /\ p \in Nat
    <3>1. rotation[t] \in Nat
      BY <1>3 DEF WheelTypeOK
    <3> QED
      BY <3>1, TurnsAre
  <2>3. a \in Int /\ a >= 0
    <3>1. time_slot[t] \in 0..N - 1 /\ cur_slot \in 0..N - 1
      BY <1>3 DEF WheelTypeOK
    <3> QED
      BY <2>2, <3>1, SMT DEF Ahead
  <2> HIDE DEF w, a, p
  <2> QED
    BY <2>1, <2>2, <2>3, SMT
<1>5. ASSUME NEW s \in 0..N - 1, NEW t \in InSlot(s) PROVE left[t] >= 0
  BY <1>2, <1>3, <1>4, InSlotIs
<1>6. \A t \in fired : left[t] = 0
  BY <1>2 DEF OnWheel, Scheduled
<1> QED
  BY <1>5, <1>6 DEF FiresOnSchedule

(* The invariant of the time wheel, of add_timer, del_timer and each turn  *)
(* of tick()'s loop in any order, for any number of slots and timers.      *)
THEOREM WheelInductive == WheelSpec => []WheelInv
<1>1. WheelInit => WheelInv
  BY WheelStarts
<1>2. WheelInv /\ [WheelNext]_wheelVars => WheelInv'
  BY WheelStep
<1> QED
  BY <1>1, <1>2, PTL DEF WheelSpec

(* The slots, the fields of the timers and the histories keep their types. *)
THEOREM WheelTypesCorrect == WheelSpec => []WheelTypeOK
<1>1. WheelInv => WheelTypeOK
  BY DEF WheelInv
<1> QED
  BY <1>1, WheelInductive, PTL

(* Every slot is the head of a list that ends, linked both ways, of        *)
(* allocated timers that were put in that slot: del_timer finds the head by *)
(* time_slot, and tick() reaches every timer of the slot it passes.        *)
THEOREM WheelLinked == WheelSpec => []SlotsLinked
<1>1. WheelInv => SlotsLinked
  BY WheelInvLinked
<1> QED
  BY <1>1, WheelInductive, PTL

(* A callback runs in the tick after timeout/SI whole ones (one at least)  *)
(* and in no other, and a timer on the wheel is not late.                  *)
THEOREM WheelOnSchedule == WheelSpec => []FiresOnSchedule
<1>1. WheelInv => FiresOnSchedule
  BY WheelInvOnTime
<1> QED
  BY <1>1, WheelInductive, PTL

-----------------------------------------------------------------------------
(* EpollModes: what the server does is what Reader allows. An event that   *)
(* is reported, and the connection et() reads, is open until the server    *)
(* itself closes it, so that it never reads or closes one twice; a         *)
(* connection that waits for accept() waits once.                          *)

Watched ==
  /\ ready \cup events \subseteq (opened \ closed) \cup {Listener}
  /\ reading \in (opened \ closed) \cup {Nobody} /\ reading \notin events

WaitOnce ==
  /\ \A j, k \in DOMAIN arrived : arrived[j] = arrived[k] => j = k
  /\ \A k \in DOMAIN arrived : arrived[k] \notin opened

ReadSoFar == \A c \in Conns : received[c] <= written[c]

ModesInv == ModesTypeOK /\ Watched /\ WaitOnce /\ ReadSoFar

LEMMA ModesConstants ==
  Listener \notin Conns /\ Nobody \notin Conns /\ Listener # Nobody /\ MaxPieces \in Nat
BY ModesAssumption DEF ModesAssumption

LEMMA ModesInitInv == ModesInit => ModesInv
<1> SUFFICES ASSUME ModesInit PROVE ModesInv
  OBVIOUS
<1>1. 0 \in 0..MaxPieces
  BY ModesConstants, SMT
<1>2. arrived = <<>> /\ arrived \in Seq(Conns) /\ DOMAIN arrived = {}
  BY DEF ModesInit
<1>3. ModesTypeOK
  BY <1>1, <1>2 DEF ModesInit, ModesTypeOK
<1>4. Watched
  BY ModesConstants DEF ModesInit, Watched
<1>5. WaitOnce
  BY <1>2 DEF WaitOnce
<1>6. ReadSoFar
  <2>1. \A c \in Conns : written[c] = 0 /\ received[c] = 0
    BY DEF ModesInit
  <2> QED
    BY <2>1, SMT DEF ReadSoFar
<1> QED
  BY <1>3, <1>4, <1>5, <1>6 DEF ModesInv

(* What the peers do to the sequence of those that wait.                   *)
LEMMA ArriveKeeps ==
  ASSUME ModesInv, NEW c \in Conns, Arrive(c)
  PROVE  ModesInv'
<1>1. /\ c \notin opened /\ (\A k \in DOMAIN arrived : arrived[k] # c)
      /\ arrived' = Append(arrived, c) /\ ready' = ready \cup {Listener}
      /\ UNCHANGED <<mode, opened, closed, written, received, finished, aborted, events, reading>>
  BY DEF Arrive, Come, peerSide
<1>2. /\ arrived \in Seq(Conns) /\ Len(arrived) \in Nat /\ DOMAIN arrived = 1..Len(arrived)
      /\ arrived' \in Seq(Conns) /\ DOMAIN arrived' = 1..Len(arrived) + 1
      /\ \A k \in 1..Len(arrived) : arrived'[k] = arrived[k]
      /\ arrived'[Len(arrived) + 1] = c
  <2>1. arrived \in Seq(Conns)
    BY DEF ModesInv, ModesTypeOK
  <2> QED
    BY <1>1, <2>1, AppendProperties, LenProperties
<1>3. ModesTypeOK'
  BY <1>1, <1>2 DEF ModesInv, ModesTypeOK
<1>4. Watched' /\ ReadSoFar'
  BY <1>1 DEF ModesInv, Watched, ReadSoFar
<1>5. WaitOnce'
  <2> DEFINE n == Len(arrived)
  <2>1. \A k \in 1..n + 1 : k \in 1..n \/ k = n + 1
    BY <1>2, SMT
  <2>2. \A k \in 1..n : arrived[k] \notin opened /\ arrived[k] # c
    BY <1>1, <1>2 DEF ModesInv, WaitOnce
  <2>3. \A j, k \in 1..n : arrived[j] = arrived[k] => j = k
    BY <1>2 DEF ModesInv, WaitOnce
  <2> HIDE DEF n
  <2>4. \A j, k \in 1..n + 1 : arrived'[j] = arrived'[k] => j = k
    BY <1>2, <2>1, <2>2, <2>3 DEF n
  <2>5. \A k \in 1..n + 1 : arrived'[k] \notin opened
    BY <1>1, <1>2, <2>1, <2>2 DEF n
  <2> QED
    BY <1>1, <1>2, <2>4, <2>5 DEF WaitOnce, n
<1> QED
  BY <1>3, <1>4, <1>5 DEF ModesInv

LEMMA PeersKeep ==
  ASSUME ModesInv, NEW c \in Conns, Write(c) \/ Finish(c) \/ Abort(c)
  PROVE  ModesInv'
<1>1. /\ c \notin closed
      /\ ready' = ready \cup (IF mode = "et" /\ c \in opened THEN {c} ELSE {})
      /\ UNCHANGED <<mode, arrived, opened, closed, received, events, reading>>
  BY DEF Write, Finish, Abort, Talking, EdgeOn
<1>2. finished' \subseteq finished \cup {c} /\ aborted' \subseteq aborted \cup {c}
  BY DEF Write, Finish, Abort
<1>3. /\ written \in [Conns -> 0..MaxPieces] /\ received \in [Conns -> 0..MaxPieces]
      /\ \A d \in Conns : received[d] <= written[d] /\ received[d] \in Int /\ written[d] \in Int
  BY ModesConstants, SMT DEF ModesInv, ModesTypeOK, ReadSoFar
<1>4. written' \in [Conns -> 0..MaxPieces] /\ \A d \in Conns : received[d] <= written'[d]
  <2>1. CASE Write(c)
    <3>1. written[c] < MaxPieces /\ written' = [written EXCEPT ![c] = written[c] + 1]
      BY <2>1 DEF Write
    <3>2. written[c] + 1 \in 0..MaxPieces /\ received[c] <= written[c] + 1
      BY <1>3, <3>1, ModesConstants, SMT
    <3> QED
      BY <1>3, <3>1, <3>2
  <2>2. CASE Finish(c) \/ Abort(c)
    <3>1. written' = written
      BY <2>2 DEF Finish, Abort
    <3> QED
      BY <1>3, <3>1
  <2> QED
    BY <2>1, <2>2
<1>5. ready' \subseteq Conns \cup {Listener}
  BY <1>1 DEF ModesInv, ModesTypeOK
<1>6. ModesTypeOK'
  BY <1>1, <1>2, <1>4, <1>5 DEF ModesInv, ModesTypeOK
<1>7. Watched'
  BY <1>1 DEF ModesInv, Watched
<1>8. WaitOnce' /\ ReadSoFar'
  BY <1>1, <1>4 DEF ModesInv, WaitOnce, ReadSoFar
<1> QED
  BY <1>6, <1>7, <1>8 DEF ModesInv

LEMMA AcceptKeeps ==
  ASSUME ModesInv, AcceptOne
  PROVE  ModesInv'
<1> DEFINE h == Head(arrived)
<1>1. /\ arrived # <<>> /\ reading = Nobody /\ Listener \in events
      /\ events' = events \ {Listener}
      /\ arrived' = Tail(arrived) /\ opened' = opened \cup {h}
      /\ ready' \subseteq ready \cup {h}
      /\ UNCHANGED <<mode, closed, written, received, finished, aborted, reading>>
  BY DEF AcceptOne, Handling, Added, peerSide
<1>2. arrived \in Seq(Conns)
  BY DEF ModesInv, ModesTypeOK
<1>3. /\ Len(arrived) \in Nat /\ DOMAIN arrived = 1..Len(arrived) /\ Len(arrived) >= 1
      /\ h = arrived[1] /\ h \in Conns
      /\ arrived' \in Seq(Conns) /\ DOMAIN arrived' = 1..Len(arrived) - 1
      /\ \A k \in 1..Len(arrived) - 1 : arrived'[k] = arrived[k + 1]
  BY <1>1, <1>2, HeadTailProperties, LenProperties, EmptySeq
<1>4. h \notin opened
  BY <1>3 DEF ModesInv, WaitOnce
<1>5. \A k \in DOMAIN arrived' : k + 1 \in DOMAIN arrived /\ k + 1 # 1 /\ arrived'[k] = arrived[k + 1]
  BY <1>3
<1>6. WaitOnce'
  <2>1. ASSUME NEW j \in DOMAIN arrived', NEW k \in DOMAIN arrived', arrived'[j] = arrived'[k]
        PROVE  j = k
    <3>1. j + 1 = k + 1
      BY <1>5, <2>1 DEF ModesInv, WaitOnce
    <3> QED
      BY <1>3, <3>1
  <2>2. ASSUME NEW k \in DOMAIN arrived' PROVE arrived'[k] \notin opened'
    <3>1. arrived'[k] # h /\ arrived'[k] \notin opened
      BY <1>3, <1>5 DEF ModesInv, WaitOnce
    <3> QED
      BY <1>1, <3>1
  <2> QED
    BY <2>1, <2>2 DEF WaitOnce
<1>7. ModesTypeOK'
  BY <1>1, <1>3 DEF ModesInv, ModesTypeOK
<1>8. Watched'
  <2>1. closed \subseteq opened
    BY DEF ModesInv, ModesTypeOK
  <2> QED
    BY <1>1, <1>4, <2>1 DEF ModesInv, Watched
<1>9. ReadSoFar'
  BY <1>1 DEF ModesInv, ReadSoFar
<1> QED
  BY <1>6, <1>7, <1>8, <1>9 DEF ModesInv

(* What the server does to a connection.                                   *)
LEMMA ReadingKeeps ==
  ASSUME ModesInv, NEW c \in opened \ closed, c \in Conns,
         TakePiece(c) \/ CloseIt(c) \/ UNCHANGED <<received, closed>>,
         events' \subseteq events, reading' \in {Nobody, reading, c},
         c \notin events',
         ready' \subseteq ready, CloseIt(c) => reading' = Nobody,
         UNCHANGED <<mode, arrived, opened, written, finished, aborted>>
  PROVE  ModesInv'
<1>1. /\ written \in [Conns -> 0..MaxPieces] /\ received \in [Conns -> 0..MaxPieces]
      /\ received[c] <= written[c] /\ received[c] \in Int /\ written[c] \in Int /\ 0 <= received[c]
      /\ written[c] <= MaxPieces
  BY ModesConstants, SMT DEF ModesInv, ModesTypeOK, ReadSoFar
<1>2. received' \in [Conns -> 0..MaxPieces] /\ \A d \in Conns : received'[d] <= written[d]
  <2>1. CASE TakePiece(c)
    <3>1. received[c] < written[c] /\ received' = [received EXCEPT ![c] = received[c] + 1]
      BY <2>1 DEF TakePiece, HasPiece
    <3>2. received[c] + 1 \in 0..MaxPieces /\ received[c] + 1 <= written[c]
      BY <1>1, <3>1, ModesConstants, SMT
    <3> QED
      BY <1>1, <3>1, <3>2 DEF ModesInv, ReadSoFar
  <2>2. CASE received' = received
    BY <1>1, <2>2 DEF ModesInv, ReadSoFar
  <2> QED
    BY <2>1, <2>2 DEF CloseIt
<1>3. closed' = closed \/ (closed' = closed \cup {c} /\ ready' \subseteq ready \ {c} /\ reading' = Nobody)
  BY DEF TakePiece, CloseIt
<1>4. ModesTypeOK'
  BY <1>2, <1>3 DEF ModesInv, ModesTypeOK
<1>5. Watched'
  BY <1>3, ModesConstants DEF ModesInv, Watched, ModesTypeOK
<1>6. WaitOnce' /\ ReadSoFar'
  BY <1>2 DEF ModesInv, WaitOnce, ReadSoFar
<1> QED
  BY <1>4, <1>5, <1>6 DEF ModesInv

(* Each step of the server, with what Reader makes of it.                  *)
ReaderStep == [Duty!Next]_Duty!readerVars

LEMMA ServerKeeps ==
  ASSUME ModesInv, ModesServer
  PROVE  ModesInv' /\ ReaderStep
<1>1. CASE EpollWait
  <2>1. /\ events = {} /\ reading = Nobody /\ events' = ready \cup Level /\ ready' = {}
        /\ UNCHANGED <<mode, arrived, opened, closed, written, finished, aborted, received, reading>>
    BY <1>1 DEF EpollWait, peerSide
  <2>2. Level \subseteq opened \ closed
    BY DEF Level
  <2>3. opened \subseteq Conns /\ Nobody \notin Conns \cup {Listener}
    BY ModesConstants DEF ModesInv, ModesTypeOK
  <2>4. ModesTypeOK'
    BY <2>1, <2>2, <2>3 DEF ModesInv, ModesTypeOK
  <2>5. Watched'
    BY <2>1, <2>2, <2>3 DEF ModesInv, Watched
  <2>6. WaitOnce' /\ ReadSoFar'
    BY <2>1 DEF ModesInv, WaitOnce, ReadSoFar
  <2>7. ReaderStep
    BY <2>1 DEF ReaderStep, Duty!readerVars
  <2> QED
    BY <2>4, <2>5, <2>6, <2>7 DEF ModesInv
<1>2. CASE AcceptOne
  <2>1. ModesInv'
    BY <1>2, AcceptKeeps
  <2>2. Head(arrived) \in Conns
    BY <1>2, HeadTailProperties DEF AcceptOne, ModesInv, ModesTypeOK
  <2>3. Duty!Open(Head(arrived))
    BY <1>2 DEF AcceptOne, Handling, peerSide, Duty!Open
  <2> QED
    BY <2>1, <2>2, <2>3 DEF ReaderStep, Duty!Next
<1>3. CASE AcceptNone
  <2>1. /\ events' = events \ {Listener}
        /\ UNCHANGED <<mode, arrived, opened, closed, written, finished, aborted, received, ready, reading>>
    BY <1>3 DEF AcceptNone, Handling, peerSide
  <2>2. ModesTypeOK' /\ Watched'
    BY <2>1 DEF ModesInv, ModesTypeOK, Watched
  <2>3. WaitOnce' /\ ReadSoFar'
    BY <2>1 DEF ModesInv, WaitOnce, ReadSoFar
  <2>4. ReaderStep
    BY <2>1 DEF ReaderStep, Duty!readerVars
  <2> QED
    BY <2>2, <2>3, <2>4 DEF ModesInv
<1>4. ASSUME NEW c \in Conns,
             LtRecv(c) \/ LtClose(c) \/ EtTake(c) \/ EtRecv(c) \/ EtAgain(c) \/ EtClose(c)
      PROVE  ModesInv' /\ ReaderStep
  <2>1. c # Listener /\ c # Nobody
    BY ModesConstants
  <2>2. (c \in events \/ reading = c) /\ c \in opened \ closed
    <3>1. c \in events \/ reading = c
      BY <1>4 DEF LtRecv, LtClose, EtTake, EtRecv, EtAgain, EtClose, Handling
    <3> QED
      BY <2>1, <3>1 DEF ModesInv, Watched
  <2>3. /\ TakePiece(c) \/ CloseIt(c) \/ UNCHANGED <<received, closed>>
        /\ events' \subseteq events /\ reading' \in {Nobody, reading, c}
        /\ ready' \subseteq ready /\ (CloseIt(c) => reading' = Nobody)
        /\ UNCHANGED <<mode, arrived, opened, written, finished, aborted>>
        /\ CloseIt(c) /\ closed' # closed => HasFailed(c) \/ AtEnd(c)
    <3>1. CASE LtRecv(c)
      BY <2>2, <3>1 DEF LtRecv, TakePiece, CloseIt, Handling, peerSide
    <3>2. CASE LtClose(c)
      BY <3>2 DEF LtClose, CloseIt, Handling, peerSide
    <3>3. CASE EtTake(c)
      BY <2>2, <3>3 DEF EtTake, CloseIt, Handling, peerSide
    <3>4. CASE EtRecv(c)
      BY <2>2, <3>4 DEF EtRecv, TakePiece, AfterRecv, CloseIt, peerSide
    <3>5. CASE EtAgain(c)
      BY <3>5 DEF EtAgain, CloseIt, peerSide
    <3>6. CASE EtClose(c)
      BY <3>6 DEF EtClose, CloseIt, peerSide
    <3> QED
      BY <1>4, <3>1, <3>2, <3>3, <3>4, <3>5, <3>6
  <2>4. c \notin events'
    <3>1. CASE c \in events
      BY <1>4, <2>1, <3>1 DEF LtRecv, LtClose, EtTake, EtRecv, EtAgain, EtClose, Handling, ModesInv, Watched
    <3>2. CASE c \notin events
      BY <2>3, <3>2
    <3> QED
      BY <3>1, <3>2
  <2>5. ModesInv'
    BY <2>2, <2>3, <2>4, ReadingKeeps
  <2>6. ReaderStep
    <3>1. CASE TakePiece(c)
      <4>1. Duty!Receive(c)
        BY <2>2, <2>3, <3>1 DEF Duty!Receive, TakePiece, HasPiece
      <4> QED
        BY <4>1 DEF ReaderStep, Duty!Next
    <3>2. CASE CloseIt(c) /\ closed' # closed
      <4>1. c \in aborted \/ (c \in finished /\ received[c] = written[c])
        <5>1. received[c] <= written[c] /\ received[c] \in Int /\ written[c] \in Int
          BY ModesConstants, SMT DEF ModesInv, ModesTypeOK, ReadSoFar
        <5> QED
          BY <2>3, <3>2, <5>1 DEF HasFailed, AtEnd, HasPiece
      <4>2. Duty!Close(c)
        BY <2>2, <2>3, <3>2, <4>1 DEF Duty!Close, CloseIt
      <4> QED
        BY <4>2 DEF ReaderStep, Duty!Next
    <3>3. CASE UNCHANGED <<received, closed>>
      BY <2>3, <3>3 DEF ReaderStep, Duty!readerVars
    <3> QED
      BY <2>3, <3>1, <3>2, <3>3 DEF CloseIt
  <2> QED
    BY <2>5, <2>6
<1> QED
  BY <1>1, <1>2, <1>3, <1>4 DEF ModesServer

LEMMA ModesStep ==
  ASSUME ModesInv, [ModesNext]_modesVars
  PROVE  ModesInv' /\ ReaderStep
<1>1. CASE ModesServer
  BY <1>1, ServerKeeps
<1>2. ASSUME NEW c \in Conns, Arrive(c) PROVE ModesInv' /\ ReaderStep
  <2>1. ReaderStep
    BY <1>2 DEF Arrive, peerSide, ReaderStep, Duty!readerVars
  <2> QED
    BY <1>2, <2>1, ArriveKeeps
<1>3. ASSUME NEW c \in Conns, Write(c) \/ Finish(c) \/ Abort(c) PROVE ModesInv' /\ ReaderStep
  <2>1. Duty!Write(c) \/ Duty!Finish(c) \/ Duty!Abort(c)
    BY <1>3 DEF Write, Finish, Abort, Talking, Duty!Write, Duty!Finish, Duty!Abort
  <2>2. ReaderStep
    BY <2>1 DEF ReaderStep, Duty!Next
  <2> QED
    BY <1>3, <2>2, PeersKeep
<1>4. CASE UNCHANGED modesVars
  BY <1>4 DEF modesVars, peerSide, ModesInv, ModesTypeOK, Watched, WaitOnce, ReadSoFar,
              ReaderStep, Duty!readerVars
<1> QED
  BY <1>1, <1>2, <1>3, <1>4 DEF ModesNext, ModesPeers

(* The invariant of both modes, for any number of connections and pieces.  *)
THEOREM ModesInductive == ModesSpec => []ModesInv
<1>1. ModesInv /\ [ModesNext]_modesVars => ModesInv'
  BY ModesStep
<1> QED
  BY <1>1, ModesInitInv, PTL DEF ModesSpec

(* lt() and et() do what a reader may do and nothing else: they receive    *)
(* what was written, once, on a connection they have and have not closed,  *)
(* and close only what is at its end or was reset (lines 52-75, 78-113).   *)
(* This is the safety half of BothRead.                                    *)
THEOREM BothReadSafely == ModesSpec => Duty!Spec
<1>1. ModesInit => Duty!Init
  BY DEF ModesInit, Duty!Init
<1>2. ModesInv /\ [ModesNext]_modesVars => [Duty!Next]_Duty!readerVars
  BY ModesStep DEF ReaderStep
<1> QED
  BY <1>1, <1>2, ModesInductive, PTL DEF ModesSpec, Duty!Spec

-----------------------------------------------------------------------------
(* Urgent: the normal bytes come in order without the urgent one, however  *)
(* segments, the signal and the receiver interleave: a recv() never goes   *)
(* across the mark with a byte in hand. The urgent byte is passed, and can *)
(* be had no more, only when no SIGURG is pending, and so after the handler *)
(* has read it.                                                            *)

Normals(n) == [k \in 1..n |-> IF k <= Before THEN k ELSE k + 1]
Bytes(c, u) == [k \in 1..u - c |-> c + k]
NormalCount == IF copied <= Before THEN copied ELSE copied - 1

MarkKept ==
  /\ normal = Normals(NormalCount)
  /\ urg = "none" <=> delivered < UrgentByte
  /\ urg = "passed" <=> copied >= UrgentByte
  /\ urg = "read" => oob = {UrgentByte}
  /\ sigurg => signalled /\ urg # "passed" /\ urg # "none"
  /\ signalled /\ ~sigurg => oob = {UrgentByte}
  /\ step = "closed" => copied = Total
  /\ hungup => delivered = Total

UrgentInv == UrgentTypeOK /\ MarkKept

(* What the program has when it is through: StreamRead without the promise *)
(* that it gets there.                                                     *)
WholeStream ==
  step = "closed" =>
    /\ normal = [k \in 1..Before + Behind |-> IF k <= Before THEN k ELSE k + 1]
    /\ signalled => oob = {UrgentByte}

LEMMA UrgentConstants ==
  /\ Before \in Nat /\ Behind \in Nat /\ Total = Before + 1 + Behind /\ UrgentByte = Before + 1
  /\ Total \in Nat /\ UrgentByte \in 1..Total
BY UrgentAssumption, SMT DEF UrgentAssumption, Total, UrgentByte

(* Some more of the normal bytes, on one side of the urgent one.           *)
LEMMA NormalsGrow ==
  ASSUME NEW c \in Nat, NEW u \in Nat, c < u, u <= Total, u <= Before \/ UrgentByte <= c,
         NEW m, m = (IF c <= Before THEN c ELSE c - 1),
         NEW n, n = (IF u <= Before THEN u ELSE u - 1)
  PROVE  Normals(m) \o Bytes(c, u) = Normals(n)
<1> DEFINE d == u - c
           S == Normals(m)
           T == Bytes(c, u)
           W == Normals(n)
<1>1. /\ m \in Nat /\ n \in Nat /\ d \in Nat /\ n = m + d
      /\ c = IF c <= Before THEN m ELSE m + 1
  BY UrgentConstants, SMT
<1>2. S \in Seq(Int) /\ Len(S) = m /\ \A k \in 1..m : S[k] = IF k <= Before THEN k ELSE k + 1
  <2>1. \A k \in 1..m : (IF k <= Before THEN k ELSE k + 1) \in Int
    BY <1>1, SMT
  <2> QED
    BY <1>1, <2>1 DEF Normals
<1>3. T \in Seq(Int) /\ Len(T) = d /\ \A k \in 1..d : T[k] = c + k
  <2>1. \A k \in 1..d : c + k \in Int
    BY <1>1, SMT
  <2> QED
    BY <1>1, <2>1 DEF Bytes
<1>4. W \in Seq(Int) /\ Len(W) = n /\ \A k \in 1..n : W[k] = IF k <= Before THEN k ELSE k + 1
  <2>1. \A k \in 1..n : (IF k <= Before THEN k ELSE k + 1) \in Int
    BY <1>1, SMT
  <2> QED
    BY <1>1, <2>1 DEF Normals
<1>5. \A k \in m + 1..n : k - m \in 1..d /\ c + (k - m) = IF k <= Before THEN k ELSE k + 1
  BY <1>1, UrgentConstants, SMT
<1>6. \A k \in 1..n : k \in 1..m \/ k \in m + 1..n
  BY <1>1, SMT
<1> HIDE DEF S, T, W, d
<1>7. /\ S \o T \in Seq(Int) /\ Len(S \o T) = n
      /\ \A k \in 1..m : (S \o T)[k] = S[k]
      /\ \A k \in m + 1..n : (S \o T)[k] = T[k - m]
  <2>1. /\ S \o T \in Seq(Int) /\ Len(S \o T) = m + d
        /\ \A k \in 1..m + d : (S \o T)[k] = IF k <= m THEN S[k] ELSE T[k - m]
    <3>1. S \in Seq(Int) /\ T \in Seq(Int) /\ Len(S) = m /\ Len(T) = d
      BY <1>2, <1>3
    <3>2. /\ S \o T \in Seq(Int) /\ Len(S \o T) = Len(S) + Len(T)
          /\ \A k \in 1..Len(S) + Len(T) : (S \o T)[k] = IF k <= Len(S) THEN S[k] ELSE T[k - Len(S)]
      BY <3>1, ConcatProperties
    <3> QED
      BY <3>1, <3>2
  <2>2. \A k \in 1..m : k \in 1..m + d /\ k <= m
    BY <1>1, SMT
  <2>3. \A k \in m + 1..n : k \in 1..m + d /\ ~(k <= m)
    BY <1>1, SMT
  <2>4. \A k \in 1..m : (S \o T)[k] = S[k]
    BY <2>1, <2>2, Zenon
  <2>5. \A k \in m + 1..n : (S \o T)[k] = T[k - m]
    BY <2>1, <2>3, Zenon
  <2> QED
    BY <1>1, <2>1, <2>4, <2>5
<1>8. \A k \in 1..n : (S \o T)[k] = W[k]
  <2> SUFFICES ASSUME NEW k \in 1..n PROVE (S \o T)[k] = W[k]
    OBVIOUS
  <2>1. CASE k \in 1..m
    BY <1>2, <1>4, <1>7, <2>1
  <2>2. CASE k \in m + 1..n
    <3>1. (S \o T)[k] = c + (k - m)
      BY <1>3, <1>5, <1>7, <2>2
    <3> QED
      BY <1>4, <1>5, <2>2, <3>1
  <2> QED
    BY <1>6, <2>1, <2>2
<1>9. S \o T = W
  BY <1>4, <1>7, <1>8, SeqEqual
<1> QED
  BY <1>9 DEF S, T, W, d

LEMMA UrgentInitInv == UrgentInit => UrgentInv
<1> SUFFICES ASSUME UrgentInit PROVE UrgentInv
  OBVIOUS
<1>1. delivered = 0 /\ copied = 0 /\ 0 \in 0..Total /\ 0 < UrgentByte /\ 0 <= Before /\ ~(0 >= UrgentByte)
  BY UrgentConstants, SMT DEF UrgentInit
<1>2. 1..0 = {} /\ <<>> = Normals(0)
  <2>1. 1..0 = {}
    BY SMT
  <2>2. Normals(0) \in Seq(Int) /\ Len(Normals(0)) = 0
    BY <2>1 DEF Normals
  <2> QED
    BY <2>1, <2>2, EmptySeq
<1>3. delivered \in copied..Total
  BY <1>1
<1>4. UrgentTypeOK
  <2>1. normal \in Seq(1..Total) /\ oob \in SUBSET {UrgentByte}
    BY DEF UrgentInit
  <2>2. /\ receiver \in {"handler", "select"} /\ hungup \in BOOLEAN /\ sigurg \in BOOLEAN
        /\ signalled \in BOOLEAN /\ urg \in {"none", "valid", "read", "passed"}
        /\ step \in {"setup", "recv", "select", "normal", "oob", "closed"}
    BY DEF UrgentInit
  <2> QED
    BY <1>1, <1>3, <2>1, <2>2 DEF UrgentTypeOK
<1>5. NormalCount = 0
  BY <1>1 DEF NormalCount
<1> QED
  BY <1>1, <1>2, <1>4, <1>5 DEF UrgentInit, UrgentInv, MarkKept

LEMMA NormalsType ==
  ASSUME NEW c \in 0..Total, NEW n, n = (IF c <= Before THEN c ELSE c - 1)
  PROVE  Normals(n) \in Seq(1..Total)
<1>1. n \in Nat /\ \A k \in 1..n : (IF k <= Before THEN k ELSE k + 1) \in 1..Total
  BY UrgentConstants, SMT
<1> QED
  BY <1>1 DEF Normals

LEMMA UrgentNumbers ==
  ASSUME UrgentInv
  PROVE  /\ copied \in Nat /\ delivered \in Nat /\ copied <= delivered /\ delivered <= Total
         /\ Before \in Nat /\ Behind \in Nat /\ Total = Before + 1 + Behind /\ UrgentByte = Before + 1
  BY UrgentConstants, SMT DEF UrgentInv, UrgentTypeOK

(* The parts of recv().                                                    *)
LEMMA CopyKeeps ==
  ASSUME UrgentInv, CopyNormal, receiver' = receiver, step' \in {"recv", "select", "normal"}
  PROVE  UrgentInv'
<1> USE UrgentNumbers
<1>1. /\ ~AtMark /\ copied < delivered /\ copied' = UpTo
      /\ normal' = normal \o [k \in 1..UpTo - copied |-> copied + k]
      /\ UNCHANGED <<delivered, hungup, urg, sigurg, signalled, oob>>
  BY DEF CopyNormal
<1>2. /\ urg \in {"none", "valid", "read", "passed"} /\ (urg = "none" <=> delivered < UrgentByte)
      /\ (urg = "passed" <=> copied >= UrgentByte)
  BY DEF UrgentInv, UrgentTypeOK, MarkKept
<1>3. copied < UrgentByte /\ UrgentByte <= delivered => copied < Before
  <2>1. copied < UrgentByte /\ UrgentByte <= delivered => urg \in {"valid", "read"}
    BY <1>2, SMT
  <2>2. copied < UrgentByte /\ UrgentByte <= delivered => copied # Before
    BY <1>1, <2>1 DEF AtMark
  <2> QED
    BY <2>2, SMT
<1>4. /\ UpTo \in Nat /\ copied < UpTo /\ UpTo <= delivered
      /\ UpTo <= Before \/ UrgentByte <= copied
      /\ UpTo >= UrgentByte <=> copied >= UrgentByte
  BY <1>1, <1>3, SMT DEF UpTo
<1> DEFINE u == UpTo
           m == IF copied <= Before THEN copied ELSE copied - 1
           n == IF u <= Before THEN u ELSE u - 1
<1>5. normal' = Normals(n)
  <2>1. normal = Normals(m)
    BY DEF UrgentInv, MarkKept, NormalCount
  <2>2. u \in Nat /\ copied < u /\ u <= Total /\ (u <= Before \/ UrgentByte <= copied)
    BY <1>4, SMT
  <2>3. normal' = Normals(m) \o Bytes(copied, u)
    BY <1>1, <2>1 DEF Bytes
  <2> HIDE DEF u
  <2>4. /\ m = (IF copied <= Before THEN copied ELSE copied - 1)
        /\ n = (IF u <= Before THEN u ELSE u - 1)
        /\ copied \in Nat
    OBVIOUS
  <2> HIDE DEF m, n
  <2>5. Normals(m) \o Bytes(copied, u) = Normals(n)
    BY <2>2, <2>4, NormalsGrow
  <2> QED
    BY <2>3, <2>5
<1>6. normal' \in Seq(1..Total)
  <2>1. u \in 0..Total
    BY <1>4, SMT
  <2> HIDE DEF u
  <2> QED
    BY <1>5, <2>1, NormalsType
<1>7. NormalCount' = n
  BY <1>1 DEF NormalCount
<1>8. copied' \in 0..Total /\ delivered' \in copied'..Total
  BY <1>1, <1>4, SMT
<1>9. UrgentTypeOK'
  BY <1>1, <1>6, <1>8 DEF UrgentInv, UrgentTypeOK
<1>10. MarkKept'
  <2>1. urg' = "passed" <=> copied' >= UrgentByte
    BY <1>1, <1>2, <1>4
  <2> QED
    BY <1>1, <1>5, <1>7, <2>1 DEF UrgentInv, MarkKept
<1> QED
  BY <1>9, <1>10 DEF UrgentInv

LEMMA PassKeeps ==
  ASSUME UrgentInv, PassMark, receiver' = receiver, step' \in {"recv", "select", "normal"}
  PROVE  UrgentInv'
<1> USE UrgentNumbers
<1>1. /\ copied = Before /\ urg \in {"valid", "read"} /\ ~sigurg
      /\ copied' = UrgentByte /\ urg' = "passed"
      /\ UNCHANGED <<delivered, hungup, sigurg, signalled, normal, oob>>
  BY DEF PassMark, AtMark
<1>2. delivered >= UrgentByte
  <2>1. urg = "none" <=> delivered < UrgentByte
    BY DEF UrgentInv, MarkKept
  <2> QED
    BY <1>1, <2>1, SMT
<1>3. /\ copied' \in 0..Total /\ delivered' \in copied'..Total /\ copied' >= UrgentByte
      /\ ~(delivered' < UrgentByte)
  BY <1>1, <1>2, SMT
<1>4. NormalCount' = NormalCount
  BY <1>1, SMT DEF NormalCount
<1>5. UrgentTypeOK'
  BY <1>1, <1>3 DEF UrgentInv, UrgentTypeOK
<1>6. MarkKept'
  BY <1>1, <1>3, <1>4 DEF UrgentInv, MarkKept
<1> QED
  BY <1>5, <1>6 DEF UrgentInv

LEMMA CopyUrgentKeeps ==
  ASSUME UrgentInv, CopyUrgent, sigurg' \in {sigurg, FALSE},
         step' \in {step, "select"},
         UNCHANGED <<receiver, delivered, hungup, copied, signalled, normal>>
  PROVE  UrgentInv'
<1>1. /\ oob' = IF urg = "valid" THEN {UrgentByte} ELSE oob
      /\ urg' = IF urg = "valid" THEN "read" ELSE urg
  BY DEF CopyUrgent
<1>2. UrgentTypeOK'
  BY <1>1 DEF UrgentInv, UrgentTypeOK
<1>3. MarkKept'
  <2>1. /\ urg \in {"none", "valid", "read", "passed"} /\ sigurg \in BOOLEAN /\ signalled \in BOOLEAN
        /\ urg = "read" => oob = {UrgentByte}
        /\ sigurg => signalled /\ urg # "passed" /\ urg # "none"
        /\ signalled /\ ~sigurg => oob = {UrgentByte}
    BY DEF UrgentInv, UrgentTypeOK, MarkKept
  <2>2. /\ signalled' /\ ~sigurg' => oob' = {UrgentByte}
        /\ sigurg' => signalled' /\ urg' # "passed" /\ urg' # "none"
        /\ urg' = "read" => oob' = {UrgentByte}
    <3>1. signalled' = signalled /\ (sigurg' = sigurg \/ sigurg' = FALSE)
      OBVIOUS
    <3>2. CASE urg = "valid"
      BY <1>1, <2>1, <3>1, <3>2
    <3>3. CASE urg # "valid"
      BY <1>1, <2>1, <3>1, <3>3
    <3> QED
      BY <3>2, <3>3
  <2>3. NormalCount' = NormalCount
    BY DEF NormalCount
  <2>4. /\ normal' = Normals(NormalCount')
        /\ urg' = "none" <=> delivered' < UrgentByte
        /\ urg' = "passed" <=> copied' >= UrgentByte
        /\ step' = "closed" => copied' = Total
        /\ hungup' => delivered' = Total
    BY <1>1, <2>3 DEF UrgentInv, MarkKept
  <2> QED
    BY <2>2, <2>4 DEF MarkKept
<1> QED
  BY <1>2, <1>3 DEF UrgentInv

LEMMA SegmentKeeps ==
  ASSUME UrgentInv, Segment
  PROVE  UrgentInv'
<1> USE UrgentNumbers
<1>1. PICK n \in delivered + 1..Total :
        /\ delivered' = n
        /\ urg' = IF delivered < UrgentByte /\ UrgentByte <= n THEN "valid" ELSE urg
        /\ sigurg' = (sigurg \/ ((delivered < UrgentByte /\ UrgentByte <= n) /\ Owned))
        /\ signalled' = (signalled \/ ((delivered < UrgentByte /\ UrgentByte <= n) /\ Owned))
  BY DEF Segment
<1>2. step # "closed" /\ UNCHANGED <<receiver, hungup, copied, step, normal, oob>>
  BY DEF Segment
<1>3. /\ urg \in {"none", "valid", "read", "passed"} /\ sigurg \in BOOLEAN /\ signalled \in BOOLEAN
      /\ urg = "none" <=> delivered < UrgentByte
      /\ urg = "passed" <=> copied >= UrgentByte
      /\ urg = "read" => oob = {UrgentByte}
      /\ sigurg => signalled /\ urg # "passed" /\ urg # "none"
      /\ signalled /\ ~sigurg => oob = {UrgentByte}
      /\ hungup => delivered = Total
      /\ normal = Normals(NormalCount)
  BY DEF UrgentInv, UrgentTypeOK, MarkKept
<1>4. /\ delivered' \in copied'..Total /\ delivered < n
      /\ n < UrgentByte => delivered < UrgentByte
      /\ copied >= UrgentByte => ~(delivered < UrgentByte)
      /\ n < UrgentByte <=> ~(UrgentByte <= n)
      /\ delivered # Total
  BY <1>1, <1>2, SMT
<1>5. UrgentTypeOK'
  <2>1. /\ sigurg' \in BOOLEAN /\ signalled' \in BOOLEAN
        /\ urg' \in {"none", "valid", "read", "passed"}
    BY <1>1, <1>3
  <2> QED
    BY <1>2, <1>4, <2>1 DEF UrgentInv, UrgentTypeOK
<1>6. MarkKept'
  <2>1. /\ urg' = "none" <=> delivered' < UrgentByte
        /\ urg' = "passed" <=> copied' >= UrgentByte
        /\ urg' = "read" => oob' = {UrgentByte}
    BY <1>1, <1>2, <1>3, <1>4
  <2>2. /\ sigurg' => signalled' /\ urg' # "passed" /\ urg' # "none"
        /\ signalled' /\ ~sigurg' => oob' = {UrgentByte}
    BY <1>1, <1>2, <1>3, <1>4
  <2>3. NormalCount' = NormalCount /\ ~hungup'
    BY <1>2, <1>3, <1>4 DEF NormalCount
  <2> QED
    BY <1>2, <1>3, <2>1, <2>2, <2>3 DEF MarkKept
<1> QED
  BY <1>5, <1>6 DEF UrgentInv

(* Nothing but hungup and the step changes.                                *)
LEMMA UrgentFrame ==
  ASSUME UrgentInv, hungup' = hungup \/ (hungup' = TRUE /\ delivered = Total),
         step' \in {"setup", "recv", "select", "normal", "oob", "closed"},
         step' = "closed" => copied = Total,
         UNCHANGED <<receiver, delivered, copied, urg, sigurg, signalled, normal, oob>>
  PROVE  UrgentInv'
<1>1. UrgentTypeOK'
  BY DEF UrgentInv, UrgentTypeOK
<1>2. MarkKept'
  BY DEF UrgentInv, MarkKept, NormalCount
<1> QED
  BY <1>1, <1>2 DEF UrgentInv

LEMMA UrgentNextInv == UrgentInv /\ [UrgentNext]_urgentVars => UrgentInv'
<1> SUFFICES ASSUME UrgentInv, [UrgentNext]_urgentVars PROVE UrgentInv'
  OBVIOUS
<1>0. /\ step \in {"setup", "recv", "select", "normal", "oob", "closed"}
      /\ step = "closed" => copied = Total
      /\ hungup => delivered = Total
  BY DEF UrgentInv, UrgentTypeOK, MarkKept
<1>1. CASE Segment
  BY <1>1, SegmentKeeps
<1>2. CASE HangUp
  BY <1>0, <1>2, UrgentFrame DEF HangUp
<1>3. CASE SetOwner \/ SigurgEnd \/ Select \/ SelectEnd
  <2>1. /\ UNCHANGED <<receiver, delivered, hungup, copied, urg, sigurg, signalled, normal, oob>>
        /\ step' \in {"setup", "recv", "select", "normal", "oob", "closed"}
        /\ step' = "closed" => copied = Total
    BY <1>3 DEF SetOwner, SigurgEnd, Select, SelectEnd, AtEndOfStream, socketVars
  <2> QED
    BY <2>1, UrgentFrame
<1>4. CASE SigUrg
  BY <1>4, CopyUrgentKeeps DEF SigUrg, Restarted
<1>5. CASE SigurgRecv
  <2>1. receiver' = receiver /\ step' \in {"recv", "select", "normal"} /\ (CopyNormal \/ PassMark)
    BY <1>5 DEF SigurgRecv
  <2> QED
    BY <2>1, CopyKeeps, PassKeeps
<1>6. CASE SelectRecv
  <2>1. receiver' = receiver /\ step' \in {"recv", "select", "normal"} /\ (CopyNormal \/ PassMark)
    BY <1>6 DEF SelectRecv
  <2> QED
    BY <2>1, CopyKeeps, PassKeeps
<1>7. CASE SelectOob
  BY <1>7, CopyUrgentKeeps DEF SelectOob
<1>8. CASE UNCHANGED urgentVars
  BY <1>0, <1>8, UrgentFrame DEF urgentVars, socketVars
<1> QED
  BY <1>1, <1>2, <1>3, <1>4, <1>5, <1>6, <1>7, <1>8 DEF UrgentNext, Receiver

(* The invariant of both receivers, for every length of the stream.        *)
THEOREM UrgentInductive == UrgentSpec => []UrgentInv
BY UrgentInitInv, UrgentNextInv, PTL DEF UrgentSpec

(* The stream is never closed before it was read whole, in order, without  *)
(* the urgent byte, and with that byte in hand if SIGURG was sent: the     *)
(* safety half of StreamRead, for both receivers.                          *)
THEOREM UrgentKept == UrgentSpec => []WholeStream
<1>1. UrgentInv => WholeStream
  <2> SUFFICES ASSUME UrgentInv, step = "closed"
               PROVE  /\ normal = [k \in 1..Before + Behind |-> IF k <= Before THEN k ELSE k + 1]
                      /\ signalled => oob = {UrgentByte}
    BY DEF WholeStream
  <2>1. copied = Total /\ normal = Normals(NormalCount)
    BY DEF UrgentInv, MarkKept
  <2>2. NormalCount = Before + Behind /\ copied >= UrgentByte
    BY <2>1, UrgentConstants, SMT DEF NormalCount
  <2>3. ~sigurg
    BY <2>2 DEF UrgentInv, MarkKept
  <2> QED
    BY <2>1, <2>2, <2>3 DEF UrgentInv, MarkKept, Normals
<1> QED
  BY <1>1, UrgentInductive, PTL

-----------------------------------------------------------------------------
(* The run of all the programs: what is proved of each of them alone holds *)
(* there too.                                                              *)

LEMMA MCStep ==
  ASSUME [MCNext]_vars
  PROVE  /\ [Enter]_<<stl, expire>> /\ [WheelNext]_wheelVars /\ [ClientNext]_clientVars
         /\ [ModesNext]_modesVars /\ [SignalsNext]_signalVars /\ [UrgentNext]_urgentVars
         /\ [SemNext]_semVars
<1>1. CASE UNCHANGED vars
  BY <1>1 DEF vars, testVars
<1>2. CASE program = "timers" /\ Enter /\ NotTest
  BY <1>2 DEF NotTest
<1>3. CASE program = "wheel" /\ WheelNext /\ NotWheel
  BY <1>3 DEF NotWheel, testVars
<1>4. CASE program = "client" /\ ClientNext /\ NotClient
  BY <1>4 DEF NotClient, testVars
<1>5. CASE program = "modes" /\ ModesNext /\ NotModes
  BY <1>5 DEF NotModes, testVars
<1>6. CASE program = "signals" /\ SignalsNext /\ NotSignals
  BY <1>6 DEF NotSignals, testVars
<1>7. CASE program = "urgent" /\ UrgentNext /\ NotUrgent
  BY <1>7 DEF NotUrgent, testVars
<1>8. CASE program = "semaphore" /\ SemNext /\ NotSem
  BY <1>8 DEF NotSem, testVars
<1> QED
  BY <1>1, <1>2, <1>3, <1>4, <1>5, <1>6, <1>7, <1>8 DEF MCNext

(* Together they behave as each of them does alone.                        *)
THEOREM EachAsAlone ==
  MCSpec => /\ TestSpec /\ WheelSpec /\ ClientSpec /\ ModesSpec
            /\ SignalsSpec /\ UrgentSpec /\ SemSpec
<1>1. MCInit => /\ TestInit /\ WheelInit /\ ClientInit /\ ModesInit
                /\ SignalsInit /\ UrgentInit /\ SemInit
  BY DEF MCInit
<1>2. [MCNext]_vars =>
        /\ [Enter]_<<stl, expire>> /\ [WheelNext]_wheelVars /\ [ClientNext]_clientVars
        /\ [ModesNext]_modesVars /\ [SignalsNext]_signalVars /\ [UrgentNext]_urgentVars
        /\ [SemNext]_semVars
  BY MCStep
<1> QED
  BY <1>1, <1>2, PTL DEF MCSpec, TestSpec, WheelSpec, ClientSpec, ModesSpec, SignalsSpec,
                         UrgentSpec, SemSpec

(* The variables of all the programs keep their types, for all values of   *)
(* the bounds.                                                             *)
THEOREM ProgramTypesCorrect == MCSpec => []ProgramTypesOK
<1>1. TestInv /\ WheelInv /\ ClientInv /\ ModesInv /\ SignalsInv /\ UrgentInv /\ SemInv => ProgramTypesOK
  BY DEF TestInv, Intact, WheelInv, ClientInv, ModesInv, SignalsInv, UrgentInv, SemInv, ProgramTypesOK
<1> QED
  BY <1>1, EachAsAlone, TestInductive, WheelInductive, ClientInductive, ModesInductive,
     SignalsInductive, UrgentInductive, SemInductive, PTL
=============================================================================
