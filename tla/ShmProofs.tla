------------------------------- MODULE ShmProofs -------------------------------
(***************************************************************************)
(* The parent of the shared-memory chat room, for every number of clients  *)
(* and every USER_LIMIT: its tables are its children, it forgets no exit,  *)
(* stops with one user at most, and keeps the roster. The tables are right *)
(* because users and sub_process are inverse to each other on the entries  *)
(* in use, and because nobody comes back from the backlog: a connection    *)
(* has no child until it is accepted, and is accepted once.                *)
(***************************************************************************)
EXTENDS ShmChat, SequenceTheorems, FunctionTheorems, FiniteSetTheorems, TLAPS

Places == 0..user_count - 1
Unreaped == Live \cup {"zombie"}

EntriesAreChildren ==
  \A k \in Places : users[k] \in Conns /\ cpc[users[k]] \in Unreaped /\ sub_process[users[k]] = k
ChildrenListed ==
  \A c \in Conns : cpc[c] \in Unreaped => sub_process[c] \in Places /\ users[sub_process[c]] = c

QueuedIsIn == \A k \in 1..Len(backlog) : conn[backlog[k]] = "queued"
QueuedOnce == \A j, k \in 1..Len(backlog) : backlog[j] = backlog[k] => j = k
NotStarted == \A c \in Conns : conn[c] \in {"idle", "queued"} => cpc[c] = "none"
ExitCloses == \A c \in Conns : cpc[c] \in {"zombie", "reaped"} => conn[c] = "closed"

Table   == EntriesAreChildren /\ ChildrenListed
Arrival == QueuedIsIn /\ QueuedOnce /\ NotStarted /\ ExitCloses

IInv == TypeOK /\ Table /\ Arrival

-----------------------------------------------------------------------------
LEMMA Bounds ==
  ASSUME TypeOK
  PROVE  UserLimit \in Nat /\ UserLimit # 0 /\ user_count \in Nat /\ user_count <= UserLimit
BY ShmAssumption DEF TypeOK, ShmAssumption

LEMMA QueueTail ==
  ASSUME NEW S, NEW s \in Seq(S), s # <<>>
  PROVE  /\ Head(s) = s[1] /\ 1 \in 1..Len(s) /\ Tail(s) \in Seq(S) /\ Head(s) \in S
         /\ \A k \in 1..Len(Tail(s)) :
              Tail(s)[k] = s[k + 1] /\ k + 1 \in 1..Len(s) /\ k \in Nat \ {0}
<1>1. Len(s) \in Nat /\ Len(s) # 0
  BY LenProperties, EmptySeq
<1>2. Tail(s) \in Seq(S) /\ Len(Tail(s)) = Len(s) - 1 /\ \A k \in 1..Len(Tail(s)) : Tail(s)[k] = s[k + 1]
  BY HeadTailProperties
<1>3. Head(s) = s[1] /\ Head(s) \in S
  BY <1>1, ElementOfSeq
<1> QED
  BY <1>1, <1>2, <1>3

LEMMA QueueAppend ==
  ASSUME NEW S, NEW s \in Seq(S), NEW x \in S
  PROVE  /\ Len(s) \in Nat /\ Append(s, x) \in Seq(S)
         /\ Append(s, x)[Len(s) + 1] = x
         /\ \A k \in 1..Len(s) : Append(s, x)[k] = s[k]
         /\ \A k \in 1..Len(Append(s, x)) : k \in 1..Len(s) \/ k = Len(s) + 1
<1>1. Len(s) \in Nat
  BY LenProperties
<1> QED
  BY <1>1, AppendProperties

(* Who is next in the backlog.                                             *)
LEMMA NextInLine ==
  ASSUME IInv, backlog # <<>>
  PROVE  Head(backlog) \in Conns /\ conn[Head(backlog)] = "queued" /\ cpc[Head(backlog)] = "none"
<1>1. Head(backlog) = backlog[1] /\ 1 \in 1..Len(backlog) /\ Head(backlog) \in Conns
  BY QueueTail DEF IInv, TypeOK
<1> QED
  BY <1>1 DEF IInv, Arrival, QueuedIsIn, NotStarted

-----------------------------------------------------------------------------
(* Types.                                                                  *)

LEMMA TypeClient ==
  ASSUME TypeOK, NEW c \in Conns, Connect(c) \/ ClientSend(c) \/ ClientClose(c) \/ Terminate
  PROVE  TypeOK'
<1>1. CASE Connect(c)
  BY <1>1, QueueAppend DEF TypeOK, Connect, clientVars, tableVars, stopVars, childVars
<1>2. CASE ClientSend(c)
  BY <1>2 DEF TypeOK, ClientSend, ConnEdge, parentVars, tableVars, stopVars
<1>3. CASE ClientClose(c)
  BY <1>3 DEF TypeOK, ClientClose, ConnEdge, parentVars, tableVars, stopVars
<1>4. CASE Terminate
  BY <1>4 DEF TypeOK, Terminate, clientVars, tableVars, stopVars, childVars
<1> QED
  BY <1>1, <1>2, <1>3, <1>4

LEMMA TypeChild ==
  ASSUME TypeOK, NEW c \in Conns, Child(c)
  PROVE  TypeOK'
<1>1. CASE ChildStart(c)
  <2>1. cpc' \in [Conns -> Live \cup {"none", "zombie", "reaped"}]
    BY <1>1 DEF TypeOK, ChildStart, Live
  <2> QED
    BY <1>1, <2>1 DEF TypeOK, ChildStart, clientVars, parentVars, tableVars, stopVars
<1>2. CASE ChildWait(c)
  BY <1>2 DEF TypeOK, ChildWait, Live, clientVars, parentVars, tableVars, stopVars
<1>3. CASE ChildRead(c)
  <2>1. shm' \in [0..UserLimit - 1 -> Conns \cup {None}]
    <3>1. shm' = [shm EXCEPT ![idx[c]] = c] \/ shm' = [shm EXCEPT ![idx[c]] = None]
      BY <1>3 DEF ChildRead
    <3> QED
      BY <3>1, ZenonT(40) DEF TypeOK
  <2>2. toParent' \in [Conns -> Seq(0..UserLimit - 1)]
    <3>1. idx[c] \in 0..UserLimit - 1 /\ toParent[c] \in Seq(0..UserLimit - 1)
      BY DEF TypeOK
    <3>2. Append(toParent[c], idx[c]) \in Seq(0..UserLimit - 1)
      BY <3>1, QueueAppend
    <3>3. toParent' = toParent \/ toParent' = [toParent EXCEPT ![c] = Append(toParent[c], idx[c])]
      BY <1>3 DEF ChildRead
    <3>4. toParent \in [Conns -> Seq(0..UserLimit - 1)]
      BY DEF TypeOK
    <3> QED
      BY <3>2, <3>3, <3>4
  <2>3. stop_child' \in [Conns -> BOOLEAN] /\ pready' \subseteq Conns \cup {"listen", "sig"} /\ input' \subseteq Conns
    BY <1>3, ZenonT(40) DEF TypeOK, ChildRead
  <2> QED
    BY <1>3, <2>1, <2>2, <2>3 DEF TypeOK, ChildRead, ChildHandle, tableVars, stopVars
<1>4. CASE ChildSend(c)
  <2>1. toChild[c] \in Seq(0..UserLimit - 1)
    BY DEF TypeOK
  <2>2. toChild[c] # <<>> => Tail(toChild[c]) \in Seq(0..UserLimit - 1) /\ Head(toChild[c]) \in 0..UserLimit - 1
    BY <2>1, QueueTail
  <2>3. toChild' \in [Conns -> Seq(0..UserLimit - 1)] /\ got' \in [Conns -> SUBSET Conns]
    <3>1. CASE toChild[c] = <<>>
      BY <1>4, <3>1 DEF TypeOK, ChildSend
    <3>2. CASE toChild[c] # <<>>
      <4>1. /\ toChild' = [toChild EXCEPT ![c] = Tail(toChild[c])]
            /\ got' = [got EXCEPT ![c] = @ \cup ({shm[Head(toChild[c])]} \ {None})]
        BY <1>4, <3>2 DEF ChildSend
      <4>2. shm[Head(toChild[c])] \in Conns \cup {None}
        BY <2>2, <3>2 DEF TypeOK
      <4>3. got' \in [Conns -> SUBSET Conns]
        BY <4>1, <4>2 DEF TypeOK
      <4>4. toChild' \in [Conns -> Seq(0..UserLimit - 1)]
        BY <2>2, <3>2, <4>1 DEF TypeOK
      <4> QED
        BY <4>3, <4>4
    <3> QED
      BY <3>1, <3>2
  <2>4. stop_child' \in [Conns -> BOOLEAN]
    BY <1>4 DEF TypeOK, ChildSend
  <2> QED
    BY <1>4, <2>3, <2>4 DEF TypeOK, ChildSend, ChildHandle, tableVars, stopVars
<1>5. CASE ChildLoop(c)
  BY <1>5 DEF TypeOK, ChildLoop, Live, clientVars, parentVars, tableVars, stopVars
<1>6. CASE ChildExit(c)
  <2>1. pready' \subseteq Conns \cup {"listen", "sig"} /\ sigpipe' \subseteq {"CHLD", "TERM"}
    <3>1. \/ pready' = pready /\ sigpipe' = sigpipe
          \/ pready' = pready \cup {c, "sig"} /\ sigpipe' = sigpipe \cup {"CHLD"}
      BY <1>6 DEF ChildExit
    <3> QED
      BY <3>1 DEF TypeOK
  <2>2. /\ cpc' \in [Conns -> Live \cup {"none", "zombie", "reaped"}]
        /\ conn' \in [Conns -> {"idle", "queued", "open", "closed"}]
        /\ input' \subseteq Conns /\ cready' \in [Conns -> SUBSET {"conn", "pipe"}]
    BY <1>6 DEF TypeOK, ChildExit
  <2> QED
    BY <1>6, <2>1, <2>2 DEF TypeOK, ChildExit, tableVars, stopVars
<1> QED
  BY <1>1, <1>2, <1>3, <1>4, <1>5, <1>6 DEF Child

LEMMA TypeAccept ==
  ASSUME IInv, NEW c \in Conns, NEW status \in {"open", "closed"}, Accept(c, status)
  PROVE  /\ backlog' \in Seq(Conns) /\ conn' \in [Conns -> {"idle", "queued", "open", "closed"}]
         /\ pbatch' \subseteq Conns \cup {"listen", "sig"}
BY QueueTail DEF IInv, TypeOK, Accept, Handle

LEMMA TypeEvent == ASSUME IInv, ParentEvent PROVE TypeOK'
<1>1. CASE AcceptFails \/ ReadSignals
  BY <1>1, ZenonT(40) DEF IInv, TypeOK, AcceptFails, ReadSignals, Handle, clientVars, tableVars, stopVars, childVars
<1>2. ASSUME NEW c \in Conns, Refuse(c) \/ ForkFails(c) PROVE TypeOK'
  <2>1. Accept(c, "closed") /\ UNCHANGED <<tableVars, childVars>>
    BY <1>2 DEF Refuse, ForkFails
  <2> QED
    BY <2>1, TypeAccept DEF IInv, TypeOK, Accept, Handle, clientVars, tableVars, stopVars, childVars
<1>3. ASSUME NEW c \in Conns, Fork(c) PROVE TypeOK'
  <2>1. Accept(c, "open")
    BY <1>3 DEF Fork
  <2>2. user_count \in 0..UserLimit - 1 /\ user_count \in 0..UserLimit /\ user_count + 1 \in 0..UserLimit
        /\ user_count \in -1..UserLimit
    BY <1>3, Bounds DEF IInv, Fork, Room
  <2>3. /\ users' \in [0..UserLimit -> Conns \cup {None}] /\ user_count' \in 0..UserLimit
        /\ sub_process' \in [Conns -> -1..UserLimit] /\ idx' \in [Conns -> 0..UserLimit - 1]
        /\ cpc' \in [Conns -> Live \cup {"none", "zombie", "reaped"}]
    BY <1>3, <2>2 DEF IInv, TypeOK, Fork, Live
  <2> QED
    <3>1. /\ backlog' \in Seq(Conns) /\ conn' \in [Conns -> {"idle", "queued", "open", "closed"}]
          /\ pbatch' \subseteq Conns \cup {"listen", "sig"}
      BY <2>1, TypeAccept
    <3>2. UNCHANGED <<clientVars, got, ppc, pready, sigpipe, sigs, stopVars, stop_child, cready, cbatch,
                      toParent, toChild, shm>>
      BY <1>3, <2>1 DEF Fork, Accept, Handle
    <3> QED
      BY <2>3, <3>1, <3>2 DEF IInv, TypeOK, clientVars, stopVars
<1>4. ASSUME NEW c \in Conns, Forward(c) PROVE TypeOK'
  <2>1. toParent' \in [Conns -> Seq(0..UserLimit - 1)] /\ toChild' \in [Conns -> Seq(0..UserLimit - 1)]
        /\ cready' \in [Conns -> SUBSET {"conn", "pipe"}]
    <3>1. CASE toParent[c] = <<>>
      BY <1>4, <3>1 DEF IInv, TypeOK, Forward
    <3>2. CASE toParent[c] # <<>>
      <4>1. /\ toParent' = [toParent EXCEPT ![c] = Tail(@)]
            /\ toChild' = [d \in Conns |-> IF d \in Killed \ {c}
                              THEN Append(toChild[d], Head(toParent[c])) ELSE toChild[d]]
            /\ cready' = [d \in Conns |-> IF d \in Killed \ {c} THEN cready[d] \cup {"pipe"} ELSE cready[d]]
        BY <1>4, <3>2 DEF Forward
      <4>2. Tail(toParent[c]) \in Seq(0..UserLimit - 1) /\ Head(toParent[c]) \in 0..UserLimit - 1
        BY <3>2, QueueTail DEF IInv, TypeOK
      <4>3. \A d \in Conns : Append(toChild[d], Head(toParent[c])) \in Seq(0..UserLimit - 1)
        BY <4>2, QueueAppend DEF IInv, TypeOK
      <4>4. toChild' \in [Conns -> Seq(0..UserLimit - 1)]
        BY <4>1, <4>3 DEF IInv, TypeOK
      <4> QED
        BY <4>1, <4>2, <4>4 DEF IInv, TypeOK
    <3> QED
      BY <3>1, <3>2
  <2> QED
    BY <1>4, <2>1 DEF IInv, TypeOK, Forward, Handle, clientVars, tableVars, stopVars
<1> QED
  BY <1>1, <1>2, <1>3, <1>4 DEF ParentEvent

LEMMA TypeReap ==
  ASSUME IInv, NEW c \in Conns, ReapOne(c)
  PROVE  TypeOK'
<1> DEFINE d == sub_process[c]
<1>1. d \in Places /\ users[d] = c /\ cpc[c] = "zombie"
  BY DEF ReapOne, IInv, Table, ChildrenListed, Unreaped
<1>2. d \in 0..UserLimit /\ d \in -1..UserLimit /\ user_count - 1 \in 0..UserLimit /\ ~(d < 0 \/ d > UserLimit)
      /\ user_count - 1 \in Places
  BY <1>1, Bounds DEF IInv, Places
<1> HIDE DEF d
<1>3. /\ pready' = pready \ {users[d]}
      /\ toParent' = [toParent EXCEPT ![users[d]] = <<>>] /\ toChild' = [toChild EXCEPT ![users[d]] = <<>>]
      /\ users' = [users EXCEPT ![d] = users[user_count - 1]]
      /\ user_count' = user_count - 1 /\ sub_process' = Moved(c, d)
  BY <1>2 DEF ReapOne, d
<1>4. users' \in [0..UserLimit -> Conns \cup {None}] /\ users'[d] = users[user_count - 1]
      /\ users[user_count - 1] \in Conns
  BY <1>2, <1>3 DEF IInv, TypeOK, Table, EntriesAreChildren
<1>5. sub_process' \in [Conns -> -1..UserLimit]
  <2>1. -1 \in -1..UserLimit
    BY Bounds DEF IInv
  <2> QED
    BY <1>2, <1>3, <1>4, <2>1 DEF IInv, TypeOK, Moved
<1>6. toParent' \in [Conns -> Seq(0..UserLimit - 1)] /\ toChild' \in [Conns -> Seq(0..UserLimit - 1)]
  <2>1. <<>> \in Seq(0..UserLimit - 1)
    BY EmptySeq
  <2> QED
    BY <1>3, <2>1 DEF IInv, TypeOK
<1>7. cpc' \in [Conns -> Live \cup {"none", "zombie", "reaped"}] /\ sigs' = sigs
  BY DEF IInv, TypeOK, ReapOne, AfterReap
<1>8. UNCHANGED <<backlog, conn, clientVars, got, ppc, pbatch, sigpipe, stopVars, idx,
                  stop_child, cready, cbatch, shm>>
  BY DEF ReapOne
<1> QED
  BY <1>2, <1>3, <1>4, <1>5, <1>6, <1>7, <1>8 DEF IInv, TypeOK, clientVars, stopVars

LEMMA TypeParent ==
  ASSUME IInv, ParentWait \/ ReapDone \/ HandleTerm \/ ParentLoop
  PROVE  TypeOK'
<1>1. CASE ParentWait
  BY <1>1 DEF IInv, TypeOK, ParentWait, clientVars, tableVars, stopVars, childVars
<1>2. CASE ReapDone
  <2>1. stop_server' \in BOOLEAN
    BY <1>2 DEF ReapDone
  <2> QED
    BY <1>2, <2>1 DEF IInv, TypeOK, ReapDone, clientVars, tableVars, childVars
<1>3. CASE HandleTerm
  <2>1. cpc' \in [Conns -> Live \cup {"none", "zombie", "reaped"}]
    BY <1>3 DEF IInv, TypeOK, HandleTerm, Live
  <2>2. stop_child' \in [Conns -> BOOLEAN] /\ stop_server' \in BOOLEAN /\ terminate' \in BOOLEAN
    BY <1>3 DEF IInv, TypeOK, HandleTerm
  <2>3. sigpipe' \subseteq {"CHLD", "TERM"} /\ pready' \subseteq Conns \cup {"listen", "sig"}
    BY <1>3 DEF IInv, TypeOK, HandleTerm
  <2> QED
    BY <1>3, <2>1, <2>2, <2>3 DEF IInv, TypeOK, HandleTerm, clientVars, tableVars
<1>4. CASE ParentLoop
  <2>1. cready' \in [Conns -> SUBSET {"conn", "pipe"}] /\ ppc' \in {"wait", "scan", "end"}
    <3>1. \/ cready' = cready
          \/ cready' = [c \in Conns |-> IF cpc[c] \in Live THEN cready[c] \cup {"pipe"} ELSE cready[c]]
      BY <1>4 DEF ParentLoop
    <3>2. cready' \in [Conns -> SUBSET {"conn", "pipe"}]
      <4>1. \A c \in Conns : cready[c] \cup {"pipe"} \in SUBSET {"conn", "pipe"}
        BY DEF IInv, TypeOK
      <4>2. cready \in [Conns -> SUBSET {"conn", "pipe"}]
        BY DEF IInv, TypeOK
      <4> QED
        BY <3>1, <4>1, <4>2
    <3>3. ppc' \in {"wait", "end"}
      BY <1>4 DEF ParentLoop
    <3> QED
      BY <3>2, <3>3
  <2> QED
    BY <1>4, <2>1 DEF IInv, TypeOK, ParentLoop, clientVars, tableVars, stopVars
<1> QED
  BY <1>1, <1>2, <1>3, <1>4

LEMMA TypeStep == IInv /\ [Next]_vars => TypeOK'
<1> SUFFICES ASSUME IInv, [Next]_vars PROVE TypeOK'
  OBVIOUS
<1>1. CASE UNCHANGED vars
  BY <1>1 DEF IInv, TypeOK, vars, clientVars, parentVars, tableVars, stopVars, childVars
<1>2. CASE Terminate
  BY <1>2 DEF IInv, TypeOK, Terminate, clientVars, tableVars, stopVars, childVars
<1> QED
  BY <1>1, <1>2, TypeClient, TypeChild, TypeEvent, TypeReap, TypeParent
     DEF IInv, Next, Parent, ParentSignal, Client

-----------------------------------------------------------------------------
(* The tables and the children.                                            *)

LEMMA TableFrame ==
  ASSUME IInv, UNCHANGED tableVars, \A c \in Conns : cpc'[c] \in Unreaped <=> cpc[c] \in Unreaped
  PROVE  Table'
BY DEF IInv, Table, EntriesAreChildren, ChildrenListed, Places, tableVars

LEMMA TableFork ==
  ASSUME IInv, NEW c \in Conns, Fork(c)
  PROVE  Table'
<1>1. c = Head(backlog) /\ cpc[c] = "none"
  BY NextInLine DEF Fork, Accept
<1>2. /\ users' = [users EXCEPT ![user_count] = c] /\ user_count' = user_count + 1
      /\ sub_process' = [sub_process EXCEPT ![c] = user_count] /\ cpc' = [cpc EXCEPT ![c] = "forked"]
  BY DEF Fork
<1>3. user_count \in 0..UserLimit /\ user_count \notin Places /\ Places' = Places \cup {user_count}
      /\ \A k \in Places : k \in 0..UserLimit
  BY <1>2, Bounds DEF IInv, Fork, Room, Places
<1>4. "forked" \in Unreaped /\ "none" \notin Unreaped
  BY DEF Unreaped, Live
<1>5. users'[user_count] = c /\ \A k \in Places : users'[k] = users[k] /\ users[k] # c
  BY <1>1, <1>2, <1>3, <1>4 DEF IInv, TypeOK, Table, EntriesAreChildren
<1>6. /\ sub_process'[c] = user_count /\ cpc'[c] = "forked"
      /\ \A d \in Conns : d # c => sub_process'[d] = sub_process[d] /\ cpc'[d] = cpc[d]
  BY <1>2 DEF IInv, TypeOK
<1>7. EntriesAreChildren'
  BY <1>3, <1>4, <1>5, <1>6 DEF IInv, Table, EntriesAreChildren
<1>8. ChildrenListed'
  BY <1>3, <1>5, <1>6 DEF IInv, Table, ChildrenListed
<1> QED
  BY <1>7, <1>8 DEF Table

(* What one turn of the waitpid() loop does when the table is right.       *)
LEMMA ReapWhat ==
  ASSUME IInv, NEW c \in Conns, ReapOne(c)
  PROVE  \E d \in Places, e \in Conns :
           /\ users[d] = c /\ e = users[user_count - 1] /\ cpc[c] = "zombie"
           /\ sub_process[c] = d /\ sub_process[e] = user_count - 1
           /\ users' = [users EXCEPT ![d] = e] /\ user_count' = user_count - 1
           /\ sub_process' = [sub_process EXCEPT ![c] = -1, ![e] = d]
           /\ cpc' = [cpc EXCEPT ![c] = "reaped"] /\ pready' = pready \ {c}
           /\ Places' = Places \ {user_count - 1} /\ user_count - 1 \in Places
           /\ \A k \in Places : k \in 0..UserLimit /\ k # -1
<1>1. PICK d \in Places : d = sub_process[c] /\ users[d] = c /\ cpc[c] = "zombie"
  BY DEF ReapOne, IInv, Table, ChildrenListed, Unreaped
<1>2. /\ d \in 0..UserLimit /\ ~(d < 0 \/ d > UserLimit) /\ user_count - 1 \in Places
      /\ \A k \in Places : k \in 0..UserLimit /\ k # -1
  BY <1>1, Bounds DEF IInv, Places
<1>3. PICK e \in Conns : e = users[user_count - 1] /\ sub_process[e] = user_count - 1
  BY <1>2 DEF IInv, Table, EntriesAreChildren
<1>4. /\ pready' = pready \ {users[d]} /\ users' = [users EXCEPT ![d] = users[user_count - 1]]
      /\ user_count' = user_count - 1 /\ sub_process' = Moved(c, d)
      /\ cpc' = [cpc EXCEPT ![c] = "reaped"]
  BY <1>1, <1>2 DEF ReapOne
<1>5. users'[d] = e
  BY <1>2, <1>3, <1>4 DEF IInv, TypeOK
<1>6. sub_process' = [sub_process EXCEPT ![c] = -1, ![e] = d]
  BY <1>4, <1>5 DEF Moved
<1>7. Places' = Places \ {user_count - 1}
  BY <1>2, <1>4, Bounds DEF IInv, Places
<1> QED
  BY <1>1, <1>2, <1>3, <1>4, <1>6, <1>7

LEMMA TableReap ==
  ASSUME IInv, NEW c \in Conns, ReapOne(c)
  PROVE  Table'
<1>1. PICK d \in Places, e \in Conns :
           /\ users[d] = c /\ e = users[user_count - 1] /\ cpc[c] = "zombie"
           /\ sub_process[c] = d /\ sub_process[e] = user_count - 1
           /\ users' = [users EXCEPT ![d] = e] /\ user_count' = user_count - 1
           /\ sub_process' = [sub_process EXCEPT ![c] = -1, ![e] = d]
           /\ cpc' = [cpc EXCEPT ![c] = "reaped"] /\ pready' = pready \ {c}
           /\ Places' = Places \ {user_count - 1} /\ user_count - 1 \in Places
           /\ \A k \in Places : k \in 0..UserLimit /\ k # -1
  BY ReapWhat
<1>2. "reaped" \notin Unreaped
  BY DEF Unreaped, Live
<1>3. users'[d] = e /\ \A k \in Places : k # d => users'[k] = users[k]
  BY <1>1 DEF IInv, TypeOK
<1>4. cpc'[c] = "reaped" /\ \A b \in Conns : b # c => cpc'[b] = cpc[b]
  BY <1>1 DEF IInv, TypeOK
<1>5. sub_process'[e] = d /\ \A b \in Conns : b # c /\ b # e => sub_process'[b] = sub_process[b]
  BY <1>1 DEF IInv, TypeOK
<1>6. \A k \in Places : users[k] \in Conns /\ cpc[users[k]] \in Unreaped /\ sub_process[users[k]] = k
  BY DEF IInv, Table, EntriesAreChildren
<1>7. EntriesAreChildren'
  <2>1. SUFFICES ASSUME NEW k \in Places, k # user_count - 1
                 PROVE  users'[k] \in Conns /\ cpc'[users'[k]] \in Unreaped /\ sub_process'[users'[k]] = k
    BY <1>1 DEF EntriesAreChildren
  <2>2. CASE k = d
    <3>1. e # c
      BY <1>1, <2>1, <2>2
    <3> QED
      BY <1>1, <1>3, <1>4, <1>5, <1>6, <2>2, <3>1
  <2>3. CASE k # d
    <3>1. users[k] # c /\ users[k] # e
      BY <1>1, <1>6, <2>1, <2>3
    <3> QED
      BY <1>3, <1>4, <1>5, <1>6, <2>1, <2>3, <3>1
  <2> QED
    BY <2>2, <2>3
<1>8. ChildrenListed'
  <2>1. SUFFICES ASSUME NEW b \in Conns, cpc'[b] \in Unreaped
                 PROVE  sub_process'[b] \in Places' /\ users'[sub_process'[b]] = b
    BY DEF ChildrenListed
  <2>2. b # c /\ sub_process[b] \in Places /\ users[sub_process[b]] = b
    BY <1>2, <1>4, <2>1 DEF IInv, Table, ChildrenListed
  <2>3. CASE b = e
    <3>1. d # user_count - 1
      BY <1>1, <2>2, <2>3
    <3> QED
      BY <1>1, <1>3, <1>5, <2>3, <3>1
  <2>4. CASE b # e
    <3>1. sub_process'[b] = sub_process[b] /\ sub_process[b] # d /\ sub_process[b] # user_count - 1
      BY <1>1, <1>5, <2>2, <2>4
    <3> QED
      BY <1>1, <1>3, <2>2, <3>1
  <2> QED
    BY <2>3, <2>4
<1> QED
  BY <1>7, <1>8 DEF Table

(* How a step changes what its children are, and whether they are reaped.  *)
LEMMA ChildSteps ==
  ASSUME IInv, [Next]_vars
  PROVE  \/ \E c \in Conns : Fork(c) \/ ReapOne(c)
         \/ /\ UNCHANGED tableVars
            /\ \A c \in Conns : cpc'[c] \in Unreaped <=> cpc[c] \in Unreaped
<1>1. ASSUME NEW c \in Conns, ChildStart(c) \/ ChildWait(c) \/ ChildLoop(c)
      PROVE  UNCHANGED tableVars /\ \A b \in Conns : cpc'[b] \in Unreaped <=> cpc[b] \in Unreaped
  BY <1>1 DEF ChildStart, ChildWait, ChildLoop, IInv, TypeOK, Unreaped, Live
<1>2. ASSUME NEW c \in Conns, ChildExit(c)
      PROVE  UNCHANGED tableVars /\ \A b \in Conns : cpc'[b] \in Unreaped <=> cpc[b] \in Unreaped
  BY <1>2 DEF ChildExit, IInv, TypeOK, Unreaped, Live
<1>3. CASE HandleTerm
  <2>1. UNCHANGED tableVars /\ \A b \in Conns : cpc'[b] \in Unreaped <=> cpc[b] \in Unreaped
    BY <1>3 DEF HandleTerm, IInv, TypeOK, Unreaped, Live
  <2> QED
    BY <2>1
<1>4. CASE \/ \E c \in Conns : Connect(c) \/ ClientSend(c) \/ ClientClose(c) \/ Refuse(c) \/ ForkFails(c)
                              \/ Forward(c) \/ ChildRead(c) \/ ChildSend(c)
           \/ Terminate \/ ParentWait \/ AcceptFails \/ ReadSignals \/ ReapDone \/ ParentLoop
           \/ UNCHANGED vars
  BY <1>4 DEF Connect, ClientSend, ClientClose, Refuse, ForkFails, Forward, ChildRead, ChildSend,
     ChildHandle, Terminate, ParentWait, AcceptFails, ReadSignals, ReapDone, ParentLoop, vars, childVars
<1> QED
  BY <1>1, <1>2, <1>3, <1>4 DEF Next, Parent, ParentEvent, ParentSignal, Child, Client

LEMMA TableStep == IInv /\ [Next]_vars => Table'
BY ChildSteps, TableFrame, TableFork, TableReap

-----------------------------------------------------------------------------
(* Who has come and not been accepted.                                     *)

LEMMA ArrivalFrame ==
  ASSUME IInv, UNCHANGED <<backlog, conn>>,
         \A c \in Conns : /\ cpc[c] = "none" => cpc'[c] = "none"
                          /\ cpc'[c] \in {"zombie", "reaped"} => cpc[c] \in {"zombie", "reaped"}
  PROVE  Arrival'
BY DEF IInv, Arrival, QueuedIsIn, QueuedOnce, NotStarted, ExitCloses

LEMMA ArrivalConnect ==
  ASSUME IInv, NEW c \in Conns, Connect(c)
  PROVE  Arrival'
<1>1. /\ conn[c] = "idle" /\ backlog' = Append(backlog, c) /\ conn' = [conn EXCEPT ![c] = "queued"]
      /\ cpc' = cpc /\ backlog \in Seq(Conns)
  BY DEF Connect, childVars, IInv, TypeOK
<1>2. /\ Len(backlog) \in Nat /\ backlog'[Len(backlog) + 1] = c
      /\ \A k \in 1..Len(backlog) : backlog'[k] = backlog[k] /\ backlog[k] \in Conns
      /\ \A k \in 1..Len(backlog') : k \in 1..Len(backlog) \/ k = Len(backlog) + 1
  BY <1>1, QueueAppend, ElementOfSeq
<1>3. \A k \in 1..Len(backlog) : backlog[k] # c
  BY <1>1 DEF IInv, Arrival, QueuedIsIn
<1>4. QueuedIsIn'
  BY <1>1, <1>2, <1>3 DEF IInv, TypeOK, Arrival, QueuedIsIn
<1>5. QueuedOnce'
  BY <1>2, <1>3 DEF IInv, Arrival, QueuedOnce
<1>6. NotStarted' /\ ExitCloses'
  BY <1>1 DEF IInv, TypeOK, Arrival, NotStarted, ExitCloses
<1> QED
  BY <1>4, <1>5, <1>6 DEF Arrival

LEMMA ArrivalAccept ==
  ASSUME IInv, NEW c \in Conns, NEW status \in {"open", "closed"}, Accept(c, status),
         cpc' = cpc \/ cpc' = [cpc EXCEPT ![c] = "forked"]
  PROVE  Arrival'
<1>1. /\ c = Head(backlog) /\ backlog' = Tail(backlog) /\ backlog # <<>>
      /\ conn'[c] = status /\ \A b \in Conns : b # c => conn'[b] = conn[b]
  BY DEF Accept, IInv, TypeOK
<1>2. /\ c = backlog[1] /\ 1 \in 1..Len(backlog)
      /\ \A k \in 1..Len(backlog') :
           backlog'[k] = backlog[k + 1] /\ k + 1 \in 1..Len(backlog) /\ k \in Nat \ {0}
  BY <1>1, QueueTail DEF IInv, TypeOK
<1>3. \A k \in 1..Len(backlog') : backlog'[k] # c
  BY <1>2 DEF IInv, Arrival, QueuedOnce
<1>4. QueuedIsIn'
  <2>1. SUFFICES ASSUME NEW k \in 1..Len(backlog') PROVE conn'[backlog'[k]] = "queued"
    BY DEF QueuedIsIn
  <2>2. PICK b \in Conns : b = backlog'[k] /\ conn[b] = "queued"
    <3>1. PICK j \in 1..Len(backlog) : backlog'[k] = backlog[j]
      BY <1>2
    <3>2. backlog[j] \in Conns
      BY ElementOfSeq DEF IInv, TypeOK
    <3>3. conn[backlog[j]] = "queued"
      BY DEF IInv, Arrival, QueuedIsIn
    <3> QED
      BY <3>1, <3>2, <3>3
  <2>3. b # c
    BY <1>3, <2>2
  <2>4. conn'[b] = "queued"
    BY <1>1, <2>2, <2>3
  <2> QED
    BY <2>2, <2>4
<1>5. QueuedOnce'
  BY <1>2 DEF IInv, Arrival, QueuedOnce
<1>6. cpc[c] = "none"
  BY <1>1, NextInLine
<1>7. NotStarted' /\ ExitCloses'
  <2>1. \A b \in Conns : b # c => cpc'[b] = cpc[b]
    BY DEF IInv, TypeOK
  <2>2. cpc'[c] \in {"none", "forked"}
    BY <1>6 DEF IInv, TypeOK
  <2> QED
    BY <1>1, <2>1, <2>2 DEF IInv, Arrival, NotStarted, ExitCloses
<1> QED
  BY <1>4, <1>5, <1>7 DEF Arrival

LEMMA ArrivalExit ==
  ASSUME IInv, NEW c \in Conns, ChildExit(c)
  PROVE  Arrival'
<1>1. /\ cpc[c] = "scan" /\ cpc' = [cpc EXCEPT ![c] = "zombie"]
      /\ conn' = [conn EXCEPT ![c] = "closed"] /\ backlog' = backlog
  BY DEF ChildExit
<1>2. \A k \in 1..Len(backlog) : backlog[k] \in Conns /\ backlog[k] # c
  BY <1>1, ElementOfSeq DEF IInv, TypeOK, Arrival, QueuedIsIn, NotStarted
<1>3. QueuedIsIn' /\ QueuedOnce'
  BY <1>1, <1>2, ZenonT(40) DEF IInv, TypeOK, Arrival, QueuedIsIn, QueuedOnce
<1>4. NotStarted' /\ ExitCloses'
  BY <1>1 DEF IInv, TypeOK, Arrival, NotStarted, ExitCloses
<1> QED
  BY <1>3, <1>4 DEF Arrival

LEMMA ArrivalStep == IInv /\ [Next]_vars => Arrival'
<1> SUFFICES ASSUME IInv, [Next]_vars PROVE Arrival'
  OBVIOUS
<1>1. CASE \E c \in Conns : Connect(c)
  BY <1>1, ArrivalConnect
<1>2. CASE \E c \in Conns : Refuse(c) \/ ForkFails(c) \/ Fork(c)
  BY <1>2, ArrivalAccept DEF Refuse, ForkFails, Fork, childVars
<1>3. CASE \E c \in Conns : ChildExit(c)
  BY <1>3, ArrivalExit
<1>4. CASE \E c \in Conns : ChildStart(c) \/ ChildWait(c) \/ ChildLoop(c) \/ ReapOne(c)
  BY <1>4, ArrivalFrame, SMTT(30) DEF ChildStart, ChildWait, ChildLoop, ReapOne, IInv, TypeOK
<1>5. CASE HandleTerm
  BY <1>5, ArrivalFrame DEF HandleTerm, IInv, TypeOK
<1>6. CASE \/ \E c \in Conns : ClientSend(c) \/ ClientClose(c) \/ Forward(c) \/ ChildRead(c) \/ ChildSend(c)
           \/ Terminate \/ ParentWait \/ AcceptFails \/ ReadSignals \/ ReapDone \/ ParentLoop
           \/ UNCHANGED vars
  <2>1. UNCHANGED <<backlog, conn, cpc>>
    BY <1>6 DEF ClientSend, ClientClose, Forward, ChildRead, ChildSend, ChildHandle, Terminate,
       ParentWait, AcceptFails, ReadSignals, ReapDone, ParentLoop, vars, childVars
  <2> QED
    BY <2>1, ArrivalFrame
<1> QED
  BY <1>1, <1>2, <1>3, <1>4, <1>5, <1>6 DEF Next, Parent, ParentEvent, ParentSignal, Child, Client

LEMMA IInvInit == Init => IInv
<1> SUFFICES ASSUME Init PROVE IInv
  OBVIOUS
<1>1. UserLimit \in Nat /\ UserLimit # 0 /\ None \notin Conns
  BY ShmAssumption DEF ShmAssumption
<1>2. 0 \in 0..UserLimit - 1 /\ 0 \in 0..UserLimit /\ -1 \in -1..UserLimit
  BY <1>1
<1>3. TypeOK
  BY <1>2, EmptySeq DEF Init, TypeOK
<1>4. Len(backlog) = 0 /\ Places = {}
  BY EmptySeq DEF Init, Places
<1>5. Table
  BY <1>4 DEF Init, Table, EntriesAreChildren, ChildrenListed, Unreaped, Live
<1>6. Arrival
  BY <1>4 DEF Init, Arrival, QueuedIsIn, QueuedOnce, NotStarted, ExitCloses
<1> QED
  BY <1>3, <1>5, <1>6 DEF IInv

LEMMA IInvStep == IInv /\ [Next]_vars => IInv'
BY TypeStep, TableStep, ArrivalStep DEF IInv

(* The invariant: the tables and the children, and who has not been        *)
(* accepted has none.                                                      *)
THEOREM Inductive == Spec => []IInv
BY IInvInit, IInvStep, PTL DEF Spec

(* Every variable has its type: user_count stays within USER_LIMIT, and    *)
(* idx names a segment.                                                    *)
THEOREM TypeCorrect == Spec => []TypeOK
<1>1. IInv => TypeOK
  BY DEF IInv
<1> QED
  BY Inductive, <1>1, PTL

LEMMA TableMeaning == IInv => ParentTable
<1> SUFFICES ASSUME IInv PROVE ParentTable
  OBVIOUS
<1>1. Killed = {users[k] : k \in Places}
  BY DEF Killed, Places
<1>2. \A c : c \in Killed <=> c \in Conns /\ cpc[c] \in Live \cup {"zombie"}
  BY <1>1 DEF IInv, Table, EntriesAreChildren, ChildrenListed, Unreaped
<1>3. \A k \in 0..user_count - 1 : sub_process[users[k]] = k
  BY DEF IInv, Table, EntriesAreChildren, Places
<1> QED
  BY <1>2, <1>3 DEF ParentTable

(* users and sub_process are the children not reaped and their places,     *)
(* whatever order they exit in (lines 299-303, 330-343).                   *)
THEOREM TableCorrect == Spec => []ParentTable
BY Inductive, TableMeaning, PTL

-----------------------------------------------------------------------------
(* No exit is forgotten.                                                   *)

ChldIsKnown ==
  "CHLD" \in sigs \/ ("CHLD" \in sigpipe /\ "sig" \in pready \cup pbatch)

WaitsWithNothing == ppc = "wait" => pbatch = {} /\ sigs = {}

ChldInv == WaitsWithNothing /\ NoZombieForgotten

LEMMA SigIsNoConn == "sig" \notin Conns /\ "listen" \notin Conns
BY ShmAssumption DEF ShmAssumption

LEMMA ChldStep == IInv /\ ChldInv /\ [Next]_vars => ChldInv'
<1> SUFFICES ASSUME IInv, ChldInv, [Next]_vars PROVE WaitsWithNothing' /\ NoZombieForgotten'
  BY DEF ChldInv
<1>1. ASSUME UNCHANGED ppc, Zombies' \subseteq Zombies, ChldIsKnown => ChldIsKnown'
      PROVE  NoZombieForgotten'
  BY <1>1 DEF ChldInv, NoZombieForgotten, ChldIsKnown
<1>2. CASE \E c \in Conns : Child(c)
  <2>1. PICK c \in Conns : Child(c)
    BY <1>2
  <2>2. CASE ChildExit(c)
    <3>1. UNCHANGED <<ppc, pbatch, sigs>> /\ (ppc # "end" => "CHLD" \in sigpipe' /\ "sig" \in pready')
      BY <2>2 DEF ChildExit
    <3> QED
      BY <3>1 DEF ChldInv, WaitsWithNothing, NoZombieForgotten
  <2>3. CASE ~ChildExit(c)
    <3>1. UNCHANGED <<ppc, pbatch, sigs, sigpipe>> /\ pready \subseteq pready'
      BY <2>1, <2>3 DEF Child, ChildStart, ChildWait, ChildRead, ChildSend, ChildLoop, ChildHandle, parentVars
    <3>2. Zombies' = Zombies
      BY <2>1, <2>3 DEF Child, ChildStart, ChildWait, ChildRead, ChildSend, ChildLoop, ChildHandle,
         Zombies, IInv, TypeOK
    <3>3. ChldIsKnown => ChldIsKnown'
      BY <3>1 DEF ChldIsKnown
    <3> QED
      BY <1>1, <3>1, <3>2, <3>3 DEF ChldInv, WaitsWithNothing
  <2> QED
    BY <2>2, <2>3
<1>3. CASE Terminate \/ (\E c \in Conns : Client(c)) \/ UNCHANGED vars
  <2>1. UNCHANGED <<ppc, pbatch, sigs, cpc>> /\ sigpipe \subseteq sigpipe' /\ pready \subseteq pready'
    BY <1>3 DEF Terminate, Client, Connect, ClientSend, ClientClose, vars, parentVars, childVars
  <2>2. ChldIsKnown => ChldIsKnown'
    BY <2>1 DEF ChldIsKnown
  <2> QED
    BY <1>1, <2>1, <2>2 DEF ChldInv, WaitsWithNothing, Zombies
<1>4. CASE ParentWait
  <2>1. ppc = "wait" /\ ppc' = "scan" /\ pbatch' = pready /\ UNCHANGED <<sigpipe, sigs, cpc>>
    BY <1>4 DEF ParentWait, childVars
  <2> QED
    BY <2>1 DEF ChldInv, WaitsWithNothing, NoZombieForgotten, Zombies
<1>5. CASE ParentLoop
  <2>1. /\ pbatch = {} /\ sigs = {} /\ ppc' \in {"wait", "end"} /\ ppc # "end"
        /\ UNCHANGED <<pbatch, sigs, sigpipe, pready, cpc>>
    BY <1>5 DEF ParentLoop
  <2> QED
    BY <2>1 DEF ChldInv, WaitsWithNothing, NoZombieForgotten, Zombies
<1>6. CASE ReadSignals
  <2>1. /\ ppc = "scan" /\ ppc' = "scan" /\ sigs = {} /\ sigs' = sigpipe /\ UNCHANGED cpc
    BY <1>6 DEF ReadSignals, Handle, childVars
  <2> QED
    BY <2>1 DEF ChldInv, WaitsWithNothing, NoZombieForgotten, Zombies
<1>7. CASE AcceptFails \/ \E c \in Conns : Refuse(c) \/ ForkFails(c) \/ Forward(c)
  <2>1. PICK e \in Conns \cup {"listen"} :
          /\ ppc = "scan" /\ pbatch' = pbatch \ {e}
          /\ UNCHANGED <<ppc, sigs, sigpipe, pready, cpc>>
    BY <1>7 DEF AcceptFails, Refuse, ForkFails, Forward, Accept, Handle, childVars
  <2>2. ChldIsKnown => ChldIsKnown'
    BY <2>1, SigIsNoConn DEF ChldIsKnown
  <2> QED
    BY <1>1, <2>1, <2>2 DEF WaitsWithNothing, Zombies
<1>8. CASE \E c \in Conns : Fork(c)
  <2>1. /\ ppc = "scan" /\ pbatch' = pbatch \ {"listen"} /\ UNCHANGED <<ppc, sigs, sigpipe, pready>>
        /\ \E c \in Conns : cpc' = [cpc EXCEPT ![c] = "forked"]
    BY <1>8 DEF Fork, Accept, Handle
  <2>2. ChldIsKnown => ChldIsKnown'
    BY <2>1 DEF ChldIsKnown
  <2>3. Zombies' \subseteq Zombies
    BY <2>1 DEF Zombies, IInv, TypeOK
  <2> QED
    BY <1>1, <2>1, <2>2, <2>3 DEF WaitsWithNothing
<1>9. CASE ParentSignal
  <2>1. ppc = "scan" /\ ppc' = "scan"
    BY <1>9 DEF ParentSignal, ReapDone, HandleTerm, ReapOne
  <2>2. CASE ReapDone
    <3>1. Zombies' = {}
      BY <2>2 DEF ReapDone, Zombies, childVars
    <3> QED
      BY <2>1, <3>1 DEF WaitsWithNothing, NoZombieForgotten
  <2>3. CASE \E c \in Conns : ReapOne(c)
    <3>1. "CHLD" \in sigs'
      BY <2>3 DEF ReapOne, AfterReap
    <3> QED
      BY <2>1, <3>1 DEF WaitsWithNothing, NoZombieForgotten
  <2>4. CASE HandleTerm
    <3>1. sigs' = sigs \ {"TERM"} /\ sigpipe \subseteq sigpipe' /\ pready \subseteq pready' /\ UNCHANGED <<ppc, pbatch>>
      BY <2>4 DEF HandleTerm
    <3>2. ChldIsKnown => ChldIsKnown'
      BY <3>1 DEF ChldIsKnown
    <3>3. Zombies' \subseteq Zombies
      BY <2>4 DEF HandleTerm, Zombies
    <3> QED
      BY <1>1, <2>1, <3>1, <3>2, <3>3 DEF WaitsWithNothing
  <2> QED
    BY <1>9, <2>2, <2>3, <2>4 DEF ParentSignal
<1> QED
  BY <1>2, <1>3, <1>4, <1>5, <1>6, <1>7, <1>8, <1>9 DEF Next, Parent, ParentEvent

LEMMA ChldInit == Init => ChldInv
BY DEF Init, ChldInv, WaitsWithNothing, NoZombieForgotten, Zombies

(* Bytes and edges melt together, but a child that has exited always has a *)
(* SIGCHLD that the parent will come to (lines 306-343).                   *)
THEOREM NoZombieCorrect == Spec => []NoZombieForgotten
<1>1. ChldInv => NoZombieForgotten
  BY DEF ChldInv
<1> QED
  BY Inductive, ChldInit, ChldStep, <1>1, PTL DEF Spec

-----------------------------------------------------------------------------
(* Who is left when the server stops.                                      *)

StopInv ==
  stop_server => ppc # "wait" /\ user_count <= 1 /\ ("listen" \in pbatch => user_count = 0)

LEMMA StopStep == IInv /\ StopInv /\ [Next]_vars => StopInv'
<1> SUFFICES ASSUME IInv, StopInv, [Next]_vars, stop_server' = TRUE
             PROVE  ppc' # "wait" /\ user_count' <= 1 /\ ("listen" \in pbatch' => user_count' = 0)
  BY DEF StopInv, IInv, TypeOK
<1>1. CASE ReapDone \/ HandleTerm
  <2>1. /\ ppc' = "scan" /\ UNCHANGED <<user_count, pbatch>>
        /\ stop_server' = (stop_server \/ LastGone) \/ stop_server' = (stop_server \/ user_count = 0)
    BY <1>1 DEF ReapDone, HandleTerm, tableVars
  <2>2. stop_server \in BOOLEAN
    BY DEF IInv, TypeOK
  <2>3. stop_server = TRUE \/ user_count = 0
    BY <2>1, <2>2 DEF LastGone
  <2>4. \/ ppc # "wait" /\ user_count <= 1 /\ ("listen" \in pbatch => user_count = 0)
        \/ user_count = 0
    BY <2>3 DEF StopInv
  <2> QED
    BY <2>1, <2>4
<1>2. CASE \E c \in Conns : ReapOne(c)
  <2>1. user_count' = user_count - 1 /\ user_count - 1 \in Places
    BY <1>2, ReapWhat
  <2>2. /\ UNCHANGED <<ppc, pbatch, stop_server>> /\ user_count \in Nat /\ user_count # 0
    BY <1>2, <2>1, Bounds DEF ReapOne, stopVars, IInv, Places
  <2> QED
    BY <2>1, <2>2 DEF StopInv
<1>3. CASE \E c \in Conns : Fork(c)
  <2>1. /\ "listen" \in pbatch /\ pbatch' = pbatch \ {"listen"} /\ user_count' = user_count + 1
        /\ UNCHANGED <<ppc, stop_server>>
    BY <1>3 DEF Fork, Accept, Handle, stopVars
  <2> QED
    BY <2>1 DEF StopInv
<1>4. CASE ParentLoop \/ ParentWait
  <2>1. UNCHANGED <<user_count, stop_server>>
    BY <1>4 DEF ParentLoop, ParentWait, tableVars, stopVars
  <2>2. CASE ParentLoop
    BY <2>1, <2>2 DEF StopInv, ParentLoop
  <2>3. CASE ParentWait
    BY <2>1, <2>3 DEF StopInv, ParentWait
  <2> QED
    BY <1>4, <2>2, <2>3
<1>5. CASE \/ \E c \in Conns : Client(c) \/ Child(c) \/ Refuse(c) \/ ForkFails(c) \/ Forward(c)
           \/ AcceptFails \/ ReadSignals \/ Terminate \/ UNCHANGED vars
  <2>1. UNCHANGED <<ppc, user_count, stop_server>> /\ pbatch' \subseteq pbatch
    <3>1. CASE \E c \in Conns : Client(c) \/ Child(c)
      BY <3>1 DEF Client, Child, Connect, ClientSend, ClientClose, ChildStart, ChildWait, ChildRead,
         ChildSend, ChildLoop, ChildExit, ChildHandle, parentVars, tableVars, stopVars
    <3>2. CASE ~\E c \in Conns : Client(c) \/ Child(c)
      BY <1>5, <3>2 DEF Refuse, ForkFails, Forward, Accept, Handle, AcceptFails, ReadSignals, Terminate,
         vars, parentVars, tableVars, stopVars
    <3> QED
      BY <3>1, <3>2
  <2> QED
    BY <2>1 DEF StopInv
<1> QED
  BY <1>1, <1>2, <1>3, <1>4, <1>5 DEF Next, Parent, ParentEvent, ParentSignal

LEMMA StopInit == Init => StopInv
BY DEF Init, StopInv

(* The batch in which the server decides to stop can add one user, who is  *)
(* then left with a child of its own (lines 252-304, 344-358).             *)
THEOREM StopCorrect == Spec => []StopLeavesAtMostOne
<1>1. StopInv => StopLeavesAtMostOne
  BY DEF StopInv, StopLeavesAtMostOne
<1> QED
  BY Inductive, StopInit, StopStep, <1>1, PTL DEF Spec

-----------------------------------------------------------------------------
(* The roster.                                                             *)

Turned == {c \in Conns : conn[c] = "closed"} \ Killed

LEMMA MembersAre ==
  ASSUME IInv
  PROVE  \A c : c \in Killed <=> c \in Conns /\ cpc[c] \in Unreaped
<1>1. Killed = {users[k] : k \in Places}
  BY DEF Killed, Places
<1> QED
  BY <1>1 DEF IInv, Table, EntriesAreChildren, ChildrenListed

LEMMA MembersAfter ==
  ASSUME IInv'
  PROVE  \A c : c \in Killed' <=> c \in Conns /\ cpc'[c] \in Unreaped
<1>1. Killed' = {users'[k] : k \in Places'}
  BY DEF Killed, Places
<1> QED
  BY <1>1 DEF IInv, Table, EntriesAreChildren, ChildrenListed

LEMMA MembersCount ==
  ASSUME IInv
  PROVE  Cardinality(Killed) = user_count
<1>1. user_count \in Nat /\ Killed = {users[k] : k \in Places}
  BY Bounds DEF IInv, Killed, Places
<1> DEFINE f == [k \in Places |-> users[k]]
<1>2. f \in [Places -> Killed] /\ \A m \in Killed : \E k \in Places : f[k] = m
  BY <1>1
<1>3. \A j, k \in Places : f[j] = f[k] => j = k
  BY DEF IInv, Table, EntriesAreChildren
<1>4. f \in Bijection(Places, Killed)
  <2> HIDE DEF f
  <2> QED
    BY <1>2, <1>3, Fun_IsBij
<1>5. ExistsBijection(Places, Killed)
  BY <1>4, Fun_ExistsBij, Zenon
<1>6. IsFiniteSet(Places) /\ Cardinality(Places) = user_count
  <2>1. IsFiniteSet(0..user_count - 1)
        /\ Cardinality(0..user_count - 1) = IF 0 > user_count - 1 THEN 0 ELSE (user_count - 1) - 0 + 1
    BY <1>1, FS_Interval
  <2>2. (IF 0 > user_count - 1 THEN 0 ELSE (user_count - 1) - 0 + 1) = user_count
    BY <1>1
  <2> QED
    BY <2>1, <2>2 DEF Places
<1> QED
  <2>1. Cardinality(Killed) = Cardinality(Places)
    BY <1>5, <1>6, FS_Bijection
  <2> QED
    BY <1>6, <2>1

LEMMA SameCardinality == \A S : Roll!Cardinality(S) = Cardinality(S)
BY DEF Roll!Cardinality, Cardinality

RollSteps == Roll!Next \/ UNCHANGED <<backlog, Killed, Turned>>

LEMMA RollFrame ==
  ASSUME IInv, IInv', UNCHANGED <<backlog, conn>>,
         \A c \in Conns : cpc'[c] \in Unreaped <=> cpc[c] \in Unreaped
  PROVE  UNCHANGED <<backlog, Killed, Turned>>
<1>1. Killed' = Killed
  BY MembersAre, MembersAfter
<1> QED
  BY <1>1 DEF Turned

LEMMA RollArrive ==
  ASSUME IInv, IInv', NEW c \in Conns, Connect(c)
  PROVE  Roll!Next
<1>1. /\ conn[c] = "idle" /\ backlog' = Append(backlog, c) /\ cpc' = cpc
      /\ conn' = [conn EXCEPT ![c] = "queued"]
  BY DEF Connect, childVars
<1>2. Killed' = Killed
  BY <1>1, MembersAre, MembersAfter
<1>3. Turned' = Turned
  BY <1>1, <1>2 DEF Turned, IInv, TypeOK
<1>4. c \notin Killed
  <2>1. cpc[c] = "none"
    BY <1>1 DEF IInv, Arrival, NotStarted
  <2> QED
    BY <2>1, MembersAre DEF Unreaped, Live
<1>5. c \notin Roll!Queued
  <2>1. \A k \in 1..Len(backlog) : backlog[k] # c
    BY <1>1 DEF IInv, Arrival, QueuedIsIn
  <2>2. DOMAIN backlog = 1..Len(backlog)
    BY LenProperties DEF IInv, TypeOK
  <2> QED
    BY <2>1, <2>2 DEF Roll!Queued
<1>6. Roll!Arrive(c)
  BY <1>1, <1>2, <1>3, <1>4, <1>5 DEF Roll!Arrive, Turned
<1> QED
  BY <1>6 DEF Roll!Next

LEMMA RollTurnAway ==
  ASSUME IInv, IInv', NEW c \in Conns, Refuse(c) \/ ForkFails(c)
  PROVE  Roll!Next
<1>1. /\ c = Head(backlog) /\ backlog # <<>> /\ backlog' = Tail(backlog) /\ cpc' = cpc
      /\ conn' = [conn EXCEPT ![c] = "closed"]
  BY DEF Refuse, ForkFails, Accept, childVars
<1>2. Killed' = Killed
  BY <1>1, MembersAre, MembersAfter
<1>3. c \notin Killed
  BY <1>1, NextInLine, MembersAre DEF Unreaped, Live
<1>4. Turned' = Turned \cup {c}
  <2>1. \A b \in Conns : conn'[b] = "closed" <=> b = c \/ conn[b] = "closed"
    BY <1>1 DEF IInv, TypeOK
  <2>2. \A b : b \in Turned' <=> b \in Turned \/ b = c
    BY <1>2, <1>3, <2>1 DEF Turned
  <2> QED
    BY <2>2
<1>5. Roll!TurnAway
  BY <1>1, <1>2, <1>4 DEF Roll!TurnAway, Roll!Serve, Turned
<1> QED
  BY <1>5 DEF Roll!Next

LEMMA RollAdmit ==
  ASSUME IInv, IInv', NEW c \in Conns, Fork(c)
  PROVE  Roll!Next
<1>1. /\ c = Head(backlog) /\ backlog # <<>> /\ backlog' = Tail(backlog)
      /\ conn' = [conn EXCEPT ![c] = "open"] /\ cpc' = [cpc EXCEPT ![c] = "forked"]
  BY DEF Fork, Accept
<1>2. "forked" \in Unreaped /\ conn[c] = "queued"
  BY <1>1, NextInLine DEF Unreaped, Live
<1>3. \A b : b \in Killed' <=> b \in Killed \cup {c}
  <2>1. \A b \in Conns : cpc'[b] = IF b = c THEN "forked" ELSE cpc[b]
    BY <1>1 DEF IInv, TypeOK
  <2> QED
    BY <1>2, <2>1, MembersAre, MembersAfter
<1>4. Turned' = Turned
  <2>1. \A b \in Conns : conn'[b] = IF b = c THEN "open" ELSE conn[b]
    BY <1>1 DEF IInv, TypeOK
  <2>2. conn[c] # "closed"
    BY <1>2
  <2>3. \A b : b \in Turned' <=> b \in Turned
    BY <1>3, <2>1, <2>2 DEF Turned
  <2> QED
    BY <2>3 DEF Turned
<1>5. Roll!Cardinality(Killed) < UserLimit
  BY MembersCount, SameCardinality DEF Fork, Room
<1>6. Killed' = Killed \cup {Head(backlog)}
  BY <1>1, <1>3
<1>7. Roll!Serve
  BY <1>1 DEF Roll!Serve
<1>8. Roll!Admit
  BY <1>4, <1>5, <1>6, <1>7, Zenon DEF Roll!Admit, Turned
<1> QED
  BY <1>8 DEF Roll!Next

LEMMA RollLeave ==
  ASSUME IInv, IInv', NEW c \in Conns, ReapOne(c)
  PROVE  Roll!Next
<1>1. /\ cpc[c] = "zombie" /\ cpc' = [cpc EXCEPT ![c] = "reaped"] /\ UNCHANGED <<backlog, conn>>
  BY DEF ReapOne
<1>2. conn[c] = "closed" /\ c \in Killed
  BY <1>1, MembersAre DEF IInv, Arrival, ExitCloses, Unreaped
<1>3. \A b : b \in Killed' <=> b \in Killed \ {c}
  <2>1. \A b \in Conns : cpc'[b] = IF b = c THEN "reaped" ELSE cpc[b]
    BY <1>1 DEF IInv, TypeOK
  <2>2. "reaped" \notin Unreaped
    BY DEF Unreaped, Live
  <2> QED
    BY <2>1, <2>2, MembersAre, MembersAfter
<1>4. Turned' = Turned \cup {c}
  BY <1>1, <1>2, <1>3 DEF Turned
<1>5. Roll!Leave(c)
  BY <1>1, <1>2, <1>3, <1>4 DEF Roll!Leave, Turned
<1> QED
  BY <1>5 DEF Roll!Next

LEMMA RollExit ==
  ASSUME IInv, IInv', NEW c \in Conns, ChildExit(c)
  PROVE  UNCHANGED <<backlog, Killed, Turned>>
<1>1. /\ cpc[c] = "scan" /\ cpc' = [cpc EXCEPT ![c] = "zombie"]
      /\ conn' = [conn EXCEPT ![c] = "closed"] /\ backlog' = backlog
  BY DEF ChildExit
<1>2. \A b \in Conns : cpc'[b] \in Unreaped <=> cpc[b] \in Unreaped
  BY <1>1 DEF IInv, TypeOK, Unreaped, Live
<1>3. Killed' = Killed
  BY <1>2, MembersAre, MembersAfter
<1>4. c \in Killed
  BY <1>1, MembersAre DEF Unreaped, Live
<1>5. Turned' = Turned
  BY <1>1, <1>3, <1>4 DEF Turned, IInv, TypeOK
<1> QED
  BY <1>1, <1>3, <1>5

LEMMA RollStep == IInv /\ IInv' /\ [Next]_vars => RollSteps
<1> SUFFICES ASSUME IInv, IInv', [Next]_vars PROVE RollSteps
  OBVIOUS
<1>1. CASE \E c \in Conns : Connect(c) \/ Refuse(c) \/ ForkFails(c) \/ Fork(c) \/ ReapOne(c)
  BY <1>1, RollArrive, RollTurnAway, RollAdmit, RollLeave DEF RollSteps
<1>2. CASE \E c \in Conns : ChildExit(c)
  BY <1>2, RollExit DEF RollSteps
<1>3. CASE \/ \E c \in Conns : ClientSend(c) \/ ClientClose(c) \/ Forward(c) \/ ChildStart(c)
                              \/ ChildWait(c) \/ ChildRead(c) \/ ChildSend(c) \/ ChildLoop(c)
           \/ Terminate \/ ParentWait \/ AcceptFails \/ ReadSignals \/ ReapDone \/ HandleTerm
           \/ ParentLoop \/ UNCHANGED vars
  <2>1. UNCHANGED <<backlog, conn>>
    BY <1>3 DEF ClientSend, ClientClose, Forward, ChildStart, ChildWait, ChildRead, ChildSend, ChildLoop,
       ChildHandle, Terminate, ParentWait, AcceptFails, ReadSignals, ReapDone, HandleTerm, ParentLoop, vars
  <2>2. \A c \in Conns : cpc'[c] \in Unreaped <=> cpc[c] \in Unreaped
    <3>1. CASE \E c \in Conns : ChildStart(c) \/ ChildWait(c) \/ ChildLoop(c)
      <4>1. PICK b \in Conns : ChildStart(b) \/ ChildWait(b) \/ ChildLoop(b)
        BY <3>1
      <4>2. cpc[b] \in Live /\ \E s \in Live : cpc' = [cpc EXCEPT ![b] = s]
        <5>1. CASE ChildStart(b)
          BY <5>1 DEF ChildStart, Live
        <5>2. CASE ChildWait(b)
          BY <5>2 DEF ChildWait, Live
        <5>3. CASE ChildLoop(b)
          BY <5>3 DEF ChildLoop, Live
        <5> QED
          BY <4>1, <5>1, <5>2, <5>3
      <4>3. PICK s \in Live : cpc' = [cpc EXCEPT ![b] = s]
        BY <4>2
      <4>4. DOMAIN cpc = Conns
        BY DEF IInv, TypeOK
      <4>5. cpc'[b] \in Unreaped /\ cpc[b] \in Unreaped
        BY <4>2, <4>3, <4>4 DEF Unreaped
      <4>6. \A c \in Conns : c # b => cpc'[c] = cpc[c]
        BY <4>3, <4>4
      <4> QED
        BY <4>5, <4>6
    <3>2. CASE HandleTerm
      BY <3>2 DEF HandleTerm, IInv, TypeOK, Unreaped, Live
    <3>3. CASE cpc' = cpc
      BY <3>3
    <3> QED
      BY <1>3, <3>1, <3>2, <3>3 DEF ClientSend, ClientClose, Forward, ChildRead, ChildSend, ChildHandle,
         Terminate, ParentWait, AcceptFails, ReadSignals, ReapDone, ParentLoop, vars, childVars
  <2> QED
    BY <2>1, <2>2, RollFrame DEF RollSteps
<1> QED
  BY <1>1, <1>2, <1>3 DEF Next, Parent, ParentEvent, ParentSignal, Child, Client

(* The parent implements the roster, for any number of clients and any     *)
(* USER_LIMIT (lines 252-304, 326-343).                                    *)
THEOREM RosterKept == Spec => KeepsRoster
<1>1. Init => Roll!Init
  <2> SUFFICES ASSUME Init PROVE Roll!Init
    OBVIOUS
  <2>1. user_count = 0 /\ backlog = <<>> /\ \A c \in Conns : conn[c] # "closed"
    BY DEF Init
  <2>2. Killed = {}
    BY <2>1 DEF Killed
  <2> QED
    BY <2>1, <2>2 DEF Roll!Init
<1> QED
  BY <1>1, Inductive, RollStep, PTL DEF Spec, KeepsRoster, Roll!Spec, RollSteps, Turned
=============================================================================
