-------------------------------- MODULE Roster --------------------------------
(***************************************************************************)
(* What both chat rooms promise about membership: connections are served   *)
(* in the order in which they came, each is admitted or turned away once,  *)
(* no more than UserLimit are members at a time, and who has left never    *)
(* comes back. ChatServer (poll and a table of entries that move) and      *)
(* ShmChat (a process for each member) implement it.                       *)
(***************************************************************************)
EXTENDS Naturals, Sequences, FiniteSets

CONSTANTS
  Conns,
  UserLimit,
  MayFail       (* whether one may be turned away though there is room     *)

VARIABLES
  waiting,      (* connections that have come and not been looked at       *)
  members,
  past          (* connections that were turned away or have left          *)

Queued == {waiting[k] : k \in DOMAIN waiting}

Init == waiting = <<>> /\ members = {} /\ past = {}

Arrive(c) ==
  /\ c \notin Queued \cup members \cup past
  /\ waiting' = Append(waiting, c)
  /\ UNCHANGED <<members, past>>

Serve == waiting # <<>> /\ waiting' = Tail(waiting)

Admit ==
  /\ Serve
  /\ Cardinality(members) < UserLimit
  /\ members' = members \cup {Head(waiting)}
  /\ UNCHANGED past

TurnAway ==
  /\ Serve
  /\ MayFail \/ Cardinality(members) >= UserLimit
  /\ past' = past \cup {Head(waiting)}
  /\ UNCHANGED members

Leave(c) ==
  /\ c \in members
  /\ members' = members \ {c}
  /\ past' = past \cup {c}
  /\ UNCHANGED waiting

Next == Admit \/ TurnAway \/ \E c \in Conns : Arrive(c) \/ Leave(c)

Spec == Init /\ [][Next]_<<waiting, members, past>>
=============================================================================
