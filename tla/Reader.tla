-------------------------------- MODULE Reader --------------------------------
(***************************************************************************)
(* What a server that only reads owes each of its connections: everything  *)
(* the peer wrote is received, in the pieces in which recv() takes it, and *)
(* then, and not before, the connection is closed. Only a connection that  *)
(* was aborted may be closed with something unread. Nothing is promised    *)
(* about when a connection that waits is opened.                           *)
(***************************************************************************)
EXTENDS Naturals

CONSTANT Conns

VARIABLES written, received, finished, aborted, opened, closed

readerVars == <<written, received, finished, aborted, opened, closed>>

Init ==
  /\ written = [c \in Conns |-> 0] /\ received = [c \in Conns |-> 0]
  /\ finished = {} /\ aborted = {} /\ opened = {} /\ closed = {}

Write(c) ==
  /\ c \notin finished \cup aborted
  /\ written' = [written EXCEPT ![c] = @ + 1]
  /\ UNCHANGED <<received, finished, aborted, opened, closed>>

Finish(c) ==
  /\ finished' = finished \cup {c}
  /\ UNCHANGED <<written, received, aborted, opened, closed>>

Abort(c) ==
  /\ aborted' = aborted \cup {c}
  /\ UNCHANGED <<written, received, finished, opened, closed>>

Open(c) ==
  /\ opened' = opened \cup {c}
  /\ UNCHANGED <<written, received, finished, aborted, closed>>

Receive(c) ==
  /\ c \in opened \ closed /\ received[c] < written[c]
  /\ received' = [received EXCEPT ![c] = @ + 1]
  /\ UNCHANGED <<written, finished, aborted, opened, closed>>

Close(c) ==
  /\ c \in opened \ closed
  /\ c \in aborted \/ (c \in finished /\ received[c] = written[c])
  /\ closed' = closed \cup {c}
  /\ UNCHANGED <<written, received, finished, aborted, opened>>

Next ==
  \E c \in Conns : Write(c) \/ Finish(c) \/ Abort(c) \/ Open(c) \/ Receive(c) \/ Close(c)

Spec == Init /\ [][Next]_readerVars

FairSpec == Spec /\ \A c \in Conns : WF_readerVars(Receive(c)) /\ WF_readerVars(Close(c))
=============================================================================
