---------------------------------- MODULE Lock ----------------------------------
(***************************************************************************)
(* What a lock promises: one process at a time owns it, and as long as     *)
(* owners give it back no process that stays asks for it for ever. A       *)
(* process may vanish at any time, and what it owned is free again.        *)
(***************************************************************************)
CONSTANT Procs

VARIABLES
  asking,
  owners

lockVars == <<asking, owners>>

Init == asking = {} /\ owners = {}

Ask(p) ==
  /\ p \notin asking \cup owners
  /\ asking' = asking \cup {p}
  /\ UNCHANGED owners

Acquire(p) ==
  /\ p \in asking /\ owners = {}
  /\ asking' = asking \ {p} /\ owners' = {p}

GiveUp(p) ==
  /\ p \in asking
  /\ asking' = asking \ {p}
  /\ UNCHANGED owners

Release(p) ==
  /\ p \in owners
  /\ owners' = owners \ {p}
  /\ UNCHANGED asking

Next == \E p \in Procs : Ask(p) \/ Acquire(p) \/ GiveUp(p) \/ Release(p)

Spec == Init /\ [][Next]_lockVars

(* Strong fairness: the lock may go to others many times before.           *)
FairSpec == Spec /\ \A p \in Procs : SF_lockVars(Acquire(p)) /\ WF_lockVars(Release(p))
=============================================================================
