------------------------------- MODULE Semaphore -------------------------------
(***************************************************************************)
(* ch13/13-3_IPC_PRIVATE.cpp: a parent and its child take turns by a       *)
(* System V semaphore that starts at 1. Each does P, sleeps, does V; all   *)
(* operations carry SEM_UNDO, so that the kernel gives back at the end of  *)
(* a process what it has taken. Either may be killed at any time. One step *)
(* is one system call.                                                     *)
(***************************************************************************)
EXTENDS Integers

Process == {"parent", "child"}

VARIABLES
  semval,
  exists,       (* the semaphore has not been removed                      *)
  semadj,       (* for each process, what the kernel adds at its end       *)
  pc            (* "none" (not forked), "fork", "try", "P" (in semop()),   *)
                (* "holds", "V" (given back), "remove", "gone"             *)

semVars == <<semval, exists, semadj, pc>>

Places == {"none", "fork", "try", "P", "holds", "V", "remove", "gone"}

(* The type of each variable.                                              *)
SemTypeOK ==
  /\ semval \in 0..1 /\ exists \in BOOLEAN
  /\ semadj \in [Process -> Int]
  /\ pc \in [Process -> Places]

SemInit ==
  /\ semval = 1 /\ exists = TRUE
  /\ semadj = [p \in Process |-> 0]
  /\ pc = [parent |-> "fork", child |-> "none"]

(* The end of a process, of its own accord or not: the kernel undoes.      *)
ProcessEnds(p) ==
  /\ pc' = [pc EXCEPT ![p] = "gone"]
  /\ semval' = semval + semadj[p]
  /\ semadj' = [semadj EXCEPT ![p] = 0]

-----------------------------------------------------------------------------
Fork ==
  /\ pc["parent"] = "fork"
  /\ pc' = [parent |-> "try", child |-> "try"]
  /\ UNCHANGED <<semval, exists, semadj>>

(* The semaphore stays behind.                                             *)
ForkFails ==
  /\ pc["parent"] = "fork"
  /\ ProcessEnds("parent")
  /\ UNCHANGED exists

(* pv(sem_id, op): semop() waits as long as the value would be negative.   *)
NoUndo(op) == 0
UndoOnlyP(op) == IF op < 0 THEN -op ELSE 0
Undo(op) == -op

Pv(p, op) ==
  /\ semval + op >= 0
  /\ semval' = semval + op
  /\ semadj' = [semadj EXCEPT ![p] = @ + Undo(op)]

Try(p) ==
  /\ pc[p] = "try"
  /\ pc' = [pc EXCEPT ![p] = "P"]
  /\ UNCHANGED <<semval, exists, semadj>>

Take(p) ==
  /\ pc[p] = "P"
  /\ Pv(p, -1)
  /\ pc' = [pc EXCEPT ![p] = "holds"]
  /\ UNCHANGED exists

Give(p) ==
  /\ pc[p] = "holds"
  /\ Pv(p, 1)
  /\ pc' = [pc EXCEPT ![p] = "V"]
  /\ UNCHANGED exists

ChildExits ==
  /\ pc["child"] = "V"
  /\ ProcessEnds("child")
  /\ UNCHANGED exists

(* waitpid() waits for the child's end.                                    *)
WaitPid ==
  /\ pc["parent"] = "V" /\ pc["child"] = "gone"
  /\ pc' = [pc EXCEPT !["parent"] = "remove"]
  /\ UNCHANGED <<semval, exists, semadj>>

(* The command, IPC_PRIVATE, is 0, which is also IPC_RMID.                 *)
RemoveSemaphore ==
  /\ pc["parent"] = "remove"
  /\ exists' = FALSE
  /\ ProcessEnds("parent")

Kill(p) ==
  /\ pc[p] \notin {"none", "gone"}
  /\ ProcessEnds(p)
  /\ UNCHANGED exists

SemProgram ==
  \/ Fork \/ ForkFails \/ ChildExits \/ WaitPid \/ RemoveSemaphore
  \/ \E p \in Process : Try(p) \/ Take(p) \/ Give(p)

SemNext == SemProgram \/ \E p \in Process : Kill(p)

SemSpec == SemInit /\ [][SemNext]_semVars

(* Processes that are not killed run.                                      *)
SemFairSpec == SemSpec /\ WF_semVars(SemProgram)
-----------------------------------------------------------------------------
(* Properties.                                                             *)

StandingAt(place) == {p \in Process : pc[p] = place}

BinarySemaphore ==
  INSTANCE Lock WITH Procs <- Process, asking <- StandingAt("P"), owners <- StandingAt("holds")

(* The semaphore is a lock: never both processes are between P and V, and  *)
(* whichever of them is killed, at whatever point, the other still gets    *)
(* through its P, because SEM_UNDO gives back what was taken and no more   *)
(* (lines 18-25, 43-46, 52-55).                                            *)
TakesTurns == BinarySemaphore!FairSpec
=============================================================================
