------------------------------ MODULE TimerTest ------------------------------
(***************************************************************************)
(* The program ch11/11-2_LIST_TIMER.cpp: timers with expiry times read     *)
(* from the input are added to a list one after another, and the list is   *)
(* then printed from head to tail.                                         *)
(***************************************************************************)
EXTENDS TimerList

CONSTANT Timeouts     (* the times that may be entered                     *)

ASSUME TestAssumption == Timeouts \subseteq Int /\ IsFiniteSet(Timers) /\ Null \notin Timers

VARIABLES stl, expire

TestInit == stl = EmptyList /\ expire = [t \in Timers |-> 0]

(* new util_timer, ut->expire = timeouts[i], add_timer(ut).                *)
Enter ==
  \E t \in Timers \ stl.heap, e \in Timeouts :
     /\ expire' = [expire EXCEPT ![t] = e]
     /\ stl' = AddTimer(Alloc(stl, t), expire', t)

TestSpec == TestInit /\ [][Enter]_<<stl, expire>>

(* Whatever is entered, the program prints every timer once and in         *)
(* ascending order (lines 37-41 and the output in lines 64-69), the        *)
(* pointers back are those forward reversed, and no store goes astray.     *)
PrintsAscending ==
  /\ stl.fault = "none"
  /\ Chained(stl)
  /\ Ascending(stl, expire)
  /\ \A t \in stl.heap : stl.next[t] # Null => stl.prev[stl.next[t]] = t

(* Timers entered with equal times are printed in the order they were      *)
(* entered: the new one is never put in front of an equal one.             *)
EqualsKeepOrder ==
  [][\A t \in stl'.heap \ stl.heap :
       stl'.next[t] # Null => expire'[t] < expire'[stl'.next[t]]]_<<stl, expire>>
=============================================================================
