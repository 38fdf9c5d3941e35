------------------------------- MODULE TimeWheel -------------------------------
(***************************************************************************)
(* The time wheel of ch11/11-5_time_wheel.h: N slots, each the head of an  *)
(* unsorted list; a timer of so many ticks is put that far ahead of the    *)
(* current slot and lets the wheel pass it `rotation` times. add_timer,    *)
(* del_timer and each turn of tick()'s loop are one step.                  *)
(*                                                                         *)
(* Line 143 compares with slots[ts], and tick() has no ts: cur_slot is the *)
(* only slot it can stand for, and is what is modelled.                    *)
(*                                                                         *)
(* A freed timer's name is not used again, so that a store through a       *)
(* dangling pointer shows (astray). Nothing is executed after it.          *)
(***************************************************************************)
EXTENDS Integers, FiniteSets

CONSTANTS
  N, SI,        (* the constants of the class                              *)
  TwTimers,     (* the timers that are ever created                        *)
  NoTimer,      (* NULL                                                    *)
  TwTimeouts      (* arguments of add_timer                                  *)

ASSUME WheelAssumption ==
  /\ N \in Nat \ {0} /\ SI \in Nat \ {0}
  /\ TwTimeouts \subseteq Nat
  /\ NoTimer \notin TwTimers /\ IsFiniteSet(TwTimers)

VARIABLES
  slots, cur_slot,
  next, prev, rotation, time_slot,      (* the fields of each timer        *)
  heap,         (* timers allocated                                        *)
  ticking, tmp, (* inside tick(), and where                                *)
  astray,       (* a store went to a freed timer                           *)
  born,         (* history: timers created so far                          *)
  left,         (* history: ticks to pass before the one that is to fire it*)
  fired         (* history: timers whose callback has run                  *)

fieldVars == <<next, prev, rotation, time_slot>>
wheelVars == <<slots, cur_slot, fieldVars, heap, ticking, tmp, astray, born, left, fired>>

Pointer == TwTimers \cup {NoTimer}

(* The type of each variable.                                              *)
WheelTypeOK ==
  /\ slots \in [0..N - 1 -> Pointer] /\ cur_slot \in 0..N - 1
  /\ next \in [TwTimers -> Pointer] /\ prev \in [TwTimers -> Pointer]
  /\ rotation \in [TwTimers -> Nat] /\ time_slot \in [TwTimers -> 0..N - 1]
  /\ heap \subseteq born /\ fired \subseteq born /\ born \subseteq TwTimers
  /\ ticking \in BOOLEAN /\ tmp \in Pointer /\ astray \in BOOLEAN
  /\ left \in [TwTimers -> Int]

WheelInit ==
  /\ slots = [s \in 0..N - 1 |-> NoTimer] /\ cur_slot = 0
  /\ next = [t \in TwTimers |-> NoTimer] /\ prev = [t \in TwTimers |-> NoTimer]
  /\ rotation = [t \in TwTimers |-> 0] /\ time_slot = [t \in TwTimers |-> 0]
  /\ heap = {} /\ born = {} /\ fired = {}
  /\ ticking = FALSE /\ tmp = NoTimer /\ astray = FALSE
  /\ left = [t \in TwTimers |-> 0]

-----------------------------------------------------------------------------
(* add_timer.                                                              *)

TicksRoundedUp(timeout) == timeout \div SI + 1
Ticks(timeout) == IF timeout < SI THEN 1 ELSE timeout \div SI

RotationFromSlot(ticks) == (cur_slot + ticks) \div N
RotationOf(ticks) == ticks \div N
SlotOf(ticks) == (cur_slot + (ticks % N)) % N

HeadNotPushed(ts, t) == prev
HeadPushed(ts, t) == IF slots[ts] = NoTimer THEN prev ELSE [prev EXCEPT ![slots[ts]] = t]

(* What `new` returns: a name not used before.                             *)
NewTimer == CHOOSE t \in TwTimers : t \notin born

WheelAddTimer(timeout) ==
  LET t == NewTimer
      ticks == Ticks(timeout)
      ts == SlotOf(ticks)
  IN
  /\ ~astray /\ ~ticking
  /\ born # TwTimers
  /\ born' = born \cup {t} /\ heap' = heap \cup {t}
  /\ rotation' = [rotation EXCEPT ![t] = RotationOf(ticks)]
  /\ time_slot' = [time_slot EXCEPT ![t] = ts]
  /\ next' = [next EXCEPT ![t] = slots[ts]]
  /\ prev' = HeadPushed(ts, t)
  /\ slots' = [slots EXCEPT ![ts] = t]
  /\ left' = [left EXCEPT ![t] = IF timeout \div SI = 0 THEN 1 ELSE timeout \div SI]
  /\ UNCHANGED <<cur_slot, ticking, tmp, astray, fired>>

-----------------------------------------------------------------------------
(* del_timer. The owner may delete a timer until its callback has run.     *)

Delete(t) == heap' = heap \ {t}

(* timer->prev->next = timer->next, and the same backwards.                *)
Unlink(t) ==
  IF prev[t] \in heap
    THEN /\ next' = [next EXCEPT ![prev[t]] = next[t]]
         /\ prev' = IF next[t] = NoTimer THEN prev ELSE [prev EXCEPT ![next[t]] = prev[t]]
         /\ Delete(t)
         /\ UNCHANGED astray
    ELSE astray' = TRUE /\ UNCHANGED <<next, prev, heap>>

DelHead(t) ==
  /\ slots' = [slots EXCEPT ![time_slot[t]] = next[t]]
  /\ prev' = IF next[t] = NoTimer THEN prev ELSE [prev EXCEPT ![next[t]] = NoTimer]
  /\ Delete(t)
  /\ UNCHANGED <<next, astray>>

WheelDelTimer(t) ==
  /\ ~astray /\ ~ticking
  /\ IF t = slots[time_slot[t]] THEN DelHead(t) ELSE Unlink(t) /\ UNCHANGED slots
  /\ UNCHANGED <<cur_slot, rotation, time_slot, ticking, tmp, born, left, fired>>

-----------------------------------------------------------------------------
(* tick().                                                                 *)

TickBegin ==
  /\ ~astray /\ ~ticking
  /\ ticking' = TRUE /\ tmp' = slots[cur_slot]
  /\ UNCHANGED <<slots, cur_slot, fieldVars, heap, astray, born, left, fired>>

AtTimer == ticking /\ ~astray /\ tmp # NoTimer

TickPass ==
  /\ AtTimer /\ rotation[tmp] > 0
  /\ rotation' = [rotation EXCEPT ![tmp] = @ - 1]
  /\ tmp' = next[tmp]
  /\ UNCHANGED <<slots, cur_slot, next, prev, time_slot, heap, ticking, astray, born, left, fired>>

WheelExpired == AtTimer /\ rotation[tmp] = 0

(* Lines 146-152: the next timer becomes the head, and then, where its prev *)
(* should be cleared, the head is: what is left of the list is dropped.    *)
TickHead ==
  /\ WheelExpired /\ tmp = slots[cur_slot]
  /\ fired' = fired \cup {tmp} /\ Delete(tmp)
  /\ slots' = [slots EXCEPT ![cur_slot] = NoTimer]
  /\ tmp' = NoTimer
  /\ UNCHANGED <<cur_slot, fieldVars, ticking, astray, born, left>>

TickOther ==
  /\ WheelExpired /\ tmp # slots[cur_slot]
  /\ fired' = fired \cup {tmp}
  /\ Unlink(tmp)
  /\ tmp' = next[tmp]
  /\ UNCHANGED <<slots, cur_slot, rotation, time_slot, ticking, born, left>>

NextSlot == (cur_slot + 1) % N

TickEnd ==
  /\ ticking /\ ~astray /\ tmp = NoTimer
  /\ cur_slot' = NextSlot /\ ticking' = FALSE
  /\ left' = [t \in TwTimers |-> IF t \in heap /\ left[t] >= 0 THEN left[t] - 1 ELSE left[t]]
  /\ UNCHANGED <<slots, fieldVars, heap, tmp, astray, born, fired>>

Callers ==
  \/ \E timeout \in TwTimeouts : WheelAddTimer(timeout)
  \/ \E t \in heap : WheelDelTimer(t)
WheelTick == TickBegin \/ TickPass \/ TickHead \/ TickOther \/ TickEnd

WheelNext == Callers \/ WheelTick

WheelSpec == WheelInit /\ [][WheelNext]_wheelVars
-----------------------------------------------------------------------------
(* Properties.                                                             *)

(* The timers from the head of slot s on, at most as many as there are.    *)
Walk(s) ==
  LET at[k \in 0..Cardinality(TwTimers)] ==
        IF k = 0 THEN slots[s] ELSE IF at[k - 1] = NoTimer THEN NoTimer ELSE next[at[k - 1]]
  IN at
InSlot(s) == {Walk(s)[k] : k \in DOMAIN Walk(s)} \ {NoTimer}

(* A timer set for timeout runs its callback after timeout/SI whole ticks  *)
(* (one, when timeout is less than SI), in the tick after them: no caller  *)
(* sees it early, and none that is still on the wheel can be late          *)
(* (lines 64-79, 126-170).                                                 *)
FiresOnSchedule ==
  /\ \A t \in fired : left[t] = 0
  /\ \A s \in 0..N - 1 : \A t \in InSlot(s) : left[t] >= 0

(* However timers are added, deleted and expire, in the middle of a tick   *)
(* too, each slot holds a list that ends, of allocated timers that were    *)
(* put there, each of which the next one points back to; del_timer finds   *)
(* the head by time_slot only because of that (lines 80-92, 97-124,        *)
(* 143-165).                                                               *)
SlotsLinked ==
  ~astray => \A s \in 0..N - 1 :
    /\ Walk(s)[Cardinality(TwTimers)] = NoTimer
    /\ InSlot(s) \subseteq heap
    /\ \A t \in InSlot(s) :
         /\ time_slot[t] = s
         /\ prev[t] = NoTimer <=> t = slots[s]
         /\ next[t] # NoTimer => prev[next[t]] = t
=============================================================================
