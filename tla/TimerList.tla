------------------------------ MODULE TimerList ------------------------------
(***************************************************************************)
(* sort_timer_lst of ch11/11-2_LIST_TIMER.h: a doubly linked list of       *)
(* util_timer nodes, meant to be in ascending order of expire. The         *)
(* operations are functions from a heap of nodes to a heap of nodes, one   *)
(* pointer store at a time, so that a store through a NULL or a freed      *)
(* pointer is seen: it sets fault, and what would follow is not executed.  *)
(***************************************************************************)
EXTENDS Integers, FiniteSets, FiniteSetsExt

CONSTANTS
  Timers,   (* the addresses `new util_timer` can return                   *)
  Null

(* heap: the nodes allocated now. expire is kept by the user of the list.  *)
EmptyList == [head |-> Null, tail |-> Null, heap |-> {},
              next |-> [t \in Timers |-> Null], prev |-> [t \in Timers |-> Null],
              fault |-> "none"]

ListType ==
  [head : Timers \cup {Null}, tail : Timers \cup {Null}, heap : SUBSET Timers,
   next : [Timers -> Timers \cup {Null}], prev : [Timers -> Timers \cup {Null}],
   fault : {"none", "null", "freed"}]

-----------------------------------------------------------------------------
(* Memory.                                                                 *)

(* t->link = v, where link is "next" or "prev".                            *)
Store(l, link, t, v) ==
  IF l.fault # "none" THEN l
    ELSE IF t \in l.heap THEN [l EXCEPT ![link][t] = v]
                         ELSE [l EXCEPT !.fault = IF t = Null THEN "null" ELSE "freed"]

(* new util_timer: the constructor clears both links.                      *)
Alloc(l, t) == [l EXCEPT !.heap = @ \cup {t}, !.next[t] = Null, !.prev[t] = Null]

(* delete: what the block holds from then on is not modelled.              *)
FreeAll(l, S) ==
  IF l.fault # "none" THEN l
    ELSE [l EXCEPT !.heap = @ \ S,
                   !.next = [t \in Timers |-> IF t \in S THEN Null ELSE @[t]],
                   !.prev = [t \in Timers |-> IF t \in S THEN Null ELSE @[t]]]
Free(l, t) == FreeAll(l, {t})

(* The k-th node after t in the direction of next, Null past the end.      *)
After(l, t) ==
  LET node[k \in 0..Cardinality(Timers)] ==
        IF k = 0 THEN t
                 ELSE IF node[k - 1] = Null THEN Null ELSE l.next[node[k - 1]]
  IN node

Nodes(l) == {After(l, l.head)[k] : k \in 0..Cardinality(Timers)} \ {Null}

-----------------------------------------------------------------------------
(* The operations.                                                         *)

(* Lines 182-185, 194-197.                                                 *)
BetweenNoBack(l, prev, t, tmp) ==
  Store(Store(Store(l, "next", prev, t), "next", t, tmp), "prev", t, prev)
Between(l, prev, t, tmp) ==
  Store(Store(Store(Store(l, "next", prev, t), "next", t, tmp), "prev", tmp, t), "prev", t, prev)

(* add_timer(timer, lst_head): t goes in front of the first node after     *)
(* start that expires later, or to the end.                                *)
StopsAtEarlier(expire, t, u) == expire[t] > expire[u]
StopsAtEqual(expire, t, u) == expire[t] <= expire[u]
StopsAt(expire, t, u) == expire[t] < expire[u]

InsertAfter(l, expire, t, start) ==
  LET node == After(l, start)
      k == Min({m \in 1..Cardinality(Timers) :
                  node[m] = Null \/ StopsAt(expire, t, node[m])})
      prev == node[k - 1]
      tmp == node[k]
  IN IF tmp # Null
       THEN Between(l, prev, t, tmp)
       ELSE [Store(Store(Store(l, "next", prev, t), "prev", t, prev), "next", t, Null)
               EXCEPT !.tail = t]

AddTimer(l, expire, t) ==
  CASE l.head = Null -> [l EXCEPT !.head = t, !.tail = t]
    [] l.head # Null /\ expire[t] < expire[l.head] ->
         [Store(Store(l, "next", t, l.head), "prev", l.head, t) EXCEPT !.head = t]
    [] OTHER -> InsertAfter(l, expire, t, l.head)

(* adjust_timer. `if (timer = head)` assigns: whatever timer was given, it *)
(* is the head that is taken out and inserted again.                       *)
InPlace(l, expire, t) == l.next[t] = Null \/ expire[t] < expire[l.next[t]]

AdjustTimer(l, expire, t) ==
  IF InPlace(l, expire, t) THEN l
    ELSE LET h == l.next[l.head]
             unlinked == Store(Store([l EXCEPT !.head = h], "prev", h, Null),
                               "next", l.head, Null)
         IN InsertAfter(unlinked, expire, l.head, h)

(* del_timer. For the head, head->next->prev = NULL comes after head =     *)
(* head->next: it clears the prev of the THIRD node, or there is none.     *)
TailStays(l) == l.tail
TailMoves(l) == l.prev[l.tail]

DelTimer(l, t) ==
  CASE t = l.head /\ t = l.tail -> [Free(l, t) EXCEPT !.head = Null, !.tail = Null]
    [] t = l.head /\ t # l.tail ->
         LET h == l.next[t] IN Free(Store([l EXCEPT !.head = h], "prev", l.next[h], Null), t)
    [] t # l.head /\ t = l.tail ->
         Free([Store(l, "next", l.prev[t], Null) EXCEPT !.tail = TailMoves(l)], t)
    [] OTHER -> Free(Store(Store(l, "next", l.prev[t], l.next[t]), "prev", l.next[t], l.prev[t]), t)

(* tick: from the head, up to the first node that has not expired. tail is *)
(* left as it is, also when the list becomes empty.                        *)
Expired(l, expire, cur) ==
  LET node == After(l, l.head)
  IN {node[k] : k \in {m \in DOMAIN node :
        \A n \in 0..m : node[n] # Null /\ ~(cur < expire[node[n]])}}

Tick(l, expire, cur) ==
  LET gone == Expired(l, expire, cur)
      h == After(l, l.head)[Cardinality(gone)]
      popped == [FreeAll(l, gone) EXCEPT !.head = h]
  IN IF gone = {} \/ h = Null THEN popped ELSE Store(popped, "prev", h, Null)

-----------------------------------------------------------------------------
(* What the list is meant to be.                                           *)

Ascending(l, expire) ==
  \A t \in Nodes(l) : l.next[t] # Null => expire[t] <= expire[l.next[t]]

(* Following next from head visits every allocated node once and ends at   *)
(* tail.                                                                   *)
Chained(l) ==
  LET node == After(l, l.head)
      n == Cardinality(l.heap)
  IN /\ Nodes(l) = l.heap
     /\ node[n] = Null
     /\ n > 0 => node[n - 1] = l.tail
=============================================================================
