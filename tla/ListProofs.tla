------------------------------ MODULE ListProofs ------------------------------
(***************************************************************************)
(* The operations of the timer list, for any number of timers: a list that *)
(* is the nodes s[1], ..., s[n] in this order stays such a list. next and  *)
(* tail are always right, and prev of every node but the head is, or is    *)
(* NULL, which is what del_timer leaves when it takes the head out; the    *)
(* head's own prev is never used.                                          *)
(***************************************************************************)
EXTENDS TimerList, NumberProofs, FiniteSetTheorems

Link == Timers \cup {Null}

Members(n, s) == {s[k] : k \in 1..n}

(* The nodes from s[1] on, following next.                                 *)
Chain(l, n, s) ==
  /\ n \in Nat /\ s \in [1..n -> Timers]
  /\ \A j, k \in 1..n : s[j] = s[k] => j = k
  /\ Members(n, s) \subseteq l.heap
  /\ \A k \in 1..n : l.next[s[k]] = IF k = n THEN Null ELSE s[k + 1]
  /\ n > 0 => l.tail = s[n]
  /\ \A k \in 2..n : l.prev[s[k]] \in {s[k - 1], Null}

(* The whole list.                                                         *)
Listed(l, n, s) ==
  /\ Chain(l, n, s)
  /\ l.heap = Members(n, s)
  /\ l.head = IF n = 0 THEN Null ELSE s[1]

(* Every node but the head points back.                                    *)
Backed(l, n, s) == \A k \in 2..n : l.prev[s[k]] = s[k - 1]

Inserted(n, s, q, t) ==
  [k \in 1..n + 1 |-> IF k <= q THEN s[k] ELSE IF k = q + 1 THEN t ELSE s[k - 1]]

Intact(l) == l \in ListType /\ l.fault = "none"

Memory == Null \notin Timers /\ IsFiniteSet(Timers)

-----------------------------------------------------------------------------
(* What the recursive definition of After is, once it is known to exist.   *)
LEMMA AfterIs ==
  ASSUME NEW l, NEW t, NEW M \in Nat, M = Cardinality(Timers), NEW g,
         g = [k \in 0..M |-> IF k = 0 THEN t
                               ELSE IF g[k - 1] = Null THEN Null ELSE l.next[g[k - 1]]]
  PROVE  After(l, t) = g
<1> DEFINE F(node) == [k \in 0..M |-> IF k = 0 THEN t
                                        ELSE IF node[k - 1] = Null THEN Null ELSE l.next[node[k - 1]]]
           A == After(l, t)
           S == {k \in Nat : k \in 0..M => A[k] = g[k]}
<1>1. After(l, t) = CHOOSE node : node = F(node)
  BY DEF After
<1>2. g = F(g)
  OBVIOUS
<1>3. A = F(A)
  <2> HIDE DEF F
  <2> QED
    BY <1>1, <1>2, Zenon
<1> HIDE DEF A
<1>4. 0 \in S
  BY <1>2, <1>3
<1>5. ASSUME NEW k \in S PROVE k + 1 \in S
  <2>1. k \in Nat /\ (k \in 0..M => A[k] = g[k])
    OBVIOUS
  <2>2. k + 1 \in 0..M => A[k + 1] = g[k + 1]
    <3> HIDE DEF S
    <3> SUFFICES ASSUME k + 1 \in 0..M PROVE A[k + 1] = g[k + 1]
      OBVIOUS
    <3>1. k \in 0..M /\ k + 1 # 0 /\ (k + 1) - 1 = k
      BY <2>1
    <3>2. A[k + 1] = IF A[k] = Null THEN Null ELSE l.next[A[k]]
      BY <1>3, <3>1
    <3>3. g[k + 1] = IF g[k] = Null THEN Null ELSE l.next[g[k]]
      BY <1>2, <3>1
    <3> QED
      BY <2>1, <3>1, <3>2, <3>3
  <2> QED
    BY <2>1, <2>2
<1>6. \A k \in 0..M : A[k] = g[k]
  <2> HIDE DEF S
  <2>1. Nat \subseteq S
    BY <1>4, <1>5, NatSet
  <2> QED
    BY <2>1 DEF S
<1>7. A = [k \in 0..M |-> A[k]] /\ g = [k \in 0..M |-> g[k]]
  BY <1>2, <1>3
<1> QED
  BY <1>6, <1>7 DEF A

(* A chain is not longer than there are timers.                            *)
LEMMA Fits ==
  ASSUME Memory, NEW n \in Nat, NEW s \in [1..n -> Timers],
         \A j, k \in 1..n : s[j] = s[k] => j = k
  PROVE  /\ Cardinality(Timers) \in Nat /\ n <= Cardinality(Timers)
         /\ IsFiniteSet(Members(n, s)) /\ Cardinality(Members(n, s)) = n
<1>1. Cardinality(Timers) \in Nat
  BY FS_CardinalityType DEF Memory
<1>2. s \in Injection(1..n, Timers)
  BY DEF Injection, IsInjective
<1>3. IsFiniteSet(1..n) /\ Cardinality(1..n) = n
  BY FS_Interval
<1>4. n <= Cardinality(Timers)
  BY <1>2, <1>3, FS_Injection DEF Memory, ExistsInjection
<1>5. s \in Bijection(1..n, Members(n, s))
  <2>1. s \in [1..n -> Members(n, s)]
    BY DEF Members
  <2> QED
    BY <2>1 DEF Bijection, Injection, Surjection, IsInjective, Members
<1>6. ExistsBijection(1..n, Members(n, s))
  BY <1>5 DEF ExistsBijection
<1> QED
  BY <1>1, <1>3, <1>4, <1>6, FS_Bijection

(* Following next from the p-th node.                                      *)
LEMMA AfterChain ==
  ASSUME Memory, NEW l, NEW n, NEW s, Chain(l, n, s), NEW p \in 1..n
  PROVE  After(l, s[p]) = [k \in 0..Cardinality(Timers) |-> IF p + k <= n THEN s[p + k] ELSE Null]
<1> DEFINE M == Cardinality(Timers)
           g == [k \in 0..M |-> IF p + k <= n THEN s[p + k] ELSE Null]
<1>1. n \in Nat /\ M \in Nat /\ n <= M
  BY Fits DEF Chain
<1> HIDE DEF M
<1>2. \A k \in 0..M : g[k] = IF k = 0 THEN s[p]
                              ELSE IF g[k - 1] = Null THEN Null ELSE l.next[g[k - 1]]
  <2> SUFFICES ASSUME NEW k \in 0..M
               PROVE  g[k] = IF k = 0 THEN s[p] ELSE IF g[k - 1] = Null THEN Null ELSE l.next[g[k - 1]]
    OBVIOUS
  <2>0. CASE k = 0
    BY <1>1, <2>0
  <2> SUFFICES ASSUME k # 0
               PROVE  g[k] = IF g[k - 1] = Null THEN Null ELSE l.next[g[k - 1]]
    BY <2>0
  <2>1. k - 1 \in 0..M /\ g[k - 1] = IF p + k - 1 <= n THEN s[p + k - 1] ELSE Null
    BY <1>1
  <2>2. CASE p + k - 1 <= n
    <3>1. p + k - 1 \in 1..n /\ g[k - 1] = s[p + k - 1] /\ s[p + k - 1] # Null
      BY <1>1, <2>1, <2>2 DEF Chain, Memory
    <3>2. l.next[s[p + k - 1]] = IF p + k - 1 = n THEN Null ELSE s[p + k]
      BY <1>1, <3>1 DEF Chain
    <3> QED
      BY <1>1, <3>1, <3>2, <2>2
  <2>3. CASE ~(p + k - 1 <= n)
    BY <1>1, <2>1, <2>3
  <2> QED
    BY <2>2, <2>3
<1>3. g = [k \in 0..M |-> IF k = 0 THEN s[p]
                           ELSE IF g[k - 1] = Null THEN Null ELSE l.next[g[k - 1]]]
  BY <1>2
<1> HIDE DEF g
<1>4. M \in Nat /\ M = Cardinality(Timers)
  BY <1>1 DEF M
<1>5. After(l, s[p]) = g
  BY <1>3, <1>4, AfterIs, SMTT(60)
<1> QED
  BY <1>5 DEF M, g

LEMMA AfterNull ==
  ASSUME Memory, NEW l
  PROVE  After(l, Null) = [k \in 0..Cardinality(Timers) |-> Null]
<1> DEFINE M == Cardinality(Timers)
           g == [k \in 0..M |-> Null]
<1>1. M \in Nat
  BY FS_CardinalityType DEF Memory
<1>2. g = [k \in 0..M |-> IF k = 0 THEN Null
                           ELSE IF g[k - 1] = Null THEN Null ELSE l.next[g[k - 1]]]
  BY <1>1
<1> HIDE DEF g
<1> QED
  BY <1>1, <1>2, AfterIs DEF g

-----------------------------------------------------------------------------
(* A store through a pointer to a node.                                    *)
LEMMA StoreNext ==
  ASSUME Memory, NEW l, Intact(l), NEW t \in l.heap, NEW v \in Link
  PROVE  LET m == Store(l, "next", t, v)
         IN /\ Intact(m) /\ m.next = [l.next EXCEPT ![t] = v]
            /\ m.head = l.head /\ m.tail = l.tail /\ m.heap = l.heap /\ m.prev = l.prev
BY DEF Store, Intact, ListType, Link, Memory

LEMMA StorePrev ==
  ASSUME Memory, NEW l, Intact(l), NEW t \in l.heap, NEW v \in Link
  PROVE  LET m == Store(l, "prev", t, v)
         IN /\ Intact(m) /\ m.prev = [l.prev EXCEPT ![t] = v]
            /\ m.head = l.head /\ m.tail = l.tail /\ m.heap = l.heap /\ m.next = l.next
BY DEF Store, Intact, ListType, Link, Memory

(* A store through NULL, and what follows it.                              *)
LEMMA StoreNull ==
  ASSUME Memory, NEW l, Intact(l), NEW link, NEW v
  PROVE  Store(l, link, Null, v) = [l EXCEPT !.fault = "null"]
BY DEF Store, Intact, ListType, Memory

LEMMA StoreFaulty ==
  ASSUME NEW l, l.fault # "none", NEW link, NEW t, NEW v
  PROVE  Store(l, link, t, v) = l
BY DEF Store

(* The node t is between s[q] and what followed it.                        *)
Spliced(l, m, n, s, q, t) ==
  /\ Intact(m) /\ m.head = l.head /\ m.heap = l.heap
  /\ m.tail = IF q < n THEN l.tail ELSE t
  /\ m.next = [l.next EXCEPT ![s[q]] = t, ![t] = IF q < n THEN s[q + 1] ELSE Null]
  /\ m.prev[t] = s[q]
  /\ q < n => m.prev[s[q + 1]] = t
  /\ \A u \in Timers : u # t /\ (q < n => u # s[q + 1]) => m.prev[u] = l.prev[u]

LEMMA InsertBetween ==
  ASSUME Memory, NEW l, Intact(l), NEW n, NEW s, Chain(l, n, s), NEW q \in 1..n, q < n,
         NEW t \in l.heap \ Members(n, s)
  PROVE  Spliced(l, Between(l, s[q], t, s[q + 1]), n, s, q, t)
<1> DEFINE a == s[q]
           b == s[q + 1]
           m1 == Store(l, "next", a, t)
           m2 == Store(m1, "next", t, b)
           m3 == Store(m2, "prev", b, t)
           m4 == Store(m3, "prev", t, a)
<1>1. /\ a \in l.heap /\ b \in l.heap /\ t \in l.heap /\ a # t /\ b # t
      /\ a \in Timers /\ b \in Timers /\ t \in Timers
      /\ {a, b, t} \subseteq Link
  BY DEF Chain, Members, Link, Intact, ListType
<1>2. /\ Intact(m1) /\ m1.next = [l.next EXCEPT ![a] = t]
      /\ m1.head = l.head /\ m1.tail = l.tail /\ m1.heap = l.heap /\ m1.prev = l.prev
  <2> HIDE DEF a
  <2> QED
    BY <1>1, StoreNext
<1>3. /\ Intact(m2) /\ m2.next = [m1.next EXCEPT ![t] = b]
      /\ m2.head = l.head /\ m2.tail = l.tail /\ m2.heap = l.heap /\ m2.prev = l.prev
  <2> HIDE DEF a, b, m1
  <2> QED
    BY <1>1, <1>2, StoreNext
<1>4. /\ Intact(m3) /\ m3.prev = [l.prev EXCEPT ![b] = t]
      /\ m3.head = l.head /\ m3.tail = l.tail /\ m3.heap = l.heap /\ m3.next = m2.next
  <2> HIDE DEF a, b, m2
  <2> QED
    BY <1>1, <1>3, StorePrev
<1>5. /\ Intact(m4) /\ m4.prev = [m3.prev EXCEPT ![t] = a]
      /\ m4.head = l.head /\ m4.tail = l.tail /\ m4.heap = l.heap /\ m4.next = m2.next
  <2> HIDE DEF a, b, m3
  <2> QED
    BY <1>1, <1>4, StorePrev
<1>6. Between(l, a, t, b) = m4
  BY DEF Between
<1>7. l.prev \in [Timers -> Link]
  BY DEF Intact, ListType, Link
<1> HIDE DEF m1, m2, m3, m4
<1> QED
  BY <1>1, <1>2, <1>3, <1>4, <1>5, <1>6, <1>7 DEF Spliced

LEMMA InsertLast ==
  ASSUME Memory, NEW l, Intact(l), NEW n, NEW s, Chain(l, n, s), n > 0,
         NEW t \in l.heap \ Members(n, s)
  PROVE  Spliced(l, [Store(Store(Store(l, "next", s[n], t), "prev", t, s[n]), "next", t, Null)
                       EXCEPT !.tail = t], n, s, n, t)
<1> DEFINE a == s[n]
           m1 == Store(l, "next", a, t)
           m2 == Store(m1, "prev", t, a)
           m3 == Store(m2, "next", t, Null)
<1>1. /\ a \in l.heap /\ t \in l.heap /\ a # t /\ a \in Timers /\ t \in Timers
      /\ {a, t, Null} \subseteq Link /\ n \in Nat
  BY DEF Chain, Members, Link, Intact, ListType
<1>2. /\ Intact(m1) /\ m1.next = [l.next EXCEPT ![a] = t]
      /\ m1.head = l.head /\ m1.tail = l.tail /\ m1.heap = l.heap /\ m1.prev = l.prev
  <2> HIDE DEF a
  <2> QED
    BY <1>1, StoreNext
<1>3. /\ Intact(m2) /\ m2.prev = [l.prev EXCEPT ![t] = a]
      /\ m2.head = l.head /\ m2.tail = l.tail /\ m2.heap = l.heap /\ m2.next = m1.next
  <2> HIDE DEF a, m1
  <2> QED
    BY <1>1, <1>2, StorePrev
<1>4. /\ Intact(m3) /\ m3.next = [m1.next EXCEPT ![t] = Null]
      /\ m3.head = l.head /\ m3.tail = l.tail /\ m3.heap = l.heap /\ m3.prev = m2.prev
  <2> HIDE DEF a, m2
  <2> QED
    BY <1>1, <1>3, StoreNext
<1>5. l.prev \in [Timers -> Link]
  BY DEF Intact, ListType, Link
<1> DEFINE m4 == [m3 EXCEPT !.tail = t]
<1>6. /\ Intact(m4) /\ m4.tail = t
      /\ m4.head = m3.head /\ m4.heap = m3.heap /\ m4.next = m3.next /\ m4.prev = m3.prev
  <2> HIDE DEF m3
  <2> QED
    BY <1>1, <1>4 DEF Intact, ListType
<1> HIDE DEF m1, m2, m3, m4
<1>7. Spliced(l, m4, n, s, n, t)
  BY <1>1, <1>2, <1>3, <1>4, <1>5, <1>6 DEF Spliced
<1> QED
  BY <1>7 DEF m4, m3, m2, m1

(* Where add_timer(timer, lst_head) puts it.                               *)
LEMMA InsertAfterSplices ==
  ASSUME Memory, NEW l, Intact(l), NEW n, NEW s, Chain(l, n, s), NEW p \in 1..n,
         NEW t \in l.heap \ Members(n, s), NEW expire
  PROVE  \E q \in p..n :
           /\ Spliced(l, InsertAfter(l, expire, t, s[p]), n, s, q, t)
           /\ \A i \in p + 1..q : ~StopsAt(expire, t, s[i])
           /\ q < n => StopsAt(expire, t, s[q + 1])
<1> DEFINE M == Cardinality(Timers)
           node == After(l, s[p])
           Stop == {m \in 1..M : node[m] = Null \/ StopsAt(expire, t, node[m])}
           k == Min(Stop)
           q == p + k - 1
<1>1. n \in Nat /\ M \in Nat /\ n <= M
  BY Fits DEF Chain
<1>2. node = [m \in 0..M |-> IF p + m <= n THEN s[p + m] ELSE Null]
  BY AfterChain
<1> HIDE DEF M, node
<1>3. n - p + 1 \in Stop
  BY <1>1, <1>2
<1>4. k \in Stop /\ \A m \in Stop : k <= m
  <2>1. Stop \subseteq Nat /\ Stop # {}
    BY <1>1, <1>3
  <2> HIDE DEF Stop
  <2> QED
    BY <2>1, MinExists
<1>5. k \in 1..M /\ k <= n - p + 1
  <2>1. Stop \subseteq 1..M
    OBVIOUS
  <2> HIDE DEF Stop
  <2> QED
    BY <1>3, <1>4, <2>1
<1> HIDE DEF k
<1>6. q \in p..n /\ q \in 1..n /\ node[k - 1] = s[q]
      /\ node[k] = IF q < n THEN s[q + 1] ELSE Null
  BY <1>1, <1>2, <1>5
<1>7. \A i \in p + 1..q : ~StopsAt(expire, t, s[i])
  <2> SUFFICES ASSUME NEW i \in p + 1..q PROVE ~StopsAt(expire, t, s[i])
    OBVIOUS
  <2>1. i - p \in 1..M /\ i - p < k /\ node[i - p] = s[i]
    BY <1>1, <1>2, <1>5
  <2>2. i - p \notin Stop
    <3> HIDE DEF Stop
    <3> QED
      BY <1>1, <1>4, <1>5, <2>1
  <2> QED
    BY <2>1, <2>2
<1>8. q < n => StopsAt(expire, t, s[q + 1])
  <2> SUFFICES ASSUME q < n PROVE StopsAt(expire, t, s[q + 1])
    OBVIOUS
  <2>1. node[k] = s[q + 1] /\ s[q + 1] # Null
    BY <1>1, <1>6 DEF Chain, Memory
  <2>2. node[k] = Null \/ StopsAt(expire, t, node[k])
    BY <1>4
  <2> QED
    BY <2>1, <2>2
<1>9. InsertAfter(l, expire, t, s[p]) =
        IF node[k] # Null THEN Between(l, node[k - 1], t, node[k])
          ELSE [Store(Store(Store(l, "next", node[k - 1], t), "prev", t, node[k - 1]), "next", t, Null)
                  EXCEPT !.tail = t]
  BY DEF InsertAfter, node, k, M
<1> HIDE DEF Stop
<1>10. Spliced(l, InsertAfter(l, expire, t, s[p]), n, s, q, t)
  <2>1. CASE q < n
    <3>1. node[k] = s[q + 1] /\ s[q + 1] # Null
      BY <1>1, <1>6, <2>1 DEF Chain, Memory
    <3> HIDE DEF q
    <3> QED
      BY <1>6, <1>9, <2>1, <3>1, InsertBetween
  <2>2. CASE ~(q < n)
    <3>1. node[k] = Null /\ q = n /\ n > 0
      BY <1>1, <1>6, <2>2
    <3> HIDE DEF q
    <3> QED
      BY <1>6, <1>9, <3>1, InsertLast
  <2> QED
    BY <2>1, <2>2
<1> QED
  BY <1>6, <1>7, <1>8, <1>10

-----------------------------------------------------------------------------
(* A sequence of nodes with one more in it.                                *)
LEMMA InsertedIs ==
  ASSUME NEW n \in Nat, NEW s \in [1..n -> Timers],
         \A j, k \in 1..n : s[j] = s[k] => j = k,
         NEW q \in 0..n, NEW t \in Timers \ Members(n, s),
         NEW w, w = Inserted(n, s, q, t)
  PROVE  /\ w \in [1..n + 1 -> Timers]
         /\ \A k \in 1..q : w[k] = s[k]
         /\ w[q + 1] = t
         /\ \A k \in q + 1..n : w[k + 1] = s[k]
         /\ \A j, k \in 1..n + 1 : w[j] = w[k] => j = k
         /\ Members(n + 1, w) = Members(n, s) \cup {t}
<1>1. \A k \in 1..n + 1 : /\ k \in 1..q \/ k = q + 1 \/ k - 1 \in q + 1..n
                          /\ w[k] = IF k <= q THEN s[k] ELSE IF k = q + 1 THEN t ELSE s[k - 1]
  BY DEF Inserted
<1>2. w \in [1..n + 1 -> Timers]
  BY DEF Inserted
<1>3. \A k \in 1..q : w[k] = s[k]
  BY <1>1
<1>4. w[q + 1] = t
  BY <1>1
<1>5. \A k \in q + 1..n : w[k + 1] = s[k]
  BY <1>1
<1>6. \A j \in 1..n : s[j] # t
  BY DEF Members
<1>7. \A j, k \in 1..n + 1 : w[j] = w[k] => j = k
  <2> SUFFICES ASSUME NEW j \in 1..n + 1, NEW k \in 1..n + 1, w[j] = w[k] PROVE j = k
    OBVIOUS
  <2>1. \/ j \in 1..q /\ w[j] = s[j]
        \/ j = q + 1 /\ w[j] = t
        \/ j - 1 \in q + 1..n /\ w[j] = s[j - 1]
    BY <1>1
  <2>2. \/ k \in 1..q /\ w[k] = s[k]
        \/ k = q + 1 /\ w[k] = t
        \/ k - 1 \in q + 1..n /\ w[k] = s[k - 1]
    BY <1>1
  <2>3. 1..q \subseteq 1..n /\ q + 1..n \subseteq 1..n
    OBVIOUS
  <2> QED
    BY <1>6, <2>1, <2>2, <2>3
<1>8. Members(n + 1, w) = Members(n, s) \cup {t}
  <2>1. \A k \in 1..n + 1 : w[k] \in Members(n, s) \cup {t}
    <3> SUFFICES ASSUME NEW k \in 1..n + 1 PROVE w[k] \in Members(n, s) \cup {t}
      OBVIOUS
    <3>1. \/ k \in 1..n /\ w[k] = s[k]
          \/ w[k] = t
          \/ k - 1 \in 1..n /\ w[k] = s[k - 1]
      BY <1>1
    <3> QED
      BY <3>1 DEF Members
  <2>2. \A k \in 1..n : s[k] \in Members(n + 1, w)
    <3> SUFFICES ASSUME NEW k \in 1..n PROVE s[k] \in Members(n + 1, w)
      OBVIOUS
    <3>1. (k \in 1..n + 1 /\ w[k] = s[k]) \/ (k + 1 \in 1..n + 1 /\ w[k + 1] = s[k])
      BY <1>3, <1>5
    <3> QED
      BY <3>1 DEF Members
  <2>3. t \in Members(n + 1, w)
    <3>1. q + 1 \in 1..n + 1
      OBVIOUS
    <3> QED
      BY <1>4, <3>1 DEF Members
  <2>4. Members(n + 1, w) \subseteq Members(n, s) \cup {t}
    BY <2>1 DEF Members
  <2>5. Members(n, s) \subseteq Members(n + 1, w)
    BY <2>2 DEF Members
  <2> QED
    BY <2>3, <2>4, <2>5
<1> QED
  BY <1>2, <1>3, <1>4, <1>5, <1>7, <1>8

LEMMA SplicedChain ==
  ASSUME Memory, NEW l, Intact(l), NEW n, NEW s, Chain(l, n, s), NEW q \in 1..n,
         NEW t \in l.heap \ Members(n, s), NEW m, Spliced(l, m, n, s, q, t),
         NEW w, w = Inserted(n, s, q, t)
  PROVE  /\ Chain(m, n + 1, w) /\ w[1] = s[1]
         /\ Members(n + 1, w) = Members(n, s) \cup {t}
         /\ Backed(l, n, s) => Backed(m, n + 1, w)
<1>1. /\ n \in Nat /\ s \in [1..n -> Timers] /\ t \in Timers
      /\ \A j, k \in 1..n : s[j] = s[k] => j = k
      /\ Members(n, s) \subseteq l.heap
      /\ \A k \in 1..n : l.next[s[k]] = IF k = n THEN Null ELSE s[k + 1]
      /\ \A k \in 2..n : l.prev[s[k]] \in {s[k - 1], Null}
      /\ l.tail = s[n]
  BY DEF Chain, Intact, ListType
<1>2. /\ w \in [1..n + 1 -> Timers]
      /\ \A k \in 1..q : w[k] = s[k]
      /\ w[q + 1] = t
      /\ \A k \in q + 1..n : w[k + 1] = s[k]
      /\ \A j, k \in 1..n + 1 : w[j] = w[k] => j = k
      /\ Members(n + 1, w) = Members(n, s) \cup {t}
  <2>1. q \in 0..n
    BY <1>1
  <2> QED
    BY <1>1, <2>1, InsertedIs, SMTT(60)
<1>3. \A j \in 1..n : s[j] # t
  BY DEF Members
<1>4. /\ l.next \in [Timers -> Link] /\ l.prev \in [Timers -> Link]
      /\ m.heap = l.heap /\ m.tail = IF q < n THEN l.tail ELSE t
      /\ m.next = [l.next EXCEPT ![s[q]] = t, ![t] = IF q < n THEN s[q + 1] ELSE Null]
      /\ m.prev[t] = s[q]
      /\ q < n => m.prev[s[q + 1]] = t
      /\ \A u \in Timers : u # t /\ (q < n => u # s[q + 1]) => m.prev[u] = l.prev[u]
  BY DEF Spliced, Intact, ListType, Link
<1>5. \A k \in 1..n : m.next[s[k]] = IF k = q THEN t ELSE l.next[s[k]]
  BY <1>1, <1>3, <1>4
<1>6. m.next[t] = IF q < n THEN s[q + 1] ELSE Null
  BY <1>1, <1>4
<1>7. \A k \in 1..n : k # q + 1 => m.prev[s[k]] = l.prev[s[k]]
  BY <1>1, <1>3, <1>4
<1>8. \A k \in 1..n + 1 : m.next[w[k]] = IF k = n + 1 THEN Null ELSE w[k + 1]
  <2> SUFFICES ASSUME NEW k \in 1..n + 1
               PROVE  m.next[w[k]] = IF k = n + 1 THEN Null ELSE w[k + 1]
    OBVIOUS
  <2>1. CASE k < q
    <3>1. k \in 1..q /\ k + 1 \in 1..q /\ k \in 1..n
      BY <1>1, <2>1
    <3> QED
      BY <1>1, <1>2, <1>5, <3>1, <2>1
  <2>2. CASE k = q
    BY <1>1, <1>2, <1>5, <2>2
  <2>3. CASE k = q + 1
    <3>1. CASE q < n
      <4>1. q + 1 \in q + 1..n
        BY <1>1, <3>1
      <4>2. w[k + 1] = s[q + 1]
        BY <1>2, <2>3, <4>1
      <4> QED
        BY <1>1, <1>2, <1>6, <2>3, <3>1, <4>2
    <3>2. CASE q = n
      BY <1>1, <1>2, <1>6, <2>3, <3>2
    <3> QED
      BY <1>1, <3>1, <3>2
  <2>4. CASE k > q + 1
    <3>1. k - 1 \in q + 1..n /\ k - 1 \in 1..n /\ (k - 1) + 1 = k
      BY <1>1, <2>4
    <3>2. w[k] = s[k - 1]
      BY <1>2, <3>1
    <3>3. m.next[s[k - 1]] = IF k - 1 = n THEN Null ELSE s[k]
      BY <1>1, <1>5, <3>1
    <3>4. k # n + 1 => w[k + 1] = s[k]
      BY <1>1, <1>2, <2>4
    <3> QED
      BY <1>1, <3>1, <3>2, <3>3, <3>4
  <2> QED
    BY <1>1, <2>1, <2>2, <2>3, <2>4
<1>9. ASSUME NEW k \in 2..n + 1
      PROVE  /\ k <= q => k \in 2..n /\ w[k] = s[k] /\ w[k - 1] = s[k - 1] /\ m.prev[s[k]] = l.prev[s[k]]
             /\ k \in {q + 1, q + 2} => m.prev[w[k]] = w[k - 1]
             /\ k > q + 2 => k - 1 \in 2..n /\ w[k] = s[k - 1] /\ w[k - 1] = s[k - 2]
                             /\ m.prev[s[k - 1]] = l.prev[s[k - 1]]
  <2>1. CASE k <= q
    <3>1. k \in 1..q /\ k - 1 \in 1..q /\ k \in 2..n /\ k \in 1..n /\ k # q + 1
      BY <1>1, <2>1
    <3>2. w[k] = s[k] /\ w[k - 1] = s[k - 1] /\ m.prev[s[k]] = l.prev[s[k]]
      BY <1>2, <1>7, <3>1
    <3> QED
      BY <1>1, <2>1, <3>1, <3>2
  <2>2. CASE k = q + 1
    BY <1>1, <1>2, <1>4, <2>2
  <2>3. CASE k = q + 2
    <3>1. q < n /\ q + 1 \in q + 1..n
      BY <1>1, <2>3
    <3>2. w[k] = s[q + 1] /\ w[k - 1] = t
      BY <1>1, <1>2, <2>3, <3>1
    <3> QED
      BY <1>1, <1>4, <2>3, <3>1, <3>2
  <2>4. CASE k > q + 2
    <3>1. k - 1 \in q + 1..n /\ k - 2 \in q + 1..n /\ (k - 1) + 1 = k /\ (k - 2) + 1 = k - 1
          /\ k - 1 \in 1..n /\ k - 1 # q + 1
      BY <1>1, <2>4
    <3>2. w[k] = s[k - 1] /\ w[k - 1] = s[k - 2]
      BY <1>2, <3>1
    <3> QED
      BY <1>1, <1>7, <2>4, <3>1, <3>2
  <2> QED
    BY <1>1, <2>1, <2>2, <2>3, <2>4
<1>10. \A k \in 2..n + 1 : m.prev[w[k]] \in {w[k - 1], Null}
  <2> SUFFICES ASSUME NEW k \in 2..n + 1 PROVE m.prev[w[k]] \in {w[k - 1], Null}
    OBVIOUS
  <2>1. CASE k <= q
    BY <1>1, <1>9, <2>1, ZenonT(60)
  <2>2. CASE k \in {q + 1, q + 2}
    BY <1>9, <2>2
  <2>3. CASE k > q + 2
    <3>1. k - 1 \in 2..n /\ w[k] = s[k - 1] /\ w[k - 1] = s[k - 2]
          /\ m.prev[s[k - 1]] = l.prev[s[k - 1]] /\ (k - 1) - 1 = k - 2
      BY <1>1, <1>9, <2>3
    <3> QED
      BY <1>1, <3>1
  <2> QED
    BY <1>1, <2>1, <2>2, <2>3
<1>11. Backed(l, n, s) => Backed(m, n + 1, w)
  <2> SUFFICES ASSUME Backed(l, n, s), NEW k \in 2..n + 1 PROVE m.prev[w[k]] = w[k - 1]
    BY DEF Backed
  <2>1. CASE k <= q
    BY <1>1, <1>9, <2>1 DEF Backed
  <2>2. CASE k \in {q + 1, q + 2}
    BY <1>9, <2>2
  <2>3. CASE k > q + 2
    <3>1. k - 1 \in 2..n /\ w[k] = s[k - 1] /\ w[k - 1] = s[k - 2]
          /\ m.prev[s[k - 1]] = l.prev[s[k - 1]] /\ (k - 1) - 1 = k - 2
      BY <1>1, <1>9, <2>3
    <3> QED
      BY <1>1, <3>1 DEF Backed
  <2> QED
    BY <1>1, <2>1, <2>2, <2>3
<1>12. m.tail = w[n + 1]
  <2>1. CASE q < n
    <3>1. n \in q + 1..n
      BY <1>1, <2>1
    <3> QED
      BY <1>1, <1>2, <1>4, <2>1, <3>1
  <2>2. CASE q = n
    BY <1>2, <1>4, <2>2
  <2> QED
    BY <1>1, <2>1, <2>2
<1>13. Chain(m, n + 1, w)
  <2>1. n + 1 \in Nat /\ Members(n + 1, w) \subseteq m.heap
    BY <1>1, <1>2, <1>4
  <2> QED
    BY <1>2, <1>8, <1>10, <1>12, <2>1 DEF Chain
<1> QED
  BY <1>1, <1>2, <1>11, <1>13

-----------------------------------------------------------------------------
(* new util_timer leaves the list alone.                                   *)
LEMMA AllocKeeps ==
  ASSUME Memory, NEW l, Intact(l), NEW n, NEW s, Listed(l, n, s), NEW t \in Timers \ l.heap
  PROVE  LET a == Alloc(l, t)
         IN /\ Intact(a) /\ Chain(a, n, s) /\ a.head = l.head /\ a.tail = l.tail
            /\ a.heap = l.heap \cup {t} /\ a.next[t] = Null
            /\ \A u \in Timers \ {t} : a.next[u] = l.next[u] /\ a.prev[u] = l.prev[u]
<1> DEFINE a == Alloc(l, t)
<1>1. /\ l.next \in [Timers -> Link] /\ l.prev \in [Timers -> Link]
      /\ l.heap \subseteq Timers
  BY DEF Intact, ListType, Link
<1>2. /\ a.head = l.head /\ a.tail = l.tail /\ a.fault = l.fault
      /\ a.heap = l.heap \cup {t}
      /\ a.next = [l.next EXCEPT ![t] = Null] /\ a.prev = [l.prev EXCEPT ![t] = Null]
      /\ Intact(a)
  BY DEF Alloc, Intact, ListType
<1> HIDE DEF a
<1>3. \A u \in Timers \ {t} : a.next[u] = l.next[u] /\ a.prev[u] = l.prev[u]
  BY <1>1, <1>2
<1>4. \A k \in 1..n : s[k] \in Timers \ {t}
  BY DEF Listed, Chain, Members
<1>5. n \in Nat /\ \A k \in 2..n : k \in 1..n
  BY DEF Listed, Chain
<1>6. Chain(a, n, s)
  <2>1. \A k \in 1..n : a.next[s[k]] = l.next[s[k]] /\ a.prev[s[k]] = l.prev[s[k]]
    BY <1>3, <1>4
  <2> QED
    BY <1>2, <1>5, <2>1 DEF Listed, Chain
<1>7. a.next[t] = Null
  BY <1>1, <1>2
<1> QED
  BY <1>2, <1>3, <1>6, <1>7 DEF a

(* add_timer(timer), line 48.                                              *)
LEMMA AddLists ==
  ASSUME Memory, NEW l, Intact(l), NEW n, NEW s, Listed(l, n, s), NEW t \in Timers \ l.heap,
         NEW expire
  PROVE  LET m == AddTimer(Alloc(l, t), expire, t)
         IN /\ Intact(m) /\ m.heap = l.heap \cup {t}
            /\ \E q \in 0..n :
                 /\ Listed(m, n + 1, Inserted(n, s, q, t))
                 /\ Backed(l, n, s) => Backed(m, n + 1, Inserted(n, s, q, t))
                 /\ \A i \in 1..q : ~StopsAt(expire, t, s[i])
                 /\ q < n => StopsAt(expire, t, s[q + 1])
<1> DEFINE a == Alloc(l, t)
           m == AddTimer(a, expire, t)
           Goal(q) == /\ Listed(m, n + 1, Inserted(n, s, q, t))
                      /\ Backed(l, n, s) => Backed(m, n + 1, Inserted(n, s, q, t))
                      /\ \A i \in 1..q : ~StopsAt(expire, t, s[i])
                      /\ q < n => StopsAt(expire, t, s[q + 1])
<1>1. /\ Intact(a) /\ Chain(a, n, s) /\ a.head = l.head /\ a.tail = l.tail
      /\ a.heap = l.heap \cup {t} /\ a.next[t] = Null
      /\ \A u \in Timers \ {t} : a.next[u] = l.next[u] /\ a.prev[u] = l.prev[u]
  BY AllocKeeps
<1>2. /\ n \in Nat /\ s \in [1..n -> Timers] /\ t \in Timers
      /\ \A j, k \in 1..n : s[j] = s[k] => j = k
      /\ l.heap = Members(n, s) /\ t \notin Members(n, s)
      /\ l.head = IF n = 0 THEN Null ELSE s[1]
      /\ a.next \in [Timers -> Link] /\ a.prev \in [Timers -> Link]
      /\ \A k \in 1..n : s[k] # t /\ s[k] # Null
  BY <1>1 DEF Listed, Chain, Intact, ListType, Link, Members, Memory
<1> HIDE DEF a
<1>3. CASE n = 0
  <2>1. m = [a EXCEPT !.head = t, !.tail = t]
    BY <1>1, <1>2, <1>3 DEF AddTimer
  <2>2. Intact(m) /\ m.head = t /\ m.tail = t /\ m.heap = {t} /\ m.next = a.next /\ m.prev = a.prev
    <3> HIDE DEF m
    <3>1. Members(n, s) = {} /\ a.heap = {t}
      BY <1>1, <1>2, <1>3 DEF Members
    <3> QED
      BY <1>1, <1>2, <2>1, <3>1 DEF Intact, ListType
  <2> DEFINE w == Inserted(n, s, 0, t)
  <2>3. w \in [1..1 -> Timers] /\ w[1] = t
    BY <1>2, <1>3 DEF Inserted
  <2> HIDE DEF w, m
  <2>4. Members(1, w) = {t}
    BY <2>3 DEF Members
  <2>5. Listed(m, 1, w) /\ Backed(m, 1, w)
    BY <1>1, <2>2, <2>3, <2>4 DEF Listed, Chain, Backed
  <2>6. Goal(0)
    BY <1>3, <2>5 DEF w
  <2>7. 0 \in 0..n /\ m.heap = l.heap \cup {t}
    BY <1>2, <1>3, <2>2 DEF Members
  <2> QED
    BY <2>2, <2>6, <2>7 DEF a, m
<1>4. CASE n > 0 /\ StopsAt(expire, t, s[1])
  <2> DEFINE h == s[1]
             m1 == Store(a, "next", t, h)
             m2 == Store(m1, "prev", h, t)
  <2>1. h \in l.heap /\ h # t /\ h # Null /\ a.head = h /\ {h, t} \subseteq Link /\ 1 \in 1..n
        /\ h \in Timers
    BY <1>1, <1>2, <1>4 DEF Members, Link
  <2>2. m = [m2 EXCEPT !.head = t]
    BY <1>1, <1>4, <2>1 DEF AddTimer, StopsAt
  <2>3. /\ Intact(m1) /\ m1.next = [a.next EXCEPT ![t] = h]
        /\ m1.head = a.head /\ m1.tail = a.tail /\ m1.heap = a.heap /\ m1.prev = a.prev
    <3> HIDE DEF h
    <3> QED
      BY <1>1, <2>1, StoreNext
  <2>4. /\ Intact(m2) /\ m2.prev = [a.prev EXCEPT ![h] = t]
        /\ m2.tail = a.tail /\ m2.heap = a.heap /\ m2.next = m1.next
    <3> HIDE DEF h, m1
    <3> QED
      BY <1>1, <2>1, <2>3, StorePrev
  <2> HIDE DEF m1, m2
  <2>5. /\ Intact(m) /\ m.head = t /\ m.tail = l.tail /\ m.heap = l.heap \cup {t}
        /\ m.next = [a.next EXCEPT ![t] = h] /\ m.prev = [a.prev EXCEPT ![h] = t]
    <3> HIDE DEF m, h
    <3> QED
      BY <1>1, <1>2, <2>1, <2>2, <2>3, <2>4 DEF Intact, ListType
  <2> DEFINE w == Inserted(n, s, 0, t)
  <2>6. /\ w \in [1..n + 1 -> Timers] /\ w[1] = t
        /\ \A k \in 1..n : w[k + 1] = s[k]
        /\ \A j, k \in 1..n + 1 : w[j] = w[k] => j = k
        /\ Members(n + 1, w) = Members(n, s) \cup {t}
    <3> HIDE DEF w
    <3> DEFINE q == 0
    <3>1. q \in 0..n /\ w = Inserted(n, s, q, t) /\ t \in Timers \ Members(n, s)
      BY <1>2 DEF w
    <3> HIDE DEF q
    <3>2. /\ w \in [1..n + 1 -> Timers] /\ w[q + 1] = t
          /\ \A k \in q + 1..n : w[k + 1] = s[k]
          /\ \A j, k \in 1..n + 1 : w[j] = w[k] => j = k
          /\ Members(n + 1, w) = Members(n, s) \cup {t}
      BY <1>2, <3>1, InsertedIs
    <3> QED
      BY <1>2, <3>2 DEF q
  <2> HIDE DEF w, m
  <2>7. \A k \in 1..n + 1 : k = 1 \/ (k - 1 \in 1..n /\ w[k] = s[k - 1])
    <3> SUFFICES ASSUME NEW k \in 1..n + 1, k # 1 PROVE k - 1 \in 1..n /\ w[k] = s[k - 1]
      OBVIOUS
    <3>1. k - 1 \in 1..n /\ (k - 1) + 1 = k
      BY <1>2
    <3> QED
      BY <2>6, <3>1
  <2>8. \A k \in 1..n + 1 : m.next[w[k]] = IF k = n + 1 THEN Null ELSE w[k + 1]
    <3> SUFFICES ASSUME NEW k \in 1..n + 1
                 PROVE  m.next[w[k]] = IF k = n + 1 THEN Null ELSE w[k + 1]
      OBVIOUS
    <3>1. CASE k = 1
      BY <1>2, <1>4, <2>1, <2>5, <2>6, <3>1
    <3>2. CASE k # 1
      <4>1. k - 1 \in 1..n /\ w[k] = s[k - 1] /\ m.next[s[k - 1]] = a.next[s[k - 1]]
        BY <1>2, <2>5, <2>7, <3>2
      <4>2. a.next[s[k - 1]] = IF k - 1 = n THEN Null ELSE s[(k - 1) + 1]
        BY <1>1, <4>1 DEF Chain
      <4>3. k # n + 1 => k \in 1..n /\ w[k + 1] = s[k] /\ (k - 1) + 1 = k
        BY <1>2, <2>6
      <4> QED
        BY <1>2, <4>1, <4>2, <4>3
    <3> QED
      BY <3>1, <3>2
  <2>9. \A k \in 2..n + 1 :
          /\ k = 2 => m.prev[w[k]] = w[k - 1]
          /\ k > 2 => /\ k - 1 \in 2..n /\ w[k] = s[k - 1] /\ w[k - 1] = s[(k - 1) - 1]
                      /\ m.prev[w[k]] = a.prev[s[k - 1]]
                      /\ m.prev[w[k]] = l.prev[s[k - 1]]
    <3> SUFFICES ASSUME NEW k \in 2..n + 1
                 PROVE  /\ k = 2 => m.prev[w[k]] = w[k - 1]
                        /\ k > 2 => /\ k - 1 \in 2..n /\ w[k] = s[k - 1] /\ w[k - 1] = s[(k - 1) - 1]
                                    /\ m.prev[w[k]] = a.prev[s[k - 1]]
                                    /\ m.prev[w[k]] = l.prev[s[k - 1]]
      OBVIOUS
    <3>1. CASE k = 2
      BY <1>2, <2>1, <2>5, <2>6, <3>1
    <3>2. CASE k > 2
      <4>1. /\ k - 1 \in 2..n /\ k - 1 \in 1..n /\ (k - 1) - 1 \in 1..n /\ k - 1 # 1
            /\ k - 1 \in 1..n + 1 /\ k # 1 /\ k \in 1..n + 1
        BY <1>2, <3>2
      <4>2. w[k] = s[k - 1] /\ w[k - 1] = s[(k - 1) - 1]
        BY <2>7, <4>1
      <4>3. s[k - 1] # h /\ s[k - 1] # t /\ s[k - 1] \in Timers
        BY <1>2, <2>1, <4>1
      <4>4. m.prev[s[k - 1]] = a.prev[s[k - 1]] /\ a.prev[s[k - 1]] = l.prev[s[k - 1]]
        BY <1>1, <1>2, <2>5, <4>3
      <4> QED
        BY <3>2, <4>1, <4>2, <4>4
    <3> QED
      BY <3>1, <3>2
  <2>10. \A k \in 2..n + 1 : m.prev[w[k]] \in {w[k - 1], Null}
    <3> SUFFICES ASSUME NEW k \in 2..n + 1 PROVE m.prev[w[k]] \in {w[k - 1], Null}
      OBVIOUS
    <3>1. CASE k = 2
      BY <2>9, <3>1
    <3>2. CASE k > 2
      BY <1>1, <2>9, <3>2 DEF Chain
    <3> QED
      BY <3>1, <3>2
  <2>11. Backed(l, n, s) => Backed(m, n + 1, w)
    <3> SUFFICES ASSUME Backed(l, n, s), NEW k \in 2..n + 1 PROVE m.prev[w[k]] = w[k - 1]
      BY DEF Backed
    <3>1. CASE k = 2
      BY <2>9, <3>1
    <3>2. CASE k > 2
      BY <2>9, <3>2 DEF Backed
    <3> QED
      BY <3>1, <3>2
  <2>12. m.tail = w[n + 1] /\ n \in 1..n
    <3>1. n \in 1..n /\ w[n + 1] = s[n]
      BY <1>2, <1>4, <2>6
    <3> QED
      BY <1>1, <1>4, <2>5, <3>1 DEF Chain
  <2>13. Listed(m, n + 1, w)
    <3>1. n + 1 \in Nat /\ n + 1 # 0
      BY <1>2
    <3>2. Chain(m, n + 1, w)
      BY <1>2, <2>5, <2>6, <2>8, <2>10, <2>12, <3>1 DEF Chain
    <3> QED
      BY <1>2, <2>5, <2>6, <3>1, <3>2 DEF Listed
  <2>14. Goal(0)
    BY <1>4, <2>11, <2>13 DEF w
  <2>15. 0 \in 0..n
    BY <1>2
  <2> QED
    BY <2>5, <2>14, <2>15 DEF a, m
<1>5. CASE n > 0 /\ ~StopsAt(expire, t, s[1])
  <2>1. m = InsertAfter(a, expire, t, s[1])
    <3>1. a.head = s[1] /\ s[1] # Null
      BY <1>1, <1>2, <1>5
    <3> QED
      BY <1>5, <3>1 DEF AddTimer, StopsAt
  <2>2. 1 \in 1..n /\ t \in a.heap \ Members(n, s)
    BY <1>1, <1>2, <1>5
  <2>3. PICK q \in 1..n :
          /\ Spliced(a, m, n, s, q, t)
          /\ \A i \in 1 + 1..q : ~StopsAt(expire, t, s[i])
          /\ q < n => StopsAt(expire, t, s[q + 1])
    <3> HIDE DEF m
    <3> QED
      BY <1>1, <2>1, <2>2, InsertAfterSplices
  <2> DEFINE w == Inserted(n, s, q, t)
  <2> HIDE DEF m, w
  <2>4. /\ Chain(m, n + 1, w) /\ w[1] = s[1]
        /\ Members(n + 1, w) = Members(n, s) \cup {t}
        /\ Backed(a, n, s) => Backed(m, n + 1, w)
    BY <1>1, <2>2, <2>3, SplicedChain DEF w
  <2>5. Intact(m) /\ m.heap = l.heap \cup {t} /\ m.head = s[1]
    BY <1>1, <1>2, <1>5, <2>3 DEF Spliced
  <2>6. Listed(m, n + 1, w)
    BY <1>2, <2>4, <2>5 DEF Listed
  <2>7. Backed(l, n, s) => Backed(a, n, s)
    <3> SUFFICES ASSUME NEW k \in 2..n, l.prev[s[k]] = s[k - 1] PROVE a.prev[s[k]] = s[k - 1]
      BY DEF Backed
    <3>1. k \in 1..n
      BY <1>2
    <3> QED
      BY <1>1, <1>2, <3>1
  <2>8. \A i \in 1..q : ~StopsAt(expire, t, s[i])
    <3> SUFFICES ASSUME NEW i \in 1..q PROVE ~StopsAt(expire, t, s[i])
      OBVIOUS
    <3>1. i = 1 \/ i \in 1 + 1..q
      BY <1>2
    <3> QED
      BY <1>5, <2>3, <3>1
  <2>9. Goal(q)
    BY <2>3, <2>4, <2>6, <2>7, <2>8 DEF w
  <2>10. q \in 0..n
    BY <1>2
  <2> QED
    BY <2>5, <2>9, <2>10 DEF a, m
<1> QED
  BY <1>2, <1>3, <1>4, <1>5

-----------------------------------------------------------------------------
(* adjust_timer: whatever timer it is given, the nodes stay a list.        *)
LEMMA AdjustLists ==
  ASSUME Memory, NEW l, Intact(l), NEW n, NEW s, Listed(l, n, s), NEW t \in l.heap,
         NEW expire
  PROVE  LET m == AdjustTimer(l, expire, t)
         IN Intact(m) /\ m.heap = l.heap /\ \E w : Listed(m, n, w)
<1> DEFINE m == AdjustTimer(l, expire, t)
<1>1. /\ n \in Nat /\ s \in [1..n -> Timers]
      /\ \A j, k \in 1..n : s[j] = s[k] => j = k
      /\ l.heap = Members(n, s)
      /\ l.head = IF n = 0 THEN Null ELSE s[1]
      /\ \A k \in 1..n : l.next[s[k]] = IF k = n THEN Null ELSE s[k + 1]
      /\ l.next \in [Timers -> Link] /\ l.prev \in [Timers -> Link]
      /\ \A k \in 1..n : s[k] # Null
  BY DEF Listed, Chain, Intact, ListType, Link, Memory
<1>2. CASE InPlace(l, expire, t)
  BY <1>2 DEF AdjustTimer
<1>3. CASE ~InPlace(l, expire, t)
  <2> DEFINE a == s[1]
             h == s[2]
             r == [k \in 1..n - 1 |-> s[k + 1]]
             u0 == [l EXCEPT !.head = h]
             u1 == Store(u0, "prev", h, Null)
             u2 == Store(u1, "next", a, Null)
  <2>1. n >= 2
    <3>1. PICK i \in 1..n : t = s[i]
      BY <1>1 DEF Members
    <3>2. i # n
      BY <1>1, <1>3, <3>1 DEF InPlace
    <3> QED
      BY <1>1, <3>1, <3>2
  <2>2. /\ l.head = a /\ l.next[a] = h /\ a # h /\ a \in l.heap /\ h \in l.heap
        /\ a \in Timers /\ h \in Timers /\ Null \in Link
    BY <1>1, <2>1 DEF Members, Link
  <2>3. m = InsertAfter(u2, expire, a, h)
    BY <1>3, <2>2 DEF AdjustTimer
  <2>4. /\ Intact(u0) /\ u0.head = h /\ u0.tail = l.tail /\ u0.heap = l.heap
        /\ u0.next = l.next /\ u0.prev = l.prev
    <3> HIDE DEF h
    <3> QED
      BY <2>2 DEF Intact, ListType
  <2>5. /\ Intact(u1) /\ u1.prev = [l.prev EXCEPT ![h] = Null]
        /\ u1.head = h /\ u1.tail = l.tail /\ u1.heap = l.heap /\ u1.next = l.next
    <3> HIDE DEF h, u0
    <3> QED
      BY <2>2, <2>4, StorePrev
  <2>6. /\ Intact(u2) /\ u2.next = [l.next EXCEPT ![a] = Null]
        /\ u2.head = h /\ u2.tail = l.tail /\ u2.heap = l.heap /\ u2.prev = u1.prev
    <3> HIDE DEF a, h, u1
    <3> QED
      BY <2>2, <2>5, StoreNext
  <2> HIDE DEF m, u0, u1, u2
  <2>7. /\ r \in [1..n - 1 -> Timers] /\ n - 1 \in Nat /\ 1 \in 1..n - 1 /\ r[1] = h
        /\ \A k \in 1..n - 1 : r[k] = s[k + 1] /\ k + 1 \in 1..n /\ k + 1 # 1
    BY <1>1, <2>1
  <2> HIDE DEF r
  <2>8. \A j, k \in 1..n - 1 : r[j] = r[k] => j = k
    <3> SUFFICES ASSUME NEW j \in 1..n - 1, NEW k \in 1..n - 1, r[j] = r[k] PROVE j = k
      OBVIOUS
    <3>1. j + 1 = k + 1
      BY <1>1, <2>7, SMTT(60)
    <3> QED
      BY <1>1, <3>1
  <2>9. /\ Members(n - 1, r) \subseteq l.heap /\ a \notin Members(n - 1, r)
        /\ l.heap = Members(n - 1, r) \cup {a}
    <3>1. \A k \in 1..n - 1 : r[k] \in l.heap /\ r[k] # a
      <4> SUFFICES ASSUME NEW k \in 1..n - 1 PROVE r[k] \in l.heap /\ r[k] # a
        OBVIOUS
      <4>1. r[k] = s[k + 1] /\ k + 1 \in 1..n /\ k + 1 # 1 /\ 1 \in 1..n
        BY <1>1, <2>1, <2>7
      <4> QED
        BY <1>1, <4>1 DEF Members
    <3>2. \A k \in 1..n : s[k] \in Members(n - 1, r) \cup {a}
      <4> SUFFICES ASSUME NEW k \in 1..n, k # 1 PROVE s[k] \in Members(n - 1, r)
        OBVIOUS
      <4>1. k - 1 \in 1..n - 1 /\ (k - 1) + 1 = k
        BY <1>1
      <4> QED
        BY <2>7, <4>1 DEF Members
    <3> HIDE DEF a
    <3>3. Members(n - 1, r) \subseteq l.heap /\ a \notin Members(n - 1, r)
      BY <3>1 DEF Members
    <3>4. Members(n, s) \subseteq Members(n - 1, r) \cup {a}
      <4> DEFINE R == Members(n - 1, r)
      <4> HIDE DEF R
      <4> QED
        BY <3>2 DEF Members, R
    <3> QED
      BY <1>1, <2>2, <3>3, <3>4
  <2>10. \A k \in 1..n - 1 : u2.next[r[k]] = IF k = n - 1 THEN Null ELSE r[k + 1]
    <3> SUFFICES ASSUME NEW k \in 1..n - 1
                 PROVE  u2.next[r[k]] = IF k = n - 1 THEN Null ELSE r[k + 1]
      OBVIOUS
    <3>1. /\ r[k] = s[k + 1] /\ k + 1 \in 1..n /\ k + 1 # 1 /\ 1 \in 1..n
          /\ k # n - 1 => k + 1 \in 1..n - 1
      BY <1>1, <2>1, <2>7
    <3>2. r[k] # a
      BY <1>1, <3>1
    <3>3. u2.next[r[k]] = l.next[s[k + 1]]
      BY <1>1, <2>6, <3>1, <3>2
    <3>4. l.next[s[k + 1]] = IF k + 1 = n THEN Null ELSE s[(k + 1) + 1]
      BY <1>1, <3>1
    <3>5. k # n - 1 => r[k + 1] = s[(k + 1) + 1]
      BY <2>7, <3>1
    <3>6. k + 1 = n <=> k = n - 1
      BY <1>1
    <3> QED
      BY <3>3, <3>4, <3>5, <3>6
  <2>11. \A k \in 2..n - 1 : u2.prev[r[k]] \in {r[k - 1], Null}
    <3> SUFFICES ASSUME NEW k \in 2..n - 1 PROVE u2.prev[r[k]] \in {r[k - 1], Null}
      OBVIOUS
    <3>1. /\ k \in 1..n - 1 /\ k - 1 \in 1..n - 1 /\ (k - 1) + 1 = k /\ k + 1 \in 2..n
          /\ (k + 1) - 1 = k /\ k + 1 # 2 /\ 2 \in 1..n /\ k + 1 \in 1..n
      BY <1>1, <2>1
    <3>2. r[k] = s[k + 1] /\ r[k - 1] = s[k]
      BY <2>7, <3>1
    <3>3. s[k + 1] # h /\ s[k + 1] \in Timers
      BY <1>1, <3>1
    <3>4. u2.prev[s[k + 1]] = l.prev[s[k + 1]]
      BY <1>1, <2>5, <2>6, <3>3
    <3>5. l.prev[s[k + 1]] \in {s[(k + 1) - 1], Null}
      BY <3>1 DEF Listed, Chain
    <3> QED
      BY <3>1, <3>2, <3>4, <3>5
  <2>12. u2.tail = r[n - 1]
    <3>1. n - 1 \in 1..n - 1 /\ (n - 1) + 1 = n
      BY <1>1, <2>1
    <3>2. l.tail = s[n]
      BY <1>1, <2>1 DEF Listed, Chain
    <3> QED
      BY <2>6, <2>7, <3>1, <3>2
  <2>13. Chain(u2, n - 1, r)
    BY <2>6, <2>7, <2>8, <2>9, <2>10, <2>11, <2>12 DEF Chain
  <2>14. a \in u2.heap \ Members(n - 1, r)
    BY <2>2, <2>6, <2>9
  <2> HIDE DEF a, h
  <2>15. PICK q \in 1..n - 1 : Spliced(u2, m, n - 1, r, q, a)
    <3> DEFINE N == n - 1
    <3>1. Chain(u2, N, r) /\ 1 \in 1..N /\ a \in u2.heap \ Members(N, r) /\ r[1] = h
      BY <2>7, <2>13, <2>14
    <3> HIDE DEF N
    <3>2. \E q \in 1..N : Spliced(u2, InsertAfter(u2, expire, a, r[1]), N, r, q, a)
      BY <2>6, <3>1, InsertAfterSplices
    <3> QED
      BY <2>3, <3>1, <3>2 DEF N
  <2> DEFINE w == Inserted(n - 1, r, q, a)
  <2> HIDE DEF w
  <2>16. /\ Chain(m, (n - 1) + 1, w) /\ w[1] = h
         /\ Members((n - 1) + 1, w) = l.heap
    BY <2>6, <2>7, <2>9, <2>13, <2>14, <2>15, SplicedChain DEF w
  <2>17. Intact(m) /\ m.heap = l.heap /\ m.head = h
    BY <2>6, <2>15 DEF Spliced
  <2>18. (n - 1) + 1 = n /\ n # 0
    BY <1>1, <2>1
  <2>19. Listed(m, n, w)
    BY <2>16, <2>17, <2>18 DEF Listed
  <2> QED
    BY <2>17, <2>19 DEF m
<1> QED
  BY <1>2, <1>3

-----------------------------------------------------------------------------
(* The nodes without the i-th.                                             *)
Dropped(n, s, i) == [k \in 1..n - 1 |-> IF k < i THEN s[k] ELSE s[k + 1]]

LEMMA DroppedIs ==
  ASSUME NEW n \in Nat, NEW s \in [1..n -> Timers],
         \A j, k \in 1..n : s[j] = s[k] => j = k, NEW i \in 1..n,
         NEW r, r = Dropped(n, s, i)
  PROVE  /\ n - 1 \in Nat /\ r \in [1..n - 1 -> Timers]
         /\ \A k \in 1..n - 1 : r[k] = IF k < i THEN s[k] ELSE s[k + 1]
         /\ \A j, k \in 1..n - 1 : r[j] = r[k] => j = k
         /\ Members(n - 1, r) = Members(n, s) \ {s[i]}
<1>1. n - 1 \in Nat /\ r \in [1..n - 1 -> Timers]
  BY DEF Dropped
<1>2. \A k \in 1..n - 1 : r[k] = IF k < i THEN s[k] ELSE s[k + 1]
  BY DEF Dropped
<1>3. \A k \in 1..n - 1 : \/ k < i /\ k \in 1..n /\ r[k] = s[k]
                          \/ k >= i /\ k + 1 \in 1..n /\ r[k] = s[k + 1]
  BY <1>2
<1>4. \A j, k \in 1..n - 1 : r[j] = r[k] => j = k
  <2> SUFFICES ASSUME NEW j \in 1..n - 1, NEW k \in 1..n - 1, r[j] = r[k] PROVE j = k
    OBVIOUS
  <2>1. \/ j < i /\ j \in 1..n /\ r[j] = s[j]
        \/ j >= i /\ j + 1 \in 1..n /\ r[j] = s[j + 1]
    BY <1>3
  <2>2. \/ k < i /\ k \in 1..n /\ r[k] = s[k]
        \/ k >= i /\ k + 1 \in 1..n /\ r[k] = s[k + 1]
    BY <1>3
  <2> QED
    BY <2>1, <2>2
<1>5. \A k \in 1..n - 1 : r[k] \in Members(n, s) \ {s[i]}
  <2> SUFFICES ASSUME NEW k \in 1..n - 1 PROVE r[k] \in Members(n, s) \ {s[i]}
    OBVIOUS
  <2>1. \/ k < i /\ k \in 1..n /\ r[k] = s[k]
        \/ k >= i /\ k + 1 \in 1..n /\ r[k] = s[k + 1]
    BY <1>3
  <2> QED
    BY <2>1 DEF Members
<1>6. \A k \in 1..n : k # i => s[k] \in Members(n - 1, r)
  <2> SUFFICES ASSUME NEW k \in 1..n, k # i PROVE s[k] \in Members(n - 1, r)
    OBVIOUS
  <2>1. CASE k < i
    <3>1. k \in 1..n - 1 /\ r[k] = s[k]
      BY <1>2, <2>1
    <3> QED
      BY <3>1 DEF Members
  <2>2. CASE k > i
    <3>1. k - 1 \in 1..n - 1 /\ ~(k - 1 < i) /\ (k - 1) + 1 = k
      BY <2>2
    <3>2. r[k - 1] = s[k]
      BY <1>2, <3>1
    <3> QED
      BY <3>1, <3>2 DEF Members
  <2> QED
    BY <2>1, <2>2
<1>7. Members(n - 1, r) = Members(n, s) \ {s[i]}
  <2>1. Members(n - 1, r) \subseteq Members(n, s) \ {s[i]}
    BY <1>5 DEF Members
  <2>2. Members(n, s) \ {s[i]} \subseteq Members(n - 1, r)
    BY <1>6 DEF Members
  <2> QED
    BY <2>1, <2>2
<1> QED
  BY <1>1, <1>2, <1>4, <1>7

(* The i-th node is out, and its neighbours know.                          *)
Cut(l, m, n, s, i) ==
  /\ Intact(m) /\ m.heap = l.heap \ {s[i]}
  /\ m.head = IF n = 1 THEN Null ELSE IF i = 1 THEN s[2] ELSE s[1]
  /\ n > 1 => m.tail = IF i = n THEN s[n - 1] ELSE s[n]
  /\ \A k \in 1..n : k # i =>
       m.next[s[k]] = IF k = i - 1 THEN l.next[s[i]] ELSE l.next[s[k]]
  /\ \A k \in 2..n : k # i /\ k # i + 1 => m.prev[s[k]] \in {s[k - 1], Null}
  /\ i > 1 /\ i < n => m.prev[s[i + 1]] \in {s[i - 1], Null}

LEMMA CutLists ==
  ASSUME Memory, NEW l, Intact(l), NEW n, NEW s, Listed(l, n, s), NEW i \in 1..n,
         NEW m, Cut(l, m, n, s, i)
  PROVE  Listed(m, n - 1, Dropped(n, s, i))
<1> DEFINE r == Dropped(n, s, i)
<1> HIDE DEF r
<1>1. /\ n \in Nat /\ s \in [1..n -> Timers] /\ i \in 1..n
      /\ \A j, k \in 1..n : s[j] = s[k] => j = k
      /\ l.heap = Members(n, s)
      /\ \A k \in 1..n : l.next[s[k]] = IF k = n THEN Null ELSE s[k + 1]
  BY DEF Listed, Chain
<1>2. /\ n - 1 \in Nat /\ r \in [1..n - 1 -> Timers]
      /\ \A k \in 1..n - 1 : r[k] = IF k < i THEN s[k] ELSE s[k + 1]
      /\ \A j, k \in 1..n - 1 : r[j] = r[k] => j = k
      /\ Members(n - 1, r) = m.heap
  BY <1>1, DroppedIs, SMTT(60) DEF r, Cut
<1>3. /\ m.head = IF n = 1 THEN Null ELSE IF i = 1 THEN s[2] ELSE s[1]
      /\ n > 1 => m.tail = IF i = n THEN s[n - 1] ELSE s[n]
      /\ \A k \in 1..n : k # i =>
           m.next[s[k]] = IF k = i - 1 THEN l.next[s[i]] ELSE l.next[s[k]]
      /\ \A k \in 2..n : k # i /\ k # i + 1 => m.prev[s[k]] \in {s[k - 1], Null}
      /\ i > 1 /\ i < n => m.prev[s[i + 1]] \in {s[i - 1], Null}
  BY DEF Cut
<1>4. \A k \in 1..n - 1 : m.next[r[k]] = IF k = n - 1 THEN Null ELSE r[k + 1]
  <2> SUFFICES ASSUME NEW k \in 1..n - 1
               PROVE  m.next[r[k]] = IF k = n - 1 THEN Null ELSE r[k + 1]
    OBVIOUS
  <2>1. CASE k < i - 1
    <3>1. /\ k \in 1..n /\ k < i /\ k + 1 < i /\ k # i /\ k # n - 1 /\ k + 1 \in 1..n - 1 /\ k # n
      BY <1>1, <2>1
    <3>2. r[k] = s[k] /\ r[k + 1] = s[k + 1]
      BY <1>2, <3>1
    <3>3. m.next[s[k]] = s[k + 1]
      BY <1>1, <1>3, <2>1, <3>1
    <3> QED
      BY <3>1, <3>2, <3>3
  <2>2. CASE k = i - 1
    <3>1. k \in 1..n /\ k < i /\ k # i /\ i \in 1..n /\ k + 1 = i
      BY <1>1, <2>2
    <3>2. r[k] = s[k] /\ m.next[s[k]] = l.next[s[i]]
      BY <1>2, <1>3, <2>2, <3>1
    <3>3. l.next[s[i]] = IF i = n THEN Null ELSE s[i + 1]
      BY <1>1
    <3>4. i # n => r[i] = s[i + 1]
      <4>1. i # n => i \in 1..n - 1 /\ ~(i < i)
        BY <1>1
      <4> QED
        BY <1>2, <4>1
    <3>5. i = n <=> k = n - 1
      BY <1>1, <3>1
    <3> QED
      BY <3>1, <3>2, <3>3, <3>4, <3>5
  <2>3. CASE k >= i
    <3>1. k + 1 \in 1..n /\ ~(k < i) /\ k + 1 # i /\ k + 1 # i - 1 /\ (k + 1 = n <=> k = n - 1)
          /\ (k # n - 1 => k + 1 \in 1..n - 1 /\ ~(k + 1 < i))
      BY <1>1, <2>3
    <3>2. r[k] = s[k + 1] /\ m.next[s[k + 1]] = l.next[s[k + 1]]
      BY <1>2, <1>3, <3>1
    <3>3. l.next[s[k + 1]] = IF k + 1 = n THEN Null ELSE s[(k + 1) + 1]
      BY <1>1, <3>1
    <3>4. k # n - 1 => r[k + 1] = s[(k + 1) + 1]
      BY <1>2, <3>1
    <3> QED
      BY <3>1, <3>2, <3>3, <3>4
  <2> QED
    BY <1>1, <2>1, <2>2, <2>3
<1>5. \A k \in 2..n - 1 : m.prev[r[k]] \in {r[k - 1], Null}
  <2> SUFFICES ASSUME NEW k \in 2..n - 1 PROVE m.prev[r[k]] \in {r[k - 1], Null}
    OBVIOUS
  <2>1. CASE k < i
    <3>1. k \in 1..n - 1 /\ k - 1 \in 1..n - 1 /\ k - 1 < i /\ k \in 2..n /\ k # i /\ k # i + 1
      BY <1>1, <2>1
    <3>2. r[k] = s[k] /\ r[k - 1] = s[k - 1]
      BY <1>2, <2>1, <3>1
    <3> QED
      BY <1>3, <3>1, <3>2
  <2>2. CASE k = i
    <3>1. k \in 1..n - 1 /\ k - 1 \in 1..n - 1 /\ k - 1 < i /\ ~(k < i) /\ i > 1 /\ i < n
      BY <1>1, <2>2
    <3>2. r[k] = s[i + 1] /\ r[k - 1] = s[i - 1]
      BY <1>2, <2>2, <3>1
    <3> QED
      BY <1>3, <3>1, <3>2
  <2>3. CASE k > i
    <3>1. /\ k \in 1..n - 1 /\ k - 1 \in 1..n - 1 /\ ~(k - 1 < i) /\ ~(k < i)
          /\ k + 1 \in 2..n /\ k + 1 # i /\ k + 1 # i + 1 /\ (k + 1) - 1 = k /\ (k - 1) + 1 = k
      BY <1>1, <2>3
    <3>2. r[k] = s[k + 1] /\ r[k - 1] = s[k]
      BY <1>2, <3>1
    <3>3. m.prev[s[k + 1]] \in {s[(k + 1) - 1], Null}
      BY <1>3, <3>1
    <3> QED
      BY <3>1, <3>2, <3>3
  <2> QED
    BY <1>1, <2>1, <2>2, <2>3
<1>6. n - 1 > 0 => m.tail = r[n - 1]
  <2> SUFFICES ASSUME n - 1 > 0 PROVE m.tail = r[n - 1]
    OBVIOUS
  <2>1. n - 1 \in 1..n - 1 /\ (n - 1) + 1 = n /\ n > 1 /\ (n - 1 < i <=> i = n)
    BY <1>1
  <2> QED
    BY <1>2, <1>3, <2>1
<1>7. m.head = IF n - 1 = 0 THEN Null ELSE r[1]
  <2>1. CASE n = 1
    BY <1>3, <2>1
  <2>2. CASE n # 1
    <3>1. 1 \in 1..n - 1 /\ (1 < i <=> i # 1) /\ n - 1 # 0 /\ 1 + 1 = 2
      BY <1>1, <2>2
    <3>2. r[1] = IF 1 < i THEN s[1] ELSE s[1 + 1]
      BY <1>2, <3>1
    <3> QED
      BY <1>3, <2>2, <3>1, <3>2
  <2> QED
    BY <2>1, <2>2
<1>8. Chain(m, n - 1, r)
  BY <1>2, <1>4, <1>5, <1>6 DEF Chain
<1>9. Listed(m, n - 1, r)
  BY <1>2, <1>7, <1>8 DEF Listed
<1> QED
  BY <1>9 DEF r

-----------------------------------------------------------------------------
LEMMA FreeAllIs ==
  ASSUME Memory, NEW l, Intact(l), NEW S, NEW m, m = FreeAll(l, S)
  PROVE  /\ Intact(m) /\ m.heap = l.heap \ S /\ m.head = l.head /\ m.tail = l.tail
         /\ \A u \in Timers \ S : m.next[u] = l.next[u] /\ m.prev[u] = l.prev[u]
<1>1. /\ l.next \in [Timers -> Link] /\ l.prev \in [Timers -> Link]
      /\ l.heap \subseteq Timers /\ l.head \in Link /\ l.tail \in Link
  BY DEF Intact, ListType, Link
<1>2. m = [l EXCEPT !.heap = l.heap \ S,
                    !.next = [t \in Timers |-> IF t \in S THEN Null ELSE l.next[t]],
                    !.prev = [t \in Timers |-> IF t \in S THEN Null ELSE l.prev[t]]]
  BY DEF FreeAll, Intact
<1>3. /\ m.heap = l.heap \ S /\ m.head = l.head /\ m.tail = l.tail /\ m.fault = l.fault
      /\ m.next = [t \in Timers |-> IF t \in S THEN Null ELSE l.next[t]]
      /\ m.prev = [t \in Timers |-> IF t \in S THEN Null ELSE l.prev[t]]
  BY <1>2 DEF Intact, ListType
<1>4. Intact(m)
  <2>1. [t \in Timers |-> IF t \in S THEN Null ELSE l.next[t]] \in [Timers -> Link]
    BY <1>1 DEF Link
  <2>2. [t \in Timers |-> IF t \in S THEN Null ELSE l.prev[t]] \in [Timers -> Link]
    BY <1>1 DEF Link
  <2> QED
    BY <1>1, <1>2, <2>1, <2>2, ZenonT(60) DEF Intact, ListType, Link
<1> QED
  BY <1>3, <1>4

LEMMA FreeIs ==
  ASSUME Memory, NEW l, Intact(l), NEW t, NEW m, m = Free(l, t)
  PROVE  /\ Intact(m) /\ m.heap = l.heap \ {t} /\ m.head = l.head /\ m.tail = l.tail
         /\ \A u \in Timers \ {t} : m.next[u] = l.next[u] /\ m.prev[u] = l.prev[u]
BY FreeAllIs DEF Free

(* del_timer of the only node.                                             *)
LEMMA DelOnly ==
  ASSUME Memory, NEW l, Intact(l), NEW s, Listed(l, 1, s)
  PROVE  Cut(l, DelTimer(l, s[1]), 1, s, 1)
<1>1. l.head = s[1] /\ l.tail = s[1] /\ s[1] \in Timers
  BY DEF Listed, Chain
<1> DEFINE f == Free(l, s[1])
           m == [f EXCEPT !.head = Null, !.tail = Null]
<1>2. DelTimer(l, s[1]) = m
  BY <1>1 DEF DelTimer
<1>3. Intact(f) /\ f.heap = l.heap \ {s[1]}
  BY FreeAllIs DEF Free
<1> HIDE DEF f
<1>4. Intact(m) /\ m.heap = l.heap \ {s[1]} /\ m.head = Null
  BY <1>3 DEF Intact, ListType
<1> QED
  BY <1>2, <1>4 DEF Cut

(* Of the head, with at least two more: it goes wrong with one more.       *)
LEMMA DelFirst ==
  ASSUME Memory, NEW l, Intact(l), NEW n, NEW s, Listed(l, n, s), n >= 2
  PROVE  LET m == DelTimer(l, s[1])
         IN IF n = 2 THEN m \in ListType /\ m.fault = "null" ELSE Cut(l, m, n, s, 1)
<1> DEFINE t == s[1]
           h == s[2]
           u == [l EXCEPT !.head = h]
           v == Store(u, "prev", l.next[h], Null)
           m == DelTimer(l, t)
<1>1. /\ n \in Nat /\ s \in [1..n -> Timers]
      /\ \A j, k \in 1..n : s[j] = s[k] => j = k
      /\ l.heap = Members(n, s) /\ l.tail = s[n] /\ l.head = t
      /\ \A k \in 1..n : l.next[s[k]] = IF k = n THEN Null ELSE s[k + 1]
      /\ l.next \in [Timers -> Link] /\ l.prev \in [Timers -> Link]
      /\ 1 \in 1..n /\ 2 \in 1..n /\ n \in 1..n
  BY DEF Listed, Chain, Intact, ListType, Link
<1>2. t # l.tail /\ h \in Timers /\ t \in Timers /\ l.next[t] = h
  BY <1>1
<1>3. m = Free(v, t)
  BY <1>1, <1>2 DEF DelTimer
<1>4. /\ Intact(u) /\ u.head = h /\ u.tail = l.tail /\ u.heap = l.heap
      /\ u.next = l.next /\ u.prev = l.prev
  <2> HIDE DEF h
  <2> QED
    BY <1>2 DEF Intact, ListType
<1>5. CASE n = 2
  <2>1. l.next[h] = Null
    BY <1>1, <1>5
  <2>2. v = [u EXCEPT !.fault = "null"]
    <3> HIDE DEF u
    <3> QED
      BY <1>4, <2>1, StoreNull
  <2>3. v \in ListType /\ v.fault = "null"
    <3> HIDE DEF u, v
    <3> QED
      BY <1>4, <2>2 DEF Intact, ListType
  <2>4. m = v
    <3> HIDE DEF v
    <3> QED
      BY <1>3, <2>3 DEF Free, FreeAll
  <2> QED
    BY <1>5, <2>3, <2>4
<1>6. CASE n # 2
  <2> DEFINE b == s[3]
  <2>1. /\ l.next[h] = b /\ b \in Timers /\ b \in l.heap /\ b # t /\ 3 \in 1..n
        /\ Null \in Link
    BY <1>1, <1>6 DEF Members, Link
  <2>2. /\ Intact(v) /\ v.prev = [l.prev EXCEPT ![b] = Null]
        /\ v.head = h /\ v.tail = l.tail /\ v.heap = l.heap /\ v.next = l.next
    <3> HIDE DEF u, b, h
    <3> QED
      BY <1>4, <2>1, StorePrev
  <2>3. /\ Intact(m) /\ m.heap = l.heap \ {t} /\ m.head = h /\ m.tail = l.tail
        /\ \A x \in Timers \ {t} : m.next[x] = l.next[x] /\ m.prev[x] = v.prev[x]
    <3> HIDE DEF m, v, t
    <3>1. Intact(v) /\ m = Free(v, t)
      BY <1>3, <2>2
    <3>2. /\ Intact(m) /\ m.heap = v.heap \ {t} /\ m.head = v.head /\ m.tail = v.tail
          /\ \A x \in Timers \ {t} : m.next[x] = v.next[x] /\ m.prev[x] = v.prev[x]
      BY <3>1, FreeIs
    <3> QED
      BY <2>2, <3>2
  <2> HIDE DEF m, v
  <2>4. \A k \in 1..n : k # 1 => s[k] \in Timers \ {t} /\ m.next[s[k]] = l.next[s[k]]
    BY <1>1, <2>3
  <2>5. \A k \in 2..n : k # 2 => m.prev[s[k]] \in {s[k - 1], Null}
    <3> SUFFICES ASSUME NEW k \in 2..n, k # 2 PROVE m.prev[s[k]] \in {s[k - 1], Null}
      OBVIOUS
    <3>1. k \in 1..n /\ k # 1 /\ s[k] \in Timers /\ m.prev[s[k]] = v.prev[s[k]]
      BY <1>1, <2>3, <2>4
    <3>2. v.prev[s[k]] = l.prev[s[k]] \/ v.prev[s[k]] = Null
      BY <1>1, <2>2, <3>1
    <3>3. l.prev[s[k]] \in {s[k - 1], Null}
      BY DEF Listed, Chain
    <3> QED
      BY <3>1, <3>2, <3>3
  <2>6. Cut(l, m, n, s, 1)
    <3>1. n > 1 /\ n # 1 /\ \A k \in 1..n : k # 1 - 1
      BY <1>1
    <3> QED
      BY <1>1, <2>3, <2>4, <2>5, <3>1 DEF Cut
  <2> QED
    BY <1>6, <2>6 DEF m
<1> QED
  BY <1>5, <1>6

(* Of the tail: it depends on its prev.                                    *)
LEMMA DelLast ==
  ASSUME Memory, NEW l, Intact(l), NEW n, NEW s, Listed(l, n, s), n >= 2
  PROVE  LET m == DelTimer(l, s[n])
         IN IF l.prev[s[n]] = Null THEN m \in ListType /\ m.fault = "null" ELSE Cut(l, m, n, s, n)
<1> DEFINE t == s[n]
           p == l.prev[t]
           v == Store(l, "next", p, Null)
           u == [v EXCEPT !.tail = p]
           m == DelTimer(l, t)
<1>1. /\ n \in Nat /\ s \in [1..n -> Timers]
      /\ \A j, k \in 1..n : s[j] = s[k] => j = k
      /\ l.heap = Members(n, s) /\ l.tail = t /\ l.head = s[1]
      /\ \A k \in 1..n : l.next[s[k]] = IF k = n THEN Null ELSE s[k + 1]
      /\ \A k \in 2..n : l.prev[s[k]] \in {s[k - 1], Null}
      /\ l.next \in [Timers -> Link] /\ l.prev \in [Timers -> Link]
      /\ 1 \in 1..n /\ n - 1 \in 1..n /\ n \in 1..n /\ n \in 2..n /\ n # 1 /\ n - 1 # n
  BY DEF Listed, Chain, Intact, ListType, Link
<1>2. /\ t # l.head /\ t \in Timers /\ p \in {s[n - 1], Null} /\ p \in Link /\ Null \in Link
      /\ s[n - 1] # t /\ s[n - 1] \in l.heap /\ s[n - 1] \in Timers /\ s[n - 1] # Null
  BY <1>1 DEF Link, Members, Memory
<1>3. m = Free(u, t)
  BY <1>1, <1>2 DEF DelTimer, TailMoves
<1>4. CASE p = Null
  <2>1. v = [l EXCEPT !.fault = "null"]
    BY <1>4, StoreNull
  <2>2. u \in ListType /\ u.fault = "null"
    <3> HIDE DEF p, v
    <3> QED
      BY <1>2, <2>1 DEF Intact, ListType, Link
  <2>3. m = u
    <3> HIDE DEF u
    <3> QED
      BY <1>3, <2>2 DEF Free, FreeAll
  <2> QED
    BY <1>4, <2>2, <2>3
<1>5. CASE p # Null
  <2>1. p = s[n - 1]
    BY <1>2, <1>5
  <2>2. /\ Intact(v) /\ v.next = [l.next EXCEPT ![p] = Null]
        /\ v.head = l.head /\ v.heap = l.heap /\ v.prev = l.prev
    <3> HIDE DEF p
    <3> QED
      BY <1>2, <2>1, StoreNext
  <2>3. /\ Intact(u) /\ u.next = v.next /\ u.tail = p
        /\ u.head = l.head /\ u.heap = l.heap /\ u.prev = l.prev
    <3> HIDE DEF p, v
    <3> QED
      BY <1>2, <2>2 DEF Intact, ListType, Link
  <2>4. /\ Intact(m) /\ m.heap = l.heap \ {t} /\ m.head = l.head /\ m.tail = p
        /\ \A x \in Timers \ {t} : m.next[x] = v.next[x] /\ m.prev[x] = l.prev[x]
    <3> HIDE DEF u, p
    <3> QED
      BY <1>3, <2>3, FreeAllIs DEF Free
  <2> HIDE DEF m, v, u, p
  <2>5. \A k \in 1..n : k # n =>
          m.next[s[k]] = IF k = n - 1 THEN l.next[s[n]] ELSE l.next[s[k]]
    <3> SUFFICES ASSUME NEW k \in 1..n, k # n
                 PROVE  m.next[s[k]] = IF k = n - 1 THEN l.next[s[n]] ELSE l.next[s[k]]
      OBVIOUS
    <3>1. s[k] \in Timers \ {t} /\ m.next[s[k]] = v.next[s[k]]
      BY <1>1, <2>4
    <3>2. l.next[s[n]] = Null
      BY <1>1
    <3> QED
      BY <1>1, <2>1, <2>2, <3>1, <3>2
  <2>6. \A k \in 2..n : k # n => m.prev[s[k]] \in {s[k - 1], Null}
    <3> SUFFICES ASSUME NEW k \in 2..n, k # n PROVE m.prev[s[k]] \in {s[k - 1], Null}
      OBVIOUS
    <3>1. s[k] \in Timers \ {t} /\ m.prev[s[k]] = l.prev[s[k]]
      BY <1>1, <2>4
    <3> QED
      BY <1>1, <3>1
  <2>7. Cut(l, m, n, s, n)
    BY <1>1, <2>1, <2>4, <2>5, <2>6 DEF Cut
  <2> QED
    BY <1>5, <2>7 DEF m, p
<1> QED
  BY <1>4, <1>5

(* Of a node between two others: as for the tail.                          *)
LEMMA DelMiddle ==
  ASSUME Memory, NEW l, Intact(l), NEW n, NEW s, Listed(l, n, s), NEW i \in 2..n - 1
  PROVE  LET m == DelTimer(l, s[i])
         IN IF l.prev[s[i]] = Null THEN m \in ListType /\ m.fault = "null" ELSE Cut(l, m, n, s, i)
<1> DEFINE t == s[i]
           p == l.prev[t]
           b == l.next[t]
           u == Store(l, "next", p, b)
           v == Store(u, "prev", b, p)
           m == DelTimer(l, t)
<1>1. /\ n \in Nat /\ s \in [1..n -> Timers]
      /\ \A j, k \in 1..n : s[j] = s[k] => j = k
      /\ l.heap = Members(n, s) /\ l.tail = s[n] /\ l.head = s[1]
      /\ \A k \in 1..n : l.next[s[k]] = IF k = n THEN Null ELSE s[k + 1]
      /\ \A k \in 2..n : l.prev[s[k]] \in {s[k - 1], Null}
      /\ l.next \in [Timers -> Link] /\ l.prev \in [Timers -> Link]
      /\ {1, i - 1, i, i + 1, n} \subseteq 1..n /\ i \in 2..n /\ i # 1 /\ i # n /\ n # 1
      /\ i > 1 /\ i < n
  BY DEF Listed, Chain, Intact, ListType, Link
<1>2. /\ t # l.head /\ t # l.tail /\ t \in Timers /\ p \in {s[i - 1], Null}
      /\ p \in Link /\ b \in Link /\ b = s[i + 1]
      /\ s[i - 1] # t /\ s[i - 1] \in l.heap /\ b \in l.heap /\ b # t /\ s[i - 1] # Null
  BY <1>1 DEF Link, Members, Memory
<1>3. m = Free(v, t)
  BY <1>1, <1>2 DEF DelTimer
<1>4. CASE p = Null
  <2>1. u = [l EXCEPT !.fault = "null"]
    BY <1>4, StoreNull
  <2>2. u \in ListType /\ u.fault = "null"
    <3> HIDE DEF u
    <3> QED
      BY <2>1 DEF Intact, ListType
  <2>3. v = u
    <3> HIDE DEF u
    <3> QED
      BY <2>2, StoreFaulty
  <2>4. m = v
    <3> HIDE DEF v
    <3> QED
      BY <1>3, <2>2, <2>3 DEF Free, FreeAll
  <2> QED
    BY <1>4, <2>2, <2>3, <2>4
<1>5. CASE p # Null
  <2>1. p = s[i - 1]
    BY <1>2, <1>5
  <2>2. /\ Intact(u) /\ u.next = [l.next EXCEPT ![p] = b]
        /\ u.head = l.head /\ u.tail = l.tail /\ u.heap = l.heap /\ u.prev = l.prev
    <3> HIDE DEF p, b
    <3> QED
      BY <1>2, <2>1, StoreNext
  <2>3. /\ Intact(v) /\ v.prev = [l.prev EXCEPT ![b] = p]
        /\ v.head = l.head /\ v.tail = l.tail /\ v.heap = l.heap /\ v.next = u.next
    <3> HIDE DEF p, b, u
    <3> QED
      BY <1>2, <2>2, StorePrev
  <2>4. /\ Intact(m) /\ m.heap = l.heap \ {t} /\ m.head = l.head /\ m.tail = l.tail
        /\ \A x \in Timers \ {t} : m.next[x] = u.next[x] /\ m.prev[x] = v.prev[x]
    <3> HIDE DEF m, v, u, p, b, t
    <3>1. Intact(v) /\ m = Free(v, t)
      BY <1>3, <2>3
    <3>2. /\ Intact(m) /\ m.heap = v.heap \ {t} /\ m.head = v.head /\ m.tail = v.tail
          /\ \A x \in Timers \ {t} : m.next[x] = v.next[x] /\ m.prev[x] = v.prev[x]
      BY <3>1, FreeIs
    <3> QED
      BY <2>3, <3>2
  <2> HIDE DEF m, v, u, p, b
  <2>5. \A k \in 1..n : k # i =>
          m.next[s[k]] = IF k = i - 1 THEN l.next[s[i]] ELSE l.next[s[k]]
    <3> SUFFICES ASSUME NEW k \in 1..n, k # i
                 PROVE  m.next[s[k]] = IF k = i - 1 THEN l.next[s[i]] ELSE l.next[s[k]]
      OBVIOUS
    <3>1. s[k] \in Timers \ {t} /\ m.next[s[k]] = u.next[s[k]] /\ i - 1 \in 1..n
      BY <1>1, <2>4
    <3>2. s[k] = p <=> k = i - 1
      BY <1>1, <2>1, <3>1
    <3> QED
      BY <1>1, <2>2, <3>1, <3>2 DEF b
  <2>6. \A k \in 2..n : k # i => s[k] \in Timers \ {t} /\ m.prev[s[k]] = v.prev[s[k]]
    <3> SUFFICES ASSUME NEW k \in 2..n, k # i PROVE s[k] \in Timers \ {t}
      BY <2>4
    <3>1. k \in 1..n
      BY <1>1
    <3> QED
      BY <1>1, <3>1
  <2>7. \A k \in 2..n : k # i /\ k # i + 1 => m.prev[s[k]] \in {s[k - 1], Null}
    <3> SUFFICES ASSUME NEW k \in 2..n, k # i, k # i + 1 PROVE m.prev[s[k]] \in {s[k - 1], Null}
      OBVIOUS
    <3>1. k \in 1..n /\ i + 1 \in 1..n
      BY <1>1
    <3>2. s[k] # b
      BY <1>1, <1>2, <3>1
    <3>3. m.prev[s[k]] = l.prev[s[k]]
      BY <1>1, <2>3, <2>6, <3>1, <3>2
    <3> QED
      BY <1>1, <3>3
  <2>8. m.prev[s[i + 1]] \in {s[i - 1], Null}
    <3>1. i + 1 \in 2..n /\ i + 1 # i
      BY <1>1
    <3>2. m.prev[s[i + 1]] = v.prev[b] /\ b \in Timers
      BY <1>2, <2>6, <3>1
    <3>3. v.prev[b] = p
      BY <1>1, <2>3, <3>2
    <3> QED
      BY <2>1, <3>2, <3>3
  <2>9. Cut(l, m, n, s, i)
    BY <1>1, <2>4, <2>5, <2>7, <2>8 DEF Cut
  <2> QED
    BY <1>5, <2>9 DEF m, p
<1> QED
  BY <1>4, <1>5

(* del_timer(timer), line 95: the list is one node shorter, or there was a *)
(* store through NULL.                                                     *)
LEMMA DelLists ==
  ASSUME Memory, NEW l, Intact(l), NEW n, NEW s, Listed(l, n, s), NEW t \in l.heap
  PROVE  LET m == DelTimer(l, t)
         IN /\ m \in ListType /\ m.fault \in {"none", "null"}
            /\ m.fault = "none" => m.heap = l.heap \ {t} /\ \E w : Listed(m, n - 1, w)
<1>1. PICK i \in 1..n : t = s[i]
  BY DEF Listed, Members
<1> DEFINE m == DelTimer(l, s[i])
<1>2. n \in Nat
  BY DEF Listed, Chain
<1>3. Cut(l, m, n, s, i) \/ (m \in ListType /\ m.fault = "null")
  <2>1. CASE n = 1
    <3>1. i = 1
      BY <2>1
    <3> QED
      BY <2>1, <3>1, DelOnly
  <2>2. CASE n >= 2 /\ i = 1
    BY <2>2, DelFirst
  <2>3. CASE n >= 2 /\ i = n
    BY <2>3, DelLast
  <2>4. CASE i \in 2..n - 1
    BY <2>4, DelMiddle
  <2> QED
    BY <1>2, <2>1, <2>2, <2>3, <2>4
<1> HIDE DEF m
<1>4. CASE Cut(l, m, n, s, i)
  <2>1. Listed(m, n - 1, Dropped(n, s, i))
    BY <1>4, CutLists
  <2>2. Intact(m) /\ m.heap = l.heap \ {s[i]}
    BY <1>4 DEF Cut
  <2> QED
    BY <1>1, <2>1, <2>2 DEF m, Intact
<1>5. CASE m \in ListType /\ m.fault = "null"
  BY <1>1, <1>5 DEF m
<1> QED
  BY <1>3, <1>4, <1>5

-----------------------------------------------------------------------------
(* The whole list, following next from the head.                           *)
LEMMA AfterHead ==
  ASSUME Memory, NEW l, NEW n, NEW s, Listed(l, n, s)
  PROVE  /\ n \in Nat /\ Cardinality(Timers) \in Nat /\ n <= Cardinality(Timers)
         /\ After(l, l.head) = [k \in 0..Cardinality(Timers) |-> IF k < n THEN s[k + 1] ELSE Null]
<1>1. n \in Nat /\ Cardinality(Timers) \in Nat /\ n <= Cardinality(Timers)
  BY Fits DEF Listed, Chain
<1> DEFINE M == Cardinality(Timers)
<1> HIDE DEF M
<1>2. CASE n = 0
  <2>1. After(l, Null) = [k \in 0..M |-> Null]
    BY AfterNull DEF M
  <2>2. l.head = Null
    BY <1>2 DEF Listed
  <2> QED
    BY <1>1, <1>2, <2>1, <2>2 DEF M
<1>3. CASE n > 0
  <2> DEFINE p == 1
  <2>1. l.head = s[p] /\ p \in 1..n /\ Chain(l, n, s)
    BY <1>1, <1>3 DEF Listed
  <2> HIDE DEF p
  <2>2. After(l, s[p]) = [k \in 0..M |-> IF p + k <= n THEN s[p + k] ELSE Null]
    BY <2>1, AfterChain DEF M
  <2>3. \A k \in 0..M : (p + k <= n <=> k < n) /\ p + k = k + 1
    BY <1>1 DEF p, M
  <2>4. After(l, l.head) = [k \in 0..M |-> IF k < n THEN s[k + 1] ELSE Null]
    BY <2>1, <2>2, <2>3
  <2> QED
    BY <1>1, <2>4 DEF M
<1> QED
  BY <1>1, <1>2, <1>3

(* Such a list is what Chained asks for.                                   *)
LEMMA ListedChained ==
  ASSUME Memory, NEW l, NEW n, NEW s, Listed(l, n, s)
  PROVE  Chained(l) /\ Nodes(l) = l.heap
<1> DEFINE M == Cardinality(Timers)
           node == After(l, l.head)
<1>1. n \in Nat /\ M \in Nat /\ n <= M /\ node = [k \in 0..M |-> IF k < n THEN s[k + 1] ELSE Null]
  BY AfterHead
<1>2. Cardinality(l.heap) = n
  <2>1. /\ n \in Nat /\ s \in [1..n -> Timers]
        /\ \A j, k \in 1..n : s[j] = s[k] => j = k
    BY DEF Listed, Chain
  <2> QED
    BY <2>1, Fits DEF Listed
<1>3. Nodes(l) = {node[k] : k \in 0..M} \ {Null}
  BY DEF Nodes
<1> HIDE DEF M, node
<1>4. \A k \in 1..n : k - 1 \in 0..M /\ node[k - 1] = s[k] /\ s[k] # Null
  BY <1>1 DEF Listed, Chain, Memory
<1>5. \A k \in 0..M : node[k] # Null => k + 1 \in 1..n /\ node[k] = s[k + 1]
  BY <1>1
<1>6. Nodes(l) = l.heap
  <2>1. l.heap = {s[k] : k \in 1..n}
    BY DEF Listed, Members
  <2>2. Nodes(l) \subseteq l.heap
    BY <1>3, <1>5, <2>1
  <2>3. l.heap \subseteq Nodes(l)
    BY <1>3, <1>4, <2>1
  <2> QED
    BY <2>2, <2>3
<1>7. node[n] = Null
  BY <1>1
<1>8. n > 0 => node[n - 1] = l.tail
  <2>1. n > 0 => n \in 1..n /\ l.tail = s[n]
    BY <1>1 DEF Listed, Chain
  <2> QED
    BY <1>4, <2>1
<1> QED
  BY <1>2, <1>6, <1>7, <1>8 DEF Chained, node

LEMMA ListedAscending ==
  ASSUME Memory, NEW l, NEW n, NEW s, Listed(l, n, s), NEW expire,
         \A k \in 1..n - 1 : expire[s[k]] <= expire[s[k + 1]]
  PROVE  Ascending(l, expire)
<1>1. Nodes(l) = Members(n, s) /\ n \in Nat
  BY ListedChained DEF Listed, Chain
<1>2. \A k \in 1..n : l.next[s[k]] = IF k = n THEN Null ELSE s[k + 1]
  BY DEF Listed, Chain
<1> SUFFICES ASSUME NEW k \in 1..n, l.next[s[k]] # Null
             PROVE  expire[s[k]] <= expire[l.next[s[k]]]
  BY <1>1 DEF Ascending, Members
<1>3. k \in 1..n - 1 /\ l.next[s[k]] = s[k + 1]
  BY <1>1, <1>2
<1> QED
  BY <1>3

(* tick(), line 139: the first c nodes are the expired ones.               *)
LEMMA ExpiredIs ==
  ASSUME Memory, NEW l, NEW n, NEW s, Listed(l, n, s), NEW expire, NEW cur
  PROVE  \E c \in 0..n :
           /\ Expired(l, expire, cur) = {s[k] : k \in 1..c}
           /\ \A k \in 1..c : ~(cur < expire[s[k]])
           /\ Cardinality(Expired(l, expire, cur)) = c
           /\ After(l, l.head)[c] = IF c < n THEN s[c + 1] ELSE Null
<1> DEFINE M == Cardinality(Timers)
           node == After(l, l.head)
           Due(k) == node[k] # Null /\ ~(cur < expire[node[k]])
           Stop == {k \in 0..n : k = n \/ cur < expire[s[k + 1]]}
           c == Min(Stop)
<1>1. n \in Nat /\ M \in Nat /\ n <= M /\ node = [k \in 0..M |-> IF k < n THEN s[k + 1] ELSE Null]
  BY AfterHead
<1>2. /\ s \in [1..n -> Timers]
      /\ \A j, k \in 1..n : s[j] = s[k] => j = k
      /\ \A k \in 1..n : s[k] # Null
  BY DEF Listed, Chain, Memory
<1>3. c \in Stop /\ \A k \in Stop : c <= k
  <2>1. Stop \subseteq Nat /\ Stop # {}
    BY <1>1
  <2> HIDE DEF Stop
  <2> QED
    BY <2>1, MinExists
<1>4. Expired(l, expire, cur) = {node[k] : k \in {m \in 0..M : \A j \in 0..m : Due(j)}}
  <2>1. DOMAIN node = 0..M
    BY <1>1
  <2> HIDE DEF node, M
  <2> QED
    BY <2>1 DEF Expired, node
<1> HIDE DEF M, node, c
<1>5. c \in 0..n /\ (c = n \/ cur < expire[s[c + 1]])
  BY <1>3
<1>6. \A k \in 1..c : ~(cur < expire[s[k]])
  <2> SUFFICES ASSUME NEW k \in 1..c, cur < expire[s[k]] PROVE FALSE
    OBVIOUS
  <2>1. k - 1 \in 0..n /\ (k - 1) + 1 = k /\ ~(c <= k - 1)
    BY <1>1, <1>5
  <2>2. k - 1 \in Stop
    BY <2>1
  <2> HIDE DEF Stop
  <2> QED
    BY <1>3, <2>1, <2>2
<1>7. \A k \in 0..M : k < c => Due(k) /\ node[k] = s[k + 1]
  <2> SUFFICES ASSUME NEW k \in 0..M, k < c PROVE Due(k) /\ node[k] = s[k + 1]
    OBVIOUS
  <2>1. k + 1 \in 1..c /\ k + 1 \in 1..n /\ k < n
    BY <1>1, <1>5
  <2> QED
    BY <1>1, <1>2, <1>6, <2>1
<1>8. c \in 0..M /\ ~Due(c)
  <2>1. c \in 0..M
    BY <1>1, <1>5
  <2>2. c < n => node[c] = s[c + 1] /\ cur < expire[s[c + 1]]
    BY <1>1, <1>5, <2>1
  <2>3. ~(c < n) => node[c] = Null
    BY <1>1, <2>1
  <2> QED
    BY <2>1, <2>2, <2>3
<1>9. \A m \in 0..M : (\A j \in 0..m : Due(j)) <=> m < c
  <2> SUFFICES ASSUME NEW m \in 0..M PROVE (\A j \in 0..m : Due(j)) <=> m < c
    OBVIOUS
  <2>1. ASSUME m < c, NEW j \in 0..m PROVE Due(j)
    <3>1. j \in 0..M /\ j < c
      BY <1>1, <1>5, <2>1
    <3> HIDE DEF Due
    <3> QED
      BY <1>7, <3>1
  <2>2. ASSUME ~(m < c) PROVE c \in 0..m
    BY <1>1, <1>5, <2>2
  <2> HIDE DEF Due
  <2> QED
    BY <1>8, <2>1, <2>2
<1>10. Expired(l, expire, cur) = {node[k] : k \in {m \in 0..M : m < c}}
  <2> HIDE DEF Due
  <2> QED
    BY <1>4, <1>9
<1>11. {node[k] : k \in {m \in 0..M : m < c}} = {s[k] : k \in 1..c}
  <2>1. \A m \in 0..M : m < c => m + 1 \in 1..c /\ node[m] = s[m + 1]
    BY <1>1, <1>5, <1>7
  <2>2. \A k \in 1..c : k - 1 \in 0..M /\ k - 1 < c /\ node[k - 1] = s[k]
    <3> SUFFICES ASSUME NEW k \in 1..c PROVE k - 1 \in 0..M /\ k - 1 < c /\ node[k - 1] = s[k]
      OBVIOUS
    <3>1. k - 1 \in 0..M /\ k - 1 < c /\ (k - 1) + 1 = k
      BY <1>1, <1>5
    <3> QED
      BY <1>7, <3>1
  <2> HIDE DEF Due
  <2> QED
    BY <2>1, <2>2
<1>12. Cardinality({s[k] : k \in 1..c}) = c
  <2> DEFINE f == [k \in 1..c |-> s[k]]
  <2>1. /\ c \in Nat /\ f \in [1..c -> Timers]
        /\ \A j, k \in 1..c : f[j] = f[k] => j = k
    BY <1>1, <1>2, <1>5
  <2>2. Members(c, f) = {s[k] : k \in 1..c}
    BY DEF Members
  <2> HIDE DEF f
  <2> QED
    BY <2>1, <2>2, Fits
<1>13. node[c] = IF c < n THEN s[c + 1] ELSE Null
  BY <1>1, <1>8
<1> QED
  BY <1>5, <1>6, <1>10, <1>11, <1>12, <1>13 DEF node

LEMMA TickLists ==
  ASSUME Memory, NEW l, Intact(l), NEW n, NEW s, Listed(l, n, s), NEW expire, NEW cur
  PROVE  LET m == Tick(l, expire, cur)
         IN /\ Intact(m) /\ m.heap = l.heap \ Expired(l, expire, cur)
            /\ Expired(l, expire, cur) \subseteq l.heap
            /\ \A t \in Expired(l, expire, cur) : ~(cur < expire[t])
            /\ \E k \in Nat : \E w : Listed(m, k, w)
<1> DEFINE gone == Expired(l, expire, cur)
           c == Cardinality(gone)
           h == After(l, l.head)[c]
           f == FreeAll(l, gone)
           u == [f EXCEPT !.head = h]
           m == Tick(l, expire, cur)
<1>1. /\ c \in 0..n /\ gone = {s[k] : k \in 1..c}
      /\ \A k \in 1..c : ~(cur < expire[s[k]])
      /\ h = IF c < n THEN s[c + 1] ELSE Null
  BY ExpiredIs
<1>2. m = IF gone = {} \/ h = Null THEN u ELSE Store(u, "prev", h, Null)
  BY DEF Tick
<1> HIDE DEF gone, c, h
<1>3. /\ Intact(f) /\ f.heap = l.heap \ gone /\ f.head = l.head /\ f.tail = l.tail
      /\ \A x \in Timers \ gone : f.next[x] = l.next[x] /\ f.prev[x] = l.prev[x]
  <2> HIDE DEF f
  <2> QED
    BY FreeAllIs DEF f
<1>4. /\ n \in Nat /\ s \in [1..n -> Timers]
      /\ \A j, k \in 1..n : s[j] = s[k] => j = k
      /\ l.heap = Members(n, s)
      /\ \A k \in 1..n : l.next[s[k]] = IF k = n THEN Null ELSE s[k + 1]
      /\ \A k \in 2..n : l.prev[s[k]] \in {s[k - 1], Null}
      /\ n > 0 => l.tail = s[n]
      /\ \A k \in 1..n : s[k] # Null
  BY DEF Listed, Chain, Memory
<1>5. h \in Link
  <2>1. c < n => c + 1 \in 1..n
    BY <1>1, <1>4
  <2> QED
    BY <1>1, <1>4, <2>1 DEF Link
<1> HIDE DEF f
<1>6. /\ Intact(u) /\ u.heap = l.heap \ gone /\ u.head = h /\ u.tail = l.tail
      /\ u.next = f.next /\ u.prev = f.prev
  BY <1>3, <1>5 DEF Intact, ListType, Link
<1> HIDE DEF u
<1>7. \A k \in c + 1..n : k \in 1..n /\ s[k] \in l.heap \ gone
  <2> SUFFICES ASSUME NEW k \in c + 1..n PROVE k \in 1..n /\ s[k] \in l.heap \ gone
    OBVIOUS
  <2>1. k \in 1..n /\ \A j \in 1..c : j \in 1..n /\ j # k
    BY <1>1, <1>4
  <2>2. \A j \in 1..c : s[j] # s[k]
    BY <1>4, <2>1
  <2> QED
    BY <1>1, <1>4, <2>1, <2>2 DEF Members
<1>8. /\ Intact(m) /\ m.heap = l.heap \ gone /\ m.head = h /\ m.tail = l.tail
      /\ m.next = f.next
      /\ \A x \in Timers : m.prev[x] \in {f.prev[x], Null}
  <2>1. CASE gone = {} \/ h = Null
    BY <1>2, <1>6, <2>1
  <2>2. CASE ~(gone = {} \/ h = Null)
    <3>1. c < n /\ c + 1 \in c + 1..n /\ h = s[c + 1]
      BY <1>1, <1>4, <2>2
    <3>2. h \in u.heap /\ Null \in Link /\ h \in Timers
      BY <1>4, <1>6, <1>7, <3>1 DEF Link
    <3>3. m = Store(u, "prev", h, Null)
      BY <1>2, <2>2
    <3> HIDE DEF m
    <3>4. /\ Intact(m) /\ m.prev = [u.prev EXCEPT ![h] = Null]
          /\ m.head = u.head /\ m.tail = u.tail /\ m.heap = u.heap /\ m.next = u.next
      BY <1>6, <3>2, <3>3, StorePrev
    <3>5. u.prev \in [Timers -> Link]
      BY <1>6 DEF Intact, ListType, Link
    <3> QED
      BY <1>6, <3>2, <3>4, <3>5
  <2> QED
    BY <2>1, <2>2
<1> HIDE DEF m
<1> DEFINE N == n - c
           w == [k \in 1..N |-> s[k + c]]
<1>9. /\ N \in Nat /\ w \in [1..N -> Timers]
      /\ \A k \in 1..N : w[k] = s[k + c] /\ k + c \in c + 1..n /\ k + c \in 1..n
  BY <1>1, <1>4
<1>10. \A j, k \in 1..N : w[j] = w[k] => j = k
  <2> SUFFICES ASSUME NEW j \in 1..N, NEW k \in 1..N, w[j] = w[k] PROVE j = k
    OBVIOUS
  <2>1. s[j + c] = s[k + c] /\ j + c \in 1..n /\ k + c \in 1..n
    BY <1>9
  <2>2. j + c = k + c
    BY <1>4, <2>1
  <2> QED
    BY <1>1, <1>4, <2>2
<1> HIDE DEF w
<1>11. m.heap = Members(N, w)
  <2>1. Members(N, w) \subseteq m.heap
    BY <1>7, <1>8, <1>9 DEF Members
  <2>2. m.heap \subseteq Members(N, w)
    <3> SUFFICES ASSUME NEW k \in 1..n, s[k] \notin gone PROVE s[k] \in Members(N, w)
      BY <1>4, <1>8 DEF Members
    <3>1. k \notin 1..c
      BY <1>1
    <3>2. k - c \in 1..N /\ (k - c) + c = k
      BY <1>1, <1>4, <3>1
    <3> QED
      BY <1>9, <3>2 DEF Members
  <2> QED
    BY <2>1, <2>2
<1>12. \A k \in 1..N : m.next[w[k]] = IF k = N THEN Null ELSE w[k + 1]
  <2> SUFFICES ASSUME NEW k \in 1..N PROVE m.next[w[k]] = IF k = N THEN Null ELSE w[k + 1]
    OBVIOUS
  <2>1. /\ w[k] = s[k + c] /\ k + c \in c + 1..n /\ k + c \in 1..n
        /\ (k = N <=> k + c = n) /\ (k # N => k + 1 \in 1..N) /\ (k + 1) + c = (k + c) + 1
    BY <1>1, <1>4, <1>9
  <2>2. s[k + c] \in Timers \ gone
    BY <1>4, <1>7, <2>1
  <2>3. m.next[s[k + c]] = l.next[s[k + c]]
    BY <1>3, <1>8, <2>2
  <2>4. l.next[s[k + c]] = IF k + c = n THEN Null ELSE s[(k + c) + 1]
    BY <1>4, <2>1
  <2>5. k # N => w[k + 1] = s[(k + 1) + c]
    BY <1>9, <2>1
  <2> QED
    BY <2>1, <2>3, <2>4, <2>5
<1>13. \A k \in 2..N : m.prev[w[k]] \in {w[k - 1], Null}
  <2> SUFFICES ASSUME NEW k \in 2..N PROVE m.prev[w[k]] \in {w[k - 1], Null}
    OBVIOUS
  <2>0. c \in Nat /\ n \in Nat /\ c <= n /\ k \in Nat /\ k >= 2 /\ k <= n - c
    BY <1>1, <1>4
  <2>1. /\ k \in 1..N /\ k - 1 \in 1..N /\ k + c \in 2..n /\ (k + c) - 1 = (k - 1) + c
    BY <2>0
  <2>2. w[k] = s[k + c] /\ w[k - 1] = s[(k + c) - 1] /\ k + c \in c + 1..n
    BY <1>9, <2>1
  <2>3. s[k + c] \in Timers \ gone
    BY <1>4, <1>7, <2>2
  <2>4. m.prev[s[k + c]] \in {l.prev[s[k + c]], Null}
    BY <1>3, <1>8, <2>3
  <2>5. l.prev[s[k + c]] \in {s[(k + c) - 1], Null}
    BY <1>4, <2>1
  <2> QED
    BY <2>2, <2>4, <2>5
<1>14. N > 0 => m.tail = w[N]
  <2> SUFFICES ASSUME N > 0 PROVE m.tail = w[N]
    OBVIOUS
  <2>1. N \in 1..N /\ N + c = n /\ n > 0
    BY <1>1, <1>4, SMTT(60)
  <2> QED
    BY <1>4, <1>8, <1>9, <2>1
<1>15. m.head = IF N = 0 THEN Null ELSE w[1]
  <2>1. N # 0 => 1 \in 1..N /\ 1 + c = c + 1 /\ c < n
    BY <1>1, <1>4
  <2>2. N # 0 => w[1] = s[c + 1]
    BY <1>9, <2>1
  <2>3. N = 0 => ~(c < n)
    BY <1>1, <1>4
  <2> QED
    BY <1>1, <1>8, <2>1, <2>2, <2>3
<1> HIDE DEF N
<1>16. Listed(m, N, w)
  <2>1. Chain(m, N, w)
    BY <1>9, <1>10, <1>11, <1>12, <1>13, <1>14 DEF Chain
  <2> QED
    BY <1>11, <1>15, <2>1 DEF Listed
<1>17. gone \subseteq l.heap /\ \A t \in gone : ~(cur < expire[t])
  <2>1. \A k \in 1..c : k \in 1..n
    BY <1>1, <1>4
  <2> QED
    BY <1>1, <1>4, <2>1 DEF Members
<1> QED
  BY <1>8, <1>9, <1>16, <1>17 DEF m, gone
=============================================================================
