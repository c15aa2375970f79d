---------------------------- MODULE LinksProofs --------------------------------
(***************************************************************************)
(* What the operations of misc/queue.c, misc/list.c and misc/tree.c do to  *)
(* the nodes they link: which nodes form the queues and the lists before,  *)
(* and which after.  ProcessesProofs follows the scheduler with them.      *)
(***************************************************************************)
EXTENDS Links, FiniteSetTheorems, TLAPS

(* A sequence without its k-th element, and one with another at its end.    *)
LEMMA RemovedAt ==
    ASSUME NEW S, NEW s \in Seq(S), NEW k \in 1 .. Len(s)
    PROVE  /\ Without(s, k) \in Seq(S)
           /\ Len(Without(s, k)) = Len(s) - 1
           /\ \A j \in 1 .. Len(s) - 1 :
                 Without(s, k)[j] = IF j < k THEN s[j] ELSE s[j + 1]
<1> DEFINE a == SubSeq(s, 1, k - 1)  b == SubSeq(s, k + 1, Len(s))
<1>1. a \in Seq(S) /\ Len(a) = k - 1 /\ \A j \in 1 .. k - 1 : a[j] = s[j]
  OBVIOUS
<1>2. b \in Seq(S) /\ Len(b) = Len(s) - k /\ \A j \in 1 .. Len(s) - k : b[j] = s[k + j]
  OBVIOUS
<1>3. Without(s, k) = a \o b
  BY DEF Without
<1> HIDE DEF a, b
<1>4. /\ a \o b \in Seq(S) /\ Len(a \o b) = Len(a) + Len(b)
      /\ \A j \in 1 .. Len(a) + Len(b) : (a \o b)[j] = IF j <= Len(a) THEN a[j] ELSE b[j - Len(a)]
  <2>1. a \in Seq(S) /\ b \in Seq(S)
    BY <1>1, <1>2
  <2>2. a \o b \in Seq(S) /\ Len(a \o b) = Len(a) + Len(b)
    BY <2>1
  <2>3. ASSUME NEW j \in 1 .. Len(a) + Len(b)
        PROVE  (a \o b)[j] = IF j <= Len(a) THEN a[j] ELSE b[j - Len(a)]
    BY <2>1
  <2> QED BY <2>2, <2>3
<1>5. ASSUME NEW j \in 1 .. Len(s) - 1
      PROVE  (a \o b)[j] = IF j < k THEN s[j] ELSE s[j + 1]
  <2>1. CASE j < k
    BY <2>1, <1>1, <1>2, <1>4
  <2>2. CASE ~(j < k)
    <3>1. (a \o b)[j] = b[j - (k - 1)]
      BY <2>2, <1>1, <1>2, <1>4
    <3>2. j - (k - 1) \in 1 .. Len(s) - k /\ k + (j - (k - 1)) = j + 1
      BY <2>2
    <3>3. b[j - (k - 1)] = s[k + (j - (k - 1))]
      BY <3>2, <1>2
    <3> QED BY <3>1, <3>2, <3>3, <2>2
  <2> QED BY <2>1, <2>2, Zenon
<1>6. Len(a \o b) = Len(s) - 1
  BY <1>1, <1>2, <1>4
<1> QED BY <1>3, <1>4, <1>5, <1>6

LEMMA AppendAt ==
    ASSUME NEW S, NEW s \in Seq(S), NEW x \in S
    PROVE  /\ Append(s, x) \in Seq(S) /\ Len(Append(s, x)) = Len(s) + 1
           /\ Append(s, x) # <<>> /\ Append(s, x)[Len(s) + 1] = x
           /\ \A k \in 1 .. Len(s) : k \in 1 .. Len(s) + 1 /\ Append(s, x)[k] = s[k]
OBVIOUS

LEMMA TailRemoves ==
    ASSUME NEW S, NEW s \in Seq(S), s # <<>>
    PROVE  Tail(s) = Without(s, 1)
<1>1. 1 \in 1 .. Len(s)
  OBVIOUS
<1>2. /\ Tail(s) \in Seq(S) /\ Len(Tail(s)) = Len(s) - 1
      /\ \A j \in 1 .. Len(s) - 1 : Tail(s)[j] = s[j + 1]
  OBVIOUS
<1>3. /\ Without(s, 1) \in Seq(S) /\ Len(Without(s, 1)) = Len(s) - 1
      /\ \A j \in 1 .. Len(s) - 1 : Without(s, 1)[j] = s[j + 1]
  BY <1>1, RemovedAt
<1>4. \A j \in 1 .. Len(Tail(s)) : Tail(s)[j] = Without(s, 1)[j]
  BY <1>2, <1>3
<1> QED BY <1>2, <1>3, <1>4

LEMMA TwoOrMore ==
    ASSUME NEW n \in Nat, n # 0, n # 1
    PROVE  1 < n /\ 2 \in 1 .. n
OBVIOUS

(* The nodes c are linked from first along next to NULL.                    *)
Threaded(c, first, next) ==
    /\ first = IF c = <<>> THEN NULL ELSE c[1]
    /\ \A k \in 1 .. Len(c) : next[c[k]] = IF k = Len(c) THEN NULL ELSE c[k + 1]
--------------------------------------------------------------------------------
(* The linked queues.  The invariant names the nodes c[i] of each queue: the *)
(* walk of Queue is a consequence, not the form the invariant has.           *)
Memory ==
    [front : [Priorities -> QueueNodes \cup {NULL}],
     rear : [Priorities -> QueueNodes \cup {NULL}],
     count : [Priorities -> Int], lock : {[i \in Priorities |-> FALSE]},
     heap : SUBSET QueueNodes, data : [QueueNodes -> All \cup {NULL}],
     next : [QueueNodes -> QueueNodes \cup {NULL}]]

(* Queue i consists of the nodes c, which hold the values s.                *)
OneHolds(m, i, c, s) ==
    /\ c \in Seq(QueueNodes) /\ s \in Seq(All) /\ Len(c) = Len(s)
    /\ Threaded(c, m.front[i], m.next)
    /\ m.rear[i] = IF c = <<>> THEN NULL ELSE c[Len(c)]
    /\ m.count[i] = Len(c)
    /\ \A k \in 1 .. Len(c) : c[k] \in m.heap /\ m.data[c[k]] = s[k]
    /\ \A k, l \in 1 .. Len(c) : c[k] = c[l] => k = l

Apart(c) ==
    \A i, j \in Priorities : i # j =>
       \A k \in 1 .. Len(c[i]), l \in 1 .. Len(c[j]) : c[i][k] # c[j][l]

Owned(m, c) ==
    \A n \in m.heap : \E i \in Priorities : \E k \in 1 .. Len(c[i]) : n = c[i][k]

Holds(m, c, qs) ==
    /\ m \in Memory
    /\ c \in [Priorities -> Seq(QueueNodes)]
    /\ \A i \in Priorities : OneHolds(m, i, c[i], qs[i])
    /\ Apart(c)
    /\ Owned(m, c)

(* A queue does not notice changes to other queues and to other nodes.      *)
LEMMA OtherQueue ==
    ASSUME NEW m, NEW m2, NEW i, NEW c, NEW s, OneHolds(m, i, c, s),
           m2.front[i] = m.front[i], m2.rear[i] = m.rear[i], m2.count[i] = m.count[i],
           \A k \in 1 .. Len(c) : /\ c[k] \in m2.heap
                                  /\ m2.next[c[k]] = m.next[c[k]]
                                  /\ m2.data[c[k]] = m.data[c[k]]
    PROVE  OneHolds(m2, i, c, s)
BY DEF OneHolds, Threaded

(* The memory after the k-th node of queue i is unlinked and freed.         *)
UnlinkAt(m, i, d, k, m2) ==
    /\ m2.front = IF k = 1 THEN [m.front EXCEPT ![i] = m.next[d[k]]] ELSE m.front
    /\ m2.rear = [m.rear EXCEPT ![i] = IF Len(d) = 1 THEN NULL ELSE @]
    /\ m2.count = [m.count EXCEPT ![i] = @ - 1]
    /\ m2.heap = m.heap \ {d[k]}
    /\ m2.data = [m.data EXCEPT ![d[k]] = NULL]
    /\ m2.next = IF k = 1 THEN [m.next EXCEPT ![d[k]] = NULL]
                 ELSE [[m.next EXCEPT ![d[k - 1]] = m.next[d[k]]] EXCEPT ![d[k]] = NULL]

(* The queue loses the k-th node and value, if its rear is right afterwards:  *)
(* the node is not the last one, or it is the only one and rear is cleared.   *)
LEMMA UnlinkHolds ==
    ASSUME NEW m, NEW c, NEW qs \in [Priorities -> Seq(All)], Holds(m, c, qs),
           NEW i \in Priorities, NEW k \in 1 .. Len(c[i]), k < Len(c[i]) \/ Len(c[i]) = 1,
           NEW m2 \in Memory, UnlinkAt(m, i, c[i], k, m2)
    PROVE  \E c2 : Holds(m2, c2, [qs EXCEPT ![i] = Without(@, k)])
<1> DEFINE d == c[i]  s == qs[i]  d2 == Without(d, k)  s2 == Without(s, k)  t == d[k]
           c2 == [c EXCEPT ![i] = Without(@, k)]
           qs2 == [qs EXCEPT ![i] = Without(@, k)]
<1>1. /\ m \in Memory /\ c \in [Priorities -> Seq(QueueNodes)] /\ Apart(c) /\ Owned(m, c)
      /\ \A j \in Priorities : OneHolds(m, j, c[j], qs[j])
  BY DEF Holds
<1>2. /\ d \in Seq(QueueNodes) /\ s \in Seq(All) /\ Len(d) = Len(s) /\ k \in 1 .. Len(d)
      /\ Threaded(d, m.front[i], m.next)
      /\ m.rear[i] = IF d = <<>> THEN NULL ELSE d[Len(d)]
      /\ m.count[i] = Len(d) /\ t \in QueueNodes
      /\ \A j \in 1 .. Len(d) : d[j] \in m.heap /\ m.data[d[j]] = s[j]
      /\ \A j, l \in 1 .. Len(d) : d[j] = d[l] => j = l
  <2>1. OneHolds(m, i, d, s)
    BY <1>1
  <2> QED BY <2>1 DEF OneHolds
<1>3. /\ m.next \in [QueueNodes -> QueueNodes \cup {NULL}] /\ m.data \in [QueueNodes -> All \cup {NULL}]
      /\ m.front \in [Priorities -> QueueNodes \cup {NULL}] /\ m.rear \in [Priorities -> QueueNodes \cup {NULL}]
      /\ m.count \in [Priorities -> Int]
  BY <1>1 DEF Memory
<1>4. /\ m2.front = IF k = 1 THEN [m.front EXCEPT ![i] = m.next[t]] ELSE m.front
      /\ m2.rear = [m.rear EXCEPT ![i] = IF Len(d) = 1 THEN NULL ELSE @]
      /\ m2.count = [m.count EXCEPT ![i] = @ - 1]
      /\ m2.heap = m.heap \ {t}
      /\ m2.data = [m.data EXCEPT ![t] = NULL]
      /\ m2.next = IF k = 1 THEN [m.next EXCEPT ![t] = NULL]
                   ELSE [[m.next EXCEPT ![d[k - 1]] = m.next[t]] EXCEPT ![t] = NULL]
  <2>1. UnlinkAt(m, i, d, k, m2)
    OBVIOUS
  <2> HIDE DEF d
  <2> QED BY <2>1 DEF UnlinkAt
<1>5. /\ d2 \in Seq(QueueNodes) /\ Len(d2) = Len(d) - 1
      /\ \A j \in 1 .. Len(d) - 1 : d2[j] = IF j < k THEN d[j] ELSE d[j + 1]
  <2>1. d \in Seq(QueueNodes) /\ k \in 1 .. Len(d)
    BY <1>2
  <2> HIDE DEF d
  <2> QED BY <2>1, RemovedAt
<1>6. /\ s2 \in Seq(All) /\ Len(s2) = Len(s) - 1
      /\ \A j \in 1 .. Len(s) - 1 : s2[j] = IF j < k THEN s[j] ELSE s[j + 1]
  <2>1. s \in Seq(All) /\ k \in 1 .. Len(s)
    BY <1>2
  <2> HIDE DEF s
  <2> QED BY <2>1, RemovedAt
<1>7. /\ c2 \in [Priorities -> Seq(QueueNodes)] /\ c2[i] = d2 /\ qs2[i] = s2
      /\ \A j \in Priorities : j # i => c2[j] = c[j] /\ qs2[j] = qs[j]
  BY <1>1, <1>5
<1>8. k < Len(d) \/ Len(d) = 1
  OBVIOUS
<1>9. \A j \in Priorities : j # i => \A l \in 1 .. Len(c[j]), n \in 1 .. Len(d) : c[j][l] # d[n]
  BY <1>1 DEF Apart
<1> HIDE DEF c2, qs2, d, s, t, d2, s2
<1>10. t = d[k]
  BY DEF t
<1>11. ASSUME NEW j \in Priorities, j # i PROVE OneHolds(m2, j, c2[j], qs2[j])
  <2>1. OneHolds(m, j, c[j], qs[j])
    BY <1>1
  <2>2. m2.front[j] = m.front[j] /\ m2.rear[j] = m.rear[j] /\ m2.count[j] = m.count[j]
    BY <1>3, <1>4, <1>11, Zenon
  <2>3. ASSUME NEW l \in 1 .. Len(c[j])
        PROVE  /\ c[j][l] \in m2.heap
               /\ m2.next[c[j][l]] = m.next[c[j][l]]
               /\ m2.data[c[j][l]] = m.data[c[j][l]]
    <3>1. c[j][l] # t /\ c[j][l] \in m.heap /\ c[j][l] \in QueueNodes
      BY <2>1, <1>2, <1>9, <1>10, <1>11 DEF OneHolds
    <3>2. k # 1 => c[j][l] # d[k - 1] /\ d[k - 1] \in QueueNodes
      <4>1. d \in Seq(QueueNodes) /\ k \in 1 .. Len(d)
        BY <1>2, Zenon
      <4>2. k # 1 => k - 1 \in 1 .. Len(d) /\ d[k - 1] \in QueueNodes
        BY <4>1
      <4> QED BY <4>2, <1>9, <1>11, Zenon
    <3> QED BY <3>1, <3>2, <1>2, <1>3, <1>4, ZenonT(40)
  <2>4. OneHolds(m2, j, c[j], qs[j])
    BY <2>1, <2>2, <2>3, OtherQueue, ZenonT(40)
  <2> QED BY <2>4, <1>7, <1>11
<1>12. \A j \in 1 .. Len(d2) : \E n \in 1 .. Len(d) : n # k /\ d2[j] = d[n] /\ s2[j] = s[n]
  <2>1. SUFFICES ASSUME NEW j \in 1 .. Len(d2)
                 PROVE  \E n \in 1 .. Len(d) : n # k /\ d2[j] = d[n] /\ s2[j] = s[n]
    OBVIOUS
  <2>2. CASE j < k
    <3>0. Len(d) \in Nat /\ Len(s) = Len(d) /\ Len(d2) = Len(d) - 1
      BY <1>2, <1>5, <1>6
    <3>1. j \in 1 .. Len(d) - 1 /\ j \in 1 .. Len(s) - 1 /\ j \in 1 .. Len(d) /\ j # k
      BY <3>0, <2>2
    <3>2. d2[j] = d[j] /\ s2[j] = s[j]
      BY <3>1, <2>2, <1>5, <1>6, Zenon
    <3> QED BY <3>1, <3>2, Zenon
  <2>3. CASE ~(j < k)
    <3>0. Len(d) \in Nat /\ Len(s) = Len(d) /\ Len(d2) = Len(d) - 1
      BY <1>2, <1>5, <1>6
    <3>2. /\ j \in 1 .. Len(d) - 1 /\ j \in 1 .. Len(s) - 1
          /\ j + 1 \in 1 .. Len(d) /\ j + 1 # k
      BY <3>0, <2>3
    <3>3. d2[j] = d[j + 1] /\ s2[j] = s[j + 1]
      BY <3>2, <2>3, <1>5, <1>6, Zenon
    <3>1. j + 1 \in 1 .. Len(d) /\ j + 1 # k /\ d2[j] = d[j + 1] /\ s2[j] = s[j + 1]
      BY <3>2, <3>3, Zenon
    <3> QED BY <3>1
  <2> QED BY <2>2, <2>3
<1>13. \A j \in 1 .. Len(d2) : d2[j] \in m2.heap /\ m2.data[d2[j]] = s2[j]
  <2>1. ASSUME NEW n \in 1 .. Len(d), n # k
        PROVE  d[n] # t /\ d[n] \in QueueNodes /\ d[n] \in m.heap
    BY <2>1, <1>2, <1>10
  <2>2. ASSUME NEW j \in 1 .. Len(d2) PROVE d2[j] \in m2.heap /\ m2.data[d2[j]] = s2[j]
    <3>1. PICK n \in 1 .. Len(d) : n # k /\ d2[j] = d[n] /\ s2[j] = s[n]
      BY <1>12, Zenon
    <3>2. m2.data[d[n]] = m.data[d[n]]
      BY <3>1, <2>1, <1>3, <1>4
    <3> QED BY <3>1, <3>2, <2>1, <1>2, <1>4, ZenonT(40)
  <2> QED BY <2>2
<1>14. \A j, l \in 1 .. Len(d2) : d2[j] = d2[l] => j = l
  <2>1. SUFFICES ASSUME NEW j \in 1 .. Len(d2), NEW l \in 1 .. Len(d2), d2[j] = d2[l] PROVE j = l
    OBVIOUS
  <2> DEFINE up(n) == IF n < k THEN n ELSE n + 1
  <2>2. up(j) \in 1 .. Len(d) /\ up(l) \in 1 .. Len(d) /\ d[up(j)] = d2[j] /\ d[up(l)] = d2[l]
    <3>1. Len(d) \in Nat /\ k \in 1 .. Len(d) /\ Len(d2) = Len(d) - 1
      BY <1>2, <1>5
    <3>2. ASSUME NEW n \in 1 .. Len(d2) PROVE up(n) \in 1 .. Len(d) /\ n \in 1 .. Len(d) - 1
      BY <3>1
    <3>3. ASSUME NEW n \in 1 .. Len(d2) PROVE d[up(n)] = d2[n]
      BY <3>2, <1>5, ZenonT(40)
    <3> HIDE DEF up
    <3> QED BY <3>2, <3>3, ZenonT(40)
  <2>3. up(j) = up(l)
    BY <2>1, <2>2, <1>2, ZenonT(40)
  <2> QED BY <2>3, <1>2, <1>5
<1>15. m2.rear[i] = IF d2 = <<>> THEN NULL ELSE d2[Len(d2)]
  <2>1. CASE Len(d) = 1
    BY <2>1, <1>3, <1>4, <1>5
  <2>2. CASE k < Len(d)
    <3>1. Len(d2) \in 1 .. Len(d) - 1 /\ ~(Len(d2) < k) /\ Len(d2) + 1 = Len(d) /\ d2 # <<>> /\ d # <<>>
      BY <2>2, <1>2, <1>5
    <3>2. d2[Len(d2)] = d[Len(d)]
      BY <3>1, <1>5
    <3>3. Len(d) # 1
      BY <2>2, <1>2
    <3> QED BY <3>1, <3>2, <3>3, <1>2, <1>3, <1>4, ZenonT(40)
  <2> QED BY <2>1, <2>2, <1>8, Zenon
<1>16. m2.count[i] = Len(d2)
  BY <1>2, <1>3, <1>4, <1>5
<1>17. Threaded(d2, m2.front[i], m2.next)
  <2>1. \A n \in 1 .. Len(d) : m.next[d[n]] = IF n = Len(d) THEN NULL ELSE d[n + 1]
    BY <1>2, Zenon DEF Threaded
  <2>2. m.front[i] = d[1]
    BY <1>2 DEF Threaded
  <2>3. m2.front[i] = IF d2 = <<>> THEN NULL ELSE d2[1]
    <3>1. CASE k = 1
      <4>1. m2.front[i] = m.next[d[1]]
        BY <3>1, <1>3, <1>4, <1>10, Zenon
      <4>2. CASE Len(d) = 1
        BY <4>1, <4>2, <2>1, <1>5
      <4>3. CASE Len(d) > 1
        BY <4>1, <4>3, <3>1, <2>1, <1>5
      <4> QED BY <4>2, <4>3, <1>2
    <3>2. CASE k # 1
      <4>1. m2.front[i] = d[1]
        BY <3>2, <2>2, <1>4, Zenon
      <4>2. 1 \in 1 .. Len(d) - 1 /\ 1 < k
        BY <3>2, <1>8, <1>2
      <4> QED BY <4>1, <4>2, <1>5
    <3> QED BY <3>1, <3>2, ZenonT(40)
  <2>4. ASSUME NEW j \in 1 .. Len(d2)
        PROVE  m2.next[d2[j]] = IF j = Len(d2) THEN NULL ELSE d2[j + 1]
    <3>1. \A n \in 1 .. Len(d) : n # k => d[n] # t /\ d[n] \in QueueNodes
      BY <1>2, <1>10
    <3>2. CASE ~(j < k)
      <4>1. j + 1 \in 1 .. Len(d) /\ j + 1 # k /\ d2[j] = d[j + 1] /\ d[j + 1] # t
        BY <3>1, <3>2, <1>2, <1>5
      <4>2. k # 1 => d[j + 1] # d[k - 1]
        BY <4>1, <3>2, <1>2
      <4>3. m2.next[d[j + 1]] = m.next[d[j + 1]]
        BY <4>1, <4>2, <3>1, <1>2, <1>3, <1>4
      <4>4. CASE j = Len(d2)
        BY <4>1, <4>3, <4>4, <2>1, <1>5
      <4>5. CASE j # Len(d2)
        <5>1. j + 1 \in 1 .. Len(d) - 1 /\ ~(j + 1 < k) /\ j + 1 # Len(d)
          BY <4>5, <3>2, <1>2, <1>5
        <5>2. d2[j + 1] = d[(j + 1) + 1]
          BY <5>1, <1>5, Zenon
        <5> QED BY <4>1, <4>3, <4>5, <5>1, <5>2, <2>1, ZenonT(40)
      <4> QED BY <4>4, <4>5, Zenon
    <3>3. CASE j = k - 1
      <4>1. k # 1 /\ k < Len(d) /\ d2[j] = d[j] /\ d[j] # t /\ d[j] \in QueueNodes
        BY <3>1, <3>3, <1>2, <1>5, <1>8
      <4>2. m2.next[d[j]] = m.next[t]
        BY <4>1, <3>3, <1>2, <1>3, <1>4, ZenonT(40)
      <4>3. m.next[t] = d[k + 1]
        BY <4>1, <2>1, <1>10, <1>2
      <4>4. j # Len(d2) /\ k \in 1 .. Len(d) - 1 /\ j + 1 = k
        BY <4>1, <3>3, <1>2, <1>5
      <4>5. d2[k] = d[k + 1]
        BY <4>4, <1>5, <1>2
      <4> QED BY <4>1, <4>2, <4>3, <4>4, <4>5, ZenonT(40)
    <3>4. CASE j < k - 1
      <4>1. k # 1 /\ d2[j] = d[j] /\ j \in 1 .. Len(d) /\ j # k /\ d[j] # t /\ d[j] # d[k - 1] /\ d[j] \in QueueNodes
        BY <3>1, <3>4, <1>2, <1>5
      <4>2. m2.next[d[j]] = m.next[d[j]]
        BY <4>1, <1>2, <1>3, <1>4, ZenonT(40)
      <4>3. j # Len(d2) /\ j # Len(d) /\ j + 1 \in 1 .. Len(d) - 1 /\ j + 1 < k
        BY <3>4, <1>2, <1>5, <1>8
      <4>4. d2[j + 1] = d[j + 1]
        BY <4>3, <1>5, Zenon
      <4> QED BY <4>1, <4>2, <4>3, <4>4, <2>1, ZenonT(40)
    <3> QED BY <3>2, <3>3, <3>4, <1>2, <1>5
  <2> QED BY <2>3, <2>4 DEF Threaded
<1>18. OneHolds(m2, i, d2, s2)
  BY <1>2, <1>5, <1>6, <1>13, <1>14, <1>15, <1>16, <1>17, ZenonT(40) DEF OneHolds
<1>19. Apart(c2)
  <2>1. ASSUME NEW j \in Priorities, j # i, NEW l \in 1 .. Len(d2), NEW n \in 1 .. Len(c2[j])
        PROVE  d2[l] # c2[j][n]
    <3>1. PICK o \in 1 .. Len(d) : d2[l] = d[o]
      BY <1>12
    <3>2. c2[j] = c[j]
      BY <2>1, <1>7, Zenon
    <3> QED BY <3>1, <3>2, <2>1, <1>9, ZenonT(40)
  <2>2. ASSUME NEW j1 \in Priorities, NEW j2 \in Priorities, j1 # j2,
               NEW l \in 1 .. Len(c2[j1]), NEW n \in 1 .. Len(c2[j2])
        PROVE  c2[j1][l] # c2[j2][n]
    <3>1. CASE j1 # i /\ j2 # i
      BY <3>1, <2>2, <1>1, <1>7 DEF Apart
    <3> QED BY <3>1, <2>1, <2>2, <1>7
  <2> QED BY <2>2 DEF Apart
<1>20. Owned(m2, c2)
  <2>1. SUFFICES ASSUME NEW n \in m.heap, n # t
                 PROVE  \E j \in Priorities : \E l \in 1 .. Len(c2[j]) : n = c2[j][l]
    BY <1>4, Zenon DEF Owned
  <2>2. PICK j \in Priorities : \E l \in 1 .. Len(c[j]) : n = c[j][l]
    BY <1>1 DEF Owned
  <2>3. CASE j # i
    BY <2>2, <2>3, <1>7
  <2>4. CASE j = i
    <3>1. PICK l \in 1 .. Len(d) : n = d[l]
      BY <2>2, <2>4 DEF d
    <3>2. l # k
      BY <3>1, <2>1, <1>10, Zenon
    <3>3. CASE l < k
      <4>1. l \in 1 .. Len(d2) /\ d2[l] = d[l]
        BY <3>3, <1>2, <1>5
      <4> QED BY <4>1, <3>1, <1>7, ZenonT(40)
    <3>4. CASE l > k
      <4>1. l - 1 \in 1 .. Len(d2) /\ ~(l - 1 < k) /\ (l - 1) + 1 = l
        BY <3>4, <1>2, <1>5
      <4>2. d2[l - 1] = d[l]
        BY <4>1, <1>5
      <4> QED BY <4>1, <4>2, <3>1, <1>7, ZenonT(40)
    <3>5. d \in Seq(QueueNodes) /\ k \in 1 .. Len(d)
      BY <1>2, Zenon
    <3>6. l < k \/ l > k
      BY <3>2, <3>5
    <3> QED BY <3>3, <3>4, <3>6, Zenon
  <2> QED BY <2>3, <2>4
<1>21. Holds(m2, c2, qs2)
  BY <1>7, <1>11, <1>18, <1>19, <1>20 DEF Holds
<1> QED BY <1>21 DEF qs2

LEMMA CountFields ==
    ASSUME NEW m \in Memory, NEW i \in Priorities, NEW n \in Int
    PROVE  LET m2 == [m EXCEPT !.count[i] = n]
           IN  /\ m2 \in Memory /\ m2.front = m.front /\ m2.rear = m.rear
               /\ m2.count = [m.count EXCEPT ![i] = n] /\ m2.heap = m.heap
               /\ m2.data = m.data /\ m2.next = m.next
BY Zenon DEF Memory

(* The memory after queue_enqueue, field by field.                          *)
EnqueueTo(m, i, v, t, m2) ==
    /\ m2.front = IF m.rear[i] = NULL THEN [m.front EXCEPT ![i] = t] ELSE m.front
    /\ m2.rear = [m.rear EXCEPT ![i] = t]
    /\ m2.count = [m.count EXCEPT ![i] = @ + 1]
    /\ m2.heap = m.heap \cup {t}
    /\ m2.data = [m.data EXCEPT ![t] = v]
    /\ m2.next = IF m.rear[i] = NULL THEN [m.next EXCEPT ![t] = NULL]
                 ELSE [[m.next EXCEPT ![t] = NULL] EXCEPT ![m.rear[i]] = t]

LEMMA EnqueueFields ==
    ASSUME NEW m \in Memory, NEW i \in Priorities, NEW v \in All, NEW t \in QueueNodes,
           t = Q!kmalloc(m), NEW m2, m2 = Q!queue_enqueue(m, i, v)
    PROVE  m2 \in Memory /\ EnqueueTo(m, i, v, t, m2)
<1> DEFINE m1 == [m EXCEPT !.heap = @ \cup {t}, !.data[t] = v, !.next[t] = NULL]
<1>1. m2 = [Q!Linked(m1, i, t) EXCEPT !.count[i] = @ + 1]
  BY DEF Q!queue_enqueue
<1>2. /\ m1 \in Memory /\ m1.front = m.front /\ m1.rear = m.rear /\ m1.count = m.count
      /\ m1.heap = m.heap \cup {t} /\ m1.data = [m.data EXCEPT ![t] = v]
      /\ m1.next = [m.next EXCEPT ![t] = NULL]
  BY Zenon DEF Memory
<1> HIDE DEF m1
<1>3. CASE m.rear[i] = NULL
  <2>1. m2 = [[m1 EXCEPT !.front[i] = t, !.rear[i] = t] EXCEPT !.count[i] = @ + 1]
    BY <1>1, <1>2, <1>3 DEF Q!Linked
  <2>2. /\ m2 \in Memory /\ m2.front = [m1.front EXCEPT ![i] = t]
        /\ m2.rear = [m1.rear EXCEPT ![i] = t] /\ m2.count = [m1.count EXCEPT ![i] = @ + 1]
        /\ m2.heap = m1.heap /\ m2.data = m1.data /\ m2.next = m1.next
    <3> DEFINE ma == [m1 EXCEPT !.front[i] = t, !.rear[i] = t]
    <3>1. /\ ma \in Memory /\ ma.front = [m1.front EXCEPT ![i] = t]
          /\ ma.rear = [m1.rear EXCEPT ![i] = t] /\ ma.count = m1.count
          /\ ma.heap = m1.heap /\ ma.data = m1.data /\ ma.next = m1.next
      BY <1>2, Zenon DEF Memory
    <3>2. m2 = [ma EXCEPT !.count[i] = ma.count[i] + 1]
      BY <2>1
    <3> HIDE DEF ma
    <3>3. ma.count[i] + 1 \in Int
      BY <3>1 DEF Memory
    <3>4. /\ m2 \in Memory /\ m2.front = ma.front /\ m2.rear = ma.rear
          /\ m2.count = [ma.count EXCEPT ![i] = ma.count[i] + 1] /\ m2.heap = ma.heap
          /\ m2.data = ma.data /\ m2.next = ma.next
      BY <3>1, <3>2, <3>3, CountFields
    <3> QED BY <3>1, <3>4
  <2> QED BY <2>2, <1>2, <1>3 DEF EnqueueTo
<1>4. CASE m.rear[i] # NULL
  <2>0. m1.rear[i] \in QueueNodes
    BY <1>2, <1>4 DEF Memory
  <2>1. m2 = [[m1 EXCEPT !.next[m1.rear[i]] = t, !.rear[i] = t] EXCEPT !.count[i] = @ + 1]
    BY <1>1, <1>2, <1>4 DEF Q!Linked
  <2>2. /\ m2 \in Memory /\ m2.front = m1.front
        /\ m2.rear = [m1.rear EXCEPT ![i] = t] /\ m2.count = [m1.count EXCEPT ![i] = @ + 1]
        /\ m2.heap = m1.heap /\ m2.data = m1.data
        /\ m2.next = [m1.next EXCEPT ![m1.rear[i]] = t]
    <3> DEFINE ma == [m1 EXCEPT !.next[m1.rear[i]] = t, !.rear[i] = t]
    <3>1. /\ ma \in Memory /\ ma.front = m1.front
          /\ ma.rear = [m1.rear EXCEPT ![i] = t] /\ ma.count = m1.count
          /\ ma.heap = m1.heap /\ ma.data = m1.data
          /\ ma.next = [m1.next EXCEPT ![m1.rear[i]] = t]
      BY <2>0, <1>2, Zenon DEF Memory
    <3>2. m2 = [ma EXCEPT !.count[i] = ma.count[i] + 1]
      BY <2>1
    <3> HIDE DEF ma
    <3>3. ma.count[i] + 1 \in Int
      BY <3>1 DEF Memory
    <3>4. /\ m2 \in Memory /\ m2.front = ma.front /\ m2.rear = ma.rear
          /\ m2.count = [ma.count EXCEPT ![i] = ma.count[i] + 1] /\ m2.heap = ma.heap
          /\ m2.data = ma.data /\ m2.next = ma.next
      BY <3>1, <3>2, <3>3, CountFields
    <3> QED BY <3>1, <3>4
  <2> QED BY <2>2, <1>2, <1>4, Zenon DEF EnqueueTo
<1> QED BY <1>3, <1>4

(* queue_enqueue appends a node to its queue.                               *)
LEMMA EnqueueHolds ==
    ASSUME NEW m, NEW c, NEW qs \in [Priorities -> Seq(All)], Holds(m, c, qs),
           NEW i \in Priorities, NEW v \in All, m.heap # QueueNodes
    PROVE  \E c2 : Holds(Q!queue_enqueue(m, i, v), c2, [qs EXCEPT ![i] = Append(@, v)])
<1> DEFINE t == Q!kmalloc(m)
           m2 == Q!queue_enqueue(m, i, v)
           c2 == [c EXCEPT ![i] = Append(@, t)]
           qs2 == [qs EXCEPT ![i] = Append(@, v)]
<1>1. /\ m \in Memory /\ c \in [Priorities -> Seq(QueueNodes)] /\ Apart(c) /\ Owned(m, c)
      /\ \A j \in Priorities : OneHolds(m, j, c[j], qs[j])
  BY DEF Holds
<1>2. t \in QueueNodes /\ t \notin m.heap
  <2>1. \E n \in QueueNodes : n \notin m.heap
    BY <1>1, Zenon DEF Memory
  <2> QED BY <2>1 DEF Q!kmalloc
<1>a. t = Q!kmalloc(m) /\ m2 = Q!queue_enqueue(m, i, v)
  OBVIOUS
<1> HIDE DEF t, m2
<1>b. m2 \in Memory /\ EnqueueTo(m, i, v, t, m2)
  BY <1>1, <1>2, <1>a, EnqueueFields, Zenon
<1>3. /\ m2 \in Memory
      /\ m2.front = IF m.rear[i] = NULL THEN [m.front EXCEPT ![i] = t] ELSE m.front
      /\ m2.rear = [m.rear EXCEPT ![i] = t]
      /\ m2.count = [m.count EXCEPT ![i] = @ + 1]
      /\ m2.heap = m.heap \cup {t}
      /\ m2.data = [m.data EXCEPT ![t] = v]
      /\ m2.next = IF m.rear[i] = NULL THEN [m.next EXCEPT ![t] = NULL]
                   ELSE [[m.next EXCEPT ![t] = NULL] EXCEPT ![m.rear[i]] = t]
  BY <1>b DEF EnqueueTo
<1>4. /\ c2 \in [Priorities -> Seq(QueueNodes)] /\ c2[i] = Append(c[i], t)
      /\ \A j \in Priorities : j # i => c2[j] = c[j] /\ qs2[j] = qs[j]
      /\ qs2[i] = Append(qs[i], v)
  <2>1. Append(c[i], t) \in Seq(QueueNodes)
    BY <1>1, <1>2
  <2> QED BY <1>1, <2>1
<1> HIDE DEF c2, qs2
<1>5. \A j \in Priorities : \A k \in 1 .. Len(c[j]) :
         c[j][k] # t /\ c[j][k] \in m.heap /\ c[j][k] \in QueueNodes
  BY <1>1, <1>2 DEF OneHolds
<1>6. ASSUME NEW j \in Priorities, j # i PROVE OneHolds(m2, j, c2[j], qs2[j])
  <2>1. OneHolds(m, j, c[j], qs[j])
    BY <1>1, Zenon
  <2>2. /\ m2.front[j] = m.front[j] /\ m2.rear[j] = m.rear[j] /\ m2.count[j] = m.count[j]
    BY <1>1, <1>3, <1>6 DEF Memory
  <2>3. ASSUME NEW k \in 1 .. Len(c[j]), m.rear[i] # NULL PROVE c[j][k] # m.rear[i]
    <3>1. OneHolds(m, i, c[i], qs[i])
      BY <1>1
    <3>2. c[i] # <<>> /\ m.rear[i] = c[i][Len(c[i])] /\ Len(c[i]) \in 1 .. Len(c[i])
      BY <3>1, <2>3 DEF OneHolds
    <3> QED BY <3>2, <1>1, <1>6 DEF Apart
  <2>4. \A k \in 1 .. Len(c[j]) : /\ c[j][k] \in m2.heap
                                  /\ m2.next[c[j][k]] = m.next[c[j][k]]
                                  /\ m2.data[c[j][k]] = m.data[c[j][k]]
    BY <1>1, <1>3, <1>5, <2>3 DEF Memory
  <2>5. OneHolds(m2, j, c[j], qs[j])
    BY <2>1, <2>2, <2>4, OtherQueue, ZenonT(40)
  <2> QED BY <2>5, <1>4, <1>6
<1>7. OneHolds(m2, i, c2[i], qs2[i])
  <2> DEFINE d == c[i]  s == qs[i]  d2 == Append(d, t)  s2 == Append(s, v)
  <2>1. OneHolds(m, i, d, s)
    BY <1>1, Zenon
  <2>2. /\ d \in Seq(QueueNodes) /\ s \in Seq(All) /\ Len(d) = Len(s)
        /\ Threaded(d, m.front[i], m.next)
        /\ m.rear[i] = IF d = <<>> THEN NULL ELSE d[Len(d)]
        /\ m.count[i] = Len(d)
        /\ \A k \in 1 .. Len(d) : d[k] \in m.heap /\ m.data[d[k]] = s[k]
        /\ \A k, l \in 1 .. Len(d) : d[k] = d[l] => k = l
    BY <2>1 DEF OneHolds
  <2>3. \A k \in 1 .. Len(d) : d[k] # t /\ d[k] \in QueueNodes
    BY <1>5
  <2> HIDE DEF d, s
  <2>4. /\ d2 \in Seq(QueueNodes) /\ s2 \in Seq(All) /\ Len(d2) = Len(d) + 1 /\ Len(s2) = Len(s) + 1
        /\ d2[Len(d) + 1] = t /\ s2[Len(s) + 1] = v /\ d2 # <<>>
        /\ \A k \in 1 .. Len(d) : d2[k] = d[k] /\ s2[k] = s[k]
    BY <2>2, <1>2, AppendAt
  <2> HIDE DEF d2, s2
  <2>5. m2.rear[i] = t /\ m2.count[i] = Len(d) + 1
    BY <1>1, <1>3, <2>2 DEF Memory
  <2>6. \A k \in 1 .. Len(d2) : d2[k] \in m2.heap /\ m2.data[d2[k]] = s2[k]
    <3>1. m.data \in [QueueNodes -> All \cup {NULL}]
      BY <1>1 DEF Memory
    <3> QED BY <3>1, <1>3, <1>2, <2>2, <2>3, <2>4
  <2>7. \A k, l \in 1 .. Len(d2) : d2[k] = d2[l] => k = l
    <3>1. Len(d) \in Nat /\ Len(d2) = Len(d) + 1
      BY <2>2, <2>4
    <3>2. \A k \in 1 .. Len(d2) : k \in 1 .. Len(d) \/ k = Len(d) + 1
      BY <3>1
    <3>3. d2[Len(d) + 1] = t /\ \A k \in 1 .. Len(d) : d2[k] = d[k]
      BY <2>4, Zenon
    <3>4. \A k, l \in 1 .. Len(d) : d[k] = d[l] => k = l
      BY <2>2, Zenon
    <3> QED BY <3>2, <3>3, <3>4, <2>3, ZenonT(40)
  <2>8. Threaded(d2, m2.front[i], m2.next)
    <3>0. m.next \in [QueueNodes -> QueueNodes \cup {NULL}] /\ m.front \in [Priorities -> QueueNodes \cup {NULL}]
      BY <1>1 DEF Memory
    <3>1. CASE d = <<>>
      <4>1. m2.front[i] = t /\ m2.next[t] = NULL
        BY <3>0, <3>1, <2>2, <1>3, <1>2, ZenonT(40)
      <4> QED BY <4>1, <3>1, <2>4 DEF Threaded
    <3>2. CASE d # <<>>
      <4>1. Len(d) \in 1 .. Len(d) /\ m.rear[i] = d[Len(d)] /\ m.rear[i] \in QueueNodes /\ m.rear[i] # NULL
        BY <3>2, <2>2, <2>3, HeapAssumption
      <4>2. /\ m2.front[i] = m.front[i] /\ m2.next[t] = NULL /\ m2.next[d[Len(d)]] = t
        BY <4>1, <3>0, <1>3, <1>2, <2>3, ZenonT(40)
      <4>3. \A k \in 1 .. Len(d) : k # Len(d) => m2.next[d[k]] = m.next[d[k]]
        BY <4>1, <3>0, <1>3, <1>2, <2>3, <2>2
      <4>4. m.front[i] = d[1] /\ \A k \in 1 .. Len(d) : k # Len(d) => m.next[d[k]] = d[k + 1]
        BY <3>2, <2>2, Zenon DEF Threaded
      <4>5. ASSUME NEW k \in 1 .. Len(d2)
            PROVE  m2.next[d2[k]] = IF k = Len(d2) THEN NULL ELSE d2[k + 1]
        <5>1. CASE k = Len(d) + 1
          BY <5>1, <4>2, <2>4, Zenon
        <5>2. CASE k = Len(d)
          BY <5>2, <4>1, <4>2, <2>4, ZenonT(40)
        <5>3. CASE k # Len(d) /\ k # Len(d) + 1
          <6>1. k \in 1 .. Len(d) /\ k + 1 \in 1 .. Len(d)
            BY <5>3, <2>4, <2>2
          <6> QED BY <6>1, <5>3, <4>3, <4>4, <2>4, <2>2
        <5> QED BY <5>1, <5>2, <5>3, Zenon
      <4>6. m2.front[i] = d2[1]
        BY <4>1, <4>2, <4>4, <2>4, <2>2
      <4> QED BY <4>5, <4>6, <2>4, Zenon DEF Threaded
    <3> QED BY <3>1, <3>2
  <2>9. OneHolds(m2, i, d2, s2)
    BY <2>2, <2>4, <2>5, <2>6, <2>7, <2>8, ZenonT(40) DEF OneHolds
  <2> QED BY <2>9, <1>4 DEF d2, s2, d, s
<1>8. Apart(c2)
  <2>1. \A k \in 1 .. Len(c2[i]) : c2[i][k] = t \/ (k \in 1 .. Len(c[i]) /\ c2[i][k] = c[i][k])
    BY <1>1, <1>2, <1>4
  <2>2. ASSUME NEW j \in Priorities, j # i, NEW k \in 1 .. Len(c2[i]), NEW l \in 1 .. Len(c2[j])
        PROVE  c2[i][k] # c2[j][l]
    BY <2>1, <2>2, <1>1, <1>4, <1>5 DEF Apart
  <2>3. ASSUME NEW j1 \in Priorities, NEW j2 \in Priorities, j1 # j2,
               NEW k \in 1 .. Len(c2[j1]), NEW l \in 1 .. Len(c2[j2])
        PROVE  c2[j1][k] # c2[j2][l]
    <3>1. CASE j1 # i /\ j2 # i
      BY <3>1, <2>3, <1>1, <1>4 DEF Apart
    <3> QED BY <3>1, <2>2, <2>3, Zenon
  <2> QED BY <2>3, Zenon DEF Apart
<1>9. Owned(m2, c2)
  <2>1. Len(c2[i]) = Len(c[i]) + 1 /\ c2[i][Len(c[i]) + 1] = t
        /\ \A k \in 1 .. Len(c[i]) : k \in 1 .. Len(c2[i]) /\ c2[i][k] = c[i][k]
    BY <1>1, <1>2, <1>4
  <2>2. ASSUME NEW n \in m.heap PROVE \E j \in Priorities : \E k \in 1 .. Len(c2[j]) : n = c2[j][k]
    <3>1. PICK j \in Priorities : \E k \in 1 .. Len(c[j]) : n = c[j][k]
      BY <1>1 DEF Owned
    <3> QED BY <3>1, <2>1, <1>4, ZenonT(40)
  <2>3. \E k \in 1 .. Len(c2[i]) : t = c2[i][k]
    <3>1. Len(c[i]) \in Nat
      BY <1>1
    <3> QED BY <2>1, <3>1
  <2>4. \A n \in m2.heap : n \in m.heap \/ n = t
    BY <1>3
  <2> QED BY <2>2, <2>3, <2>4, ZenonT(40) DEF Owned
<1>10. Holds(m2, c2, qs2)
  BY <1>3, <1>4, <1>6, <1>7, <1>8, <1>9, ZenonT(40) DEF Holds
<1> QED BY <1>10 DEF m2, qs2

FreeTo(m, n, m2) ==
    /\ m2.front = m.front /\ m2.rear = m.rear /\ m2.count = m.count
    /\ m2.heap = m.heap \ {n}
    /\ m2.data = [m.data EXCEPT ![n] = NULL]
    /\ m2.next = [m.next EXCEPT ![n] = NULL]

LEMMA FreeFields ==
    ASSUME NEW m \in Memory, NEW n \in QueueNodes
    PROVE  Q!kfree(m, n) \in Memory /\ FreeTo(m, n, Q!kfree(m, n))
BY Zenon DEF Memory, Q!kfree, FreeTo

(* queue_deqeueue takes out the first node, and clears rear with the last.  *)
LEMMA DequeueHolds ==
    ASSUME NEW m, NEW c, NEW qs \in [Priorities -> Seq(All)], Holds(m, c, qs),
           NEW i \in Priorities, qs[i] # <<>>
    PROVE  \E c2 : Holds(Q!queue_deqeueue(m, i), c2, [qs EXCEPT ![i] = Tail(@)])
<1> DEFINE d == c[i]  f == d[1]
           r == Q!RearAfter(m, i)
           ma == [m EXCEPT !.front[i] = m.next[f], !.rear[i] = r, !.count[i] = @ - 1]
           m2 == Q!queue_deqeueue(m, i)
<1>1. m \in Memory /\ OneHolds(m, i, d, qs[i])
  BY DEF Holds
<1>2. /\ d \in Seq(QueueNodes) /\ Len(d) \in Nat /\ Len(d) # 0 /\ 1 \in 1 .. Len(d) /\ f \in QueueNodes
      /\ m.front[i] = f /\ m.count[i] = Len(d) /\ m.rear[i] = d[Len(d)]
      /\ m.next[f] = IF Len(d) = 1 THEN NULL ELSE d[2]
  <2> HIDE DEF d
  <2> QED BY <1>1 DEF OneHolds, Threaded, f
<1>a. Len(d) \in Nat /\ Len(d) # 0
  BY <1>2
<1>3. r = IF Len(d) = 1 THEN NULL ELSE m.rear[i]
  <2>1. CASE Len(d) = 1
    BY <2>1, <1>2, ZenonT(40) DEF Q!RearAfter
  <2>2. CASE Len(d) # 1
    <3>1. 2 \in 1 .. Len(d)
      <4> HIDE DEF d
      <4> QED BY <1>a, <2>2, TwoOrMore, ZenonT(40)
    <3>a. d[2] \in QueueNodes
      <4> HIDE DEF d
      <4> QED BY <3>1, <1>2
    <3>2. d[2] # NULL
      BY <3>a, HeapAssumption
    <3> QED BY <3>2, <2>2, <1>2 DEF Q!RearAfter
  <2> QED BY <2>1, <2>2, Zenon
<1>4. m2 = Q!kfree(ma, f)
  BY <1>2, Zenon DEF Q!queue_deqeueue
<1>5. m.next[f] \in QueueNodes \cup {NULL} /\ r \in QueueNodes \cup {NULL} /\ m.count[i] - 1 \in Int
  BY <1>1, <1>2, <1>3 DEF Memory
<1> HIDE DEF r, f, d
<1>6. /\ ma \in Memory /\ ma.front = [m.front EXCEPT ![i] = m.next[f]]
      /\ ma.rear = [m.rear EXCEPT ![i] = r] /\ ma.count = [m.count EXCEPT ![i] = m.count[i] - 1]
      /\ ma.heap = m.heap /\ ma.data = m.data /\ ma.next = m.next
  <2> DEFINE n == m.count[i] - 1  mb == [m EXCEPT !.front[i] = m.next[f], !.rear[i] = r]
  <2>1. /\ mb \in Memory /\ mb.front = [m.front EXCEPT ![i] = m.next[f]]
        /\ mb.rear = [m.rear EXCEPT ![i] = r] /\ mb.count = m.count
        /\ mb.heap = m.heap /\ mb.data = m.data /\ mb.next = m.next
    BY <1>1, <1>5, Zenon DEF Memory
  <2>2. ma = [mb EXCEPT !.count[i] = n]
    BY <2>1
  <2>3. n \in Int
    BY <1>5
  <2> HIDE DEF ma, mb, n
  <2>4. /\ ma \in Memory /\ ma.front = mb.front /\ ma.rear = mb.rear
        /\ ma.count = [mb.count EXCEPT ![i] = n] /\ ma.heap = mb.heap
        /\ ma.data = mb.data /\ ma.next = mb.next
    BY <2>1, <2>2, <2>3, CountFields
  <2> QED BY <2>1, <2>4 DEF n
<1> HIDE DEF ma, m2
<1>7. m2 \in Memory /\ FreeTo(ma, f, m2)
  BY <1>2, <1>4, <1>6, FreeFields, Zenon
<1>8. UnlinkAt(m, i, d, 1, m2)
  <2>1. f = d[1]
    BY DEF f
  <2> QED BY <2>1, <1>3, <1>6, <1>7, ZenonT(40) DEF UnlinkAt, FreeTo
<1>9. 1 < Len(d) \/ Len(d) = 1
  BY <1>a, TwoOrMore, Zenon
<1>10. \E c2 : Holds(m2, c2, [qs EXCEPT ![i] = Without(@, 1)])
  <2>1. d = c[i]
    BY Zenon DEF d
  <2>2. 1 \in 1 .. Len(c[i]) /\ (1 < Len(c[i]) \/ Len(c[i]) = 1) /\ UnlinkAt(m, i, c[i], 1, m2)
    BY <2>1, <1>2, <1>8, <1>9, Zenon
  <2> QED BY <2>2, <1>7, UnlinkHolds, Zenon
<1>11. [qs EXCEPT ![i] = Tail(@)] = [qs EXCEPT ![i] = Without(@, 1)]
  <2>1. Tail(qs[i]) = Without(qs[i], 1)
    BY TailRemoves
  <2> QED BY <2>1, Zenon
<1> QED BY <1>10, <1>11 DEF m2
--------------------------------------------------------------------------------
(* The process tree.  Every process is created below idle, so the invariant *)
(* names the nodes c of the one list that is not empty, that of idle.       *)
ListT == [head : ListNodes \cup {NULL}, tail : ListNodes \cup {NULL}, length : Int]

NodeT == [next : ListNodes \cup {NULL}, prev : ListNodes \cup {NULL}, value : All \cup {NULL}]

TreeMemory ==
    [used : SUBSET All, parent : [All -> All \cup {NULL}], nodes : Int,
     fresh : SUBSET ListNodes, list : [All -> ListT], node : [ListNodes -> NodeT]]

(* The list l consists of the nodes c, linked both ways.                    *)
ListHolds(ns, l, c) ==
    /\ c \in Seq(ListNodes)
    /\ l = [head |-> IF c = <<>> THEN NULL ELSE c[1],
            tail |-> IF c = <<>> THEN NULL ELSE c[Len(c)], length |-> Len(c)]
    /\ \A k \in 1 .. Len(c) :
          /\ ns[c[k]].next = IF k = Len(c) THEN NULL ELSE c[k + 1]
          /\ ns[c[k]].prev = IF k = 1 THEN NULL ELSE c[k - 1]
    /\ \A k, j \in 1 .. Len(c) : c[k] = c[j] => k = j

(* Its nodes hold the members of U, each once.                              *)
Values(ns, c, U) ==
    /\ \A k \in 1 .. Len(c) : ns[c[k]].value \in U
    /\ \A k, j \in 1 .. Len(c) : ns[c[k]].value = ns[c[j]].value => k = j
    /\ \A t \in U : \E k \in 1 .. Len(c) : ns[c[k]].value = t

TreeHolds(m, c, U) ==
    /\ m \in TreeMemory
    /\ U \subseteq All /\ Idle \in U /\ m.used = U /\ m.nodes = Cardinality(U)
    /\ m.parent[Idle] = NULL /\ \A t \in U \ {Idle} : m.parent[t] = Idle
    /\ \A t \in All \ {Idle} : m.list[t] = T!Empty
    /\ ListHolds(m.node, m.list[Idle], c)
    /\ Values(m.node, c, U \ {Idle})
    /\ \A k \in 1 .. Len(c) : c[k] \notin m.fresh

(* The list nodes after list_append, pointer by pointer.                    *)
AppendTo(ns, l, n, t, ns2) ==
    /\ ns2[n] = [next |-> NULL, prev |-> l.tail, value |-> t]
    /\ l.tail # NULL => ns2[l.tail] = [ns[l.tail] EXCEPT !.next = n]
    /\ \A x \in ListNodes : x # n /\ x # l.tail => ns2[x] = ns[x]

LEMMA AppendHolds ==
    ASSUME NEW ns \in [ListNodes -> NodeT], NEW l, NEW c, NEW U, NEW n \in ListNodes,
           NEW t \in All, t \notin U, ListHolds(ns, l, c), Values(ns, c, U),
           \A k \in 1 .. Len(c) : c[k] # n, NEW ns2, AppendTo(ns, l, n, t, ns2)
    PROVE  /\ ListHolds(ns2, T!AppendedTo(l, n), Append(c, n))
           /\ Values(ns2, Append(c, n), U \cup {t})
<1> DEFINE d == Append(c, n)  N == Len(c)
<1>1. /\ c \in Seq(ListNodes) /\ N \in Nat
      /\ l = [head |-> IF c = <<>> THEN NULL ELSE c[1],
              tail |-> IF c = <<>> THEN NULL ELSE c[N], length |-> N]
      /\ \A k \in 1 .. N : /\ ns[c[k]].next = IF k = N THEN NULL ELSE c[k + 1]
                           /\ ns[c[k]].prev = IF k = 1 THEN NULL ELSE c[k - 1]
      /\ \A k, j \in 1 .. N : c[k] = c[j] => k = j
      /\ \A k \in 1 .. N : c[k] \in ListNodes /\ c[k] # n /\ ns[c[k]] \in NodeT
  BY DEF ListHolds
<1>2. /\ d \in Seq(ListNodes) /\ Len(d) = N + 1 /\ d # <<>> /\ d[N + 1] = n
      /\ \A k \in 1 .. N : k \in 1 .. N + 1 /\ d[k] = c[k]
  BY <1>1, AppendAt
<1>3. c = <<>> <=> N = 0
  BY <1>1
<1>a. l.tail = (IF N = 0 THEN NULL ELSE c[N]) /\ l.head = (IF N = 0 THEN NULL ELSE c[1])
      /\ l.length = N
  BY <1>1, <1>3, Zenon
<1>b. N # 0 => N \in 1 .. N /\ 1 \in 1 .. N
  BY <1>1
<1> HIDE DEF d, N
<1>4. T!AppendedTo(l, n) = [head |-> d[1], tail |-> n, length |-> N + 1]
  <2>1. CASE N = 0
    BY <2>1, <1>a, <1>2 DEF T!AppendedTo
  <2>2. CASE N # 0
    <3>1. l.tail \in ListNodes /\ l.tail # NULL /\ l.head = d[1]
      BY <2>2, <1>a, <1>b, <1>1, <1>2, HeapAssumption, SMTT(30)
    <3> QED BY <3>1, <1>a, ZenonT(40) DEF T!AppendedTo
  <2> QED BY <2>1, <2>2, Zenon
<1>5. ASSUME NEW k \in 1 .. N
      PROVE  /\ ns2[c[k]].next = IF k = N THEN n ELSE c[k + 1]
             /\ ns2[c[k]].prev = ns[c[k]].prev
             /\ ns2[c[k]].value = ns[c[k]].value
  <2>1. N # 0
    BY <1>1
  <2>2. l.tail = c[N] /\ c[N] # NULL
    BY <2>1, <1>a, <1>b, <1>1, HeapAssumption, ZenonT(40)
  <2>3. CASE k = N
    <3>1. ns2[c[k]] = [ns[c[k]] EXCEPT !.next = n]
      BY <2>2, <2>3, Zenon DEF AppendTo
    <3>2. ns[c[k]] \in NodeT
      BY <1>1, Zenon
    <3> QED BY <3>1, <3>2, <2>3 DEF NodeT
  <2>4. CASE k # N
    <3>1. c[k] # c[N] /\ c[k] # n /\ c[k] \in ListNodes
      BY <2>4, <2>1, <1>b, <1>1, Zenon
    <3>2. ns2[c[k]] = ns[c[k]]
      BY <3>1, <2>2 DEF AppendTo
    <3> QED BY <3>2, <2>4, <1>1, Zenon
  <2> QED BY <2>3, <2>4, ZenonT(40)
<1>6. ns2[n].next = NULL /\ ns2[n].prev = (IF N = 0 THEN NULL ELSE c[N]) /\ ns2[n].value = t
  BY <1>a DEF AppendTo
<1>7. ASSUME NEW k \in 1 .. N + 1
      PROVE  k \in 1 .. N \/ k = N + 1
  BY <1>1
<1>8. ASSUME NEW k \in 1 .. N + 1
      PROVE  /\ ns2[d[k]].next = IF k = N + 1 THEN NULL ELSE d[k + 1]
             /\ ns2[d[k]].prev = IF k = 1 THEN NULL ELSE d[k - 1]
  <2>1. CASE k = N + 1
    <3>1. CASE N = 0
      BY <2>1, <3>1, <1>2, <1>6
    <3>2. CASE N # 0
      <4>1. k # 1 /\ k - 1 = N /\ d[N] = c[N]
        BY <2>1, <3>2, <1>1, <1>2, <1>b
      <4> QED BY <4>1, <2>1, <3>2, <1>2, <1>6, ZenonT(40)
    <3> QED BY <3>1, <3>2, ZenonT(40)
  <2>2. CASE k \in 1 .. N
    <3>1. k # N + 1 /\ d[k] = c[k]
      BY <2>2, <1>1, <1>2, ZenonT(40)
    <3>2. ns2[c[k]].next = d[k + 1]
      <4>1. CASE k = N
        BY <4>1, <2>2, <1>5, <1>2, ZenonT(40)
      <4>2. CASE k # N
        <5>1. k + 1 \in 1 .. N
          BY <4>2, <2>2, <1>1
        <5> QED BY <5>1, <4>2, <2>2, <1>5, <1>2, ZenonT(40)
      <4> QED BY <4>1, <4>2, ZenonT(40)
    <3>3. ns2[c[k]].prev = IF k = 1 THEN NULL ELSE d[k - 1]
      <4>1. CASE k = 1
        BY <4>1, <2>2, <1>5, <1>1, SMTT(30)
      <4>2. CASE k # 1
        <5>1. k - 1 \in 1 .. N
          BY <4>2, <2>2, <1>1
        <5> QED BY <5>1, <4>2, <2>2, <1>5, <1>1, <1>2, ZenonT(40)
      <4> QED BY <4>1, <4>2, ZenonT(40)
    <3> QED BY <3>1, <3>2, <3>3, ZenonT(40)
  <2> QED BY <2>1, <2>2, <1>7, Zenon
<1>9. \A k, j \in 1 .. N + 1 : d[k] = d[j] => k = j
  <2>1. SUFFICES ASSUME NEW k \in 1 .. N + 1, NEW j \in 1 .. N + 1, d[k] = d[j] PROVE k = j
    BY Zenon
  <2>2. CASE k \in 1 .. N /\ j \in 1 .. N
    BY <2>1, <2>2, <1>1, <1>2
  <2>3. CASE k = N + 1 /\ j \in 1 .. N
    BY <2>1, <2>3, <1>1, <1>2, ZenonT(40)
  <2>4. CASE k \in 1 .. N /\ j = N + 1
    BY <2>1, <2>4, <1>1, <1>2, SMTT(30)
  <2> QED BY <2>2, <2>3, <2>4, <1>7, ZenonT(40)
<1>10. ListHolds(ns2, T!AppendedTo(l, n), d)
  <2>1. T!AppendedTo(l, n) = [head |-> IF d = <<>> THEN NULL ELSE d[1],
                              tail |-> IF d = <<>> THEN NULL ELSE d[Len(d)], length |-> Len(d)]
    BY <1>2, <1>4, Zenon
  <2> QED BY <2>1, <1>2, <1>8, <1>9, ZenonT(40) DEF ListHolds
<1>11. Values(ns2, d, U \cup {t})
  <2>1. /\ \A k \in 1 .. N : ns[c[k]].value \in U
        /\ \A k, j \in 1 .. N : ns[c[k]].value = ns[c[j]].value => k = j
        /\ \A u \in U : \E k \in 1 .. N : ns[c[k]].value = u
    BY Zenon DEF Values, N
  <2>2. \A k \in 1 .. N : ns2[d[k]].value = ns[c[k]].value /\ k \in 1 .. N + 1
    BY <1>2, <1>5, ZenonT(40)
  <2>3. ns2[d[N + 1]].value = t /\ N + 1 \in 1 .. N + 1
    BY <1>1, <1>2, <1>6
  <2>4. \A k \in 1 .. N + 1 : ns2[d[k]].value \in U \cup {t}
    BY <2>1, <2>2, <2>3, <1>7, ZenonT(40)
  <2>5. ASSUME NEW k \in 1 .. N + 1, NEW j \in 1 .. N + 1, ns2[d[k]].value = ns2[d[j]].value
        PROVE  k = j
    <3>1. CASE k \in 1 .. N /\ j \in 1 .. N
      BY <3>1, <2>1, <2>2, <2>5, ZenonT(40)
    <3>2. CASE k = N + 1 /\ j \in 1 .. N
      BY <3>2, <2>1, <2>2, <2>3, <2>5, ZenonT(40)
    <3>3. CASE k \in 1 .. N /\ j = N + 1
      BY <3>3, <2>1, <2>2, <2>3, <2>5
    <3> QED BY <3>1, <3>2, <3>3, <1>7
  <2>6. \A u \in U \cup {t} : \E k \in 1 .. N + 1 : ns2[d[k]].value = u
    BY <2>1, <2>2, <2>3, ZenonT(40)
  <2> QED BY <2>4, <2>5, <2>6, <1>2, Zenon DEF Values
<1> QED BY <1>10, <1>11, ZenonT(40) DEF d

(* The list nodes after list_delete, pointer by pointer.                    *)
DeleteTo(ns, n, ns2) ==
    \A x \in ListNodes \ {n} :
       /\ ns2[x].next = IF x = ns[n].prev THEN ns[n].next ELSE ns[x].next
       /\ ns2[x].prev = IF x = ns[n].next THEN ns[n].prev ELSE ns[x].prev
       /\ ns2[x].value = ns[x].value

(* list_delete on the k-th node: first, last, between others or the only    *)
(* one.                                                                     *)
LEMMA DeleteHolds ==
    ASSUME NEW ns \in [ListNodes -> NodeT], NEW l, NEW c, NEW U, ListHolds(ns, l, c),
           Values(ns, c, U), NEW k \in 1 .. Len(c), NEW ns2, DeleteTo(ns, c[k], ns2)
    PROVE  /\ ListHolds(ns2, T!DeletedFrom(ns, l, c[k]), Without(c, k))
           /\ Values(ns2, Without(c, k), U \ {ns[c[k]].value})
<1> DEFINE d == Without(c, k)  N == Len(c)  n == c[k]  l2 == T!DeletedFrom(ns, l, n)
           up(j) == IF j < k THEN j ELSE j + 1
<1>1. /\ c \in Seq(ListNodes) /\ N \in Nat /\ k \in 1 .. N /\ N # 0
      /\ l = [head |-> c[1], tail |-> c[N], length |-> N]
      /\ \A j \in 1 .. N : /\ ns[c[j]].next = IF j = N THEN NULL ELSE c[j + 1]
                           /\ ns[c[j]].prev = IF j = 1 THEN NULL ELSE c[j - 1]
      /\ \A i, j \in 1 .. N : c[i] = c[j] => i = j
      /\ \A j \in 1 .. N : c[j] \in ListNodes /\ c[j] # NULL
  <2> HIDE DEF d, n, l2, up
  <2>1. c \in Seq(ListNodes)
    BY Zenon DEF ListHolds
  <2>2. c # <<>> /\ N \in Nat /\ k \in 1 .. N /\ N # 0 /\ \A j \in 1 .. N : c[j] \in ListNodes
    BY <2>1
  <2>3. NULL \notin ListNodes
    BY HeapAssumption
  <2>4. \A j \in 1 .. N : c[j] \in ListNodes /\ c[j] # NULL
    BY <2>2, <2>3, Zenon
  <2>5. l = [head |-> c[1], tail |-> c[N], length |-> N]
    BY <2>2, Zenon DEF ListHolds
  <2>6. \A i, j \in 1 .. N : c[i] = c[j] => i = j
    BY Zenon DEF ListHolds
  <2>7. \A j \in 1 .. N : /\ ns[c[j]].next = IF j = N THEN NULL ELSE c[j + 1]
                         /\ ns[c[j]].prev = IF j = 1 THEN NULL ELSE c[j - 1]
    BY Zenon DEF ListHolds
  <2> QED BY <2>1, <2>2, <2>4, <2>5, <2>6, <2>7, ZenonT(40)
<1>2. /\ d \in Seq(ListNodes) /\ Len(d) = N - 1
      /\ \A j \in 1 .. N - 1 : d[j] = IF j < k THEN c[j] ELSE c[j + 1]
  BY <1>1, RemovedAt, ZenonT(40)
<1>a. n = c[k] /\ DeleteTo(ns, n, ns2)
  OBVIOUS
<1> HIDE DEF d, N, n
<1>3. \A j \in 1 .. N - 1 : up(j) \in 1 .. N /\ up(j) # k /\ d[j] = c[up(j)]
  <2>1. N \in Nat /\ k \in 1 .. N
    BY <1>1, Zenon
  <2>2. \A j \in 1 .. N - 1 : up(j) \in 1 .. N /\ up(j) # k
    BY <2>1
  <2>3. \A j \in 1 .. N - 1 : d[j] = c[up(j)]
    BY <1>2
  <2> QED BY <2>2, <2>3, Zenon
<1>4. ns[n].prev = (IF k = 1 THEN NULL ELSE c[k - 1]) /\ ns[n].next = (IF k = N THEN NULL ELSE c[k + 1])
  BY <1>1, <1>a, SMTT(30)
<1>5. ASSUME NEW j \in 1 .. N, j # k
      PROVE  /\ ns2[c[j]].next = IF j = k - 1 THEN ns[n].next ELSE ns[c[j]].next
             /\ ns2[c[j]].prev = IF j = k + 1 THEN ns[n].prev ELSE ns[c[j]].prev
             /\ ns2[c[j]].value = ns[c[j]].value
  <2>1. c[j] \in ListNodes \ {n} /\ c[j] # NULL
    BY <1>5, <1>1, <1>a, Zenon
  <2>2. c[j] = ns[n].prev <=> j = k - 1
    <3>1. CASE k = 1
      BY <3>1, <2>1, <1>4, <1>1
    <3>2. CASE k # 1
      <4>1. k - 1 \in 1 .. N
        BY <3>2, <1>1
      <4> QED BY <3>2, <4>1, <1>1, <1>4, ZenonT(40)
    <3> QED BY <3>1, <3>2, Zenon
  <2>3. c[j] = ns[n].next <=> j = k + 1
    <3>1. CASE k = N
      BY <3>1, <2>1, <1>4, <1>1
    <3>2. CASE k # N
      <4>1. k + 1 \in 1 .. N
        BY <3>2, <1>1
      <4> QED BY <3>2, <4>1, <1>1, <1>4, ZenonT(40)
    <3> QED BY <3>1, <3>2, ZenonT(40)
  <2> QED BY <2>1, <2>2, <2>3, <1>a, Zenon DEF DeleteTo
<1>6. ASSUME NEW j \in 1 .. N - 1
      PROVE  ns2[d[j]].next = IF j = N - 1 THEN NULL ELSE d[j + 1]
  <2>1. CASE j < k - 1
    <3>1. up(j) = j /\ d[j] = c[j] /\ j \in 1 .. N /\ j # k /\ j # k - 1 /\ j # N /\ j + 1 \in 1 .. N - 1
          /\ j + 1 < k /\ j # N - 1
      <4>1. N \in Nat /\ k \in 1 .. N
        BY <1>1, Zenon
      <4>2. j < k /\ j \in 1 .. N /\ j # k /\ j # k - 1 /\ j # N /\ j + 1 \in 1 .. N - 1
            /\ j + 1 < k /\ j # N - 1
        BY <2>1, <4>1
      <4> QED BY <4>2, <1>2, ZenonT(40)
    <3>2. ns2[c[j]].next = c[j + 1]
      BY <3>1, <1>5, <1>1, Zenon
    <3> QED BY <3>1, <3>2, <1>2, ZenonT(40)
  <2>2. CASE j = k - 1
    <3>1. j < k /\ d[j] = c[j] /\ j \in 1 .. N /\ j # k
      BY <2>2, <1>1, <1>2
    <3>2. ns2[c[j]].next = IF k = N THEN NULL ELSE c[k + 1]
      BY <3>1, <2>2, <1>4, <1>5, ZenonT(40)
    <3>3. k # N => j # N - 1 /\ j + 1 \in 1 .. N - 1 /\ ~(j + 1 < k) /\ (j + 1) + 1 = k + 1
      BY <2>2, <1>1
    <3>4. k # N => d[j + 1] = c[k + 1]
      BY <3>3, <1>2
    <3>5. k = N => j = N - 1
      BY <2>2, <1>1, ZenonT(40)
    <3> QED BY <3>1, <3>2, <3>3, <3>4, <3>5, ZenonT(40)
  <2>3. CASE ~(j < k)
    <3>1. d[j] = c[j + 1] /\ j + 1 \in 1 .. N /\ j + 1 # k /\ j + 1 # k - 1
      BY <2>3, <1>1, <1>2
    <3>2. ns2[c[j + 1]].next = IF j + 1 = N THEN NULL ELSE c[(j + 1) + 1]
      BY <3>1, <1>5, <1>1, ZenonT(40)
    <3>3. j # N - 1 => j + 1 \in 1 .. N - 1 /\ ~(j + 1 < k)
      BY <2>3, <1>1
    <3>4. j # N - 1 => d[j + 1] = c[(j + 1) + 1]
      BY <3>3, <1>2, ZenonT(40)
    <3>5. j = N - 1 <=> j + 1 = N
      BY <1>1
    <3> QED BY <3>1, <3>2, <3>4, <3>5, ZenonT(40)
  <2> QED BY <2>1, <2>2, <2>3, <1>1
<1>7. ASSUME NEW j \in 1 .. N - 1
      PROVE  ns2[d[j]].prev = IF j = 1 THEN NULL ELSE d[j - 1]
  <2>1. CASE j < k
    <3>1. d[j] = c[j] /\ j \in 1 .. N /\ j # k /\ j # k + 1
      BY <2>1, <1>1, <1>2, SMTT(30)
    <3>2. ns2[c[j]].prev = IF j = 1 THEN NULL ELSE c[j - 1]
      BY <3>1, <1>5, <1>1, ZenonT(40)
    <3>3. j # 1 => j - 1 \in 1 .. N - 1 /\ j - 1 < k
      BY <2>1, <1>1
    <3>4. j # 1 => d[j - 1] = c[j - 1]
      BY <3>3, <1>2, ZenonT(40)
    <3> QED BY <3>1, <3>2, <3>4, ZenonT(40)
  <2>2. CASE j = k
    <3>1. d[j] = c[j + 1] /\ j + 1 \in 1 .. N /\ j + 1 # k /\ j + 1 = k + 1
      BY <2>2, <1>1, <1>2
    <3>2. ns2[c[j + 1]].prev = IF k = 1 THEN NULL ELSE c[k - 1]
      BY <3>1, <1>5, <1>4, ZenonT(40)
    <3>3. k # 1 => j - 1 \in 1 .. N - 1 /\ j - 1 < k
      BY <2>2, <1>1
    <3>4. k # 1 => d[j - 1] = c[k - 1]
      BY <3>3, <1>2, <2>2, Zenon
    <3> QED BY <3>1, <3>2, <3>4, <2>2, ZenonT(40)
  <2>3. CASE j > k
    <3>0. N \in Nat /\ k \in 1 .. N
      BY <1>1, Zenon
    <3>1. d[j] = c[j + 1] /\ j + 1 \in 1 .. N /\ j + 1 # k /\ j + 1 # k + 1 /\ j # 1 /\ j + 1 # 1
      <4>1. ~(j < k) /\ j + 1 \in 1 .. N /\ j + 1 # k /\ j + 1 # k + 1 /\ j # 1 /\ j + 1 # 1
        BY <2>3, <3>0
      <4> QED BY <4>1, <1>2, ZenonT(40)
    <3>2. ns2[c[j + 1]].prev = c[(j + 1) - 1]
      BY <3>1, <1>5, <1>1, ZenonT(40)
    <3>3. j - 1 \in 1 .. N - 1 /\ ~(j - 1 < k) /\ (j - 1) + 1 = (j + 1) - 1
      BY <2>3, <1>1
    <3>4. d[j - 1] = c[(j - 1) + 1]
      BY <3>3, <1>2
    <3> QED BY <3>1, <3>2, <3>3, <3>4, ZenonT(40)
  <2> QED BY <2>1, <2>2, <2>3, <1>1
<1>8. ASSUME NEW i \in 1 .. N - 1, NEW j \in 1 .. N - 1, up(i) = up(j) PROVE i = j
  <2>1. i \in Int /\ j \in Int /\ k \in Int
    BY <1>1
  <2>2. CASE i < k /\ j < k
    BY <1>8, <2>1, <2>2, ZenonT(40)
  <2>3. CASE i < k /\ ~(j < k)
    BY <1>8, <2>1, <2>3
  <2>4. CASE ~(i < k) /\ j < k
    BY <1>8, <2>1, <2>4
  <2>5. CASE ~(i < k) /\ ~(j < k)
    BY <1>8, <2>1, <2>5
  <2> QED BY <2>2, <2>3, <2>4, <2>5, ZenonT(40)
<1>9. ASSUME NEW i \in 1 .. N - 1, NEW j \in 1 .. N - 1, d[i] = d[j] PROVE i = j
  <2> HIDE DEF up
  <2>1. up(i) = up(j)
    <3>1. up(i) \in 1 .. N /\ up(j) \in 1 .. N /\ c[up(i)] = c[up(j)]
      BY <1>9, <1>3
    <3> QED BY <3>1, <1>1, SMTT(30)
  <2> QED BY <2>1, <1>8, ZenonT(40)
<1>10. l2 = [head |-> IF d = <<>> THEN NULL ELSE d[1],
             tail |-> IF d = <<>> THEN NULL ELSE d[Len(d)], length |-> Len(d)]
  <2>1. l2 = [head |-> IF n = c[1] THEN ns[n].next ELSE c[1],
              tail |-> IF n = c[N] THEN ns[n].prev ELSE c[N], length |-> N - 1]
    BY <1>1, ZenonT(40) DEF T!DeletedFrom
  <2>2. n = c[1] <=> k = 1
    BY <1>1, <1>a
  <2>3. n = c[N] <=> k = N
    BY <1>1, <1>a
  <2>4. CASE N = 1
    <3>1. k = 1 /\ k = N
      BY <2>4, <1>1
    <3>2. d = <<>> /\ Len(d) = N - 1
      BY <2>4, <1>2
    <3> QED BY <2>1, <2>2, <2>3, <1>4, <3>1, <3>2, ZenonT(40)
  <2>5. CASE N # 1
    <3>1. d # <<>> /\ 1 \in 1 .. N - 1 /\ N - 1 \in 1 .. N - 1
      BY <2>5, <1>1, <1>2
    <3>2. (IF k = 1 THEN ns[n].next ELSE c[1]) = d[1]
      BY <3>1, <2>5, <1>1, <1>2, <1>4, SMTT(30)
    <3>3. (IF k = N THEN ns[n].prev ELSE c[N]) = d[N - 1]
      <4>1. CASE k = N
        BY <4>1, <3>1, <2>5, <1>1, <1>2, <1>4
      <4>2. CASE k # N
        <5>1. ~(N - 1 < k) /\ (N - 1) + 1 = N
          BY <4>2, <1>1
        <5>2. d[N - 1] = c[N]
          BY <5>1, <3>1, <1>2, ZenonT(40)
        <5> QED BY <5>2, <4>2, ZenonT(40)
      <4> QED BY <4>1, <4>2, ZenonT(40)
    <3> QED BY <2>1, <2>2, <2>3, <3>1, <3>2, <3>3, <1>2, ZenonT(40)
  <2> QED BY <2>4, <2>5, ZenonT(40)
<1>11. ListHolds(ns2, l2, d)
  <2> HIDE DEF l2, up
  <2> QED BY <1>2, <1>6, <1>7, <1>9, <1>10, ZenonT(40) DEF ListHolds
<1>12. Values(ns2, d, U \ {ns[n].value})
  <2>1. /\ \A j \in 1 .. N : ns[c[j]].value \in U
        /\ \A i, j \in 1 .. N : ns[c[i]].value = ns[c[j]].value => i = j
        /\ \A u \in U : \E j \in 1 .. N : ns[c[j]].value = u
    BY Zenon DEF Values, N
  <2>2. \A j \in 1 .. N - 1 : ns2[d[j]].value = ns[c[up(j)]].value
    <3> HIDE DEF up
    <3> QED BY <1>3, <1>5, ZenonT(40)
  <2>3. ASSUME NEW j \in 1 .. N - 1 PROVE ns2[d[j]].value \in U \ {ns[n].value}
    <3> HIDE DEF up
    <3>1. up(j) \in 1 .. N /\ up(j) # k /\ ns2[d[j]].value = ns[c[up(j)]].value
      BY <2>2, <1>3, ZenonT(40)
    <3>2. ns[c[up(j)]].value # ns[c[k]].value /\ ns[c[up(j)]].value \in U
      BY <3>1, <2>1, <1>1, ZenonT(40)
    <3> QED BY <3>1, <3>2, <1>a, ZenonT(40)
  <2>4. ASSUME NEW i \in 1 .. N - 1, NEW j \in 1 .. N - 1, ns2[d[i]].value = ns2[d[j]].value
        PROVE  i = j
    <3> HIDE DEF up
    <3>1. up(i) \in 1 .. N /\ up(j) \in 1 .. N /\ ns[c[up(i)]].value = ns[c[up(j)]].value
      BY <2>2, <2>4, <1>3, Zenon
    <3>2. up(i) = up(j)
      BY <3>1, <2>1, ZenonT(40)
    <3> QED BY <3>2, <1>8
  <2>5. ASSUME NEW u \in U \ {ns[n].value} PROVE \E j \in 1 .. N - 1 : ns2[d[j]].value = u
    <3>1. PICK j \in 1 .. N : ns[c[j]].value = u
      BY <2>1, Zenon
    <3>2. j # k
      BY <3>1, <1>a, Zenon
    <3>3. CASE j < k
      <4>1. j \in 1 .. N - 1 /\ up(j) = j
        BY <3>3, <1>1
      <4> QED BY <4>1, <2>2, <3>1, ZenonT(40)
    <3>4. CASE j > k
      <4>1. j - 1 \in 1 .. N - 1 /\ up(j - 1) = j
        BY <3>4, <1>1
      <4> QED BY <4>1, <2>2, <3>1, ZenonT(40)
    <3>5. j \in Int /\ k \in Int
      BY <1>1
    <3> QED BY <3>2, <3>3, <3>4, <3>5
  <2> QED BY <2>3, <2>4, <2>5, <1>2, Zenon DEF Values
<1> QED BY <1>11, <1>12, Zenon DEF d, n

LEMMA AppendedNode ==
    ASSUME NEW ns \in [ListNodes -> NodeT], NEW l, l.tail \in ListNodes \cup {NULL},
           NEW n \in ListNodes, NEW t \in All, l.tail # n
    PROVE  /\ T!AppendedNodes(ns, l, n, t) \in [ListNodes -> NodeT]
           /\ AppendTo(ns, l, n, t, T!AppendedNodes(ns, l, n, t))
<1> DEFINE a == [ns EXCEPT ![n] = [next |-> NULL, prev |-> l.tail, value |-> t]]
           ns2 == T!AppendedNodes(ns, l, n, t)
<1>1. [next |-> NULL, prev |-> l.tail, value |-> t] \in NodeT
  BY DEF NodeT
<1>2. /\ a \in [ListNodes -> NodeT] /\ a[n] = [next |-> NULL, prev |-> l.tail, value |-> t]
      /\ \A x \in ListNodes : x # n => a[x] = ns[x]
  BY <1>1
<1>3. ns2 = IF l.tail = NULL THEN a ELSE [a EXCEPT ![l.tail].next = n]
  BY DEF T!AppendedNodes, T!SetNext
<1> HIDE DEF a, ns2
<1>4. CASE l.tail = NULL
  BY <1>2, <1>3, <1>4, HeapAssumption, Zenon DEF ns2, AppendTo
<1>5. CASE l.tail # NULL
  <2>1. l.tail \in ListNodes /\ a[l.tail] = ns[l.tail]
    BY <1>2, <1>5
  <2>2. [a[l.tail] EXCEPT !.next = n] \in NodeT
    BY <2>1, <1>2 DEF NodeT
  <2>3. ns2 = [a EXCEPT ![l.tail] = [a[l.tail] EXCEPT !.next = n]]
    BY <1>3, <1>5, <2>1, <1>2, Zenon
  <2>4. ns2 \in [ListNodes -> NodeT] /\ ns2[l.tail] = [a[l.tail] EXCEPT !.next = n]
        /\ \A x \in ListNodes : x # l.tail => ns2[x] = a[x]
    BY <2>1, <2>2, <2>3, <1>2, ZenonT(40)
  <2> QED BY <2>1, <2>4, <1>2, ZenonT(40) DEF ns2, AppendTo
<1> QED BY <1>4, <1>5, Zenon

(* tree_insert adds the process behind the others, in a fresh list node.    *)
LEMMA InsertHolds ==
    ASSUME NEW m, NEW c, NEW U, TreeHolds(m, c, U), NEW t \in All, t \notin U, m.fresh # {}
    PROVE  /\ \E c2 : TreeHolds(T!tree_insert(m, t), c2, U \cup {t})
           /\ \E n \in m.fresh : T!tree_insert(m, t).fresh = m.fresh \ {n}
<1> DEFINE n == CHOOSE b \in m.fresh : TRUE
           l == m.list[Idle]
           ns2 == T!AppendedNodes(m.node, l, n, t)
           l2 == T!AppendedTo(l, n)
           ls2 == [[m.list EXCEPT ![t] = T!Empty] EXCEPT ![Idle] = l2]
           m2 == T!tree_insert(m, t)
           d == Append(c, n)
<1>1. /\ m \in TreeMemory /\ U \subseteq All /\ Idle \in U /\ m.used = U /\ m.nodes = Cardinality(U)
      /\ m.parent[Idle] = NULL /\ \A u \in U \ {Idle} : m.parent[u] = Idle
      /\ \A u \in All \ {Idle} : m.list[u] = T!Empty
      /\ ListHolds(m.node, l, c) /\ Values(m.node, c, U \ {Idle})
      /\ \A k \in 1 .. Len(c) : c[k] \notin m.fresh
  BY DEF TreeHolds
<1>2. /\ m.used \in SUBSET All /\ m.parent \in [All -> All \cup {NULL}] /\ m.nodes \in Int
      /\ m.fresh \in SUBSET ListNodes /\ m.list \in [All -> ListT] /\ m.node \in [ListNodes -> NodeT]
  BY <1>1 DEF TreeMemory
<1>3. n \in m.fresh /\ n \in ListNodes
  BY <1>2, ZenonT(40)
<1>4. t # Idle /\ Idle \in All
  BY <1>1
<1>5. m2 = [m EXCEPT !.fresh = m.fresh \ {n}, !.used = m.used \cup {t}, !.nodes = m.nodes + 1,
                     !.parent[t] = Idle, !.node = ns2, !.list = ls2]
  BY DEF T!tree_insert
<1> HIDE DEF n, l, ns2, l2, ls2, m2, d
<1>6. l.tail \in ListNodes \cup {NULL} /\ l.tail # n
  <2>1. CASE c = <<>>
    <3>1. l.tail = NULL
      BY <1>1, <2>1, ZenonT(40) DEF ListHolds
    <3> QED BY <3>1, <1>3, HeapAssumption, ZenonT(40)
  <2>2. CASE c # <<>>
    <3>1. l.tail = c[Len(c)] /\ c \in Seq(ListNodes)
      BY <1>1, <2>2, ZenonT(40) DEF ListHolds
    <3>2. Len(c) \in 1 .. Len(c)
      BY <3>1, <2>2
    <3> QED BY <3>1, <3>2, <1>1, <1>3
  <2> QED BY <2>1, <2>2, Zenon
<1>7. ns2 \in [ListNodes -> NodeT] /\ AppendTo(m.node, l, n, t, ns2)
  BY <1>2, <1>3, <1>6, AppendedNode, ZenonT(40) DEF ns2
<1>8. ListHolds(ns2, l2, d) /\ Values(ns2, d, (U \ {Idle}) \cup {t})
  <2>1. t \notin U \ {Idle} /\ \A k \in 1 .. Len(c) : c[k] # n
    BY <1>1, <1>3
  <2>2. /\ ListHolds(ns2, T!AppendedTo(l, n), Append(c, n))
        /\ Values(ns2, Append(c, n), (U \ {Idle}) \cup {t})
    BY <2>1, <1>1, <1>2, <1>3, <1>7, AppendHolds, ZenonT(40)
  <2> QED BY <2>2, ZenonT(40) DEF l2, d
<1>9. l2 \in ListT
  <2>1. d \in Seq(ListNodes) /\ Len(d) \in Int /\ (d # <<>> => d[1] \in ListNodes /\ d[Len(d)] \in ListNodes)
    <3>1. d \in Seq(ListNodes)
      BY <1>8, Zenon DEF ListHolds
    <3> QED BY <3>1
  <2>2. l2 = [head |-> IF d = <<>> THEN NULL ELSE d[1],
              tail |-> IF d = <<>> THEN NULL ELSE d[Len(d)], length |-> Len(d)]
    BY <1>8, ZenonT(40) DEF ListHolds
  <2> QED BY <2>1, <2>2, ZenonT(40) DEF ListT
<1>10. T!Empty \in ListT
  BY DEF T!Empty, ListT
<1>11. /\ ls2 \in [All -> ListT] /\ ls2[Idle] = l2
       /\ \A u \in All \ {Idle} : ls2[u] = T!Empty
  BY <1>1, <1>2, <1>4, <1>9, <1>10, ZenonT(40) DEF ls2
<1>12. /\ m2 \in TreeMemory /\ m2.fresh = m.fresh \ {n} /\ m2.used = m.used \cup {t}
       /\ m2.nodes = m.nodes + 1 /\ m2.parent = [m.parent EXCEPT ![t] = Idle]
       /\ m2.node = ns2 /\ m2.list = ls2
  <2> DEFINE x == m.nodes + 1
  <2>1. x \in Int
    BY <1>2
  <2>2. m2 = [m EXCEPT !.fresh = m.fresh \ {n}, !.used = m.used \cup {t}, !.nodes = x,
                       !.parent[t] = Idle, !.node = ns2, !.list = ls2]
    BY <1>5
  <2> HIDE DEF x
  <2>3. /\ m2 \in TreeMemory /\ m2.fresh = m.fresh \ {n} /\ m2.used = m.used \cup {t}
        /\ m2.nodes = x /\ m2.parent = [m.parent EXCEPT ![t] = Idle]
        /\ m2.node = ns2 /\ m2.list = ls2
    BY <2>1, <2>2, <1>1, <1>4, <1>7, <1>11, ZenonT(40) DEF TreeMemory
  <2> QED BY <2>3, ZenonT(40) DEF x
<1>13. Cardinality(U \cup {t}) = Cardinality(U) + 1
  <2>1. IsFiniteSet(U)
    BY <1>1, HeapAssumption, FS_Subset, Zenon
  <2> QED BY <2>1, FS_AddElement, Zenon
<1>14. \A k \in 1 .. Len(d) : d[k] \notin m2.fresh
  <2>1. c \in Seq(ListNodes)
    BY <1>1, Zenon DEF ListHolds
  <2>2. \A k \in 1 .. Len(d) : d[k] = n \/ (k \in 1 .. Len(c) /\ d[k] = c[k])
    BY <2>1, <1>3 DEF d
  <2> QED BY <2>2, <1>1, <1>12, Zenon
<1>15. (U \cup {t}) \ {Idle} = (U \ {Idle}) \cup {t}
  BY <1>4, ZenonT(40)
<1>16. m2.parent[Idle] = NULL /\ \A u \in (U \cup {t}) \ {Idle} : m2.parent[u] = Idle
  BY <1>1, <1>2, <1>4, <1>12
<1>17. TreeHolds(m2, d, U \cup {t})
  BY <1>1, <1>8, <1>11, <1>12, <1>13, <1>14, <1>15, <1>16, ZenonT(40) DEF TreeHolds
<1> QED BY <1>3, <1>12, <1>17, ZenonT(40) DEF m2

NextTo(ns, p, q, ns2) ==
    \A x \in ListNodes : /\ ns2[x].next = IF x = p THEN q ELSE ns[x].next
                         /\ ns2[x].prev = ns[x].prev
                         /\ ns2[x].value = ns[x].value

LEMMA SetNextFacts ==
    ASSUME NEW ns \in [ListNodes -> NodeT], NEW p \in ListNodes \cup {NULL},
           NEW q \in ListNodes \cup {NULL}
    PROVE  /\ T!SetNext(ns, p, q) \in [ListNodes -> NodeT]
           /\ NextTo(ns, p, q, T!SetNext(ns, p, q))
<1>1. CASE p = NULL
  BY <1>1, HeapAssumption, ZenonT(40) DEF T!SetNext, NextTo
<1>2. CASE p # NULL
  <2> DEFINE r == [ns[p] EXCEPT !.next = q]
  <2>1. p \in ListNodes /\ ns[p] \in NodeT
    BY <1>2
  <2>2. r \in NodeT /\ r.next = q /\ r.prev = ns[p].prev /\ r.value = ns[p].value
    BY <2>1 DEF NodeT
  <2>3. T!SetNext(ns, p, q) = [ns EXCEPT ![p] = r]
    BY <1>2, <2>1, Zenon DEF T!SetNext
  <2> HIDE DEF r
  <2> QED BY <2>1, <2>2, <2>3 DEF NextTo
<1> QED BY <1>1, <1>2

PrevTo(ns, p, q, ns2) ==
    \A x \in ListNodes : /\ ns2[x].prev = IF x = p THEN q ELSE ns[x].prev
                         /\ ns2[x].next = ns[x].next
                         /\ ns2[x].value = ns[x].value

LEMMA SetPrevFacts ==
    ASSUME NEW ns \in [ListNodes -> NodeT], NEW p \in ListNodes \cup {NULL},
           NEW q \in ListNodes \cup {NULL}
    PROVE  /\ T!SetPrev(ns, p, q) \in [ListNodes -> NodeT]
           /\ PrevTo(ns, p, q, T!SetPrev(ns, p, q))
<1>1. CASE p = NULL
  BY <1>1, HeapAssumption, Zenon DEF T!SetPrev, PrevTo
<1>2. CASE p # NULL
  <2> DEFINE r == [ns[p] EXCEPT !.prev = q]
  <2>1. p \in ListNodes /\ ns[p] \in NodeT
    BY <1>2
  <2>2. r \in NodeT /\ r.prev = q /\ r.next = ns[p].next /\ r.value = ns[p].value
    BY <2>1 DEF NodeT
  <2>3. T!SetPrev(ns, p, q) = [ns EXCEPT ![p] = r]
    BY <1>2, <2>1 DEF T!SetPrev
  <2> HIDE DEF r
  <2> QED BY <2>1, <2>2, <2>3, ZenonT(40) DEF PrevTo
<1> QED BY <1>1, <1>2

LEMMA DeletedNode ==
    ASSUME NEW ns \in [ListNodes -> NodeT], NEW n \in ListNodes
    PROVE  /\ T!DeletedNodes(ns, n) \in [ListNodes -> NodeT]
           /\ DeleteTo(ns, n, T!DeletedNodes(ns, n))
<1> DEFINE p == ns[n].prev  q == ns[n].next
           a == T!SetNext(ns, p, q)  b == T!SetPrev(a, q, p)
           r == [[b[n] EXCEPT !.next = NULL] EXCEPT !.prev = NULL]
           ns2 == T!DeletedNodes(ns, n)
<1>1. p \in ListNodes \cup {NULL} /\ q \in ListNodes \cup {NULL}
  BY DEF NodeT
<1> HIDE DEF p, q
<1>2. a \in [ListNodes -> NodeT] /\ NextTo(ns, p, q, a)
  BY <1>1, SetNextFacts, ZenonT(40)
<1> HIDE DEF a
<1>3. b \in [ListNodes -> NodeT] /\ PrevTo(a, q, p, b)
  BY <1>1, <1>2, SetPrevFacts
<1>4. ns2 = [b EXCEPT ![n].next = NULL, ![n].prev = NULL]
  BY DEF T!DeletedNodes, a, p, q
<1> HIDE DEF b, ns2
<1>5. r \in NodeT /\ [b[n] EXCEPT !.next = NULL] \in NodeT
  BY <1>3, Zenon DEF NodeT
<1>6. ns2 = [b EXCEPT ![n] = r]
  <2> DEFINE b1 == [b EXCEPT ![n] = [b[n] EXCEPT !.next = NULL]]
  <2>1. b1 \in [ListNodes -> NodeT] /\ b1[n] = [b[n] EXCEPT !.next = NULL]
    BY <1>3, <1>5
  <2>2. ns2 = [b1 EXCEPT ![n] = [b1[n] EXCEPT !.prev = NULL]]
    BY <1>4
  <2>3. ns2 = [b1 EXCEPT ![n] = r]
    BY <2>1, <2>2
  <2> HIDE DEF r
  <2> QED BY <2>3, <1>3, Zenon
<1> HIDE DEF r
<1>7. ns2 \in [ListNodes -> NodeT] /\ \A x \in ListNodes \ {n} : ns2[x] = b[x]
  BY <1>3, <1>5, <1>6, ZenonT(40)
<1>8. DeleteTo(ns, n, ns2)
  BY <1>2, <1>3, <1>7 DEF DeleteTo, NextTo, PrevTo, p, q
<1> QED BY <1>7, <1>8 DEF ns2

(* Merging the empty list of the process changes nothing.                   *)
LEMMA MergeNothing ==
    ASSUME NEW ns \in [ListNodes -> NodeT], NEW l, NEW c, ListHolds(ns, l, c)
    PROVE  T!MergedList(l, T!Empty) = l /\ T!MergedNodes(ns, l, T!Empty) = ns
<1>1. /\ c \in Seq(ListNodes)
      /\ l = [head |-> IF c = <<>> THEN NULL ELSE c[1],
              tail |-> IF c = <<>> THEN NULL ELSE c[Len(c)], length |-> Len(c)]
  BY DEF ListHolds
<1>2. /\ T!Empty.head = NULL /\ T!Empty.tail = NULL /\ T!Empty.length = 0
  BY Zenon DEF T!Empty
<1>3. T!MergedList(l, T!Empty) =
        [head |-> IF l.tail = NULL THEN NULL ELSE l.head, tail |-> l.tail, length |-> l.length + 0]
  BY <1>2, ZenonT(40) DEF T!MergedList
<1>4. T!MergedNodes(ns, l, T!Empty) = T!SetNext(ns, l.tail, NULL)
  BY <1>2 DEF T!MergedNodes
<1>5. CASE c = <<>>
  <2>1. l.tail = NULL /\ l.head = NULL /\ l.length = 0
    BY <1>1, <1>5
  <2> QED BY <2>1, <1>1, <1>3, <1>4, <1>5 DEF T!SetNext
<1>6. CASE c # <<>>
  <2>1. Len(c) \in 1 .. Len(c) /\ Len(c) \in Nat /\ c[Len(c)] \in ListNodes
    BY <1>1, <1>6
  <2>2. l.tail = c[Len(c)] /\ l.head = c[1] /\ l.length = Len(c) /\ c[Len(c)] # NULL
    BY <2>1, <1>1, <1>6, HeapAssumption, ZenonT(40)
  <2>3. T!MergedList(l, T!Empty) = l
    BY <2>1, <2>2, <1>1, <1>3, <1>6
  <2>4. ns[l.tail].next = NULL /\ ns[l.tail] \in NodeT /\ l.tail \in ListNodes /\ l.tail # NULL
    BY <2>1, <2>2 DEF ListHolds
  <2>5. [ns[l.tail] EXCEPT !.next = NULL] = ns[l.tail]
    BY <2>4 DEF NodeT
  <2>6. T!SetNext(ns, l.tail, NULL) = [ns EXCEPT ![l.tail] = [ns[l.tail] EXCEPT !.next = NULL]]
    BY <2>4 DEF T!SetNext
  <2>7. T!SetNext(ns, l.tail, NULL) = ns
    BY <2>4, <2>5, <2>6
  <2> QED BY <2>3, <2>7, <1>4, ZenonT(40)
<1> QED BY <1>5, <1>6, ZenonT(40)
--------------------------------------------------------------------------------
(* The loops through linked nodes.                                          *)
LEMMA NatLeast ==
    ASSUME NEW S \in SUBSET Nat, S # {}
    PROVE  \E n \in S : \A m \in S : n <= m
<1> DEFINE R == {ss \in Nat \X Nat : ss[1] < ss[2]}
<1>1. IsWellFoundedOn(R, Nat)
  BY NatLessThanWellFounded DEF OpToRel
<1>2. \E x \in S : \A y \in S : ~(<<y, x>> \in R)
  <2> HIDE DEF R
  <2> QED BY <1>1, WFMin, Zenon
<1>3. \A x, y \in Nat : x < y => <<x, y>> \in R
  OBVIOUS
<1>4. PICK n \in S : \A y \in S : ~(<<y, n>> \in R)
  BY <1>2
<1>5. \A y \in S : ~(y < n)
  <2> HIDE DEF R
  <2> QED BY <1>3, <1>4, ZenonT(40)
<1> QED BY <1>5

Padded(c, bound) == [k \in 1 .. bound |-> IF k <= Len(c) THEN c[k] ELSE NULL]

(* A walk over threaded nodes: what the recursive function computes, by the *)
(* least index at which it could differ.                                    *)
LEMMA WalkThreaded ==
    ASSUME NEW B, NULL \notin B, NEW c \in Seq(B), NEW first, NEW next, NEW N \in Nat,
           Threaded(c, first, next)
    PROVE  Walk(first, next, N) = Padded(c, N)
<1> DEFINE Eq(at) ==
             at = [k \in 1 .. N |->
                     IF k = 1 THEN first
                     ELSE IF at[k - 1] = NULL THEN NULL ELSE next[at[k - 1]]]
           f == Padded(c, N)
           w == Walk(first, next, N)
<1>1. Eq(f)
  <2>1. ASSUME NEW k \in 1 .. N
        PROVE  f[k] = IF k = 1 THEN first
                      ELSE IF f[k - 1] = NULL THEN NULL ELSE next[f[k - 1]]
    <3>1. CASE k = 1
      BY <3>1 DEF Padded, Threaded
    <3>2. CASE k # 1
      <4>1. k - 1 \in 1 .. N
        BY <3>2
      <4>2. CASE k - 1 > Len(c)
        BY <4>1, <4>2, <3>2 DEF Padded
      <4>3. CASE k - 1 <= Len(c)
        BY <4>1, <4>3, <3>2 DEF Padded, Threaded
      <4> QED BY <4>2, <4>3
    <3> QED BY <3>1, <3>2, Zenon
  <2>2. f = [k \in 1 .. N |-> f[k]]
    BY DEF Padded
  <2> HIDE DEF f
  <2> QED BY <2>1, <2>2, Zenon
<1>2. w = CHOOSE at : Eq(at)
  BY DEF Walk
<1>3. Eq(w)
  <2> HIDE DEF Eq, f, w
  <2> QED BY <1>1, <1>2
<1>4. ASSUME NEW k \in 1 .. N, w[k] # f[k] PROVE FALSE
  <2> DEFINE D == {j \in 1 .. N : w[j] # f[j]}
  <2>0. k \in D /\ D \in SUBSET Nat
    <3> HIDE DEF f, w
    <3> QED BY <1>4
  <2>1. PICK j \in D : \A i \in D : j <= i
    <3> HIDE DEF D
    <3> QED BY <2>0, NatLeast, Zenon
  <2> HIDE DEF f, w
  <2>2. w[j] = IF j = 1 THEN first ELSE IF w[j - 1] = NULL THEN NULL ELSE next[w[j - 1]]
    BY <1>3, ZenonT(40)
  <2>3. f[j] = IF j = 1 THEN first ELSE IF f[j - 1] = NULL THEN NULL ELSE next[f[j - 1]]
    BY <1>1
  <2>4. CASE j = 1
    BY <2>4, <2>2, <2>3, ZenonT(40)
  <2>5. CASE j # 1
    <3>1. j - 1 \in 1 .. N /\ j - 1 \notin D
      BY <2>5, <2>1
    <3> QED BY <3>1, <2>5, <2>2, <2>3, <2>1, ZenonT(40)
  <2> QED BY <2>4, <2>5
<1>5. w = [k \in 1 .. N |-> w[k]] /\ f = [k \in 1 .. N |-> f[k]]
  <2>1. f = [k \in 1 .. N |-> f[k]]
    BY DEF Padded
  <2> HIDE DEF w, f
  <2> QED BY <1>3, <2>1, ZenonT(40)
<1>6. \A k \in 1 .. N : w[k] = f[k]
  BY <1>4
<1>7. [k \in 1 .. N |-> w[k]] = [k \in 1 .. N |-> f[k]]
  <2> HIDE DEF w, f
  <2> QED BY <1>6
<1> HIDE DEF w, f
<1>8. w = f
  BY <1>5, <1>7
<1> QED BY <1>8 DEF w, f

(* So the loop visits exactly the threaded nodes, if the bound is not in    *)
(* its way.                                                                 *)
LEMMA AlongThreaded ==
    ASSUME NEW B, NULL \notin B, NEW c \in Seq(B), NEW first, NEW next, NEW N \in Nat,
           Threaded(c, first, next), Len(c) <= N
    PROVE  Along(first, next, N) = c
<1> DEFINE at == Walk(first, next, N)
<1>1. at = Padded(c, N)
  BY WalkThreaded
<1>2. \A k \in 1 .. N : at[k] = IF k <= Len(c) THEN c[k] ELSE NULL
  <2> HIDE DEF at
  <2> QED BY <1>1 DEF Padded
<1>3. Along(first, next, N) = [k \in {j \in 1 .. N : at[j] # NULL} |-> at[k]]
  BY DEF Along
<1> HIDE DEF at
<1>4. {j \in 1 .. N : at[j] # NULL} = 1 .. Len(c)
  BY <1>2
<1>5. \A k \in 1 .. Len(c) : at[k] = c[k]
  BY <1>2
<1>6. c = [k \in 1 .. Len(c) |-> c[k]]
  OBVIOUS
<1>7. [k \in 1 .. Len(c) |-> at[k]] = [k \in 1 .. Len(c) |-> c[k]]
  BY <1>5
<1> QED BY <1>3, <1>4, <1>6, <1>7, ZenonT(40)

(* The nodes of one queue are fewer than the bound of the walk.             *)
LEMMA ShortEnough ==
    ASSUME NEW c \in Seq(QueueNodes), \A k, l \in 1 .. Len(c) : c[k] = c[l] => k = l
    PROVE  Cardinality(QueueNodes) \in Nat /\ Len(c) <= Cardinality(QueueNodes)
<1>1. c \in Injection(1 .. Len(c), QueueNodes)
  <2>1. c \in [1 .. Len(c) -> QueueNodes]
    OBVIOUS
  <2> QED BY <2>1, ZenonT(40) DEF Injection, IsInjective
<1>2. Cardinality(1 .. Len(c)) = Len(c)
  BY FS_Interval
<1>3. Cardinality(1 .. Len(c)) <= Cardinality(QueueNodes)
  BY <1>1, FS_Injection, HeapAssumption
<1> QED BY <1>2, <1>3, FS_CardinalityType, HeapAssumption, ZenonT(40)

LEMMA ChainIs ==
    ASSUME NEW m, NEW i, NEW c, NEW s, OneHolds(m, i, c, s)
    PROVE  Q!Chain(m, i) = c
<1>0. c \in Seq(QueueNodes) /\ Threaded(c, m.front[i], m.next) /\ NULL \notin QueueNodes
  BY HeapAssumption DEF OneHolds
<1> DEFINE N == Cardinality(QueueNodes)
<1>a. N \in Nat /\ Len(c) <= N
  BY <1>0, ShortEnough, Zenon DEF OneHolds
<1> HIDE DEF N
<1>b. Along(m.front[i], m.next, N) = c
  BY <1>0, <1>a, AlongThreaded, ZenonT(40)
<1>1. Along(m.front[i], m.next, Cardinality(QueueNodes)) = c
  BY <1>b, Zenon DEF N
<1>2. Q!Along(m.front[i], m.next, Cardinality(QueueNodes)) =
      Along(m.front[i], m.next, Cardinality(QueueNodes))
  BY DEF Along, Walk, Q!Along, Q!Walk
<1>3. Q!Cardinality(QueueNodes) = Cardinality(QueueNodes)
  BY ZenonT(40) DEF Q!Cardinality, Cardinality
<1> QED BY <1>1, <1>2, <1>3 DEF Q!Chain

(* The invariant says what SoundQueues says.                                *)
LEMMA HoldsSound ==
    ASSUME NEW m, NEW c, NEW qs, Holds(m, c, qs)
    PROVE  SoundQueues(m, qs)
<1>1. ASSUME NEW i \in Priorities
      PROVE  /\ Q!Chain(m, i) = c[i]
             /\ Q!WellLinked(m, i)
             /\ Q!Contents(m, i) = qs[i]
  <2>1. OneHolds(m, i, c[i], qs[i])
    BY DEF Holds
  <2>2. Q!Chain(m, i) = c[i]
    BY <2>1, ChainIs
  <2>3. m.lock[i] = FALSE
    BY ZenonT(40) DEF Holds, Memory
  <2>4. Q!WellLinked(m, i)
    BY <2>1, <2>2, <2>3 DEF OneHolds, Q!WellLinked
  <2>5. Q!Contents(m, i) = [k \in 1 .. Len(c[i]) |-> m.data[c[i][k]]]
    BY <2>2, <2>1 DEF OneHolds, Q!Contents
  <2>6. qs[i] = [k \in 1 .. Len(c[i]) |-> qs[i][k]]
    BY <2>1 DEF OneHolds
  <2>7. \A k \in 1 .. Len(c[i]) : m.data[c[i][k]] = qs[i][k]
    BY <2>1 DEF OneHolds
  <2>8. Q!Contents(m, i) = qs[i]
    BY <2>5, <2>6, <2>7, Zenon
  <2> QED BY <2>2, <2>4, <2>8
<1>2. m.heap = UNION {Range(Q!Chain(m, i)) : i \in Priorities}
  <2>1. ASSUME NEW i \in Priorities
        PROVE  Range(Q!Chain(m, i)) = {c[i][k] : k \in 1 .. Len(c[i])}
    <3>1. c[i] \in Seq(QueueNodes) /\ DOMAIN c[i] = 1 .. Len(c[i])
      BY DEF Holds
    <3> QED BY <1>1, <3>1, Zenon DEF Range
  <2>2. ASSUME NEW n \in m.heap
        PROVE  \E i \in Priorities : n \in Range(Q!Chain(m, i))
    BY <2>1, ZenonT(40) DEF Holds, Owned
  <2>3. ASSUME NEW i \in Priorities, NEW n \in Range(Q!Chain(m, i))
        PROVE  n \in m.heap
    BY <2>1, <2>3 DEF Holds, OneHolds
  <2> QED BY <2>2, <2>3, Zenon
<1> QED BY <1>1, <1>2, ZenonT(40) DEF SoundQueues

(* queue_remove finds the first node with the value and takes it out, which *)
(* leaves rear right where that is not the last node.                       *)
LEMMA RemoveHolds ==
    ASSUME NEW m, NEW c, NEW qs \in [Priorities -> Seq(All)], Holds(m, c, qs),
           NEW i \in Priorities, NEW o \in 1 .. Len(qs[i]) - 1,
           \A j, l \in 1 .. Len(qs[i]) : qs[i][j] = qs[i][l] => j = l
    PROVE  SoundQueues(Q!queue_remove(m, i, qs[i][o]), [qs EXCEPT ![i] = Without(@, o)])
<1> DEFINE d == c[i]  s == qs[i]  v == s[o]
           hits == {j \in 1 .. Len(d) : s[j] = v}
           k == CHOOSE j \in hits : \A l \in hits : j <= l
           m2 == Q!queue_remove(m, i, v)
<1>1. m \in Memory /\ OneHolds(m, i, d, s)
  BY ZenonT(40) DEF Holds
<1>2. /\ d \in Seq(QueueNodes) /\ s \in Seq(All) /\ Len(d) = Len(s)
      /\ \A j \in 1 .. Len(d) : m.data[d[j]] = s[j]
      /\ \A j \in 1 .. Len(d) : m.next[d[j]] = IF j = Len(d) THEN NULL ELSE d[j + 1]
      /\ m.front[i] = IF d = <<>> THEN NULL ELSE d[1]
      /\ m.count[i] = Len(d)
  <2> HIDE DEF d, s
  <2> QED BY <1>1 DEF OneHolds, Threaded
<1>3. Q!Chain(m, i) = d
  BY <1>1, ChainIs, ZenonT(40)
<1>4. o \in 1 .. Len(d) /\ o < Len(d) /\ \A j, l \in 1 .. Len(s) : s[j] = s[l] => j = l
  <2>1. o \in 1 .. Len(s) - 1
    OBVIOUS
  <2> HIDE DEF d
  <2> QED BY <2>1, <1>2
<1>5. k \in hits /\ \A l \in hits : k <= l
  <2>1. hits \in SUBSET Nat /\ o \in hits
    BY <1>4
  <2>2. \E j \in hits : \A l \in hits : j <= l
    <3> HIDE DEF hits
    <3> QED BY <2>1, NatLeast, ZenonT(40)
  <2> HIDE DEF hits
  <2> QED BY <2>2
<1>6. k \in 1 .. Len(d) /\ k < Len(d)
  <2>1. o \in hits
    BY <1>4
  <2>2. k <= o /\ k \in 1 .. Len(d)
    <3> HIDE DEF k
    <3> QED BY <1>5, <2>1, SMTT(30)
  <2> HIDE DEF k, d, hits
  <2> QED BY <2>2, <1>4, <1>2
<1>7. m2 = Q!kfree(IF k = 1 THEN [m EXCEPT !.front[i] = m.next[d[k]], !.count[i] = @ - 1]
                   ELSE [m EXCEPT !.next[d[k - 1]] = m.next[d[k]], !.count[i] = @ - 1],
                   d[k])
  <2>1. {j \in DOMAIN d : m.data[d[j]] = v} = hits
    <3> HIDE DEF d
    <3> QED BY <1>2
  <2>2. hits # {}
    <3> HIDE DEF k, hits
    <3> QED BY <1>5
  <2> DEFINE first(h) == CHOOSE j \in h : \A l \in h : j <= l
             Out(at, n) ==
               Q!kfree(IF n = 1 THEN [m EXCEPT !.front[i] = m.next[at[n]], !.count[i] = @ - 1]
                       ELSE [m EXCEPT !.next[at[n - 1]] = m.next[at[n]], !.count[i] = @ - 1],
                       at[n])
             Found(at, h) == IF h = {} THEN [m EXCEPT !.lock[i] = TRUE] ELSE Out(at, first(h))
             at1 == Q!Chain(m, i)
  <2>3. m2 = Found(at1, {j \in DOMAIN at1 : m.data[at1[j]] = v})
    BY ZenonT(40) DEF Q!queue_remove
  <2>4. m2 = Found(d, {j \in DOMAIN d : m.data[d[j]] = v})
    <3> HIDE DEF Found, d, m2
    <3> QED BY <2>3, <1>3
  <2>5. m2 = Found(d, hits)
    <3> HIDE DEF Found, d, m2, hits
    <3> QED BY <2>4, <2>1, ZenonT(40)
  <2>6. m2 = Out(d, first(hits))
    <3> HIDE DEF Out, d, m2, hits, first
    <3> QED BY <2>5, <2>2, ZenonT(40)
  <2> QED BY <2>6, Zenon
<1> HIDE DEF hits, k, m2, d, s, v
<1> DEFINE ma == IF k = 1 THEN [m EXCEPT !.front[i] = m.next[d[k]], !.count[i] = @ - 1]
                 ELSE [m EXCEPT !.next[d[k - 1]] = m.next[d[k]], !.count[i] = @ - 1]
<1>8. /\ d[k] \in QueueNodes /\ m.next[d[k]] \in QueueNodes /\ m.count[i] - 1 \in Int
      /\ k # 1 => d[k - 1] \in QueueNodes
  <2>1. d[k] \in QueueNodes /\ (k # 1 => d[k - 1] \in QueueNodes)
    BY <1>2, <1>6
  <2>2. m.next[d[k]] \in QueueNodes /\ m.count[i] - 1 \in Int
    BY <1>2, <1>6
  <2> QED BY <2>1, <2>2, ZenonT(40)
<1>9. /\ ma \in Memory
      /\ ma.front = IF k = 1 THEN [m.front EXCEPT ![i] = m.next[d[k]]] ELSE m.front
      /\ ma.rear = m.rear /\ ma.count = [m.count EXCEPT ![i] = m.count[i] - 1]
      /\ ma.heap = m.heap /\ ma.data = m.data
      /\ ma.next = IF k = 1 THEN m.next ELSE [m.next EXCEPT ![d[k - 1]] = m.next[d[k]]]
  <2> DEFINE n == m.count[i] - 1
             mb == IF k = 1 THEN [m EXCEPT !.front[i] = m.next[d[k]]]
                   ELSE [m EXCEPT !.next[d[k - 1]] = m.next[d[k]]]
  <2>1. /\ mb \in Memory /\ mb.front = IF k = 1 THEN [m.front EXCEPT ![i] = m.next[d[k]]] ELSE m.front
        /\ mb.rear = m.rear /\ mb.count = m.count /\ mb.heap = m.heap /\ mb.data = m.data
        /\ mb.next = IF k = 1 THEN m.next ELSE [m.next EXCEPT ![d[k - 1]] = m.next[d[k]]]
    <3>1. CASE k = 1
      BY <3>1, <1>1, <1>8, ZenonT(40) DEF Memory
    <3>2. CASE k # 1
      BY <3>2, <1>1, <1>8, ZenonT(40) DEF Memory
    <3> QED BY <3>1, <3>2, Zenon
  <2>2. ma = [mb EXCEPT !.count[i] = n]
    <3>1. CASE k = 1
      BY <3>1, <2>1, Zenon
    <3>2. CASE k # 1
      BY <3>2, <2>1, ZenonT(40)
    <3> QED BY <3>1, <3>2, Zenon
  <2>3. n \in Int
    BY <1>8, Zenon
  <2> HIDE DEF ma, mb, n
  <2>4. /\ ma \in Memory /\ ma.front = mb.front /\ ma.rear = mb.rear
        /\ ma.count = [mb.count EXCEPT ![i] = n] /\ ma.heap = mb.heap
        /\ ma.data = mb.data /\ ma.next = mb.next
    BY <2>1, <2>2, <2>3, CountFields, SMTT(30)
  <2> QED BY <2>1, <2>4 DEF n
<1>10. m2 \in Memory /\ FreeTo(ma, d[k], m2)
  <2>1. m2 = Q!kfree(ma, d[k])
    BY <1>7
  <2> HIDE DEF ma
  <2> QED BY <2>1, <1>8, <1>9, FreeFields, ZenonT(40)
<1> HIDE DEF ma
<1>11. UnlinkAt(m, i, d, k, m2)
  <2>1. Len(d) # 1
    BY <1>2, <1>6
  <2>2. m.rear = [m.rear EXCEPT ![i] = IF Len(d) = 1 THEN NULL ELSE @]
    BY <2>1, <1>1, ZenonT(30) DEF Memory
  <2> QED BY <2>2, <1>9, <1>10, ZenonT(40) DEF UnlinkAt, FreeTo
<1>12. PICK c2 : Holds(m2, c2, [qs EXCEPT ![i] = Without(@, k)])
  <2>1. k \in 1 .. Len(c[i]) /\ k < Len(c[i]) /\ UnlinkAt(m, i, c[i], k, m2)
    BY <1>6, <1>11, ZenonT(40) DEF d
  <2> QED BY <2>1, <1>10, UnlinkHolds, ZenonT(40)
<1>13. k = o
  BY <1>2, <1>4, <1>5, <1>6, ZenonT(40) DEF hits, v
<1>14. SoundQueues(m2, [qs EXCEPT ![i] = Without(@, k)])
  BY <1>12, HoldsSound, ZenonT(40)
<1> QED BY <1>13, <1>14, ZenonT(40) DEF m2, v, s

LEMMA ListLength ==
    ASSUME NEW c \in Seq(ListNodes), \A k, l \in 1 .. Len(c) : c[k] = c[l] => k = l
    PROVE  Cardinality(ListNodes) \in Nat /\ Len(c) <= Cardinality(ListNodes)
<1>1. c \in Injection(1 .. Len(c), ListNodes)
  BY DEF Injection, IsInjective
<1>2. Cardinality(1 .. Len(c)) = Len(c)
  BY FS_Interval
<1>3. Cardinality(1 .. Len(c)) <= Cardinality(ListNodes)
  BY <1>1, FS_Injection, HeapAssumption, ZenonT(40)
<1> QED BY <1>2, <1>3, FS_CardinalityType, HeapAssumption, ZenonT(40)

LEMMA NodesAre ==
    ASSUME NEW m, NEW l, NEW c, ListHolds(m.node, l, c)
    PROVE  T!Nodes(m, l) = c
<1> DEFINE nx == [n \in ListNodes |-> m.node[n].next]
<1>1. c \in Seq(ListNodes) /\ Cardinality(ListNodes) \in Nat /\ Len(c) <= Cardinality(ListNodes)
  BY ListLength, Zenon DEF ListHolds
<1>2. Threaded(c, l.head, nx)
  <2>1. l.head = IF c = <<>> THEN NULL ELSE c[1]
    BY ZenonT(40) DEF ListHolds
  <2>2. ASSUME NEW k \in 1 .. Len(c) PROVE nx[c[k]] = IF k = Len(c) THEN NULL ELSE c[k + 1]
    <3>1. c[k] \in ListNodes
      BY <1>1
    <3>2. nx[c[k]] = m.node[c[k]].next
      BY <3>1, Zenon
    <3> QED BY <3>2 DEF ListHolds
  <2> HIDE DEF nx
  <2> QED BY <2>1, <2>2, Zenon DEF Threaded
<1>3. Along(l.head, nx, Cardinality(ListNodes)) = c
  <2> HIDE DEF nx
  <2> QED BY <1>1, <1>2, AlongThreaded, HeapAssumption, ZenonT(40)
<1>4. T!Along(l.head, nx, Cardinality(ListNodes)) = Along(l.head, nx, Cardinality(ListNodes))
  BY Zenon DEF Along, Walk, T!Along, T!Walk
<1>5. T!Cardinality(ListNodes) = Cardinality(ListNodes)
  BY ZenonT(40) DEF T!Cardinality, Cardinality
<1> QED BY <1>3, <1>4, <1>5, ZenonT(40) DEF T!Nodes

LEMMA EmptyHolds ==
    ASSUME NEW m
    PROVE  T!Nodes(m, T!Empty) = <<>> /\ T!Items(m, T!Empty) = {}
<1>1. <<>> \in Seq(ListNodes) /\ Len(<<>>) = 0
  OBVIOUS
<1>2. ListHolds(m.node, T!Empty, <<>>)
  BY <1>1 DEF ListHolds, T!Empty
<1>3. T!Nodes(m, T!Empty) = <<>>
  BY <1>2, NodesAre, ZenonT(40)
<1> QED BY <1>3 DEF T!Items

LEMMA ItemsAre ==
    ASSUME NEW m, NEW l, NEW c, NEW U, ListHolds(m.node, l, c), Values(m.node, c, U)
    PROVE  T!Items(m, l) = U /\ Cardinality(U) = Len(c)
<1>1. T!Nodes(m, l) = c /\ c \in Seq(ListNodes)
  <2>1. T!Nodes(m, l) = c
    BY NodesAre, ZenonT(40)
  <2>2. c \in Seq(ListNodes)
    BY Zenon DEF ListHolds
  <2> QED BY <2>1, <2>2, Zenon
<1>2. T!Items(m, l) = {m.node[c[k]].value : k \in 1 .. Len(c)}
  BY <1>1 DEF T!Items
<1>3. {m.node[c[k]].value : k \in 1 .. Len(c)} = U
  BY DEF Values
<1> DEFINE f == [k \in 1 .. Len(c) |-> m.node[c[k]].value]
<1>4. f \in Bijection(1 .. Len(c), U)
  <2>1. f \in [1 .. Len(c) -> U]
    BY Zenon DEF Values
  <2>2. \A k, j \in 1 .. Len(c) : f[k] = f[j] => k = j
    BY ZenonT(40) DEF Values
  <2>3. \A t \in U : \E k \in 1 .. Len(c) : f[k] = t
    BY DEF Values
  <2> HIDE DEF f
  <2> QED BY <2>1, <2>2, <2>3, ZenonT(40) DEF Bijection, Injection, Surjection, IsInjective
<1>5. Cardinality(U) = Len(c)
  <2>1. ExistsBijection(1 .. Len(c), U) /\ Len(c) \in Nat
    BY <1>1, <1>4 DEF ExistsBijection
  <2> QED BY <2>1, FS_CountingElements, ZenonT(40)
<1> QED BY <1>2, <1>3, <1>5, ZenonT(40)

(* The invariant says what TreeSound says.                                  *)
LEMMA TreeHoldsSound ==
    ASSUME NEW m, NEW c, NEW U, TreeHolds(m, c, U)
    PROVE  T!TreeSound(m)
<1>1. /\ U \subseteq All /\ Idle \in U /\ m.used = U /\ m.nodes = Cardinality(U)
      /\ m.parent[Idle] = NULL /\ \A t \in U \ {Idle} : m.parent[t] = Idle
      /\ \A t \in All \ {Idle} : m.list[t] = T!Empty
      /\ ListHolds(m.node, m.list[Idle], c) /\ Values(m.node, c, U \ {Idle})
  BY Zenon DEF TreeHolds
<1>2. T!Nodes(m, m.list[Idle]) = c /\ T!Items(m, m.list[Idle]) = U \ {Idle}
      /\ Cardinality(U \ {Idle}) = Len(c)
  BY <1>1, NodesAre, ItemsAre, ZenonT(40)
<1>3. T!Cardinality(m.used) = Cardinality(m.used)
  BY DEF T!Cardinality, Cardinality
<1>4. T!Cardinality(U \ {Idle}) = Cardinality(U \ {Idle})
  BY DEF T!Cardinality, Cardinality
<1>5. T!Cardinality({}) = 0
  <2>1. T!Cardinality({}) = Cardinality({})
    BY Zenon DEF T!Cardinality, Cardinality
  <2> QED BY <2>1, FS_EmptySet, Zenon
<1>6. ASSUME NEW t \in U, t # Idle
      PROVE  /\ T!Nodes(m, m.list[t]) = <<>> /\ T!Items(m, m.list[t]) = {}
             /\ m.list[t].length = 0 /\ m.list[t].tail = NULL
             /\ {o \in U : m.parent[o] = t} = {}
  <2>1. m.list[t] = T!Empty
    BY <1>1, <1>6, ZenonT(40)
  <2>2. T!Nodes(m, m.list[t]) = <<>> /\ T!Items(m, m.list[t]) = {}
    BY <2>1, EmptyHolds, ZenonT(40)
  <2>3. m.list[t].length = 0 /\ m.list[t].tail = NULL
    BY <2>1 DEF T!Empty
  <2>4. \A o \in U : m.parent[o] # t
    BY <1>1, <1>6, HeapAssumption, ZenonT(40)
  <2> QED BY <2>2, <2>3, <2>4, ZenonT(40)
<1>7. T!ListsSound(m)
  <2>1. SUFFICES ASSUME NEW t \in U
                 PROVE  LET at == T!Nodes(m, m.list[t])
                        IN  /\ m.list[t].length = Len(at)
                            /\ \A k \in DOMAIN at : m.node[at[k]].prev = IF k = 1 THEN NULL ELSE at[k - 1]
                            /\ m.list[t].tail = IF at = <<>> THEN NULL ELSE at[Len(at)]
    BY <1>1, Zenon DEF T!ListsSound
  <2>2. CASE t = Idle
    <3>1. c \in Seq(ListNodes)
      BY <1>1, ZenonT(40) DEF ListHolds
    <3>2. m.list[Idle].length = Len(c) /\ m.list[Idle].tail = IF c = <<>> THEN NULL ELSE c[Len(c)]
      BY <1>1 DEF ListHolds
    <3>3. \A k \in DOMAIN c : m.node[c[k]].prev = IF k = 1 THEN NULL ELSE c[k - 1]
      BY <1>1, <3>1 DEF ListHolds
    <3> QED BY <2>2, <1>2, <3>2, <3>3, ZenonT(40)
  <2>3. CASE t # Idle
    <3>1. Len(<<>>) = 0 /\ DOMAIN <<>> = {}
      OBVIOUS
    <3> QED BY <2>3, <1>6, <3>1, ZenonT(40)
  <2> QED BY <2>2, <2>3, Zenon
<1>8. ASSUME NEW t \in U
      PROVE  /\ T!Items(m, m.list[t]) = {o \in U : m.parent[o] = t}
             /\ m.list[t].length = T!Cardinality(T!Items(m, m.list[t]))
             /\ t = Idle \/ m.parent[t] \in U
  <2>1. CASE t = Idle
    <3>1. {o \in U : m.parent[o] = Idle} = U \ {Idle}
      BY <1>1, HeapAssumption, ZenonT(40)
    <3>2. m.list[Idle].length = Len(c)
      BY <1>1 DEF ListHolds
    <3> QED BY <2>1, <3>1, <3>2, <1>2, <1>4, SMTT(30)
  <2>2. CASE t # Idle
    BY <2>2, <1>5, <1>6, <1>1, ZenonT(40)
  <2> QED BY <2>1, <2>2, ZenonT(40)
<1> QED BY <1>1, <1>3, <1>7, <1>8, ZenonT(40) DEF T!TreeSound

(* list_find on a list that holds the process.                              *)
LEMMA FindsNode ==
    ASSUME NEW m, NEW l, NEW c, NEW U, ListHolds(m.node, l, c), Values(m.node, c, U), NEW t \in U
    PROVE  \E k \in 1 .. Len(c) : m.node[c[k]].value = t /\ T!list_find(m, l, t) = c[k]
<1> DEFINE hits == {k \in DOMAIN c : m.node[c[k]].value = t}
           first == CHOOSE k \in hits : \A j \in hits : k <= j
<1>1. T!Nodes(m, l) = c /\ c \in Seq(ListNodes)
  <2>1. T!Nodes(m, l) = c
    BY NodesAre, Zenon
  <2>2. c \in Seq(ListNodes)
    BY ZenonT(40) DEF ListHolds
  <2> QED BY <2>1, <2>2, ZenonT(40)
<1>2. T!list_find(m, l, t) = IF hits = {} THEN NULL ELSE c[first]
  BY <1>1 DEF T!list_find
<1>3. PICK k \in 1 .. Len(c) : m.node[c[k]].value = t
  BY ZenonT(40) DEF Values
<1>4. k \in hits /\ hits \in SUBSET Nat
  BY <1>1, <1>3
<1>5. \E i \in hits : \A j \in hits : i <= j
  <2> HIDE DEF hits
  <2> QED BY <1>4, NatLeast
<1>6. first \in hits
  <2> HIDE DEF hits
  <2> QED BY <1>5, ZenonT(40)
<1>7. first \in 1 .. Len(c) /\ m.node[c[first]].value = t
  <2> HIDE DEF first
  <2> QED BY <1>1, <1>6
<1> HIDE DEF hits, first
<1> QED BY <1>2, <1>4, <1>7, ZenonT(40)

(* tree_remove takes the process out of the list of idle; it has no         *)
(* children that idle would adopt.                                          *)
LEMMA TreeRemoveHolds ==
    ASSUME NEW m, NEW c, NEW U, TreeHolds(m, c, U), NEW t \in U \ {Idle}
    PROVE  /\ \E c2 : TreeHolds(T!tree_remove(m, t), c2, U \ {t})
           /\ T!tree_remove(m, t).fresh = m.fresh
<1> DEFINE l == m.list[Idle]
           n == T!list_find(m, l, t)
           rest == T!DeletedFrom(m.node, l, n)
           ns2 == T!DeletedNodes(m.node, n)
           m2 == T!tree_remove(m, t)
<1>1. /\ m \in TreeMemory /\ U \subseteq All /\ Idle \in U /\ m.used = U /\ m.nodes = Cardinality(U)
      /\ m.parent[Idle] = NULL /\ \A u \in U \ {Idle} : m.parent[u] = Idle
      /\ \A u \in All \ {Idle} : m.list[u] = T!Empty
      /\ ListHolds(m.node, l, c) /\ Values(m.node, c, U \ {Idle})
      /\ \A k \in 1 .. Len(c) : c[k] \notin m.fresh
  BY Zenon DEF TreeHolds
<1>2. /\ m.used \in SUBSET All /\ m.parent \in [All -> All \cup {NULL}] /\ m.nodes \in Int
      /\ m.fresh \in SUBSET ListNodes /\ m.list \in [All -> ListT] /\ m.node \in [ListNodes -> NodeT]
      /\ t \in All /\ t # Idle /\ Idle \in All
  BY <1>1, Zenon DEF TreeMemory
<1>3. m.parent[t] = Idle /\ m.list[t] = T!Empty
  BY <1>1, <1>2, Zenon
<1>4. T!Adopted(m, t) = m.parent
  <2>1. T!Items(m, m.list[t]) = {}
    BY <1>3, EmptyHolds
  <2> QED BY <2>1, <1>2, ZenonT(40) DEF T!Adopted
<1>5. m2 = [m EXCEPT !.used = m.used \ {t}, !.nodes = m.nodes - 1, !.parent = m.parent,
                     !.list[Idle] = T!MergedList(rest, T!Empty),
                     !.node = T!MergedNodes(ns2, rest, T!Empty)]
  <2>1. m2 = [m EXCEPT !.used = m.used \ {t}, !.nodes = m.nodes - 1, !.parent = T!Adopted(m, t),
                !.list[m.parent[t]] =
                   T!MergedList(T!DeletedFrom(m.node, m.list[m.parent[t]],
                                  T!list_find(m, m.list[m.parent[t]], t)), m.list[t]),
                !.node =
                   T!MergedNodes(T!DeletedNodes(m.node, T!list_find(m, m.list[m.parent[t]], t)),
                     T!DeletedFrom(m.node, m.list[m.parent[t]],
                                  T!list_find(m, m.list[m.parent[t]], t)), m.list[t])]
    BY Zenon DEF T!tree_remove
  <2> QED BY <2>1, <1>3, <1>4, Zenon
<1> HIDE DEF l, n, rest, ns2, m2
<1>6. PICK k \in 1 .. Len(c) : m.node[c[k]].value = t /\ n = c[k]
  <2>1. ListHolds(m.node, l, c) /\ Values(m.node, c, U \ {Idle}) /\ t \in U \ {Idle}
    BY <1>1, ZenonT(40)
  <2>2. \E k \in 1 .. Len(c) : m.node[c[k]].value = t /\ T!list_find(m, l, t) = c[k]
    BY <2>1, FindsNode
  <2> QED BY <2>2, Zenon DEF n
<1> DEFINE d == Without(c, k)
<1>7. c \in Seq(ListNodes) /\ n \in ListNodes
  BY <1>1, <1>6 DEF ListHolds
<1>8. ns2 \in [ListNodes -> NodeT] /\ DeleteTo(m.node, c[k], ns2)
  BY <1>2, <1>6, <1>7, DeletedNode, ZenonT(40) DEF ns2
<1>9. ListHolds(ns2, rest, d) /\ Values(ns2, d, (U \ {Idle}) \ {t})
  <2>1. /\ ListHolds(ns2, T!DeletedFrom(m.node, l, c[k]), Without(c, k))
        /\ Values(ns2, Without(c, k), (U \ {Idle}) \ {m.node[c[k]].value})
    BY <1>1, <1>2, <1>8, DeleteHolds, ZenonT(40)
  <2> QED BY <2>1, <1>6, SMTT(30) DEF rest
<1>10. T!MergedList(rest, T!Empty) = rest /\ T!MergedNodes(ns2, rest, T!Empty) = ns2
  BY <1>8, <1>9, MergeNothing, ZenonT(40)
<1> HIDE DEF d
<1>11. rest \in ListT
  <2>1. d \in Seq(ListNodes) /\ Len(d) \in Int /\ (d # <<>> => d[1] \in ListNodes /\ d[Len(d)] \in ListNodes)
    BY <1>9 DEF ListHolds
  <2>2. rest = [head |-> IF d = <<>> THEN NULL ELSE d[1],
                tail |-> IF d = <<>> THEN NULL ELSE d[Len(d)], length |-> Len(d)]
    BY <1>9, Zenon DEF ListHolds
  <2> QED BY <2>1, <2>2, ZenonT(40) DEF ListT
<1>12. /\ m2 \in TreeMemory /\ m2.fresh = m.fresh /\ m2.used = m.used \ {t}
       /\ m2.nodes = m.nodes - 1 /\ m2.parent = m.parent
       /\ m2.node = ns2 /\ m2.list = [m.list EXCEPT ![Idle] = rest]
  <2> DEFINE x == m.nodes - 1
  <2>1. x \in Int
    BY <1>2
  <2>2. m2 = [m EXCEPT !.used = m.used \ {t}, !.nodes = x, !.parent = m.parent,
                       !.list[Idle] = rest, !.node = ns2]
    BY <1>5, <1>10
  <2> HIDE DEF x
  <2>3. /\ m2 \in TreeMemory /\ m2.fresh = m.fresh /\ m2.used = m.used \ {t}
        /\ m2.nodes = x /\ m2.parent = m.parent
        /\ m2.node = ns2 /\ m2.list = [m.list EXCEPT ![Idle] = rest]
    BY <2>1, <2>2, <1>1, <1>2, <1>8, <1>11, ZenonT(40) DEF TreeMemory
  <2> QED BY <2>3, ZenonT(40) DEF x
<1>13. Cardinality(U \ {t}) = Cardinality(U) - 1
  <2>1. IsFiniteSet(U)
    BY <1>1, HeapAssumption, FS_Subset, ZenonT(40)
  <2> QED BY <2>1, FS_RemoveElement, ZenonT(40)
<1>14. \A j \in 1 .. Len(d) : d[j] \notin m2.fresh
  <2>1. /\ Len(d) = Len(c) - 1 /\ \A j \in 1 .. Len(c) - 1 : d[j] = IF j < k THEN c[j] ELSE c[j + 1]
    BY <1>7, RemovedAt, ZenonT(40) DEF d
  <2>2. ASSUME NEW j \in 1 .. Len(d) PROVE \E i \in 1 .. Len(c) : d[j] = c[i]
    <3>1. j \in 1 .. Len(c) /\ j + 1 \in 1 .. Len(c)
      BY <2>1, <1>7
    <3> QED BY <3>1, <2>1, ZenonT(40)
  <2> QED BY <2>2, <1>1, <1>12, ZenonT(40)
<1>15. (U \ {t}) \ {Idle} = (U \ {Idle}) \ {t}
  BY Zenon
<1>16. /\ \A u \in All \ {Idle} : m2.list[u] = T!Empty
       /\ m2.list[Idle] = rest
  BY <1>1, <1>2, <1>12, ZenonT(40)
<1>17. TreeHolds(m2, d, U \ {t})
  BY <1>1, <1>2, <1>9, <1>12, <1>13, <1>14, <1>15, <1>16, ZenonT(40) DEF TreeHolds
<1> QED BY <1>12, <1>17, Zenon DEF m2
================================================================================
