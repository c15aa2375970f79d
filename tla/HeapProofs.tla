----------------------------- MODULE HeapProofs -----------------------------
(***************************************************************************)
(* The heap of heap.c for every arena size, alignment, header size, size   *)
(* classes and requests: the chunks always tile the arena, the free lists  *)
(* are exact, free neighbours are coalesced, and the heap implements the   *)
(* allocator its callers rely on.                                          *)
(***************************************************************************)
EXTENDS Heap, FiniteSetTheorems, TLAPS

\* The part of the assumption on the constants that is about numbers only.
LEMMA Consts ==
  /\ HeapSize \in Nat /\ HEADER_SIZE \in Nat /\ MIN_SIZE \in Nat /\ SizeofChunk \in Nat
  /\ HEADER_SIZE > 0 /\ MIN_SIZE > 0 /\ SizeofChunk = HEADER_SIZE + MIN_SIZE
  /\ g_first = 0 /\ second = SizeofChunk /\ g_last = HeapSize - SizeofChunk
  /\ g_first \in Int /\ second \in Int /\ g_last \in Int /\ second + SizeofChunk <= g_last
BY HeapAssumption DEF g_first, second, g_last

\* memory_chunk_slot is monotone: a larger chunk is never in a lower class.
LEMMA SlotMono ==
  ASSUME NEW a \in Int, NEW b \in Int, a <= b
  PROVE  /\ memory_chunk_slot(a) \in Int
         /\ memory_chunk_slot(b) \in Int
         /\ memory_chunk_slot(a) <= memory_chunk_slot(b)
<1> DEFINE S(x) == {n \in DOMAIN SlotFloor : SlotFloor[n] <= x}
<1>1. S(a) \in SUBSET S(b) /\ S(b) \in SUBSET DOMAIN SlotFloor
  BY HeapAssumption
<1>2. IsFiniteSet(S(b))
  BY <1>1, HeapAssumption, FS_Subset
<1>3. IsFiniteSet(S(a)) /\ Cardinality(S(a)) <= Cardinality(S(b))
  BY <1>1, <1>2, FS_Subset
<1>4. Cardinality(S(a)) \in Nat /\ Cardinality(S(b)) \in Nat
  BY <1>2, <1>3, FS_CardinalityType
<1> HIDE DEF S
<1>5. memory_chunk_slot(a) = Cardinality(S(a)) - 1 /\ memory_chunk_slot(b) = Cardinality(S(b)) - 1
  BY DEF memory_chunk_slot, S
<1> QED BY <1>3, <1>4, <1>5

\* A chunk that can hold the free-list links has a size class with a list.
LEMMA SlotRange ==
  ASSUME NEW a \in Int, MIN_SIZE <= a, a <= HeapSize
  PROVE  memory_chunk_slot(a) \in Slots
<1> DEFINE S == {n \in DOMAIN SlotFloor : SlotFloor[n] <= a}
<1>1. S \in SUBSET DOMAIN SlotFloor /\ {0} \in SUBSET S
  BY HeapAssumption
<1>2. IsFiniteSet(S)
  BY <1>1, HeapAssumption, FS_Subset
<1>3. Cardinality({0}) = 1 /\ Cardinality({0}) <= Cardinality(S) /\ Cardinality(S) \in Nat
  BY <1>1, <1>2, FS_Subset, FS_Singleton, FS_CardinalityType, Zenon
<1>4. memory_chunk_slot(a) = Cardinality(S) - 1
  BY DEF memory_chunk_slot
<1>5. memory_chunk_slot(a) <= memory_chunk_slot(HeapSize) /\ memory_chunk_slot(HeapSize) \in Int
  BY SlotMono, HeapAssumption
<1> HIDE DEF S
<1> QED BY <1>3, <1>4, <1>5, HeapAssumption DEF Slots

\* kmalloc's rounding never rounds below the size asked for or below MIN_SIZE.
LEMMA RoundedBound ==
  ASSUME NEW size \in Nat
  PROVE  Rounded(size) \in Int /\ size <= Rounded(size) /\ MIN_SIZE <= Rounded(size)
<1> DEFINE q == (size + ALIGN - 1) \div ALIGN
<1>1. q \in Int /\ q * ALIGN > size - 1 /\ q * ALIGN \in Int
  BY HeapAssumption
<1> HIDE DEF q
<1>2. Rounded(size) = IF q * ALIGN < MIN_SIZE THEN MIN_SIZE ELSE q * ALIGN
  BY DEF Rounded, q
<1> QED BY <1>1, <1>2, HeapAssumption

-----------------------------------------------------------------------------
\* Taking a chunk out of a list that holds it once leaves the others, once each.
LEMMA WithoutRange ==
  ASSUME NEW C, NEW s \in Seq(C), NEW c \in Range(s),
         \A i, j \in DOMAIN s : s[i] = s[j] => i = j
  PROVE  /\ Without(s, c) \in Seq(C)
         /\ Range(Without(s, c)) = Range(s) \ {c}
         /\ \A i, j \in DOMAIN Without(s, c) :
              Without(s, c)[i] = Without(s, c)[j] => i = j
<1> DEFINE k == CHOOSE i \in DOMAIN s : s[i] = c
           t == [j \in 1 .. Len(s) - 1 |-> IF j < k THEN s[j] ELSE s[j + 1]]
<1>1. k \in DOMAIN s /\ s[k] = c
  BY DEF Range
<1>2. Without(s, c) = t
  BY DEF Without
<1>3. DOMAIN s = 1 .. Len(s) /\ Len(s) \in Nat
  OBVIOUS
<1> HIDE DEF k
<1>4. t \in Seq(C) /\ DOMAIN t = 1 .. Len(s) - 1
  BY <1>1, <1>3
<1>5. \A i, j \in DOMAIN t : t[i] = t[j] => i = j
  BY <1>1, <1>3
<1>6. Range(t) \subseteq Range(s) \ {c}
  BY <1>1, <1>3 DEF Range
<1>7. ASSUME NEW x \in Range(s), x # c
      PROVE  x \in Range(t)
  <2>1. PICK i \in 1 .. Len(s) : s[i] = x
    BY <1>3 DEF Range
  <2>2. i # k
    BY <2>1, <1>1, <1>7
  <2>3. CASE i < k
    <3>1. i \in DOMAIN t /\ t[i] = x
      BY <2>1, <2>3, <1>1, <1>3
    <3> QED BY <3>1 DEF Range
  <2>4. CASE i > k
    <3>1. i - 1 \in DOMAIN t /\ t[i - 1] = x
      BY <2>1, <2>4, <1>1, <1>3
    <3> QED BY <3>1, Zenon DEF Range
  <2> QED BY <2>2, <2>3, <2>4, <1>1, <1>3
<1> QED BY <1>2, <1>4, <1>5, <1>6, <1>7

-----------------------------------------------------------------------------
\* push_free of a chunk that was on no list keeps the lists exact.
LEMMA PushExact ==
  ASSUME NEW C, NEW lists \in [Slots -> Seq(C)], NEW nx, NEW F, NEW c \in C, c \notin F,
         memory_chunk_slot(SizeIn(nx, c)) \in Slots, Exact(lists, nx, F)
  PROVE  /\ push_free(lists, c, SizeIn(nx, c)) \in [Slots -> Seq(C)]
         /\ Exact(push_free(lists, c, SizeIn(nx, c)), nx, F \cup {c})
<1> DEFINE k == memory_chunk_slot(SizeIn(nx, c))
           L == push_free(lists, c, SizeIn(nx, c))
           s == lists[k]
           t == <<c>> \o s
<1>1. L = [lists EXCEPT ![k] = t]
  BY DEF push_free
<1>2. k \in Slots /\ s \in Seq(C)
  OBVIOUS
<1>3. /\ Range(s) = {d \in F : memory_chunk_slot(SizeIn(nx, d)) = k}
      /\ \A i, j \in DOMAIN s : s[i] = s[j] => i = j
  BY <1>2 DEF Exact
<1> HIDE DEF k, L, s
<1>4. /\ t \in Seq(C) /\ DOMAIN t = 1 .. Len(s) + 1
      /\ t[1] = c /\ \A i \in 1 .. Len(s) : t[i + 1] = s[i]
      /\ \A i \in 2 .. Len(s) + 1 : i - 1 \in 1 .. Len(s) /\ t[i] = s[i - 1]
      /\ DOMAIN s = 1 .. Len(s) /\ Len(s) \in Nat
  BY <1>2
<1> HIDE DEF t
<1>5. Range(t) = Range(s) \cup {c}
  <2>1. ASSUME NEW i \in DOMAIN t PROVE t[i] \in Range(s) \cup {c}
    <3>1. CASE i = 1
      BY <3>1, <1>4
    <3>2. CASE i # 1
      <4>1. i - 1 \in DOMAIN s /\ t[i] = s[i - 1]
        BY <3>2, <1>4
      <4> QED BY <4>1 DEF Range
    <3> QED BY <3>1, <3>2
  <2>2. 1 \in DOMAIN t /\ t[1] = c
    BY <1>4
  <2>3. ASSUME NEW i \in DOMAIN s PROVE s[i] \in Range(t)
    <3>1. i + 1 \in DOMAIN t /\ t[i + 1] = s[i]
      BY <1>4
    <3> QED BY <3>1 DEF Range
  <2> QED BY <2>1, <2>2, <2>3, Zenon DEF Range
<1>6. c \notin Range(s)
  BY <1>3
<1>7. ASSUME NEW i \in DOMAIN t, NEW j \in DOMAIN t, t[i] = t[j] PROVE i = j
  <2>1. ASSUME NEW l \in DOMAIN t, l # 1
        PROVE  l - 1 \in DOMAIN s /\ t[l] = s[l - 1] /\ t[l] # c
    <3>1. l - 1 \in DOMAIN s /\ t[l] = s[l - 1]
      BY <2>1, <1>4
    <3> QED BY <3>1, <1>6 DEF Range
  <2>2. CASE i = 1 \/ j = 1
    BY <2>1, <2>2, <1>4, <1>7
  <2>3. CASE i # 1 /\ j # 1
    <3>1. i - 1 = j - 1
      BY <2>1, <2>3, <1>3, <1>7
    <3> QED BY <3>1, <1>4
  <2> QED BY <2>2, <2>3
<1>8. L \in [Slots -> Seq(C)]
  BY <1>1, <1>4, Zenon
<1>9. ASSUME NEW n \in Slots
      PROVE  /\ Range(L[n]) = {d \in F \cup {c} : memory_chunk_slot(SizeIn(nx, d)) = n}
             /\ \A i, j \in DOMAIN L[n] : L[n][i] = L[n][j] => i = j
  <2>1. CASE n = k
    BY <2>1, <1>1, <1>2, <1>3, <1>5, <1>7 DEF k
  <2>2. CASE n # k
    BY <2>2, <1>1, <1>2 DEF k, Exact
  <2> QED BY <2>1, <2>2
<1> QED BY <1>8, <1>9 DEF Exact, L

\* remove_free of a free chunk, under the size it was filed under, keeps them exact.
LEMMA RemoveExact ==
  ASSUME NEW C, NEW lists \in [Slots -> Seq(C)], NEW nx, NEW F, NEW c \in F,
         memory_chunk_slot(SizeIn(nx, c)) \in Slots, Exact(lists, nx, F)
  PROVE  /\ remove_free(lists, c, SizeIn(nx, c)) \in [Slots -> Seq(C)]
         /\ Exact(remove_free(lists, c, SizeIn(nx, c)), nx, F \ {c})
<1> DEFINE k == memory_chunk_slot(SizeIn(nx, c))
           L == remove_free(lists, c, SizeIn(nx, c))
           s == lists[k]
           t == Without(s, c)
<1>1. L = [lists EXCEPT ![k] = t]
  BY DEF remove_free
<1>2. k \in Slots /\ s \in Seq(C)
  OBVIOUS
<1>3. /\ Range(s) = {d \in F : memory_chunk_slot(SizeIn(nx, d)) = k}
      /\ \A i, j \in DOMAIN s : s[i] = s[j] => i = j
      /\ c \in Range(s)
  BY <1>2 DEF Exact
<1> HIDE DEF k, L, s
<1>4. /\ t \in Seq(C) /\ Range(t) = Range(s) \ {c}
      /\ \A i, j \in DOMAIN t : t[i] = t[j] => i = j
  BY <1>2, <1>3, WithoutRange
<1> HIDE DEF t
<1>8. L \in [Slots -> Seq(C)]
  BY <1>1, <1>4, Zenon
<1>9. ASSUME NEW n \in Slots
      PROVE  /\ Range(L[n]) = {d \in F \ {c} : memory_chunk_slot(SizeIn(nx, d)) = n}
             /\ \A i, j \in DOMAIN L[n] : L[n][i] = L[n][j] => i = j
  <2>1. CASE n = k
    BY <2>1, <1>1, <1>2, <1>3, <1>4 DEF k
  <2>2. CASE n # k
    BY <2>2, <1>1, <1>2 DEF k, Exact
  <2> QED BY <2>1, <2>2
<1> QED BY <1>8, <1>9 DEF Exact, L

\* Popping the head of a list removes that free chunk and keeps them exact.
LEMMA PopExact ==
  ASSUME NEW C, NEW lists \in [Slots -> Seq(C)], NEW nx, NEW F,
         Exact(lists, nx, F), NEW k \in Slots, lists[k] # <<>>
  PROVE  /\ Head(lists[k]) \in F
         /\ [lists EXCEPT ![k] = Tail(@)] \in [Slots -> Seq(C)]
         /\ Exact([lists EXCEPT ![k] = Tail(@)], nx, F \ {Head(lists[k])})
<1> DEFINE s == lists[k]
           c == Head(s)
           t == Tail(s)
           L == [lists EXCEPT ![k] = t]
<1>2. s \in Seq(C) /\ s # <<>>
  OBVIOUS
<1>3. /\ Range(s) = {d \in F : memory_chunk_slot(SizeIn(nx, d)) = k}
      /\ \A i, j \in DOMAIN s : s[i] = s[j] => i = j
  BY DEF Exact
<1> HIDE DEF s
<1>4. /\ t \in Seq(C) /\ c = s[1] /\ Len(s) \in Nat \ {0}
      /\ DOMAIN s = 1 .. Len(s) /\ DOMAIN t = 1 .. Len(s) - 1
      /\ \A i \in 1 .. Len(s) - 1 : t[i] = s[i + 1]
  BY <1>2
<1>5. c \in Range(s)
  BY <1>4 DEF Range
<1> HIDE DEF t, c
<1>6. Range(t) = Range(s) \ {c}
  <2>1. ASSUME NEW i \in DOMAIN t PROVE t[i] \in Range(s) \ {c}
    <3>1. i + 1 \in DOMAIN s /\ i + 1 # 1 /\ t[i] = s[i + 1] /\ 1 \in DOMAIN s
      BY <1>4
    <3>2. s[i + 1] # s[1]
      BY <3>1, <1>3
    <3> QED BY <3>1, <3>2, <1>4 DEF Range
  <2>2. ASSUME NEW i \in DOMAIN s, s[i] # c PROVE s[i] \in Range(t)
    <3>1. i # 1
      BY <2>2, <1>4
    <3>2. i - 1 \in DOMAIN t /\ t[i - 1] = s[i]
      BY <3>1, <1>4
    <3> QED BY <3>2 DEF Range
  <2> QED BY <2>1, <2>2, Zenon DEF Range
<1>7. ASSUME NEW i \in DOMAIN t, NEW j \in DOMAIN t, t[i] = t[j] PROVE i = j
  <2>1. i + 1 \in DOMAIN s /\ t[i] = s[i + 1] /\ j + 1 \in DOMAIN s /\ t[j] = s[j + 1]
    BY <1>4
  <2>2. i + 1 = j + 1
    BY <2>1, <1>3, <1>7, Zenon
  <2> QED BY <2>2, <1>4
<1>8. L \in [Slots -> Seq(C)]
  BY <1>4
<1>9. ASSUME NEW n \in Slots
      PROVE  /\ Range(L[n]) = {d \in F \ {c} : memory_chunk_slot(SizeIn(nx, d)) = n}
             /\ \A i, j \in DOMAIN L[n] : L[n][i] = L[n][j] => i = j
  <2>1. CASE n = k
    BY <2>1, <1>3, <1>6, <1>7
  <2>2. CASE n # k
    BY <2>2, <1>3, <1>5 DEF Exact
  <2> QED BY <2>1, <2>2
<1> QED BY <1>3, <1>5, <1>8, <1>9 DEF Exact, L, s, c, t

\* The lists stay exact when the ring changes but no chunk on them changes size.
LEMMA ResizeExact ==
  ASSUME NEW lists, NEW nx, NEW nx2, NEW F, Exact(lists, nx, F), \A d \in F : nx2[d] = nx[d]
  PROVE  Exact(lists, nx2, F)
BY DEF Exact, SizeIn
-----------------------------------------------------------------------------
\* dlist_remove of a chunk between the sentinels leaves a ring of the others.
LEMMA UnlinkRing ==
  ASSUME NEW D, NEW nx \in [D -> D], NEW pv \in [D -> D], Ring(nx, pv),
         NEW d \in D, d # g_first, d # g_last
  PROVE  /\ Unlink(nx, pv, d) \in [D \ {d} -> D \ {d}]
         /\ UnlinkBack(nx, pv, d) \in [D \ {d} -> D \ {d}]
         /\ Ring(Unlink(nx, pv, d), UnlinkBack(nx, pv, d))
<1> DEFINE E  == D \ {d}
           p  == pv[d]
           n  == nx[d]
           nx2 == Unlink(nx, pv, d)
           pv2 == UnlinkBack(nx, pv, d)
<1>1. /\ D \subseteq Int /\ g_first \in Int /\ g_last \in Int /\ SizeofChunk \in Int
      /\ SizeofChunk > 0 /\ g_first # g_last
  BY Consts DEF Ring
<1>2. /\ p \in D /\ n \in D /\ nx[p] = d /\ pv[n] = d
      /\ \A c \in D : pv[nx[c]] = c /\ nx[pv[c]] = c
  BY DEF Ring
<1>3. d + SizeofChunk <= n /\ p # g_last
  BY <1>2 DEF Ring
<1>4. p + SizeofChunk <= d
  BY <1>2, <1>3 DEF Ring
<1>5. p \in E /\ n \in E
  BY <1>1, <1>2, <1>3, <1>4
<1>6. \A a \in E : nx[a] = d => a = p
  BY <1>2
<1>7. \A a \in E : pv[a] = d => a = n
  BY <1>2
<1>8. /\ nx2 = [a \in E |-> IF a = p THEN n ELSE nx[a]]
      /\ pv2 = [a \in E |-> IF a = n THEN p ELSE pv[a]]
  BY DEF Unlink, UnlinkBack
<1> HIDE DEF nx2, pv2, E, p, n
<1>9. nx2 \in [E -> E] /\ pv2 \in [E -> E]
  <2>1. \A a \in E : a \in D /\ (a # p => nx[a] \in E) /\ (a # n => pv[a] \in E)
    BY <1>6, <1>7 DEF E
  <2> QED BY <2>1, <1>8, <1>5
<1>10. {g_first, g_last} \subseteq E /\ E \subseteq g_first .. g_last
  BY DEF Ring, E
<1>11. nx2[g_last] = g_first
  BY <1>3, <1>8, <1>10 DEF Ring
<1>12. \A c \in E : pv2[nx2[c]] = c /\ nx2[pv2[c]] = c
  <2> SUFFICES ASSUME NEW c \in E PROVE pv2[nx2[c]] = c /\ nx2[pv2[c]] = c
    OBVIOUS
  <2>1. pv2[nx2[c]] = c
    <3>1. CASE c = p
      BY <3>1, <1>5, <1>8
    <3>2. CASE c # p
      <4>1. nx2[c] = nx[c] /\ nx[c] \in E /\ nx[c] # n
        BY <3>2, <1>2, <1>6, <1>8, <1>9 DEF E, n
      <4> QED BY <4>1, <1>2, <1>8 DEF E
    <3> QED BY <3>1, <3>2
  <2>2. nx2[pv2[c]] = c
    <3>1. CASE c = n
      BY <3>1, <1>5, <1>8
    <3>2. CASE c # n
      <4>1. pv2[c] = pv[c] /\ pv[c] \in E /\ pv[c] # p
        BY <3>2, <1>2, <1>7, <1>8, <1>9 DEF E, p
      <4> QED BY <4>1, <1>2, <1>8 DEF E
    <3> QED BY <3>1, <3>2
  <2> QED BY <2>1, <2>2
<1>13. ASSUME NEW c \in E, c # g_last
       PROVE  c + SizeofChunk <= nx2[c] /\ \A e \in E : e <= c \/ nx2[c] <= e
  <2>1. /\ c \in D /\ c + SizeofChunk <= nx[c]
        /\ \A e \in D : e <= c \/ nx[c] <= e
    BY <1>13 DEF Ring, E
  <2>2. CASE c = p
    <3>1. nx2[c] = n /\ nx[c] = d
      BY <2>2, <1>2, <1>8
    <3>2. \A e \in D : e <= d \/ n <= e
      BY <1>2 DEF Ring, n
    <3>3. \A e \in E : e \in D /\ e # d
      BY DEF E
    <3>4. c + SizeofChunk <= n
      BY <3>1, <2>1, <1>1, <1>2, <1>3
    <3>5. ASSUME NEW e \in E PROVE e <= c \/ n <= e
      <4>1. e \in D /\ e # d /\ (e <= c \/ d <= e) /\ (e <= d \/ n <= e)
        BY <2>1, <3>1, <3>2, <3>3
      <4>2. e \in Int /\ c \in Int /\ d \in Int /\ n \in Int
        BY <4>1, <2>1, <1>1, <1>2, Zenon
      <4> QED BY <4>1, <4>2
    <3> QED BY <3>1, <3>4, <3>5
  <2>3. CASE c # p
    BY <2>1, <2>3, <1>8 DEF E
  <2> QED BY <2>2, <2>3
<1>14. DOMAIN nx2 = E
  BY <1>8
<1>15. Ring(nx2, pv2)
  BY <1>10, <1>11, <1>12, <1>13, <1>14, Zenon DEF Ring
<1> QED BY <1>9, <1>15 DEF E, nx2, pv2

\* dlist_insert_after of a chunk cut out of c leaves a ring with that chunk.
LEMMA InsertRing ==
  ASSUME NEW D, NEW nx \in [D -> D], NEW pv \in [D -> D], Ring(nx, pv),
         NEW c \in D, c # g_last, NEW d \in Int,
         c + SizeofChunk <= d, d + SizeofChunk <= nx[c]
  PROVE  /\ d \notin D
         /\ InsertAfter(nx, c, d) \in [D \cup {d} -> D \cup {d}]
         /\ InsertAfterBack(nx, pv, c, d) \in [D \cup {d} -> D \cup {d}]
         /\ Ring(InsertAfter(nx, c, d), InsertAfterBack(nx, pv, c, d))
<1> DEFINE E  == D \cup {d}
           n  == nx[c]
           nx2 == InsertAfter(nx, c, d)
           pv2 == InsertAfterBack(nx, pv, c, d)
<1>1. /\ D \subseteq Int /\ g_first \in Int /\ g_last \in Int /\ SizeofChunk \in Int
      /\ SizeofChunk > 0 /\ D \subseteq g_first .. g_last
  BY Consts DEF Ring
<1>2. /\ n \in D /\ pv[n] = c
      /\ \A a \in D : pv[nx[a]] = a /\ nx[pv[a]] = a
      /\ \A e \in D : e <= c \/ n <= e
  BY DEF Ring
<1>0. /\ c \in Int /\ n \in Int /\ c < d /\ d < n
      /\ g_first <= c /\ n <= g_last
  <2>1. c \in g_first .. g_last /\ n \in g_first .. g_last
    BY <1>1, <1>2, Zenon
  <2> QED BY <2>1, <1>1
<1>3. d \notin D
  <2>1. SUFFICES ASSUME d \in D PROVE FALSE
    OBVIOUS
  <2>2. d <= c \/ n <= d
    BY <2>1, <1>2
  <2> QED BY <2>2, <1>0
<1>4. /\ nx2 = [a \in E |-> IF a = c THEN d ELSE IF a = d THEN n ELSE nx[a]]
      /\ pv2 = [a \in E |-> IF a = d THEN c ELSE IF a = n THEN d ELSE pv[a]]
  BY DEF InsertAfter, InsertAfterBack
<1> HIDE DEF nx2, pv2, n
<1>5. nx2 \in [E -> E] /\ pv2 \in [E -> E]
  BY <1>2, <1>4
<1>6. {g_first, g_last} \subseteq E /\ E \subseteq g_first .. g_last
  <2>1. d \in g_first .. g_last
    BY <1>0, <1>1
  <2> QED BY <2>1, <1>1 DEF Ring
<1>7. nx2[g_last] = g_first
  BY <1>3, <1>4 DEF Ring
<1>8. ASSUME NEW a \in E PROVE pv2[nx2[a]] = a /\ nx2[pv2[a]] = a
  <2>1. CASE a = c
    <3>1. nx2[a] = d /\ pv2[d] = c
      BY <2>1, <1>4
    <3>2. CASE c = n
      BY <3>1, <3>2, <2>1, <1>1, <1>2 DEF n
    <3>3. CASE c # n
      <4>1. pv2[c] = pv[c] /\ pv[c] # c /\ pv[c] \in D
        BY <3>3, <1>2, <1>3, <1>4 DEF n
      <4> QED BY <4>1, <3>1, <2>1, <1>2, <1>3, <1>4
    <3> QED BY <3>2, <3>3
  <2>2. CASE a = d
    BY <2>2, <1>2, <1>3, <1>4
  <2>3. CASE a # c /\ a # d
    <3>1. a \in D /\ nx2[a] = nx[a] /\ nx[a] \in D /\ nx[a] # n /\ nx[a] # d
      BY <2>3, <1>2, <1>3, <1>4 DEF n
    <3>2. pv2[nx2[a]] = a
      BY <3>1, <1>2, <1>4
    <3>3. CASE a = n
      BY <3>3, <2>3, <1>2, <1>3, <1>4
    <3>4. CASE a # n
      <4>1. pv2[a] = pv[a] /\ pv[a] \in D /\ pv[a] # c /\ pv[a] # d
        BY <3>1, <3>4, <2>3, <1>2, <1>3, <1>4 DEF n
      <4> QED BY <4>1, <3>1, <3>2, <1>2, <1>4
    <3> QED BY <3>2, <3>3, <3>4
  <2> QED BY <2>1, <2>2, <2>3
<1>9. ASSUME NEW a \in E, a # g_last
      PROVE  a + SizeofChunk <= nx2[a] /\ \A e \in E : e <= a \/ nx2[a] <= e
  <2>1. CASE a = c
    <3>1. nx2[a] = d
      BY <2>1, <1>4
    <3>2. ASSUME NEW e \in E PROVE e <= a \/ d <= e
      <4>1. CASE e = d
        BY <4>1, <1>1
      <4>2. CASE e # d
        <5>1. e \in Int /\ (e <= c \/ n <= e)
          BY <4>2, <1>1, <1>2
        <5> QED BY <5>1, <2>1, <1>0
      <4> QED BY <4>1, <4>2
    <3> QED BY <3>1, <3>2, <2>1
  <2>2. CASE a = d
    <3>1. nx2[a] = n
      BY <2>2, <1>1, <1>4
    <3>2. ASSUME NEW e \in E PROVE e <= a \/ n <= e
      <4>1. CASE e = d
        BY <4>1, <2>2, <1>1
      <4>2. CASE e # d
        <5>1. e \in Int /\ (e <= c \/ n <= e)
          BY <4>2, <1>1, <1>2
        <5> QED BY <5>1, <2>2, <1>0
      <4> QED BY <4>1, <4>2
    <3> QED BY <3>1, <3>2, <2>2 DEF n
  <2>3. CASE a # c /\ a # d
    <3>1. /\ a \in D /\ nx2[a] = nx[a] /\ a + SizeofChunk <= nx[a] /\ nx[a] \in D
          /\ \A e \in D : e <= a \/ nx[a] <= e
      BY <2>3, <1>4, <1>9 DEF Ring
    <3>2. d <= a \/ nx[a] <= d
      <4>1. (c <= a \/ nx[a] <= c) /\ (a <= c \/ n <= a)
        BY <3>1, <1>2
      <4>2. a \in Int /\ nx[a] \in Int
        BY <3>1, <1>1, Zenon
      <4> QED BY <4>1, <4>2, <2>3, <1>0
    <3> QED BY <3>1, <3>2, <2>3, <1>1, <1>3
  <2> QED BY <2>1, <2>2, <2>3
<1>10. DOMAIN nx2 = E
  BY <1>4
<1>11. Ring(nx2, pv2)
  BY <1>6, <1>7, <1>8, <1>9, <1>10 DEF Ring
<1> QED BY <1>3, <1>5, <1>11 DEF nx2, pv2
-----------------------------------------------------------------------------
\* Every chunk below g_last is large enough to have a size class with a list.
LEMMA ChunkSlot ==
  ASSUME NEW D, NEW nx \in [D -> D], NEW pv, Ring(nx, pv), NEW c \in D, c # g_last
  PROVE  /\ c \in Int /\ nx[c] \in Int /\ c + SizeofChunk <= nx[c]
         /\ SizeIn(nx, c) \in Int /\ MIN_SIZE <= SizeIn(nx, c)
         /\ memory_chunk_slot(SizeIn(nx, c)) \in Slots
<1>1. c \in g_first .. g_last /\ nx[c] \in g_first .. g_last /\ c + SizeofChunk <= nx[c]
  BY DEF Ring
<1>2. /\ SizeIn(nx, c) \in Int /\ MIN_SIZE <= SizeIn(nx, c) /\ SizeIn(nx, c) <= HeapSize
      /\ c \in Int /\ nx[c] \in Int
  BY <1>1, Consts DEF SizeIn
<1> QED BY <1>1, <1>2, SlotRange

\* A list of which every member is in D is a sequence over D.
LEMMA SeqOver ==
  ASSUME NEW C, NEW D, NEW lists \in [Slots -> Seq(C)], NEW nx, NEW F,
         Exact(lists, nx, F), F \subseteq D
  PROVE  lists \in [Slots -> Seq(D)]
<1>1. ASSUME NEW n \in Slots PROVE lists[n] \in Seq(D)
  <2>1. lists[n] \in Seq(C) /\ Range(lists[n]) \subseteq D
    BY DEF Exact
  <2>2. \A i \in 1 .. Len(lists[n]) : lists[n][i] \in D
    BY <2>1 DEF Range
  <2> QED BY <2>1, <2>2
<1> QED BY <1>1

\* The part of the invariant that is about the heap itself: the ring, the marks
\* and the free lists.
HeapInv(nx, pv, us, lists) ==
  /\ nx \in [DOMAIN nx -> DOMAIN nx] /\ pv \in [DOMAIN nx -> DOMAIN nx]
  /\ us \in [DOMAIN nx -> BOOLEAN]
  /\ lists \in [Slots -> Seq(DOMAIN nx)]
  /\ Ring(nx, pv) /\ us[g_first] /\ us[g_last]
  /\ Exact(lists, nx, {c \in DOMAIN nx : ~us[c]})
  /\ \A c \in DOMAIN nx : ~us[c] => us[nx[c]]

\* The chunk kmalloc pops is free and large enough.
LEMMA PopFits ==
  ASSUME HeapInv(next, prev, used, freeChunks), NEW size \in Int,
         NEW n \in Candidates(size)
  PROVE  /\ Head(freeChunks[n]) \in chunks /\ ~used[Head(freeChunks[n])]
         /\ Head(freeChunks[n]) # g_first /\ Head(freeChunks[n]) # g_last
         /\ size <= memory_chunk_size(Head(freeChunks[n]))
         /\ [freeChunks EXCEPT ![n] = Tail(@)] \in [Slots -> Seq(chunks)]
         /\ Exact([freeChunks EXCEPT ![n] = Tail(@)], next,
                  {d \in chunks : ~used[d]} \ {Head(freeChunks[n])})
<1> DEFINE c == Head(freeChunks[n])
           F == {d \in chunks : ~used[d]}
<1>1. n \in Slots /\ n >= FirstSlot(size) /\ freeChunks[n] # <<>>
  BY DEF Candidates
<1>2. freeChunks \in [Slots -> Seq(chunks)] /\ Exact(freeChunks, next, F)
  BY DEF HeapInv, chunks
<1> HIDE DEF F
<1>3. /\ c \in F /\ memory_chunk_slot(SizeIn(next, c)) = n
      /\ [freeChunks EXCEPT ![n] = Tail(@)] \in [Slots -> Seq(chunks)]
      /\ Exact([freeChunks EXCEPT ![n] = Tail(@)], next, F \ {c})
  <2>1. c \in F
    BY <1>1, <1>2, PopExact, Zenon
  <2>2. memory_chunk_slot(SizeIn(next, c)) = n
    <3>1. c \in Range(freeChunks[n])
      BY <1>1, <1>2 DEF Range
    <3> QED BY <3>1, <1>1, <1>2 DEF Exact
  <2>3. [freeChunks EXCEPT ![n] = Tail(@)] \in [Slots -> Seq(chunks)]
    BY <1>1, <1>2, PopExact
  <2>4. Exact([freeChunks EXCEPT ![n] = Tail(@)], next, F \ {c})
    BY <1>1, <1>2, PopExact, Zenon
  <2> QED BY <2>1, <2>2, <2>3, <2>4
<1>4. c \in chunks /\ ~used[c]
  BY <1>3 DEF F
<1>5. c # g_first /\ c # g_last
  BY <1>4 DEF HeapInv
<1>6. SizeIn(next, c) \in Int
  BY <1>4, <1>5, ChunkSlot DEF HeapInv, chunks
<1>7. size <= SizeIn(next, c)
  <2>1. SUFFICES ASSUME SizeIn(next, c) <= size - 1 PROVE FALSE
    BY <1>6
  <2>2. /\ memory_chunk_slot(SizeIn(next, c)) <= memory_chunk_slot(size - 1)
        /\ memory_chunk_slot(size - 1) \in Int
    BY <2>1, <1>6, SlotMono
  <2>3. n \in Int /\ n >= memory_chunk_slot(size - 1) + 1
    BY <1>1, HeapAssumption DEF FirstSlot, Slots
  <2> QED BY <2>2, <2>3, <1>3
<1> QED BY <1>3, <1>4, <1>5, <1>7 DEF F, memory_chunk_size

\* kmalloc marks one free chunk used, large enough for the request, and moves or
\* resizes no other chunk; the invariant of the heap survives.
LEMMA TakeStep ==
  ASSUME HeapInv(next, prev, used, freeChunks), NEW size \in Int, MIN_SIZE <= size,
         NEW n \in Candidates(size), NEW c, c = Head(freeChunks[n]), Take(size, n, c)
  PROVE  /\ HeapInv(next', prev', used', freeChunks')
         /\ c \in chunks /\ c # g_first /\ c # g_last /\ ~used[c]
         /\ chunks \subseteq DOMAIN next'
         /\ {a \in DOMAIN next' : used'[a]} = {a \in chunks : used[a]} \cup {c}
         /\ \A a \in chunks \ {c} : next'[a] = next[a]
         /\ size <= SizeIn(next', c)
<1> DEFINE F == {d \in chunks : ~used[d]}
           L == [freeChunks EXCEPT ![n] = Tail(@)]
<1>1. /\ c \in chunks /\ ~used[c] /\ c # g_first /\ c # g_last
      /\ size <= memory_chunk_size(c)
      /\ L \in [Slots -> Seq(chunks)] /\ Exact(L, next, F \ {c})
  BY PopFits, Zenon
<1>2. /\ next \in [chunks -> chunks] /\ prev \in [chunks -> chunks] /\ used \in [chunks -> BOOLEAN]
      /\ Ring(next, prev) /\ used[g_first] /\ used[g_last]
      /\ \A a \in chunks : ~used[a] => used[next[a]]
      /\ {g_first, g_last} \subseteq chunks
  BY Zenon DEF HeapInv, chunks, Ring
<1> HIDE DEF L
<1>3. CASE TakeWhole(size, n, c)
  <2>1. next' = next /\ prev' = prev /\ used' = [used EXCEPT ![c] = TRUE] /\ freeChunks' = L
    BY <1>3 DEF TakeWhole, L
  <2>2. {d \in chunks : ~used'[d]} = F \ {c}
    BY <2>1, <1>1, <1>2
  <2>3. \A a \in chunks : ~used'[a] => used'[next'[a]]
    BY <2>1, <1>1, <1>2
  <2>4. used' \in [chunks -> BOOLEAN] /\ used'[g_first] /\ used'[g_last]
    BY <2>1, <1>1, <1>2
  <2>5. HeapInv(next', prev', used', freeChunks')
    <3>1. DOMAIN next' = chunks /\ Exact(freeChunks', next', {d \in chunks : ~used'[d]})
      BY <2>1, <2>2, <1>1, Zenon DEF chunks
    <3>2. next' \in [chunks -> chunks] /\ prev' \in [chunks -> chunks] /\ Ring(next', prev')
      BY <2>1, <1>2
    <3>3. freeChunks' \in [Slots -> Seq(chunks)]
      BY <2>1, <1>1
    <3> QED BY <3>1, <3>2, <3>3, <2>3, <2>4, Zenon DEF HeapInv
  <2>6. {a \in DOMAIN next' : used'[a]} = {a \in chunks : used[a]} \cup {c}
    BY <2>1, <1>1, <1>2 DEF chunks
  <2> QED BY <2>1, <2>5, <2>6, <1>1 DEF chunks, memory_chunk_size
<1>4. CASE TakeSplit(size, n, c)
  <2> DEFINE d == Chunk2(c, size)
             D2 == chunks \cup {d}
  <2>1. /\ next' = InsertAfter(next, c, d) /\ prev' = InsertAfterBack(next, prev, c, d)
        /\ used' = [a \in D2 |-> IF a = d THEN FALSE ELSE IF a = c THEN TRUE ELSE used[a]]
        /\ freeChunks' = push_free(L, d, SizeIn(next', d))
        /\ size + SizeofChunk <= SizeIn(next, c)
    BY <1>4 DEF TakeSplit, Splits, L, memory_chunk_size
  <2>2. /\ c \in Int /\ next[c] \in Int /\ SizeIn(next, c) = next[c] - c - HEADER_SIZE
    BY <1>1, <1>2, ChunkSlot DEF SizeIn
  <2>3. d \in Int /\ d = c + HEADER_SIZE + size /\ c + SizeofChunk <= d /\ d + SizeofChunk <= next[c]
    <3>1. size + SizeofChunk <= SizeIn(next, c)
      BY <2>1
    <3> QED BY <3>1, <2>2, Consts DEF Chunk2
  <2> HIDE DEF d
  <2>4. /\ d \notin chunks /\ next' \in [D2 -> D2] /\ prev' \in [D2 -> D2] /\ Ring(next', prev')
    BY <2>1, <2>3, <1>1, <1>2, InsertRing, ZenonT(40)
  <2>5. /\ DOMAIN next' = D2 /\ next'[c] = d /\ next'[d] = next[c]
        /\ \A a \in chunks \ {c} : next'[a] = next[a]
    BY <2>1, <2>4, <1>1, <1>2 DEF InsertAfter
  <2>6. d # g_last /\ d # g_first
    BY <2>4, <1>2
  <2>7. memory_chunk_slot(SizeIn(next', d)) \in Slots
    BY <2>4, <2>6, ChunkSlot, ZenonT(40)
  <2>8. Exact(L, next', F \ {c})
    BY <2>5, <1>1, ResizeExact
  <2>9. L \in [Slots -> Seq(D2)]
    BY <1>1, SeqOver
  <2>10. d \in D2 /\ d \notin F \ {c}
    BY <2>4, Zenon
  <2>11. /\ freeChunks' \in [Slots -> Seq(D2)]
         /\ Exact(freeChunks', next', (F \ {c}) \cup {d})
    BY <2>1, <2>7, <2>8, <2>9, <2>10, PushExact, Zenon
  <2>12. {a \in D2 : ~used'[a]} = (F \ {c}) \cup {d}
    BY <2>1, <2>4, <1>1, <1>2, Zenon
  <2>13. used' \in [D2 -> BOOLEAN] /\ used'[g_first] /\ used'[g_last]
    BY <2>1, <2>6, <1>2, Zenon
  <2>14. ASSUME NEW a \in D2, ~used'[a] PROVE used'[next'[a]]
    <3>1. CASE a = d
      <4>1. next[c] \in chunks /\ used[next[c]] /\ next[c] # d /\ next[c] # c
        <5>0. next[c] \in chunks
          BY <1>1, <1>2
        <5>1. used[next[c]] /\ next[c] # d
          BY <5>0, <1>1, <1>2, <2>4, Zenon
        <5>2. next[c] # c
          BY <2>2, <2>3, Consts
        <5> QED BY <5>0, <5>1, <5>2
      <4> QED BY <3>1, <4>1, <2>1, <2>5
    <3>2. CASE a # d
      <4>1. a \in chunks /\ a # c /\ ~used[a] /\ next'[a] = next[a]
        BY <3>2, <2>1, <2>5, <2>14
      <4>2. next[a] \in chunks /\ used[next[a]] /\ next[a] # d
        BY <4>1, <1>2, <2>4
      <4> QED BY <4>1, <4>2, <2>1, ZenonT(40)
    <3> QED BY <3>1, <3>2, ZenonT(40)
  <2>15. HeapInv(next', prev', used', freeChunks')
    <3>1. DOMAIN next' = D2 /\ Exact(freeChunks', next', {a \in D2 : ~used'[a]})
      BY <2>5, <2>11, <2>12, Zenon
    <3> QED BY <3>1, <2>4, <2>11, <2>13, <2>14, Zenon DEF HeapInv
  <2>16. {a \in DOMAIN next' : used'[a]} = {a \in chunks : used[a]} \cup {c}
    BY <2>1, <2>4, <2>5, <1>1, <1>2, ZenonT(40)
  <2>17. SizeIn(next', c) = size
    <3>1. SizeIn(next', c) = d - c - HEADER_SIZE
      BY <2>5 DEF SizeIn
    <3> QED BY <3>1, <2>2, <2>3, Consts
  <2>18. /\ chunks \subseteq DOMAIN next' /\ \A a \in chunks \ {c} : next'[a] = next[a]
         /\ size <= SizeIn(next', c)
    BY <2>5, <2>17
  <2> QED BY <2>15, <2>16, <2>18, <1>1, Zenon
<1> QED BY <1>3, <1>4 DEF Take

\* What kfree has in hand once c has absorbed a free next chunk: a ring and exact
\* lists again, the chunk after c used, and no other chunk resized.
Absorbed(h, c) ==
  LET D == DOMAIN h.next
  IN  /\ D \subseteq chunks /\ c \in D /\ prev[c] \in D /\ prev[c] # c /\ prev[c] # g_last
      /\ {a \in chunks : used[a]} \subseteq D
      /\ h.next \in [D -> D] /\ h.prev \in [D -> D] /\ Ring(h.next, h.prev)
      /\ h.lists \in [Slots -> Seq(D)] /\ Exact(h.lists, h.next, {a \in D : ~used[a]})
      /\ h.prev[c] = prev[c] /\ used[h.next[c]]
      /\ \A a \in D \ {c} : h.next[a] = next[a]

\* The first half of kfree gets there from any state of the invariant.
LEMMA AbsorbStep ==
  ASSUME HeapInv(next, prev, used, freeChunks),
         NEW c \in chunks, used[c], c # g_first, c # g_last
  PROVE  Absorbed(AbsorbNext(c), c)
<1> DEFINE h == AbsorbNext(c)
           D == DOMAIN h.next
<1> DEFINE F == {a \in chunks : ~used[a]}
           nx == next[c]
<1>1. /\ next \in [chunks -> chunks] /\ prev \in [chunks -> chunks] /\ used \in [chunks -> BOOLEAN]
      /\ Ring(next, prev) /\ used[g_first] /\ used[g_last]
      /\ freeChunks \in [Slots -> Seq(chunks)] /\ Exact(freeChunks, next, F)
      /\ \A a \in chunks : ~used[a] => used[next[a]]
  BY DEF HeapInv, chunks
<1> HIDE DEF F, h, D
<1>2. /\ nx \in chunks /\ prev[nx] = c /\ prev[c] \in chunks /\ next[prev[c]] = c
      /\ \A a \in chunks : next[prev[a]] = a /\ prev[next[a]] = a
      /\ next[g_last] = g_first
  BY <1>1, Zenon DEF Ring, chunks
<1>3. /\ prev[c] # g_last
      /\ c \in Int /\ nx \in Int /\ c < nx
  BY <1>1, <1>2, ChunkSlot, Consts
<1>4. prev[c] \in Int /\ prev[c] < c
  <2> DEFINE p == prev[c]
  <2>1. p \in chunks /\ p # g_last /\ next[p] = c
    BY <1>2, <1>3, Zenon
  <2> HIDE DEF p
  <2>2. p \in Int /\ next[p] \in Int /\ p + SizeofChunk <= next[p]
    BY <2>1, <1>1, ChunkSlot
  <2>3. p \in Int /\ p < c
    BY <2>1, <2>2, Consts
  <2> QED BY <2>3 DEF p
<1>5. prev[c] # c /\ nx # c /\ prev[c] # nx
  BY <1>3, <1>4
<1>0. next \in [chunks -> chunks] /\ prev \in [chunks -> chunks] /\ Ring(next, prev)
  BY <1>1, Zenon
<1>6. CASE used[nx]
  <2>1. h.next = next /\ h.prev = prev /\ h.lists = freeChunks /\ D = chunks
    BY <1>6 DEF AbsorbNext, chunks, h, D
  <2>2. Exact(h.lists, h.next, {a \in D : ~used[a]})
    BY <2>1, <1>1, Zenon DEF F
  <2> QED BY <2>1, <2>2, <1>1, <1>2, <1>3, <1>5, <1>6, ZenonT(40) DEF Absorbed, D, h
<1>7. CASE ~used[nx]
  <2>1. /\ h.next = Unlink(next, prev, nx) /\ h.prev = UnlinkBack(next, prev, nx)
        /\ h.lists = remove_free(freeChunks, nx, SizeIn(next, nx))
    BY <1>7 DEF AbsorbNext, memory_chunk_size, h
  <2>2. nx # g_first /\ nx # g_last
    BY <1>1, <1>7
  <2>3. /\ h.next \in [chunks \ {nx} -> chunks \ {nx}]
        /\ h.prev \in [chunks \ {nx} -> chunks \ {nx}]
        /\ Ring(h.next, h.prev)
    <3>1. nx \in chunks
      BY <1>2
    <3> HIDE DEF nx
    <3>2. /\ Unlink(next, prev, nx) \in [chunks \ {nx} -> chunks \ {nx}]
          /\ UnlinkBack(next, prev, nx) \in [chunks \ {nx} -> chunks \ {nx}]
          /\ Ring(Unlink(next, prev, nx), UnlinkBack(next, prev, nx))
      BY <2>2, <3>1, <1>0, UnlinkRing, Zenon
    <3> QED BY <2>1, <3>2, Zenon
  <2>4. D = chunks \ {nx}
    BY <2>3 DEF D
  <2>5. nx \in F
    BY <1>2, <1>7, Zenon DEF F
  <2>6. memory_chunk_slot(SizeIn(next, nx)) \in Slots
    BY <2>2, <1>1, <1>2, ChunkSlot
  <2>7. h.lists \in [Slots -> Seq(chunks)] /\ Exact(h.lists, next, F \ {nx})
    <3>1. freeChunks \in [Slots -> Seq(chunks)] /\ Exact(freeChunks, next, F)
      BY <1>1
    <3> HIDE DEF nx
    <3>2. /\ remove_free(freeChunks, nx, SizeIn(next, nx)) \in [Slots -> Seq(chunks)]
          /\ Exact(remove_free(freeChunks, nx, SizeIn(next, nx)), next, F \ {nx})
      BY <2>5, <2>6, <3>1, RemoveExact, Zenon
    <3> QED BY <2>1, <3>2, Zenon
  <2>8. c \notin F
    BY DEF F
  <2>9. /\ h.next[c] = next[nx] /\ h.prev[c] = prev[c]
        /\ \A a \in D \ {c} : h.next[a] = next[a]
    <3>2. h.next[c] = next[nx]
      <4>1. c \in DOMAIN next \ {nx}
        BY <1>0, <1>5, Zenon
      <4> QED BY <4>1, <2>1, <1>2 DEF Unlink
    <3>3. \A a \in D \ {c} : h.next[a] = next[a]
      <4>1. D \ {c} \subseteq DOMAIN next \ {nx}
        BY <2>4, <1>0
      <4> QED BY <4>1, <2>1, <1>2 DEF Unlink
    <3>4. c # next[nx]
      <4>1. nx < next[nx] /\ next[nx] \in Int
        <5>1. nx \in chunks
          BY <1>2
        <5> HIDE DEF nx
        <5>2. nx \in Int /\ next[nx] \in Int /\ nx + SizeofChunk <= next[nx]
          BY <5>1, <2>2, <1>0, ChunkSlot, Zenon
        <5> QED BY <5>2, Consts
      <4> QED BY <4>1, <1>3
    <3>5. h.prev[c] = prev[c]
      BY <2>1, <2>4, <3>4, <1>1, <1>2, <1>5, ZenonT(40) DEF UnlinkBack
    <3> QED BY <3>2, <3>3, <3>5, ZenonT(40)
  <2>10. used[next[nx]]
    BY <1>1, <1>2, <1>7
  <2>11. Exact(h.lists, h.next, F \ {nx})
    <3>1. \A a \in F \ {nx} : h.next[a] = next[a]
      BY <2>4, <2>8, <2>9 DEF F
    <3> QED BY <3>1, <2>7, ResizeExact
  <2>12. F \ {nx} = {a \in D : ~used[a]}
    BY <2>4 DEF F
  <2>13. h.lists \in [Slots -> Seq(D)]
    <3>1. F \ {nx} \subseteq D
      BY <2>12
    <3> QED BY <2>7, <3>1, SeqOver
  <2>14. {a \in chunks : used[a]} \subseteq D
    BY <2>4, <1>7
  <2>15. Exact(h.lists, h.next, {a \in D : ~used[a]})
    BY <2>11, <2>12
  <2>16. D \subseteq chunks /\ c \in D /\ prev[c] \in D /\ D = DOMAIN h.next
    BY <2>4, <1>2, <1>5 DEF D
  <2> QED BY <2>3, <2>4, <2>9, <2>10, <2>13, <2>14, <2>15, <2>16, <1>3, <1>5, ZenonT(40) DEF Absorbed, h
<1> QED BY <1>6, <1>7

\* kfree marks the chunk free and nothing else changes for the chunks in use; the
\* invariant of the heap survives.
LEMMA ReleaseStep ==
  ASSUME HeapInv(next, prev, used, freeChunks),
         NEW c \in chunks, used[c], c # g_first, c # g_last, Release(c)
  PROVE  /\ HeapInv(next', prev', used', freeChunks')
         /\ {a \in DOMAIN next' : used'[a]} = {a \in chunks : used[a]} \ {c}
         /\ \A a \in {b \in chunks : used[b]} \ {c} : next'[a] = next[a]
<1> DEFINE h == AbsorbNext(c)
           D == DOMAIN h.next
           G == {a \in D : ~used[a]}
           p == prev[c]
<1>0. h = AbsorbNext(c) /\ D = DOMAIN h.next
  OBVIOUS
<1> HIDE DEF h, D
<1>1. /\ D \subseteq chunks /\ c \in D /\ p \in D /\ p # c /\ p # g_last
      /\ {a \in chunks : used[a]} \subseteq D
      /\ h.next \in [D -> D] /\ h.prev \in [D -> D] /\ Ring(h.next, h.prev)
      /\ h.lists \in [Slots -> Seq(D)] /\ Exact(h.lists, h.next, G)
      /\ h.prev[c] = p /\ used[h.next[c]]
      /\ \A a \in D \ {c} : h.next[a] = next[a]
  <2>1. Absorbed(h, c)
    BY <1>0, AbsorbStep
  <2> QED BY <2>1, <1>0, ZenonT(20) DEF Absorbed
<1>2. /\ used \in [chunks -> BOOLEAN] /\ used[g_first] /\ used[g_last]
      /\ \A a \in chunks : ~used[a] => used[next[a]]
      /\ {g_first, g_last} \subseteq chunks
  BY Zenon DEF HeapInv, chunks, Ring
<1>3. \/ /\ ~used[p]
         /\ next' = Unlink(h.next, h.prev, c)
         /\ prev' = UnlinkBack(h.next, h.prev, c)
         /\ freeChunks' = push_free(remove_free(h.lists, p, SizeIn(h.next, p)),
                                    p, SizeIn(next', p))
         /\ used' = [a \in DOMAIN next' |-> used[a]]
      \/ /\ used[p]
         /\ next' = h.next
         /\ prev' = h.prev
         /\ freeChunks' = push_free(h.lists, c, SizeIn(next', c))
         /\ used' = [a \in DOMAIN next' |-> IF a = c THEN FALSE ELSE used[a]]
  BY ZenonT(40) DEF Release, h
<1>4. {g_first, g_last} \subseteq D
  BY <1>1, <1>2
<1>5. h.next[c] \in D /\ h.next[c] # c
  <2>0. h.next[c] \in Int /\ c \in Int /\ c + SizeofChunk <= h.next[c]
    BY <1>1, ChunkSlot
  <2>1. h.next[c] \in Int /\ c \in Int /\ c < h.next[c]
    BY <2>0, Consts
  <2> QED BY <2>1, <1>1
<1> HIDE DEF p
<1>6. CASE /\ ~used[p]
           /\ next' = Unlink(h.next, h.prev, c)
           /\ prev' = UnlinkBack(h.next, h.prev, c)
           /\ freeChunks' = push_free(remove_free(h.lists, p, SizeIn(h.next, p)),
                                      p, SizeIn(next', p))
           /\ used' = [a \in DOMAIN next' |-> used[a]]
  <2> DEFINE E == D \ {c}
             L == remove_free(h.lists, p, SizeIn(h.next, p))
  <2>1. /\ Unlink(h.next, h.prev, c) \in [E -> E] /\ UnlinkBack(h.next, h.prev, c) \in [E -> E]
        /\ Ring(Unlink(h.next, h.prev, c), UnlinkBack(h.next, h.prev, c))
    BY <1>1, UnlinkRing, Zenon
  <2>2. next' \in [E -> E] /\ prev' \in [E -> E] /\ Ring(next', prev') /\ DOMAIN next' = E
    BY <2>1, <1>6, Zenon
  <2>3. /\ next'[p] = h.next[c]
        /\ \A a \in E \ {p} : next'[a] = h.next[a]
    BY <1>1, <1>6, <2>2, Zenon DEF Unlink
  <2>4. used' = [a \in E |-> used[a]] /\ p \in E /\ p \in G
    BY <1>1, <1>6, <2>2, Zenon
  <2>5. memory_chunk_slot(SizeIn(h.next, p)) \in Slots
    BY <1>1, ChunkSlot, ZenonT(40)
  <2>6. memory_chunk_slot(SizeIn(next', p)) \in Slots
    BY <2>2, <2>4, <1>1, ChunkSlot
  <2>7. L \in [Slots -> Seq(D)] /\ Exact(L, h.next, G \ {p})
    <3> HIDE DEF G
    <3> QED BY <2>4, <2>5, <1>1, RemoveExact, Zenon
  <2> HIDE DEF L
  <2>8. G \subseteq E
    OBVIOUS
  <2>9. Exact(L, next', G \ {p})
    <3>1. \A a \in G \ {p} : next'[a] = h.next[a]
      BY <2>3, <2>8
    <3> HIDE DEF G
    <3> QED BY <3>1, <2>7, ResizeExact
  <2>10. L \in [Slots -> Seq(E)]
    <3>1. G \ {p} \subseteq E
      BY <2>8
    <3> HIDE DEF G, E
    <3> QED BY <3>1, <2>7, SeqOver
  <2>11. /\ freeChunks' \in [Slots -> Seq(E)]
         /\ Exact(freeChunks', next', (G \ {p}) \cup {p})
    <3>1. freeChunks' = push_free(L, p, SizeIn(next', p)) /\ p \in E /\ p \notin G \ {p}
      BY <1>6, <2>4 DEF L
    <3> HIDE DEF G, E
    <3>2. /\ push_free(L, p, SizeIn(next', p)) \in [Slots -> Seq(E)]
          /\ Exact(push_free(L, p, SizeIn(next', p)), next', (G \ {p}) \cup {p})
      BY <3>1, <2>6, <2>9, <2>10, PushExact, Zenon
    <3> QED BY <3>1, <3>2, ZenonT(40)
  <2>12. (G \ {p}) \cup {p} = {a \in E : ~used'[a]}
    BY <2>4, <2>8, ZenonT(40)
  <2>13. used' \in [E -> BOOLEAN] /\ used'[g_first] /\ used'[g_last]
    BY <2>4, <1>1, <1>2, <1>4
  <2>14. ASSUME NEW a \in E, ~used'[a] PROVE used'[next'[a]]
    <3>1. CASE a = p
      BY <3>1, <2>3, <2>4, <1>1, <1>5
    <3>2. CASE a # p
      <4>1. ~used[a] /\ a \in chunks /\ next'[a] = next[a] /\ next'[a] \in E
        BY <3>2, <2>14, <2>2, <2>3, <2>4, <1>1
      <4>2. used[next[a]]
        BY <4>1, <1>2, Zenon
      <4> QED BY <4>1, <4>2, <2>4, ZenonT(40)
    <3> QED BY <3>1, <3>2, ZenonT(40)
  <2>15. HeapInv(next', prev', used', freeChunks')
    <3>1. Exact(freeChunks', next', {a \in E : ~used'[a]})
      BY <2>11, <2>12, Zenon
    <3> QED BY <3>1, <2>2, <2>11, <2>13, <2>14, Zenon DEF HeapInv
  <2>16. {a \in DOMAIN next' : used'[a]} = {a \in chunks : used[a]} \ {c}
    BY <2>2, <2>4, <1>1, Zenon
  <2>17. \A a \in {b \in chunks : used[b]} \ {c} : next'[a] = next[a]
    BY <2>3, <1>1, <1>6, Zenon
  <2> QED BY <2>15, <2>16, <2>17
<1>7. CASE /\ used[p]
           /\ next' = h.next
           /\ prev' = h.prev
           /\ freeChunks' = push_free(h.lists, c, SizeIn(next', c))
           /\ used' = [a \in DOMAIN next' |-> IF a = c THEN FALSE ELSE used[a]]
  <2>1. /\ next' = h.next /\ prev' = h.prev /\ DOMAIN next' = D
        /\ next' \in [D -> D] /\ prev' \in [D -> D] /\ Ring(next', prev')
        /\ used' = [a \in D |-> IF a = c THEN FALSE ELSE used[a]]
    BY <1>1, <1>7, ZenonT(40)
  <2>2. memory_chunk_slot(SizeIn(next', c)) \in Slots
    BY <2>1, <1>1, ChunkSlot
  <2>3. /\ freeChunks' \in [Slots -> Seq(D)]
        /\ Exact(freeChunks', next', G \cup {c})
    <3>1. freeChunks' = push_free(h.lists, c, SizeIn(h.next, c)) /\ next' = h.next
      BY <1>7, ZenonT(40)
    <3>2. c \in D /\ c \notin G
      BY <1>1
    <3>3. memory_chunk_slot(SizeIn(h.next, c)) \in Slots
      BY <2>1, <2>2, Zenon
    <3> HIDE DEF G
    <3>4. /\ push_free(h.lists, c, SizeIn(h.next, c)) \in [Slots -> Seq(D)]
          /\ Exact(push_free(h.lists, c, SizeIn(h.next, c)), h.next, G \cup {c})
      BY <3>2, <3>3, <1>1, PushExact, Zenon
    <3> QED BY <3>1, <3>4, Zenon
  <2>4. G \cup {c} = {a \in D : ~used'[a]}
    BY <2>1, <1>1, Zenon
  <2>5. used' \in [D -> BOOLEAN] /\ used'[g_first] /\ used'[g_last]
    BY <2>1, <1>1, <1>2, <1>4, Zenon
  <2>6. ASSUME NEW a \in D, ~used'[a] PROVE used'[next'[a]]
    <3>1. CASE a = c
      BY <3>1, <2>1, <1>1, <1>5
    <3>2. CASE a # c
      <4>1. ~used[a] /\ a \in chunks /\ next'[a] = next[a] /\ next'[a] \in D
        BY <3>2, <2>6, <2>1, <1>1
      <4>2. used[next[a]]
        BY <4>1, <1>2, Zenon
      <4>3. next'[a] # c
        <5>1. SUFFICES ASSUME next'[a] = c PROVE FALSE
          BY Zenon
        <5>2. h.prev[h.next[a]] = a
          BY <1>1, ZenonT(40) DEF Ring
        <5>3. a = p
          BY <5>1, <5>2, <2>1, <1>1
        <5> QED BY <5>3, <4>1, <1>7
      <4> QED BY <4>1, <4>2, <4>3, <2>1, ZenonT(40)
    <3> QED BY <3>1, <3>2, ZenonT(40)
  <2>7. HeapInv(next', prev', used', freeChunks')
    <3>1. Exact(freeChunks', next', {a \in D : ~used'[a]})
      BY <2>3, <2>4, Zenon
    <3> QED BY <3>1, <2>1, <2>3, <2>5, <2>6, Zenon DEF HeapInv
  <2>8. {a \in DOMAIN next' : used'[a]} = {a \in chunks : used[a]} \ {c}
    BY <2>1, <1>1, Zenon
  <2>9. \A a \in {b \in chunks : used[b]} \ {c} : next'[a] = next[a]
    BY <2>1, <1>1, ZenonT(40)
  <2> QED BY <2>7, <2>8, <2>9
<1> QED BY <1>3, <1>6, <1>7, Zenon
-----------------------------------------------------------------------------
\* The invariant of the whole component.
IInv == TypeOK /\ ChunksTile /\ FreeListsExact /\ Coalesced /\ HeldAreUsed

\* IInv with its part about the heap itself gathered in HeapInv.
LEMMA IInvSplit ==
  IInv <=> /\ HeapInv(next, prev, used, freeChunks)
           /\ DOMAIN owned \subseteq chunks /\ \A c \in DOMAIN owned : owned[c] \in Sizes
           /\ overrun \in BOOLEAN
           /\ re = None \/ re \in [old : chunks, chunkSize : Int, ns : Sizes, ptr : chunks \cup {None}]
           /\ HeldAreUsed
<1>1. Ring(next, prev) => chunks \subseteq 0 .. HeapSize
  BY Consts DEF Ring, chunks
<1>2. IInv => HeapInv(next, prev, used, freeChunks)
  BY Zenon DEF IInv, TypeOK, ChunksTile, FreeListsExact, FreeChunks, Coalesced, HeapInv, chunks
<1>3. HeapInv(next, prev, used, freeChunks) => ChunksTile /\ FreeListsExact /\ Coalesced
  BY Zenon DEF ChunksTile, FreeListsExact, FreeChunks, Coalesced, HeapInv, chunks
<1> QED BY <1>1, <1>2, <1>3 DEF IInv, TypeOK, HeapInv, chunks

\* heap_init establishes it: three chunks, the middle one free.
LEMMA InitIInv == Init => IInv
<1> SUFFICES ASSUME Init PROVE IInv
  OBVIOUS
<1> DEFINE D == {g_first, second, g_last}
           k == memory_chunk_slot(g_last - second - HEADER_SIZE)
<1>1. /\ g_first \in Int /\ second \in Int /\ g_last \in Int
      /\ g_first + SizeofChunk <= second /\ second + SizeofChunk <= g_last
      /\ SizeofChunk \in Int /\ SizeofChunk > 0
  BY Consts
<1>2. g_first # second /\ second # g_last /\ g_first # g_last
  BY <1>1
<1>3. /\ next = [c \in D |-> IF c = g_first THEN second ELSE IF c = second THEN g_last ELSE g_first]
      /\ prev = [c \in D |-> IF c = g_first THEN g_last ELSE IF c = second THEN g_first ELSE second]
      /\ used = [c \in D |-> c # second]
      /\ freeChunks = [n \in Slots |-> IF n = k THEN <<second>> ELSE <<>>]
  BY DEF Init
<1>4. chunks = D /\ next \in [D -> D] /\ prev \in [D -> D] /\ used \in [D -> BOOLEAN]
  BY <1>3 DEF chunks
<1>5. Ring(next, prev)
  <2>1. /\ next[g_first] = second /\ next[second] = g_last /\ next[g_last] = g_first
        /\ prev[g_first] = g_last /\ prev[second] = g_first /\ prev[g_last] = second
    BY <1>2, <1>3
  <2>2. \A c \in D : prev[next[c]] = c /\ next[prev[c]] = c
    BY <2>1
  <2>3. D \subseteq g_first .. g_last
    BY <1>1
  <2>4. \A c \in D \ {g_last} : c + SizeofChunk <= next[c] /\ \A d \in D : d <= c \/ next[c] <= d
    BY <2>1, <1>1, <1>2
  <2> QED BY <2>1, <2>2, <2>3, <2>4, <1>4, ZenonT(40) DEF Ring, chunks
<1>6. used[g_first] /\ used[g_last] /\ ~used[second] /\ {c \in D : ~used[c]} = {second}
  BY <1>2, <1>3, Zenon
<1>7. SizeIn(next, second) = g_last - second - HEADER_SIZE
  BY <1>2, <1>3 DEF SizeIn
<1>8. k \in Slots
  BY <1>1, <1>7, SlotRange, Consts
<1> HIDE DEF k
<1>9. Exact(freeChunks, next, {second})
  <2>1. ASSUME NEW n \in Slots
        PROVE  /\ Range(freeChunks[n]) = {c \in {second} : memory_chunk_slot(SizeIn(next, c)) = n}
               /\ \A i, j \in DOMAIN freeChunks[n] : freeChunks[n][i] = freeChunks[n][j] => i = j
    <3>1. CASE n = k
      <4>1. freeChunks[n] = <<second>>
        BY <3>1, <1>3, <1>8
      <4>2. Range(<<second>>) = {second}
        BY DEF Range
      <4>3. memory_chunk_slot(SizeIn(next, second)) = n
        BY <3>1, <1>7 DEF k
      <4>4. {c \in {second} : memory_chunk_slot(SizeIn(next, c)) = n} = {second}
        BY <4>3
      <4>5. \A i, j \in DOMAIN <<second>> : <<second>>[i] = <<second>>[j] => i = j
        OBVIOUS
      <4> QED BY <4>1, <4>2, <4>4, <4>5
    <3>2. CASE n # k
      <4>1. freeChunks[n] = <<>>
        BY <3>2, <1>3
      <4>2. Range(<<>>) = {}
        BY DEF Range
      <4>3. memory_chunk_slot(SizeIn(next, second)) # n
        BY <3>2, <1>7 DEF k
      <4>4. {c \in {second} : memory_chunk_slot(SizeIn(next, c)) = n} = {}
        BY <4>3
      <4>5. \A i, j \in DOMAIN <<>> : <<>>[i] = <<>>[j] => i = j
        OBVIOUS
      <4> QED BY <4>1, <4>2, <4>4, <4>5
    <3> QED BY <3>1, <3>2
  <2> QED BY <2>1 DEF Exact
<1>10. freeChunks \in [Slots -> Seq(D)]
  <2>1. <<second>> \in Seq(D) /\ <<>> \in Seq(D)
    OBVIOUS
  <2> HIDE DEF D
  <2> QED BY <2>1, <1>3
<1>11. \A c \in D : ~used[c] => used[next[c]]
  BY <1>2, <1>3, Zenon
<1>12. HeapInv(next, prev, used, freeChunks)
  <2>1. Exact(freeChunks, next, {c \in D : ~used[c]})
    BY <1>6, <1>9
  <2> QED BY <2>1, <1>4, <1>5, <1>6, <1>10, <1>11, Zenon DEF HeapInv, chunks
<1>13. owned = [c \in {} |-> 0] /\ DOMAIN owned = {} /\ re = None /\ overrun = FALSE
  BY DEF Init
<1>14. HeldAreUsed
  <2>1. {c \in Payloads : used[c]} = {} /\ Pending = {}
    BY <1>4, <1>6, <1>13 DEF Payloads, Pending
  <2> QED BY <2>1, <1>13 DEF HeldAreUsed
<1> QED BY <1>12, <1>13, <1>14, IInvSplit, Zenon

\* Every step preserves it, one case per operation of heap.c.
LEMMA NextIInv == IInv /\ [Next]_vars => IInv'
<1> SUFFICES ASSUME IInv, [Next]_vars PROVE IInv'
  OBVIOUS
<1> DEFINE U == {a \in chunks : used[a]}
           ReType == [old : chunks, chunkSize : Int, ns : Sizes, ptr : chunks \cup {None}]
<1>1. HeapInv(next, prev, used, freeChunks)
  BY IInvSplit
<1>2. /\ DOMAIN owned \subseteq chunks /\ \A c \in DOMAIN owned : owned[c] \in Sizes
      /\ overrun \in BOOLEAN /\ (re = None \/ re \in ReType)
  BY IInvSplit
<1>3. /\ U \ {g_first, g_last} = DOMAIN owned \cup Pending
      /\ DOMAIN owned \cap Pending = {}
      /\ \A c \in DOMAIN owned : SizeIn(next, c) >= owned[c]
      /\ re # None => re.old \in DOMAIN owned /\ re.chunkSize = SizeIn(next, re.old)
      /\ Pending # {} => SizeIn(next, re.ptr) >= re.ns
  BY DEF IInv, HeldAreUsed, Payloads, memory_chunk_size
<1>4. \A c \in DOMAIN owned \cup Pending : c \in chunks /\ used[c] /\ c # g_first /\ c # g_last
  BY <1>3
<1>5. chunks = DOMAIN next /\ chunks' = DOMAIN next'
  BY DEF chunks
<1>6. ASSUME HeapInv(next', prev', used', freeChunks'),
             DOMAIN owned' \subseteq DOMAIN next', \A c \in DOMAIN owned' : owned'[c] \in Sizes,
             overrun' \in BOOLEAN, re' = None \/ re' \in ReType', 
             {a \in DOMAIN next' : used'[a]} \ {g_first, g_last} = DOMAIN owned' \cup Pending',
             DOMAIN owned' \cap Pending' = {},
             \A c \in DOMAIN owned' : SizeIn(next', c) >= owned'[c],
             re' # None => re'.old \in DOMAIN owned' /\ re'.chunkSize = SizeIn(next', re'.old),
             Pending' # {} => SizeIn(next', re'.ptr) >= re'.ns
      PROVE  IInv'
  <2>1. HeldAreUsed'
    BY <1>5, <1>6 DEF HeldAreUsed, Payloads, memory_chunk_size
  <2>2. ChunksTile' /\ FreeListsExact' /\ Coalesced'
    BY <1>6, Zenon DEF ChunksTile, FreeListsExact, FreeChunks, Coalesced, HeapInv, chunks
  <2>3. chunks' \subseteq 0 .. HeapSize
    BY <1>6, Consts DEF HeapInv, Ring, chunks
  <2>4. TypeOK'
    BY <2>3, <1>6, Zenon DEF TypeOK, HeapInv, chunks
  <2> QED BY <2>1, <2>2, <2>4, ZenonT(40) DEF IInv
\* kmalloc(size): the chunk becomes the caller's.
<1>7. ASSUME NEW size \in Sizes, kmalloc(size) PROVE IInv'
  <2>0. PICK n \in Candidates(Rounded(size)) : \E c \in {Head(freeChunks[n])} :
          /\ Take(Rounded(size), n, c)
          /\ owned' = [a \in DOMAIN owned \cup {c} |-> IF a = c THEN size ELSE owned[a]]
    BY <1>7 DEF kmalloc
  <2>1. PICK c \in {Head(freeChunks[n])} :
          /\ Take(Rounded(size), n, c)
          /\ owned' = [a \in DOMAIN owned \cup {c} |-> IF a = c THEN size ELSE owned[a]]
    BY <2>0
  <2>2. re' = re /\ overrun' = overrun /\ Pending' = Pending
    BY <1>7 DEF kmalloc, Pending
  <2>3. size \in Nat /\ Rounded(size) \in Int /\ size <= Rounded(size) /\ MIN_SIZE <= Rounded(size)
    BY RoundedBound, HeapAssumption, Zenon
  <2>4. /\ HeapInv(next', prev', used', freeChunks')
        /\ c \in chunks /\ c # g_first /\ c # g_last /\ ~used[c]
        /\ chunks \subseteq DOMAIN next'
        /\ {a \in DOMAIN next' : used'[a]} = U \cup {c}
        /\ \A a \in chunks \ {c} : next'[a] = next[a]
        /\ Rounded(size) <= SizeIn(next', c)
    BY <2>1, <2>3, <1>1, TakeStep, Zenon
  <2>5. DOMAIN owned' = DOMAIN owned \cup {c} /\ owned'[c] = size
        /\ \A a \in DOMAIN owned : a # c /\ owned'[a] = owned[a]
    BY <2>1, <2>4, <1>4, ZenonT(40)
  <2>6. c \notin DOMAIN owned /\ c \notin Pending
    BY <2>4, <1>4
  <2>7. SizeIn(next', c) >= size
    <3>1. SizeIn(next', c) \in Int
      BY <2>4, ChunkSlot, ZenonT(40) DEF HeapInv
    <3>2. Rounded(size) <= SizeIn(next', c)
      BY <2>4
    <3> QED BY <3>1, <3>2, <2>3
  <2>8. \A a \in DOMAIN owned \cup Pending : SizeIn(next', a) = SizeIn(next, a)
    BY <2>4, <2>6, <1>4, ZenonT(40) DEF SizeIn
  <2>9. \A a \in DOMAIN owned' : SizeIn(next', a) >= owned'[a]
    BY <2>5, <2>7, <2>8, <1>3
  <2>10. {a \in DOMAIN next' : used'[a]} \ {g_first, g_last} = DOMAIN owned' \cup Pending'
    BY <2>2, <2>4, <2>5, <1>3, Zenon
  <2>11. DOMAIN owned' \cap Pending' = {}
    BY <2>2, <2>5, <2>6, <1>3, Zenon
  <2>12. DOMAIN owned' \subseteq DOMAIN next' /\ \A a \in DOMAIN owned' : owned'[a] \in Sizes
    BY <2>4, <2>5, <1>2, Zenon
  <2>13. re' = None \/ re' \in ReType'
    BY <2>2, <2>4, <1>2, <1>5, Zenon
  <2>14. re' # None => re'.old \in DOMAIN owned' /\ re'.chunkSize = SizeIn(next', re'.old)
    BY <2>2, <2>5, <2>8, <1>3, ZenonT(40)
  <2>15. Pending' # {} => SizeIn(next', re'.ptr) >= re'.ns
    <3>1. Pending # {} => re.ptr \in Pending
      BY DEF Pending
    <3> QED BY <3>1, <2>2, <2>8, <1>3
  <2>16. overrun' \in BOOLEAN
    BY <2>2, <1>2, Zenon
  <2> QED BY <2>4, <2>9, <2>10, <2>11, <2>12, <2>13, <2>14, <2>15, <2>16, <1>6
\* kfree(c): the chunk is the caller's, and not the one a krealloc is copying.
<1>8. ASSUME NEW c \in DOMAIN owned, kfree(c) PROVE IInv'
  <2>1. /\ (re # None => c # re.old) /\ Release(c)
        /\ owned' = [a \in DOMAIN owned \ {c} |-> owned[a]]
        /\ re' = re /\ overrun' = overrun /\ Pending' = Pending
    BY <1>8 DEF kfree, Pending
  <2>2. c \in chunks /\ used[c] /\ c # g_first /\ c # g_last /\ c \notin Pending
    BY <1>3, <1>4, Zenon
  <2>3. /\ HeapInv(next', prev', used', freeChunks')
        /\ {a \in DOMAIN next' : used'[a]} = U \ {c}
        /\ \A a \in U \ {c} : next'[a] = next[a]
    BY <2>1, <2>2, <1>1, ReleaseStep, Zenon
  <2>4. DOMAIN owned' = DOMAIN owned \ {c} /\ \A a \in DOMAIN owned' : owned'[a] = owned[a]
    BY <2>1
  <2>5. \A a \in (DOMAIN owned \cup Pending) \ {c} : a \in DOMAIN next' /\ SizeIn(next', a) = SizeIn(next, a)
    BY <2>3, <1>4, Zenon DEF SizeIn
  <2>6. {a \in DOMAIN next' : used'[a]} \ {g_first, g_last} = DOMAIN owned' \cup Pending'
    BY <2>1, <2>2, <2>3, <2>4, <1>3, ZenonT(40)
  <2>7. DOMAIN owned' \cap Pending' = {}
    BY <2>1, <2>4, <1>3, Zenon
  <2>8. /\ DOMAIN owned' \subseteq DOMAIN next' /\ \A a \in DOMAIN owned' : owned'[a] \in Sizes
        /\ \A a \in DOMAIN owned' : SizeIn(next', a) >= owned'[a]
    BY <2>4, <2>5, <1>2, <1>3
  <2>9. Pending # {} => re.ptr \in Pending
    BY DEF Pending
  <2>10. re' # None => re'.old \in DOMAIN owned' /\ re'.chunkSize = SizeIn(next', re'.old)
    BY <2>1, <2>4, <2>5, <1>3, Zenon
  <2>11. Pending' # {} => SizeIn(next', re'.ptr) >= re'.ns
    BY <2>1, <2>2, <2>5, <2>9, <1>3, Zenon
  <2>12. re' = None \/ re' \in ReType'
    <3>1. re # None => re.old \in DOMAIN next' /\ re.ptr \in DOMAIN next' \cup {None}
      <4>1. re # None => re.old \in DOMAIN owned \ {c}
        BY <2>1, <1>3
      <4>2. re # None /\ re.ptr # None => re.ptr \in Pending
        BY DEF Pending
      <4> QED BY <4>1, <4>2, <2>2, <2>5, ZenonT(40)
    <3> QED BY <3>1, <2>1, <1>2, <1>5, Zenon
  <2>13. overrun' \in BOOLEAN
    BY <2>1, <1>2, ZenonT(40)
  <2> QED BY <2>3, <2>6, <2>7, <2>8, <2>10, <2>11, <2>12, <2>13, <1>6
\* krealloc(c, ns) up to its kmalloc: only the call is recorded.
<1>9. ASSUME NEW c \in DOMAIN owned, NEW ns \in Sizes, krealloc(c, ns) PROVE IInv'
  <2>1. /\ re = None /\ UNCHANGED <<next, prev, used, freeChunks, owned, overrun>>
        /\ re' = [old |-> c, chunkSize |-> SizeIn(next, c), ns |-> ns, ptr |-> None]
    BY <1>9 DEF krealloc, memory_chunk_size
  <2>2. Pending = {} /\ Pending' = {}
    BY <2>1 DEF Pending
  <2>3. c \in chunks /\ SizeIn(next, c) \in Int
    BY <1>1, <1>2, <1>4, ChunkSlot, ZenonT(40) DEF HeapInv, chunks
  <2>4. /\ re'.old = c /\ re'.chunkSize = SizeIn(next, c) /\ re' \in ReType'
        /\ re' \in [old : Int, chunkSize : Int, ns : Nat, ptr : Int \cup {None}]
    <3>1. c \in Int /\ ns \in Nat
      BY <2>3, <1>1, <1>4, ChunkSlot, HeapAssumption, ZenonT(40) DEF HeapInv, chunks
    <3> QED BY <3>1, <2>1, <2>3, <1>5
  <2>5. re' # None
    BY <2>4, HeapAssumption
  <2> QED BY <2>1, <2>2, <2>4, <2>5, <1>1, <1>2, <1>3, <1>5, <1>6, ZenonT(40)
\* krealloc's kmalloc: it fails, or its chunk is pending.
<1>10. ASSUME krealloc_kmalloc PROVE IInv'
  <2>1. /\ re # None /\ re.ptr = None /\ re \in ReType /\ re.ns \in Sizes
        /\ Pending = {} /\ owned' = owned /\ overrun' = overrun
    BY <1>2, <1>10, Zenon DEF krealloc_kmalloc, Pending
  <2>2. CASE re' = None /\ UNCHANGED <<next, prev, used, freeChunks>>
    <3>1. Pending' = {}
      BY <2>2, Zenon DEF Pending
    <3> QED BY <2>1, <2>2, <3>1, <1>1, <1>2, <1>3, <1>5, <1>6, Zenon
  <2>3. CASE \E n \in Candidates(Rounded(re.ns)) : \E c \in {Head(freeChunks[n])} :
               /\ Take(Rounded(re.ns), n, c)
               /\ re' = [re EXCEPT !.ptr = c]
    <3>1. PICK n \in Candidates(Rounded(re.ns)) : \E c \in {Head(freeChunks[n])} :
            Take(Rounded(re.ns), n, c) /\ re' = [re EXCEPT !.ptr = c]
      BY <2>3
    <3>2. PICK c \in {Head(freeChunks[n])} :
            Take(Rounded(re.ns), n, c) /\ re' = [re EXCEPT !.ptr = c]
      BY <3>1
    <3>3. re.ns \in Nat /\ Rounded(re.ns) \in Int /\ re.ns <= Rounded(re.ns) /\ MIN_SIZE <= Rounded(re.ns)
      BY <2>1, RoundedBound, HeapAssumption, Zenon
    <3>4. /\ HeapInv(next', prev', used', freeChunks')
          /\ c \in chunks /\ c # g_first /\ c # g_last /\ ~used[c]
          /\ chunks \subseteq DOMAIN next'
          /\ {a \in DOMAIN next' : used'[a]} = U \cup {c}
          /\ \A a \in chunks \ {c} : next'[a] = next[a]
          /\ Rounded(re.ns) <= SizeIn(next', c)
      BY <3>2, <3>3, <1>1, TakeStep, ZenonT(40)
    <3>5. c \in Int
      BY <3>4, <1>1, ChunkSlot DEF HeapInv, chunks
    <3>0. /\ re'.ptr = c /\ re'.old = re.old /\ re'.ns = re.ns
          /\ re'.chunkSize = re.chunkSize /\ re' \in ReType'
      BY <2>1, <3>2, <3>4, <1>5, Zenon
    <3>6. re' # None
      <4>1. re.old \in Int /\ re.chunkSize \in Int
        BY <2>1, <1>1, <1>3, <1>4, ChunkSlot DEF HeapInv, chunks
      <4>2. re' \in [old : Int, chunkSize : Int, ns : Nat, ptr : Int \cup {None}]
        BY <2>1, <3>2, <3>3, <3>5, <4>1
      <4> QED BY <4>2, HeapAssumption, ZenonT(40)
    <3>7. Pending' = {c}
      BY <3>0, <3>5, <3>6, HeapAssumption, ZenonT(40) DEF Pending
    <3>8. c \notin DOMAIN owned
      BY <3>4, <1>4
    <3>9. SizeIn(next', c) >= re.ns
      <4>1. SizeIn(next', c) \in Int
        BY <3>4, ChunkSlot, ZenonT(40) DEF HeapInv
      <4>2. Rounded(re.ns) <= SizeIn(next', c)
        BY <3>4
      <4> QED BY <4>1, <4>2, <3>3
    <3>10. \A a \in DOMAIN owned : SizeIn(next', a) = SizeIn(next, a)
      BY <3>4, <3>8, <1>4, Zenon DEF SizeIn
    <3>11. {a \in DOMAIN next' : used'[a]} \ {g_first, g_last} = DOMAIN owned' \cup Pending'
      BY <2>1, <3>4, <3>7, <1>3, Zenon
    <3>12. DOMAIN owned' \cap Pending' = {} /\ DOMAIN owned' \subseteq DOMAIN next'
      BY <2>1, <3>4, <3>7, <3>8, <1>2, Zenon
    <3>13. \A a \in DOMAIN owned' : SizeIn(next', a) >= owned'[a]
      BY <2>1, <3>10, <1>3, Zenon
    <3>14. re'.old \in DOMAIN owned' /\ re'.chunkSize = SizeIn(next', re'.old)
      BY <2>1, <3>0, <3>10, <1>3, Zenon
    <3>15. HeapInv(next', prev', used', freeChunks')
      BY <3>4, ZenonT(40)
    <3> QED BY <2>1, <3>0, <3>6, <3>9, <3>11, <3>12, <3>13, <3>14, <3>15, <1>2, <1>6, ZenonT(40)
  <2> QED BY <2>2, <2>3, <1>10 DEF krealloc_kmalloc
\* krealloc's kfree: the pending chunk replaces the old one.
<1>11. ASSUME krealloc_kfree PROVE IInv'
  <2> DEFINE c == re.old
             p == re.ptr
  <2>1. /\ re # None /\ p # None /\ re.ns \in Sizes /\ Release(c)
        /\ owned' = [a \in (DOMAIN owned \ {c}) \cup {p} |-> IF a = p THEN re.ns ELSE owned[a]]
        /\ re' = None /\ overrun' = overrun /\ Pending = {p} /\ Pending' = {}
    BY <1>2, <1>11 DEF krealloc_kfree, Pending
  <2>2. /\ c \in DOMAIN owned /\ p \notin DOMAIN owned /\ p # c
        /\ c \in chunks /\ used[c] /\ c # g_first /\ c # g_last
        /\ SizeIn(next, p) >= re.ns
    BY <2>1, <1>3, <1>4, Zenon
  <2> HIDE DEF c, p
  <2>3. /\ HeapInv(next', prev', used', freeChunks')
        /\ {a \in DOMAIN next' : used'[a]} = U \ {c}
        /\ \A a \in U \ {c} : next'[a] = next[a]
    BY <2>1, <2>2, <1>1, ReleaseStep, ZenonT(40)
  <2>4. /\ DOMAIN owned' = (DOMAIN owned \ {c}) \cup {p} /\ owned'[p] = re.ns
        /\ \A a \in DOMAIN owned \ {c} : owned'[a] = owned[a]
    BY <2>1, <2>2
  <2>5. \A a \in (DOMAIN owned \cup {p}) \ {c} : a \in DOMAIN next' /\ SizeIn(next', a) = SizeIn(next, a)
    BY <2>1, <2>3, <1>4, Zenon DEF SizeIn
  <2>6. {a \in DOMAIN next' : used'[a]} \ {g_first, g_last} = DOMAIN owned' \cup Pending'
    BY <2>1, <2>2, <2>3, <2>4, <1>3, Zenon
  <2>7. /\ DOMAIN owned' \subseteq DOMAIN next' /\ \A a \in DOMAIN owned' : owned'[a] \in Sizes
        /\ \A a \in DOMAIN owned' : SizeIn(next', a) >= owned'[a]
    BY <2>1, <2>2, <2>4, <2>5, <1>2, <1>3, ZenonT(40)
  <2> QED BY <2>1, <2>3, <2>6, <2>7, <1>2, <1>6, ZenonT(40)
\* Nothing changes but the record of the overrun.
<1>12. ASSUME krealloc_overrun \/ Corrupted \/ UNCHANGED vars PROVE IInv'
  <2>1. UNCHANGED <<next, prev, used, freeChunks, owned, re>> /\ overrun' \in BOOLEAN
    BY <1>2, <1>12, Zenon DEF krealloc_overrun, Corrupted, vars
  <2>2. Pending' = Pending
    BY <2>1 DEF Pending
  <2> QED BY <2>1, <2>2, <1>1, <1>2, <1>3, <1>5, <1>6, Zenon
<1> QED BY <1>7, <1>8, <1>9, <1>10, <1>11, <1>12 DEF Next

\* The invariant holds in every reachable state of the heap.
THEOREM HeapSafe == Spec => []IInv
BY InitIInv, NextIInv, PTL DEF Spec

\* heap.c keeps its chunks and free lists sound, coalesces, and marks exactly the
\* chunks its callers hold, for every arena and every sequence of calls.
THEOREM HeapInvariants == Spec => [](TypeOK /\ ChunksTile /\ FreeListsExact /\ Coalesced /\ HeldAreUsed)
BY HeapSafe, PTL DEF IInv

\* kmalloc finds every free chunk, each in the list of its size class, whatever
\* splits and merges came before.
THEOREM HeapListsExact == Spec => []FreeListsExact
BY HeapInvariants, PTL

\* Two free chunks are never neighbours: kfree has merged them.
THEOREM HeapCoalesced == Spec => []Coalesced
BY HeapInvariants, PTL

\* A block that a caller holds stays allocated and long enough until it is freed,
\* also while a krealloc of another block is between its steps.
THEOREM HeapHeld == Spec => []HeldAreUsed
BY HeapInvariants, PTL
-----------------------------------------------------------------------------
\* The block a chunk stands for.
BlockOf(nx, c) == [at |-> c + HEADER_SIZE, len |-> SizeIn(nx, c)]

\* The payloads of two different chunks do not overlap.
LEMMA BlocksDisjoint ==
  ASSUME NEW D, NEW nx \in [D -> D], NEW pv, Ring(nx, pv),
         NEW c \in D, NEW d \in D, c # g_last, d # g_last, c # d
  PROVE  Allocator!Disjoint(BlockOf(nx, c), BlockOf(nx, d))
<1>1. /\ c \in Int /\ d \in Int /\ nx[c] \in Int /\ nx[d] \in Int
      /\ c + SizeofChunk <= nx[c] /\ d + SizeofChunk <= nx[d]
  BY ChunkSlot
<1>2. (d <= c \/ nx[c] <= d) /\ (c <= d \/ nx[d] <= c)
  BY DEF Ring
<1>3. /\ BlockOf(nx, c).at = c + HEADER_SIZE /\ BlockOf(nx, c).len = nx[c] - c - HEADER_SIZE
      /\ BlockOf(nx, d).at = d + HEADER_SIZE /\ BlockOf(nx, d).len = nx[d] - d - HEADER_SIZE
  BY DEF BlockOf, SizeIn
<1>4. \/ c + HEADER_SIZE + (nx[c] - c - HEADER_SIZE) <= d + HEADER_SIZE
      \/ d + HEADER_SIZE + (nx[d] - d - HEADER_SIZE) <= c + HEADER_SIZE
  BY <1>1, <1>2, Consts
<1> QED BY <1>3, <1>4 DEF Allocator!Disjoint

\* A kmalloc step hands out one new block, disjoint from the others.
LEMMA TakeAllocates ==
  ASSUME HeapInv(next, prev, used, freeChunks), NEW size \in Sizes,
         NEW n \in Candidates(Rounded(size)), NEW c, c = Head(freeChunks[n]),
         Take(Rounded(size), n, c)
  PROVE  Allocator!Allocate(size)
<1> DEFINE U == {a \in chunks : used[a]}
           V == {d \in Payloads : used[d]}
           W == V \cup {c}
           b == BlockOf(next', c)
<1>1. size \in Nat /\ Rounded(size) \in Int /\ size <= Rounded(size) /\ MIN_SIZE <= Rounded(size)
  BY RoundedBound, HeapAssumption, ZenonT(40)
<1>2. /\ HeapInv(next', prev', used', freeChunks')
      /\ c \in chunks /\ c # g_first /\ c # g_last /\ ~used[c]
      /\ chunks \subseteq DOMAIN next'
      /\ {a \in DOMAIN next' : used'[a]} = U \cup {c}
      /\ \A a \in chunks \ {c} : next'[a] = next[a]
      /\ Rounded(size) <= SizeIn(next', c)
  BY <1>1, TakeStep
<1>3. \A a \in V : a \in chunks /\ a # c /\ a # g_last /\ BlockOf(next', a) = BlockOf(next, a)
  BY <1>2, ZenonT(40) DEF Payloads, BlockOf, SizeIn
<1>4. {d \in Payloads' : used'[d]} = W
  BY <1>2, ZenonT(40) DEF Payloads, chunks
<1>5. Blocks = {BlockOf(next, a) : a \in V} /\ Blocks' = {BlockOf(next', a) : a \in W}
  BY <1>4, Zenon DEF Blocks, BlockOf, memory_chunk_size
<1>6. Blocks' = Blocks \cup {b}
  BY <1>3, <1>5, Zenon
<1>7. /\ c \in Int /\ next'[c] \in Int /\ SizeIn(next', c) \in Int
      /\ next'[c] \in g_first .. g_last /\ c \in g_first .. g_last
      /\ c \in DOMAIN next' /\ next' \in [DOMAIN next' -> DOMAIN next'] /\ Ring(next', prev')
  <2>1. /\ next' \in [DOMAIN next' -> DOMAIN next'] /\ Ring(next', prev') /\ c \in DOMAIN next'
        /\ DOMAIN next' \subseteq g_first .. g_last
    BY <1>2, Zenon DEF HeapInv, Ring
  <2>2. c \in Int /\ next'[c] \in Int /\ SizeIn(next', c) \in Int
    BY <2>1, <1>2, ChunkSlot
  <2>3. next'[c] \in DOMAIN next'
    BY <2>1
  <2> QED BY <2>1, <2>2, <2>3, Zenon
<1>8. b.at = c + HEADER_SIZE /\ b.len = SizeIn(next', c) /\ b.len = next'[c] - c - HEADER_SIZE
  BY Zenon DEF BlockOf, SizeIn
<1>9. b.at \in Int /\ b.len \in Int /\ b.len >= size /\ 0 <= b.at /\ b.at + b.len <= HeapSize
  <2>1. Rounded(size) <= SizeIn(next', c)
    BY <1>2
  <2>2. /\ c \in Int /\ next'[c] \in Int /\ SizeIn(next', c) \in Int
        /\ next'[c] <= g_last /\ g_first <= c
    BY <1>7, Consts
  <2> QED BY <2>1, <2>2, <1>1, <1>8, Consts
<1>10. ASSUME NEW x \in Blocks PROVE Allocator!Disjoint(b, x) /\ x # b
  <2>1. PICK a \in V : x = BlockOf(next', a)
    BY <1>3, <1>5, Zenon
  <2>2. a \in DOMAIN next' /\ a # c /\ a # g_last
    BY <1>2, <1>3, Zenon
  <2>3. Allocator!Disjoint(b, x)
    BY <2>1, <2>2, <1>2, <1>7, BlocksDisjoint, Zenon
  <2>4. x.at = a + HEADER_SIZE /\ a \in Int
    BY <2>1, <2>2, <1>7, ChunkSlot, ZenonT(40) DEF BlockOf
  <2>5. x # b
    BY <2>2, <2>4, <1>7, <1>8, Consts
  <2> QED BY <2>3, <2>5
<1>11. b \in Blocks' \ Blocks
  BY <1>6, <1>10
<1> HIDE DEF b
<1> QED BY <1>6, <1>9, <1>10, <1>11 DEF Allocator!Allocate

\* A kfree step takes back one block.
LEMMA ReleaseFrees ==
  ASSUME HeapInv(next, prev, used, freeChunks),
         NEW c \in chunks, used[c], c # g_first, c # g_last, Release(c)
  PROVE  Allocator!Free
<1> DEFINE U == {a \in chunks : used[a]}
           V == {d \in Payloads : used[d]}
<1>1. /\ HeapInv(next', prev', used', freeChunks')
      /\ {a \in DOMAIN next' : used'[a]} = U \ {c}
      /\ \A a \in U \ {c} : next'[a] = next[a]
  BY ReleaseStep
<1>2. c \in V /\ \A a \in V \ {c} : BlockOf(next', a) = BlockOf(next, a)
  BY <1>1, Zenon DEF Payloads, BlockOf, SizeIn
<1>3. {d \in Payloads' : used'[d]} = V \ {c}
  BY <1>1 DEF Payloads, chunks
<1>4. Blocks = {BlockOf(next, a) : a \in V} /\ Blocks' = {BlockOf(next', a) : a \in V \ {c}}
  BY <1>3, Zenon DEF Blocks, BlockOf, memory_chunk_size
<1>5. ASSUME NEW a \in V \ {c} PROVE BlockOf(next, a) # BlockOf(next, c)
  <2>1. a \in Int /\ c \in Int /\ a # c
    BY <1>5, ChunkSlot DEF HeapInv, chunks, Payloads
  <2>2. BlockOf(next, a).at = a + HEADER_SIZE /\ BlockOf(next, c).at = c + HEADER_SIZE
    BY DEF BlockOf
  <2> QED BY <2>1, <2>2, Consts
<1>6. BlockOf(next, c) \in Blocks
  BY <1>2, <1>4
<1>7. Blocks' = Blocks \ {BlockOf(next, c)}
  BY <1>2, <1>4, <1>5, Zenon
<1> QED BY <1>6, <1>7, ZenonT(40) DEF Allocator!Free

\* Every step of the heap is a step of the allocator or leaves its blocks alone.
LEMMA StepRefines ==
  ASSUME IInv, [Next]_vars
  PROVE  [Allocator!Next]_Blocks
<1>1. HeapInv(next, prev, used, freeChunks)
  BY IInvSplit
<1>2. \A c \in DOMAIN owned : c \in chunks /\ used[c] /\ c # g_first /\ c # g_last
  BY DEF IInv, HeldAreUsed, Payloads
<1>3. re # None => re.old \in DOMAIN owned /\ re.ns \in Sizes
  BY DEF IInv, HeldAreUsed, TypeOK
<1>4. ASSUME UNCHANGED <<next, used>> PROVE Blocks' = Blocks
  BY <1>4 DEF Blocks, Payloads, memory_chunk_size, SizeIn, chunks
<1>5. ASSUME NEW size \in Sizes, kmalloc(size) PROVE Allocator!Next
  <2>1. PICK n \in Candidates(Rounded(size)) : \E c \in {Head(freeChunks[n])} :
          Take(Rounded(size), n, c)
    BY <1>5 DEF kmalloc
  <2>2. Allocator!Allocate(size)
    BY <2>1, <1>1, TakeAllocates
  <2> QED BY <2>2 DEF Allocator!Next
<1>6. ASSUME NEW c \in DOMAIN owned, kfree(c) PROVE Allocator!Next
  <2>1. Release(c)
    BY <1>6, Zenon DEF kfree
  <2>2. Allocator!Free
    BY <2>1, <1>1, <1>2, ReleaseFrees
  <2> QED BY <2>2 DEF Allocator!Next
<1>7. ASSUME krealloc_kmalloc PROVE Allocator!Next \/ Blocks' = Blocks
  <2>1. CASE UNCHANGED <<next, prev, used, freeChunks>>
    BY <2>1, <1>4
  <2>2. CASE \E n \in Candidates(Rounded(re.ns)) : \E c \in {Head(freeChunks[n])} :
               Take(Rounded(re.ns), n, c)
    <3>1. re.ns \in Sizes
      BY <1>3, <1>7 DEF krealloc_kmalloc
    <3>2. PICK n \in Candidates(Rounded(re.ns)) : \E c \in {Head(freeChunks[n])} :
            Take(Rounded(re.ns), n, c)
      BY <2>2
    <3>3. Allocator!Allocate(re.ns)
      BY <3>1, <3>2, <1>1, TakeAllocates
    <3> QED BY <3>1, <3>3 DEF Allocator!Next
  <2> QED BY <2>1, <2>2, <1>7 DEF krealloc_kmalloc
<1>8. ASSUME krealloc_kfree PROVE Allocator!Next
  <2>1. Release(re.old) /\ re.old \in DOMAIN owned
    BY <1>3, <1>8 DEF krealloc_kfree
  <2>2. Allocator!Free
    BY <2>1, <1>1, <1>2, ReleaseFrees, Zenon
  <2> QED BY <2>2 DEF Allocator!Next
<1>9. ASSUME krealloc_overrun \/ Corrupted \/ UNCHANGED vars
             \/ \E c \in DOMAIN owned, ns \in Sizes : krealloc(c, ns)
      PROVE  Blocks' = Blocks
  BY <1>4, <1>9, Zenon DEF krealloc_overrun, Corrupted, vars, krealloc
<1> QED BY <1>5, <1>6, <1>7, <1>8, <1>9, ZenonT(40) DEF Next

\* heap_init hands out nothing.
LEMMA InitRefines == Init => Allocator!Init
<1> SUFFICES ASSUME Init PROVE Blocks = {}
  BY DEF Allocator!Init
<1>1. {c \in Payloads : used[c]} = {}
  BY Zenon DEF Init, Payloads, chunks
<1> QED BY <1>1 DEF Blocks

\* The heap of heap.c implements the allocator its callers rely on: what kmalloc
\* and krealloc hand out lies in the arena, is long enough and overlaps nothing in
\* use, and what kfree takes back is one block.
THEOREM HeapRefines == Spec => Implements
<1>1. Init => Allocator!Init
  BY InitRefines
<1>2. IInv /\ [Next]_vars => [Allocator!Next]_Blocks
  BY StepRefines
<1> QED BY <1>1, <1>2, HeapSafe, PTL DEF Spec, Implements, Allocator!Spec
=============================================================================
