------------------------------- MODULE FilesProofs ------------------------------
(***************************************************************************)
(* Proofs about Files, for any number of processes, names, paths and       *)
(* nodes.  The invariant has three parts: the directories form a tree of   *)
(* which every node that exists is part; the descriptors of all processes  *)
(* lead to nodes that exist, and know their sizes; and a directory stream  *)
(* has returned a prefix of its directory.                                 *)
(*                                                                         *)
(* The loops over the components of a path are recursive functions.  What  *)
(* they compute is proved by induction, in the form of a least index at    *)
(* which something would be wrong.                                         *)
(***************************************************************************)
EXTENDS Files, TLAPS, WellFoundedInduction

LEMMA NatLeast ==
    ASSUME NEW S \in SUBSET Nat, S # {}
    PROVE  \E n \in S : \A m \in S : n <= m
<1> DEFINE R == {ss \in Nat \X Nat : ss[1] < ss[2]}
<1>1. IsWellFoundedOn(R, Nat)
  BY NatLessThanWellFounded DEF OpToRel
<1>2. \E x \in S : \A y \in S : ~(<<y, x>> \in R)
  <2> HIDE DEF R
  <2> QED BY <1>1, WFMin, Zenon
<1>3. \A x, y \in Nat : x < y => <<x, y>> \in R
  OBVIOUS
<1>4. PICK n \in S : \A y \in S : ~(<<y, n>> \in R)
  BY <1>2
<1>5. \A y \in S : ~(y < n)
  <2> HIDE DEF R
  <2> QED BY <1>3, <1>4, Zenon
<1> QED BY <1>5

(* Induction up to n, over a set that stands for what is to be shown.       *)
LEMMA UpTo ==
    ASSUME NEW n \in Nat, NEW S, 0 \in S, \A k \in 1 .. n : k - 1 \in S => k \in S
    PROVE  0 .. n \subseteq S
<1> SUFFICES ASSUME (0 .. n) \ S # {} PROVE FALSE
  OBVIOUS
<1>0. (0 .. n) \ S \in SUBSET Nat
  OBVIOUS
<1>1. PICK k \in (0 .. n) \ S : \A m \in (0 .. n) \ S : k <= m
  BY <1>0, NatLeast, Zenon
<1>2. k # 0 /\ k \in 1 .. n /\ k - 1 \in 0 .. n
  BY <1>1
<1>3. k - 1 \in S
  BY <1>1, <1>2
<1> QED BY <1>1, <1>2, <1>3

(* A sequence with one element replaced.                                    *)
Put(e, s, k, x) == e = [s EXCEPT ![k] = x]

PutIn(S, e, s, k, x) ==
    e \in Seq(S) /\ Len(e) = Len(s) /\ e[k] = x /\ \A j \in 1 .. Len(s) : j # k => e[j] = s[j]

LEMMA SeqReplaced ==
    ASSUME NEW S, NEW s \in Seq(S), NEW k \in 1 .. Len(s), NEW x \in S,
           NEW e, Put(e, s, k, x)
    PROVE  PutIn(S, e, s, k, x)
<1>0. e = [s EXCEPT ![k] = x]
  BY DEF Put
<1>1. Len(s) \in Nat /\ s \in [1 .. Len(s) -> S]
  OBVIOUS
<1>2. [s EXCEPT ![k] = x] \in [1 .. Len(s) -> S]
  BY <1>1, Zenon
<1>3. [s EXCEPT ![k] = x] \in Seq(S) /\ Len([s EXCEPT ![k] = x]) = Len(s)
  BY <1>1, <1>2
<1> QED BY <1>0, <1>1, <1>3, Zenon DEF PutIn

(* A recursive function over 0 .. n whose values stay in D exists.          *)
Recurs(g, D, b, n, F) ==
    g \in [0 .. n -> D] /\ g[0] = b /\ \A k \in 1 .. n : g[k] = F[<<g[k - 1], k>>]

LEMMA Recursion ==
    ASSUME NEW D, NEW b \in D, NEW n \in Nat, NEW F \in [D \X (1 .. n) -> D]
    PROVE  \E g : Recurs(g, D, b, n, F)
<1> DEFINE Upto(g, m) == g \in [0 .. m -> D] /\ g[0] = b
                         /\ \A k \in 1 .. m : g[k] = F[<<g[k - 1], k>>]
           S == {m \in 0 .. n : \E g : Upto(g, m)}
<1>1. 0 \in S
  <2> DEFINE g == [k \in 0 .. 0 |-> b]
  <2>1. g \in [0 .. 0 -> D] /\ g[0] = b /\ 1 .. 0 = {}
    OBVIOUS
  <2> HIDE DEF g
  <2>2. Upto(g, 0)
    BY <2>1
  <2> HIDE DEF Upto
  <2> QED BY <2>2
<1>2. ASSUME NEW m \in 1 .. n, m - 1 \in S PROVE m \in S
  <2>1. PICK g : Upto(g, m - 1)
    BY <1>2
  <2> DEFINE h == [k \in 0 .. m |-> IF k < m THEN g[k] ELSE F[<<g[m - 1], m>>]]
  <2>2. g[m - 1] \in D /\ F[<<g[m - 1], m>>] \in D
    BY <2>1
  <2>3. h \in [0 .. m -> D]
    BY <2>1, <2>2
  <2>4. ASSUME NEW k \in 1 .. m PROVE h[k] = F[<<h[k - 1], k>>]
    <3>1. h[k - 1] = g[k - 1]
      <4>1. k - 1 \in 0 .. m /\ k - 1 < m
        OBVIOUS
      <4> QED BY <4>1
    <3>2. CASE k < m
      <4>1. h[k] = g[k] /\ k \in 1 .. m - 1
        BY <3>2
      <4> HIDE DEF h
      <4> QED BY <4>1, <3>1, <2>1
    <3>3. CASE k = m
      <4>1. h[k] = F[<<g[m - 1], m>>]
        BY <3>3
      <4> HIDE DEF h
      <4> QED BY <4>1, <3>1, <3>3
    <3> QED BY <3>2, <3>3
  <2>5. h[0] = b
    BY <2>1
  <2> HIDE DEF h
  <2>6. Upto(h, m)
    BY <2>3, <2>4, <2>5
  <2> HIDE DEF Upto
  <2> QED BY <2>6
<1>3. 0 .. n \subseteq S
  <2> HIDE DEF S
  <2> QED BY <1>1, <1>2, UpTo
<1>4. PICK g : Upto(g, n)
  <2> HIDE DEF Upto
  <2> QED BY <1>3
<1>5. Recurs(g, D, b, n, F)
  BY <1>4 DEF Recurs
<1> QED BY <1>5
--------------------------------------------------------------------------------
(* The loops over the components of a path, step by step.                   *)
Component == Names \cup {Dot, DotDot}

PushSteps(g, out, comps) ==
    /\ g \in [0 .. Len(comps) -> Seq(Names)] /\ g[0] = out
    /\ \A k \in 1 .. Len(comps) : g[k] = Pushed(g[k - 1], comps[k])

LEMMA PushedType ==
    ASSUME NEW out \in Seq(Names), NEW c \in Component
    PROVE  Pushed(out, c) \in Seq(Names)
<1>1. CASE c = DotDot /\ out # <<>>
  <2>1. Popped(out) \in Seq(Names)
    BY <1>1 DEF Popped
  <2> QED BY <1>1, <2>1 DEF Pushed
<1>2. CASE c # DotDot /\ c # Dot
  <2>1. c \in Names
    BY <1>2 DEF Component
  <2> QED BY <1>2, <2>1 DEF Pushed
<1>3. CASE (c = DotDot /\ out = <<>>) \/ (c # DotDot /\ c = Dot)
  BY <1>3 DEF Pushed
<1> QED BY <1>1, <1>2, <1>3

LEMMA PushAllSteps ==
    ASSUME NEW out \in Seq(Names), NEW comps \in Seq(Component)
    PROVE  \E g : PushSteps(g, out, comps) /\ PushAll(out, comps) = g[Len(comps)]
<1> DEFINE n == Len(comps)
           D == Seq(Names)
           F == [x \in D \X (1 .. n) |-> Pushed(x[1], comps[x[2]])]
           Eq(w) == w = [k \in 0 .. n |-> IF k = 0 THEN out ELSE Pushed(w[k - 1], comps[k])]
           w == CHOOSE w : Eq(w)
<1>1. n \in Nat /\ \A k \in 1 .. n : comps[k] \in Component
  OBVIOUS
<1> HIDE DEF n
<1>2. F \in [D \X (1 .. n) -> D]
  BY <1>1, PushedType
<1>3. \A x \in D, k \in 1 .. n : F[<<x, k>>] = Pushed(x, comps[k])
  OBVIOUS
<1>0. PICK g : Recurs(g, D, out, n, F)
  <2> HIDE DEF F, D
  <2>1. out \in D
    BY DEF D
  <2> QED BY <1>1, <1>2, <2>1, Recursion, Zenon
<1>4. g \in [0 .. n -> D] /\ g[0] = out /\ \A k \in 1 .. n : g[k] = F[<<g[k - 1], k>>]
  BY <1>0, Zenon DEF Recurs
<1>5. ASSUME NEW k \in 1 .. n PROVE g[k] = Pushed(g[k - 1], comps[k])
  <2>1. g[k - 1] \in D
    BY <1>4, <1>1
  <2> HIDE DEF F, D
  <2> QED BY <1>3, <1>4, <2>1, Zenon
<1> HIDE DEF F, D
<1>6. Eq(g)
  <2>1. \A k \in 0 .. n : g[k] = IF k = 0 THEN out ELSE Pushed(g[k - 1], comps[k])
    BY <1>1, <1>4, <1>5
  <2>2. g = [k \in 0 .. n |-> g[k]]
    BY <1>4
  <2> QED BY <2>1, <2>2, Zenon
<1>7. Eq(w)
  <2> HIDE DEF Eq
  <2> QED BY <1>6
<1>8. PushAll(out, comps) = w[n]
  BY DEF PushAll, n
<1> HIDE DEF w
<1>9. \A k \in 0 .. n : w[k] = g[k]
  <2> DEFINE S == {k \in 0 .. n : w[k] = g[k]}
  <2>1. w[0] = g[0] /\ 0 \in 0 .. n
    BY <1>1, <1>4, <1>7
  <2>2. ASSUME NEW k \in 1 .. n, k - 1 \in S PROVE k \in S
    <3>1. k \in 0 .. n /\ w[k] = Pushed(w[k - 1], comps[k])
      BY <1>1, <1>7
    <3> QED BY <3>1, <2>2, <1>5
  <2>3. 0 .. n \subseteq S
    <3>1. 0 \in S
      BY <2>1
    <3> HIDE DEF S
    <3> QED BY <3>1, <2>2, <1>1, UpTo, Zenon
  <2> QED BY <2>3
<1>10. PushSteps(g, out, comps) /\ w[n] = g[n]
  BY <1>1, <1>4, <1>5, <1>9 DEF PushSteps, n, D
<1> QED BY <1>8, <1>10 DEF n

LEMMA Normalized ==
    ASSUME NEW cwd \in Seq(Names), NEW path, path.comps \in Seq(Component)
    PROVE  normalizePath(cwd, path) \in Seq(Names)
<1>1. ASSUME NEW out \in Seq(Names) PROVE PushAll(out, path.comps) \in Seq(Names)
  <2>1. PICK g : PushSteps(g, out, path.comps) /\ PushAll(out, path.comps) = g[Len(path.comps)]
    BY PushAllSteps
  <2>2. Len(path.comps) \in 0 .. Len(path.comps)
    OBVIOUS
  <2> QED BY <2>1, <2>2, Zenon DEF PushSteps
<1>2. <<>> \in Seq(Names)
  OBVIOUS
<1> QED BY <1>1, <1>2, Zenon DEF normalizePath
--------------------------------------------------------------------------------
(* Directories.                                                             *)
EntryNames == Names \cup {Dot, DotDot, Stray} \cup {Separator \o c : c \in Names}

EntryT == [name : EntryNames, id : {None} \cup Ids]

LEMMA SizesNat == \A x \in 0 .. MaxSize : x \in Nat
  BY FilesAssumption

LEMMA LenNat == ASSUME NEW S, NEW s \in Seq(S) PROVE Len(s) \in Nat
OBVIOUS

LEMMA AtMostItself == \A x \in Nat : x <= x
OBVIOUS

LEMMA AtMostAlso == \A x, y, z \in Nat : x <= y /\ y <= z => x <= z
OBVIOUS

LEMMA SizeItself == \A m \in Nat : \A x \in 0 .. m : x <= x
OBVIOUS

LEMMA InLonger == \A m, n \in Nat : m <= n => \A k \in 1 .. m : k \in 1 .. n
OBVIOUS

LEMMA SumBounded ==
    \A m \in Nat : \A s \in 0 .. m : \A x, c \in Int :
       x + c <= s => x + c \in Int /\ x + c <= m + 1
OBVIOUS

LEMMA NothingAdded == ASSUME NEW S, NEW s \in Seq(S) PROVE s \o <<>> = s
OBVIOUS

FsNode == [kind : {"none", "file", "dir"}, size : 0 .. MaxSize, entries : Seq(EntryT)]

FsType == [Ids -> FsNode]

LEMMA RootId == Root \in Ids /\ None \notin Ids
BY FilesAssumption DEF Root, None, Ids

LEMMA FsFields ==
    ASSUME NEW f \in FsType, NEW i \in Ids
    PROVE  /\ f[i] \in FsNode /\ f[i].kind \in {"none", "file", "dir"} /\ f[i].size \in 0 .. MaxSize
           /\ f[i].entries \in Seq(EntryT)
           /\ \A k \in 1 .. Len(f[i].entries) :
                 f[i].entries[k] \in EntryT /\ f[i].entries[k].id \in {None} \cup Ids
<1>1. f[i] \in FsNode
  BY DEF FsType
<1>2. /\ f[i].kind \in {"none", "file", "dir"} /\ f[i].size \in 0 .. MaxSize
      /\ f[i].entries \in Seq(EntryT)
  BY <1>1 DEF FsNode
<1>3. \A k \in 1 .. Len(f[i].entries) : f[i].entries[k] \in EntryT
  BY <1>2
<1>4. \A x \in EntryT : x.id \in {None} \cup Ids
  BY DEF EntryT
<1> QED BY <1>1, <1>2, <1>3, <1>4

(* The first entry with a name.                                             *)
FirstAt(e, k, name) ==
    k \in 1 .. Len(e) /\ e[k].name = name /\ \A j \in 1 .. k - 1 : e[j].name # name

LEMMA FirstAppended ==
    ASSUME NEW e, NEW n \in Nat, NEW k, k = n + 1, k \in 1 .. Len(e), NEW name,
           e[k].name = name, \A j \in 1 .. n : e[j].name # name
    PROVE  FirstAt(e, k, name)
BY DEF FirstAt

Continues(d, e) ==
    /\ Len(d) \in Nat /\ Len(e) \in Nat /\ Len(d) <= Len(e)
    /\ \A j \in 1 .. Len(d) : e[j] = d[j]

LEMMA FirstKept ==
    ASSUME NEW d, NEW e, NEW k, NEW name, FirstAt(d, k, name), Continues(d, e)
    PROVE  FirstAt(e, k, name)
<1>1. k \in 1 .. Len(d) /\ d[k].name = name /\ \A j \in 1 .. k - 1 : d[j].name # name
  BY Zenon DEF FirstAt
<1>2. k \in 1 .. Len(e) /\ e[k] = d[k]
  BY <1>1 DEF Continues
<1>3. \A j \in 1 .. k - 1 : j \in 1 .. Len(d)
  BY <1>1 DEF Continues
<1> QED BY <1>1, <1>2, <1>3, ZenonT(40) DEF FirstAt, Continues

LEMMA FindFirst ==
    ASSUME NEW f \in FsType, NEW i \in Ids, NEW name, NEW k,
           f[i].kind = "dir", FirstAt(f[i].entries, k, name)
    PROVE  vfs_finddir(f, i, name) = f[i].entries[k].id
<1> DEFINE e == f[i].entries
           at == {j \in DOMAIN e : e[j].name = name}
<1>1. e \in Seq(EntryT) /\ Len(e) \in Nat /\ DOMAIN e = 1 .. Len(e)
  BY FsFields
<1>2. k \in at /\ \A j \in at : k <= j
  <2>1. k \in 1 .. Len(e) /\ e[k].name = name /\ \A j \in 1 .. k - 1 : e[j].name # name
    BY DEF FirstAt
  <2> HIDE DEF e
  <2> QED BY <1>1, <2>1
<1>3. First(at) = k
  <2>1. at \subseteq Nat
    BY <1>1
  <2>2. First(at) = CHOOSE x \in at : \A y \in at : x <= y
    BY DEF First
  <2> HIDE DEF at
  <2>3. First(at) \in at /\ \A y \in at : First(at) <= y
    BY <1>2, <2>2
  <2>4. First(at) <= k /\ k <= First(at) /\ First(at) \in Nat /\ k \in Nat
    BY <1>2, <2>1, <2>3, Zenon
  <2> QED BY <2>4
<1>4. vfs_finddir(f, i, name) = IF f[i].kind # "dir" \/ at = {} THEN None ELSE e[First(at)].id
  BY DEF vfs_finddir
<1> HIDE DEF at, e
<1>5. vfs_finddir(f, i, name) = e[k].id
  BY <1>2, <1>3, <1>4
<1> QED BY <1>5 DEF e

LEMMA FindCases ==
    ASSUME NEW f \in FsType, NEW i \in Ids, NEW name
    PROVE  \/ f[i].kind = "dir" /\ \E k : FirstAt(f[i].entries, k, name)
           \/ /\ vfs_finddir(f, i, name) = None
              /\ f[i].kind = "dir" => \A k \in 1 .. Len(f[i].entries) : f[i].entries[k].name # name
<1> DEFINE e == f[i].entries
           at == {j \in DOMAIN e : e[j].name = name}
<1>1. e \in Seq(EntryT) /\ Len(e) \in Nat /\ DOMAIN e = 1 .. Len(e)
  BY FsFields
<1>2. vfs_finddir(f, i, name) = IF f[i].kind # "dir" \/ at = {} THEN None ELSE e[First(at)].id
  BY DEF vfs_finddir
<1>3. CASE at # {}
  <2>1. at \in SUBSET Nat
    BY <1>1
  <2>2. PICK k \in at : \A j \in at : k <= j
    <3> HIDE DEF at
    <3> QED BY <1>3, <2>1, NatLeast
  <2> HIDE DEF e
  <2>3. FirstAt(e, k, name)
    <3>1. k \in 1 .. Len(e) /\ e[k].name = name
      BY <1>1, <2>2
    <3>2. ASSUME NEW j \in 1 .. k - 1, e[j].name = name PROVE FALSE
      <4>1. j \in 1 .. Len(e)
        BY <3>1, <1>1
      <4>2. j \in at
        BY <4>1, <3>2, <1>1
      <4> QED BY <4>2, <2>2, <3>1
    <3> QED BY <3>1, <3>2 DEF FirstAt
  <2>4. f[i].kind # "dir" => vfs_finddir(f, i, name) = None
    BY <1>2
  <2> QED BY <2>3, <2>4 DEF e
<1>4. CASE at = {}
  <2>1. vfs_finddir(f, i, name) = None
    BY <1>2, <1>4
  <2>2. \A k \in 1 .. Len(e) : e[k].name # name
    BY <1>1, <1>4
  <2> QED BY <2>1, <2>2
<1> QED BY <1>3, <1>4

LEMMA FindType ==
    ASSUME NEW f \in FsType, NEW i \in {None} \cup Ids, NEW name
    PROVE  Below(f, i, name) \in {None} \cup Ids
<1>1. CASE i = None
  BY <1>1 DEF Below
<1>2. CASE i \in Ids
  <2>1. vfs_finddir(f, i, name) \in {None} \cup Ids
    <3>1. CASE f[i].kind = "dir" /\ \E k : FirstAt(f[i].entries, k, name)
      <4>1. PICK k : FirstAt(f[i].entries, k, name)
        BY <3>1
      <4>2. vfs_finddir(f, i, name) = f[i].entries[k].id
        BY <1>2, <3>1, <4>1, FindFirst
      <4>3. k \in 1 .. Len(f[i].entries)
        BY <4>1 DEF FirstAt
      <4>4. f[i].entries[k].id \in {None} \cup Ids
        BY <1>2, <4>3, FsFields
      <4> QED BY <4>2, <4>4
    <3> QED BY <1>2, <3>1, FindCases
  <2> QED BY <2>1 DEF Below
<1> QED BY <1>1, <1>2

(* The lookup of a path, step by step.                                      *)
FoundSteps(g, f, i, comps) ==
    /\ g \in [0 .. Len(comps) -> {None} \cup Ids] /\ g[0] = i
    /\ \A k \in 1 .. Len(comps) : g[k] = Below(f, g[k - 1], comps[k])

LEMMA FoundAllSteps ==
    ASSUME NEW f \in FsType, NEW i \in {None} \cup Ids, NEW A, NEW comps \in Seq(A)
    PROVE  \E g : FoundSteps(g, f, i, comps) /\ Found(f, i, comps) = g[Len(comps)]
<1> DEFINE n == Len(comps)
           D == {None} \cup Ids
           F == [x \in D \X (1 .. n) |-> Below(f, x[1], comps[x[2]])]
           Eq(w) == w = [k \in 0 .. n |-> IF k = 0 THEN i ELSE Below(f, w[k - 1], comps[k])]
           w == CHOOSE w : Eq(w)
<1>1. n \in Nat
  OBVIOUS
<1> HIDE DEF n
<1>2. F \in [D \X (1 .. n) -> D]
  BY <1>1, FindType, Zenon
<1>3. \A x \in D, k \in 1 .. n : F[<<x, k>>] = Below(f, x, comps[k])
  OBVIOUS
<1>0. PICK g : Recurs(g, D, i, n, F)
  <2> HIDE DEF F, D
  <2>1. i \in D
    BY DEF D
  <2> QED BY <1>1, <1>2, <2>1, Recursion, Zenon
<1>4. g \in [0 .. n -> D] /\ g[0] = i /\ \A k \in 1 .. n : g[k] = F[<<g[k - 1], k>>]
  BY <1>0, Zenon DEF Recurs
<1>5. ASSUME NEW k \in 1 .. n PROVE g[k] = Below(f, g[k - 1], comps[k])
  <2>1. g[k - 1] \in D
    BY <1>4, <1>1
  <2> HIDE DEF F, D
  <2> QED BY <1>3, <1>4, <2>1, Zenon
<1> HIDE DEF F, D
<1>6. Eq(g)
  <2>1. \A k \in 0 .. n : g[k] = IF k = 0 THEN i ELSE Below(f, g[k - 1], comps[k])
    BY <1>1, <1>4, <1>5
  <2>2. g = [k \in 0 .. n |-> g[k]]
    BY <1>4
  <2> QED BY <2>1, <2>2, Zenon
<1>7. Eq(w)
  <2> HIDE DEF Eq
  <2> QED BY <1>6
<1>8. Found(f, i, comps) = w[n]
  BY DEF Found, n
<1> HIDE DEF w
<1>9. \A k \in 0 .. n : w[k] = g[k]
  <2> DEFINE S == {k \in 0 .. n : w[k] = g[k]}
  <2>1. w[0] = g[0] /\ 0 \in 0 .. n
    BY <1>1, <1>4, <1>7
  <2>2. ASSUME NEW k \in 1 .. n, k - 1 \in S PROVE k \in S
    <3>1. k \in 0 .. n /\ w[k] = Below(f, w[k - 1], comps[k])
      BY <1>1, <1>7
    <3> QED BY <3>1, <2>2, <1>5
  <2>3. 0 .. n \subseteq S
    <3>1. 0 \in S
      BY <2>1
    <3> HIDE DEF S
    <3> QED BY <3>1, <2>2, <1>1, UpTo, Zenon
  <2> QED BY <2>3
<1>10. FoundSteps(g, f, i, comps) /\ w[n] = g[n]
  BY <1>1, <1>4, <1>5, <1>9 DEF FoundSteps, n, D
<1> QED BY <1>8, <1>10 DEF n

LEMMA FoundType ==
    ASSUME NEW f \in FsType, NEW i \in {None} \cup Ids, NEW A, NEW comps \in Seq(A)
    PROVE  Found(f, i, comps) \in {None} \cup Ids
<1>1. PICK g : FoundSteps(g, f, i, comps) /\ Found(f, i, comps) = g[Len(comps)]
  BY FoundAllSteps, Zenon
<1>2. Len(comps) \in 0 .. Len(comps)
  OBVIOUS
<1> QED BY <1>1, <1>2 DEF FoundSteps

LEMMA FoundNothing ==
    ASSUME NEW f \in FsType, NEW i \in {None} \cup Ids
    PROVE  Found(f, i, <<>>) = i
<1>1. <<>> \in Seq({}) /\ Len(<<>>) = 0
  OBVIOUS
<1>2. PICK g : FoundSteps(g, f, i, <<>>) /\ Found(f, i, <<>>) = g[Len(<<>>)]
  BY <1>1, FoundAllSteps, Zenon
<1> QED BY <1>1, <1>2 DEF FoundSteps

(* The lookup of a longer path goes one step further.                       *)
LEMMA FoundAppend ==
    ASSUME NEW f \in FsType, NEW i \in {None} \cup Ids, NEW A, NEW comps \in Seq(A), NEW c \in A
    PROVE  Found(f, i, Append(comps, c)) = Below(f, Found(f, i, comps), c)
<1> DEFINE n == Len(comps)
           d == Append(comps, c)
<1>1. d \in Seq(A) /\ Len(d) = n + 1 /\ n \in Nat /\ d[n + 1] = c /\ \A k \in 1 .. n : d[k] = comps[k]
  OBVIOUS
<1>2. PICK g : FoundSteps(g, f, i, comps) /\ Found(f, i, comps) = g[n]
  BY FoundAllSteps, Zenon
<1> HIDE DEF d
<1>3. PICK h : FoundSteps(h, f, i, d) /\ Found(f, i, d) = h[n + 1]
  BY <1>1, FoundAllSteps, ZenonT(40)
<1>4. g[0] = i /\ \A k \in 1 .. n : g[k] = Below(f, g[k - 1], comps[k])
  BY <1>2 DEF FoundSteps
<1>5. h[0] = i /\ \A k \in 1 .. n + 1 : h[k] = Below(f, h[k - 1], d[k])
  BY <1>1, <1>3 DEF FoundSteps
<1> HIDE DEF n
<1> DEFINE S == {k \in 0 .. n : g[k] = h[k]}
<1>6. 0 .. n \subseteq S
  <2>1. 0 \in S
    BY <1>1, <1>4, <1>5
  <2>2. ASSUME NEW k \in 1 .. n, k - 1 \in S PROVE k \in S
    <3>1. k \in 0 .. n /\ k \in 1 .. n + 1 /\ d[k] = comps[k] /\ g[k - 1] = h[k - 1]
      BY <1>1, <2>2
    <3>2. g[k] = h[k]
      BY <3>1, <1>4, <1>5
    <3> QED BY <3>1, <3>2
  <2> HIDE DEF S
  <2> QED BY <1>1, <2>1, <2>2, UpTo, Zenon
<1>7. g[n] = h[n]
  BY <1>1, <1>6
<1>8. h[n + 1] = Below(f, h[n], c)
  <2>1. n + 1 \in 1 .. n + 1 /\ (n + 1) - 1 = n
    BY <1>1
  <2> QED BY <2>1, <1>1, <1>5
<1> QED BY <1>2, <1>3, <1>7, <1>8 DEF d

(* Files only grow: what exists keeps its kind, a directory its entries.    *)
Extends(f, g) ==
    \A i \in Ids :
       f[i].kind # "none" =>
          /\ g[i].kind = f[i].kind
          /\ Len(f[i].entries) <= Len(g[i].entries)
          /\ \A k \in 1 .. Len(f[i].entries) : g[i].entries[k] = f[i].entries[k]

LEMMA FindStable ==
    ASSUME NEW f \in FsType, NEW g \in FsType, Extends(f, g), NEW i \in Ids, NEW name,
           vfs_finddir(f, i, name) # None
    PROVE  vfs_finddir(g, i, name) = vfs_finddir(f, i, name)
<1>1. f[i].kind = "dir" /\ \E k : FirstAt(f[i].entries, k, name)
  BY FindCases
<1>2. PICK k : FirstAt(f[i].entries, k, name)
  BY <1>1
<1>3. /\ g[i].kind = "dir" /\ Len(f[i].entries) <= Len(g[i].entries)
      /\ \A j \in 1 .. Len(f[i].entries) : g[i].entries[j] = f[i].entries[j]
  BY <1>1 DEF Extends
<1>4. Len(f[i].entries) \in Nat /\ Len(g[i].entries) \in Nat
  BY FsFields
<1>5. FirstAt(g[i].entries, k, name) /\ g[i].entries[k] = f[i].entries[k]
  <2>1. Continues(f[i].entries, g[i].entries)
    BY <1>3, <1>4, Zenon DEF Continues
  <2>2. FirstAt(g[i].entries, k, name)
    BY <1>2, <2>1, FirstKept, ZenonT(40)
  <2>3. k \in 1 .. Len(f[i].entries)
    BY <1>2, Zenon DEF FirstAt
  <2> QED BY <1>3, <2>2, <2>3, Zenon
<1>6. vfs_finddir(f, i, name) = f[i].entries[k].id
  BY <1>1, <1>2, FindFirst
<1>7. vfs_finddir(g, i, name) = g[i].entries[k].id
  BY <1>3, <1>5, FindFirst, ZenonT(40)
<1> QED BY <1>5, <1>6, <1>7

LEMMA FoundStable ==
    ASSUME NEW f \in FsType, NEW g \in FsType, Extends(f, g), NEW A, NEW comps \in Seq(A),
           Found(f, Root, comps) # None
    PROVE  Found(g, Root, comps) = Found(f, Root, comps)
<1> DEFINE n == Len(comps)
<1>1. n \in Nat /\ Root \in {None} \cup Ids
  BY RootId
<1>2. PICK a : FoundSteps(a, f, Root, comps) /\ Found(f, Root, comps) = a[n]
  BY <1>1, FoundAllSteps
<1>3. PICK b : FoundSteps(b, g, Root, comps) /\ Found(g, Root, comps) = b[n]
  BY <1>1, FoundAllSteps
<1>4. /\ a \in [0 .. n -> {None} \cup Ids] /\ a[0] = Root
      /\ \A k \in 1 .. n : a[k] = Below(f, a[k - 1], comps[k])
  BY <1>2 DEF FoundSteps
<1>5. b[0] = Root /\ \A k \in 1 .. n : b[k] = Below(g, b[k - 1], comps[k])
  BY <1>3 DEF FoundSteps
<1> HIDE DEF n
<1> DEFINE S == {k \in 0 .. n : a[k] # None => b[k] = a[k]}
<1>6. 0 .. n \subseteq S
  <2>1. 0 \in S
    BY <1>1, <1>4, <1>5
  <2>2. ASSUME NEW k \in 1 .. n, k - 1 \in S PROVE k \in S
    <3>1. k \in 0 .. n /\ k - 1 \in 0 .. n /\ (a[k - 1] # None => b[k - 1] = a[k - 1])
      BY <1>1, <2>2
    <3>2. ASSUME a[k] # None PROVE b[k] = a[k]
      <4>1. a[k] = Below(f, a[k - 1], comps[k]) /\ b[k] = Below(g, b[k - 1], comps[k])
        BY <1>4, <1>5
      <4>2. a[k - 1] \in Ids /\ a[k - 1] # None /\ a[k] = vfs_finddir(f, a[k - 1], comps[k])
        BY <3>1, <3>2, <4>1, <1>4 DEF Below
      <4>3. b[k] = vfs_finddir(g, a[k - 1], comps[k])
        BY <3>1, <4>1, <4>2 DEF Below
      <4> QED BY <3>2, <4>2, <4>3, FindStable
    <3> QED BY <3>1, <3>2
  <2> HIDE DEF S
  <2> QED BY <1>1, <2>1, <2>2, UpTo, Zenon
<1>7. a[n] # None => b[n] = a[n]
  BY <1>1, <1>6
<1> QED BY <1>2, <1>3, <1>7
--------------------------------------------------------------------------------
(* The directories form a tree: every node that exists, but the root, is    *)
(* the one entry of one directory, and the entries that lead nowhere are    *)
(* "." and "..".                                                            *)
Tree(f) ==
    /\ f \in FsType
    /\ f[Root].kind = "dir"
    /\ \A i \in Ids : f[i].kind # "dir" => f[i].entries = <<>>
    /\ \A i \in Ids : \A k \in 1 .. Len(f[i].entries) :
          f[i].entries[k].id = None => f[i].entries[k].name \in {Dot, DotDot}
    /\ \A i \in Ids : \A k \in 1 .. Len(f[i].entries) :
          f[i].entries[k].id # None => /\ f[i].entries[k].id # Root
                                       /\ f[f[i].entries[k].id].kind # "none"
    /\ \A i, j \in Ids : \A k \in 1 .. Len(f[i].entries), l \in 1 .. Len(f[j].entries) :
          f[i].entries[k].id # None /\ f[j].entries[l].id = f[i].entries[k].id => i = j /\ k = l
    /\ \A i \in Ids \ {Root} :
          f[i].kind # "none" =>
             \E d \in Ids : \E k \in 1 .. Len(f[d].entries) : f[d].entries[k].id = i

(* A node that did not exist is made, and entered behind the other entries  *)
(* of its directory.                                                        *)
GrownBy(f, g, parent, new, name, kind) ==
    /\ parent \in Ids /\ new \in Ids /\ name \in EntryNames /\ kind \in {"file", "dir"}
    /\ f[parent].kind = "dir" /\ f[new].kind = "none"
    /\ vfs_finddir(f, parent, name) = None
    /\ g = [f EXCEPT ![parent].entries = Append(@, [name |-> name, id |-> new]),
                     ![new] = Made(kind)]

Dots == <<[name |-> Dot, id |-> None], [name |-> DotDot, id |-> None]>>

GrownTo(f, g, parent, new, name, kind) ==
    /\ g \in FsType /\ parent # new
    /\ g[parent].kind = "dir" /\ g[parent].size = f[parent].size
    /\ g[parent].entries = Append(f[parent].entries, [name |-> name, id |-> new])
    /\ g[new].kind = kind /\ g[new].size = 0
    /\ g[new].entries = IF kind = "dir" THEN Dots ELSE <<>>
    /\ \A i \in Ids \ {parent, new} : g[i] = f[i]

LEMMA MadeFacts ==
    ASSUME NEW kind \in {"none", "file", "dir"}
    PROVE  /\ Made(kind) \in FsNode /\ Made(kind).kind = kind /\ Made(kind).size = 0
           /\ Made(kind).entries = IF kind = "dir" THEN Dots ELSE <<>>
<1>1. Dots \in Seq(EntryT)
  <2>1. Dot \in EntryNames /\ DotDot \in EntryNames
    BY DEF EntryNames
  <2>2. [name |-> Dot, id |-> None] \in EntryT /\ [name |-> DotDot, id |-> None] \in EntryT
    BY <2>1 DEF EntryT
  <2> QED BY <2>2 DEF Dots
<1>2. <<>> \in Seq(EntryT) /\ 0 \in 0 .. MaxSize
  BY FilesAssumption
<1>3. Made(kind) = [kind |-> kind, size |-> 0, entries |-> IF kind = "dir" THEN Dots ELSE <<>>]
  BY DEF Made, Dots
<1> QED BY <1>1, <1>2, <1>3 DEF FsNode

LEMMA GrownFacts ==
    ASSUME NEW f \in FsType, NEW g, NEW parent, NEW new, NEW name, NEW kind,
           GrownBy(f, g, parent, new, name, kind)
    PROVE  GrownTo(f, g, parent, new, name, kind)
<1> DEFINE e == [name |-> name, id |-> new]
           es == Append(f[parent].entries, e)
<1>1. /\ parent \in Ids /\ new \in Ids /\ name \in EntryNames /\ kind \in {"file", "dir"}
      /\ f[parent].kind = "dir" /\ f[new].kind = "none"
      /\ g = [f EXCEPT ![parent].entries = es, ![new] = Made(kind)]
  BY DEF GrownBy
<1>2. parent # new /\ f[parent] \in FsNode /\ f[parent].entries \in Seq(EntryT)
  BY <1>1, FsFields
<1>3. e \in EntryT
  BY <1>1 DEF EntryT
<1> HIDE DEF e
<1>4. es \in Seq(EntryT)
  BY <1>2, <1>3
<1> HIDE DEF es
<1>5. /\ [f[parent] EXCEPT !.entries = es] \in FsNode
      /\ [f[parent] EXCEPT !.entries = es].kind = f[parent].kind
      /\ [f[parent] EXCEPT !.entries = es].size = f[parent].size
      /\ [f[parent] EXCEPT !.entries = es].entries = es
  BY <1>2, <1>4 DEF FsNode
<1>6. Made(kind) \in FsNode
  BY <1>1, MadeFacts
<1>7. /\ g \in FsType /\ g[parent] = [f[parent] EXCEPT !.entries = es] /\ g[new] = Made(kind)
      /\ \A i \in Ids \ {parent, new} : g[i] = f[i]
  BY <1>1, <1>2, <1>5, <1>6 DEF FsType
<1>8. /\ g[parent].kind = "dir" /\ g[parent].size = f[parent].size /\ g[parent].entries = es
  BY <1>1, <1>5, <1>7, Zenon
<1>9. /\ g[new].kind = kind /\ g[new].size = 0
      /\ g[new].entries = IF kind = "dir" THEN Dots ELSE <<>>
  BY <1>1, <1>7, MadeFacts, ZenonT(40)
<1> QED BY <1>2, <1>7, <1>8, <1>9 DEF GrownTo, es, e

(* The entry of a grown tree is an old one, the new one, or a dot.          *)
EntryOf(f, g, parent, new, name, i, k) ==
    \/ k \in 1 .. Len(f[i].entries) /\ g[i].entries[k] = f[i].entries[k] /\ i # new
    \/ /\ i = parent /\ k = Len(f[i].entries) + 1
       /\ g[i].entries[k].id = new /\ g[i].entries[k].name = name
    \/ i = new /\ g[i].entries[k].id = None /\ g[i].entries[k].name \in {Dot, DotDot}

(* Making a node (ext2_mkdir and ext2_create) leaves no other entry.        *)
LEMMA GrownEntry ==
    ASSUME NEW f, NEW g, NEW parent, NEW new, NEW name, NEW kind, Tree(f),
           GrownBy(f, g, parent, new, name, kind),
           NEW i \in Ids, NEW k \in 1 .. Len(g[i].entries)
    PROVE  EntryOf(f, g, parent, new, name, i, k)
<1> USE DEF EntryOf
<1>1. f \in FsType /\ GrownTo(f, g, parent, new, name, kind)
  BY GrownFacts, Zenon DEF Tree
<1>2. f[i].entries \in Seq(EntryT)
  BY <1>1, FsFields, Zenon
<1>3. CASE i = parent
  <2>1. g[i].entries = Append(f[i].entries, [name |-> name, id |-> new]) /\ i # new
    BY <1>1, <1>3 DEF GrownTo
  <2> DEFINE es == f[i].entries  x == [name |-> name, id |-> new]
  <2>2. Len(g[i].entries) = Len(es) + 1 /\ Len(es) \in Nat
    BY <2>1, <1>2
  <2>3. CASE k \in 1 .. Len(es)
    BY <2>1, <2>3, <1>2
  <2>4. CASE k = Len(es) + 1
    <3>1. g[i].entries[k] = x
      BY <2>1, <2>4, <1>2
    <3> QED BY <3>1, <2>4, <1>3
  <2> QED BY <2>2, <2>3, <2>4
<1>4. CASE i = new
  <2>1. g[i].entries = IF kind = "dir" THEN Dots ELSE <<>>
    BY <1>1, <1>4 DEF GrownTo
  <2>2. g[i].entries = Dots /\ k \in 1 .. 2
    BY <2>1 DEF Dots
  <2> QED BY <2>2, <1>4 DEF Dots
<1>5. CASE i # parent /\ i # new
  BY <1>1, <1>5 DEF GrownTo
<1> QED BY <1>3, <1>4, <1>5, Zenon

LEMMA GrownExtends ==
    ASSUME NEW f, NEW g, NEW parent, NEW new, NEW name, NEW kind, Tree(f),
           GrownBy(f, g, parent, new, name, kind)
    PROVE  Extends(f, g)
<1>1. f \in FsType /\ GrownTo(f, g, parent, new, name, kind) /\ f[new].kind = "none"
  BY GrownFacts, Zenon DEF Tree, GrownBy
<1> SUFFICES ASSUME NEW i \in Ids, f[i].kind # "none"
             PROVE  /\ g[i].kind = f[i].kind
                    /\ Len(f[i].entries) <= Len(g[i].entries)
                    /\ \A k \in 1 .. Len(f[i].entries) : g[i].entries[k] = f[i].entries[k]
  BY DEF Extends
<1>2. f[i].entries \in Seq(EntryT) /\ i # new /\ Len(f[i].entries) \in Nat
  BY <1>1, FsFields
<1>3. CASE i = parent
  <2>1. /\ g[i].entries = Append(f[i].entries, [name |-> name, id |-> new])
        /\ g[i].kind = f[i].kind
    BY <1>1, <1>3, Zenon DEF GrownTo, GrownBy
  <2>2. Len(g[i].entries) = Len(f[i].entries) + 1
    BY <2>1, <1>2
  <2>3. \A k \in 1 .. Len(f[i].entries) : g[i].entries[k] = f[i].entries[k]
    BY <2>1, <1>2
  <2> QED BY <1>2, <2>1, <2>2, <2>3
<1>4. CASE i # parent
  <2>1. g[i] = f[i]
    BY <1>1, <1>2, <1>4, ZenonT(40) DEF GrownTo
  <2> QED BY <1>2, <2>1, AtMostItself, Zenon
<1> QED BY <1>3, <1>4, Zenon

LEMMA GrownTree ==
    ASSUME NEW f, NEW g, NEW parent, NEW new, NEW name, NEW kind, Tree(f),
           GrownBy(f, g, parent, new, name, kind)
    PROVE  Tree(g)
<1>1. /\ f \in FsType /\ GrownTo(f, g, parent, new, name, kind) /\ Extends(f, g)
      /\ f[new].kind = "none" /\ new \in Ids /\ parent \in Ids /\ f[Root].kind = "dir"
      /\ kind \in {"file", "dir"} /\ f[parent].kind = "dir"
  <2>1. f \in FsType /\ f[Root].kind = "dir"
    BY DEF Tree
  <2>2. GrownTo(f, g, parent, new, name, kind) /\ Extends(f, g)
    BY <2>1, GrownFacts, GrownExtends
  <2> QED BY <2>1, <2>2, ZenonT(40) DEF GrownBy
<1>2. g \in FsType /\ g[Root].kind = "dir" /\ new # Root
  <2>1. Root \in Ids /\ f[Root].kind # "none"
    BY <1>1, RootId
  <2>2. g[Root].kind = f[Root].kind
    BY <1>1, <2>1 DEF Extends
  <2> QED BY <1>1, <2>2 DEF GrownTo
<1>3. \A i \in Ids : g[i].kind # "dir" => g[i].entries = <<>>
  <2> SUFFICES ASSUME NEW i \in Ids, g[i].kind # "dir" PROVE g[i].entries = <<>>
    OBVIOUS
  <2>1. CASE i = new
    BY <1>1, <2>1, ZenonT(40) DEF GrownTo
  <2>2. CASE i # new
    <3>1. i # parent
      BY <1>1 DEF GrownTo
    <3>2. g[i] = f[i]
      BY <1>1, <2>2, <3>1, ZenonT(40) DEF GrownTo
    <3> QED BY <3>2 DEF Tree
  <2> QED BY <2>1, <2>2
<1>4. ASSUME NEW i \in Ids, NEW k \in 1 .. Len(g[i].entries)
      PROVE  \/ k \in 1 .. Len(f[i].entries) /\ g[i].entries[k] = f[i].entries[k] /\ i # new
             \/ /\ i = parent /\ k = Len(f[i].entries) + 1
                /\ g[i].entries[k].id = new /\ g[i].entries[k].name = name
             \/ i = new /\ g[i].entries[k].id = None /\ g[i].entries[k].name \in {Dot, DotDot}
  <2>1. EntryOf(f, g, parent, new, name, i, k)
    BY GrownEntry, ZenonT(40)
  <2> QED BY <2>1, ZenonT(40) DEF EntryOf
<1>5. new # None
  BY <1>1, RootId, Zenon
<1>6. ASSUME NEW i \in Ids, NEW k \in 1 .. Len(g[i].entries), g[i].entries[k].id = None
      PROVE  g[i].entries[k].name \in {Dot, DotDot}
  BY <1>4, <1>5, <1>6, ZenonT(40) DEF Tree
<1>7. ASSUME NEW i \in Ids, NEW k \in 1 .. Len(g[i].entries), g[i].entries[k].id # None
      PROVE  /\ g[i].entries[k].id # Root
             /\ g[g[i].entries[k].id].kind # "none"
  <2>1. CASE g[i].entries[k].id = new
    BY <2>1, <1>1, <1>2, Zenon DEF GrownTo
  <2>2. CASE k \in 1 .. Len(f[i].entries) /\ g[i].entries[k] = f[i].entries[k]
    <3>1. /\ f[i].entries[k].id # Root /\ f[f[i].entries[k].id].kind # "none"
          /\ f[i].entries[k].id \in Ids
      <4>1. f[i].entries[k].id # None
        BY <1>7, <2>2, Zenon
      <4> QED BY <4>1, <2>2, <1>1, FsFields, ZenonT(40) DEF Tree
    <3> QED BY <3>1, <2>2, <1>1, Zenon DEF Extends
  <2> QED BY <2>1, <2>2, <1>4, <1>7
<1>8. ASSUME NEW i \in Ids, NEW k \in 1 .. Len(f[i].entries) PROVE f[i].entries[k].id # new
  BY <1>1, <1>5 DEF Tree
<1>9. ASSUME NEW i \in Ids, NEW j \in Ids,
             NEW k \in 1 .. Len(g[i].entries), NEW l \in 1 .. Len(g[j].entries),
             g[i].entries[k].id # None, g[j].entries[l].id = g[i].entries[k].id
      PROVE  i = j /\ k = l
  <2>1. CASE g[i].entries[k].id = new
    <3>1. i = parent /\ k = Len(f[i].entries) + 1
      BY <2>1, <1>4, <1>5, <1>8, ZenonT(40)
    <3>2. j = parent /\ l = Len(f[j].entries) + 1
      <4>1. g[j].entries[l].id = new
        BY <2>1, <1>9, Zenon
      <4> QED BY <4>1, <1>4, <1>5, <1>8, ZenonT(40)
    <3> QED BY <3>1, <3>2, ZenonT(40)
  <2>2. CASE g[i].entries[k].id # new
    <3>1. k \in 1 .. Len(f[i].entries) /\ g[i].entries[k] = f[i].entries[k]
      BY <2>2, <1>4, <1>9, Zenon
    <3>2. l \in 1 .. Len(f[j].entries) /\ g[j].entries[l] = f[j].entries[l]
      BY <2>2, <1>4, <1>9, Zenon
    <3>3. f[i].entries[k].id # None /\ f[j].entries[l].id = f[i].entries[k].id
      BY <3>1, <3>2, <1>9, ZenonT(40)
    <3>4. \A a, b \in Ids : \A x \in 1 .. Len(f[a].entries), y \in 1 .. Len(f[b].entries) :
            f[a].entries[x].id # None /\ f[b].entries[y].id = f[a].entries[x].id => a = b /\ x = y
      BY Zenon DEF Tree
    <3> QED BY <3>1, <3>2, <3>3, <3>4, Zenon
  <2> QED BY <2>1, <2>2
<1>10. ASSUME NEW i \in Ids \ {Root}, g[i].kind # "none"
       PROVE  \E d \in Ids : \E k \in 1 .. Len(g[d].entries) : g[d].entries[k].id = i
  <2>1. CASE i = new
    <3>1. /\ g[parent].entries = Append(f[parent].entries, [name |-> name, id |-> new])
          /\ f[parent].entries \in Seq(EntryT)
      BY <1>1, FsFields, Zenon DEF GrownTo
    <3> DEFINE k == Len(f[parent].entries) + 1
    <3>2. k \in 1 .. Len(g[parent].entries) /\ g[parent].entries[k] = [name |-> name, id |-> new]
      BY <3>1
    <3>3. g[parent].entries[k].id = i
      BY <3>2, <2>1
    <3> HIDE DEF k
    <3> QED BY <3>2, <3>3, <1>1, Zenon
  <2>2. CASE i # new
    <3>1. f[i].kind # "none"
      BY <2>2, <1>1, <1>10, Zenon DEF GrownTo
    <3>0. PICK d \in Ids : \E k \in 1 .. Len(f[d].entries) : f[d].entries[k].id = i
      BY <3>1, Zenon DEF Tree
    <3>2. PICK k \in 1 .. Len(f[d].entries) : f[d].entries[k].id = i
      BY <3>0
    <3>3. f[d].kind # "none"
      <4>1. Len(<<>>) = 0
        BY Zenon
      <4>2. f[d].kind = "none" => f[d].entries = <<>>
        BY Zenon DEF Tree
      <4> QED BY <4>1, <4>2
    <3>4. /\ Len(f[d].entries) <= Len(g[d].entries) /\ g[d].entries[k] = f[d].entries[k]
          /\ Len(f[d].entries) \in Nat /\ Len(g[d].entries) \in Nat
      <4>1. f[d].entries \in Seq(EntryT) /\ g[d].entries \in Seq(EntryT)
        BY <1>1, <1>2, FsFields, ZenonT(40)
      <4>2. Len(f[d].entries) \in Nat /\ Len(g[d].entries) \in Nat
        BY <4>1, LenNat, Zenon
      <4> QED BY <1>1, <1>2, <3>3, <4>2, ZenonT(40) DEF Extends
    <3>5. k \in 1 .. Len(g[d].entries)
      BY <3>4, InLonger, ZenonT(40)
    <3> QED BY <3>2, <3>4, <3>5, Zenon
  <2> QED BY <2>1, <2>2
<1>11. \A i \in Ids : \A k \in 1 .. Len(g[i].entries) :
          g[i].entries[k].id = None => g[i].entries[k].name \in {Dot, DotDot}
  BY <1>6, ZenonT(40)
<1>12. \A i \in Ids : \A k \in 1 .. Len(g[i].entries) :
          g[i].entries[k].id # None => /\ g[i].entries[k].id # Root
                                       /\ g[g[i].entries[k].id].kind # "none"
  BY <1>7, ZenonT(40)
<1>13. \A i, j \in Ids : \A k \in 1 .. Len(g[i].entries), l \in 1 .. Len(g[j].entries) :
          g[i].entries[k].id # None /\ g[j].entries[l].id = g[i].entries[k].id => i = j /\ k = l
  <2> TAKE i, j \in Ids
  <2> TAKE k \in 1 .. Len(g[i].entries), l \in 1 .. Len(g[j].entries)
  <2> HAVE g[i].entries[k].id # None /\ g[j].entries[l].id = g[i].entries[k].id
  <2> QED BY <1>9, ZenonT(40)
<1>14. \A i \in Ids \ {Root} :
          g[i].kind # "none" =>
             \E d \in Ids : \E k \in 1 .. Len(g[d].entries) : g[d].entries[k].id = i
  BY <1>10, ZenonT(40)
<1> QED BY <1>2, <1>3, <1>11, <1>12, <1>13, <1>14, ZenonT(40) DEF Tree

(* What a lookup finds is the entry of some directory, and exists.          *)
LEMMA TreeEntry ==
    ASSUME NEW f, Tree(f), NEW i \in Ids, NEW k \in 1 .. Len(f[i].entries),
           f[i].entries[k].id # None
    PROVE  f[i].entries[k].id # Root /\ f[f[i].entries[k].id].kind # "none"
BY DEF Tree

LEMMA FindEntry ==
    ASSUME NEW f \in FsType, NEW i \in Ids, NEW name, vfs_finddir(f, i, name) # None
    PROVE  /\ f[i].kind = "dir"
           /\ \E k \in 1 .. Len(f[i].entries) : f[i].entries[k].id = vfs_finddir(f, i, name)
<1>1. f[i].kind = "dir" /\ \E k : FirstAt(f[i].entries, k, name)
  BY FindCases
<1>2. PICK k : FirstAt(f[i].entries, k, name)
  BY <1>1
<1>3. vfs_finddir(f, i, name) = f[i].entries[k].id
  BY <1>1, <1>2, FindFirst
<1> QED BY <1>1, <1>2, <1>3 DEF FirstAt

LEMMA FoundPresent ==
    ASSUME NEW f, Tree(f), NEW A, NEW comps \in Seq(A), Found(f, Root, comps) # None
    PROVE  Found(f, Root, comps) \in Ids /\ f[Found(f, Root, comps)].kind # "none"
<1> DEFINE n == Len(comps)
           i == Found(f, Root, comps)
<1>1. n \in Nat /\ Root \in {None} \cup Ids /\ f \in FsType
  BY RootId DEF Tree
<1>2. PICK g : FoundSteps(g, f, Root, comps) /\ i = g[n]
  BY <1>1, FoundAllSteps, Zenon
<1>3. /\ g \in [0 .. n -> {None} \cup Ids] /\ g[0] = Root
      /\ \A k \in 1 .. n : g[k] = Below(f, g[k - 1], comps[k])
  BY <1>2, ZenonT(40) DEF FoundSteps
<1>4. CASE n = 0
  BY <1>1, <1>2, <1>3, <1>4, RootId DEF Tree
<1>5. CASE n # 0
  <2>1. n \in 1 .. n /\ n - 1 \in 0 .. n
    BY <1>1, <1>5
  <2> HIDE DEF n, i
  <2>2. i = Below(f, g[n - 1], comps[n]) /\ g[n - 1] \in {None} \cup Ids
    BY <1>2, <1>3, <2>1
  <2>3. i # None
    BY DEF i
  <2>4. g[n - 1] \in Ids /\ i = vfs_finddir(f, g[n - 1], comps[n])
    BY <2>2, <2>3 DEF Below
  <2>5. PICK k \in 1 .. Len(f[g[n - 1]].entries) : f[g[n - 1]].entries[k].id = i
    BY <1>1, <2>3, <2>4, FindEntry, Zenon
  <2>6. i \in Ids
    BY <1>1, <2>3, <2>4, <2>5, FsFields, ZenonT(40)
  <2>7. f[i].kind # "none"
    <3>1. f[f[g[n - 1]].entries[k].id].kind # "none"
      BY <2>3, <2>4, <2>5, TreeEntry, ZenonT(40)
    <3> QED BY <2>5, <3>1, Zenon
  <2> QED BY <2>6, <2>7 DEF i
<1> QED BY <1>4, <1>5, ZenonT(40)

(* Every node can be opened by the name it was entered with.                *)
Openable(f) ==
    \A i \in Ids : \A k \in 1 .. Len(f[i].entries) :
       f[i].entries[k].id # None =>
          /\ f[i].entries[k].name \in Names
          /\ vfs_finddir(f, i, f[i].entries[k].name) = f[i].entries[k].id

LEMMA GrownOpenable ==
    ASSUME NEW f, NEW g, NEW parent, NEW new, NEW name, NEW kind, Tree(f), Openable(f),
           GrownBy(f, g, parent, new, name, kind), name \in Names
    PROVE  Openable(g)
<1> SUFFICES ASSUME NEW i \in Ids, NEW k \in 1 .. Len(g[i].entries), g[i].entries[k].id # None
             PROVE  /\ g[i].entries[k].name \in Names
                    /\ vfs_finddir(g, i, g[i].entries[k].name) = g[i].entries[k].id
  BY DEF Openable
<1>1. /\ f \in FsType /\ g \in FsType /\ Extends(f, g) /\ f[parent].kind = "dir" /\ parent \in Ids
      /\ GrownTo(f, g, parent, new, name, kind)
  <2>1. f \in FsType
    BY DEF Tree
  <2>2. GrownTo(f, g, parent, new, name, kind) /\ Extends(f, g)
    BY <2>1, GrownFacts, GrownExtends
  <2> QED BY <2>1, <2>2, ZenonT(40) DEF GrownBy, GrownTo
<1>2. CASE k \in 1 .. Len(f[i].entries) /\ g[i].entries[k] = f[i].entries[k]
  <2>1. /\ f[i].entries[k].name \in Names /\ f[i].entries[k].id # None
        /\ vfs_finddir(f, i, f[i].entries[k].name) = f[i].entries[k].id
    BY <1>2, Zenon DEF Openable
  <2>2. vfs_finddir(g, i, f[i].entries[k].name) = vfs_finddir(f, i, f[i].entries[k].name)
    BY <1>1, <2>1, FindStable, ZenonT(40)
  <2> QED BY <1>2, <2>1, <2>2, Zenon
<1>3. CASE i = parent /\ k = Len(f[i].entries) + 1 /\ g[i].entries[k].id = new
           /\ g[i].entries[k].name = name
  <2>1. \A j \in 1 .. Len(f[i].entries) : f[i].entries[j].name # name
    <3>1. CASE \E j : FirstAt(f[i].entries, j, name)
      <4>1. PICK j : FirstAt(f[i].entries, j, name)
        BY <3>1
      <4>2. f[i].entries[j].id = None
        <5>1. vfs_finddir(f, i, name) = None /\ f[i].kind = "dir"
          BY <1>1, <1>3, Zenon DEF GrownBy
        <5>0. f \in FsType /\ f[i].kind = "dir"
          BY <1>1, <5>1
        <5>2. vfs_finddir(f, i, name) = f[i].entries[j].id
          BY <5>0, <4>1, FindFirst, ZenonT(40)
        <5> QED BY <5>1, <5>2, Zenon
      <4>3. name \in {Dot, DotDot}
        <5>1. j \in 1 .. Len(f[i].entries) /\ f[i].entries[j].name = name
          BY <4>1, Zenon DEF FirstAt
        <5> QED BY <5>1, <4>2 DEF Tree
      <4> QED BY <4>3, FilesAssumption, Zenon
    <3> QED BY <3>1, <1>1, <1>3, FindCases, Zenon
  <2>2. \A j \in 1 .. Len(f[i].entries) : g[i].entries[j] = f[i].entries[j]
    BY <1>1, <1>3, ZenonT(40) DEF Extends
  <2>3. Len(f[i].entries) \in Nat
    BY <1>1, FsFields
  <2>4. FirstAt(g[i].entries, k, name)
    <3>1. \A j \in 1 .. Len(f[i].entries) : g[i].entries[j].name # name
      BY <2>1, <2>2, Zenon
    <3> QED BY <1>3, <2>3, <3>1, FirstAppended, ZenonT(40)
  <2>5. g[i].kind = "dir" /\ i \in Ids
    BY <1>1, <1>3 DEF GrownTo
  <2>6. vfs_finddir(g, i, name) = g[i].entries[k].id
    <3>1. g \in FsType
      BY <1>1
    <3> QED BY <3>1, <2>4, <2>5, FindFirst, Zenon
  <2>7. g[i].entries[k].name \in Names
    BY <1>3, Zenon
  <2> QED BY <1>3, <2>6, <2>7, Zenon
<1>4. \/ k \in 1 .. Len(f[i].entries) /\ g[i].entries[k] = f[i].entries[k] /\ i # new
      \/ /\ i = parent /\ k = Len(f[i].entries) + 1
         /\ g[i].entries[k].id = new /\ g[i].entries[k].name = name
      \/ i = new /\ g[i].entries[k].id = None /\ g[i].entries[k].name \in {Dot, DotDot}
  <2>1. EntryOf(f, g, parent, new, name, i, k)
    BY GrownEntry, ZenonT(40)
  <2> QED BY <2>1, ZenonT(40) DEF EntryOf
<1> QED BY <1>2, <1>3, <1>4, ZenonT(40)
--------------------------------------------------------------------------------
(* The state of a process.                                                  *)
Flags == {"none", "file", "dir"} \cup UNION Garbage

NodeT == [id : {None} \cup Ids, attr : Attrs, offset : Int, size : 0 .. MaxSize, flags : SUBSET Flags]

ProcT == [cwd : Seq(Names), fdt : Seq(NodeT), dir : [fd : Nat, currentEntry : Nat]]

ProcType == [Procs -> ProcT]

LEMMA NodeMade ==
    ASSUME NEW id \in Ids, NEW attr \in Attrs, NEW size \in 0 .. MaxSize, NEW fl \in SUBSET Flags
    PROVE  [id |-> id, attr |-> attr, offset |-> 0, size |-> size, flags |-> fl] \in NodeT
BY DEF NodeT

LEMMA ProcFields ==
    ASSUME NEW pr \in ProcType, NEW p \in Procs
    PROVE  /\ pr[p] \in ProcT /\ pr[p].cwd \in Seq(Names) /\ pr[p].fdt \in Seq(NodeT)
           /\ pr[p].dir \in [fd : Nat, currentEntry : Nat]
           /\ Len(pr[p].fdt) \in Nat
           /\ \A k \in 1 .. Len(pr[p].fdt) : pr[p].fdt[k] \in NodeT
<1>1. pr[p] \in ProcT
  BY DEF ProcType
<1>2. /\ pr[p].cwd \in Seq(Names) /\ pr[p].fdt \in Seq(NodeT)
      /\ pr[p].dir \in [fd : Nat, currentEntry : Nat]
  BY <1>1 DEF ProcT
<1> QED BY <1>1, <1>2

LEMMA NodeFields ==
    ASSUME NEW n \in NodeT
    PROVE  /\ n.id \in {None} \cup Ids /\ n.attr \in Attrs /\ n.offset \in Int
           /\ n.size \in 0 .. MaxSize /\ n.flags \in SUBSET Flags
BY DEF NodeT

LEMMA PathFacts ==
    ASSUME NEW path \in Paths, NEW cwd \in Seq(Names)
    PROVE  path.comps \in Seq(Component) /\ normalizePath(cwd, path) \in Seq(Names)
<1>1. path.comps \in Seq(Component)
  BY FilesAssumption, Zenon DEF Component
<1> QED BY <1>1, Normalized

(* sys_open with O_CREAT, and sys_mkdir.                                    *)
LEMMA NewNode ==
    ASSUME Tree(fs), proc \in ProcType, NEW p \in Procs, NEW path \in Paths, NEW name,
           name \in FileName(proc[p].cwd, path), Creatable(p, path, name),
           NEW kind \in {"file", "dir"}
    PROVE  /\ GrownBy(fs, WithNode(Parent(proc[p].cwd, path), name, kind),
                      Parent(proc[p].cwd, path), NewId, name, kind)
           /\ ~Anywhere => name \in Names
<1> DEFINE cwd == proc[p].cwd
           norm == normalizePath(cwd, path)
           parent == Parent(cwd, path)
           none == {i \in Ids : fs[i].kind = "none"}
<1>1. cwd \in Seq(Names) /\ fs \in FsType
  BY ProcFields DEF Tree
<1>2. norm \in Seq(Names)
  BY <1>1, PathFacts, Zenon
<1>3. /\ parent # None /\ fs[parent].kind = "dir" /\ vfs_finddir(fs, parent, name) = None
      /\ Anywhere \/ Simple(cwd, path)
      /\ none # {}
  BY Zenon DEF Creatable
<1>4. parent \in Ids
  <2>1. (IF norm = <<>> THEN norm ELSE Popped(norm)) \in Seq(Names)
    BY <1>2 DEF Popped
  <2>2. parent \in {None} \cup Ids
    <3> HIDE DEF norm
    <3>1. Found(fs, Root, IF norm = <<>> THEN norm ELSE Popped(norm)) \in {None} \cup Ids
      BY <1>1, <2>1, RootId, FoundType, Zenon
    <3> QED BY <3>1 DEF Parent, norm
  <2> QED BY <1>3, <2>2
<1>5. NewId \in Ids /\ fs[NewId].kind = "none"
  <2>1. none \in SUBSET Nat
    BY FilesAssumption DEF Ids
  <2>2. NewId = First(none)
    BY DEF NewId
  <2>3. First(none) \in none
    <3> HIDE DEF none
    <3>1. \E x \in none : \A y \in none : x <= y
      BY <1>3, <2>1, NatLeast
    <3> QED BY <3>1, Zenon DEF First
  <2> QED BY <2>2, <2>3
<1>6. norm = path.comps /\ path.comps # <<>> => Name(path) \in Names
  <2> HIDE DEF norm
  <2> QED BY <1>2 DEF Name
<1>7. Simple(cwd, path) => norm = path.comps /\ path.comps # <<>>
  BY DEF Simple, Relative
<1>8. Simple(cwd, path) => name = Name(path)
  BY DEF FileName
<1>9. name \in EntryNames
  <2>1. CASE Simple(cwd, path)
    BY <1>6, <1>7, <1>8, <2>1 DEF EntryNames
  <2>2. CASE ~Simple(cwd, path) /\ path.abs /\ norm = path.comps /\ path.comps # <<>>
    <3>1. name = Separator \o Name(path) /\ Name(path) \in Names
      BY <1>6, <2>2 DEF FileName
    <3> QED BY <3>1, Zenon DEF EntryNames
  <2>3. CASE ~Simple(cwd, path) /\ ~(path.abs /\ norm = path.comps /\ path.comps # <<>>)
    <3>1. name \in {Stray} \cup Names
      BY <2>3 DEF FileName
    <3> QED BY <3>1, Zenon DEF EntryNames
  <2> QED BY <2>1, <2>2, <2>3, Zenon
<1>10. GrownBy(fs, WithNode(parent, name, kind), parent, NewId, name, kind)
  <2> HIDE DEF parent
  <2> QED BY <1>3, <1>4, <1>5, <1>9, Zenon DEF GrownBy, WithNode
<1> QED BY <1>3, <1>6, <1>7, <1>8, <1>10, ZenonT(40)
--------------------------------------------------------------------------------
(* A descriptor leads to a node that exists, and knows no more of a file    *)
(* than there is; if a file is open, some descriptor knows all of it.       *)
GoodNode(f, n) ==
    /\ n.offset <= MaxSize + 1
    /\ n.id # None => /\ f[n.id].kind # "none" /\ f[n.id].kind \in n.flags
                      /\ n.size <= f[n.id].size

Descriptors(f, pr) ==
    \A p \in Procs : \A k \in 1 .. Len(pr[p].fdt) : GoodNode(f, pr[p].fdt[k])

OpenAs(pr, i, size) ==
    \E p \in Procs : \E k \in 1 .. Len(pr[p].fdt) :
       pr[p].fdt[k].id = i /\ pr[p].fdt[k].size = size

Known(f, pr) ==
    \A i \in Ids : (\E size : OpenAs(pr, i, size)) => OpenAs(pr, i, f[i].size)

(* A stream has a descriptor of its own, and returned a prefix.             *)
Prefix(t, e) == Len(t) <= Len(e) /\ \A k \in 1 .. Len(t) : t[k] = e[k].name

OneStream(f, r, t) ==
    r.dir # NoDir =>
       /\ r.dir.fd \in 4 .. Len(r.fdt)
       /\ r.fdt[r.dir.fd].id # None
       /\ Prefix(t, f[r.fdt[r.dir.fd].id].entries)

Streams(f, pr, s) == \A p \in Procs : OneStream(f, pr[p], s[p])

SeenType == [Procs -> Seq(EntryNames)]

Tables(f, pr, s) ==
    /\ Tree(f) /\ pr \in ProcType /\ s \in SeenType
    /\ \A p \in Procs : Len(pr[p].fdt) >= 3
    /\ Descriptors(f, pr) /\ Known(f, pr) /\ Streams(f, pr, s)

FInv == Tables(fs, proc, seen)

(* Files grow, or a file of which no descriptor is about to change grows.   *)
LEMMA KeptTables ==
    ASSUME NEW f, NEW g, NEW pr, NEW s, Tables(f, pr, s), Tree(g), Extends(f, g),
           \A i \in Ids : f[i].kind # "none" => g[i].size = f[i].size
    PROVE  Tables(g, pr, s)
<1>1. Tree(f) /\ pr \in ProcType /\ s \in SeenType /\ \A p \in Procs : Len(pr[p].fdt) >= 3
  BY Zenon DEF Tables
<1>2. f \in FsType /\ g \in FsType
  BY <1>1, Zenon DEF Tree
<1>3. ASSUME NEW p \in Procs, NEW k \in 1 .. Len(pr[p].fdt), pr[p].fdt[k].id # None
      PROVE  pr[p].fdt[k].id \in Ids /\ f[pr[p].fdt[k].id].kind # "none"
  <2>1. pr[p].fdt[k] \in NodeT
    BY <1>1, ProcFields
  <2>2. pr[p].fdt[k].id \in {None} \cup Ids
    BY <2>1, NodeFields, Zenon
  <2>3. GoodNode(f, pr[p].fdt[k])
    BY DEF Tables, Descriptors
  <2> QED BY <1>3, <2>2, <2>3, Zenon DEF GoodNode
<1>4. Descriptors(g, pr)
  <2> SUFFICES ASSUME NEW p \in Procs, NEW k \in 1 .. Len(pr[p].fdt)
               PROVE  GoodNode(g, pr[p].fdt[k])
    BY Zenon DEF Descriptors
  <2> DEFINE n == pr[p].fdt[k]
  <2>1. GoodNode(f, n)
    BY Zenon DEF Tables, Descriptors
  <2>2. n.id # None => g[n.id].kind = f[n.id].kind /\ g[n.id].size = f[n.id].size
    BY <1>3, Zenon DEF Extends
  <2> HIDE DEF n
  <2>3. GoodNode(g, n)
    BY <2>1, <2>2, Zenon DEF GoodNode
  <2> QED BY <2>3, Zenon DEF n
<1>5. Known(g, pr)
  <2> SUFFICES ASSUME NEW i \in Ids, \E size : OpenAs(pr, i, size) PROVE OpenAs(pr, i, g[i].size)
    BY Zenon DEF Known
  <2>1. OpenAs(pr, i, f[i].size)
    BY ZenonT(40) DEF Tables, Known
  <2>2. f[i].kind # "none"
    BY <2>1, <1>3, RootId DEF OpenAs
  <2> QED BY <2>1, <2>2, Zenon
<1>6. Streams(g, pr, s)
  <2> SUFFICES ASSUME NEW p \in Procs, pr[p].dir # NoDir PROVE OneStream(g, pr[p], s[p])
    BY Zenon DEF Streams, OneStream
  <2> DEFINE i == pr[p].fdt[pr[p].dir.fd].id
  <2>1. OneStream(f, pr[p], s[p])
    BY DEF Tables, Streams
  <2>2. pr[p].dir.fd \in 4 .. Len(pr[p].fdt) /\ i # None /\ Prefix(s[p], f[i].entries)
    BY <2>1, Zenon DEF OneStream
  <2>3. Len(pr[p].fdt) \in Nat
    BY <1>1, ProcFields, Zenon
  <2>4. pr[p].dir.fd \in 1 .. Len(pr[p].fdt)
    <3>1. pr[p].dir.fd \in 4 .. Len(pr[p].fdt)
      BY <2>2, ZenonT(40)
    <3> QED BY <3>1, <2>3
  <2>5. i \in Ids /\ f[i].kind # "none"
    BY <1>3, <2>2, <2>4, Zenon
  <2> HIDE DEF i
  <2>6. /\ Len(f[i].entries) <= Len(g[i].entries)
        /\ \A k \in 1 .. Len(f[i].entries) : g[i].entries[k] = f[i].entries[k]
    BY <2>5, Zenon DEF Extends
  <2>7. Len(f[i].entries) \in Nat /\ Len(g[i].entries) \in Nat /\ Len(s[p]) \in Nat
    BY <1>1, <1>2, <2>5, FsFields DEF SeenType
  <2>8. Prefix(s[p], f[i].entries)
    BY <2>2, Zenon
  <2> DEFINE t == s[p]  e == f[i].entries  e2 == g[i].entries
  <2>9. /\ Len(e) <= Len(e2) /\ \A k \in 1 .. Len(e) : e2[k] = e[k]
        /\ Len(e) \in Nat /\ Len(e2) \in Nat /\ Len(t) \in Nat /\ Prefix(t, e)
    BY <2>6, <2>7, <2>8, ZenonT(40)
  <2> HIDE DEF t, e, e2
  <2>10. Prefix(t, e2)
    BY <2>9 DEF Prefix
  <2> QED BY <2>2, <2>10, ZenonT(40) DEF i, t, e2, OneStream
<1> QED BY <1>1, <1>4, <1>5, <1>6, Zenon DEF Tables

(* A process opens a file: a node is added behind its table.                *)
LEMMA AppendTable ==
    ASSUME NEW f, NEW pr \in ProcType, NEW p \in Procs, NEW n \in NodeT, NEW r \in ProcT,
           Descriptors(f, pr), Known(f, pr), GoodNode(f, n), n.id \in Ids, n.size = f[n.id].size,
           r.fdt = Append(pr[p].fdt, n)
    PROVE  /\ Descriptors(f, [pr EXCEPT ![p] = r])
           /\ Known(f, [pr EXCEPT ![p] = r])
<1> DEFINE pr2 == [pr EXCEPT ![p] = r]  d == pr[p].fdt
<1>1. d \in Seq(NodeT) /\ Len(d) \in Nat
  BY ProcFields, Zenon
<1>2. pr2[p].fdt = Append(d, n) /\ \A q \in Procs \ {p} : pr2[q].fdt = pr[q].fdt
  BY ZenonT(40) DEF ProcType
<1>3. /\ Len(pr2[p].fdt) = Len(d) + 1 /\ pr2[p].fdt[Len(d) + 1] = n
      /\ \A k \in 1 .. Len(d) : pr2[p].fdt[k] = d[k]
  <2> HIDE DEF d, pr2
  <2> QED BY <1>1, <1>2
<1>4. \A k \in 1 .. Len(d) + 1 : k = Len(d) + 1 \/ k \in 1 .. Len(d)
  <2> HIDE DEF d
  <2> QED BY <1>1
<1> HIDE DEF pr2
<1>5. Descriptors(f, pr2)
  <2> SUFFICES ASSUME NEW q \in Procs, NEW k \in 1 .. Len(pr2[q].fdt)
               PROVE  GoodNode(f, pr2[q].fdt[k])
    BY Zenon DEF Descriptors
  <2>1. CASE q = p
    BY <2>1, <1>3, <1>4, Zenon DEF Descriptors
  <2>2. CASE q # p
    BY <2>2, <1>2, Zenon DEF Descriptors
  <2> QED BY <2>1, <2>2, Zenon
<1>6. ASSUME NEW i, NEW size, OpenAs(pr, i, size) PROVE OpenAs(pr2, i, size)
  <2>1. PICK q \in Procs : \E k \in 1 .. Len(pr[q].fdt) :
                              pr[q].fdt[k].id = i /\ pr[q].fdt[k].size = size
    BY <1>6, Zenon DEF OpenAs
  <2>2. PICK k \in 1 .. Len(pr[q].fdt) : pr[q].fdt[k].id = i /\ pr[q].fdt[k].size = size
    BY <2>1, Zenon
  <2>3. CASE q = p
    <3>1. k \in 1 .. Len(d) + 1 /\ pr2[q].fdt[k] = pr[q].fdt[k] /\ Len(pr2[q].fdt) = Len(d) + 1
      BY <2>3, <1>1, <1>3
    <3> QED BY <3>1, <2>2, ZenonT(40) DEF OpenAs
  <2>4. CASE q # p
    BY <2>4, <2>2, <1>2, ZenonT(40) DEF OpenAs
  <2> QED BY <2>3, <2>4, Zenon
<1>7. Known(f, pr2)
  <2> SUFFICES ASSUME NEW i \in Ids, NEW size, OpenAs(pr2, i, size) PROVE OpenAs(pr2, i, f[i].size)
    BY DEF Known
  <2>1. PICK q \in Procs : \E k \in 1 .. Len(pr2[q].fdt) :
                              pr2[q].fdt[k].id = i /\ pr2[q].fdt[k].size = size
    BY Zenon DEF OpenAs
  <2>2. PICK k \in 1 .. Len(pr2[q].fdt) : pr2[q].fdt[k].id = i /\ pr2[q].fdt[k].size = size
    BY <2>1, Zenon
  <2>3. CASE q = p /\ k = Len(d) + 1
    BY <2>2, <2>3, <1>3, ZenonT(40) DEF OpenAs
  <2>4. CASE ~(q = p /\ k = Len(d) + 1)
    <3>1. k \in 1 .. Len(pr[q].fdt) /\ pr2[q].fdt[k] = pr[q].fdt[k]
      BY <2>4, <1>2, <1>3, <1>4, ZenonT(40)
    <3>2. OpenAs(pr, i, size)
      BY <3>1, <2>2, ZenonT(40) DEF OpenAs
    <3> QED BY <3>2, <1>6 DEF Known
  <2> QED BY <2>3, <2>4
<1> QED BY <1>5, <1>7, Zenon DEF pr2

(* A node of the table changes its offset, or the process has written       *)
(* through it and it knows the file's new size, which is not less.          *)
LEMMA UpdateTable ==
    ASSUME NEW f \in FsType, NEW g \in FsType, NEW pr \in ProcType, NEW p \in Procs,
           NEW fd \in 1 .. Len(pr[p].fdt), NEW n \in NodeT, NEW r \in ProcT,
           Descriptors(f, pr), Known(f, pr), r.fdt = [pr[p].fdt EXCEPT ![fd] = n],
           n.id \in Ids, n.id = pr[p].fdt[fd].id, n.flags = pr[p].fdt[fd].flags,
           n.offset <= MaxSize + 1,
           \A i \in Ids : g[i].kind = f[i].kind /\ f[i].size <= g[i].size,
           \A i \in Ids \ {n.id} : g[i].size = f[i].size,
           \/ n.size = g[n.id].size
           \/ n.size = pr[p].fdt[fd].size /\ g[n.id].size = f[n.id].size
    PROVE  /\ Descriptors(g, [pr EXCEPT ![p] = r])
           /\ Known(g, [pr EXCEPT ![p] = r])
<1> DEFINE pr2 == [pr EXCEPT ![p] = r]  d == pr[p].fdt
<1>1. d \in Seq(NodeT) /\ Len(d) \in Nat
  BY ProcFields, ZenonT(40)
<1>2. pr2[p].fdt = [d EXCEPT ![fd] = n] /\ \A q \in Procs \ {p} : pr2[q].fdt = pr[q].fdt
  BY Zenon DEF ProcType
<1>3. /\ Len(pr2[p].fdt) = Len(d) /\ pr2[p].fdt[fd] = n
      /\ \A k \in 1 .. Len(d) : k # fd => pr2[p].fdt[k] = d[k]
  <2>1. fd \in 1 .. Len(d)
    BY ZenonT(40)
  <2> HIDE DEF d, pr2
  <2>2. d \in Seq(NodeT) /\ n \in NodeT
    BY <1>1, Zenon
  <2>3. pr2[p].fdt = [d EXCEPT ![fd] = n]
    BY <1>2, Zenon
  <2>4. Put(pr2[p].fdt, d, fd, n)
    BY <2>3, Zenon DEF Put
  <2>5. PutIn(NodeT, pr2[p].fdt, d, fd, n)
    BY <2>1, <2>2, <2>4, SeqReplaced, Zenon
  <2> QED BY <2>5, ZenonT(40) DEF PutIn
<1> HIDE DEF pr2
<1>4. \A q \in Procs : /\ Len(pr2[q].fdt) = Len(pr[q].fdt)
                       /\ \A k \in 1 .. Len(pr[q].fdt) : pr2[q].fdt[k].id = pr[q].fdt[k].id
                       /\ \A k \in 1 .. Len(pr[q].fdt) :
                             ~(q = p /\ k = fd) => pr2[q].fdt[k] = pr[q].fdt[k]
  <2> SUFFICES ASSUME NEW q \in Procs
               PROVE  /\ Len(pr2[q].fdt) = Len(pr[q].fdt)
                      /\ \A k \in 1 .. Len(pr[q].fdt) : pr2[q].fdt[k].id = pr[q].fdt[k].id
                      /\ \A k \in 1 .. Len(pr[q].fdt) :
                            ~(q = p /\ k = fd) => pr2[q].fdt[k] = pr[q].fdt[k]
    BY ZenonT(40)
  <2>1. CASE q = p
    BY <2>1, <1>3, ZenonT(40)
  <2>2. CASE q # p
    BY <2>2, <1>2, ZenonT(40)
  <2> QED BY <2>1, <2>2, ZenonT(40)
<1>5. ASSUME NEW i \in Ids PROVE f[i].size \in Nat /\ g[i].size \in Nat
  <2>1. f[i].size \in 0 .. MaxSize /\ g[i].size \in 0 .. MaxSize
    BY FsFields, ZenonT(40)
  <2> QED BY <2>1, SizesNat, ZenonT(40)
<1>6. ASSUME NEW m \in NodeT, GoodNode(f, m) PROVE GoodNode(g, m)
  <2>1. m.id \in {None} \cup Ids /\ m.size \in 0 .. MaxSize
    BY NodeFields, ZenonT(40)
  <2>2. CASE m.id = None
    BY <2>2, <1>6, ZenonT(40) DEF GoodNode
  <2>3. CASE m.id \in Ids
    <3>1. /\ m.offset <= MaxSize + 1 /\ f[m.id].kind # "none" /\ f[m.id].kind \in m.flags
          /\ m.size <= f[m.id].size
      BY <1>6, <2>3, RootId, ZenonT(40) DEF GoodNode
    <3>2. g[m.id].kind = f[m.id].kind /\ f[m.id].size <= g[m.id].size
      BY <2>3
    <3>3. f[m.id].size \in Nat /\ g[m.id].size \in Nat /\ m.size \in Nat
      <4>1. \A x \in 0 .. MaxSize : x \in Nat
        BY SizesNat, ZenonT(40)
      <4> QED BY <4>1, <1>5, <2>1, <2>3, ZenonT(40)
    <3>4. m.size <= g[m.id].size
      <4>1. \A y \in Nat : \A z \in Nat : m.size <= y /\ y <= z => m.size <= z
        BY <3>3, AtMostAlso, ZenonT(40)
      <4>2. \A z \in Nat : f[m.id].size <= z => m.size <= z
        BY <4>1, <3>1, <3>3, ZenonT(40)
      <4> QED BY <4>2, <3>2, <3>3, ZenonT(40)
    <3> QED BY <3>1, <3>2, <3>4, ZenonT(40) DEF GoodNode
  <2> QED BY <2>1, <2>2, <2>3, ZenonT(40)
<1>7. GoodNode(g, n)
  <2>1. GoodNode(f, pr[p].fdt[fd])
    BY ZenonT(40) DEF Descriptors
  <2> DEFINE o == pr[p].fdt[fd]
  <2>a. GoodNode(f, o) /\ o.id = n.id /\ o.flags = n.flags /\ n.id # None
    BY <2>1, RootId, ZenonT(40)
  <2> HIDE DEF o
  <2>b. f[n.id].kind # "none" /\ f[n.id].kind \in n.flags /\ o.size <= f[n.id].size
    BY <2>a, Zenon DEF GoodNode
  <2>2. f[n.id].kind # "none" /\ f[n.id].kind \in n.flags /\ pr[p].fdt[fd].size <= f[n.id].size
    BY <2>b, ZenonT(40) DEF o
  <2>3. n.size <= g[n.id].size
    <3>1. CASE n.size = g[n.id].size
      <4>1. n.id \in Ids
        BY ZenonT(40)
      <4>2. g[n.id].size \in Nat
        BY <4>1, <1>5, ZenonT(40)
      <4> QED BY <3>1, <4>2, AtMostItself, ZenonT(40)
    <3>2. CASE n.size = pr[p].fdt[fd].size /\ g[n.id].size = f[n.id].size
      BY <3>2, <2>2, ZenonT(40)
    <3> QED BY <3>1, <3>2, ZenonT(40)
  <2>4. g[n.id].kind = f[n.id].kind
    BY ZenonT(40)
  <2> QED BY <2>2, <2>3, <2>4, ZenonT(40) DEF GoodNode
<1>8. Descriptors(g, pr2)
  <2> SUFFICES ASSUME NEW q \in Procs, NEW k \in 1 .. Len(pr2[q].fdt)
               PROVE  GoodNode(g, pr2[q].fdt[k])
    BY Zenon DEF Descriptors
  <2>1. CASE q = p /\ k = fd
    BY <2>1, <1>3, <1>7, ZenonT(40)
  <2>2. CASE ~(q = p /\ k = fd)
    <3>1. k \in 1 .. Len(pr[q].fdt) /\ pr2[q].fdt[k] = pr[q].fdt[k]
      BY <2>2, <1>4, ZenonT(40)
    <3>2. GoodNode(f, pr[q].fdt[k]) /\ pr[q].fdt[k] \in NodeT
      BY <3>1, ProcFields, ZenonT(40) DEF Descriptors
    <3> QED BY <3>1, <3>2, <1>6, ZenonT(40)
  <2> QED BY <2>1, <2>2, Zenon
<1>9. Known(g, pr2)
  <2> SUFFICES ASSUME NEW i \in Ids, NEW size, OpenAs(pr2, i, size) PROVE OpenAs(pr2, i, g[i].size)
    BY ZenonT(40) DEF Known
  <2>1. PICK q \in Procs : \E k \in 1 .. Len(pr2[q].fdt) :
                              pr2[q].fdt[k].id = i /\ pr2[q].fdt[k].size = size
    BY ZenonT(40) DEF OpenAs
  <2>2. PICK k \in 1 .. Len(pr2[q].fdt) : pr2[q].fdt[k].id = i /\ pr2[q].fdt[k].size = size
    BY <2>1, ZenonT(40)
  <2>3. k \in 1 .. Len(pr[q].fdt) /\ pr[q].fdt[k].id = i
    BY <1>4, <2>2, ZenonT(40)
  <2>4. OpenAs(pr, i, f[i].size)
    <3>1. OpenAs(pr, i, pr[q].fdt[k].size)
      BY <2>3, ZenonT(40) DEF OpenAs
    <3> QED BY <3>1, ZenonT(40) DEF Known
  <2>5. CASE i = n.id /\ n.size = g[n.id].size
    <3>1. fd \in 1 .. Len(pr2[p].fdt) /\ pr2[p].fdt[fd].id = i /\ pr2[p].fdt[fd].size = g[i].size
      BY <2>5, <1>3, ZenonT(40)
    <3> QED BY <3>1, ZenonT(40) DEF OpenAs
  <2>6. CASE ~(i = n.id /\ n.size = g[n.id].size)
    <3>1. g[i].size = f[i].size
      BY <2>6, Zenon
    <3>2. PICK q2 \in Procs : \E k2 \in 1 .. Len(pr[q2].fdt) :
                                 pr[q2].fdt[k2].id = i /\ pr[q2].fdt[k2].size = f[i].size
      BY <2>4, ZenonT(40) DEF OpenAs
    <3>3. PICK k2 \in 1 .. Len(pr[q2].fdt) : pr[q2].fdt[k2].id = i /\ pr[q2].fdt[k2].size = f[i].size
      BY <3>2, ZenonT(40)
    <3>4. k2 \in 1 .. Len(pr2[q2].fdt) /\ pr2[q2].fdt[k2].id = i
      BY <1>4, <3>3, ZenonT(40)
    <3>5. pr2[q2].fdt[k2].size = f[i].size
      <4>1. CASE q2 = p /\ k2 = fd
        <5>1. i = n.id
          BY <4>1, <3>3
        <5>2. n.size = pr[p].fdt[fd].size
          BY <5>1, <2>6, ZenonT(40)
        <5> QED BY <5>2, <4>1, <1>3, <3>3
      <4>2. CASE ~(q2 = p /\ k2 = fd)
        BY <4>2, <1>4, <3>3, Zenon
      <4> QED BY <4>1, <4>2, ZenonT(40)
    <3> QED BY <3>1, <3>4, <3>5, ZenonT(40) DEF OpenAs
  <2> QED BY <2>5, <2>6, ZenonT(40)
<1> QED BY <1>8, <1>9 DEF pr2

(* The working directory or the stream of a process changes.                *)
LEMMA SameTable ==
    ASSUME NEW f, NEW pr \in ProcType, NEW p \in Procs, NEW r \in ProcT,
           Descriptors(f, pr), Known(f, pr), r.fdt = pr[p].fdt
    PROVE  /\ Descriptors(f, [pr EXCEPT ![p] = r])
           /\ Known(f, [pr EXCEPT ![p] = r])
<1> DEFINE pr2 == [pr EXCEPT ![p] = r]
<1>1. \A q \in Procs : pr2[q].fdt = pr[q].fdt
  BY DEF ProcType
<1> HIDE DEF pr2
<1>2. Descriptors(f, pr2)
  BY <1>1, Zenon DEF Descriptors
<1>3. \A i, size : OpenAs(pr2, i, size) <=> OpenAs(pr, i, size)
  BY <1>1, ZenonT(40) DEF OpenAs
<1>4. Known(f, pr2)
  BY <1>3, Zenon DEF Known
<1> QED BY <1>2, <1>4 DEF pr2

(* Descriptors stay where they are and keep their files.                    *)
LEMMA StreamFollows ==
    ASSUME NEW f, NEW g, NEW o \in ProcT, NEW r \in ProcT, NEW t, OneStream(f, o, t),
           \A i \in Ids : g[i].entries = f[i].entries,
           r.dir = o.dir, Len(o.fdt) <= Len(r.fdt),
           \A k \in 1 .. Len(o.fdt) : r.fdt[k].id = o.fdt[k].id
    PROVE  OneStream(g, r, t)
<1> SUFFICES ASSUME r.dir # NoDir PROVE OneStream(g, r, t)
  BY Zenon DEF OneStream
<1> DEFINE j == o.dir.fd
<1>1. j \in 4 .. Len(o.fdt) /\ o.fdt[j].id # None /\ Prefix(t, f[o.fdt[j].id].entries)
  BY Zenon DEF OneStream
<1>2. o.fdt \in Seq(NodeT) /\ r.fdt \in Seq(NodeT)
  BY Zenon DEF ProcT
<1>3. Len(o.fdt) \in Nat /\ Len(r.fdt) \in Nat
  BY <1>2, LenNat, Zenon
<1>4. j \in 4 .. Len(o.fdt)
  BY <1>1, Zenon
<1> HIDE DEF j
<1>5. j \in 1 .. Len(o.fdt) /\ j \in 4 .. Len(r.fdt)
  BY <1>3, <1>4
<1>6. o.fdt[j] \in NodeT
  BY <1>2, <1>5
<1>7. o.fdt[j].id \in Ids
  BY <1>1, <1>6, NodeFields, Zenon
<1>8. r.fdt[j].id = o.fdt[j].id /\ r.dir.fd = j
  BY <1>5, Zenon DEF j
<1>9. Prefix(t, g[r.fdt[j].id].entries) /\ r.fdt[j].id # None
  BY <1>1, <1>7, <1>8, Zenon
<1> QED BY <1>5, <1>8, <1>9, Zenon DEF OneStream

(* What is left to show when process p has become r.                        *)
LEMMA Replaced ==
    ASSUME NEW f, NEW g, NEW pr, NEW s, Tables(f, pr, s), Tree(g),
           \A i \in Ids : g[i].entries = f[i].entries,
           NEW p \in Procs, NEW r \in ProcT, NEW t \in Seq(EntryNames), Len(r.fdt) >= 3,
           NEW pr2, Put(pr2, pr, p, r), NEW s2, Put(s2, s, p, t),
           Descriptors(g, pr2), Known(g, pr2), OneStream(g, r, t)
    PROVE  Tables(g, pr2, s2)
<1>1. /\ pr \in ProcType /\ s \in SeenType /\ Streams(f, pr, s)
      /\ \A q \in Procs : Len(pr[q].fdt) >= 3
  BY Zenon DEF Tables
<1>2. pr2 \in ProcType /\ pr2[p] = r /\ \A q \in Procs \ {p} : pr2[q] = pr[q]
  BY <1>1, ZenonT(40) DEF ProcType, Put
<1>3. s2 \in SeenType /\ s2[p] = t /\ \A q \in Procs \ {p} : s2[q] = s[q]
  BY <1>1 DEF SeenType, Put
<1>4. \A q \in Procs : Len(pr2[q].fdt) >= 3
  BY <1>1, <1>2, ZenonT(40)
<1>6. ASSUME NEW q \in Procs PROVE OneStream(g, pr2[q], s2[q])
  <2>1. CASE q = p
    BY <2>1, <1>2, <1>3, Zenon
  <2>2. CASE q # p
    <3>1. OneStream(f, pr[q], s[q]) /\ pr[q] \in ProcT /\ Len(pr[q].fdt) \in Nat
      BY <1>1, ProcFields, ZenonT(40) DEF Streams
    <3>2. OneStream(g, pr[q], s[q])
      BY <3>1, StreamFollows
    <3> QED BY <3>2, <2>2, <1>2, <1>3, Zenon
  <2> QED BY <2>1, <2>2, Zenon
<1>7. Streams(g, pr2, s2)
  BY <1>6 DEF Streams
<1> QED BY <1>2, <1>3, <1>4, <1>7 DEF Tables
--------------------------------------------------------------------------------
(* The calls.  A file is opened: by sys_open, by sys_opendir as a stream.   *)
LEMMA OpenHolds ==
    ASSUME NEW f, NEW pr, NEW s, Tables(f, pr, s), NEW p \in Procs, NEW n \in NodeT,
           GoodNode(f, n), n.id \in Ids, n.size = f[n.id].size, NEW r \in ProcT, NEW t,
           r.fdt = Append(pr[p].fdt, n),
           \/ r.dir = pr[p].dir /\ t = s[p]
           \/ r.dir.fd = Len(pr[p].fdt) + 1 /\ t = <<>>
    PROVE  Tables(f, [pr EXCEPT ![p] = r], [s EXCEPT ![p] = t])
<1> DEFINE d == pr[p].fdt
<1>1. /\ Tree(f) /\ pr \in ProcType /\ s \in SeenType /\ Descriptors(f, pr) /\ Known(f, pr)
      /\ Streams(f, pr, s) /\ Len(d) >= 3
  BY ZenonT(40) DEF Tables
<1>2. d \in Seq(NodeT) /\ Len(d) \in Nat /\ pr[p] \in ProcT
  BY <1>1, ProcFields, Zenon
<1>3. Descriptors(f, [pr EXCEPT ![p] = r]) /\ Known(f, [pr EXCEPT ![p] = r])
  BY <1>1, AppendTable, ZenonT(40)
<1>4. Len(r.fdt) = Len(d) + 1 /\ r.fdt[Len(d) + 1] = n /\ \A k \in 1 .. Len(d) : r.fdt[k] = d[k]
  <2>1. r.fdt = Append(d, n)
    OBVIOUS
  <2> HIDE DEF d
  <2> QED BY <1>2, <2>1
<1>5. t \in Seq(EntryNames)
  <2>1. s[p] \in Seq(EntryNames)
    BY <1>1 DEF SeenType
  <2>2. <<>> \in Seq(EntryNames)
    OBVIOUS
  <2> QED BY <2>1, <2>2, ZenonT(40)
<1>6. OneStream(f, r, t)
  <2>1. CASE r.dir = pr[p].dir /\ t = s[p]
    <3>1. OneStream(f, pr[p], t)
      BY <1>1, <2>1, ZenonT(40) DEF Streams
    <3>2. Len(pr[p].fdt) <= Len(r.fdt)
      BY <1>2, <1>4
    <3>3. \A k \in 1 .. Len(pr[p].fdt) : r.fdt[k].id = pr[p].fdt[k].id
      BY <1>4, Zenon
    <3> QED BY <3>1, <3>2, <3>3, <2>1, <1>2, StreamFollows, ZenonT(40)
  <2>2. CASE r.dir.fd = Len(pr[p].fdt) + 1 /\ t = <<>>
    <3>1. r.dir.fd \in 4 .. Len(r.fdt)
      <4>1. r.dir.fd = Len(d) + 1
        BY <2>2, ZenonT(40)
      <4> HIDE DEF d
      <4> QED BY <4>1, <1>1, <1>2, <1>4
    <3>2. r.fdt[r.dir.fd].id # None
      BY <2>2, <1>4, RootId
    <3>3. f[n.id].entries \in Seq(EntryT)
      BY <1>1, FsFields, ZenonT(40) DEF Tree
    <3>4. Prefix(<<>>, f[n.id].entries)
      BY <3>3 DEF Prefix
    <3>5. r.fdt[r.dir.fd].id = n.id
      BY <2>2, <1>4, ZenonT(40)
    <3> QED BY <3>1, <3>2, <3>4, <3>5, <2>2, ZenonT(40) DEF OneStream
  <2> QED BY <2>1, <2>2
<1>7. Len(r.fdt) >= 3
  <2> HIDE DEF d
  <2> QED BY <1>1, <1>2, <1>4
<1>8. \A i \in Ids : f[i].entries = f[i].entries
  OBVIOUS
<1> HIDE DEF d
<1> DEFINE pr2 == [pr EXCEPT ![p] = r]  s2 == [s EXCEPT ![p] = t]
<1>9. Put(pr2, pr, p, r) /\ Put(s2, s, p, t)
  BY DEF Put
<1>10. Descriptors(f, pr2) /\ Known(f, pr2)
  BY <1>3
<1> HIDE DEF pr2, s2
<1>11. Tables(f, pr2, s2)
  BY <1>1, <1>5, <1>6, <1>7, <1>8, <1>9, <1>10, Replaced, ZenonT(40)
<1> QED BY <1>11 DEF pr2, s2

LEMMA WithTable ==
    ASSUME NEW o \in ProcT, NEW d \in Seq(NodeT)
    PROVE  /\ [o EXCEPT !.fdt = d] \in ProcT
           /\ [o EXCEPT !.fdt = d].fdt = d /\ [o EXCEPT !.fdt = d].dir = o.dir
BY ZenonT(40) DEF ProcT

(* The node that ino2vfs fills in, for an inode that exists.                *)
LEMMA NodeOfGood ==
    ASSUME fs \in FsType, NEW id \in Ids, fs[id].kind # "none", NEW attr \in Attrs, NEW g \in Garbage
    PROVE  /\ NodeOf(id, attr, g) \in NodeT /\ GoodNode(fs, NodeOf(id, attr, g))
           /\ NodeOf(id, attr, g).id = id /\ NodeOf(id, attr, g).size = fs[id].size
<1>1. fs[id].size \in 0 .. MaxSize /\ fs[id].kind \in {"none", "file", "dir"}
  BY FsFields
<1>2. {fs[id].kind} \cup g \in SUBSET Flags
  BY <1>1 DEF Flags
<1>3. 0 <= MaxSize + 1 /\ fs[id].size <= fs[id].size
  BY <1>1, FilesAssumption
<1> QED BY <1>1, <1>2, <1>3 DEF NodeOf, NodeT, GoodNode

LEMMA OpenedExists ==
    ASSUME Tree(fs), proc \in ProcType, NEW p \in Procs, NEW path \in Paths,
           vfs_openFile(fs, proc[p].cwd, path) # None
    PROVE  /\ vfs_openFile(fs, proc[p].cwd, path) \in Ids
           /\ fs[vfs_openFile(fs, proc[p].cwd, path)].kind # "none"
<1>1. normalizePath(proc[p].cwd, path) \in Seq(Names)
  BY ProcFields, PathFacts
<1> QED BY <1>1, FoundPresent, ZenonT(40) DEF vfs_openFile

LEMMA OpenStep ==
    ASSUME FInv, NEW p \in Procs, NEW path \in Paths, NEW attr \in Attrs, sys_open(p, path, attr)
    PROVE  FInv'
<1> DEFINE id == vfs_openFile(fs, proc[p].cwd, path)
<1>1. Tables(fs, proc, seen) /\ Tree(fs) /\ proc \in ProcType /\ seen \in SeenType /\ fs \in FsType
  BY Zenon DEF FInv, Tables, Tree
<1>2. id # None /\ fs' = fs /\ seen' = seen
  BY ZenonT(40) DEF sys_open
<1>3. id \in Ids /\ fs[id].kind # "none"
  BY <1>1, <1>2, OpenedExists
<1>4. PICK g \in Garbage : proc' = Added(p, NodeOf(id, attr, g))
  BY DEF sys_open
<1> DEFINE n == NodeOf(id, attr, g)  r == [proc[p] EXCEPT !.fdt = Append(@, n)]
<1> HIDE DEF id
<1>5. n \in NodeT /\ GoodNode(fs, n) /\ n.id = id /\ n.size = fs[id].size
  BY <1>1, <1>3, NodeOfGood, ZenonT(40)
<1>6. proc' = [proc EXCEPT ![p].fdt = Append(@, n)]
  BY <1>4 DEF Added
<1> HIDE DEF n
<1>7. r \in ProcT /\ r.fdt = Append(proc[p].fdt, n) /\ r.dir = proc[p].dir
  <2>1. proc[p] \in ProcT /\ proc[p].fdt \in Seq(NodeT)
    BY <1>1, ProcFields, ZenonT(40)
  <2>2. Append(proc[p].fdt, n) \in Seq(NodeT)
    BY <1>5, <2>1
  <2> QED BY <2>1, <2>2, WithTable, Zenon
<1>8. proc' = [proc EXCEPT ![p] = r]
  BY <1>6
<1> HIDE DEF r
<1>9. seen' = [seen EXCEPT ![p] = seen[p]]
  BY <1>1, <1>2 DEF SeenType
<1>10. Tables(fs, [proc EXCEPT ![p] = r], [seen EXCEPT ![p] = seen[p]])
  BY <1>1, <1>3, <1>5, <1>7, OpenHolds, ZenonT(40)
<1> QED BY <1>2, <1>8, <1>9, <1>10, Zenon DEF FInv

LEMMA OpendirStep ==
    ASSUME FInv, NEW p \in Procs, NEW path \in Paths, sys_opendir(p, path)
    PROVE  FInv'
<1> DEFINE id == vfs_openFile(fs, proc[p].cwd, path)
           dir == [fd |-> Len(proc[p].fdt) + 1, currentEntry |-> 0]
<1>1. Tables(fs, proc, seen) /\ Tree(fs) /\ proc \in ProcType /\ seen \in SeenType /\ fs \in FsType
  BY Zenon DEF FInv, Tables, Tree
<1>2. id # None /\ fs' = fs /\ seen' = [seen EXCEPT ![p] = <<>>]
  BY DEF sys_opendir
<1>3. id \in Ids /\ fs[id].kind # "none"
  BY <1>1, <1>2, OpenedExists, ZenonT(40)
<1>4. PICK g \in Garbage, attr \in Attrs : proc' = [Added(p, NodeOf(id, attr, g)) EXCEPT ![p].dir = dir]
  <2>1. (IF fs[id].kind = "dir" THEN {"O_RDONLY"} ELSE Attrs) \subseteq Attrs
    BY DEF Attrs
  <2> QED BY <2>1 DEF sys_opendir
<1> DEFINE n == NodeOf(id, attr, g)
           q == [proc[p] EXCEPT !.fdt = Append(@, n)]
           r == [q EXCEPT !.dir = dir]
<1> HIDE DEF id
<1>5. n \in NodeT /\ GoodNode(fs, n) /\ n.id = id /\ n.size = fs[id].size
  BY <1>1, <1>3, NodeOfGood, ZenonT(40)
<1>6. proc[p] \in ProcT /\ proc[p].fdt \in Seq(NodeT) /\ Len(proc[p].fdt) \in Nat
  BY <1>1, ProcFields
<1>7. Added(p, n) = [proc EXCEPT ![p] = q]
  BY DEF Added
<1>8. proc' = [[proc EXCEPT ![p] = q] EXCEPT ![p].dir = dir]
  BY <1>4, <1>7
<1> HIDE DEF n
<1>9. q \in ProcT /\ q.fdt = Append(proc[p].fdt, n)
  <2>1. Append(proc[p].fdt, n) \in Seq(NodeT)
    BY <1>5, <1>6
  <2> QED BY <2>1, <1>6, WithTable, ZenonT(40)
<1> HIDE DEF q
<1>10. r \in ProcT /\ r.fdt = q.fdt /\ r.dir = dir
  <2>1. dir \in [fd : Nat, currentEntry : Nat]
    BY <1>6
  <2> HIDE DEF dir
  <2> QED BY <2>1, <1>9, Zenon DEF ProcT
<1>11. proc' = [proc EXCEPT ![p] = r]
  <2> HIDE DEF dir
  <2> QED BY <1>1, <1>8, Zenon DEF ProcType
<1>12. r.dir.fd = Len(proc[p].fdt) + 1
  BY <1>10
<1> HIDE DEF r, dir
<1>13. Tables(fs, [proc EXCEPT ![p] = r], [seen EXCEPT ![p] = <<>>])
  BY <1>1, <1>3, <1>5, <1>9, <1>10, <1>12, OpenHolds, ZenonT(40)
<1> QED BY <1>2, <1>11, <1>13 DEF FInv

(* A file or a directory is made.                                           *)
LEMMA MadeHolds ==
    ASSUME FInv, NEW p \in Procs, NEW path \in Paths, NEW name, NEW kind \in {"file", "dir"},
           name \in FileName(proc[p].cwd, path), Creatable(p, path, name),
           fs' = WithNode(Parent(proc[p].cwd, path), name, kind)
    PROVE  /\ Tables(fs', proc, seen) /\ Extends(fs, fs')
           /\ Openable(fs) /\ ~Anywhere => Openable(fs')
           /\ NewId \in Ids /\ fs'[NewId].kind = kind /\ fs'[NewId].size = 0
<1> DEFINE g == WithNode(Parent(proc[p].cwd, path), name, kind)
           parent == Parent(proc[p].cwd, path)
<1>1. Tables(fs, proc, seen) /\ Tree(fs) /\ proc \in ProcType /\ fs \in FsType
  BY Zenon DEF FInv, Tables, Tree
<1>2. GrownBy(fs, g, parent, NewId, name, kind) /\ (~Anywhere => name \in Names)
  BY <1>1, NewNode
<1> HIDE DEF g, parent
<1>3. Tree(g) /\ Extends(fs, g) /\ GrownTo(fs, g, parent, NewId, name, kind)
  BY <1>1, <1>2, GrownTree, GrownExtends, GrownFacts, ZenonT(40)
<1>4. ~Anywhere /\ Openable(fs) => Openable(g)
  BY <1>1, <1>2, GrownOpenable
<1>5. parent \in Ids /\ NewId \in Ids /\ fs[NewId].kind = "none"
  BY <1>2, ZenonT(40) DEF GrownBy
<1>6. \A i \in Ids : fs[i].kind # "none" => g[i].size = fs[i].size
  BY <1>3, <1>5 DEF GrownTo
<1>7. Tables(g, proc, seen)
  BY <1>1, <1>3, <1>6, KeptTables, ZenonT(40)
<1>8. g[NewId].kind = kind /\ g[NewId].size = 0
  BY <1>3 DEF GrownTo
<1>9. fs' = g
  BY DEF g
<1> QED BY <1>3, <1>4, <1>5, <1>7, <1>8, <1>9, ZenonT(40)

LEMMA MkdirStep ==
    ASSUME FInv, NEW p \in Procs, NEW path \in Paths, sys_mkdir(p, path)
    PROVE  FInv' /\ Extends(fs, fs') /\ (Openable(fs) /\ ~Anywhere => Openable(fs'))
<1>1. PICK name \in FileName(proc[p].cwd, path) :
         Creatable(p, path, name) /\ fs' = WithNode(Parent(proc[p].cwd, path), name, "dir")
  BY DEF sys_mkdir
<1>2. Tables(fs', proc, seen) /\ Extends(fs, fs') /\ (Openable(fs) /\ ~Anywhere => Openable(fs'))
  BY <1>1, MadeHolds, Zenon
<1>3. proc' = proc /\ seen' = seen
  BY Zenon DEF sys_mkdir
<1> QED BY <1>2, <1>3 DEF FInv

LEMMA CreateStep ==
    ASSUME FInv, NEW p \in Procs, NEW path \in Paths, NEW attr \in Attrs,
           sys_open_create(p, path, attr)
    PROVE  FInv' /\ Extends(fs, fs') /\ (Openable(fs) /\ ~Anywhere => Openable(fs'))
<1>1. PICK name \in FileName(proc[p].cwd, path) :
         Creatable(p, path, name) /\ fs' = WithNode(Parent(proc[p].cwd, path), name, "file")
  BY DEF sys_open_create
<1> DEFINE f == fs'  new == NewId
<1>2. /\ Tables(f, proc, seen) /\ Extends(fs, f) /\ (Openable(fs) /\ ~Anywhere => Openable(f))
      /\ new \in Ids /\ f[new].kind = "file" /\ f[new].size = 0
  BY <1>1, MadeHolds, ZenonT(40)
<1>3. seen' = seen /\ seen \in SeenType /\ proc \in ProcType
  BY DEF sys_open_create, FInv, Tables
<1>4. PICK g \in Garbage :
         \/ proc' = proc
         \/ proc' = Added(p, [id |-> new, attr |-> attr, offset |-> 0, size |-> 0,
                              flags |-> {"file"} \cup g])
  BY Zenon DEF sys_open_create
<1> DEFINE n == [id |-> new, attr |-> attr, offset |-> 0, size |-> 0, flags |-> {"file"} \cup g]
           r == [proc[p] EXCEPT !.fdt = Append(@, n)]
<1> HIDE DEF f, new
<1>5. n \in NodeT /\ GoodNode(f, n) /\ n.id = new /\ n.size = f[new].size
  <2>1. {"file"} \cup g \in SUBSET Flags
    BY DEF Flags
  <2>2. 0 <= MaxSize + 1 /\ 0 \in 0 .. MaxSize
    BY FilesAssumption
  <2>3. n \in NodeT
    BY <1>2, <2>1, <2>2, NodeMade, ZenonT(40)
  <2>4. n.id = new /\ n.size = 0 /\ n.offset = 0 /\ n.flags = {"file"} \cup g
    BY Zenon
  <2>5. n.size = f[new].size
    BY <1>2, <2>4, ZenonT(40)
  <2> HIDE DEF n
  <2>6. f[n.id].kind # "none" /\ f[n.id].kind \in n.flags
    BY <1>2, <2>4
  <2>7. n.offset <= MaxSize + 1
    BY <2>2, <2>4, ZenonT(40)
  <2>8. n.size <= f[n.id].size
    BY <1>2, <2>4
  <2> QED BY <2>3, <2>4, <2>5, <2>6, <2>7, <2>8, ZenonT(40) DEF GoodNode
<1>6. CASE proc' = proc
  BY <1>2, <1>3, <1>6, Zenon DEF FInv, f
<1>7. CASE proc' = Added(p, n)
  <2>1. proc' = [proc EXCEPT ![p] = r]
    BY <1>7 DEF Added
  <2> HIDE DEF n
  <2>2. r \in ProcT /\ r.fdt = Append(proc[p].fdt, n) /\ r.dir = proc[p].dir
    <3>1. proc[p] \in ProcT /\ proc[p].fdt \in Seq(NodeT)
      BY <1>3, ProcFields, ZenonT(40)
    <3>2. Append(proc[p].fdt, n) \in Seq(NodeT)
      BY <1>5, <3>1
    <3> QED BY <3>1, <3>2, WithTable, Zenon
  <2> HIDE DEF r
  <2>3. seen' = [seen EXCEPT ![p] = seen[p]]
    BY <1>3 DEF SeenType
  <2>4. Tables(f, [proc EXCEPT ![p] = r], [seen EXCEPT ![p] = seen[p]])
    BY <1>2, <1>5, <2>2, OpenHolds, ZenonT(40)
  <2> QED BY <1>2, <2>1, <2>3, <2>4 DEF FInv, f
<1> QED BY <1>4, <1>6, <1>7, ZenonT(40)

(* A node changes where it is in the table: sys_read, sys_write, sys_lseek. *)
LEMMA ChangeHolds ==
    ASSUME NEW f, NEW g, NEW pr, NEW s, Tables(f, pr, s), Tree(g), NEW p \in Procs,
           NEW fd \in 1 .. Len(pr[p].fdt), NEW n \in NodeT,
           n.id \in Ids, n.id = pr[p].fdt[fd].id, n.flags = pr[p].fdt[fd].flags,
           n.offset <= MaxSize + 1,
           \A i \in Ids : /\ g[i].kind = f[i].kind /\ g[i].entries = f[i].entries
                          /\ f[i].size <= g[i].size,
           \A i \in Ids \ {n.id} : g[i].size = f[i].size,
           \/ n.size = g[n.id].size
           \/ n.size = pr[p].fdt[fd].size /\ g[n.id].size = f[n.id].size
    PROVE  Tables(g, [pr EXCEPT ![p] = [pr[p] EXCEPT !.fdt = [pr[p].fdt EXCEPT ![fd] = n]]], s)
<1> DEFINE d == pr[p].fdt  e == [d EXCEPT ![fd] = n]  r == [pr[p] EXCEPT !.fdt = e]
<1>1. /\ Tree(f) /\ pr \in ProcType /\ s \in SeenType /\ Descriptors(f, pr) /\ Known(f, pr)
      /\ Streams(f, pr, s) /\ Len(d) >= 3
  BY ZenonT(40) DEF Tables
<1>2. d \in Seq(NodeT) /\ Len(d) \in Nat /\ pr[p] \in ProcT /\ fd \in 1 .. Len(d)
  BY <1>1, ProcFields, ZenonT(40)
<1>3. /\ e \in Seq(NodeT) /\ Len(e) = Len(d)
      /\ \A k \in 1 .. Len(d) : e[k] = IF k = fd THEN n ELSE d[k]
  <2> HIDE DEF d
  <2>2. Put(e, d, fd, n)
    BY Zenon DEF Put
  <2> HIDE DEF e
  <2>1. /\ e \in Seq(NodeT) /\ Len(e) = Len(d) /\ e[fd] = n
        /\ \A k \in 1 .. Len(d) : k # fd => e[k] = d[k]
    <3>1. PutIn(NodeT, e, d, fd, n)
      BY <1>2, <2>2, SeqReplaced, Zenon
    <3> QED BY <3>1, Zenon DEF PutIn
  <2> QED BY <2>1, Zenon
<1>4. r \in ProcT /\ r.fdt = e /\ r.dir = pr[p].dir
  <2> HIDE DEF e
  <2> QED BY <1>2, <1>3, WithTable, Zenon
<1>5. Descriptors(g, [pr EXCEPT ![p] = r]) /\ Known(g, [pr EXCEPT ![p] = r])
  <2> HIDE DEF r
  <2>1. r.fdt = [pr[p].fdt EXCEPT ![fd] = n]
    BY <1>4, ZenonT(40)
  <2>2. f \in FsType /\ g \in FsType
    BY <1>1, ZenonT(40) DEF Tree
  <2>3. \A i \in Ids : g[i].kind = f[i].kind /\ f[i].size <= g[i].size
    BY ZenonT(40)
  <2> QED BY <1>1, <1>4, <2>1, <2>2, <2>3, UpdateTable, ZenonT(40)
<1>6. OneStream(g, r, s[p])
  <2>1. OneStream(f, pr[p], s[p])
    BY <1>1, Zenon DEF Streams
  <2>2. Len(pr[p].fdt) <= Len(r.fdt)
    <3>1. Len(r.fdt) = Len(pr[p].fdt)
      BY <1>3, <1>4, ZenonT(40)
    <3>2. Len(pr[p].fdt) \in Nat
      BY <1>2, LenNat, ZenonT(40)
    <3> QED BY <3>1, <3>2, AtMostItself, ZenonT(40)
  <2>3. \A k \in 1 .. Len(pr[p].fdt) : r.fdt[k].id = pr[p].fdt[k].id
    BY <1>3, <1>4, ZenonT(40)
  <2>4. \A i \in Ids : g[i].entries = f[i].entries
    BY ZenonT(40)
  <2> HIDE DEF r
  <2> QED BY <2>1, <2>2, <2>3, <2>4, <1>2, <1>4, StreamFollows, ZenonT(40)
<1>7. Len(r.fdt) >= 3 /\ s[p] \in Seq(EntryNames) /\ s = [s EXCEPT ![p] = s[p]]
  BY <1>1, <1>3, <1>4, ZenonT(40) DEF SeenType
<1>8. \A i \in Ids : g[i].entries = f[i].entries
  BY ZenonT(40)
<1> HIDE DEF r
<1>9. Tables(g, [pr EXCEPT ![p] = r], [s EXCEPT ![p] = s[p]])
  <2>1. r \in ProcT /\ Len(r.fdt) >= 3 /\ s[p] \in Seq(EntryNames)
    BY <1>4, <1>7, Zenon
  <2> HIDE DEF d, e
  <2> DEFINE pr2 == [pr EXCEPT ![p] = r]  s2 == [s EXCEPT ![p] = s[p]]
  <2>2. Put(pr2, pr, p, r) /\ Put(s2, s, p, s[p])
    BY ZenonT(40) DEF Put
  <2>3. Descriptors(g, pr2) /\ Known(g, pr2)
    BY <1>5, Zenon
  <2> HIDE DEF pr2, s2
  <2>4. Tables(g, pr2, s2)
    BY <2>1, <2>2, <2>3, <1>6, <1>8, Replaced, ZenonT(40)
  <2> QED BY <2>4 DEF pr2, s2
<1> QED BY <1>7, <1>9, ZenonT(40) DEF r

LEMMA ChangedNode ==
    ASSUME FInv, NEW p \in Procs, NEW fd \in DOMAIN proc[p].fdt
    PROVE  /\ Tables(fs, proc, seen) /\ Tree(fs) /\ fs \in FsType
           /\ fd \in 1 .. Len(proc[p].fdt) /\ proc[p].fdt[fd] \in NodeT
           /\ proc[p].fdt[fd].id # None => proc[p].fdt[fd].id \in Ids
<1>1. Tables(fs, proc, seen) /\ Tree(fs) /\ proc \in ProcType /\ fs \in FsType
  BY ZenonT(40) DEF FInv, Tables, Tree
<1>2. proc[p].fdt \in Seq(NodeT)
  BY <1>1, ProcFields, ZenonT(40)
<1>3. fd \in 1 .. Len(proc[p].fdt) /\ proc[p].fdt[fd] \in NodeT
  BY <1>2
<1> QED BY <1>1, <1>3, NodeFields

LEMMA MovedNode ==
    ASSUME NEW n \in NodeT, NEW offset \in Int
    PROVE  /\ [n EXCEPT !.offset = offset] \in NodeT
           /\ [n EXCEPT !.offset = offset].id = n.id /\ [n EXCEPT !.offset = offset].size = n.size
           /\ [n EXCEPT !.offset = offset].flags = n.flags
           /\ [n EXCEPT !.offset = offset].offset = offset
BY DEF NodeT

(* The offset is set, by a read or by a seek.                               *)
LEMMA OffsetHolds ==
    ASSUME FInv, NEW p \in Procs, NEW fd \in DOMAIN proc[p].fdt, NEW offset \in Int,
           proc[p].fdt[fd].id # None, offset <= MaxSize + 1,
           proc' = [proc EXCEPT ![p].fdt[fd].offset = offset], UNCHANGED <<fs, seen>>
    PROVE  FInv'
<1> DEFINE o == proc[p].fdt[fd]  n == [o EXCEPT !.offset = offset]
<1>1. /\ Tables(fs, proc, seen) /\ Tree(fs) /\ fs \in FsType
      /\ fd \in 1 .. Len(proc[p].fdt) /\ o \in NodeT /\ o.id \in Ids
  BY ChangedNode
<1>2. n \in NodeT /\ n.id = o.id /\ n.size = o.size /\ n.flags = o.flags /\ n.offset = offset
  <2> HIDE DEF o
  <2> QED BY <1>1, MovedNode
<1>3. proc' = [proc EXCEPT ![p] = [proc[p] EXCEPT !.fdt = [proc[p].fdt EXCEPT ![fd] = n]]]
  OBVIOUS
<1>4. \A i \in Ids : fs[i].size <= fs[i].size
  <2>1. \A i \in Ids : fs[i].size \in 0 .. MaxSize
    BY <1>1, FsFields
  <2> QED BY <2>1, FilesAssumption
<1> HIDE DEF n
<1>5. Tables(fs, [proc EXCEPT ![p] = [proc[p] EXCEPT !.fdt = [proc[p].fdt EXCEPT ![fd] = n]]], seen)
  <2>1. n.id = proc[p].fdt[fd].id /\ n.flags = proc[p].fdt[fd].flags /\ n.id \in Ids
    BY <1>1, <1>2
  <2>2. n.size = proc[p].fdt[fd].size /\ n.offset <= MaxSize + 1
    BY <1>2
  <2> QED BY <1>1, <1>2, <1>4, <2>1, <2>2, ChangeHolds, ZenonT(40)
<1> QED BY <1>3, <1>5, Zenon DEF FInv

LEMMA ReadStep ==
    ASSUME FInv, NEW p \in Procs, NEW fd \in DOMAIN proc[p].fdt, NEW count \in Counts,
           sys_read(p, fd, count)
    PROVE  FInv'
<1> DEFINE o == proc[p].fdt[fd]
<1>1. /\ fs \in FsType /\ o \in NodeT /\ (o.id # None => o.id \in Ids)
  BY ChangedNode, ZenonT(40)
<1>2. /\ o.id # None /\ o.offset + count <= fs[o.id].size
      /\ proc' = [proc EXCEPT ![p].fdt[fd].offset = o.offset + count] /\ UNCHANGED <<fs, seen>>
  BY DEF sys_read, MayRead
<1>3. fs[o.id].size \in 0 .. MaxSize /\ o.offset \in Int /\ count \in Int /\ MaxSize \in Nat
  <2> HIDE DEF o
  <2>1. fs[o.id].size \in 0 .. MaxSize
    BY <1>1, <1>2, FsFields, ZenonT(40)
  <2>2. o.offset \in Int
    BY <1>1, NodeFields, ZenonT(40)
  <2>3. count \in Int /\ MaxSize \in Nat
    BY FilesAssumption
  <2> QED BY <2>1, <2>2, <2>3, ZenonT(40)
<1>4. o.offset + count \in Int /\ o.offset + count <= MaxSize + 1
  <2>1. o.offset + count <= fs[o.id].size
    BY <1>2, Zenon
  <2> HIDE DEF o
  <2> QED BY <2>1, <1>3, SumBounded, ZenonT(40)
<1> QED BY <1>2, <1>4, OffsetHolds, Zenon

LEMMA SeekStep ==
    ASSUME FInv, NEW p \in Procs, NEW fd \in DOMAIN proc[p].fdt, NEW offset \in Offsets,
           NEW whence \in {"SEEK_SET", "SEEK_CUR", "SEEK_END"}, sys_lseek(p, fd, offset, whence)
    PROVE  FInv'
<1> DEFINE o == proc[p].fdt[fd]  to == Sought(o, offset, whence)
<1>1. o \in NodeT
  BY ChangedNode
<1>2. /\ o.id # None /\ to <= MaxSize + 1
      /\ proc' = [proc EXCEPT ![p].fdt[fd].offset = to] /\ UNCHANGED <<fs, seen>>
  BY DEF sys_lseek
<1>3. to \in Int
  <2>1. o.offset \in Int /\ o.size \in 0 .. MaxSize /\ offset \in Int /\ MaxSize \in Nat
    <3> HIDE DEF o
    <3> QED BY <1>1, NodeFields, FilesAssumption
  <2> HIDE DEF o
  <2> QED BY <2>1 DEF Sought
<1> HIDE DEF to
<1> QED BY <1>2, <1>3, OffsetHolds, ZenonT(40)

(* A file gets another size, and nothing else changes.                      *)
Resized(f, g) ==
    /\ g \in FsType
    /\ \A i \in Ids : g[i].kind = f[i].kind /\ g[i].entries = f[i].entries

LEMMA ResizedTree ==
    ASSUME NEW f, NEW g, Tree(f), Resized(f, g)
    PROVE  Tree(g) /\ Extends(f, g) /\ (Openable(f) => Openable(g))
<1>1. \A i \in Ids : g[i].kind = f[i].kind /\ g[i].entries = f[i].entries
  BY Zenon DEF Resized
<1>2. f \in FsType /\ g \in FsType
  BY Zenon DEF Tree, Resized
<1>3. Extends(f, g)
  <2>1. \A i \in Ids : Len(f[i].entries) \in Nat
    BY <1>2, FsFields
  <2> QED BY <1>1, <2>1 DEF Extends
<1>4. \A i \in Ids : \A name : vfs_finddir(g, i, name) = vfs_finddir(f, i, name)
  BY <1>1, ZenonT(40) DEF vfs_finddir
<1>5. Openable(f) => Openable(g)
  BY <1>1, <1>4 DEF Openable
<1>6. g[Root].kind = "dir" /\ \A i \in Ids : g[i].kind # "dir" => g[i].entries = <<>>
  BY <1>1, RootId, Zenon DEF Tree
<1>7. \A i \in Ids : \A k \in 1 .. Len(g[i].entries) :
         g[i].entries[k].id = None => g[i].entries[k].name \in {Dot, DotDot}
  BY <1>1, ZenonT(40) DEF Tree
<1>8. \A i \in Ids : \A k \in 1 .. Len(g[i].entries) :
         g[i].entries[k].id # None => /\ g[i].entries[k].id # Root
                                      /\ g[g[i].entries[k].id].kind # "none"
  <2> SUFFICES ASSUME NEW i \in Ids, NEW k \in 1 .. Len(g[i].entries), g[i].entries[k].id # None
               PROVE  g[i].entries[k].id # Root /\ g[g[i].entries[k].id].kind # "none"
    BY Zenon
  <2>0. g[i].entries = f[i].entries
    BY <1>1, Zenon
  <2>1. k \in 1 .. Len(f[i].entries) /\ g[i].entries[k] = f[i].entries[k]
    BY <2>0, Zenon
  <2>4. \A j \in Ids : \A l \in 1 .. Len(f[j].entries) :
           f[j].entries[l].id # None => /\ f[j].entries[l].id # Root
                                        /\ f[f[j].entries[l].id].kind # "none"
    BY Zenon DEF Tree
  <2>5. f[i].entries[k].id # None
    BY <2>1, Zenon
  <2>2. f[i].entries[k].id # Root /\ f[f[i].entries[k].id].kind # "none"
    BY <2>1, <2>4, <2>5, Zenon
  <2>3. f[i].entries[k].id \in Ids
    BY <1>2, <2>1, FsFields, Zenon
  <2> QED BY <1>1, <2>1, <2>2, <2>3, Zenon
<1>9. \A i, j \in Ids : \A k \in 1 .. Len(g[i].entries), l \in 1 .. Len(g[j].entries) :
         g[i].entries[k].id # None /\ g[j].entries[l].id = g[i].entries[k].id => i = j /\ k = l
  <2>1. \A i, j \in Ids : \A k \in 1 .. Len(f[i].entries), l \in 1 .. Len(f[j].entries) :
           f[i].entries[k].id # None /\ f[j].entries[l].id = f[i].entries[k].id => i = j /\ k = l
    BY Zenon DEF Tree
  <2> SUFFICES ASSUME NEW i \in Ids, NEW j \in Ids, NEW k \in 1 .. Len(g[i].entries),
                      NEW l \in 1 .. Len(g[j].entries), g[i].entries[k].id # None,
                      g[j].entries[l].id = g[i].entries[k].id
               PROVE  i = j /\ k = l
    OBVIOUS
  <2>2. g[i].entries = f[i].entries /\ g[j].entries = f[j].entries
    BY <1>1, Zenon
  <2>3. k \in 1 .. Len(f[i].entries) /\ l \in 1 .. Len(f[j].entries)
    BY <2>2, Zenon
  <2>4. f[i].entries[k].id # None /\ f[j].entries[l].id = f[i].entries[k].id
    BY <2>2, Zenon
  <2> QED BY <2>1, <2>3, <2>4, ZenonT(40)
<1>10. \A i \in Ids \ {Root} :
          g[i].kind # "none" =>
             \E d \in Ids : \E k \in 1 .. Len(g[d].entries) : g[d].entries[k].id = i
  <2> SUFFICES ASSUME NEW i \in Ids \ {Root}, g[i].kind # "none"
               PROVE  \E d \in Ids : \E k \in 1 .. Len(g[d].entries) : g[d].entries[k].id = i
    BY Zenon
  <2>1. f[i].kind # "none"
    BY <1>1, Zenon
  <2>2. PICK d \in Ids : \E k \in 1 .. Len(f[d].entries) : f[d].entries[k].id = i
    BY <2>1, Zenon DEF Tree
  <2>3. g[d].entries = f[d].entries
    BY <1>1, Zenon
  <2> QED BY <2>2, <2>3, Zenon
<1>11. Tree(g)
  BY <1>2, <1>6, <1>7, <1>8, <1>9, <1>10, ZenonT(40) DEF Tree
<1> QED BY <1>3, <1>5, <1>11, Zenon

LEMMA WriteFacts ==
    ASSUME NEW old \in 0 .. MaxSize, NEW offset \in 0 .. old, NEW count \in Nat, count > 0,
           NEW size \in SizesAfter(old, offset + count), size <= MaxSize
    PROVE  /\ size \in 0 .. MaxSize /\ old <= size
           /\ offset + count \in Int /\ offset + count <= MaxSize + 1
<1>1. MaxSize \in Nat /\ Block \in Nat
  BY FilesAssumption
<1>2. CASE offset + count > old
  <2>1. size = offset + count
    BY <1>2 DEF SizesAfter
  <2> QED BY <1>1, <1>2, <2>1
<1>3. CASE ~(offset + count > old)
  <2>1. size = old \/ size = old + Block
    BY <1>3, Zenon DEF SizesAfter
  <2> QED BY <1>1, <1>3, <2>1
<1> QED BY <1>2, <1>3

LEMMA WriteStep ==
    ASSUME FInv, NEW p \in Procs, NEW fd \in DOMAIN proc[p].fdt, NEW count \in Counts,
           sys_write(p, fd, count)
    PROVE  FInv' /\ Resized(fs, fs')
<1> DEFINE o == proc[p].fdt[fd]  i == o.id
<1>1. /\ Tables(fs, proc, seen) /\ Tree(fs) /\ fs \in FsType
      /\ fd \in 1 .. Len(proc[p].fdt) /\ o \in NodeT /\ (i # None => i \in Ids)
  BY ChangedNode
<1>2. i # None /\ count > 0 /\ o.offset \in 0 .. fs[i].size /\ seen' = seen
  BY Zenon DEF sys_write
<1>3. PICK size \in SizesAfter(fs[i].size, o.offset + count) :
         /\ size <= MaxSize /\ fs' = [fs EXCEPT ![i].size = size]
         /\ proc' = [proc EXCEPT ![p].fdt[fd] = Written(o, size, count)]
  BY ZenonT(40) DEF sys_write
<1> DEFINE n == Written(o, size, count)  g == [fs EXCEPT ![i].size = size]
<1>4. i \in Ids
  BY <1>1, <1>2, ZenonT(40)
<1>5. /\ size \in 0 .. MaxSize /\ fs[i].size <= size
      /\ o.offset + count \in Int /\ o.offset + count <= MaxSize + 1
  <2>1. fs[i].size \in 0 .. MaxSize /\ count \in Nat
    <3> HIDE DEF i
    <3> QED BY <1>1, <1>4, FsFields, FilesAssumption
  <2> HIDE DEF i, o
  <2> QED BY <2>1, <1>2, <1>3, WriteFacts, ZenonT(40)
<1>6. /\ n \in NodeT /\ n.id = i /\ n.size = size /\ n.flags = o.flags
      /\ n.offset = o.offset + count
  <2> HIDE DEF o
  <2> QED BY <1>1, <1>5, Zenon DEF Written, NodeT, i
<1>7. /\ g \in FsType /\ g[i].size = size /\ g[i].kind = fs[i].kind /\ g[i].entries = fs[i].entries
      /\ \A j \in Ids \ {i} : g[j] = fs[j]
  <2> HIDE DEF i
  <2>1. fs[i] \in FsNode
    BY <1>1, <1>4, ZenonT(40) DEF FsType
  <2>2. [fs[i] EXCEPT !.size = size] \in FsNode
    BY <1>5, <2>1 DEF FsNode
  <2> QED BY <1>1, <1>4, <2>1, <2>2 DEF FsType, FsNode
<1> HIDE DEF g
<1>8. Resized(fs, g)
  BY <1>7, ZenonT(40) DEF Resized
<1>9. Tree(g)
  BY <1>1, <1>8, ResizedTree, ZenonT(40)
<1>10. \A j \in Ids : g[j].kind = fs[j].kind /\ g[j].entries = fs[j].entries /\ fs[j].size <= g[j].size
  <2>1. \A j \in Ids : fs[j].size \in 0 .. MaxSize
    BY <1>1, FsFields, ZenonT(40)
  <2>2. \A j \in Ids : fs[j].size <= fs[j].size
    BY <2>1, FilesAssumption, SizeItself, ZenonT(40)
  <2> QED BY <1>5, <1>7, <2>2, ZenonT(40)
<1>11. proc' = [proc EXCEPT ![p] = [proc[p] EXCEPT !.fdt = [proc[p].fdt EXCEPT ![fd] = n]]]
  BY <1>3
<1> HIDE DEF n
<1>12. Tables(g, [proc EXCEPT ![p] = [proc[p] EXCEPT !.fdt = [proc[p].fdt EXCEPT ![fd] = n]]], seen)
  <2>1. n.id = proc[p].fdt[fd].id /\ n.flags = proc[p].fdt[fd].flags /\ n.id \in Ids
    BY <1>4, <1>6
  <2>2. n.size = g[n.id].size /\ n.offset <= MaxSize + 1
    BY <1>5, <1>6, <1>7, ZenonT(40)
  <2>3. \A j \in Ids \ {n.id} : g[j].size = fs[j].size
    BY <1>6, <1>7, ZenonT(40)
  <2> QED BY <1>1, <1>6, <1>9, <1>10, <2>1, <2>2, <2>3, ChangeHolds, ZenonT(40)
<1>13. fs' = g
  BY <1>3, ZenonT(40) DEF g
<1> QED BY <1>2, <1>8, <1>11, <1>12, <1>13, ZenonT(40) DEF FInv

(* The table stays as it is: sys_chdir, and the other calls on streams.     *)
LEMMA PlainHolds ==
    ASSUME FInv, NEW p \in Procs, NEW r \in ProcT, NEW t \in Seq(EntryNames),
           r.fdt = proc[p].fdt, OneStream(fs, r, t), fs' = fs,
           proc' = [proc EXCEPT ![p] = r], seen' = [seen EXCEPT ![p] = t]
    PROVE  FInv'
<1>1. /\ Tables(fs, proc, seen) /\ Tree(fs) /\ proc \in ProcType /\ Descriptors(fs, proc)
      /\ Known(fs, proc) /\ Len(r.fdt) >= 3
  BY DEF FInv, Tables
<1>2. Descriptors(fs, [proc EXCEPT ![p] = r]) /\ Known(fs, [proc EXCEPT ![p] = r])
  BY <1>1, SameTable, Zenon
<1>3. Put(proc', proc, p, r) /\ Put(seen', seen, p, t)
  BY DEF Put
<1>4. Descriptors(fs, proc') /\ Known(fs, proc')
  BY <1>2, Zenon
<1>5. Tables(fs, proc', seen')
  BY <1>1, <1>3, <1>4, Replaced, ZenonT(40)
<1> QED BY <1>5 DEF FInv

LEMMA ChdirStep ==
    ASSUME FInv, NEW p \in Procs, NEW path \in Paths, sys_chdir(p, path)
    PROVE  FInv'
<1> DEFINE newPath == normalizePath(proc[p].cwd, path)  r == [proc[p] EXCEPT !.cwd = newPath]
<1>1. proc \in ProcType /\ seen \in SeenType /\ Streams(fs, proc, seen)
  BY ZenonT(40) DEF FInv, Tables
<1>2. proc[p] \in ProcT /\ proc[p].cwd \in Seq(Names)
  BY <1>1, ProcFields
<1>3. newPath \in Seq(Names)
  BY <1>2, PathFacts
<1>4. fs' = fs /\ seen' = seen /\ proc' = [proc EXCEPT ![p] = r]
  BY DEF sys_chdir
<1> HIDE DEF newPath
<1>5. r \in ProcT /\ r.fdt = proc[p].fdt /\ r.dir = proc[p].dir
  BY <1>2, <1>3 DEF ProcT
<1>6. seen[p] \in Seq(EntryNames) /\ seen' = [seen EXCEPT ![p] = seen[p]]
  BY <1>1, <1>4 DEF SeenType
<1>7. OneStream(fs, r, seen[p])
  <2>1. OneStream(fs, proc[p], seen[p])
    BY <1>1 DEF Streams
  <2> QED BY <2>1, <1>5, ZenonT(40) DEF OneStream
<1> HIDE DEF r
<1> QED BY <1>4, <1>5, <1>6, <1>7, PlainHolds, ZenonT(40)

LEMMA ClosedirStep ==
    ASSUME FInv, NEW p \in Procs, sys_closedir(p)
    PROVE  FInv'
<1> DEFINE r == [proc[p] EXCEPT !.dir = NoDir]
<1>1. proc \in ProcType
  BY DEF FInv, Tables
<1>2. proc[p] \in ProcT
  BY <1>1, ProcFields
<1>3. fs' = fs /\ seen' = [seen EXCEPT ![p] = <<>>]
  BY DEF sys_closedir
<1>4. r \in ProcT /\ r.fdt = proc[p].fdt /\ r.dir = NoDir
  <2>1. NoDir \in [fd : Nat, currentEntry : Nat]
    BY DEF NoDir
  <2> QED BY <1>2, <2>1, Zenon DEF ProcT
<1>5. proc' = [proc EXCEPT ![p] = r]
  <2>1. proc' = [proc EXCEPT ![p].fdt = Closed(@, proc[p].dir.fd), ![p].dir = NoDir]
    BY DEF sys_closedir
  <2>2. proc' = [proc EXCEPT ![p] = [[proc[p] EXCEPT !.fdt = proc[p].fdt] EXCEPT !.dir = NoDir]]
    BY <1>1, <2>1, Zenon DEF Closed, ProcType
  <2>3. [proc[p] EXCEPT !.fdt = proc[p].fdt] = proc[p]
    BY <1>2 DEF ProcT
  <2> QED BY <2>2, <2>3, Zenon
<1>6. OneStream(fs, r, <<>>) /\ <<>> \in Seq(EntryNames)
  BY <1>4 DEF OneStream
<1> HIDE DEF r
<1> QED BY <1>3, <1>4, <1>5, <1>6, PlainHolds, ZenonT(40)

LEMMA CloseStep ==
    ASSUME FInv, NEW p \in Procs, NEW fd, sys_close(p, fd)
    PROVE  FInv'
<1>1. proc \in ProcType
  BY DEF FInv, Tables
<1>2. proc' = proc
  BY <1>1 DEF sys_close, Closed, ProcType, ProcT
<1>3. fs' = fs /\ seen' = seen
  BY DEF sys_close
<1> QED BY <1>2, <1>3 DEF FInv

(* The next name of a stream is that of the next entry.                     *)
LEMMA PrefixGrows ==
    ASSUME NEW t \in Seq(EntryNames), NEW e \in Seq(EntryT), Prefix(t, e), Len(t) < Len(e)
    PROVE  t \o <<e[Len(t) + 1].name>> \in Seq(EntryNames) /\ Prefix(t \o <<e[Len(t) + 1].name>>, e)
<1> DEFINE c == e[Len(t) + 1].name  u == t \o <<c>>
<1>1. Len(t) \in Nat /\ Len(e) \in Nat /\ Len(t) + 1 \in 1 .. Len(e)
  OBVIOUS
<1>2. e[Len(t) + 1] \in EntryT
  BY <1>1
<1>3. c \in EntryNames
  BY <1>2 DEF EntryT
<1> HIDE DEF c
<1>4. /\ u \in Seq(EntryNames) /\ Len(u) = Len(t) + 1 /\ u[Len(t) + 1] = c
      /\ \A k \in 1 .. Len(t) : u[k] = t[k]
  BY <1>3
<1> HIDE DEF u
<1>5. \A k \in 1 .. Len(t) + 1 : k = Len(t) + 1 \/ k \in 1 .. Len(t)
  BY <1>1
<1>6. Prefix(u, e)
  BY <1>1, <1>4, <1>5 DEF Prefix, c
<1> QED BY <1>4, <1>6 DEF u, c

LEMMA ReaddirStep ==
    ASSUME FInv, NEW p \in Procs, sys_readdir(p)
    PROVE  FInv'
<1> DEFINE dir == proc[p].dir  i == proc[p].fdt[dir.fd].id  e == fs[i].entries
           t == seen[p] \o vfs_readdir(proc[p].fdt[dir.fd], dir.currentEntry)
           r == [proc[p] EXCEPT !.dir.currentEntry = @ + 1]
<1>1. /\ Tree(fs) /\ proc \in ProcType /\ seen \in SeenType /\ fs \in FsType
      /\ OneStream(fs, proc[p], seen[p])
  BY ZenonT(40) DEF FInv, Tables, Streams, Tree
<1>2. /\ dir # NoDir /\ dir.currentEntry = Len(seen[p]) /\ fs' = fs
      /\ seen' = [seen EXCEPT ![p] = t] /\ proc' = [proc EXCEPT ![p] = r]
  BY DEF sys_readdir
<1>3. /\ proc[p] \in ProcT /\ proc[p].fdt \in Seq(NodeT) /\ dir \in [fd : Nat, currentEntry : Nat]
      /\ Len(proc[p].fdt) \in Nat
  BY <1>1, ProcFields, ZenonT(40)
<1>4. dir.fd \in 4 .. Len(proc[p].fdt) /\ i # None /\ Prefix(seen[p], e)
  BY <1>1, <1>2, ZenonT(40) DEF OneStream
<1>5. i \in Ids
  <2>1. dir.fd \in 4 .. Len(proc[p].fdt)
    BY <1>4, Zenon
  <2> HIDE DEF dir
  <2>2. dir.fd \in 1 .. Len(proc[p].fdt)
    BY <2>1, <1>3
  <2>3. proc[p].fdt[dir.fd] \in NodeT
    BY <2>2, <1>3
  <2> QED BY <2>3, <1>4, NodeFields, ZenonT(40)
<1>6. e \in Seq(EntryT) /\ seen[p] \in Seq(EntryNames)
  BY <1>1, <1>5, FsFields, ZenonT(40) DEF SeenType
<1>7. t \in Seq(EntryNames) /\ Prefix(t, e)
  <2>1. CASE fs[i].kind = "dir" /\ dir.currentEntry < Len(fs[i].entries)
    <3>1. t = seen[p] \o <<e[Len(seen[p]) + 1].name>> /\ Len(seen[p]) < Len(e)
      BY <1>2, <2>1, ZenonT(40) DEF vfs_readdir
    <3> HIDE DEF t, e
    <3> QED BY <3>1, <1>4, <1>6, PrefixGrows, ZenonT(40)
  <2>2. CASE ~(fs[i].kind = "dir" /\ dir.currentEntry < Len(fs[i].entries))
    <3>1. t = seen[p] \o <<>>
      BY <2>2, ZenonT(40) DEF vfs_readdir
    <3>2. seen[p] \o <<>> = seen[p]
      BY <1>6, NothingAdded, ZenonT(40)
    <3> QED BY <3>1, <3>2, <1>4, <1>6, ZenonT(40)
  <2> QED BY <2>1, <2>2, ZenonT(40)
<1>8. r \in ProcT /\ r.fdt = proc[p].fdt /\ r.dir.fd = dir.fd
  <2>1. [dir EXCEPT !.currentEntry = @ + 1] \in [fd : Nat, currentEntry : Nat]
    <3> HIDE DEF dir
    <3> QED BY <1>3
  <2>2. [dir EXCEPT !.currentEntry = @ + 1].fd = dir.fd
    <3> HIDE DEF dir
    <3> QED BY <1>3
  <2>3. r = [proc[p] EXCEPT !.dir = [dir EXCEPT !.currentEntry = @ + 1]]
    OBVIOUS
  <2> DEFINE dir2 == [dir EXCEPT !.currentEntry = @ + 1]
  <2>4. dir2 \in [fd : Nat, currentEntry : Nat] /\ dir2.fd = dir.fd /\ r = [proc[p] EXCEPT !.dir = dir2]
    BY <2>1, <2>2, <2>3
  <2> HIDE DEF dir2, r
  <2> QED BY <1>3, <2>4 DEF ProcT
<1>9. OneStream(fs, r, t)
  <2> HIDE DEF t, r
  <2> QED BY <1>4, <1>7, <1>8, ZenonT(40) DEF OneStream
<1> HIDE DEF r, t
<1> QED BY <1>2, <1>7, <1>8, <1>9, PlainHolds, ZenonT(40)

LEMMA InitFInv == Init => FInv /\ Openable(fs)
<1> SUFFICES ASSUME Init PROVE FInv /\ Openable(fs)
  OBVIOUS
<1>1. /\ fs = [i \in Ids |-> IF i = Root THEN Made("dir") ELSE Made("none")]
      /\ proc = [p \in Procs |-> [cwd |-> <<>>, fdt |-> createStandardFiles, dir |-> NoDir]]
      /\ seen = [p \in Procs |-> <<>>]
  BY Zenon DEF Init
<1>2. /\ fs \in FsType /\ fs[Root].kind = "dir" /\ fs[Root].entries = Dots
      /\ \A i \in Ids \ {Root} : fs[i].kind = "none" /\ fs[i].entries = <<>>
  BY <1>1, MadeFacts, RootId, ZenonT(40) DEF FsType
<1>3. /\ Len(Dots) = 2 /\ \A k \in 1 .. Len(Dots) : Dots[k].id = None /\ Dots[k].name \in {Dot, DotDot}
  BY DEF Dots
<1>4. \A i \in Ids : \A k \in 1 .. Len(fs[i].entries) :
         fs[i].entries[k].id = None /\ fs[i].entries[k].name \in {Dot, DotDot}
  <2> SUFFICES ASSUME NEW i \in Ids, NEW k \in 1 .. Len(fs[i].entries)
               PROVE  fs[i].entries[k].id = None /\ fs[i].entries[k].name \in {Dot, DotDot}
    BY Zenon
  <2>1. 1 .. Len(<<>>) = {}
    OBVIOUS
  <2>2. i = Root
    BY <1>2, <2>1, ZenonT(40)
  <2> QED BY <1>2, <1>3, <2>2, Zenon
<1>5. Tree(fs) /\ Openable(fs)
  BY <1>2, <1>4 DEF Tree, Openable
<1>6. /\ createStandardFiles \in Seq(NodeT) /\ Len(createStandardFiles) = 3
      /\ \A k \in 1 .. 3 : createStandardFiles[k].id = None /\ GoodNode(fs, createStandardFiles[k])
  <2>1. 0 \in 0 .. MaxSize /\ 0 <= MaxSize + 1
    BY FilesAssumption
  <2>2. {"file"} \in SUBSET Flags
    BY ZenonT(40) DEF Flags
  <2>3. \A attr \in Attrs : /\ Standard(attr) \in NodeT /\ Standard(attr).id = None
                            /\ GoodNode(fs, Standard(attr))
    BY <2>1, <2>2 DEF Standard, NodeT, GoodNode
  <2>4. "O_RDONLY" \in Attrs /\ "O_WRONLY" \in Attrs
    BY DEF Attrs
  <2> DEFINE a == Standard("O_RDONLY")  b == Standard("O_WRONLY")
  <2>5. /\ a \in NodeT /\ b \in NodeT /\ a.id = None /\ b.id = None
        /\ GoodNode(fs, a) /\ GoodNode(fs, b) /\ createStandardFiles = <<a, b, b>>
    BY <2>3, <2>4, Zenon DEF createStandardFiles
  <2> HIDE DEF a, b
  <2> QED BY <2>5
<1>7. proc \in ProcType /\ seen \in SeenType
  <2>1. NoDir \in [fd : Nat, currentEntry : Nat]
    BY DEF NoDir
  <2>2. <<>> \in Seq(Names) /\ <<>> \in Seq(EntryNames)
    OBVIOUS
  <2> HIDE DEF NoDir
  <2> QED BY <1>1, <1>6, <2>1, <2>2, ZenonT(40) DEF ProcType, ProcT, SeenType
<1>8. \A p \in Procs : proc[p].fdt = createStandardFiles /\ proc[p].dir = NoDir
  BY <1>1, Zenon
<1>9. Descriptors(fs, proc) /\ Known(fs, proc) /\ Streams(fs, proc, seen)
  <2>1. Descriptors(fs, proc) /\ Streams(fs, proc, seen)
    BY <1>6, <1>8, ZenonT(40) DEF Descriptors, Streams, OneStream
  <2>2. \A i \in Ids : \A size : ~OpenAs(proc, i, size)
    BY <1>6, <1>8, RootId DEF OpenAs
  <2> QED BY <2>1, <2>2 DEF Known
<1>10. \A p \in Procs : Len(proc[p].fdt) >= 3
  <2>1. Len(createStandardFiles) >= 3
    BY <1>6
  <2> QED BY <2>1, <1>8, Zenon
<1> QED BY <1>5, <1>7, <1>9, <1>10 DEF FInv, Tables

(* Every call keeps the invariant, and what exists where it is.             *)
LEMMA StepFInv ==
    ASSUME FInv, [Next]_vars
    PROVE  FInv' /\ Extends(fs, fs') /\ (Openable(fs) /\ ~Anywhere => Openable(fs'))
<1>1. Tree(fs) /\ fs \in FsType
  BY Zenon DEF FInv, Tables, Tree
<1>2. ASSUME fs' = fs PROVE Extends(fs, fs') /\ (Openable(fs) => Openable(fs'))
  <2>1. \A i \in Ids : Len(fs[i].entries) \in Nat
    BY <1>1, FsFields
  <2>2. Extends(fs, fs)
    BY <2>1 DEF Extends
  <2> QED BY <1>2, <2>2, ZenonT(40)
<1>3. CASE UNCHANGED vars
  BY <1>2, <1>3, Zenon DEF vars, FInv
<1>4. ASSUME NEW p \in Procs, NEW path \in Paths, NEW attr \in Attrs,
             sys_open(p, path, attr) \/ sys_open_create(p, path, attr)
      PROVE  FInv' /\ Extends(fs, fs') /\ (Openable(fs) /\ ~Anywhere => Openable(fs'))
  <2>1. CASE sys_open(p, path, attr)
    <3>1. fs' = fs
      BY <2>1 DEF sys_open
    <3> QED BY <3>1, <2>1, <1>2, OpenStep, ZenonT(40)
  <2>2. CASE sys_open_create(p, path, attr)
    BY <2>2, CreateStep, Zenon
  <2> QED BY <1>4, <2>1, <2>2, Zenon
<1>5. ASSUME NEW p \in Procs, NEW path \in Paths,
             sys_mkdir(p, path) \/ sys_chdir(p, path) \/ sys_opendir(p, path)
      PROVE  FInv' /\ Extends(fs, fs') /\ (Openable(fs) /\ ~Anywhere => Openable(fs'))
  <2>1. CASE sys_mkdir(p, path)
    BY <2>1, MkdirStep, Zenon
  <2>2. CASE sys_chdir(p, path)
    <3>1. fs' = fs
      BY <2>2, ZenonT(40) DEF sys_chdir
    <3> QED BY <3>1, <2>2, <1>2, ChdirStep, ZenonT(40)
  <2>3. CASE sys_opendir(p, path)
    <3>1. fs' = fs
      BY <2>3, Zenon DEF sys_opendir
    <3> QED BY <3>1, <2>3, <1>2, OpendirStep
  <2> QED BY <1>5, <2>1, <2>2, <2>3, ZenonT(40)
<1>6. ASSUME NEW p \in Procs, NEW fd \in DOMAIN proc[p].fdt, NEW count \in Counts,
             sys_read(p, fd, count) \/ sys_write(p, fd, count)
      PROVE  FInv' /\ Extends(fs, fs') /\ (Openable(fs) /\ ~Anywhere => Openable(fs'))
  <2>1. CASE sys_read(p, fd, count)
    <3>1. fs' = fs
      BY <2>1, Zenon DEF sys_read
    <3> QED BY <3>1, <2>1, <1>2, ReadStep, ZenonT(40)
  <2>2. CASE sys_write(p, fd, count)
    <3>1. FInv' /\ Resized(fs, fs')
      BY <2>2, WriteStep, Zenon
    <3> QED BY <3>1, <1>1, ResizedTree, ZenonT(40)
  <2> QED BY <1>6, <2>1, <2>2, Zenon
<1>7. ASSUME NEW p \in Procs, NEW fd \in DOMAIN proc[p].fdt, NEW offset \in Offsets,
             NEW whence \in {"SEEK_SET", "SEEK_CUR", "SEEK_END"}, sys_lseek(p, fd, offset, whence)
      PROVE  FInv' /\ Extends(fs, fs') /\ (Openable(fs) /\ ~Anywhere => Openable(fs'))
  <2>1. fs' = fs
    BY <1>7 DEF sys_lseek
  <2> QED BY <2>1, <1>2, <1>7, SeekStep, ZenonT(40)
<1>8. ASSUME NEW p \in Procs, NEW fd, sys_close(p, fd)
      PROVE  FInv' /\ Extends(fs, fs') /\ (Openable(fs) /\ ~Anywhere => Openable(fs'))
  <2>1. fs' = fs
    BY <1>8 DEF sys_close
  <2> QED BY <2>1, <1>2, <1>8, CloseStep, ZenonT(30)
<1>9. ASSUME NEW p \in Procs, sys_readdir(p) \/ sys_closedir(p)
      PROVE  FInv' /\ Extends(fs, fs') /\ (Openable(fs) /\ ~Anywhere => Openable(fs'))
  <2>1. fs' = fs
    BY <1>9, ZenonT(40) DEF sys_readdir, sys_closedir
  <2>2. FInv'
    BY <1>9, ReaddirStep, ClosedirStep
  <2> QED BY <2>1, <2>2, <1>2
<1>10. Next \/ UNCHANGED vars
  OBVIOUS
<1> QED BY <1>3, <1>4, <1>5, <1>6, <1>7, <1>8, <1>9, <1>10, ZenonT(40) DEF Next
--------------------------------------------------------------------------------
(* O_CREAT and mkdir: whatever processes create, each file and directory    *)
(* can be opened by its name, when files are created by simple names only.  *)
THEOREM CreatedFound ==
    ASSUME ~Anywhere
    PROVE  Spec => []CreatedIsFound
<1>1. Init => FInv /\ Openable(fs)
  BY InitFInv
<1>2. FInv /\ Openable(fs) /\ [Next]_vars => (FInv /\ Openable(fs))'
  BY StepFInv, Zenon
<1>3. FInv /\ Openable(fs) => CreatedIsFound
  <2> SUFFICES ASSUME FInv, Openable(fs), NEW i \in Ids, NEW k \in DOMAIN fs[i].entries,
                      fs[i].entries[k].id # None
               PROVE  /\ fs[i].entries[k].name \in Names
                      /\ vfs_finddir(fs, i, fs[i].entries[k].name) = fs[i].entries[k].id
    BY DEF CreatedIsFound
  <2>1. fs[i].entries \in Seq(EntryT)
    BY FsFields, ZenonT(40) DEF FInv, Tables, Tree
  <2>2. k \in 1 .. Len(fs[i].entries)
    BY <2>1
  <2> QED BY <2>2, ZenonT(40) DEF Openable
<1> QED BY <1>1, <1>2, <1>3, PTL DEF Spec

(* A stream of names returns each entry of a directory once and in order,   *)
(* whatever is added to the directory meanwhile.                            *)
THEOREM StreamsExact == Spec => []StreamExact
<1>1. Init => FInv
  BY InitFInv
<1>2. FInv /\ [Next]_vars => FInv'
  BY StepFInv
<1>3. FInv => StreamExact
  <2> SUFFICES ASSUME FInv, NEW p \in Procs, proc[p].dir # NoDir, NEW k \in DOMAIN seen[p]
               PROVE  seen[p][k] = fs[proc[p].fdt[proc[p].dir.fd].id].entries[k].name
    BY ZenonT(40) DEF StreamExact
  <2>1. OneStream(fs, proc[p], seen[p]) /\ seen \in SeenType
    BY DEF FInv, Tables, Streams
  <2>2. k \in 1 .. Len(seen[p])
    BY <2>1 DEF SeenType
  <2> QED BY <2>1, <2>2, ZenonT(40) DEF OneStream, Prefix
<1> QED BY <1>1, <1>2, <1>3, PTL DEF Spec

(* ".." leads from a directory to the one that it is an entry of.           *)
LEMMA AboveFacts ==
    ASSUME Tree(fs), NEW id \in Ids, fs[id].kind # "none"
    PROVE  /\ Above(id) \in Ids
           /\ id # Root => \E k \in 1 .. Len(fs[Above(id)].entries) : fs[Above(id)].entries[k].id = id
<1>1. CASE id = Root
  BY <1>1, ZenonT(40) DEF Above
<1>2. CASE id # Root
  <2>1. \A d \in Ids : DOMAIN fs[d].entries = 1 .. Len(fs[d].entries)
    <3>1. \A d \in Ids : fs[d].entries \in Seq(EntryT)
      BY FsFields, Zenon DEF Tree
    <3> QED BY <3>1
  <2>2. \E d \in Ids : \E k \in 1 .. Len(fs[d].entries) : fs[d].entries[k].id = id
    BY <1>2, ZenonT(40) DEF Tree
  <2> DEFINE P(d) == \E k \in DOMAIN fs[d].entries : fs[d].entries[k].id = id
  <2>3. \E d \in Ids : P(d)
    BY <2>1, <2>2
  <2>4. Above(id) = CHOOSE d \in Ids : P(d)
    BY <1>2, Zenon DEF Above
  <2> HIDE DEF P
  <2>5. Above(id) \in Ids /\ P(Above(id))
    BY <2>3, <2>4, ZenonT(40)
  <2> QED BY <2>1, <2>5, ZenonT(40) DEF P
<1> QED BY <1>1, <1>2, ZenonT(40)

LEMMA SteppedType ==
    ASSUME Tree(fs), NEW id \in {None} \cup Ids, NEW c
    PROVE  Stepped(id, c) \in {None} \cup Ids
<1>1. CASE id = None \/ fs[id].kind # "dir"
  BY <1>1, Zenon DEF Stepped
<1>2. CASE id \in Ids /\ fs[id].kind = "dir"
  <2>1. Above(id) \in Ids
    BY <1>2, AboveFacts
  <2>2. vfs_finddir(fs, id, c) \in {None} \cup Ids
    <3>1. Below(fs, id, c) \in {None} \cup Ids /\ id # None
      BY <1>2, FindType, RootId DEF Tree
    <3> QED BY <3>1, ZenonT(40) DEF Below
  <2>3. Stepped(id, c) = IF c = Dot THEN id ELSE IF c = DotDot THEN Above(id) ELSE vfs_finddir(fs, id, c)
    BY <1>2, RootId, Zenon DEF Stepped, Dot, DotDot
  <2> QED BY <1>2, <2>1, <2>2, <2>3, ZenonT(40)
<1> QED BY <1>1, <1>2

(* The walk, step by step.                                                  *)
WalkSteps(g, i, comps) ==
    /\ g \in [0 .. Len(comps) -> {None} \cup Ids] /\ g[0] = i
    /\ \A k \in 1 .. Len(comps) : g[k] = Stepped(g[k - 1], comps[k])

LEMMA WalkAllSteps ==
    ASSUME Tree(fs), NEW i \in {None} \cup Ids, NEW A, NEW comps \in Seq(A)
    PROVE  \E g : WalkSteps(g, i, comps) /\ Walk(i, comps) = g[Len(comps)]
<1> DEFINE n == Len(comps)
           D == {None} \cup Ids
           F == [x \in D \X (1 .. n) |-> Stepped(x[1], comps[x[2]])]
           Eq(w) == w = [k \in 0 .. n |-> IF k = 0 THEN i ELSE Stepped(w[k - 1], comps[k])]
           w == CHOOSE w : Eq(w)
<1>1. n \in Nat
  OBVIOUS
<1> HIDE DEF n
<1>2. F \in [D \X (1 .. n) -> D]
  BY <1>1, SteppedType, ZenonT(40)
<1>3. \A x \in D, k \in 1 .. n : F[<<x, k>>] = Stepped(x, comps[k])
  OBVIOUS
<1>0. PICK g : Recurs(g, D, i, n, F)
  <2> HIDE DEF F, D
  <2>1. i \in D
    BY DEF D
  <2> QED BY <1>1, <1>2, <2>1, Recursion, ZenonT(40)
<1>4. g \in [0 .. n -> D] /\ g[0] = i /\ \A k \in 1 .. n : g[k] = F[<<g[k - 1], k>>]
  BY <1>0, Zenon DEF Recurs
<1>5. ASSUME NEW k \in 1 .. n PROVE g[k] = Stepped(g[k - 1], comps[k])
  <2>1. g[k - 1] \in D
    BY <1>4, <1>1
  <2> HIDE DEF F, D
  <2> QED BY <1>3, <1>4, <2>1, ZenonT(40)
<1> HIDE DEF F, D
<1>6. Eq(g)
  <2>1. \A k \in 0 .. n : g[k] = IF k = 0 THEN i ELSE Stepped(g[k - 1], comps[k])
    BY <1>1, <1>4, <1>5
  <2>2. g = [k \in 0 .. n |-> g[k]]
    BY <1>4
  <2> QED BY <2>1, <2>2, ZenonT(40)
<1>7. Eq(w)
  <2> HIDE DEF Eq
  <2> QED BY <1>6
<1>8. Walk(i, comps) = w[n]
  BY DEF Walk, n
<1> HIDE DEF w
<1>9. \A k \in 0 .. n : w[k] = g[k]
  <2> DEFINE S == {k \in 0 .. n : w[k] = g[k]}
  <2>1. w[0] = g[0] /\ 0 \in 0 .. n
    BY <1>1, <1>4, <1>7
  <2>2. ASSUME NEW k \in 1 .. n, k - 1 \in S PROVE k \in S
    <3>1. k \in 0 .. n /\ w[k] = Stepped(w[k - 1], comps[k])
      BY <1>1, <1>7
    <3> QED BY <3>1, <2>2, <1>5, ZenonT(40)
  <2>3. 0 .. n \subseteq S
    <3>1. 0 \in S
      BY <2>1, ZenonT(40)
    <3> HIDE DEF S
    <3> QED BY <3>1, <2>2, <1>1, UpTo, ZenonT(40)
  <2> QED BY <2>3, ZenonT(40)
<1>10. WalkSteps(g, i, comps) /\ w[n] = g[n]
  <2>1. w[n] = g[n] /\ \A k \in 1 .. n : g[k] = Stepped(g[k - 1], comps[k])
    <3>1. n \in 0 .. n
      BY <1>1
    <3> QED BY <3>1, <1>5, <1>9, ZenonT(40)
  <2>2. g \in [0 .. n -> {None} \cup Ids] /\ g[0] = i
    BY <1>4, Zenon DEF D
  <2> QED BY <2>1, <2>2, ZenonT(40) DEF WalkSteps, n
<1> QED BY <1>8, <1>10, ZenonT(40) DEF n

(* One component: what is left of the path leads where the walk goes.       *)
LEMMA LexicalStep ==
    ASSUME Tree(fs), NEW out \in Seq(Names), NEW c \in Component, NEW id \in Ids,
           Found(fs, Root, out) = id, Stepped(id, c) # None
    PROVE  Found(fs, Root, Pushed(out, c)) = Stepped(id, c)
<1>1. fs \in FsType /\ Root \in {None} \cup Ids /\ Root \in Ids /\ None \notin Ids
  BY RootId, Zenon DEF Tree
<1>2. fs[id].kind = "dir"
  BY DEF Stepped
<1>3. Stepped(id, c) = IF c = Dot THEN id ELSE IF c = DotDot THEN Above(id) ELSE vfs_finddir(fs, id, c)
  BY <1>1, <1>2, Zenon DEF Stepped, Dot, DotDot
<1>4. CASE c = Dot
  BY <1>3, <1>4, Zenon DEF Pushed, Dot, DotDot
<1>5. CASE c = DotDot /\ out = <<>>
  <2>1. Found(fs, Root, <<>>) = Root
    BY <1>1, FoundNothing, ZenonT(40)
  <2>2. id = Root /\ Above(id) = Root
    BY <1>5, <2>1, ZenonT(30) DEF Above
  <2>3. Pushed(out, c) = out
    BY <1>5 DEF Pushed
  <2>4. Stepped(id, c) = Above(id)
    BY <1>3, <1>5, Zenon DEF Dot, DotDot
  <2> QED BY <2>2, <2>3, <2>4, ZenonT(40)
<1>6. CASE c = DotDot /\ out # <<>>
  <2> DEFINE up == Popped(out)  last == out[Len(out)]  d == Found(fs, Root, up)
  <2>1. up \in Seq(Names) /\ last \in Names /\ out = Append(up, last)
    BY <1>6 DEF Popped
  <2>2. d \in {None} \cup Ids
    <3> HIDE DEF up
    <3> QED BY <1>1, <2>1, FoundType, ZenonT(40)
  <2>3. Below(fs, d, last) = id
    <3> HIDE DEF up, last
    <3>1. Found(fs, Root, Append(up, last)) = Below(fs, d, last)
      BY <1>1, <2>1, FoundAppend
    <3> QED BY <3>1, <2>1, ZenonT(40)
  <2> HIDE DEF up, last, d
  <2>4. d \in Ids /\ vfs_finddir(fs, d, last) = id
    BY <1>1, <2>2, <2>3 DEF Below
  <2>5. PICK k \in 1 .. Len(fs[d].entries) : fs[d].entries[k].id = id
    <3>1. vfs_finddir(fs, d, last) # None
      BY <2>4, <1>1
    <3> QED BY <3>1, <2>4, <1>1, FindEntry, ZenonT(40)
  <2>6. id # Root
    <3>1. \A i \in Ids : \A a \in 1 .. Len(fs[i].entries) :
             fs[i].entries[a].id # None => fs[i].entries[a].id # Root
      <4>1. \A i \in Ids : \A a \in 1 .. Len(fs[i].entries) :
               fs[i].entries[a].id # None => /\ fs[i].entries[a].id # Root
                                             /\ fs[fs[i].entries[a].id].kind # "none"
        BY ZenonT(40) DEF Tree
      <4> QED BY <4>1, ZenonT(40)
    <3>2. fs[d].entries[k].id # None
      BY <1>1, <2>5, Zenon
    <3> QED BY <3>1, <3>2, <2>4, <2>5, ZenonT(40)
  <2>7. /\ Above(id) \in Ids
        /\ \E l \in 1 .. Len(fs[Above(id)].entries) : fs[Above(id)].entries[l].id = id
    BY <1>2, <2>6, AboveFacts, ZenonT(40)
  <2>8. PICK l \in 1 .. Len(fs[Above(id)].entries) : fs[Above(id)].entries[l].id = id
    BY <2>7, ZenonT(40)
  <2>9. Above(id) = d
    <3>1. \A i, j \in Ids : \A a \in 1 .. Len(fs[i].entries), b \in 1 .. Len(fs[j].entries) :
             fs[i].entries[a].id # None /\ fs[j].entries[b].id = fs[i].entries[a].id => i = j /\ a = b
      BY ZenonT(40) DEF Tree
    <3>2. fs[d].entries[k].id # None /\ fs[Above(id)].entries[l].id = fs[d].entries[k].id
      BY <1>1, <2>5, <2>8, Zenon
    <3> QED BY <3>1, <3>2, <2>4, <2>7, ZenonT(40)
  <2>10. Pushed(out, c) = up
    BY <1>6, Zenon DEF Pushed, up
  <2>11. Stepped(id, c) = Above(id)
    BY <1>3, <1>6, ZenonT(40) DEF Dot, DotDot
  <2> QED BY <2>9, <2>10, <2>11, ZenonT(40) DEF d
<1>7. CASE c # Dot /\ c # DotDot
  <2>1. c \in Names /\ Pushed(out, c) = Append(out, c)
    BY <1>7, ZenonT(40) DEF Component, Pushed
  <2>2. Found(fs, Root, Append(out, c)) = Below(fs, id, c)
    BY <1>1, <2>1, FoundAppend
  <2>3. Below(fs, id, c) = vfs_finddir(fs, id, c)
    BY <1>1 DEF Below
  <2> QED BY <1>3, <1>7, <2>1, <2>2, <2>3, ZenonT(40)
<1> QED BY <1>4, <1>5, <1>6, <1>7

LEMMA LexicalWalk ==
    ASSUME Tree(fs), NEW out \in Seq(Names), NEW comps \in Seq(Component),
           Walk(Found(fs, Root, out), comps) # None
    PROVE  Found(fs, Root, PushAll(out, comps)) = Walk(Found(fs, Root, out), comps)
<1> DEFINE n == Len(comps)  start == Found(fs, Root, out)
<1>1. n \in Nat /\ fs \in FsType /\ Root \in {None} \cup Ids
  BY RootId DEF Tree
<1>2. start \in {None} \cup Ids
  BY <1>1, FoundType, ZenonT(40)
<1>3. PICK g : PushSteps(g, out, comps) /\ PushAll(out, comps) = g[n]
  BY PushAllSteps
<1>4. PICK w : WalkSteps(w, start, comps) /\ Walk(start, comps) = w[n]
  <2> HIDE DEF start
  <2> QED BY <1>2, WalkAllSteps, ZenonT(40)
<1>5. /\ g \in [0 .. n -> Seq(Names)] /\ g[0] = out
      /\ \A k \in 1 .. n : g[k] = Pushed(g[k - 1], comps[k])
  BY <1>3, ZenonT(40) DEF PushSteps
<1>6. /\ w \in [0 .. n -> {None} \cup Ids] /\ w[0] = start
      /\ \A k \in 1 .. n : w[k] = Stepped(w[k - 1], comps[k])
  BY <1>4, Zenon DEF WalkSteps
<1>7. \A k \in 1 .. n : comps[k] \in Component
  OBVIOUS
<1> HIDE DEF n
<1> DEFINE S == {k \in 0 .. n : w[k] # None => Found(fs, Root, g[k]) = w[k]}
<1>8. 0 .. n \subseteq S
  <2>1. 0 \in S
    BY <1>1, <1>5, <1>6
  <2>2. ASSUME NEW k \in 1 .. n, k - 1 \in S PROVE k \in S
    <3>1. k \in 0 .. n /\ k - 1 \in 0 .. n /\ (w[k - 1] # None => Found(fs, Root, g[k - 1]) = w[k - 1])
      BY <1>1, <2>2
    <3>2. ASSUME w[k] # None PROVE Found(fs, Root, g[k]) = w[k]
      <4>1. w[k] = Stepped(w[k - 1], comps[k]) /\ g[k] = Pushed(g[k - 1], comps[k])
        BY <1>5, <1>6
      <4>2. w[k - 1] # None
        BY <3>2, <4>1, Zenon DEF Stepped
      <4>3. w[k - 1] \in Ids /\ g[k - 1] \in Seq(Names)
        BY <1>5, <1>6, <3>1, <4>2, ZenonT(40)
      <4>4. Found(fs, Root, g[k - 1]) = w[k - 1] /\ Stepped(w[k - 1], comps[k]) # None
        BY <3>1, <3>2, <4>1, <4>2, ZenonT(40)
      <4> QED BY <4>1, <4>3, <4>4, <1>7, LexicalStep, ZenonT(40)
    <3> QED BY <3>1, <3>2, ZenonT(40)
  <2> HIDE DEF S
  <2> QED BY <1>1, <2>1, <2>2, UpTo, ZenonT(40)
<1>9. w[n] # None => Found(fs, Root, g[n]) = w[n]
  BY <1>1, <1>8
<1> QED BY <1>3, <1>4, <1>9, ZenonT(40)

(* normalizePath agrees with a walk through the directories, for every tree *)
(* that processes can make and for every path that can be walked.           *)
THEOREM LexicalPaths == Spec => []LexicalAgrees
<1>1. Init => FInv
  BY InitFInv
<1>2. FInv /\ [Next]_vars => FInv'
  BY StepFInv
<1>3. FInv => LexicalAgrees
  <2> SUFFICES ASSUME FInv, NEW p \in Procs, NEW path \in Paths,
                      Walk(IF Relative(path) THEN Found(fs, Root, proc[p].cwd) ELSE Root, path.comps) # None
               PROVE  vfs_openFile(fs, proc[p].cwd, path) =
                      Walk(IF Relative(path) THEN Found(fs, Root, proc[p].cwd) ELSE Root, path.comps)
    BY DEF LexicalAgrees
  <2> DEFINE out == IF Relative(path) THEN proc[p].cwd ELSE <<>>
  <2>1. Tree(fs) /\ proc \in ProcType /\ fs \in FsType
    BY ZenonT(40) DEF FInv, Tables, Tree
  <2>2. proc[p].cwd \in Seq(Names) /\ path.comps \in Seq(Component)
    BY <2>1, ProcFields, PathFacts, ZenonT(40)
  <2>3. out \in Seq(Names)
    BY <2>2
  <2>4. Found(fs, Root, out) = IF Relative(path) THEN Found(fs, Root, proc[p].cwd) ELSE Root
    <3>1. Found(fs, Root, <<>>) = Root
      BY <2>1, FoundNothing, RootId, ZenonT(40)
    <3> QED BY <3>1, Zenon
  <2>5. vfs_openFile(fs, proc[p].cwd, path) = Found(fs, Root, PushAll(out, path.comps))
    BY DEF vfs_openFile, normalizePath
  <2> HIDE DEF out
  <2>6. Walk(Found(fs, Root, out), path.comps) # None
    BY <2>4
  <2> QED BY <2>1, <2>2, <2>3, <2>4, <2>5, <2>6, LexicalWalk, ZenonT(40)
<1> QED BY <1>1, <1>2, <1>3, PTL DEF Spec

(* The descriptors of all processes lead to nodes that exist, none of them  *)
(* takes a file for longer than it is, and one of those that lead to a file *)
(* always knows its size, although nothing brings the others up to date.    *)
THEOREM SizesKnown == Spec => []SizeKnown
<1>1. Init => FInv
  BY InitFInv
<1>2. FInv /\ [Next]_vars => FInv'
  BY StepFInv
<1>3. ASSUME FInv PROVE SizeKnown
  <2>1. /\ fs \in FsType /\ proc \in ProcType /\ Descriptors(fs, proc) /\ Known(fs, proc)
        /\ Streams(fs, proc, seen)
    BY <1>3, ZenonT(40) DEF FInv, Tables, Tree
  <2>2. ASSUME NEW p \in Procs, NEW n \in Nodes(p)
        PROVE  \E k \in 1 .. Len(proc[p].fdt) : n = proc[p].fdt[k]
    <3>1. proc[p].fdt \in Seq(NodeT)
      BY <2>1, ProcFields, ZenonT(40)
    <3> QED BY <3>1, <2>2 DEF Nodes
  <2>3. ASSUME NEW p \in Procs, NEW k \in 1 .. Len(proc[p].fdt) PROVE proc[p].fdt[k] \in Nodes(p)
    <3>1. proc[p].fdt \in Seq(NodeT)
      BY <2>1, ProcFields, Zenon
    <3> QED BY <3>1 DEF Nodes
  <2>4. ASSUME NEW p \in Procs, NEW n \in Nodes(p) PROVE n \in NodeT /\ GoodNode(fs, n)
    <3>1. PICK k \in 1 .. Len(proc[p].fdt) : n = proc[p].fdt[k]
      BY <2>2, Zenon
    <3> QED BY <3>1, <2>1, ProcFields, Zenon DEF Descriptors
  <2>5. TypeOK
    <3>1. ASSUME NEW i \in Ids
          PROVE  /\ fs[i].kind \in {"none", "file", "dir"} /\ fs[i].size \in 0 .. MaxSize
                 /\ \A k \in DOMAIN fs[i].entries : fs[i].entries[k].id \in {None} \cup Ids
      <4>1. /\ fs[i].kind \in {"none", "file", "dir"} /\ fs[i].size \in 0 .. MaxSize
            /\ fs[i].entries \in Seq(EntryT)
        BY <2>1, FsFields, ZenonT(40)
      <4>2. \A k \in DOMAIN fs[i].entries : fs[i].entries[k] \in EntryT
        BY <4>1
      <4> QED BY <4>1, <4>2, Zenon DEF EntryT
    <3>2. ASSUME NEW p \in Procs PROVE proc[p].cwd \in Seq(Names)
      BY <2>1, ProcFields, Zenon
    <3>3. ASSUME NEW p \in Procs, NEW n \in Nodes(p)
          PROVE  /\ n.id # None => fs[n.id].kind # "none" /\ fs[n.id].kind \in n.flags
                 /\ n.attr \in Attrs /\ n.size \in 0 .. MaxSize /\ n.offset <= MaxSize + 1
      <4>1. n \in NodeT /\ GoodNode(fs, n)
        BY <2>4
      <4> QED BY <4>1, NodeFields, Zenon DEF GoodNode
    <3>4. ASSUME NEW p \in Procs
          PROVE  proc[p].dir = NoDir \/ proc[p].dir.fd \in 4 .. Len(proc[p].fdt)
      BY <2>1, ZenonT(40) DEF Streams, OneStream
    <3> QED BY <3>1, <3>2, <3>3, <3>4, ZenonT(40) DEF TypeOK
  <2>6. ASSUME NEW i \in Ids, NEW p \in Procs, NEW n \in Nodes(p), n.id = i
        PROVE  n.size <= fs[i].size /\ OpenAs(proc, i, fs[i].size)
    <3>1. n.size <= fs[i].size
      <4>1. GoodNode(fs, n) /\ n.id # None
        BY <2>4, <2>6, RootId, Zenon
      <4> QED BY <4>1, <2>6, Zenon DEF GoodNode
    <3>2. PICK k \in 1 .. Len(proc[p].fdt) : n = proc[p].fdt[k]
      BY <2>2, <2>6, Zenon
    <3>3. OpenAs(proc, i, n.size)
      BY <3>2, <2>6, Zenon DEF OpenAs
    <3> QED BY <3>1, <3>3, <2>1, Zenon DEF Known
  <2>7. ASSUME NEW i \in Ids, OpenAs(proc, i, fs[i].size)
        PROVE  \E p \in Procs : \E n \in Nodes(p) : n.id = i /\ n.size = fs[i].size
    <3>1. PICK p \in Procs : \E k \in 1 .. Len(proc[p].fdt) :
                                proc[p].fdt[k].id = i /\ proc[p].fdt[k].size = fs[i].size
      BY <2>7, Zenon DEF OpenAs
    <3>2. PICK k \in 1 .. Len(proc[p].fdt) : proc[p].fdt[k].id = i /\ proc[p].fdt[k].size = fs[i].size
      BY <3>1, Zenon
    <3>3. proc[p].fdt[k] \in Nodes(p)
      BY <2>3, Zenon
    <3> QED BY <3>2, <3>3, ZenonT(40)
  <2>8. ASSUME NEW i \in Ids
        PROVE  LET sizes == {n.size : n \in {m \in UNION {Nodes(p) : p \in Procs} : m.id = i}}
               IN  sizes # {} => fs[i].size \in sizes /\ \A size \in sizes : size <= fs[i].size
    <3> DEFINE on == {m \in UNION {Nodes(p) : p \in Procs} : m.id = i}
               sizes == {n.size : n \in on}
    <3> SUFFICES ASSUME sizes # {} PROVE fs[i].size \in sizes /\ \A size \in sizes : size <= fs[i].size
      BY Zenon
    <3>1. \A n \in on : n.size <= fs[i].size /\ OpenAs(proc, i, fs[i].size)
      BY <2>6, Zenon
    <3>2. OpenAs(proc, i, fs[i].size)
      BY <3>1, Zenon
    <3>3. PICK p \in Procs : \E n \in Nodes(p) : n.id = i /\ n.size = fs[i].size
      BY <3>2, <2>7, ZenonT(40)
    <3>4. PICK n \in Nodes(p) : n.id = i /\ n.size = fs[i].size
      BY <3>3
    <3>5. n \in on
      BY <3>4, Zenon
    <3>6. fs[i].size \in sizes
      BY <3>4, <3>5
    <3> QED BY <3>1, <3>6, Zenon
  <2> QED BY <2>5, <2>8 DEF SizeKnown
<1> QED BY <1>1, <1>2, <1>3, PTL DEF Spec

(* What is normalized stays as it is when it is normalized again.           *)
LEMMA NormalizedTwice ==
    ASSUME NEW comps \in Seq(Names)
    PROVE  PushAll(<<>>, comps) = comps
<1> DEFINE n == Len(comps)
<1>1. comps \in Seq(Component) /\ <<>> \in Seq(Names) /\ n \in Nat
  BY DEF Component
<1>2. PICK g : PushSteps(g, <<>>, comps) /\ PushAll(<<>>, comps) = g[n]
  BY <1>1, PushAllSteps, Zenon
<1>3. /\ g \in [0 .. n -> Seq(Names)] /\ g[0] = <<>>
      /\ \A k \in 1 .. n : g[k] = Pushed(g[k - 1], comps[k])
  BY <1>2 DEF PushSteps
<1>4. \A k \in 1 .. n : comps[k] \in Names /\ comps[k] # Dot /\ comps[k] # DotDot
  BY FilesAssumption
<1> HIDE DEF n
<1> DEFINE S == {k \in 0 .. n : Len(g[k]) = k /\ \A j \in 1 .. k : g[k][j] = comps[j]}
<1>5. 0 .. n \subseteq S
  <2>1. 0 \in S
    BY <1>1, <1>3
  <2>2. ASSUME NEW k \in 1 .. n, k - 1 \in S PROVE k \in S
    <3>1. /\ k \in 0 .. n /\ k - 1 \in 0 .. n /\ Len(g[k - 1]) = k - 1
          /\ \A j \in 1 .. k - 1 : g[k - 1][j] = comps[j]
      BY <1>1, <2>2
    <3>2. g[k] = Append(g[k - 1], comps[k])
      BY <1>3, <1>4, Zenon DEF Pushed
    <3> DEFINE h == g[k - 1]
    <3>3. h \in Seq(Names) /\ Len(h) = k - 1 /\ \A j \in 1 .. k - 1 : h[j] = comps[j]
      BY <1>3, <3>1, Zenon
    <3>4. g[k] = Append(h, comps[k]) /\ comps[k] \in Names
      BY <3>2, <1>4, ZenonT(40)
    <3> HIDE DEF h
    <3>5. Len(g[k]) = (k - 1) + 1 /\ g[k][(k - 1) + 1] = comps[k] /\ \A j \in 1 .. k - 1 : g[k][j] = h[j]
      BY <3>3, <3>4
    <3>6. (k - 1) + 1 = k /\ \A j \in 1 .. k : j = k \/ j \in 1 .. k - 1
      BY <1>1
    <3>7. Len(g[k]) = k /\ \A j \in 1 .. k : g[k][j] = comps[j]
      BY <3>3, <3>5, <3>6, ZenonT(40)
    <3> QED BY <3>1, <3>7, ZenonT(40)
  <2> HIDE DEF S
  <2> QED BY <1>1, <2>1, <2>2, UpTo, ZenonT(40)
<1>6. g[n] \in Seq(Names) /\ Len(g[n]) = n /\ \A j \in 1 .. n : g[n][j] = comps[j]
  BY <1>1, <1>3, <1>5
<1>7. g[n] = comps
  <2> DEFINE a == g[n]
  <2>1. a \in Seq(Names) /\ Len(a) = Len(comps) /\ \A j \in 1 .. Len(comps) : a[j] = comps[j]
    BY <1>6 DEF n
  <2> HIDE DEF a
  <2>2. a = comps
    BY <2>1
  <2> QED BY <2>2 DEF a
<1> QED BY <1>2, <1>7

(* Only sys_chdir changes a working directory.                              *)
LEMMA CwdStep ==
    ASSUME proc \in ProcType, [Next]_vars, NEW q \in Procs
    PROVE  \/ proc'[q].cwd = proc[q].cwd
           \/ \E path \in Paths : sys_chdir(q, path)
<1>1. CASE UNCHANGED vars
  BY <1>1 DEF vars
<1>2. ASSUME NEW p \in Procs, NEW path \in Paths, NEW attr \in Attrs,
             sys_open(p, path, attr) \/ sys_open_create(p, path, attr)
      PROVE  proc'[q].cwd = proc[q].cwd
  <2>1. \/ proc' = proc \/ \E n : proc' = Added(p, n)
    BY <1>2, Zenon DEF sys_open, sys_open_create
  <2> QED BY <2>1, ZenonT(40) DEF Added, ProcType, ProcT
<1>3. ASSUME NEW p \in Procs, NEW path \in Paths,
             sys_mkdir(p, path) \/ sys_opendir(p, path)
      PROVE  proc'[q].cwd = proc[q].cwd
  <2>1. CASE sys_mkdir(p, path)
    BY <2>1 DEF sys_mkdir
  <2>2. CASE sys_opendir(p, path)
    <3>1. PICK n : proc' = [Added(p, n) EXCEPT ![p].dir = [fd |-> Len(proc[p].fdt) + 1, currentEntry |-> 0]]
      BY <2>2, Zenon DEF sys_opendir
    <3> QED BY <3>1, Zenon DEF Added, ProcType, ProcT
  <2> QED BY <1>3, <2>1, <2>2, ZenonT(40)
<1>4. ASSUME NEW p \in Procs, NEW path \in Paths, sys_chdir(p, path)
      PROVE  proc'[q].cwd = proc[q].cwd \/ sys_chdir(q, path)
  <2>1. CASE q = p
    BY <1>4, <2>1
  <2>2. CASE q # p
    BY <1>4, <2>2 DEF sys_chdir, ProcType
  <2> QED BY <2>1, <2>2, ZenonT(40)
<1>5. ASSUME NEW p \in Procs, NEW fd \in DOMAIN proc[p].fdt,
             \/ sys_close(p, fd)
             \/ \E count \in Counts : sys_read(p, fd, count) \/ sys_write(p, fd, count)
             \/ \E offset \in Offsets, whence \in {"SEEK_SET", "SEEK_CUR", "SEEK_END"} :
                   sys_lseek(p, fd, offset, whence)
      PROVE  proc'[q].cwd = proc[q].cwd
  <2>1. \E d : proc' = [proc EXCEPT ![p].fdt = d]
    <3>1. CASE sys_close(p, fd)
      BY <3>1, Zenon DEF sys_close
    <3>2. ASSUME NEW count, sys_read(p, fd, count) PROVE \E d : proc' = [proc EXCEPT ![p].fdt = d]
      BY <3>2, Zenon DEF sys_read
    <3>3. ASSUME NEW count, sys_write(p, fd, count) PROVE \E d : proc' = [proc EXCEPT ![p].fdt = d]
      BY <3>3, Zenon DEF sys_write
    <3>4. ASSUME NEW offset, NEW whence, sys_lseek(p, fd, offset, whence)
          PROVE  \E d : proc' = [proc EXCEPT ![p].fdt = d]
      BY <3>4, ZenonT(40) DEF sys_lseek
    <3> QED BY <1>5, <3>1, <3>2, <3>3, <3>4, ZenonT(40)
  <2> QED BY <2>1 DEF ProcType, ProcT
<1>6. ASSUME NEW p \in Procs, sys_readdir(p) \/ sys_closedir(p)
      PROVE  proc'[q].cwd = proc[q].cwd
  <2>1. CASE sys_readdir(p)
    <3>1. \E d : proc' = [proc EXCEPT ![p].dir = d]
      BY <2>1, Zenon DEF sys_readdir
    <3> QED BY <3>1 DEF ProcType, ProcT
  <2>2. CASE sys_closedir(p)
    <3>1. \E d, e : proc' = [proc EXCEPT ![p].fdt = d, ![p].dir = e]
      BY <2>2, ZenonT(40) DEF sys_closedir
    <3> QED BY <3>1 DEF ProcType, ProcT
  <2> QED BY <1>6, <2>1, <2>2
<1> QED BY <1>1, <1>2, <1>3, <1>4, <1>5, <1>6, ZenonT(40) DEF Next

(* What sys_chdir accepts is a directory.                                   *)
LEMMA ChdirFacts ==
    ASSUME \A g \in Garbage : "dir" \notin g, FInv, NEW p \in Procs, NEW path \in Paths,
           sys_chdir(p, path)
    PROVE  /\ proc'[p].cwd \in Seq(Names) /\ Found(fs, Root, proc'[p].cwd) # None
           /\ fs[Found(fs, Root, proc'[p].cwd)].kind = "dir"
<1> DEFINE newPath == normalizePath(proc[p].cwd, path)
           id == vfs_openFile(fs, proc[p].cwd, [abs |-> TRUE, comps |-> newPath])
<1>1. proc \in ProcType
  BY ZenonT(40) DEF FInv, Tables
<1>2. newPath \in Seq(Names)
  BY <1>1, ProcFields, PathFacts
<1>3. /\ id # None /\ {g \in Garbage : IsDir(NodeOf(id, "O_RDONLY", g).flags)} # {}
      /\ proc' = [proc EXCEPT ![p].cwd = newPath]
  BY Zenon DEF sys_chdir
<1> HIDE DEF newPath
<1>4. proc'[p].cwd = newPath
  BY <1>1, <1>3, Zenon DEF ProcType, ProcT
<1>5. id = Found(fs, Root, newPath)
  <2>1. ~Relative([abs |-> TRUE, comps |-> newPath])
    BY ZenonT(40) DEF Relative
  <2>2. normalizePath(proc[p].cwd, [abs |-> TRUE, comps |-> newPath]) = PushAll(<<>>, newPath)
    BY <2>1 DEF normalizePath
  <2>3. PushAll(<<>>, newPath) = newPath
    BY <1>2, NormalizedTwice
  <2> QED BY <2>2, <2>3, Zenon DEF vfs_openFile
<1> HIDE DEF id
<1>6. PICK g \in Garbage : "dir" \in {fs[id].kind} \cup g
  BY <1>3, Zenon DEF IsDir, NodeOf
<1>7. fs[id].kind = "dir"
  BY <1>6
<1> QED BY <1>2, <1>3, <1>4, <1>5, <1>7, ZenonT(40)

(* A working directory stays a directory, although sys_chdir checks it only *)
(* once: for every history of calls, when the memory in which ino2vfs sets  *)
(* the flags of a node does not hold the flag of a directory.               *)
THEOREM CwdStays ==
    ASSUME \A g \in Garbage : "dir" \notin g
    PROVE  Spec => []CwdIsDirectory
<1>1. Init => FInv /\ CwdIsDirectory
  <2> SUFFICES ASSUME Init PROVE FInv /\ CwdIsDirectory
    OBVIOUS
  <2>1. FInv
    BY InitFInv
  <2>2. fs \in FsType /\ fs[Root].kind = "dir" /\ Root \in Ids /\ None \notin Ids
    BY <2>1, RootId, ZenonT(40) DEF FInv, Tables, Tree
  <2>3. Found(fs, Root, <<>>) = Root
    BY <2>2, FoundNothing
  <2>4. \A p \in Procs : proc[p].cwd = <<>>
    BY Zenon DEF Init
  <2>5. CwdIsDirectory
    BY <2>2, <2>3, <2>4, Zenon DEF CwdIsDirectory
  <2> QED BY <2>1, <2>5
<1>2. FInv /\ CwdIsDirectory /\ [Next]_vars => (FInv /\ CwdIsDirectory)'
  <2> SUFFICES ASSUME FInv, CwdIsDirectory, [Next]_vars PROVE FInv' /\ CwdIsDirectory'
    OBVIOUS
  <2>1. FInv' /\ Extends(fs, fs')
    BY StepFInv
  <2>2. fs \in FsType /\ fs' \in FsType /\ proc \in ProcType /\ Tree(fs)
    BY <2>1, ZenonT(40) DEF FInv, Tables, Tree
  <2>3. ASSUME NEW q \in Procs
        PROVE  Found(fs', Root, proc'[q].cwd) # None /\ fs'[Found(fs', Root, proc'[q].cwd)].kind = "dir"
    <3> DEFINE new == proc'[q].cwd  id == Found(fs, Root, new)
    <3>1. new \in Seq(Names) /\ id # None /\ fs[id].kind = "dir"
      <4>1. CASE new = proc[q].cwd
        <5>1. proc[q].cwd \in Seq(Names)
          BY <2>2, ProcFields, ZenonT(40)
        <5>2. Found(fs, Root, proc[q].cwd) # None /\ fs[Found(fs, Root, proc[q].cwd)].kind = "dir"
          BY ZenonT(40) DEF CwdIsDirectory
        <5> QED BY <4>1, <5>1, <5>2, ZenonT(40)
      <4>2. CASE \E path \in Paths : sys_chdir(q, path)
        BY <4>2, ChdirFacts
      <4> QED BY <4>1, <4>2, <2>2, CwdStep, ZenonT(40)
    <3> HIDE DEF new
    <3>2. Found(fs', Root, new) = id
      BY <2>1, <2>2, <3>1, FoundStable, ZenonT(40)
    <3>3. id \in Ids
      BY <2>2, <3>1, FoundPresent, ZenonT(40)
    <3>4. fs'[id].kind = fs[id].kind
      <4> HIDE DEF id
      <4> QED BY <2>1, <3>1, <3>3, ZenonT(40) DEF Extends
    <3> QED BY <3>1, <3>2, <3>4 DEF new
  <2>4. CwdIsDirectory'
    BY <2>3 DEF CwdIsDirectory
  <2> QED BY <2>1, <2>4
<1> QED BY <1>1, <1>2, PTL DEF Spec
================================================================================
