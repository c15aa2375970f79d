---------------------------- MODULE ProcessesProofs ----------------------------
(***************************************************************************)
(* The scheduler's invariants, for every set of processes and priorities,  *)
(* when no tick arrives between arming the timer and the first switch;     *)
(* that the scheduler on its linked queues and its process tree implements *)
(* the scheduler on sequences and sets, so that they hold of it too; and   *)
(* that its queues and its tree are always soundly linked and complete.    *)
(***************************************************************************)
EXTENDS Processes, LinksProofs

(* The queues hold processes of C, each in the queue of its priority and at *)
(* most once.                                                               *)
QueuesOK(qs, C) ==
    /\ qs \in [Priorities -> Seq(C)]
    /\ \A i \in Priorities : \A p \in Range(qs[i]) : Priority[p] = i
    /\ \A i \in Priorities : \A j, k \in DOMAIN qs[i] : qs[i][j] = qs[i][k] => j = k

Within(qs, p) == p \in Range(qs[Priority[p]])

(* The inductive invariant.  Conserved is not inductive: the dead processes *)
(* in the queues must be known to continue in sys_exit and the live ones in *)
(* their own code, or a switch could leave the CPU in a boot stretch with   *)
(* processes missing from the queues.                                       *)
Contexts ==
    /\ \A p \in alive \cup (All \ created) : resume[p] = "run"
    /\ \A p \in created \ alive : Within(queues, p) => resume[p] = "exiting"

Located ==
    /\ Booting => /\ \A p \in created : p \in alive /\ Within(queues, p)
                  /\ current = Idle
                  /\ ~pending
    /\ Scheduling => /\ \A p \in alive \ {current} : Within(queues, p)
                     /\ ~Within(queues, current)
    /\ pc = "run" => current \in alive
    /\ pc = "exiting" => current \notin alive
    /\ pc = "armed" => timer = "periodic"

IInv ==
    /\ TypeOK
    /\ NoPanic
    /\ pc # "wild" => /\ QueuesOK(queues, created)
                      /\ Contexts
                      /\ Located
                      /\ HighestFirst
                      /\ TimerAlive
--------------------------------------------------------------------------------
(* Appending to a sequence without duplicates something it lacks.           *)
LEMMA AppendFacts ==
    ASSUME NEW C, NEW s \in Seq(C), NEW p \in C, p \notin Range(s),
           \A j, k \in DOMAIN s : s[j] = s[k] => j = k
    PROVE  /\ Append(s, p) \in Seq(C)
           /\ Append(s, p) # <<>>
           /\ \A q : q \in Range(Append(s, p)) <=> q \in Range(s) \/ q = p
           /\ \A j, k \in DOMAIN Append(s, p) :
                 Append(s, p)[j] = Append(s, p)[k] => j = k
<1> DEFINE t == Append(s, p)
<1>1. /\ t \in Seq(C) /\ Len(t) = Len(s) + 1 /\ Len(s) \in Nat
      /\ DOMAIN s = 1 .. Len(s) /\ DOMAIN t = 1 .. Len(s) + 1
      /\ \A j \in 1 .. Len(s) : t[j] = s[j]
      /\ t[Len(s) + 1] = p
  OBVIOUS
<1> HIDE DEF t
<1>2. \A j \in 1 .. Len(s) : s[j] # p
  BY <1>1 DEF Range
<1>3. \A q : q \in Range(t) <=> q \in Range(s) \/ q = p
  <2> TAKE q
  <2>1. ASSUME q \in Range(t) PROVE q \in Range(s) \/ q = p
    <3>1. PICK j \in DOMAIN t : q = t[j]
      BY <2>1 DEF Range
    <3>2. j = Len(s) + 1 \/ j \in 1 .. Len(s)
      BY <1>1, <3>1
    <3> QED BY <1>1, <3>1, <3>2, ZenonT(40) DEF Range
  <2>2. ASSUME q \in Range(s) PROVE q \in Range(t)
    <3>1. PICK j \in DOMAIN s : q = s[j]
      BY <2>2 DEF Range
    <3>2. j \in DOMAIN t /\ t[j] = q
      BY <1>1, <3>1
    <3> QED BY <3>2 DEF Range
  <2>3. p \in Range(t)
    <3>1. Len(s) + 1 \in DOMAIN t
      BY <1>1
    <3> QED BY <1>1, <3>1 DEF Range
  <2> QED BY <2>1, <2>2, <2>3, ZenonT(40)
<1>4. ASSUME NEW j \in DOMAIN t, NEW k \in DOMAIN t, t[j] = t[k] PROVE j = k
  <2>1. (j = Len(s) + 1 \/ j \in 1 .. Len(s)) /\ (k = Len(s) + 1 \/ k \in 1 .. Len(s))
    BY <1>1, <1>4
  <2> QED BY <1>1, <1>2, <1>4, <2>1, ZenonT(40)
<1>5. t # <<>>
  BY <1>1
<1> QED BY <1>1, <1>3, <1>4, <1>5, ZenonT(40) DEF t

(* Taking the first element of a sequence without duplicates.               *)
LEMMA TailFacts ==
    ASSUME NEW C, NEW s \in Seq(C), s # <<>>,
           \A j, k \in DOMAIN s : s[j] = s[k] => j = k
    PROVE  /\ Tail(s) \in Seq(C)
           /\ Head(s) \in Range(s)
           /\ \A q : q \in Range(Tail(s)) <=> q \in Range(s) /\ q # Head(s)
           /\ \A j, k \in DOMAIN Tail(s) : Tail(s)[j] = Tail(s)[k] => j = k
<1> DEFINE t == Tail(s)
<1>1. /\ t \in Seq(C) /\ Len(s) \in Nat /\ Len(s) >= 1 /\ Len(t) = Len(s) - 1
      /\ DOMAIN s = 1 .. Len(s) /\ DOMAIN t = 1 .. Len(s) - 1
      /\ \A j \in 1 .. Len(s) - 1 : t[j] = s[j + 1]
      /\ Head(s) = s[1]
  OBVIOUS
<1> HIDE DEF t
<1>2. Head(s) \in Range(s)
  <2>1. 1 \in DOMAIN s
    BY <1>1
  <2> QED BY <1>1, <2>1, ZenonT(40) DEF Range
<1>3. \A q : q \in Range(t) <=> q \in Range(s) /\ q # Head(s)
  <2> TAKE q
  <2>1. ASSUME q \in Range(t) PROVE q \in Range(s) /\ q # Head(s)
    <3>1. PICK j \in DOMAIN t : q = t[j]
      BY <2>1 DEF Range
    <3>2. j + 1 \in DOMAIN s /\ 1 \in DOMAIN s /\ j + 1 # 1 /\ q = s[j + 1]
      BY <1>1, <3>1
    <3> QED BY <1>1, <3>2, Zenon DEF Range
  <2>2. ASSUME q \in Range(s), q # Head(s) PROVE q \in Range(t)
    <3>1. PICK j \in DOMAIN s : q = s[j]
      BY <2>2 DEF Range
    <3>2. j # 1
      BY <1>1, <2>2, <3>1, ZenonT(40)
    <3>3. j - 1 \in DOMAIN t /\ t[j - 1] = q
      BY <1>1, <3>1, <3>2
    <3> QED BY <3>3 DEF Range
  <2> QED BY <2>1, <2>2, Zenon
<1>4. ASSUME NEW j \in DOMAIN t, NEW k \in DOMAIN t, t[j] = t[k] PROVE j = k
  <2>1. /\ j \in Int /\ k \in Int
        /\ j + 1 \in DOMAIN s /\ k + 1 \in DOMAIN s /\ s[j + 1] = s[k + 1]
    BY <1>1, <1>4
  <2>2. j + 1 = k + 1
    BY <2>1, ZenonT(40)
  <2> QED BY <2>1, <2>2
<1> QED BY <1>1, <1>2, <1>3, <1>4, ZenonT(40) DEF t
--------------------------------------------------------------------------------
(* scheduler_add keeps the queues well formed and adds just that process.   *)
LEMMA EnqueuedFacts ==
    ASSUME NEW C, C \subseteq All, NEW qs, QueuesOK(qs, C), NEW p \in C, ~Within(qs, p)
    PROVE  /\ QueuesOK(Enqueued(qs, p), C)
           /\ \A q \in All : Within(Enqueued(qs, p), q) <=> Within(qs, q) \/ q = p
           /\ Priority[p] \in Waiting(Enqueued(qs, p))
           /\ \A i \in Priorities : Enqueued(qs, p)[i] # <<>> => qs[i] # <<>> \/ i = Priority[p]
<1> DEFINE n == Priority[p]
           new == Enqueued(qs, p)
<1>1. n \in Priorities /\ p \in All
  BY SchedulerAssumption
<1>2. qs[n] \in Seq(C) /\ p \notin Range(qs[n])
  BY <1>1 DEF QueuesOK, Within
<1>3. \A j, k \in DOMAIN qs[n] : qs[n][j] = qs[n][k] => j = k
  BY <1>1 DEF QueuesOK
<1>4. /\ DOMAIN new = Priorities
      /\ new = [i \in Priorities |-> IF i = n THEN Append(qs[i], p) ELSE qs[i]]
  BY <1>1, ZenonT(40) DEF Enqueued, QueuesOK
<1>5. /\ \A i \in Priorities \ {n} : new[i] = qs[i]
      /\ new[n] = Append(qs[n], p)
  BY <1>1, <1>4, ZenonT(40)
<1>6. /\ new[n] \in Seq(C)
      /\ new[n] # <<>>
      /\ \A q : q \in Range(new[n]) <=> q \in Range(qs[n]) \/ q = p
      /\ \A j, k \in DOMAIN new[n] : new[n][j] = new[n][k] => j = k
  BY <1>2, <1>3, <1>5, AppendFacts
<1> HIDE DEF new
<1>7. \A i \in Priorities : new[i] \in Seq(C)
  BY <1>5, <1>6, ZenonT(40) DEF QueuesOK
<1>8. new \in [Priorities -> Seq(C)]
  BY <1>4, <1>7, ZenonT(40)
<1>9. ASSUME NEW i \in Priorities, NEW q \in Range(new[i]) PROVE Priority[q] = i
  BY <1>1, <1>5, <1>6, ZenonT(40) DEF QueuesOK
<1>10. ASSUME NEW i \in Priorities, NEW j \in DOMAIN new[i], NEW k \in DOMAIN new[i],
              new[i][j] = new[i][k]
       PROVE  j = k
  <2>1. CASE i = n
    BY <1>6, <1>10, <2>1, ZenonT(40)
  <2>2. CASE i # n
    <3>1. new[i] = qs[i]
      BY <1>5, <2>2, Zenon
    <3> QED BY <1>10, <3>1, ZenonT(40) DEF QueuesOK
  <2> QED BY <2>1, <2>2, ZenonT(40)
<1>11. QueuesOK(new, C)
  BY <1>8, <1>9, <1>10, ZenonT(40) DEF QueuesOK
<1>12. ASSUME NEW q \in All PROVE Within(new, q) <=> Within(qs, q) \/ q = p
  <2>1. Priority[q] \in Priorities
    BY SchedulerAssumption, Zenon
  <2>2. CASE Priority[q] = n
    BY <1>6, <2>2, ZenonT(40) DEF Within
  <2>3. CASE Priority[q] # n
    BY <1>5, <2>1, <2>3, ZenonT(40) DEF Within
  <2> QED BY <2>2, <2>3
<1>13. n \in Waiting(new)
  BY <1>1, <1>6, Zenon DEF Waiting
<1>14. \A i \in Priorities : new[i] # <<>> => qs[i] # <<>> \/ i = n
  BY <1>5, Zenon
<1> QED BY <1>11, <1>12, <1>13, <1>14, ZenonT(40) DEF new

(* What getNextProcess leaves when it takes the first process of queue n.   *)
Took(qs, n, C) ==
    /\ QueuesOK(Dequeued(qs, n), C)
    /\ Head(qs[n]) \in C
    /\ Priority[Head(qs[n])] = n
    /\ Within(qs, Head(qs[n]))
    /\ \A q \in All : Within(Dequeued(qs, n), q) <=> Within(qs, q) /\ q # Head(qs[n])
    /\ \A i \in Priorities : Dequeued(qs, n)[i] # <<>> => qs[i] # <<>>

(* getNextProcess removes just the process it returns.                      *)
LEMMA DequeuedFacts ==
    ASSUME NEW C, C \subseteq All, NEW qs, QueuesOK(qs, C), NEW n \in Waiting(qs)
    PROVE  Took(qs, n, C)
<1> DEFINE h == Head(qs[n])
           new == Dequeued(qs, n)
<1>1. n \in Priorities /\ qs[n] # <<>> /\ qs[n] \in Seq(C)
  BY DEF Waiting, QueuesOK
<1>2. \A j, k \in DOMAIN qs[n] : qs[n][j] = qs[n][k] => j = k
  BY <1>1 DEF QueuesOK
<1>3. /\ DOMAIN new = Priorities
      /\ new = [i \in Priorities |-> IF i = n THEN Tail(qs[i]) ELSE qs[i]]
  BY <1>1, Zenon DEF Dequeued, QueuesOK
<1>4. /\ \A i \in Priorities \ {n} : new[i] = qs[i]
      /\ new[n] = Tail(qs[n])
  BY <1>1, <1>3, ZenonT(40)
<1>5. /\ new[n] \in Seq(C)
      /\ h \in Range(qs[n])
      /\ \A q : q \in Range(new[n]) <=> q \in Range(qs[n]) /\ q # h
      /\ \A j, k \in DOMAIN new[n] : new[n][j] = new[n][k] => j = k
  BY <1>1, <1>2, <1>4, TailFacts
<1>6. h \in C
  BY <1>1
<1> HIDE DEF new, h
<1>7. \A i \in Priorities : new[i] \in Seq(C)
  BY <1>4, <1>5, ZenonT(40) DEF QueuesOK
<1>8. new \in [Priorities -> Seq(C)]
  BY <1>3, <1>7, ZenonT(40)
<1>9. ASSUME NEW i \in Priorities, NEW q \in Range(new[i]) PROVE Priority[q] = i
  BY <1>1, <1>4, <1>5, ZenonT(40) DEF QueuesOK
<1>10. ASSUME NEW i \in Priorities, NEW j \in DOMAIN new[i], NEW k \in DOMAIN new[i],
              new[i][j] = new[i][k]
       PROVE  j = k
  <2>1. CASE i = n
    BY <1>5, <1>10, <2>1, ZenonT(40)
  <2>2. CASE i # n
    <3>1. new[i] = qs[i]
      BY <1>4, <2>2, ZenonT(40)
    <3> QED BY <1>10, <3>1, ZenonT(40) DEF QueuesOK
  <2> QED BY <2>1, <2>2, ZenonT(40)
<1>11. QueuesOK(new, C)
  BY <1>8, <1>9, <1>10, ZenonT(40) DEF QueuesOK
<1>12. Priority[h] = n
  BY <1>1, <1>5, ZenonT(40) DEF QueuesOK
<1>13. Within(qs, h)
  BY <1>5, <1>12, ZenonT(40) DEF Within
<1>14. ASSUME NEW q \in All PROVE Within(new, q) <=> Within(qs, q) /\ q # h
  <2>1. Priority[q] \in Priorities
    BY SchedulerAssumption, Zenon
  <2>2. CASE Priority[q] = n
    BY <1>5, <2>2, ZenonT(40) DEF Within
  <2>3. CASE Priority[q] # n
    BY <1>4, <1>12, <2>1, <2>3, ZenonT(40) DEF Within
  <2> QED BY <2>2, <2>3, Zenon
<1>15. \A i \in Priorities : new[i] # <<>> => qs[i] # <<>>
  BY <1>1, <1>4, ZenonT(40)
<1> QED BY <1>6, <1>11, <1>12, <1>13, <1>14, <1>15, ZenonT(40) DEF new, h, Took

(* If a process waits, getNextProcess finds the highest queue with one.     *)
LEMMA HighestFacts ==
    ASSUME NEW qs, Waiting(qs) # {}
    PROVE  /\ Highest(qs) \in Waiting(qs)
           /\ \A j \in Waiting(qs) : j <= Highest(qs)
<1> DEFINE D == {MaxPriority - i : i \in Waiting(qs)}
<1>1. Waiting(qs) \subseteq 0 .. MaxPriority /\ MaxPriority \in Nat
  BY SchedulerAssumption DEF Waiting, Priorities
<1>2. D \subseteq Nat /\ D # {}
  BY <1>1
<1>3. PICK x \in D : \A y \in D : ~ (<<y, x>> \in OpToRel(<, Nat))
  BY <1>2, WFMin, NatLessThanWellFounded, ZenonT(40)
<1>4. \A y \in D : ~ (y < x)
  BY <1>2, <1>3, ZenonT(40) DEF OpToRel
<1>5. PICK i \in Waiting(qs) : x = MaxPriority - i
  BY <1>3, Zenon
<1>6. ASSUME NEW j \in Waiting(qs) PROVE j <= i
  <2>1. MaxPriority - j \in D
    OBVIOUS
  <2>2. ~ (MaxPriority - j < MaxPriority - i)
    BY <1>4, <1>5, <2>1, ZenonT(40)
  <2> QED BY <1>1, <1>5, <2>2
<1>7. \E k \in Waiting(qs) : \A j \in Waiting(qs) : j <= k
  BY <1>5, <1>6, ZenonT(40)
<1> QED BY <1>7 DEF Highest
--------------------------------------------------------------------------------
(* The switch to the next process, while idle or another process waits.     *)
LEMMA SwitchFacts ==
    ASSUME NEW qs, NEW rs, NEW w \in All, created \subseteq All, QueuesOK(qs, created),
           Within(qs, w), SwitchToNext(qs, rs)
    PROVE  /\ QueuesOK(queues', created)
           /\ current' \in created
           /\ Within(qs, current')
           /\ \A q \in All : Within(queues', q) <=> Within(qs, q) /\ q # current'
           /\ \A i \in Priorities : queues'[i] # <<>> => i <= Priority[current']
           /\ \/ pc' = rs[current']
              \/ pc' = "wild" /\ current' \notin alive
<1>1. Priority[w] \in Priorities /\ qs[Priority[w]] \in Seq(created)
  BY SchedulerAssumption, Zenon DEF QueuesOK
<1>2. qs[Priority[w]] # <<>>
  BY DEF Within, Range
<1>3. Waiting(qs) # {}
  BY <1>1, <1>2, ZenonT(40) DEF Waiting
<1> DEFINE n == Highest(qs)
<1>4. n \in Waiting(qs) /\ \A j \in Waiting(qs) : j <= n
  BY <1>3, HighestFacts, ZenonT(40)
<1>5. /\ queues' = Dequeued(qs, n)
      /\ current' = Head(qs[n])
      /\ pc' \in IF current' \in alive THEN {rs[current']} ELSE {rs[current'], "wild"}
  BY <1>3 DEF SwitchToNext
<1> HIDE DEF n
<1>6. /\ QueuesOK(queues', created)
      /\ current' \in created
      /\ Priority[current'] = n
      /\ Within(qs, current')
      /\ \A q \in All : Within(queues', q) <=> Within(qs, q) /\ q # current'
      /\ \A i \in Priorities : queues'[i] # <<>> => qs[i] # <<>>
  <2>1. Took(qs, n, created)
    BY <1>4, DequeuedFacts, ZenonT(40)
  <2> QED BY <1>5, <2>1, ZenonT(40) DEF Took
<1>7. \A i \in Priorities : queues'[i] # <<>> => i <= Priority[current']
  BY <1>4, <1>6, ZenonT(40) DEF Waiting
<1>8. pc' = rs[current'] \/ (pc' = "wild" /\ current' \notin alive)
  BY <1>5, Zenon
<1> QED BY <1>6, <1>7, <1>8, ZenonT(40)

(* Initially only idle exists, current and queued.                          *)
LEMMA InitIInv == Init => IInv
<1> SUFFICES ASSUME Init PROVE IInv
  OBVIOUS
<1> DEFINE empty == [i \in Priorities |-> <<>>]
<1>1. created \subseteq All /\ Idle \in All /\ created = {Idle}
  BY DEF Init, All
<1>2. empty \in [Priorities -> Seq(created)]
  <2>1. <<>> \in Seq(created)
    OBVIOUS
  <2> QED BY <2>1, Zenon
<1>3. \A i \in Priorities : empty[i] = <<>>
  OBVIOUS
<1>4. Priority[Idle] \in Priorities
  BY <1>1, SchedulerAssumption, ZenonT(40)
<1> HIDE DEF empty
<1>5. QueuesOK(empty, created) /\ ~Within(empty, Idle)
  BY <1>2, <1>3, <1>4 DEF QueuesOK, Within, Range
<1>6. queues = Enqueued(empty, Idle)
  BY DEF Init, empty
<1>7. QueuesOK(queues, created) /\ Within(queues, Idle)
  BY <1>1, <1>5, <1>6, EnqueuedFacts, ZenonT(40)
<1>8. TypeOK
  BY <1>1, <1>7, ZenonT(40) DEF Init, TypeOK, QueuesOK
<1>9. Contexts /\ Located
  BY <1>1, <1>7, ZenonT(40) DEF Init, Contexts, Located, Booting, Scheduling
<1> QED BY <1>7, <1>8, <1>9, ZenonT(40) DEF Init, IInv, NoPanic, HighestFirst, TimerAlive

(* Every step preserves the invariant.                                      *)
LEMMA StepIInv ==
    ASSUME "armed" \notin Windows
    PROVE  IInv /\ [Next]_vars => IInv'
<1> SUFFICES ASSUME IInv, [Next]_vars PROVE IInv'
  OBVIOUS
<1>1. /\ current \in created /\ created \subseteq All /\ alive \subseteq created
      /\ Idle \in alive /\ Idle \in All
  BY DEF IInv, TypeOK, All
<1>2. ASSUME NEW p \in Procs, process_create(p) PROVE IInv'
  <2>1. pc = "boot" /\ pc' = "boot" /\ p \in All /\ p \notin created
    BY <1>2 DEF process_create, All
  <2>2. QueuesOK(queues, created) /\ Contexts /\ Located
    BY <2>1, ZenonT(40) DEF IInv
  <2>3. created' = created \cup {p} /\ created' \subseteq All /\ alive' = alive \cup {p}
    BY <1>1, <1>2, <2>1, ZenonT(40) DEF process_create
  <2>4. Priority[p] \in Priorities /\ Range(queues[Priority[p]]) \subseteq created
    BY <2>1, <2>2, SchedulerAssumption DEF QueuesOK, Range
  <2>5. ~Within(queues, p)
    BY <2>1, <2>4, ZenonT(40) DEF Within
  <2>6. QueuesOK(queues, created')
    <3>1. \A i \in Priorities : queues[i] \in Seq(created')
      BY <2>2, <2>3 DEF QueuesOK
    <3>2. queues \in [Priorities -> Seq(created')]
      BY <2>2, <3>1, ZenonT(40) DEF QueuesOK
    <3> QED BY <2>2, <3>2, ZenonT(40) DEF QueuesOK
  <2>7. /\ QueuesOK(queues', created')
        /\ \A q \in All : Within(queues', q) <=> Within(queues, q) \/ q = p
    BY <1>2, <2>3, <2>5, <2>6, EnqueuedFacts, ZenonT(40) DEF process_create
  <2>8. TypeOK'
    BY <1>1, <1>2, <2>3, <2>7, ZenonT(40) DEF IInv, TypeOK, process_create, QueuesOK
  <2>9. Contexts'
    BY <1>2, <2>1, <2>2, <2>3, <2>7, ZenonT(40) DEF Contexts, Located, Booting, process_create
  <2>10. Located'
    BY <1>1, <1>2, <2>1, <2>2, <2>3, <2>7, SMTT(30) DEF Located, Booting, Scheduling, process_create
  <2> QED BY <2>1, <2>7, <2>8, <2>9, <2>10, ZenonT(40) DEF IInv, NoPanic, HighestFirst, TimerAlive
<1>3. CASE lapic_timer_periodic
  <2>1. pc = "boot" /\ pc' = "armed" /\ timer' = "periodic"
        /\ UNCHANGED <<current, queues, created, alive, resume, pending>>
    BY <1>3, Zenon DEF lapic_timer_periodic
  <2>2. QueuesOK(queues, created) /\ Contexts /\ Located /\ TypeOK
    BY <2>1, ZenonT(40) DEF IInv
  <2>3. TypeOK'
    BY <2>1, <2>2, ZenonT(40) DEF TypeOK
  <2>4. Contexts' /\ Located' /\ QueuesOK(queues', created')
    BY <2>1, <2>2, ZenonT(40) DEF Contexts, Located, Booting, Scheduling
  <2> QED BY <2>1, <2>3, <2>4, ZenonT(40) DEF IInv, NoPanic, HighestFirst, TimerAlive
<1>4. CASE yield
  <2>1. pc \in {"armed", "exiting"} /\ SwitchToNext(queues, resume)
        /\ UNCHANGED <<created, alive, resume, timer, pending>>
    BY <1>4, Zenon DEF yield
  <2>2. QueuesOK(queues, created) /\ Contexts /\ Located /\ TypeOK /\ TimerAlive
    BY <2>1, Zenon DEF IInv
  <2>3. Within(queues, Idle)
    BY <1>1, <2>1, <2>2, ZenonT(40) DEF Located, Booting, Scheduling
  <2>4. /\ QueuesOK(queues', created)
        /\ current' \in created
        /\ Within(queues, current')
        /\ \A q \in All : Within(queues', q) <=> Within(queues, q) /\ q # current'
        /\ \A i \in Priorities : queues'[i] # <<>> => i <= Priority[current']
        /\ \/ pc' = resume[current']
           \/ pc' = "wild" /\ current' \notin alive
    BY <1>1, <2>1, <2>2, <2>3, SwitchFacts, ZenonT(40)
  <2>5. /\ current' \in alive => pc' = "run"
        /\ current' \notin alive => pc' \in {"exiting", "wild"}
    BY <2>2, <2>4, ZenonT(40) DEF Contexts
  <2>6. \A p \in alive \ {current'} : Within(queues, p)
    BY <1>1, <2>1, <2>2, ZenonT(40) DEF Located, Booting, Scheduling
  <2>7. TypeOK'
    BY <2>1, <2>2, <2>4, <2>5, ZenonT(40) DEF TypeOK, QueuesOK
  <2>8. Contexts'
    BY <1>1, <2>1, <2>2, <2>4, ZenonT(40) DEF Contexts
  <2>9. Located'
    BY <1>1, <2>1, <2>4, <2>5, <2>6, ZenonT(40) DEF Located, Booting, Scheduling
  <2>10. TimerAlive'
    BY <2>1, <2>2, ZenonT(40) DEF TimerAlive, Located
  <2> QED BY <2>1, <2>4, <2>5, <2>7, <2>8, <2>9, <2>10, ZenonT(40) DEF IInv, NoPanic, HighestFirst
<1>5. CASE Expire
  <2>1. /\ pc \in {"run", "exiting"} /\ pc' = pc
        /\ pending' = TRUE
        /\ timer' \in {"periodic", "oneshot", "spent"}
        /\ UNCHANGED <<current, queues, created, alive, resume>>
    BY <1>5, SchedulerAssumption, ZenonT(40) DEF Expire, Interruptible
  <2>2. QueuesOK(queues, created) /\ Contexts /\ Located /\ TypeOK /\ HighestFirst
    BY <2>1, ZenonT(40) DEF IInv
  <2>3. TypeOK'
    BY <2>1, <2>2, ZenonT(40) DEF TypeOK
  <2>4. Contexts' /\ QueuesOK(queues', created') /\ HighestFirst'
    BY <2>1, <2>2, ZenonT(40) DEF Contexts, HighestFirst
  <2>5. Located'
    BY <2>1, <2>2, ZenonT(40) DEF Located, Booting, Scheduling
  <2> QED BY <2>1, <2>3, <2>4, <2>5, ZenonT(40) DEF IInv, NoPanic, TimerAlive
<1>6. CASE interruptHandler
  <2> DEFINE qs == Enqueued(queues, current)
  <2>1. /\ pc \in {"run", "exiting"}
        /\ pending' = FALSE /\ timer' = "oneshot"
        /\ resume' = [resume EXCEPT ![current] = pc]
        /\ UNCHANGED <<created, alive>>
    BY <1>6, SchedulerAssumption, ZenonT(40) DEF interruptHandler, Interruptible, Rearmed
  <2>2. QueuesOK(queues, created) /\ Contexts /\ Located /\ TypeOK
    BY <2>1, Zenon DEF IInv
  <2>3. /\ resume' \in [All -> {"run", "armed", "exiting"}]
        /\ resume'[current] = pc
        /\ \A p \in All \ {current} : resume'[p] = resume[p]
    BY <1>1, <2>1, <2>2, ZenonT(40) DEF TypeOK
  <2>4. CASE current \notin alive /\ pc' = "wild" /\ UNCHANGED <<current, queues>>
    <3>1. TypeOK'
      BY <2>1, <2>2, <2>3, <2>4, ZenonT(40) DEF TypeOK
    <3> QED BY <2>4, <3>1, ZenonT(40) DEF IInv, NoPanic
  <2>5. CASE SwitchToNext(qs, resume')
    <3>1. ~Within(queues, current) /\ \A p \in alive \ {current} : Within(queues, p)
      BY <2>1, <2>2, ZenonT(40) DEF Located, Scheduling
    <3>2. /\ QueuesOK(qs, created)
          /\ \A q \in All : Within(qs, q) <=> Within(queues, q) \/ q = current
      BY <1>1, <2>2, <3>1, EnqueuedFacts, ZenonT(40)
    <3> HIDE DEF qs
    <3>3. Within(qs, Idle) /\ \A p \in alive : Within(qs, p)
      BY <1>1, <3>1, <3>2, ZenonT(40)
    <3>4. /\ QueuesOK(queues', created)
          /\ current' \in created
          /\ Within(qs, current')
          /\ \A q \in All : Within(queues', q) <=> Within(qs, q) /\ q # current'
          /\ \A i \in Priorities : queues'[i] # <<>> => i <= Priority[current']
          /\ \/ pc' = resume'[current']
             \/ pc' = "wild" /\ current' \notin alive
      BY <1>1, <2>5, <3>2, <3>3, SwitchFacts, ZenonT(40)
    <3>5. \A p \in alive \cup (All \ created) : resume'[p] = "run"
      BY <1>1, <2>1, <2>2, <2>3, ZenonT(40) DEF Contexts, Located
    <3>6. \A p \in created \ alive : Within(qs, p) => resume'[p] = "exiting"
      BY <1>1, <2>1, <2>2, <2>3, <3>2, SMTT(30) DEF Contexts, Located
    <3>7. /\ current' \in alive => pc' = "run"
          /\ current' \notin alive => pc' \in {"exiting", "wild"}
      BY <3>4, <3>5, <3>6, ZenonT(40)
    <3>8. TypeOK'
      BY <2>1, <2>2, <2>3, <3>4, <3>7, ZenonT(40) DEF TypeOK, QueuesOK
    <3>9. Contexts'
      BY <1>1, <2>1, <3>4, <3>5, <3>6, ZenonT(40) DEF Contexts
    <3>10. Located'
      BY <1>1, <2>1, <3>3, <3>4, <3>7, ZenonT(40) DEF Located, Booting, Scheduling
    <3> QED BY <2>1, <3>4, <3>7, <3>8, <3>9, <3>10, ZenonT(40) DEF IInv, NoPanic, HighestFirst, TimerAlive
  <2> QED BY <1>6, <2>4, <2>5, ZenonT(40) DEF interruptHandler
<1>7. CASE sys_exit
  <2>1. /\ pc = "run" /\ pc' = "exiting" /\ current # Idle
        /\ alive' = alive \ {current}
        /\ UNCHANGED <<current, queues, created, resume, timer, pending>>
    BY <1>7, ZenonT(40) DEF sys_exit, MayExit
  <2>2. QueuesOK(queues, created) /\ Contexts /\ Located /\ TypeOK /\ TimerAlive
    BY <2>1, Zenon DEF IInv
  <2>3. TypeOK'
    BY <2>1, <2>2, ZenonT(40) DEF TypeOK
  <2>4. Contexts'
    BY <1>1, <2>1, <2>2, ZenonT(40) DEF Contexts, Located, Scheduling
  <2>5. Located'
    BY <2>1, <2>2, ZenonT(40) DEF Located, Booting, Scheduling
  <2>6. TimerAlive' /\ QueuesOK(queues', created')
    BY <2>1, <2>2, ZenonT(40) DEF TimerAlive
  <2> QED BY <2>1, <2>3, <2>4, <2>5, <2>6, ZenonT(40) DEF IInv, NoPanic, HighestFirst
<1>8. CASE UNCHANGED vars
  BY <1>8 DEF vars, IInv, TypeOK, NoPanic, QueuesOK, Contexts, Within, Located,
              Booting, Scheduling, HighestFirst, TimerAlive
<1> QED BY <1>2, <1>3, <1>4, <1>5, <1>6, <1>7, <1>8, ZenonT(40) DEF Next

(* What the invariant says of the properties.                               *)
LEMMA IInvImplies ==
    IInv => TypeOK /\ Conserved /\ HighestFirst /\ TimerAlive /\ NoPanic
<1> SUFFICES ASSUME IInv PROVE TypeOK /\ Conserved /\ HighestFirst /\ TimerAlive /\ NoPanic
  OBVIOUS
<1>1. CASE pc = "wild"
  BY <1>1, ZenonT(40) DEF IInv, Conserved, Booting, Scheduling, HighestFirst, TimerAlive
<1>2. CASE pc # "wild"
  <2>1. QueuesOK(queues, created) /\ Located /\ TypeOK /\ alive \subseteq created
    BY <1>2, ZenonT(40) DEF IInv, TypeOK
  <2>2. Conserved
    BY <2>1 DEF Conserved, QueuesOK, Located, Within, IsWaiting
  <2> QED BY <1>2, <2>2, ZenonT(40) DEF IInv
<1> QED BY <1>1, <1>2, Zenon
--------------------------------------------------------------------------------
(* For every set of processes and assignment of priorities, and even if     *)
(* ticks arrive between the STI and the switch of sys_exit: the scheduler   *)
(* neither loses nor duplicates a process, always runs the highest priority *)
(* that waits, keeps its timer armed, and never runs out of processes, so   *)
(* that getNextProcess does not panic.                                      *)
THEOREM SchedulerSafe ==
    ASSUME "armed" \notin Windows
    PROVE  Spec => [](TypeOK /\ Conserved /\ HighestFirst /\ TimerAlive /\ NoPanic)
<1>1. Init => IInv
  BY InitIInv
<1>2. IInv /\ [Next]_vars => IInv'
  BY StepIInv
<1>3. IInv => TypeOK /\ Conserved /\ HighestFirst /\ TimerAlive /\ NoPanic
  BY IInvImplies
<1> QED BY <1>1, <1>2, <1>3, PTL DEF Spec

(* No process is lost or scheduled twice.                                   *)
THEOREM NoneLost ==
    ASSUME "armed" \notin Windows
    PROVE  Spec => []Conserved
<1>1. Spec => [](TypeOK /\ Conserved /\ HighestFirst /\ TimerAlive /\ NoPanic)
  BY SchedulerSafe
<1> QED BY <1>1, PTL

(* A process never runs while one of higher priority waits.                 *)
THEOREM StrictPriorities ==
    ASSUME "armed" \notin Windows
    PROVE  Spec => []HighestFirst
<1>1. Spec => [](TypeOK /\ Conserved /\ HighestFirst /\ TimerAlive /\ NoPanic)
  BY SchedulerSafe
<1> QED BY <1>1, PTL

(* Preemption is never lost: the timer counts or its interrupt is pending.  *)
THEOREM PreemptionKept ==
    ASSUME "armed" \notin Windows
    PROVE  Spec => []TimerAlive
<1>1. Spec => [](TypeOK /\ Conserved /\ HighestFirst /\ TimerAlive /\ NoPanic)
  BY SchedulerSafe
<1> QED BY <1>1, PTL

(* getNextProcess always finds a process.                                   *)
THEOREM AlwaysAProcess ==
    ASSUME "armed" \notin Windows
    PROVE  Spec => []NoPanic
<1>1. Spec => [](TypeOK /\ Conserved /\ HighestFirst /\ TimerAlive /\ NoPanic)
  BY SchedulerSafe
<1> QED BY <1>1, PTL
--------------------------------------------------------------------------------
(* qs has what the queues have, in the same places, and perhaps more.       *)
Longer(qs) ==
    /\ qs \in [Priorities -> Seq(All)]
    /\ \A i \in Priorities : \A k \in DOMAIN queues[i] :
          k \in DOMAIN qs[i] /\ qs[i][k] = queues[i][k]

(* What KeepsPlace says of one step.                                        *)
Place(i, k) ==
    \/ k = 1 /\ current' = queues[i][1]
    \/ k \in DOMAIN queues'[i] /\ queues'[i][k] = queues[i][k]
    \/ k - 1 \in DOMAIN queues'[i] /\ queues'[i][k - 1] = queues[i][k]

LEMMA LongerSame ==
    ASSUME TypeOK
    PROVE  Longer(queues)
<1>1. queues \in [Priorities -> Seq(All)]
  <2>1. queues \in [Priorities -> Seq(created)] /\ created \subseteq All
    BY DEF TypeOK
  <2>2. \A i \in Priorities : queues[i] \in Seq(All)
    <3> TAKE i \in Priorities
    <3>1. queues[i] \in Seq(created)
      BY <2>1, Zenon
    <3> QED BY <2>1, <3>1
  <2> QED BY <2>1, <2>2, ZenonT(40)
<1> QED BY <1>1, Zenon DEF Longer

LEMMA LongerEnqueued ==
    ASSUME TypeOK, NEW p \in All
    PROVE  Longer(Enqueued(queues, p))
<1> DEFINE n == Priority[p]  qs == Enqueued(queues, p)
<1>1. n \in Priorities
  BY SchedulerAssumption
<1>2. queues \in [Priorities -> Seq(All)]
  BY LongerSame, Zenon DEF Longer
<1>3. /\ qs[n] = Append(queues[n], p)
      /\ \A i \in Priorities \ {n} : qs[i] = queues[i]
      /\ DOMAIN qs = Priorities
  BY <1>1, <1>2, ZenonT(40) DEF Enqueued
<1>4. qs = [i \in Priorities |-> qs[i]]
  BY <1>2, ZenonT(40) DEF Enqueued
<1> HIDE DEF qs, n
<1>5. /\ Append(queues[n], p) \in Seq(All)
      /\ \A k \in DOMAIN queues[n] : k \in DOMAIN Append(queues[n], p)
                                     /\ Append(queues[n], p)[k] = queues[n][k]
  <2>1. queues[n] \in Seq(All)
    BY <1>1, <1>2, ZenonT(40)
  <2> QED BY <2>1
<1>6. \A i \in Priorities : qs[i] \in Seq(All)
  BY <1>1, <1>2, <1>3, <1>5, ZenonT(40)
<1>7. qs \in [Priorities -> Seq(All)]
  BY <1>4, <1>6, ZenonT(40)
<1> QED BY <1>3, <1>5, <1>7, ZenonT(40) DEF Longer, qs

(* Taking the first of one queue moves only those behind it.                *)
LEMMA PlaceSwitch ==
    ASSUME NEW qs, NEW rs, Longer(qs), SwitchToNext(qs, rs),
           queues \in [Priorities -> Seq(All)],
           NEW i \in Priorities, NEW k \in DOMAIN queues[i]
    PROVE  Place(i, k)
<1>1. /\ qs \in [Priorities -> Seq(All)]
      /\ k \in DOMAIN qs[i] /\ qs[i][k] = queues[i][k]
  BY DEF Longer
<1>2. k \in Nat \ {0} /\ qs[i] \in Seq(All) /\ k \in 1 .. Len(qs[i])
  BY <1>1
<1>3. i \in Waiting(qs)
  BY <1>2 DEF Waiting
<1> DEFINE n == Highest(qs)
<1>4. n \in Waiting(qs)
  BY <1>3, HighestFacts, ZenonT(40)
<1>5. queues' = Dequeued(qs, n) /\ current' = Head(qs[n])
  BY <1>3, ZenonT(40) DEF SwitchToNext
<1> HIDE DEF n
<1>6. CASE i # n
  <2>1. queues'[i] = qs[i]
    BY <1>1, <1>5, <1>6, ZenonT(40) DEF Dequeued
  <2> QED BY <1>1, <2>1, ZenonT(40) DEF Place
<1>7. CASE i = n
  <2>1. queues'[i] = Tail(qs[i]) /\ current' = Head(qs[i])
    BY <1>1, <1>5, <1>7, ZenonT(40) DEF Dequeued
  <2>2. CASE k = 1
    BY <1>1, <1>2, <2>1, <2>2 DEF Place
  <2>3. CASE k # 1
    <3>1. k - 1 \in DOMAIN Tail(qs[i]) /\ Tail(qs[i])[k - 1] = qs[i][k]
      BY <1>2, <2>3
    <3> QED BY <1>1, <2>1, <3>1, ZenonT(40) DEF Place
  <2> QED BY <2>2, <2>3, ZenonT(40)
<1> QED BY <1>6, <1>7, ZenonT(40)

(* First in, first out: a process in a queue is never overtaken.            *)
THEOREM NeverOvertaken ==
    ASSUME "armed" \notin Windows
    PROVE  Spec => KeepsPlace
<1>1. Spec => [](TypeOK /\ Conserved /\ HighestFirst /\ TimerAlive /\ NoPanic)
  BY SchedulerSafe
<1>2. ASSUME TypeOK, [Next]_vars, NEW i \in Priorities, NEW k \in DOMAIN queues[i]
      PROVE  Place(i, k)
  <2>1. Longer(queues) /\ queues \in [Priorities -> Seq(All)]
    BY <1>2, LongerSame, ZenonT(40) DEF Longer
  <2>2. CASE UNCHANGED queues
    BY <2>2, Zenon DEF Place
  <2>3. ASSUME NEW p \in Procs, process_create(p) PROVE Place(i, k)
    <3>1. queues' = Enqueued(queues, p) /\ p \in All
      BY <2>3 DEF process_create, All
    <3> QED BY <1>2, <3>1, LongerEnqueued, ZenonT(40) DEF Longer, Place
  <2>4. CASE yield
    BY <2>1, <2>4, PlaceSwitch, ZenonT(40) DEF yield
  <2>5. CASE interruptHandler
    <3>1. current \in All
      BY <1>2 DEF TypeOK
    <3>2. Longer(Enqueued(queues, current))
      BY <1>2, <3>1, LongerEnqueued, ZenonT(40)
    <3>3. SwitchToNext(Enqueued(queues, current), resume') \/ UNCHANGED queues
      BY <2>5 DEF interruptHandler
    <3> QED BY <2>1, <2>2, <3>2, <3>3, PlaceSwitch, ZenonT(40)
  <2> QED BY <1>2, <2>2, <2>3, <2>4, <2>5, ZenonT(40)
          DEF Next, vars, lapic_timer_periodic, Expire, sys_exit
<1>3. TypeOK /\ [Next]_vars =>
        [\A i \in Priorities : \A k \in DOMAIN queues[i] :
           \/ k = 1 /\ current' = queues[i][1]
           \/ k \in DOMAIN queues'[i] /\ queues'[i][k] = queues[i][k]
           \/ k - 1 \in DOMAIN queues'[i] /\ queues'[i][k - 1] = queues[i][k]]_vars
  BY <1>2, ZenonT(40) DEF Place
<1> QED BY <1>1, <1>3, PTL DEF Spec, KeepsPlace
--------------------------------------------------------------------------------
(* A step on the pointers is a step of Scheduler, or leaves it alone.       *)
LEMMA StepImplements == [PNext]_pvars => [Next]_vars
<1> SUFFICES ASSUME [PNext]_pvars PROVE [Next]_vars
  OBVIOUS
<1>1. CASE \E p \in Procs : Creates(p)
  BY <1>1, ZenonT(40) DEF Creates, Next
<1>2. CASE Arms \/ Yields \/ Expires \/ Ticks \/ Exits
  BY <1>2, ZenonT(40) DEF Arms, Yields, Expires, Ticks, Exits, Next
<1>3. CASE UNCHANGED pvars
  BY <1>3 DEF pvars
<1> QED BY <1>1, <1>2, <1>3, ZenonT(40) DEF PNext

(* Every behaviour on the pointers is one of Scheduler.                     *)
THEOREM ProcessesImplement == PSpec => Spec
<1>1. PInit => Init
  BY DEF PInit
<1>2. [PNext]_pvars => [Next]_vars
  BY StepImplements
<1> QED BY <1>1, <1>2, PTL DEF PSpec, Spec

(* So no process is lost, overtaken or scheduled twice, priorities are      *)
(* strict, the timer stays alive and a process is always found there too.   *)
THEOREM ProcessesSafe ==
    ASSUME "armed" \notin Windows
    PROVE  PSpec => [](Conserved /\ HighestFirst /\ TimerAlive /\ NoPanic) /\ KeepsPlace
<1>1. PSpec => Spec
  BY ProcessesImplement, ZenonT(40)
<1>2. Spec => [](TypeOK /\ Conserved /\ HighestFirst /\ TimerAlive /\ NoPanic)
  BY SchedulerSafe
<1>3. Spec => KeepsPlace
  BY NeverOvertaken, ZenonT(40)
<1> QED BY <1>1, <1>2, <1>3, PTL
--------------------------------------------------------------------------------
(* The scheduler's steps on the linked queues.                              *)

(* kmalloc finds a block: every node in use holds another process, none of  *)
(* them the one that is to be queued.                                       *)
LEMMA FreeBlock ==
    ASSUME NEW m, NEW c, NEW qs, NEW C, C \subseteq All, Holds(m, c, qs), QueuesOK(qs, C),
           NEW p \in All, ~Within(qs, p)
    PROVE  m.heap # QueueNodes
<1> SUFFICES ASSUME m.heap = QueueNodes PROVE FALSE
  BY Zenon
<1> DEFINE f == [n \in QueueNodes |-> m.data[n]]
<1>1. ASSUME NEW n \in QueueNodes
      PROVE  \E i \in Priorities : \E k \in 1 .. Len(c[i]) :
                n = c[i][k] /\ k \in DOMAIN qs[i] /\ m.data[n] = qs[i][k] /\ qs[i][k] \in Range(qs[i])
  <2>1. PICK i \in Priorities : \E k \in 1 .. Len(c[i]) : n = c[i][k]
    BY ZenonT(40) DEF Holds, Owned
  <2>2. PICK k \in 1 .. Len(c[i]) : n = c[i][k]
    BY <2>1, ZenonT(40)
  <2>3. OneHolds(m, i, c[i], qs[i])
    BY ZenonT(40) DEF Holds
  <2>4. m.data[n] = qs[i][k] /\ k \in DOMAIN qs[i]
    BY <2>2, <2>3 DEF OneHolds
  <2> QED BY <2>2, <2>4, ZenonT(40) DEF Range
<1>2. \A i \in Priorities : \A q \in Range(qs[i]) : Priority[q] = i /\ q \in All
  <2>1. ASSUME NEW i \in Priorities, NEW q \in Range(qs[i]) PROVE q \in All
    <3>1. qs[i] \in Seq(C)
      BY Zenon DEF QueuesOK
    <3> QED BY <3>1 DEF Range
  <2> QED BY <2>1, ZenonT(40) DEF QueuesOK
<1>3. \A n \in QueueNodes : f[n] \in All \ {p}
  <2>1. SUFFICES ASSUME NEW n \in QueueNodes PROVE m.data[n] \in All \ {p}
    BY Zenon
  <2>2. PICK i \in Priorities : m.data[n] \in Range(qs[i])
    BY <1>1, Zenon
  <2>3. m.data[n] # p
    BY <2>2, <1>2, ZenonT(40) DEF Within
  <2> QED BY <2>2, <2>3, <1>2, ZenonT(40)
<1>4. \A n1, n2 \in QueueNodes : f[n1] = f[n2] => n1 = n2
  <2>1. SUFFICES ASSUME NEW n1 \in QueueNodes, NEW n2 \in QueueNodes, m.data[n1] = m.data[n2]
                 PROVE  n1 = n2
    BY Zenon
  <2>2. PICK i \in Priorities : \E k \in 1 .. Len(c[i]) :
          n1 = c[i][k] /\ k \in DOMAIN qs[i] /\ m.data[n1] = qs[i][k] /\ qs[i][k] \in Range(qs[i])
    BY <1>1, ZenonT(40)
  <2>3. PICK j \in Priorities : \E l \in 1 .. Len(c[j]) :
          n2 = c[j][l] /\ l \in DOMAIN qs[j] /\ m.data[n2] = qs[j][l] /\ qs[j][l] \in Range(qs[j])
    BY <1>1
  <2>4. i = j
    BY <2>1, <2>2, <2>3, <1>2, ZenonT(40)
  <2> QED BY <2>1, <2>2, <2>3, <2>4 DEF QueuesOK
<1>5. f \in Injection(QueueNodes, All \ {p})
  <2> HIDE DEF f
  <2>1. f = [n \in QueueNodes |-> f[n]]
    BY DEF f
  <2>2. f \in [QueueNodes -> All \ {p}]
    BY <2>1, <1>3, ZenonT(40)
  <2> QED BY <2>2, <1>4, ZenonT(40) DEF Injection, IsInjective
<1>6. /\ IsFiniteSet(All \ {p}) /\ Cardinality(All \ {p}) = Cardinality(All) - 1
      /\ Cardinality(All) \in Nat
  BY HeapAssumption, FS_RemoveElement, FS_CardinalityType, ZenonT(40)
<1>7. Cardinality(QueueNodes) <= Cardinality(All \ {p}) /\ Cardinality(QueueNodes) \in Nat
  <2> HIDE DEF f
  <2> QED BY <1>5, <1>6, FS_Injection, HeapAssumption, FS_CardinalityType, ZenonT(40)
<1> QED BY <1>6, <1>7, HeapAssumption

(* scheduler_add                                                            *)
LEMMA AddHolds ==
    ASSUME NEW m, NEW c, NEW qs, NEW C, C \subseteq All, Holds(m, c, qs), QueuesOK(qs, C),
           NEW p \in All, ~Within(qs, p)
    PROVE  \E c2 : Holds(scheduler_add(m, p), c2, Enqueued(qs, p))
<1>1. m.heap # QueueNodes
  BY FreeBlock, ZenonT(40)
<1>2. qs \in [Priorities -> Seq(All)]
  <2>1. qs \in [Priorities -> Seq(C)]
    BY Zenon DEF QueuesOK
  <2>2. \A i \in Priorities : qs[i] \in Seq(All)
    BY DEF Holds, OneHolds
  <2> QED BY <2>1, <2>2, ZenonT(40)
<1>3. Priority[p] \in Priorities
  BY SchedulerAssumption
<1> QED BY <1>1, <1>2, <1>3, EnqueueHolds, ZenonT(40) DEF scheduler_add, Enqueued

(* getNextProcess takes from the queue Scheduler takes from.                *)
LEMMA NextHolds ==
    ASSUME NEW m, NEW c, NEW qs, qs \in [Priorities -> Seq(All)], Holds(m, c, qs)
    PROVE  /\ Waiting(qs) = {} => getNextProcess(m) = m
           /\ Waiting(qs) # {} => \E c2 : Holds(getNextProcess(m), c2, Dequeued(qs, Highest(qs)))
<1>1. Counted(m) = Waiting(qs)
  <2>1. ASSUME NEW i \in Priorities PROVE m.count[i] > 0 <=> qs[i] # <<>>
    <3>1. OneHolds(m, i, c[i], qs[i])
      BY Zenon DEF Holds
    <3>2. m.count[i] = Len(qs[i]) /\ qs[i] \in Seq(All)
      BY <3>1, ZenonT(40) DEF OneHolds
    <3> QED BY <3>2
  <2> QED BY <2>1, ZenonT(40) DEF Counted, Waiting
<1>2. ASSUME Waiting(qs) # {}
      PROVE  \E c2 : Holds(getNextProcess(m), c2, Dequeued(qs, Highest(qs)))
  <2> DEFINE i == Highest(qs)
  <2>1. getNextProcess(m) = Q!queue_deqeueue(m, i)
    BY <1>1, <1>2, ZenonT(40) DEF getNextProcess, Highest
  <2>2. i \in Priorities /\ qs[i] # <<>>
    BY <1>2, HighestFacts, ZenonT(40) DEF Waiting
  <2>3. Dequeued(qs, i) = [qs EXCEPT ![i] = Tail(@)]
    BY DEF Dequeued
  <2> HIDE DEF i
  <2>4. \E c2 : Holds(Q!queue_deqeueue(m, i), c2, [qs EXCEPT ![i] = Tail(@)])
    BY <2>2, DequeueHolds, ZenonT(40)
  <2> QED BY <2>1, <2>3, <2>4, ZenonT(40) DEF i
<1> QED BY <1>1, <1>2, ZenonT(40) DEF getNextProcess

(* The inductive invariant of the links, next to that of Scheduler.         *)
LInv == pc # "wild" => \E c : Holds(links, c, queues)

LEMMA InitLInv == PInit => LInv
<1> SUFFICES ASSUME PInit PROVE \E c : Holds(links, c, queues)
  BY DEF LInv
<1> DEFINE none == [i \in Priorities |-> <<>>]
<1>1. none \in [Priorities -> Seq(QueueNodes)] /\ none \in [Priorities -> Seq(All)]
  OBVIOUS
<1>2. Q!Created \in Memory /\ Q!Created.heap = {}
  BY DEF Q!Created, Memory
<1>3. ASSUME NEW i \in Priorities PROVE OneHolds(Q!Created, i, none[i], none[i])
  <2>1. none[i] = <<>> /\ Len(<<>>) = 0
    BY Zenon
  <2>2. Q!Created.front[i] = NULL /\ Q!Created.rear[i] = NULL /\ Q!Created.count[i] = 0
    BY ZenonT(40) DEF Q!Created
  <2> QED BY <2>1, <2>2, <1>1 DEF OneHolds, Threaded
<1>4. Holds(Q!Created, none, none)
  <2>1. Apart(none)
    BY DEF Apart
  <2>2. Owned(Q!Created, none)
    BY <1>2, Zenon DEF Owned
  <2> HIDE DEF none
  <2> QED BY <1>1, <1>2, <1>3, <2>1, <2>2, ZenonT(40) DEF Holds
<1>5. Idle \in All /\ QueuesOK(none, {Idle}) /\ ~Within(none, Idle) /\ {Idle} \subseteq All
  <2>1. Idle \in All /\ Priority[Idle] \in Priorities
    BY SchedulerAssumption DEF All
  <2>2. \A i \in Priorities : none[i] = <<>> /\ Range(none[i]) = {} /\ DOMAIN none[i] = {}
    BY DEF Range
  <2>3. none \in [Priorities -> Seq({Idle})]
    OBVIOUS
  <2> HIDE DEF none
  <2> QED BY <2>1, <2>2, <2>3, ZenonT(40) DEF QueuesOK, Within
<1>6. \E c : Holds(scheduler_add(Q!Created, Idle), c, Enqueued(none, Idle))
  <2> HIDE DEF none
  <2> QED BY <1>4, <1>5, AddHolds, ZenonT(40)
<1> QED BY <1>6 DEF PInit, Init

LEMMA StepLInv ==
    ASSUME "armed" \notin Windows, IInv, LInv, [PNext]_pvars
    PROVE  LInv'
<1> SUFFICES ASSUME pc' # "wild" PROVE \E c : Holds(links', c, queues')
  BY DEF LInv
<1>a. UNCHANGED <<pc, links, queues>> => \E c : Holds(links', c, queues')
  BY DEF LInv
<1>b. UNCHANGED <<links, queues>> /\ pc # "wild" => \E c : Holds(links', c, queues')
  BY DEF LInv
<1>c. current \in created /\ created \subseteq All /\ queues \in [Priorities -> Seq(created)]
  BY DEF IInv, TypeOK
<1>d. \A qs \in [Priorities -> Seq(created)] : qs \in [Priorities -> Seq(All)]
  <2>1. Seq(created) \subseteq Seq(All)
    BY <1>c
  <2> QED BY <2>1, Zenon
<1>1. CASE \E p \in Procs : Creates(p)
  <2>1. PICK p \in Procs : Creates(p)
    BY <1>1, Zenon
  <2>2. /\ pc = "boot" /\ p \notin created /\ queues' = Enqueued(queues, p)
        /\ links' = scheduler_add(links, p) /\ p \in All
    BY <2>1, Zenon DEF Creates, process_create, All
  <2>3. QueuesOK(queues, created)
    BY <2>2, ZenonT(40) DEF IInv
  <2>4. ~Within(queues, p)
    <3>1. Priority[p] \in Priorities
      BY <2>2, SchedulerAssumption, ZenonT(40)
    <3>2. queues[Priority[p]] \in Seq(created)
      BY <3>1, <1>c, ZenonT(40)
    <3> QED BY <3>2, <2>2 DEF Within, Range
  <2>5. PICK c : Holds(links, c, queues)
    BY <2>2, ZenonT(40) DEF LInv
  <2>6. \E c2 : Holds(scheduler_add(links, p), c2, Enqueued(queues, p))
    BY <2>2, <2>3, <2>4, <2>5, <1>c, AddHolds, ZenonT(40)
  <2> QED BY <2>2, <2>6, ZenonT(40)
<1>2. CASE Arms
  BY <1>2, <1>b, ZenonT(40) DEF Arms, lapic_timer_periodic, pointers
<1>3. CASE Yields
  <2>1. /\ pc \in {"armed", "exiting"} /\ SwitchToNext(queues, resume)
        /\ links' = getNextProcess(links)
    BY <1>3, ZenonT(40) DEF Yields, yield
  <2>2. PICK c : Holds(links, c, queues)
    BY <2>1, ZenonT(40) DEF LInv
  <2>3. /\ Waiting(queues) = {} => getNextProcess(links) = links
        /\ Waiting(queues) # {} =>
             \E c2 : Holds(getNextProcess(links), c2, Dequeued(queues, Highest(queues)))
    BY <2>2, <1>c, <1>d, NextHolds, ZenonT(40)
  <2>4. CASE Waiting(queues) = {}
    BY <2>1, <2>2, <2>3, <2>4, ZenonT(40) DEF SwitchToNext
  <2>5. CASE Waiting(queues) # {}
    <3>1. queues' = Dequeued(queues, Highest(queues))
      BY <2>1, <2>5, ZenonT(40) DEF SwitchToNext
    <3> QED BY <3>1, <2>1, <2>3, <2>5, ZenonT(40)
  <2> QED BY <2>4, <2>5, ZenonT(40)
<1>4. CASE Expires
  <2>1. pc # "wild"
    BY <1>4, SchedulerAssumption, ZenonT(40) DEF Expires, Expire, Interruptible
  <2> QED BY <2>1, <1>4, <1>b, ZenonT(40) DEF Expires, Expire, pointers
<1>5. CASE Ticks
  <2> DEFINE qs == Enqueued(queues, current)
             m1 == scheduler_add(links, current)
  <2>1. /\ pc \in {"run", "exiting"} /\ links' = getNextProcess(m1)
        /\ SwitchToNext(qs, resume')
    BY <1>5, SchedulerAssumption, ZenonT(40) DEF Ticks, interruptHandler, Interruptible
  <2>2. PICK c : Holds(links, c, queues)
    BY <2>1, ZenonT(40) DEF LInv
  <2>3. QueuesOK(queues, created) /\ ~Within(queues, current)
    BY <2>1, ZenonT(40) DEF IInv, Located, Scheduling
  <2>4. current \in All
    BY <1>c, ZenonT(40)
  <2>5. PICK c1 : Holds(m1, c1, qs)
    BY <2>2, <2>3, <2>4, <1>c, AddHolds, ZenonT(40)
  <2>6. qs \in [Priorities -> Seq(All)]
    <3>1. QueuesOK(qs, created)
      BY <2>3, <1>c, EnqueuedFacts, ZenonT(40)
    <3> HIDE DEF qs
    <3> QED BY <3>1, <1>d, ZenonT(40) DEF QueuesOK
  <2> HIDE DEF qs, m1
  <2>7. /\ Waiting(qs) = {} => getNextProcess(m1) = m1
        /\ Waiting(qs) # {} => \E c2 : Holds(getNextProcess(m1), c2, Dequeued(qs, Highest(qs)))
    BY <2>5, <2>6, NextHolds, ZenonT(40)
  <2>8. CASE Waiting(qs) = {}
    BY <2>1, <2>5, <2>7, <2>8, ZenonT(40) DEF SwitchToNext
  <2>9. CASE Waiting(qs) # {}
    <3>1. queues' = Dequeued(qs, Highest(qs))
      BY <2>1, <2>9, ZenonT(40) DEF SwitchToNext
    <3> QED BY <3>1, <2>1, <2>7, <2>9, ZenonT(40)
  <2> QED BY <2>8, <2>9, ZenonT(40)
<1>6. CASE Exits
  <2>1. pc # "wild" /\ UNCHANGED <<links, queues>>
    BY <1>6, ZenonT(40) DEF Exits, sys_exit
  <2> QED BY <2>1, <1>b, ZenonT(40)
<1>7. CASE UNCHANGED pvars
  BY <1>7, <1>a, ZenonT(40) DEF pvars, vars, pointers
<1> QED BY <1>1, <1>2, <1>3, <1>4, <1>5, <1>6, <1>7, ZenonT(40) DEF PNext

LEMMA LInvImplies == IInv /\ LInv => Linked
<1> SUFFICES ASSUME IInv, LInv, pc # "wild"
             PROVE  /\ SoundQueues(links, queues)
                    /\ \A i \in Priorities : \A k \in 1 .. Len(queues[i]) - 1 :
                          SoundQueues(Q!queue_remove(links, i, queues[i][k]),
                                      [queues EXCEPT ![i] = Without(@, k)])
  BY DEF Linked
<1>1. PICK c : Holds(links, c, queues)
  BY DEF LInv
<1>2. queues \in [Priorities -> Seq(All)]
  <2>1. queues \in [Priorities -> Seq(created)] /\ created \subseteq All
    BY DEF IInv, TypeOK
  <2>2. Seq(created) \subseteq Seq(All)
    BY <2>1
  <2> QED BY <2>1, <2>2, ZenonT(40)
<1>3. SoundQueues(links, queues)
  BY <1>1, HoldsSound, ZenonT(40)
<1>4. ASSUME NEW i \in Priorities, NEW k \in 1 .. Len(queues[i]) - 1
      PROVE  SoundQueues(Q!queue_remove(links, i, queues[i][k]), [queues EXCEPT ![i] = Without(@, k)])
  <2>1. \A j, l \in 1 .. Len(queues[i]) : queues[i][j] = queues[i][l] => j = l
    <3>1. \A j, l \in DOMAIN queues[i] : queues[i][j] = queues[i][l] => j = l
      BY DEF IInv, QueuesOK
    <3> QED BY <3>1, <1>2
  <2> QED BY <1>1, <1>2, <2>1, RemoveHolds, ZenonT(40)
<1> QED BY <1>3, <1>4, ZenonT(40)

(* Until the CPU is lost in a freed context, the linked queues of           *)
(* misc/queue.c are what the scheduler means by its queues: the pointers    *)
(* are sound, hold the processes in their order and own every node that is  *)
(* allocated, and queue_remove would keep them so for any process that is   *)
(* not the last of its queue.                                               *)
THEOREM QueuesLinked ==
    ASSUME "armed" \notin Windows
    PROVE  PSpec => []Linked
<1>1. PInit => IInv /\ LInv
  BY InitIInv, InitLInv, ZenonT(40) DEF PInit
<1>2. (IInv /\ LInv) /\ [PNext]_pvars => (IInv /\ LInv)'
  BY StepImplements, StepIInv, StepLInv, ZenonT(40)
<1>3. IInv /\ LInv => Linked
  BY LInvImplies, Zenon
<1> QED BY <1>1, <1>2, <1>3, PTL DEF PSpec
--------------------------------------------------------------------------------
(* The inductive invariant of the tree.  A list node is left for every      *)
(* process that is still to be created, and one more.                       *)
TInv ==
    /\ \E c : TreeHolds(tree, c, alive)
    /\ Cardinality(tree.fresh) > Cardinality(All \ created)

LEMMA FiniteParts ==
    /\ \A S \in SUBSET All : IsFiniteSet(S) /\ Cardinality(S) \in Nat
    /\ \A S \in SUBSET ListNodes : IsFiniteSet(S) /\ Cardinality(S) \in Nat
BY HeapAssumption, FS_Subset, FS_CardinalityType, ZenonT(40)

LEMMA InitTInv == PInit => TInv
<1> SUFFICES ASSUME PInit PROVE TInv
  OBVIOUS
<1> DEFINE m == T!Rooted
<1>1. tree = m /\ alive = {Idle} /\ created = {Idle}
  BY DEF PInit, Init
<1>2. Idle \in All
  BY DEF All
<1>3. T!Empty \in ListT
  BY DEF T!Empty, ListT
<1>4. /\ m.used = {Idle} /\ m.parent = [t \in All |-> NULL] /\ m.nodes = 1
      /\ m.fresh = ListNodes /\ m.list = [t \in All |-> T!Empty]
  BY Zenon DEF T!Rooted
<1>5. m \in TreeMemory
  BY <1>2, <1>3 DEF T!Rooted, TreeMemory, NodeT
<1> HIDE DEF m
<1>6. Cardinality({Idle}) = 1
  BY FS_Singleton, ZenonT(40)
<1>7. ListHolds(m.node, m.list[Idle], <<>>)
  <2>1. m.list[Idle] = T!Empty
    BY <1>2, <1>4, ZenonT(40)
  <2>2. <<>> \in Seq(ListNodes) /\ Len(<<>>) = 0
    OBVIOUS
  <2> QED BY <2>1, <2>2 DEF ListHolds, T!Empty
<1>8. Values(m.node, <<>>, {Idle} \ {Idle})
  BY DEF Values
<1>9. TreeHolds(m, <<>>, {Idle})
  BY <1>2, <1>4, <1>5, <1>6, <1>7, <1>8 DEF TreeHolds
<1>10. Cardinality(ListNodes) > Cardinality(All \ {Idle})
  <2>1. Cardinality(All \ {Idle}) = Cardinality(All) - 1
    BY <1>2, HeapAssumption, FS_RemoveElement, ZenonT(40)
  <2>2. Cardinality(All) \in Nat /\ Cardinality(ListNodes) \in Nat
    BY FiniteParts, Zenon
  <2> QED BY <2>1, <2>2, HeapAssumption
<1> QED BY <1>1, <1>4, <1>9, <1>10, ZenonT(40) DEF TInv

LEMMA StepTInv ==
    ASSUME IInv, TInv, [PNext]_pvars
    PROVE  TInv'
<1>a. UNCHANGED <<tree, alive, created>> => TInv'
  BY Zenon DEF TInv
<1>b. created \subseteq All /\ alive \subseteq created
  BY DEF IInv, TypeOK
<1>c. PICK c : TreeHolds(tree, c, alive)
  BY Zenon DEF TInv
<1>d. tree.fresh \in SUBSET ListNodes
  BY <1>c, ZenonT(40) DEF TreeHolds, TreeMemory
<1>1. CASE \E p \in Procs : Creates(p)
  <2>1. PICK p \in Procs : Creates(p)
    BY <1>1, ZenonT(40)
  <2>2. /\ p \notin created /\ p \in All
        /\ tree' = T!tree_insert(tree, p) /\ alive' = alive \cup {p} /\ created' = created \cup {p}
    BY <2>1, ZenonT(40) DEF Creates, process_create, All
  <2>3. /\ Cardinality(tree.fresh) > Cardinality(All \ created)
        /\ Cardinality(tree.fresh) \in Nat /\ Cardinality(All \ created) \in Nat
        /\ IsFiniteSet(tree.fresh) /\ IsFiniteSet(All \ created)
    BY <1>d, FiniteParts, ZenonT(40) DEF TInv
  <2>4. tree.fresh # {}
    <3>1. Cardinality({}) = 0
      BY FS_EmptySet, ZenonT(40)
    <3> QED BY <2>3, <3>1
  <2>5. /\ \E c2 : TreeHolds(tree', c2, alive')
        /\ \E n \in tree.fresh : tree'.fresh = tree.fresh \ {n}
    BY <1>b, <1>c, <2>2, <2>4, InsertHolds, ZenonT(40)
  <2>6. PICK n \in tree.fresh : tree'.fresh = tree.fresh \ {n}
    BY <2>5
  <2>7. Cardinality(tree'.fresh) = Cardinality(tree.fresh) - 1
    BY <2>3, <2>6, FS_RemoveElement, ZenonT(40)
  <2>8. Cardinality(All \ created') = Cardinality(All \ created) - 1
    <3>1. All \ created' = (All \ created) \ {p} /\ p \in All \ created
      BY <2>2, ZenonT(40)
    <3> QED BY <3>1, <2>3, FS_RemoveElement, ZenonT(40)
  <2> QED BY <2>3, <2>5, <2>7, <2>8 DEF TInv
<1>2. CASE Arms
  BY <1>2, <1>a, ZenonT(40) DEF Arms, lapic_timer_periodic, pointers
<1>3. CASE Yields
  BY <1>3, <1>a, ZenonT(40) DEF Yields, yield
<1>4. CASE Expires
  BY <1>4, <1>a, ZenonT(40) DEF Expires, Expire, pointers
<1>5. CASE Ticks
  BY <1>5, <1>a, ZenonT(40) DEF Ticks, interruptHandler
<1>6. CASE Exits
  <2>1. /\ pc = "run" /\ current # Idle /\ alive' = alive \ {current} /\ created' = created
        /\ tree' = T!tree_remove(tree, current)
    BY <1>6, ZenonT(40) DEF Exits, sys_exit, MayExit
  <2>2. current \in alive \ {Idle}
    BY <2>1, ZenonT(40) DEF IInv, Located
  <2>3. (\E c2 : TreeHolds(tree', c2, alive')) /\ tree'.fresh = tree.fresh
    BY <1>c, <2>1, <2>2, TreeRemoveHolds, ZenonT(40)
  <2> QED BY <2>1, <2>3, ZenonT(40) DEF TInv
<1>7. CASE UNCHANGED pvars
  BY <1>7, <1>a, ZenonT(40) DEF pvars, vars, pointers
<1> QED BY <1>1, <1>2, <1>3, <1>4, <1>5, <1>6, <1>7, ZenonT(40) DEF PNext

LEMMA TInvImplies == IInv /\ TInv => Trees
<1> SUFFICES ASSUME IInv, TInv PROVE Trees
  BY Zenon
<1>1. PICK c : TreeHolds(tree, c, alive)
  BY Zenon DEF TInv
<1>2. tree.used = alive /\ tree.fresh \in SUBSET ListNodes /\ alive \subseteq All
  BY <1>1, ZenonT(40) DEF TreeHolds, TreeMemory
<1>3. tree.fresh # {}
  <2>1. /\ Cardinality(tree.fresh) > Cardinality(All \ created)
        /\ Cardinality(All \ created) \in Nat /\ Cardinality({}) = 0
    BY FiniteParts, FS_EmptySet, ZenonT(40) DEF TInv
  <2> QED BY <2>1
<1>4. ASSUME NEW p \in alive \ {Idle}
      PROVE  /\ T!TreeSound(T!tree_remove(tree, p))
             /\ T!TreeSound(T!tree_insert(T!tree_remove(tree, p), p))
  <2> DEFINE m == T!tree_remove(tree, p)
  <2>1. (\E c2 : TreeHolds(m, c2, alive \ {p})) /\ m.fresh = tree.fresh
    BY <1>1, TreeRemoveHolds, ZenonT(40)
  <2>2. PICK c2 : TreeHolds(m, c2, alive \ {p})
    BY <2>1, ZenonT(40)
  <2>3. p \in All /\ p \notin alive \ {p} /\ m.fresh # {}
    BY <1>2, <1>3, <2>1, ZenonT(40)
  <2> HIDE DEF m
  <2>4. \E c3 : TreeHolds(T!tree_insert(m, p), c3, (alive \ {p}) \cup {p})
    BY <2>2, <2>3, InsertHolds, ZenonT(40)
  <2>5. T!TreeSound(m) /\ T!TreeSound(T!tree_insert(m, p))
    BY <2>2, <2>4, TreeHoldsSound, ZenonT(40)
  <2> QED BY <2>5, ZenonT(40) DEF m
<1> QED BY <1>1, <1>2, <1>4, TreeHoldsSound, ZenonT(40) DEF Trees

(* The process tree of misc/tree.c holds exactly the processes that have    *)
(* not been deleted, every pointer of its lists and every count right, and  *)
(* would still do so if any of them were removed and inserted again.        *)
THEOREM TreesSound ==
    ASSUME "armed" \notin Windows
    PROVE  PSpec => []Trees
<1>1. PInit => IInv /\ TInv
  BY InitIInv, InitTInv DEF PInit
<1>2. (IInv /\ TInv) /\ [PNext]_pvars => (IInv /\ TInv)'
  BY StepImplements, StepIInv, StepTInv, ZenonT(40)
<1>3. IInv /\ TInv => Trees
  BY TInvImplies
<1> QED BY <1>1, <1>2, <1>3, PTL DEF PSpec
================================================================================
