--------------------------- MODULE SpmCacheCounts ---------------------------
(***************************************************************************)
(* How many commands of a slot wait in the L2.  Servicing the targets of   *)
(* an MSHR answers the commands among them, and a fill, a forwarded        *)
(* response or a miss that is sent leaves the others waiting.              *)
(***************************************************************************)
EXTENDS SpmCacheSteps, FiniteSetTheorems, SequenceTheorems

\* A set of naturals that is not empty has a least element.
LEMMA LeastNat ==
    ASSUME NEW T \in SUBSET Nat, T # {}
    PROVE  \E m \in T : \A k \in T : m <= k
<1>1. PICK R : R = OpToRel(<, Nat)
  BY Zenon
<1>2. \A x, y \in Nat : x < y => <<x, y>> \in R
  BY <1>1 DEF OpToRel
<1>3. IsWellFoundedOn(R, Nat)
  BY <1>1, NatLessThanWellFounded, Zenon
<1>4. PICK m \in T : \A k \in T : ~(<<k, m>> \in R)
  BY Zenon, <1>3, WFMin
<1>5. \A k \in T : ~(k < m)
  BY Zenon, <1>2, <1>4
<1> QED
  BY <1>5

\* The commands of slot w among the first k targets, and how many they are.
CommandsAt(tgs, k, w) == {j \in 1 .. k : tgs[j].w = w}
Commands(tgs, k, w) == Cardinality(CommandsAt(tgs, k, w))

\* They are finitely many.
LEMMA CommandsFinite ==
    ASSUME NEW tgs, NEW k \in Nat, NEW w
    PROVE  IsFiniteSet(CommandsAt(tgs, k, w)) /\ Commands(tgs, k, w) \in Nat
<1>1. IsFiniteSet(1 .. k)
  BY FS_Interval
<1>2. CommandsAt(tgs, k, w) \in SUBSET (1 .. k)
  BY Zenon DEF CommandsAt
<1>3. IsFiniteSet(CommandsAt(tgs, k, w))
  BY Zenon, <1>1, <1>2, FS_Subset
<1> QED
  BY Zenon, <1>3, FS_CardinalityType DEF Commands

\* One target more.
LEMMA CommandsNext ==
    ASSUME NEW tgs, NEW k \in Nat, NEW w
    PROVE  Commands(tgs, k + 1, w) =
             IF tgs[k + 1].w = w THEN Commands(tgs, k, w) + 1 ELSE Commands(tgs, k, w)
<1>1. PICK S : S = CommandsAt(tgs, k, w)
  BY Zenon
<1>2. IsFiniteSet(S) /\ k + 1 \notin S
  <2>1. k + 1 \notin 1 .. k
    OBVIOUS
  <2>2. IsFiniteSet(S)
    BY Zenon, <1>1, CommandsFinite
  <2>3. S \subseteq 1 .. k
    BY Zenon, <1>1 DEF CommandsAt
  <2> QED
    BY Zenon, <2>1, <2>2, <2>3
<1>3. 1 .. (k + 1) = (1 .. k) \cup {k + 1}
  OBVIOUS
<1>4. CASE tgs[k + 1].w = w
  <2>1. CommandsAt(tgs, k + 1, w) = S \cup {k + 1}
    BY Zenon, <1>1, <1>3, <1>4 DEF CommandsAt
  <2>2. Cardinality(S \cup {k + 1}) = Cardinality(S) + 1
    BY Zenon, <1>2, FS_AddElement
  <2> QED
    BY Zenon, <1>1, <1>4, <2>1, <2>2 DEF Commands
<1>5. CASE tgs[k + 1].w # w
  <2>1. CommandsAt(tgs, k + 1, w) = S
    BY Zenon, <1>1, <1>3, <1>5 DEF CommandsAt
  <2> QED
    BY Zenon, <1>1, <1>5, <2>1 DEF Commands
<1> QED
  BY Zenon, <1>4, <1>5

\* The states f of the loop of serviceMSHRTargets, after each of n targets.
Loop(f, s, a, b, tgs, n) ==
    f = [k \in 0 .. n |-> IF k = 0 THEN s ELSE Service(f[k - 1], a, b, tgs[k])]

\* The loop has them for any number of targets.
LEMMA LoopStates ==
    ASSUME NEW s, NEW a, NEW b, NEW tgs, NEW n \in Nat
    PROVE  \E f : Loop(f, s, a, b, tgs, n)
<1> DEFINE P(m) == \E f : f = [k \in 0 .. m |->
                         IF k = 0 THEN s ELSE Service(f[k - 1], a, b, tgs[k])]
<1>1. P(0)
  <2>1. PICK f : f = [k \in 0 .. 0 |-> s]
    BY Zenon
  <2>2. \A k \in 0 .. 0 : k = 0
    OBVIOUS
  <2>3. f = [k \in 0 .. 0 |-> IF k = 0 THEN s ELSE Service(f[k - 1], a, b, tgs[k])]
    BY Zenon, <2>1, <2>2
  <2> QED
    BY Zenon, <2>3
<1>2. ASSUME NEW m \in Nat, P(m)
      PROVE  P(m + 1)
  <2>1. PICK f : f = [k \in 0 .. m |->
                        IF k = 0 THEN s ELSE Service(f[k - 1], a, b, tgs[k])]
    BY Zenon, <1>2
  <2>2. PICK g : g = [k \in 0 .. (m + 1) |->
                        IF k = 0 THEN s ELSE Service(f[k - 1], a, b, tgs[k])]
    BY Zenon
  <2>3. \A k \in 0 .. m : g[k] = f[k]
    <3>1. \A k \in 0 .. m : k \in 0 .. (m + 1)
      OBVIOUS
    <3> QED
      BY Zenon, <2>1, <2>2, <3>1
  <2>4. \A k \in 0 .. (m + 1) : k = 0 \/ k - 1 \in 0 .. m
    OBVIOUS
  <2>5. \A k \in 0 .. (m + 1) :
            (IF k = 0 THEN s ELSE Service(f[k - 1], a, b, tgs[k]))
            = IF k = 0 THEN s ELSE Service(g[k - 1], a, b, tgs[k])
    BY Zenon, <2>3, <2>4
  <2>6. g = [k \in 0 .. (m + 1) |->
               IF k = 0 THEN s ELSE Service(g[k - 1], a, b, tgs[k])]
    BY Zenon, <2>2, <2>5
  <2> QED
    BY Zenon, <2>6
<1> HIDE DEF P
<1>3. ASSUME ~P(n)
      PROVE  FALSE
  <2>1. PICK T : T = {m \in Nat : ~P(m)}
    BY Zenon
  <2>2. T \in SUBSET Nat /\ n \in T
    BY Zenon, <1>3, <2>1
  <2>3. PICK m \in T : \A k \in T : m <= k
    BY Zenon, <2>2, LeastNat
  <2>4. m \in Nat /\ ~P(m)
    BY Zenon, <2>1
  <2>5. m # 0
    BY Zenon, <1>1, <2>4
  <2>6. PICK p \in Nat : m = p + 1
    BY <2>4, <2>5
  <2>7. ~(m <= p)
    BY <2>6
  <2>8. P(p)
    BY Zenon, <2>1, <2>3, <2>7
  <2> QED
    BY Zenon, <1>2, <2>4, <2>6, <2>8
<1> QED
  BY Zenon, <1>3 DEF P, Loop

\* The states z that servicing the first k targets can lead to from s.
ServicedFirst(s, z, tgs, k) ==
    /\ L2Type(z) /\ Keeps(s, z) /\ z.mshr = s.mshr
    /\ \A w \in Ways \cup {Temp} : z.way[w].st = s.way[w].st
    /\ z.bad = "none" =>
          \A w \in Ways : z.owed[w] = s.owed[w] - Commands(tgs, k, w)

\* One turn of the loop.
LEMMA LoopTurn ==
    ASSUME NEW s, L2Type(s), NEW y, NEW z, NEW tgs, NEW k \in Nat,
           ServicedFirst(s, y, tgs, k), Serviced(y, z, tgs[k + 1])
    PROVE  ServicedFirst(s, z, tgs, k + 1)
<1>1. L2Type(y) /\ L2Type(z) /\ Keeps(s, z) /\ z.mshr = s.mshr
  BY Zenon, KeepsTrans DEF ServicedFirst, Serviced
<1>2. \A w \in Ways \cup {Temp} : z.way[w].st = s.way[w].st
  BY Zenon DEF ServicedFirst, Serviced
<1>3. ASSUME z.bad = "none", NEW w \in Ways
      PROVE  z.owed[w] = s.owed[w] - Commands(tgs, k + 1, w)
  <2>1. y.bad = "none"
    BY Zenon, <1>3 DEF Serviced
  <2>2. y.owed[w] = s.owed[w] - Commands(tgs, k, w)
    BY Zenon, <2>1 DEF ServicedFirst
  <2>3. z.owed[w] = IF tgs[k + 1].w = w THEN y.owed[w] - 1 ELSE y.owed[w]
    BY Zenon, <1>3 DEF Serviced
  <2>4. s.owed[w] \in Int
    BY Zenon DEF L2Type
  <2>5. Commands(tgs, k, w) \in Nat
    BY Zenon, CommandsFinite
  <2>6. Commands(tgs, k + 1, w) =
          IF tgs[k + 1].w = w THEN Commands(tgs, k, w) + 1 ELSE Commands(tgs, k, w)
    BY Zenon, CommandsNext
  <2>7. \A o \in Int, c \in Nat : o - c - 1 = o - (c + 1)
    OBVIOUS
  <2>8. CASE tgs[k + 1].w = w
    BY Zenon, <2>2, <2>3, <2>4, <2>5, <2>6, <2>7, <2>8
  <2>9. CASE tgs[k + 1].w # w
    BY Zenon, <2>2, <2>3, <2>6, <2>9
  <2> QED
    BY Zenon, <2>8, <2>9
<1> QED
  BY Zenon, <1>1, <1>2, <1>3 DEF ServicedFirst

\* serviceMSHRTargets answers each command among the targets once.
LEMMA ServiceAllStep ==
    ASSUME NEW s, L2Type(s), NEW a, NEW b \in Ways \cup {Temp, None},
           b \in Ways => s.way[b].st = "line", NEW tgs \in Seq(TargetType)
    PROVE  ServicedFirst(s, ServiceAll(s, a, b, tgs), tgs, Len(tgs))
<1>1. PICK n \in Nat : n = Len(tgs)
  BY LenProperties
<1>2. \A k \in 1 .. n : tgs[k] \in TargetType
  BY <1>1
<1>3. PICK f : /\ f = [k \in 0 .. n |->
                          IF k = 0 THEN s ELSE Service(f[k - 1], a, b, tgs[k])]
               /\ ServiceAll(s, a, b, tgs) = f[n]
  <2>1. \E g : g = [k \in 0 .. Len(tgs) |->
                      IF k = 0 THEN s ELSE Service(g[k - 1], a, b, tgs[k])]
    <3>1. \E g : Loop(g, s, a, b, tgs, Len(tgs))
      BY Zenon, <1>1, LoopStates
    <3> QED
      BY Zenon, <3>1 DEF Loop
  <2> DEFINE F == CHOOSE g : g = [k \in 0 .. Len(tgs) |->
                      IF k = 0 THEN s ELSE Service(g[k - 1], a, b, tgs[k])]
  <2>2. F = [k \in 0 .. Len(tgs) |->
               IF k = 0 THEN s ELSE Service(F[k - 1], a, b, tgs[k])]
    BY Zenon, <2>1
  <2>3. ServiceAll(s, a, b, tgs) = F[Len(tgs)]
    BY Zenon DEF ServiceAll
  <2> HIDE DEF F
  <2> QED
    BY Zenon, <1>1, <2>2, <2>3
<1> DEFINE Q(k) == ServicedFirst(s, f[k], tgs, k)
<1>4. 0 \in 0 .. n /\ n \in 0 .. n
  OBVIOUS
<1>5. Q(0)
  <2>1. f[0] = s
    BY Zenon, <1>3, <1>4
  <2>2. Keeps(s, s)
    BY Zenon, KeepsSame
  <2>3. ASSUME NEW w \in Ways
        PROVE  s.owed[w] = s.owed[w] - Commands(tgs, 0, w)
    <3>1. CommandsAt(tgs, 0, w) = {}
      BY DEF CommandsAt
    <3>2. Commands(tgs, 0, w) = 0
      BY Zenon, <3>1, FS_EmptySet DEF Commands
    <3>3. s.owed[w] \in Int
      BY Zenon DEF L2Type
    <3> QED
      BY SMTT(30), <3>2, <3>3
  <2> QED
    BY Zenon, <2>1, <2>2, <2>3 DEF ServicedFirst
<1>6. ASSUME NEW k \in Nat, k + 1 \in 1 .. n, Q(k)
      PROVE  Q(k + 1)
  <2>1. k + 1 \in 0 .. n /\ k + 1 # 0 /\ (k + 1) - 1 = k
    BY <1>6
  <2>2. f[k + 1] = Service(f[k], a, b, tgs[k + 1])
    BY Zenon, <1>3, <2>1
  <2>3. L2Type(f[k]) /\ (b \in Ways => f[k].way[b].st = "line")
    BY Zenon, <1>6 DEF ServicedFirst
  <2>4. Serviced(f[k], f[k + 1], tgs[k + 1])
    BY Zenon, <1>2, <1>6, <2>2, <2>3, ServiceStep
  <2> QED
    BY Zenon, <1>6, <2>4, LoopTurn
<1> HIDE DEF Q
<1>7. ASSUME ~Q(n)
      PROVE  FALSE
  <2>1. PICK T : T = {m \in Nat : m <= n /\ ~Q(m)}
    BY Zenon
  <2>2. T \in SUBSET Nat /\ n \in T
    BY <1>7, <2>1
  <2>3. PICK m \in T : \A k \in T : m <= k
    BY Zenon, <2>2, LeastNat
  <2>4. m \in Nat /\ m <= n /\ ~Q(m)
    BY Zenon, <2>1
  <2>5. m # 0
    BY Zenon, <1>5, <2>4
  <2>6. PICK p \in Nat : m = p + 1
    BY SMTT(30), <2>4, <2>5
  <2>7. ~(m <= p) /\ p <= n /\ p + 1 \in 1 .. n
    BY SMTT(30), <2>4, <2>6
  <2>8. Q(p)
    BY Zenon, <2>1, <2>3, <2>7
  <2> QED
    BY Zenon, <1>6, <2>4, <2>6, <2>7, <2>8
<1> QED
  BY Zenon, <1>1, <1>3, <1>7 DEF Q

\* The slots of the first k targets decide how many commands there are.
LEMMA CommandsSame ==
    ASSUME NEW p, NEW q, NEW k \in Nat, NEW w, \A j \in 1 .. k : p[j].w = q[j].w
    PROVE  Commands(p, k, w) = Commands(q, k, w)
<1>1. CommandsAt(p, k, w) = CommandsAt(q, k, w)
  BY Zenon DEF CommandsAt
<1> QED
  BY Zenon, <1>1 DEF Commands

\* No targets, no commands.
LEMMA CommandsNone ==
    ASSUME NEW tgs, NEW w
    PROVE  Commands(tgs, 0, w) = 0
<1>1. CommandsAt(tgs, 0, w) = {}
  BY DEF CommandsAt
<1> QED
  BY Zenon, <1>1, FS_EmptySet DEF Commands

\* One target more at the end.
LEMMA CommandsAppend ==
    ASSUME NEW S, NEW tgs \in Seq(S), NEW t, NEW w
    PROVE  Commands(Append(tgs, t), Len(Append(tgs, t)), w) =
             IF t.w = w THEN Commands(tgs, Len(tgs), w) + 1
                        ELSE Commands(tgs, Len(tgs), w)
<1>1. PICK n \in Nat : n = Len(tgs)
  BY LenProperties
<1>2. PICK u : u = Append(tgs, t)
  BY Zenon
<1>3. Len(u) = n + 1 /\ u[n + 1] = t /\ \A j \in 1 .. n : u[j].w = tgs[j].w
  BY SMTT(30), <1>1, <1>2
<1>4. Commands(u, n, w) = Commands(tgs, n, w)
  BY SMTT(30), <1>3, CommandsSame
<1>5. Commands(u, n + 1, w) =
        IF u[n + 1].w = w THEN Commands(u, n, w) + 1 ELSE Commands(u, n, w)
  BY Zenon, CommandsNext
<1> QED
  BY Zenon, <1>1, <1>2, <1>3, <1>4, <1>5

\* The commands of two sequences of targets together.
LEMMA CommandsConcat ==
    ASSUME NEW S, NEW p \in Seq(S), NEW q \in Seq(S), NEW w
    PROVE  Commands(p \o q, Len(p \o q), w) =
             Commands(p, Len(p), w) + Commands(q, Len(q), w)
<1>1. PICK m \in Nat, n \in Nat : m = Len(p) /\ n = Len(q)
  BY LenProperties
<1>2. PICK u : u = p \o q
  BY Zenon
<1>0. \A j \in 1 .. m : u[j].w = p[j].w
  BY SMTT(30), <1>1, <1>2
<1>3. Len(u) = m + n /\ \A j \in 1 .. n : u[m + j] = q[j]
  BY SMTT(30), <1>1, <1>2
<1>4. /\ Commands(p, m, w) \in Nat
      /\ \A k \in Nat : Commands(q, k, w) \in Nat
  BY Zenon, CommandsFinite
<1> DEFINE R(k) == Commands(u, m + k, w) = Commands(p, m, w) + Commands(q, k, w)
<1>5. R(0)
  <2>1. Commands(u, m, w) = Commands(p, m, w)
    BY <1>0, CommandsSame
  <2>2. Commands(q, 0, w) = 0
    BY Zenon, CommandsNone
  <2>3. m + 0 = m
    OBVIOUS
  <2> QED
    BY SMTT(30), <1>4, <2>1, <2>2, <2>3
<1>6. ASSUME NEW k \in Nat, k + 1 \in 1 .. n, R(k)
      PROVE  R(k + 1)
  <2>1. m + k \in Nat /\ m + (k + 1) = (m + k) + 1
    OBVIOUS
  <2>2. Commands(u, (m + k) + 1, w) =
          IF u[(m + k) + 1].w = w THEN Commands(u, m + k, w) + 1 ELSE Commands(u, m + k, w)
    BY ZenonT(60), <2>1, CommandsNext
  <2>3. Commands(q, k + 1, w) =
          IF q[k + 1].w = w THEN Commands(q, k, w) + 1 ELSE Commands(q, k, w)
    BY Zenon, CommandsNext
  <2>4. u[(m + k) + 1] = q[k + 1]
    BY <1>3, <1>6
  <2>5. PICK c \in Nat, d \in Nat :
           c = Commands(p, m, w) /\ d = Commands(q, k, w) /\ Commands(u, m + k, w) = c + d
    BY Zenon, <1>4, <1>6
  <2>6. (c + d) + 1 = c + (d + 1)
    OBVIOUS
  <2>7. CASE q[k + 1].w = w
    BY Zenon, <2>1, <2>2, <2>3, <2>4, <2>5, <2>6, <2>7
  <2>8. CASE q[k + 1].w # w
    BY Zenon, <2>1, <2>2, <2>3, <2>4, <2>5, <2>8
  <2> QED
    BY Zenon, <2>7, <2>8
<1> HIDE DEF R
<1>7. ASSUME ~R(n)
      PROVE  FALSE
  <2>1. PICK T : T = {k \in Nat : k <= n /\ ~R(k)}
    BY Zenon
  <2>2. T \in SUBSET Nat /\ n \in T
    BY <1>7, <2>1
  <2>3. PICK k \in T : \A j \in T : k <= j
    BY Zenon, <2>2, LeastNat
  <2>4. k \in Nat /\ k <= n /\ ~R(k)
    BY Zenon, <2>1
  <2>5. k # 0
    BY Zenon, <1>5, <2>4
  <2>6. PICK j \in Nat : k = j + 1
    BY <2>4, <2>5
  <2>7. ~(k <= j) /\ j <= n /\ j + 1 \in 1 .. n
    BY <2>4, <2>6
  <2>8. R(j)
    BY Zenon, <2>1, <2>3, <2>7
  <2> QED
    BY Zenon, <1>6, <2>4, <2>6, <2>7, <2>8
<1> QED
  BY Zenon, <1>1, <1>2, <1>3, <1>7 DEF R

\* An entry leaves a queue.
LEMMA CommandsRemove ==
    ASSUME NEW S, NEW q \in Seq(S), NEW i \in 1 .. Len(q), NEW w
    PROVE  /\ Deallocate(q, i) \in Seq(S)
           /\ Commands(q, Len(q), w) =
                IF q[i].w = w
                THEN Commands(Deallocate(q, i), Len(Deallocate(q, i)), w) + 1
                ELSE Commands(Deallocate(q, i), Len(Deallocate(q, i)), w)
<1>0. PICK n \in Nat : n = Len(q) /\ i \in 1 .. n /\ \A j \in 1 .. n : q[j] \in S
  BY LenProperties
<1>1. PICK p \in Seq(S), r \in Seq(S) :
         /\ p = SubSeq(q, 1, i - 1) /\ r = SubSeq(q, i + 1, Len(q))
         /\ Len(p) = i - 1 /\ \A j \in 1 .. (i - 1) : p[j] = q[j]
         /\ Len(r) = n - i /\ \A j \in 1 .. (n - i) : r[j] = q[i + j]
  <2>1. PICK p : p = SubSeq(q, 1, i - 1)
    BY Zenon
  <2>2. p \in Seq(S) /\ Len(p) = i - 1 /\ \A j \in 1 .. (i - 1) : p[j] = q[j]
    BY <1>0, <2>1, SubSeqProperties
  <2>3. PICK r : r = SubSeq(q, i + 1, n)
    BY Zenon
  <2>4. r \in Seq(S) /\ Len(r) = n - i /\ \A j \in 1 .. (n - i) : r[j] = q[i + j]
    BY <1>0, <2>3, SubSeqProperties
  <2> QED
    BY Zenon, <1>0, <2>1, <2>2, <2>3, <2>4
<1>2. q = Append(p, q[i]) \o r /\ Append(p, q[i]) \in Seq(S)
  <2>1. PICK u : u = Append(p, q[i])
    BY Zenon
  <2>2. /\ u \in Seq(S) /\ Len(u) = i /\ u[i] = q[i]
        /\ \A j \in 1 .. (i - 1) : u[j] = q[j]
    BY SMTT(30), <1>0, <1>1, <2>1
  <2>3. PICK v : v = u \o r
    BY Zenon
  <2>4. /\ v \in Seq(S) /\ Len(v) = n
        /\ \A j \in 1 .. i : v[j] = u[j]
        /\ \A j \in 1 .. (n - i) : v[i + j] = r[j]
    <3>1. i + (n - i) = n /\ \A j \in 1 .. i : j \in 1 .. n /\ j <= i
      BY <1>0
    <3>2. \A j \in 1 .. (n - i) :
             i + j \in 1 .. n /\ ~(i + j <= i) /\ (i + j) - i = j
      BY <1>0
    <3>3. /\ u \o r \in Seq(S) /\ Len(u \o r) = Len(u) + Len(r)
          /\ \A j \in 1 .. Len(u) + Len(r) :
                (u \o r)[j] = IF j <= Len(u) THEN u[j] ELSE r[j - Len(u)]
      BY Zenon, <2>2, ConcatProperties
    <3>4. Len(u) + Len(r) = n
      BY Zenon, <1>1, <2>2, <3>1
    <3>5. /\ v \in Seq(S) /\ Len(v) = n
          /\ \A j \in 1 .. n : v[j] = IF j <= i THEN u[j] ELSE r[j - i]
      BY Zenon, <2>2, <2>3, <3>3, <3>4
    <3> QED
      BY Zenon, <3>1, <3>2, <3>5
  <2>5. ASSUME NEW j \in 1 .. n
        PROVE  v[j] = q[j]
    <3>1. CASE j <= i
      BY <1>0, <2>2, <2>4, <3>1
    <3>2. CASE i < j
      <4>1. j - i \in 1 .. (n - i) /\ i + (j - i) = j
        BY <1>0, <3>2
      <4> QED
        <5>1. v[i + (j - i)] = r[j - i]
          BY Zenon, <2>4, <4>1
        <5>2. r[j - i] = q[i + (j - i)]
          BY Zenon, <1>1, <4>1
        <5> QED
          BY Zenon, <4>1, <5>1, <5>2
    <3> QED
      BY <1>0, <3>1, <3>2
  <2>6. v = q
    BY Zenon, <1>0, <2>4, <2>5, SeqEqual
  <2> QED
    BY Zenon, <2>1, <2>2, <2>3, <2>6
<1>3. Deallocate(q, i) = p \o r /\ p \o r \in Seq(S)
  BY <1>1 DEF Deallocate
<1>4. PICK u \in Seq(S) : u = Append(p, q[i])
  BY Zenon, <1>2
<1>5. Commands(q, Len(q), w) = Commands(u, Len(u), w) + Commands(r, Len(r), w)
  <2>1. Commands(u \o r, Len(u \o r), w) = Commands(u, Len(u), w) + Commands(r, Len(r), w)
    BY Zenon, CommandsConcat
  <2> QED
    BY Zenon, <1>2, <1>4, <2>1
<1>6. Commands(u, Len(u), w) =
        IF q[i].w = w THEN Commands(p, Len(p), w) + 1 ELSE Commands(p, Len(p), w)
  BY Zenon, <1>4, CommandsAppend
<1>7. Commands(p \o r, Len(p \o r), w) = Commands(p, Len(p), w) + Commands(r, Len(r), w)
  BY Zenon, CommandsConcat
<1>8. Commands(p, Len(p), w) \in Nat /\ Commands(r, Len(r), w) \in Nat
  <2>1. Len(p) \in Nat /\ Len(r) \in Nat
    OBVIOUS
  <2> QED
    BY Zenon, <2>1, CommandsFinite
<1>9. \A c \in Nat, d \in Nat : (c + 1) + d = (c + d) + 1
  OBVIOUS
<1> QED
  BY Zenon, <1>3, <1>5, <1>6, <1>7, <1>8, <1>9

\* How many commands of slot w wait for line a.
Owing(s, a, w) == Commands(Waiting(s, a), Len(Waiting(s, a)), w)

\* The commands that stop waiting for line a are answered, each once.
Settles(s, z, a) ==
    /\ \A b \in Lines \ {a} : z.mshr[b] = s.mshr[b]
    /\ Len(Waiting(z, a)) <= Len(Waiting(s, a))
    /\ \A w \in Ways : z.owed[w] = s.owed[w] - Owing(s, a, w) + Owing(z, a, w)

\* The counts are numbers.
LEMMA OwingTyped ==
    ASSUME NEW s, L2Type(s), NEW a \in Lines
    PROVE  /\ Len(Waiting(s, a)) \in Nat
           /\ \A w : Owing(s, a, w) \in Nat
           /\ \A w \in Ways : s.owed[w] \in Int
<1>1. Waiting(s, a) \in Seq(TargetType)
  BY Zenon, MshrTyped
<1>2. Len(Waiting(s, a)) \in Nat
  BY Zenon, <1>1, LenProperties
<1> QED
  BY Zenon, <1>2, CommandsFinite DEF Owing, L2Type

\* Nothing is settled when all go on waiting.
LEMMA SettlesSame ==
    ASSUME NEW s, L2Type(s), NEW z, NEW a \in Lines, z.owed = s.owed,
           Waiting(z, a) = Waiting(s, a),
           \A b \in Lines \ {a} : z.mshr[b] = s.mshr[b]
    PROVE  Settles(s, z, a)
<1>1. PICK n \in Nat : n = Len(Waiting(s, a))
  BY Zenon, OwingTyped
<1>2. Len(Waiting(z, a)) <= Len(Waiting(s, a))
  <2>1. n <= n
    OBVIOUS
  <2> QED
    BY Zenon, <1>1, <2>1
<1>3. ASSUME NEW w \in Ways
      PROVE  s.owed[w] = s.owed[w] - Owing(s, a, w) + Owing(z, a, w)
  <2>1. PICK c \in Nat : c = Owing(s, a, w) /\ c = Owing(z, a, w)
    BY Zenon, OwingTyped DEF Owing
  <2>2. s.owed[w] \in Int
    BY Zenon, OwingTyped
  <2> QED
    BY <2>1, <2>2
<1> QED
  BY Zenon, <1>2, <1>3 DEF Settles

\* One MSHR gets a new content.
SetMshr(s, a, n) == [s EXCEPT !.mshr[a] = n]

\* That changes nothing else.
LEMMA OneMshr ==
    ASSUME NEW s, L2Type(s), NEW a \in Lines, NEW n \in MshrType
    PROVE  LET z == SetMshr(s, a, n)
           IN /\ L2Type(z) /\ Keeps(s, z) /\ z.owed = s.owed /\ z.bad = s.bad
              /\ z.way = s.way /\ z.mshr[a] = n
              /\ \A b \in Lines \ {a} : z.mshr[b] = s.mshr[b]
<1>1. PICK z : z = SetMshr(s, a, n)
  BY Zenon
<1>2. IsL2(s)
  BY Zenon DEF L2Type
<1>3. /\ z.way = s.way /\ z.owed = s.owed /\ z.bad = s.bad
      /\ z.mshr = [s.mshr EXCEPT ![a] = n] /\ IsL2(z)
  BY <1>1, <1>2 DEF IsL2, SetMshr
<1>4. /\ z.mshr \in [Lines -> MshrType] /\ z.mshr[a] = n
      /\ \A b \in Lines \ {a} : z.mshr[b] = s.mshr[b]
  BY Zenon, <1>3 DEF L2Type
<1>5. L2Type(z) /\ Keeps(s, z)
  BY Zenon, <1>3, <1>4, MshrStep
<1> QED
  BY Zenon, <1>1, <1>3, <1>4, <1>5

\* Sending a miss leaves its targets waiting.
LEMMA SendMissStep ==
    ASSUME NEW s, L2Type(s), NEW a \in Lines
    PROVE  /\ L2Type(SendMissTo(s, a)) /\ Keeps(s, SendMissTo(s, a))
           /\ Settles(s, SendMissTo(s, a), a)
<1>1. CASE MissKind(s, a) = "bad"
  <2>1. SendMissTo(s, a) = Bad(s, "send")
    BY Zenon, <1>1 DEF SendMissTo
  <2>2. "send" # "none"
    OBVIOUS
  <2>3. /\ L2Type(Bad(s, "send")) /\ Keeps(s, Bad(s, "send"))
        /\ Idle(s, Bad(s, "send"))
    BY Zenon, <2>2, BadStep
  <2>4. Settles(s, Bad(s, "send"), a)
    BY Zenon, <2>3, SettlesSame DEF Idle, Waiting
  <2> QED
    BY Zenon, <2>1, <2>3, <2>4
<1>2. CASE MissKind(s, a) # "bad"
  <2>1. PICK k : k = MissKind(s, a)
    BY Zenon
  <2>2. k \in {"none", "read", "readEx", "upgrade", "invalidate", "forward"}
    BY Zenon, <1>2, <2>1 DEF MissKind
  <2>3. PICK m : m = s.mshr[a]
    BY Zenon
  <2>4. /\ m = [tg |-> m.tg, df |-> m.df, sent |-> m.sent]
        /\ m.tg \in Seq(TargetType) /\ m.df \in Seq(TargetType)
        /\ m.tg = <<>> => m.df = <<>>
    BY Zenon, <2>3, MshrTyped
  <2>5. PICK n : n = [m EXCEPT !.sent = k]
    BY Zenon
  <2>6. n.tg = m.tg /\ n.df = m.df /\ n.sent = k
    BY <2>4, <2>5
  <2>t. n \in MshrType
    BY <2>2, <2>4, <2>5 DEF MshrType
  <2>7. PICK z : z = SetMshr(s, a, n)
    BY Zenon
  <2>8. SendMissTo(s, a) = z
    <3>1. SendMissTo(s, a) = [s EXCEPT !.mshr[a].sent = k]
      BY Zenon, <1>2, <2>1 DEF SendMissTo
    <3> QED
      BY <2>3, <2>5, <2>7, <3>1 DEF SetMshr
  <2>9. /\ L2Type(z) /\ Keeps(s, z) /\ z.owed = s.owed
        /\ z.mshr[a] = n /\ \A b \in Lines \ {a} : z.mshr[b] = s.mshr[b]
    <3>1. LET y == SetMshr(s, a, n)
          IN /\ L2Type(y) /\ Keeps(s, y) /\ y.owed = s.owed /\ y.bad = s.bad
             /\ y.way = s.way /\ y.mshr[a] = n
             /\ \A b \in Lines \ {a} : y.mshr[b] = s.mshr[b]
      BY Zenon, <2>t, OneMshr
    <3> QED
      BY Zenon, <2>7, <3>1
  <2>10. Waiting(z, a) = Waiting(s, a)
    BY Zenon, <2>3, <2>6, <2>9 DEF Waiting
  <2>11. Settles(s, z, a)
    BY Zenon, <2>9, <2>10, SettlesSame
  <2> QED
    BY Zenon, <2>8, <2>9, <2>11
<1> QED
  BY Zenon, <1>1, <1>2

\* Block b gets line a, with value v.
SetBlock(s, a, b, v) ==
    [s EXCEPT !.way[b].st = "line", !.way[b].tag = a,
              !.way[b].rd = TRUE, !.way[b].wr = TRUE, !.way[b].val = v]

\* The block that a fill makes, in a way that is not claimed or in the temporary
\* block.
LEMMA FilledStep ==
    ASSUME NEW s, L2Type(s), NEW a, NEW b \in Ways \cup {Temp},
           b \in Ways => s.way[b].st = "line", NEW v
    PROVE  LET z == SetBlock(s, a, b, v)
           IN L2Type(z) /\ Keeps(s, z) /\ Idle(s, z) /\ z.way[b].st = "line"
<1>0. PICK z : z = SetBlock(s, a, b, v)
  BY Zenon
<1>1. /\ IsL2(s) /\ IsBlk(s.way[b]) /\ b \in DOMAIN s.way
  BY Zenon DEF L2Type
<1>2. PICK k : k = [s.way[b] EXCEPT !.st = "line", !.tag = a, !.rd = TRUE,
                                    !.wr = TRUE, !.val = v]
  BY Zenon
<1>3. IsBlk(k) /\ k.st = "line"
  BY Zenon, <1>1, <1>2 DEF IsBlk
<1>5. z.way = [s.way EXCEPT ![b] = k] /\ Idle(s, z) /\ IsL2(z)
  BY ZenonT(60), <1>0, <1>1, <1>2 DEF IsL2, IsBlk, Idle, SetBlock
<1>6. b \in Ways => s.way[b].st # "spm"
  OBVIOUS
<1>7. L2Type(z) /\ Keeps(s, z)
  BY Zenon, <1>3, <1>5, <1>6, BlockStep
<1> QED
  BY Zenon, <1>0, <1>1, <1>3, <1>5, <1>7

\* The targets tgs that wait for line a are serviced, and the others are left in
\* MSHR n.
Split(s, a, tgs, n) ==
    /\ tgs \in Seq(TargetType)
    /\ n \in MshrType /\ n.tg \o n.df \in Seq(TargetType)
    /\ Waiting(s, a) = tgs \o (n.tg \o n.df)

\* The targets of an MSHR are serviced and the others wait on.
LEMMA ServedStep ==
    ASSUME NEW s, L2Type(s), NEW f, L2Type(f), Keeps(s, f), Idle(s, f), NEW a \in Lines,
           NEW tgs, NEW n, Split(s, a, tgs, n),
           NEW g, ServicedFirst(f, g, tgs, Len(tgs))
    PROVE  LET z == SetMshr(g, a, n)
           IN /\ L2Type(z) /\ Keeps(s, z) /\ z.way = g.way /\ z.bad = g.bad
              /\ z.bad = "none" => Settles(s, z, a)
<1>s. PICK rest \in Seq(TargetType) :
         /\ tgs \in Seq(TargetType) /\ n \in MshrType
         /\ n.tg \o n.df = rest /\ Waiting(s, a) = tgs \o rest
  BY Zenon DEF Split
<1>0. PICK z : z = SetMshr(g, a, n)
  BY Zenon
<1>t. L2Type(g) /\ n \in MshrType
  BY Zenon, <1>s DEF ServicedFirst
<1>1. Keeps(f, g) /\ g.mshr = s.mshr
  BY Zenon DEF ServicedFirst, Idle
<1>2. /\ L2Type(z) /\ Keeps(g, z) /\ z.owed = g.owed /\ z.bad = g.bad
      /\ z.way = g.way /\ z.mshr[a] = n
      /\ \A b \in Lines \ {a} : z.mshr[b] = g.mshr[b]
  <2>1. LET y == SetMshr(g, a, n)
        IN /\ L2Type(y) /\ Keeps(g, y) /\ y.owed = g.owed /\ y.bad = g.bad
           /\ y.way = g.way /\ y.mshr[a] = n
           /\ \A b \in Lines \ {a} : y.mshr[b] = g.mshr[b]
    BY Zenon, <1>t, OneMshr
  <2> QED
    BY Zenon, <1>0, <2>1
<1>3. Keeps(s, z)
  BY Zenon, <1>t, <1>1, <1>2, KeepsTrans
<1>4. Waiting(z, a) = rest
  BY Zenon, <1>s, <1>2 DEF Waiting
<1>5. ASSUME z.bad = "none"
      PROVE  Settles(s, z, a)
  <2>1. \A b \in Lines \ {a} : z.mshr[b] = s.mshr[b]
    BY Zenon, <1>1, <1>2
  <2>2. Len(Waiting(z, a)) <= Len(Waiting(s, a))
    <3>1. Len(rest) <= Len(tgs \o rest)
      BY <1>s
    <3> QED
      BY Zenon, <1>s, <1>4, <3>1
  <2>3. ASSUME NEW w \in Ways
        PROVE  z.owed[w] = s.owed[w] - Owing(s, a, w) + Owing(z, a, w)
    <3>1. z.owed[w] = s.owed[w] - Commands(tgs, Len(tgs), w)
      BY Zenon, <1>2, <1>5 DEF ServicedFirst, Idle
    <3>2. Owing(s, a, w) = Commands(tgs, Len(tgs), w) + Owing(z, a, w)
      <4>1. Commands(tgs \o rest, Len(tgs \o rest), w) =
              Commands(tgs, Len(tgs), w) + Commands(rest, Len(rest), w)
        <5>1. tgs \in Seq(TargetType) /\ rest \in Seq(TargetType)
          BY Zenon, <1>s
        <5> QED
          BY Zenon, <5>1, CommandsConcat
      <4> QED
        BY Zenon, <1>s, <1>4, <4>1 DEF Owing
    <3>3. Owing(z, a, w) \in Nat /\ s.owed[w] \in Int
      BY Zenon, <1>2, OwingTyped
    <3>4. Commands(tgs, Len(tgs), w) \in Nat
      <4>1. Len(tgs) \in Nat
        BY Zenon, <1>s, LenProperties
      <4> QED
        BY Zenon, <4>1, CommandsFinite
    <3> QED
      BY <3>1, <3>2, <3>3, <3>4
  <2> QED
    BY Zenon, <2>1, <2>2, <2>3 DEF Settles
<1> QED
  BY Zenon, <1>0, <1>2, <1>3, <1>5

\* All targets are serviced.
LEMMA SplitAll ==
    ASSUME NEW s, L2Type(s), NEW a \in Lines
    PROVE  Split(s, a, Waiting(s, a), NoMshr)
<1>1. PICK tgs \in Seq(TargetType) : tgs = Waiting(s, a)
  BY Zenon, MshrTyped
<1>2. NoMshr \in MshrType /\ NoMshr.tg \o NoMshr.df = <<>> /\ <<>> \in Seq(TargetType)
  BY DEF NoMshr, MshrType
<1>3. tgs \o <<>> = tgs
  OBVIOUS
<1> QED
  BY Zenon, <1>1, <1>2, <1>3 DEF Split

\* recvTimingResp for a fill answers every command that waits for the line.
LEMMA FillStep ==
    ASSUME NEW s, L2Type(s), NEW a \in Lines, NEW data, NEW z \in FillFrom(s, a, data)
    PROVE  /\ L2Type(z) /\ Keeps(s, z)
           /\ z.bad = "none" => Settles(s, z, a)
<1> DEFINE m == s.mshr[a]
           blocks == IF Find(s, a) # {} THEN {<<s, w>> : w \in Find(s, a)}
                     ELSE IF IsSpm(m.tg[1]) THEN {<<s, Temp>>}
                     ELSE {<<r[1], IF r[2] = None THEN Temp ELSE r[2]>>
                           : r \in Allocate(s, a)}
           Filled(y, b) ==
               [y EXCEPT !.way[b].st = "line", !.way[b].tag = a,
                         !.way[b].rd = TRUE, !.way[b].wr = TRUE,
                         !.way[b].val = IF m.sent \in {"read", "readEx"}
                                        THEN data ELSE @]
           Done(g, b) == LET y == SetMshr(g, a, NoMshr)
                         IN IF b = Temp THEN Evict(y, Temp) ELSE y
<1>1. \/ z = Bad(s, "fill") \/ z = Bad(s, "nodata")
      \/ \E r \in blocks :
            z = Done(ServiceAll(Filled(r[1], r[2]), a, r[2], m.tg \o m.df), r[2])
  <2>1. CASE Places(s.buf, a) # {}
    <3>1. FillFrom(s, a, data) = {Bad(s, "fill")}
      BY Zenon, <2>1 DEF FillFrom
    <3> QED
      BY Zenon, <3>1
  <2>2. CASE Places(s.buf, a) = {} /\ Find(s, a) = {} /\ m.sent = "upgrade"
    <3>1. FillFrom(s, a, data) = {Bad(s, "nodata")}
      BY Zenon, <2>2 DEF FillFrom
    <3> QED
      BY Zenon, <3>1
  <2>3. CASE Places(s.buf, a) = {} /\ ~(Find(s, a) = {} /\ m.sent = "upgrade")
    <3>1. FillFrom(s, a, data) =
            {Done(ServiceAll(Filled(r[1], r[2]), a, r[2], m.tg \o m.df), r[2])
             : r \in blocks}
      BY Zenon, <2>3 DEF FillFrom, SetMshr
    <3> HIDE DEF Done, Filled, blocks
    <3> QED
      BY Zenon, <3>1
  <2> QED
    BY Zenon, <2>1, <2>2, <2>3
<1>2. ASSUME NEW name, name # "none", z = Bad(s, name)
      PROVE  L2Type(z) /\ Keeps(s, z) /\ z.bad # "none"
  BY Zenon, <1>2, BadStep
<1>3. "fill" # "none" /\ "nodata" # "none"
  OBVIOUS
<1>4. ASSUME NEW r \in blocks
      PROVE  /\ L2Type(r[1]) /\ Keeps(s, r[1]) /\ Idle(s, r[1])
             /\ r[2] \in Ways \cup {Temp}
             /\ r[2] \in Ways => r[1].way[r[2]].st = "line"
  <2>1. ASSUME NEW w \in Find(s, a), r = <<s, w>>
        PROVE  /\ L2Type(r[1]) /\ Keeps(s, r[1]) /\ Idle(s, r[1])
               /\ r[2] \in Ways /\ r[1].way[r[2]].st = "line"
    <3>1. r[1] = s /\ r[2] = w
      BY <2>1
    <3>2. w \in Ways /\ s.way[w].st = "line"
      BY Zenon DEF Find
    <3> QED
      BY Zenon, <3>1, <3>2, KeepsSame DEF Idle
  <2>2. CASE r = <<s, Temp>>
    <3>1. r[1] = s /\ r[2] = Temp
      BY <2>2
    <3> QED
      BY Zenon, <3>1, KeepsSame, ConstantsAssumption DEF Idle
  <2>3. ASSUME NEW y \in Allocate(s, a), r = <<y[1], IF y[2] = None THEN Temp ELSE y[2]>>
        PROVE  /\ L2Type(r[1]) /\ Keeps(s, r[1]) /\ Idle(s, r[1])
               /\ r[2] \in Ways \cup {Temp}
               /\ r[2] \in Ways => r[1].way[r[2]].st = "line"
    <3>1. r[1] = y[1] /\ r[2] = IF y[2] = None THEN Temp ELSE y[2]
      BY <2>3
    <3>2. /\ L2Type(y[1]) /\ Keeps(s, y[1]) /\ Idle(s, y[1])
          /\ y[2] = None \/ (y[2] \in Ways /\ y[1].way[y[2]].st = "line")
      BY Zenon, AllocateStep
    <3> QED
      BY Zenon, <3>1, <3>2, ConstantsAssumption
  <2> QED
    BY Zenon, <2>1, <2>2, <2>3
<1>5. ASSUME NEW r \in blocks,
             z = Done(ServiceAll(Filled(r[1], r[2]), a, r[2], m.tg \o m.df), r[2])
      PROVE  /\ L2Type(z) /\ Keeps(s, z)
             /\ z.bad = "none" => Settles(s, z, a)
  <2>1. PICK y, b : y = r[1] /\ b = r[2]
    BY Zenon
  <2>2. /\ L2Type(y) /\ Keeps(s, y) /\ Idle(s, y) /\ b \in Ways \cup {Temp}
        /\ b \in Ways => y.way[b].st = "line"
    BY Zenon, <1>4, <2>1
  <2>3. PICK f : f = Filled(y, b)
    BY Zenon
  <2>4. PICK v : f = SetBlock(y, a, b, v)
    BY Zenon, <2>3 DEF SetBlock
  <2>5. L2Type(f) /\ Keeps(y, f) /\ Idle(y, f) /\ f.way[b].st = "line"
    BY Zenon, <2>2, <2>4, FilledStep
  <2>6. Keeps(s, f) /\ Idle(s, f)
    BY Zenon, <2>2, <2>5, KeepsTrans DEF Idle
  <2>7. PICK tgs \in Seq(TargetType) : tgs = m.tg \o m.df /\ tgs = Waiting(s, a)
    BY Zenon, MshrTyped DEF Waiting
  <2>8. PICK g : g = ServiceAll(f, a, b, tgs)
    BY Zenon
  <2>9. ServicedFirst(f, g, tgs, Len(tgs))
    BY Zenon, <2>2, <2>5, <2>8, ServiceAllStep
  <2>10. PICK h : h = SetMshr(g, a, NoMshr)
    BY Zenon
  <2>11. Split(s, a, tgs, NoMshr)
    BY Zenon, <2>7, SplitAll
  <2>12. /\ L2Type(h) /\ Keeps(s, h) /\ (h.bad = "none" => Settles(s, h, a))
    BY Zenon, <2>5, <2>6, <2>9, <2>10, <2>11, ServedStep
  <2>13. CASE b # Temp
    BY Zenon, <1>5, <2>1, <2>3, <2>7, <2>8, <2>10, <2>12, <2>13
  <2>14. CASE b = Temp
    <3>1. z = Evict(h, Temp)
      BY Zenon, <1>5, <2>1, <2>3, <2>7, <2>8, <2>10, <2>14
    <3>2. /\ L2Type(z) /\ Keeps(h, z) /\ Idle(h, z) /\ z.bad = h.bad
      BY Zenon, <2>12, <3>1, EvictStep, ConstantsAssumption
    <3>3. Keeps(s, z)
      BY Zenon, <2>12, <3>2, KeepsTrans
    <3> QED
      BY Zenon, <2>12, <3>2, <3>3 DEF Settles, Idle, Waiting, Owing
  <2> QED
    BY Zenon, <2>13, <2>14
<1> HIDE DEF blocks, Filled, Done
<1> QED
  BY Zenon, <1>1, <1>2, <1>3, <1>5

\* A block that may no longer be read is otherwise the block it was.
LEMMA UnreadableStep ==
    ASSUME NEW s, L2Type(s), NEW b \in Ways \cup {Temp}
    PROVE  LET z == [s EXCEPT !.way[b].rd = FALSE]
           IN L2Type(z) /\ Keeps(s, z) /\ Idle(s, z) /\ z.bad = s.bad
<1>1. /\ IsL2(s) /\ s.way = [x \in Ways \cup {Temp} |-> s.way[x]]
      /\ \A x \in Ways \cup {Temp} : IsBlk(s.way[x])
  BY Zenon DEF L2Type
<1>2. PICK k : k = [s.way[b] EXCEPT !.rd = FALSE]
  BY Zenon
<1>3. IsBlk(k) /\ k.st = s.way[b].st /\ k.val = s.way[b].val
  <2>1. PICK q : q = s.way[b] /\ IsBlk(q)
    BY Zenon, <1>1
  <2>2. k = [q EXCEPT !.rd = FALSE]
    BY Zenon, <1>2, <2>1
  <2>3. IsBlk(k) /\ k.st = q.st /\ k.val = q.val
    BY Zenon, <2>1, <2>2 DEF IsBlk
  <2> QED
    BY Zenon, <2>1, <2>3
<1>4. PICK z : z = [s EXCEPT !.way[b].rd = FALSE]
  BY Zenon
<1>5. IsL2(z) /\ Idle(s, z) /\ z.bad = s.bad /\ z.way = [s.way EXCEPT ![b] = k]
  BY Zenon, <1>1, <1>2, <1>4 DEF IsL2, Idle
<1>6. /\ \A x \in Ways \cup {Temp} : z.way[x] = IF x = b THEN k ELSE s.way[x]
      /\ z.way = [x \in Ways \cup {Temp} |-> z.way[x]]
  BY Zenon, <1>1, <1>5
<1>7. /\ \A x \in Ways \cup {Temp} : IsBlk(z.way[x])
      /\ \A x \in Ways : z.way[x].st = s.way[x].st /\ z.way[x].val = s.way[x].val
  BY Zenon, <1>1, <1>3, <1>6
<1>8. L2Type(z)
  BY Zenon, <1>5, <1>6, <1>7 DEF L2Type, Idle
<1>9. Keeps(s, z)
  <2>1. ASSUME NEW w \in Ways
        PROVE  s.owed[w] \in Int /\ z.owed[w] = s.owed[w]
    BY Zenon, <1>5 DEF L2Type, Idle
  <2> QED
    BY <1>7, <2>1 DEF Keeps
<1> QED
  BY Zenon, <1>4, <1>5, <1>8, <1>9

\* recvTimingResp for a forwarded upgrade answers the commands it services.
LEMMA ForwardedStep ==
    ASSUME NEW s, L2Type(s), NEW a \in Lines
    PROVE  LET z == ForwardedResp(s, a)
           IN /\ L2Type(z) /\ Keeps(s, z)
              /\ z.bad = "none" => Settles(s, z, a)
<1> DEFINE m == s.mshr[a]
           b == IF Find(s, a) = {} THEN None ELSE CHOOSE w \in Find(s, a) : TRUE
           promote == b # None /\ s.way[b].wr
           next == [tg |-> m.df, df |-> <<>>, sent |-> "none"]
<1>1. PICK y :
         /\ \/ y = SetMshr(ServiceAll(s, a, b, m.tg \o m.df), a, NoMshr)
            \/ y = SetMshr(ServiceAll(s, a, b, m.tg), a, next)
         /\ \/ ForwardedResp(s, a) = y
            \/ b # None /\ ForwardedResp(s, a) = [y EXCEPT !.way[b].rd = FALSE]
  <2>1. CASE promote
    BY Zenon, <2>1 DEF ForwardedResp, SetMshr
  <2>2. CASE ~promote
    BY Zenon, <2>2 DEF ForwardedResp, SetMshr
  <2> QED
    BY Zenon, <2>1, <2>2
<1>2. PICK k : k = b
  BY Zenon
<1>3. k \in Ways \cup {Temp, None} /\ (k \in Ways => s.way[k].st = "line")
  <2>1. Find(s, a) = {} => k = None
    BY Zenon, <1>2
  <2>2. Find(s, a) # {} => k \in Find(s, a)
    BY Zenon, <1>2
  <2> QED
    BY Zenon, <2>1, <2>2, ConstantsAssumption DEF Find
<1> HIDE DEF b
<1>4. /\ m.tg \in Seq(TargetType) /\ m.df \in Seq(TargetType)
      /\ Waiting(s, a) = m.tg \o m.df /\ Waiting(s, a) \in Seq(TargetType)
  BY Zenon, MshrTyped DEF Waiting
<1>5. Keeps(s, s) /\ Idle(s, s)
  BY Zenon, KeepsSame DEF Idle
<1>6. ASSUME NEW tgs \in Seq(TargetType), NEW n, Split(s, a, tgs, n),
             NEW z, z = SetMshr(ServiceAll(s, a, k, tgs), a, n)
      PROVE  /\ L2Type(z) /\ Keeps(s, z)
             /\ z.bad = "none" => Settles(s, z, a)
  <2>1. PICK g : g = ServiceAll(s, a, k, tgs)
    BY Zenon
  <2>2. ServicedFirst(s, g, tgs, Len(tgs))
    BY Zenon, <1>3, <2>1, ServiceAllStep
  <2>3. z = SetMshr(g, a, n)
    BY Zenon, <1>6, <2>1
  <2> QED
    BY Zenon, <1>5, <1>6, <2>2, <2>3, ServedStep
<1>7. ASSUME y = SetMshr(ServiceAll(s, a, b, m.tg \o m.df), a, NoMshr)
      PROVE  /\ L2Type(y) /\ Keeps(s, y)
             /\ y.bad = "none" => Settles(s, y, a)
  <2>1. PICK tgs \in Seq(TargetType) : tgs = m.tg \o m.df /\ tgs = Waiting(s, a)
    BY Zenon, <1>4
  <2>2. Split(s, a, tgs, NoMshr)
    BY Zenon, <2>1, SplitAll
  <2>3. PICK z : z = y
    BY Zenon
  <2>4. z = SetMshr(ServiceAll(s, a, k, tgs), a, NoMshr)
    BY Zenon, <1>2, <1>7, <2>1, <2>3
  <2>5. /\ L2Type(z) /\ Keeps(s, z)
        /\ z.bad = "none" => Settles(s, z, a)
    BY Zenon, <1>6, <2>2, <2>4
  <2> QED
    BY Zenon, <2>3, <2>5
<1>8. ASSUME y = SetMshr(ServiceAll(s, a, b, m.tg), a, next)
      PROVE  /\ L2Type(y) /\ Keeps(s, y)
             /\ y.bad = "none" => Settles(s, y, a)
  <2>1. PICK tgs \in Seq(TargetType), rest \in Seq(TargetType) : tgs = m.tg /\ rest = m.df
    BY Zenon, <1>4
  <2>2. next = [tg |-> rest, df |-> <<>>, sent |-> "none"]
    BY Zenon, <2>1
  <2> HIDE DEF next
  <2>3. next \in MshrType /\ next.tg \o next.df = rest
    BY <2>2 DEF MshrType
  <2>4. PICK z : z = y
    BY Zenon
  <2>5. z = SetMshr(ServiceAll(s, a, k, tgs), a, next)
    BY Zenon, <1>2, <1>8, <2>1, <2>4
  <2>6. Split(s, a, tgs, next)
    BY Zenon, <1>4, <2>1, <2>3 DEF Split
  <2>7. /\ L2Type(z) /\ Keeps(s, z)
        /\ z.bad = "none" => Settles(s, z, a)
    BY Zenon, <1>6, <2>5, <2>6
  <2> QED
    BY Zenon, <2>4, <2>7
<1>9. /\ L2Type(y) /\ Keeps(s, y)
      /\ y.bad = "none" => Settles(s, y, a)
  BY Zenon, <1>1, <1>7, <1>8
<1>10. CASE b # None /\ ForwardedResp(s, a) = [y EXCEPT !.way[b].rd = FALSE]
  <2>1. PICK z : z = [y EXCEPT !.way[k].rd = FALSE]
    BY Zenon
  <2>2. k \in Ways \cup {Temp} /\ z = ForwardedResp(s, a)
    BY Zenon, <1>2, <1>3, <1>10, <2>1
  <2>3. L2Type(z) /\ Keeps(y, z) /\ Idle(y, z) /\ z.bad = y.bad
    <3>1. LET x == [y EXCEPT !.way[k].rd = FALSE]
          IN L2Type(x) /\ Keeps(y, x) /\ Idle(y, x) /\ x.bad = y.bad
      BY Zenon, <1>9, <2>2, UnreadableStep
    <3> QED
      BY Zenon, <2>1, <3>1
  <2>4. Keeps(s, z)
    BY Zenon, <1>9, <2>3, KeepsTrans
  <2>5. z.bad = "none" => Settles(s, z, a)
    BY Zenon, <1>9, <2>3 DEF Settles, Idle, Waiting, Owing
  <2> QED
    BY Zenon, <2>2, <2>3, <2>4, <2>5
<1> QED
  BY Zenon, <1>1, <1>9, <1>10

=============================================================================
