--------------------------- MODULE SpmCacheProofs ---------------------------
(***************************************************************************)
(* Whatever commands, loads and stores the program mixes, the L2 answers   *)
(* each scratchpad command once and never gives up a claimed way.          *)
(***************************************************************************)
EXTENDS SpmCacheCounts

-----------------------------------------------------------------------------
(* The acknowledgements that are owed, counted over all lines. *)

\* TargetsOf in any state s of the L2, and its part outside line a.
WaitingOf(s, w) ==
    {x \in Lines \X (1 .. MaxTargets + 1) :
        x[2] \in DOMAIN Waiting(s, x[1]) /\ Waiting(s, x[1])[x[2]].w = w}
Elsewhere(s, a, w) == {x \in WaitingOf(s, w) : x[1] # a}

\* The targets of every line fit into its MSHR; there is room for one more.
Fits(s) == \A a \in Lines : Len(Waiting(s, a)) <= MaxTargets
Room(s) == \A a \in Lines : Len(Waiting(s, a)) < MaxTargets

\* OwedExact for slot w, with write buffer q of the L1 and state s of the L2.
Balance(q, s, w) ==
    s.owed[w] = Commands(q, Len(q), w) + Cardinality(WaitingOf(s, w))

\* The commands of a slot are those that wait for line a and the others.
LEMMA CountLine ==
    ASSUME NEW s, L2Type(s), Fits(s), NEW a \in Lines, NEW w
    PROVE  /\ Cardinality(Elsewhere(s, a, w)) \in Nat
           /\ Cardinality(WaitingOf(s, w)) =
                Cardinality(Elsewhere(s, a, w)) + Owing(s, a, w)
<1>1. PICK tgs \in Seq(TargetType) : tgs = Waiting(s, a)
  BY Zenon, MshrTyped
<1>2. PICK C : C = CommandsAt(tgs, Len(tgs), w)
  BY Zenon
<1>3. Len(tgs) \in Nat /\ DOMAIN tgs = 1 .. Len(tgs)
  BY LenProperties
<1>4. IsFiniteSet(C) /\ Cardinality(C) = Owing(s, a, w) /\ Cardinality(C) \in Nat
  BY Zenon, <1>1, <1>2, <1>3, CommandsFinite DEF Owing, Commands
<1>5. C \subseteq 1 .. MaxTargets + 1
  <2>1. Len(tgs) <= MaxTargets
    BY Zenon, <1>1 DEF Fits
  <2>2. \A j \in 1 .. Len(tgs) : j \in 1 .. MaxTargets + 1
    BY SMTT(30), <1>3, <2>1, ConstantsAssumption
  <2> QED
    BY Zenon, <1>2, <2>2 DEF CommandsAt
<1>6. IsFiniteSet({a} \X C) /\ Cardinality({a} \X C) = Cardinality(C)
  <2>1. IsFiniteSet({a}) /\ Cardinality({a}) = 1
    BY Zenon, FS_Singleton
  <2>2. /\ IsFiniteSet({a} \X C)
        /\ Cardinality({a} \X C) = Cardinality({a}) * Cardinality(C)
    BY Zenon, <1>4, <2>1, FS_Product
  <2> QED
    BY <1>4, <2>1, <2>2
<1>7. IsFiniteSet(Elsewhere(s, a, w))
  <2>1. IsFiniteSet(1 .. MaxTargets + 1)
    BY ConstantsAssumption, FS_Interval
  <2>2. IsFiniteSet(Lines \X (1 .. MaxTargets + 1))
    BY Zenon, <2>1, FS_Product, ConstantsAssumption
  <2>3. Elsewhere(s, a, w) \in SUBSET (Lines \X (1 .. MaxTargets + 1))
    BY Zenon DEF Elsewhere, WaitingOf
  <2> QED
    BY Zenon, <2>2, <2>3, FS_Subset
<1>8. WaitingOf(s, w) = Elsewhere(s, a, w) \cup ({a} \X C)
  <2>1. ASSUME NEW x \in WaitingOf(s, w), x[1] = a
        PROVE  x \in {a} \X C
    <3>1. x = <<x[1], x[2]>> /\ x[2] \in DOMAIN tgs /\ tgs[x[2]].w = w
      <4>1. x \in Lines \X (1 .. MaxTargets + 1)
        BY Zenon DEF WaitingOf
      <4>2. x = <<x[1], x[2]>>
        BY <4>1
      <4> QED
        BY Zenon, <1>1, <2>1, <4>2 DEF WaitingOf
    <3>2. x[2] \in C
      BY Zenon, <1>2, <1>3, <3>1 DEF CommandsAt
    <3> QED
      BY SMTT(30), <2>1, <3>1, <3>2
  <2>2. ASSUME NEW x \in {a} \X C
        PROVE  x \in WaitingOf(s, w)
    <3>1. x[1] = a /\ x[2] \in C /\ x = <<x[1], x[2]>>
      BY <2>2
    <3>2. x \in Lines \X (1 .. MaxTargets + 1)
      BY Zenon, <1>5, <3>1
    <3>3. x[2] \in DOMAIN tgs /\ tgs[x[2]].w = w
      BY Zenon, <1>2, <1>3, <3>1 DEF CommandsAt
    <3> QED
      BY Zenon, <1>1, <3>1, <3>2, <3>3 DEF WaitingOf
  <2> QED
    BY Zenon, <2>1, <2>2 DEF Elsewhere
<1>9. Elsewhere(s, a, w) \cap ({a} \X C) = {}
  <2>1. \A x \in {a} \X C : x[1] = a
    OBVIOUS
  <2> QED
    BY Zenon, <2>1 DEF Elsewhere
<1>10. Cardinality(WaitingOf(s, w)) =
         Cardinality(Elsewhere(s, a, w)) + Cardinality({a} \X C)
  <2>1. PICK D, E : D = Elsewhere(s, a, w) /\ E = {a} \X C
    BY Zenon
  <2>f. IsFiniteSet(D) /\ IsFiniteSet(E)
    BY Zenon, <1>6, <1>7, <2>1
  <2>2. Cardinality(D \cup E) = Cardinality(D) + Cardinality(E) - Cardinality(D \cap E)
    BY Zenon, <2>f, FS_Union
  <2>3. Cardinality(D \cap E) = 0
    BY Zenon, <1>9, <2>1, FS_EmptySet
  <2>4. Cardinality(D) \in Nat /\ Cardinality(E) \in Nat
    BY Zenon, <1>6, <1>7, <2>1, FS_CardinalityType
  <2>5. Cardinality(D \cup E) = Cardinality(D) + Cardinality(E)
    BY SMTT(30), <2>2, <2>3, <2>4
  <2> QED
    BY Zenon, <1>8, <2>1, <2>5
<1>11. Cardinality(Elsewhere(s, a, w)) \in Nat
  BY Zenon, <1>7, FS_CardinalityType
<1> QED
  BY Zenon, <1>4, <1>6, <1>10, <1>11

\* The MSHRs of other lines than a are the same.
Others(s, z, a) == \A b \in Lines \ {a} : z.mshr[b] = s.mshr[b]

\* The other lines' part changes only with their MSHRs.
LEMMA ElsewhereSame ==
    ASSUME NEW s, NEW z, NEW a, NEW w, Others(s, z, a)
    PROVE  Elsewhere(z, a, w) = Elsewhere(s, a, w)
<1>1. \A b \in Lines \ {a} : Waiting(z, b) = Waiting(s, b)
  BY Zenon DEF Waiting, Others
<1>2. \A x \in Lines \X (1 .. MaxTargets + 1) : x[1] \in Lines
  OBVIOUS
<1>3. \A x \in Lines \X (1 .. MaxTargets + 1) : x[1] # a =>
         Waiting(z, x[1]) = Waiting(s, x[1])
  BY Zenon, <1>1, <1>2
<1> QED
  BY Zenon, <1>3 DEF Elsewhere, WaitingOf

\* What the L2 does with a packet of the L1 for line a and slot x, or for no slot:
\* nothing is owed for it, its command is answered, or it waits.
Takes(s, z, a, x) ==
    \/ x = None /\ Idle(s, z)
    \/ x \in Ways /\ Answered(s, z, x)
    \/ \E t \in TargetType : t.w = x /\ Waits(s, z, a, t)

\* The command x leaves the L1: r is what is left of q.
Leaves(q, r, x) ==
    \A w \in Ways : Commands(q, Len(q), w) =
        IF x = w THEN Commands(r, Len(r), w) + 1 ELSE Commands(r, Len(r), w)

\* Idle handlers leave the targets in place.
LEMMA IdleCounts ==
    ASSUME NEW s, NEW z, z.mshr = s.mshr
    PROVE  /\ \A w : WaitingOf(z, w) = WaitingOf(s, w)
           /\ Fits(s) => Fits(z)
<1>1. \A a : Waiting(z, a) = Waiting(s, a)
  BY Zenon DEF Waiting
<1>2. ASSUME NEW w
      PROVE  WaitingOf(z, w) = WaitingOf(s, w)
  <2>1. \A x \in Lines \X (1 .. MaxTargets + 1) : Waiting(z, x[1]) = Waiting(s, x[1])
    BY Zenon, <1>1
  <2> QED
    BY Zenon, <2>1 DEF WaitingOf
<1>3. Fits(s) => Fits(z)
  BY Zenon, <1>1 DEF Fits
<1> QED
  BY Zenon, <1>2, <1>3

\* A response keeps the balance of each slot.
LEMMA BalanceSettles ==
    ASSUME NEW s, L2Type(s), Fits(s), NEW z, L2Type(z), NEW a \in Lines,
           Settles(s, z, a), NEW q
    PROVE  /\ Fits(z)
           /\ \A w \in Ways : Balance(q, s, w) /\ Commands(q, Len(q), w) \in Nat
                               => Balance(q, z, w)
<1>1. Fits(z)
  <2>1. \A b \in Lines \ {a} : Waiting(z, b) = Waiting(s, b)
    BY Zenon DEF Settles, Waiting
  <2>2. Len(Waiting(z, a)) <= MaxTargets
    <3>1. PICK c \in Nat, d \in Nat : c = Len(Waiting(z, a)) /\ d = Len(Waiting(s, a))
      BY Zenon, OwingTyped
    <3>2. c <= d /\ d <= MaxTargets
      BY Zenon, <3>1 DEF Settles, Fits
    <3>3. c <= MaxTargets
      BY SMTT(30), <3>2, ConstantsAssumption
    <3> QED
      BY Zenon, <3>1, <3>3
  <2> QED
    BY Zenon, <2>1, <2>2 DEF Fits
<1>2. ASSUME NEW w \in Ways, Balance(q, s, w), Commands(q, Len(q), w) \in Nat
      PROVE  Balance(q, z, w)
  <2>1. PICK c \in Nat : c = Commands(q, Len(q), w)
    BY Zenon, <1>2
  <2>2. PICK e \in Nat : e = Cardinality(Elsewhere(s, a, w))
                         /\ e = Cardinality(Elsewhere(z, a, w))
    <3>1. Others(s, z, a)
      BY Zenon DEF Settles, Others
    <3>2. Elsewhere(z, a, w) = Elsewhere(s, a, w)
      BY SMTT(30), <3>1, ElsewhereSame
    <3>3. Cardinality(Elsewhere(s, a, w)) \in Nat
      BY Zenon, CountLine
    <3> QED
      BY Zenon, <3>2, <3>3
  <2>3. PICK m \in Nat, n \in Nat : m = Owing(s, a, w) /\ n = Owing(z, a, w)
    BY Zenon, OwingTyped
  <2>4. Cardinality(WaitingOf(s, w)) = e + m
    BY Zenon, <2>2, <2>3, CountLine
  <2>5. Cardinality(WaitingOf(z, w)) = e + n
    BY Zenon, <1>1, <2>2, <2>3, CountLine
  <2>6. s.owed[w] = c + (e + m)
    BY Zenon, <1>2, <2>1, <2>4 DEF Balance
  <2>7. z.owed[w] = s.owed[w] - m + n
    BY Zenon, <2>3 DEF Settles
  <2>8. z.owed[w] = c + (e + n)
    BY <2>6, <2>7
  <2> QED
    BY Zenon, <2>1, <2>5, <2>8 DEF Balance
<1> QED
  BY Zenon, <1>1, <1>2

\* A command that leaves the L1 keeps the balance if the L2 lets it wait.
LEMMA BalanceWaits ==
    ASSUME NEW s, L2Type(s), Room(s), NEW z, L2Type(z), NEW a \in Lines,
           NEW t \in TargetType, Waits(s, z, a, t), NEW q, NEW r, Leaves(q, r, t.w)
    PROVE  /\ Fits(z)
           /\ \A w \in Ways : Balance(q, s, w) /\ Commands(r, Len(r), w) \in Nat
                               => Balance(r, z, w)
<1>1. PICK tgs \in Seq(TargetType) : tgs = Waiting(s, a)
  BY Zenon, MshrTyped
<1>2. Waiting(z, a) = Append(tgs, t)
  BY Zenon, <1>1 DEF Waits
<1>3. \A b \in Lines \ {a} : Waiting(z, b) = Waiting(s, b)
  BY Zenon DEF Waits, Waiting
<1>4. \A b \in Lines : Len(Waiting(s, b)) <= MaxTargets
  <2>1. ASSUME NEW b \in Lines
        PROVE  Len(Waiting(s, b)) <= MaxTargets
    <3>1. Len(Waiting(s, b)) \in Nat /\ Len(Waiting(s, b)) < MaxTargets
      BY Zenon, OwingTyped DEF Room
    <3> QED
      BY <3>1, ConstantsAssumption
  <2> QED
    BY Zenon, <2>1
<1>5. Fits(s) /\ Fits(z)
  <2>1. Len(tgs) < MaxTargets
    BY Zenon, <1>1 DEF Room
  <2>2. Len(Append(tgs, t)) <= MaxTargets
    BY SMTT(30), <2>1, ConstantsAssumption
  <2> QED
    BY Zenon, <1>2, <1>3, <1>4, <2>2 DEF Fits
<1>6. ASSUME NEW w \in Ways, Balance(q, s, w), Commands(r, Len(r), w) \in Nat
      PROVE  Balance(r, z, w)
  <2>1. PICK c \in Nat : c = Commands(r, Len(r), w)
    BY Zenon, <1>6
  <2>2. PICK e \in Nat : e = Cardinality(Elsewhere(s, a, w))
                         /\ e = Cardinality(Elsewhere(z, a, w))
    <3>1. Others(s, z, a)
      BY Zenon DEF Waits, Others
    <3>2. Elsewhere(z, a, w) = Elsewhere(s, a, w)
      BY <3>1, ElsewhereSame
    <3>3. Cardinality(Elsewhere(s, a, w)) \in Nat
      BY Zenon, <1>5, CountLine
    <3> QED
      BY Zenon, <3>2, <3>3
  <2>3. PICK m \in Nat, n \in Nat : m = Owing(s, a, w) /\ n = Owing(z, a, w)
    BY Zenon, OwingTyped
  <2>4. n = IF t.w = w THEN m + 1 ELSE m
    <3>1. Commands(Append(tgs, t), Len(Append(tgs, t)), w) =
            IF t.w = w THEN Commands(tgs, Len(tgs), w) + 1 ELSE Commands(tgs, Len(tgs), w)
      BY Zenon, CommandsAppend
    <3> QED
      BY Zenon, <1>1, <1>2, <2>3, <3>1 DEF Owing
  <2>5. Cardinality(WaitingOf(s, w)) = e + m
    BY Zenon, <1>5, <2>2, <2>3, CountLine
  <2>6. Cardinality(WaitingOf(z, w)) = e + n
    BY Zenon, <1>5, <2>2, <2>3, CountLine
  <2>7. Commands(q, Len(q), w) = IF t.w = w THEN c + 1 ELSE c
    BY Zenon, <2>1 DEF Leaves
  <2>8. z.owed[w] = Commands(q, Len(q), w) + (e + m)
    BY Zenon, <1>6, <2>5 DEF Balance, Waits
  <2>9. z.owed[w] = c + (e + n)
    BY SMTT(30), <2>4, <2>7, <2>8
  <2> QED
    BY Zenon, <2>1, <2>6, <2>9 DEF Balance
<1> QED
  BY Zenon, <1>5, <1>6

\* The L1 write buffer holds packets.
Queue(q) == q \in Seq(Range(q)) /\ \A i \in DOMAIN q : Packet(q[i])

\* A sequence of packets is a queue.
LEMMA QueueOf ==
    ASSUME NEW S, NEW q \in Seq(S), \A e \in S : Packet(e)
    PROVE  Queue(q)
<1>1. PICK n \in Nat : n = Len(q) /\ q \in [1 .. n -> S] /\ DOMAIN q = 1 .. n
  BY Zenon, LenProperties
<1>2. q \in [1 .. n -> Range(q)]
  BY <1>1 DEF Range
<1>3. q \in Seq(Range(q))
  BY <1>2, SeqDef
<1> QED
  BY Zenon, <1>1, <1>3 DEF Queue

\* A queue is a sequence of packets.
LEMMA QueueTyped ==
    ASSUME NEW q, Queue(q)
    PROVE  /\ q \in Seq(Range(q)) /\ \A e \in Range(q) : Packet(e)
           /\ Len(q) \in Nat /\ DOMAIN q = 1 .. Len(q)
           /\ \A w : Commands(q, Len(q), w) \in Nat
<1>1. q \in Seq(Range(q)) /\ \A e \in Range(q) : Packet(e)
  BY Zenon DEF Queue, Range
<1>2. Len(q) \in Nat /\ DOMAIN q = 1 .. Len(q)
  BY Zenon, <1>1, LenProperties
<1> QED
  BY Zenon, <1>1, <1>2, CommandsFinite

\* A packet more in the queue.
LEMMA QueueAppend ==
    ASSUME NEW q, Queue(q), NEW e, Packet(e)
    PROVE  /\ Queue(Append(q, e))
           /\ Leaves(Append(q, e), q, e.w)
<1>1. q \in Seq(Range(q)) /\ \A d \in Range(q) : Packet(d)
  BY Zenon, QueueTyped
<1>2. PICK S : S = Range(q) \cup {e}
  BY Zenon
<1>3. q \in Seq(S)
  <2>1. Range(q) \subseteq S
    BY Zenon, <1>2
  <2> QED
    BY Zenon, <1>1, <2>1, SeqMonotonic
<1>4. Append(q, e) \in Seq(S)
  BY <1>2, <1>3
<1>5. \A d \in S : Packet(d)
  BY Zenon, <1>1, <1>2
<1>6. Queue(Append(q, e))
  BY Zenon, <1>4, <1>5, QueueOf
<1>7. ASSUME NEW w \in Ways
      PROVE  Commands(Append(q, e), Len(Append(q, e)), w) =
               IF e.w = w THEN Commands(q, Len(q), w) + 1 ELSE Commands(q, Len(q), w)
  BY Zenon, <1>1, CommandsAppend
<1> QED
  BY Zenon, <1>6, <1>7 DEF Leaves

\* A packet less in the queue.
LEMMA QueueRemove ==
    ASSUME NEW q, Queue(q), NEW i \in 1 .. Len(q)
    PROVE  /\ Queue(Deallocate(q, i)) /\ Packet(q[i])
           /\ Leaves(q, Deallocate(q, i), q[i].w)
<1>1. /\ q \in Seq(Range(q)) /\ \A d \in Range(q) : Packet(d)
      /\ DOMAIN q = 1 .. Len(q)
  BY Zenon, QueueTyped
<1>2. Deallocate(q, i) \in Seq(Range(q))
  BY ZenonT(60), <1>1, CommandsRemove
<1>3. Queue(Deallocate(q, i))
  BY Zenon, <1>1, <1>2, QueueOf
<1>4. Packet(q[i])
  BY Zenon, <1>1 DEF Queue
<1>5. ASSUME NEW w \in Ways
      PROVE  Commands(q, Len(q), w) =
               IF q[i].w = w
               THEN Commands(Deallocate(q, i), Len(Deallocate(q, i)), w) + 1
               ELSE Commands(Deallocate(q, i), Len(Deallocate(q, i)), w)
  BY ZenonT(60), <1>1, CommandsRemove
<1> QED
  BY Zenon, <1>3, <1>4, <1>5 DEF Leaves

\* AnswerInv of a write buffer q of the L1 and a state s of the L2.
Sound(q, s) ==
    /\ L2Type(s) /\ Queue(q)
    /\ s.bad = "none" => Fits(s) /\ \A w \in Ways : Balance(q, s, w)

\* The targets of a slot are finitely many.
LEMMA SoundCount ==
    ASSUME NEW s, NEW w
    PROVE  Cardinality(WaitingOf(s, w)) \in Nat
<1>1. IsFiniteSet(1 .. MaxTargets + 1)
  BY ConstantsAssumption, FS_Interval
<1>2. IsFiniteSet(Lines \X (1 .. MaxTargets + 1))
  BY Zenon, <1>1, FS_Product, ConstantsAssumption
<1>3. WaitingOf(s, w) \in SUBSET (Lines \X (1 .. MaxTargets + 1))
  BY Zenon DEF WaitingOf
<1> QED
  BY Zenon, <1>2, <1>3, FS_Subset, FS_CardinalityType

\* The L2 takes a packet that leaves the L1.
LEMMA SoundTakes ==
    ASSUME NEW q, NEW s, Sound(q, s), s.bad = "none", Room(s), NEW r, Queue(r),
           NEW z, L2Type(z), NEW a \in Lines, NEW x, Leaves(q, r, x),
           z.bad = "none" => Takes(s, z, a, x)
    PROVE  Sound(r, z)
<1>1. /\ L2Type(s) /\ Fits(s) /\ \A w \in Ways : Balance(q, s, w)
      /\ \A w \in Ways : Commands(r, Len(r), w) \in Nat
  BY Zenon, QueueTyped DEF Sound
<1>2. ASSUME x = None, Idle(s, z)
      PROVE  Fits(z) /\ \A w \in Ways : Balance(r, z, w)
  <2>1. z.mshr = s.mshr
    BY Zenon, <1>2 DEF Idle
  <2>2. Fits(z) /\ \A w : WaitingOf(z, w) = WaitingOf(s, w)
    BY Zenon, <1>1, <2>1, IdleCounts
  <2>3. \A w \in Ways : Commands(r, Len(r), w) = Commands(q, Len(q), w)
    BY Zenon, <1>2, ConstantsAssumption DEF Leaves
  <2> QED
    BY Zenon, <1>1, <1>2, <2>2, <2>3 DEF Balance, Idle
<1>3. ASSUME x \in Ways, Answered(s, z, x)
      PROVE  Fits(z) /\ \A w \in Ways : Balance(r, z, w)
  <2>1. z.mshr = s.mshr
    BY Zenon, <1>3 DEF Answered
  <2>2. Fits(z) /\ \A w : WaitingOf(z, w) = WaitingOf(s, w)
    BY Zenon, <1>1, <2>1, IdleCounts
  <2>3. ASSUME NEW w \in Ways
        PROVE  Balance(r, z, w)
    <3>1. PICK c \in Nat : c = Commands(r, Len(r), w)
      BY Zenon, <1>1
    <3>2. PICK k \in Nat : k = Cardinality(WaitingOf(s, w))
      BY Zenon, SoundCount
    <3>3. s.owed[w] = Commands(q, Len(q), w) + k
      BY Zenon, <1>1, <3>2 DEF Balance
    <3>4. Commands(q, Len(q), w) = IF x = w THEN c + 1 ELSE c
      BY Zenon, <3>1 DEF Leaves
    <3>5. z.owed[w] = IF x = w THEN s.owed[w] - 1 ELSE s.owed[w]
      BY Zenon, <1>1, <1>3 DEF Answered, L2Type
    <3>6. z.owed[w] = c + k
      BY <3>3, <3>4, <3>5
    <3> QED
      BY Zenon, <2>2, <3>1, <3>2, <3>6 DEF Balance
  <2> QED
    BY Zenon, <2>2, <2>3
<1>4. ASSUME NEW t \in TargetType, t.w = x, Waits(s, z, a, t)
      PROVE  Fits(z) /\ \A w \in Ways : Balance(r, z, w)
  <2>1. Leaves(q, r, t.w)
    BY Zenon, <1>4
  <2> QED
    BY Zenon, <1>1, <1>4, <2>1, BalanceWaits
<1> QED
  BY Zenon, <1>2, <1>3, <1>4 DEF Sound, Takes

\* A response reaches the L2.
LEMMA SoundSettles ==
    ASSUME NEW q, NEW s, Sound(q, s), s.bad = "none", NEW z, L2Type(z),
           NEW a \in Lines, z.bad = "none" => Settles(s, z, a)
    PROVE  Sound(q, z)
<1>1. /\ L2Type(s) /\ Fits(s) /\ Queue(q) /\ \A w \in Ways : Balance(q, s, w)
      /\ \A w \in Ways : Commands(q, Len(q), w) \in Nat
  BY Zenon, QueueTyped DEF Sound
<1>2. ASSUME z.bad = "none"
      PROVE  Fits(z) /\ \A w \in Ways : Balance(q, z, w)
  BY Zenon, <1>1, <1>2, BalanceSettles
<1> QED
  BY Zenon, <1>1, <1>2 DEF Sound

\* The targets and the answers stay as they are, and so do the L1's commands.
LEMMA SoundIdle ==
    ASSUME NEW q, NEW s, Sound(q, s), s.bad = "none", NEW r, Queue(r),
           \A w \in Ways : Commands(r, Len(r), w) = Commands(q, Len(q), w),
           NEW z, L2Type(z), Idle(s, z)
    PROVE  Sound(r, z)
<1>1. Fits(s) /\ \A w \in Ways : Balance(q, s, w)
  BY Zenon DEF Sound
<1>2. z.mshr = s.mshr /\ z.owed = s.owed
  BY Zenon DEF Idle
<1>3. Fits(z) /\ \A w : WaitingOf(z, w) = WaitingOf(s, w)
  BY Zenon, <1>1, <1>2, IdleCounts
<1> QED
  BY Zenon, <1>1, <1>2, <1>3 DEF Sound, Balance

\* A command enters the write buffer of the L1, and its answer is owed.
LEMMA SoundCommand ==
    ASSUME NEW q, NEW s, Sound(q, s), s.bad = "none", NEW e, Packet(e), e.w \in Ways
    PROVE  LET z == [s EXCEPT !.owed[e.w] = @ + 1]
           IN Sound(Append(q, e), z) /\ z.way = s.way
<1>1. PICK z : z = [s EXCEPT !.owed[e.w] = @ + 1]
  BY Zenon
<1>2. IsL2(s) /\ s.owed \in [Ways -> Int] /\ L2Type(s)
  BY Zenon DEF Sound, L2Type
<1>3. /\ z.way = s.way /\ z.mshr = s.mshr /\ z.bad = s.bad /\ IsL2(z)
      /\ z.owed = [s.owed EXCEPT ![e.w] = @ + 1]
  BY <1>1, <1>2 DEF IsL2
<1>4. /\ z.owed \in [Ways -> Int]
      /\ \A w \in Ways : z.owed[w] = IF e.w = w THEN s.owed[w] + 1 ELSE s.owed[w]
  <2>1. s.owed[e.w] + 1 \in Int
    BY <1>2
  <2> QED
    BY Zenon, <1>2, <1>3, <2>1
<1>5. L2Type(z)
  BY Zenon, <1>2, <1>3, <1>4 DEF L2Type
<1>6. /\ Queue(q) /\ Fits(s) /\ \A w \in Ways : Balance(q, s, w)
  BY Zenon DEF Sound
<1>7. Fits(z) /\ \A w : WaitingOf(z, w) = WaitingOf(s, w)
  BY Zenon, <1>3, <1>6, IdleCounts
<1>8. Queue(Append(q, e)) /\ Leaves(Append(q, e), q, e.w)
  BY Zenon, <1>6, QueueAppend
<1>9. ASSUME NEW w \in Ways
      PROVE  Balance(Append(q, e), z, w)
  <2>1. PICK c \in Nat : c = Commands(q, Len(q), w)
    BY Zenon, <1>6, QueueTyped
  <2>2. PICK k \in Nat : k = Cardinality(WaitingOf(s, w))
    BY Zenon, SoundCount
  <2>3. PICK o \in Int : o = s.owed[w] /\ o = c + k
    BY Zenon, <1>2, <1>6, <2>1, <2>2 DEF Balance
  <2>4. Commands(Append(q, e), Len(Append(q, e)), w) = IF e.w = w THEN c + 1 ELSE c
    BY Zenon, <1>8, <2>1 DEF Leaves
  <2>5. CASE e.w = w
    <3>1. o + 1 = (c + 1) + k
      BY <2>3
    <3> QED
      BY Zenon, <1>4, <1>7, <2>2, <2>3, <2>4, <2>5, <3>1 DEF Balance
  <2>6. CASE e.w # w
    BY Zenon, <1>4, <1>7, <2>2, <2>3, <2>4, <2>6 DEF Balance
  <2> QED
    BY Zenon, <2>5, <2>6
<1> QED
  BY Zenon, <1>1, <1>3, <1>5, <1>7, <1>8, <1>9 DEF Sound

-----------------------------------------------------------------------------
(* The steps of the two caches. *)

\* The counters of the operations.
Counters(u) ==
    /\ u = [store |-> u.store, copy |-> u.copy, wb |-> u.wb, load |-> u.load]
    /\ u.store \in Nat

\* ClaimedForever for a step of the L2 from s to z while the counters go from u
\* to v.
Claimed(s, z, u, v) ==
    \A w \in Ways : s.way[w].st = "spm" =>
        /\ z.way[w].st = "spm"
        /\ z.way[w].val # s.way[w].val =>
              z.owed[w] < s.owed[w] \/ v.store > u.store

\* AnswerInv is about the write buffer of the L1, the L2 and the counters.
LEMMA InvForm == AnswerInv <=> Sound(q1, l2) /\ Counters(used)
<1>1. Running <=> l2.bad = "none"
  BY DEF Running
<1>2. ASSUME L2Type(l2)
      PROVE  TargetsFit <=> (Running => Fits(l2))
  <2>1. ASSUME NEW a \in Lines
        PROVE  Len(Waiting(l2, a)) = Len(l2.mshr[a].tg) + Len(l2.mshr[a].df)
    <3>1. l2.mshr[a].tg \in Seq(TargetType) /\ l2.mshr[a].df \in Seq(TargetType)
      BY Zenon, <1>2, MshrTyped
    <3> QED
      BY Zenon, <3>1, ConcatProperties DEF Waiting
  <2> QED
    BY Zenon, <2>1 DEF TargetsFit, Fits
<1>3. ASSUME Queue(q1), NEW w
      PROVE  {i \in DOMAIN q1 : q1[i].w = w} = CommandsAt(q1, Len(q1), w)
  BY Zenon, <1>3, QueueTyped DEF CommandsAt
<1>4. ASSUME NEW w
      PROVE  TargetsOf(w) = WaitingOf(l2, w)
  BY Zenon DEF TargetsOf, WaitingOf, Waiting
<1>5. ASSUME Queue(q1)
      PROVE  OwedExact <=> (Running => \A w \in Ways : Balance(q1, l2, w))
  <2>1. ASSUME NEW w
        PROVE  Cardinality({i \in DOMAIN q1 : q1[i].w = w}) = Commands(q1, Len(q1), w)
    BY Zenon, <1>3, <1>5 DEF Commands
  <2> QED
    BY Zenon, <1>4, <2>1 DEF OwedExact, Balance
<1> QED
  BY Zenon, <1>1, <1>2, <1>5 DEF AnswerInv, Sound, Queue, Counters

\* What keeps the claimed ways is what ClaimedForever asks for.
LEMMA ClaimedSteps ==
    ASSUME NEW s, NEW z, Keeps(s, z) \/ z.way = s.way, NEW u, NEW v
    PROVE  Claimed(s, z, u, v)
BY Zenon DEF Keeps, Claimed

\* An operation is counted.
LEMMA CountersStep ==
    ASSUME NEW u, Counters(u), NEW k \in {"store", "copy", "wb", "load"},
           NEW v, v = [u EXCEPT ![k] = @ + 1]
    PROVE  Counters(v) /\ (k = "store" => v.store > u.store)
<1>1. CASE k = "store"
  <2>1. v = [store |-> u.store + 1, copy |-> u.copy, wb |-> u.wb, load |-> u.load]
    BY Zenon, <1>1 DEF Counters
  <2>2. u.store \in Nat
    BY Zenon DEF Counters
  <2>3. v.store = u.store + 1 /\ v.copy = u.copy /\ v.wb = u.wb /\ v.load = u.load
    BY <2>1
  <2>5. v = [store |-> v.store, copy |-> v.copy, wb |-> v.wb, load |-> v.load]
    BY Zenon, <2>1, <2>3
  <2>4. v.store \in Nat /\ v.store > u.store
    BY <2>2, <2>3
  <2> QED
    BY Zenon, <2>4, <2>5 DEF Counters
<1>2. CASE k = "copy"
  BY Zenon, <1>2 DEF Counters
<1>3. CASE k = "wb"
  BY Zenon, <1>3 DEF Counters
<1>4. CASE k = "load"
  BY Zenon, <1>4 DEF Counters
<1> QED
  BY Zenon, <1>1, <1>2, <1>3, <1>4

\* A packet has the fields of Pkt.
IsPkt(e) == e = [c |-> e.c, a |-> e.a, w |-> e.w, full |-> e.full,
                 found |-> e.found, wr |-> e.wr, after |-> e.after, val |-> e.val]

\* allocateWriteBuffer adds a packet.
LEMMA EnqueueStep ==
    ASSUME NEW q, NEW m, NEW p, IsPkt(p), Packet(p)
    PROVE  \E e : Enqueue(q, m, p) = Append(q, e) /\ Packet(e) /\ e.w = p.w
<1>1. PICK e : e = [p EXCEPT !.after = Pending(m[p.a])]
  BY Zenon
<1>2. Enqueue(q, m, p) = Append(q, e)
  BY Zenon, <1>1 DEF Enqueue
<1>3. e.c = p.c /\ e.a = p.a /\ e.w = p.w /\ e.full = p.full
  BY <1>1 DEF IsPkt
<1>4. Packet(e)
  BY Zenon, <1>3 DEF Packet, IsSpm
<1> QED
  BY Zenon, <1>2, <1>3, <1>4

\* A step of the L2 with the write buffer of the L1 before and after it.
Good(q, s, r, z) == Sound(r, z) /\ (Keeps(s, z) \/ z.way = s.way)

\* An eviction of the L1 enters its write buffer.
LEMMA L1EvictStep ==
    ASSUME Sound(q1, l2), NEW a \in Lines, L1Evict(a)
    PROVE  Good(q1, l2, q1', l2') /\ used' = used
<1>1. l2.bad = "none" /\ l2' = l2 /\ used' = used /\ L2Type(l2) /\ Queue(q1)
  BY Zenon DEF L1Evict, Running, Sound
<1>2. PICK c : c = IF l1[a].dt THEN "wbd" ELSE "ce"
  BY Zenon
<1>p. PICK p : p = Pkt(c, a, None, FALSE, FALSE, l1[a].wr, l1[a].val)
  BY Zenon
<1>q. q1' = Enqueue(q1, m1, p)
  BY Zenon, <1>2, <1>p DEF L1Evict
<1>3. IsPkt(p) /\ Packet(p) /\ p.w = None
  BY <1>2, <1>p DEF Pkt, IsPkt, Packet, IsSpm
<1>4. PICK e : q1' = Append(q1, e) /\ Packet(e) /\ e.w = None
  <2>1. \E e : Enqueue(q1, m1, p) = Append(q1, e) /\ Packet(e) /\ e.w = p.w
    BY <1>3, EnqueueStep
  <2> QED
    BY Zenon, <1>q, <1>3, <2>1
<1>5. Queue(q1') /\ Leaves(q1', q1, None)
  BY Zenon, <1>1, <1>4, QueueAppend
<1>6. \A w \in Ways : Commands(q1', Len(q1'), w) = Commands(q1, Len(q1), w)
  BY Zenon, <1>5, ConstantsAssumption DEF Leaves
<1>7. Idle(l2, l2)
  BY Zenon DEF Idle
<1>8. Sound(q1', l2)
  BY Zenon, <1>1, <1>5, <1>6, <1>7, SoundIdle
<1> QED
  BY Zenon, <1>1, <1>8 DEF Good

\* A command enters the write buffer of the L1.
LEMMA CommandStep ==
    ASSUME Sound(q1, l2), l2.bad = "none", NEW c \in {"cp", "wb"}, NEW a \in Lines,
           NEW w \in Ways, NEW full \in BOOLEAN, Command(c, a, w, full)
    PROVE  Good(q1, l2, q1', l2')
<1>1. PICK p : p = Pkt(c, a, w, full, l1[a].st = "line", FALSE, l1[a].val)
  BY Zenon
<1>q. q1' = Enqueue(q1, m1, p)
  BY Zenon, <1>1 DEF Command
<1>2. l2' = [l2 EXCEPT !.owed[w] = @ + 1]
  BY Zenon DEF Command
<1>p. IsPkt(p) /\ Packet(p) /\ p.w = w
  BY <1>1 DEF Pkt, IsPkt, Packet, IsSpm
<1>3. PICK e : q1' = Append(q1, e) /\ Packet(e) /\ e.w = w
  <2>1. \E e : Enqueue(q1, m1, p) = Append(q1, e) /\ Packet(e) /\ e.w = p.w
    BY <1>p, EnqueueStep
  <2> QED
    BY Zenon, <1>q, <1>p, <2>1
<1>4. Sound(Append(q1, e), l2') /\ l2'.way = l2.way
  BY Zenon, <1>2, <1>3, SoundCommand
<1> QED
  BY Zenon, <1>3, <1>4 DEF Good

\* The L2 only takes packets while every MSHR has room for one more target.
LEMMA RoomLeft ==
    ASSUME L2Type(l2), ~L2Blocked
    PROVE  Room(l2)
<1> SUFFICES ASSUME NEW a \in Lines
             PROVE  Len(Waiting(l2, a)) < MaxTargets
  BY Zenon DEF Room
<1>1. PICK x \in Seq(TargetType), y \in Seq(TargetType) :
         x = l2.mshr[a].tg /\ y = l2.mshr[a].df
  BY Zenon, MshrTyped
<1>2. ~(Len(x) + Len(y) >= MaxTargets)
  BY Zenon, <1>1 DEF L2Blocked
<1>3. Len(x \o y) < MaxTargets
  BY <1>2, ConstantsAssumption
<1> QED
  BY Zenon, <1>1, <1>3 DEF Waiting

\* A request of the L1 reaches the L2.
LEMMA L1SendMissStep ==
    ASSUME Sound(q1, l2), NEW a \in Lines, L1SendMiss(a)
    PROVE  Good(q1, l2, q1', l2') /\ used' = used
<1>1. /\ l2.bad = "none" /\ ~L2Blocked /\ q1' = q1 /\ used' = used
      /\ L2Type(l2) /\ Queue(q1)
  BY Zenon DEF L1SendMiss, Running, Sound
<1>2. PICK c \in {"rd", "ex", "up"} : l2' \in Request(l2, a, c)
  BY Zenon DEF L1SendMiss
<1>3. /\ L2Type(l2') /\ Keeps(l2, l2')
      /\ l2'.bad = "none" =>
            \/ Idle(l2, l2')
            \/ \E t \in TargetType : t.w = None /\ Waits(l2, l2', a, t)
  BY Zenon, <1>1, <1>2, RequestStep
<1>4. l2'.bad = "none" => Takes(l2, l2', a, None)
  BY Zenon, <1>3 DEF Takes
<1>5. Leaves(q1, q1, None)
  BY Zenon, ConstantsAssumption DEF Leaves
<1>6. Room(l2)
  BY Zenon, <1>1, RoomLeft
<1>7. Sound(q1, l2')
  BY Zenon, <1>1, <1>3, <1>4, <1>5, <1>6, SoundTakes
<1> QED
  BY Zenon, <1>1, <1>3, <1>7 DEF Good

\* An entry of the L1 write buffer reaches the L2.
LEMMA L1SendWriteStep ==
    ASSUME Sound(q1, l2), NEW i \in 1 .. Len(q1), L1SendWrite(i)
    PROVE  Good(q1, l2, q1', l2') /\ used' = used
<1>1. /\ l2.bad = "none" /\ ~L2Blocked /\ q1' = Deallocate(q1, i) /\ used' = used
      /\ L2Type(l2) /\ Queue(q1)
  BY Zenon DEF L1SendWrite, Running, Sound
<1>2. PICK e : e = q1[i]
  BY Zenon
<1>3. Queue(q1') /\ Packet(e) /\ Leaves(q1, q1', e.w)
  BY Zenon, <1>1, <1>2, QueueRemove
<1>4. e.a \in Lines /\ e.full \in BOOLEAN /\ IF IsSpm(e) THEN e.w \in Ways ELSE e.w = None
  BY Zenon, <1>3 DEF Packet
<1>5. /\ L2Type(l2') /\ Keeps(l2, l2')
      /\ l2'.bad = "none" => Takes(l2, l2', e.a, e.w)
  <2>1. CASE e.c = "cp" /\ l2' = Copy(l2, e)
    <3>1. IsSpm(e)
      BY Zenon, <2>1 DEF IsSpm
    <3> QED
      BY Zenon, <1>1, <1>4, <2>1, <3>1, CopyStep DEF Takes
  <2>2. CASE e.c = "wb" /\ l2' \in Writeback(l2, e)
    <3>1. IsSpm(e)
      BY Zenon, <2>2 DEF IsSpm
    <3> QED
      BY Zenon, <1>1, <1>4, <2>2, <3>1, WritebackStep DEF Takes
  <2>3. CASE ~IsSpm(e) /\ l2' \in Eviction(l2, e)
    BY Zenon, <1>1, <1>4, <2>3, EvictionStep DEF Takes
  <2> QED
    BY Zenon, <1>2, <2>1, <2>2, <2>3 DEF L1SendWrite
<1>6. Room(l2)
  BY Zenon, <1>1, RoomLeft
<1>7. Sound(q1', l2')
  BY Zenon, <1>1, <1>3, <1>4, <1>5, <1>6, SoundTakes
<1> QED
  BY Zenon, <1>1, <1>5, <1>7 DEF Good

\* A response reaches the L1.
LEMMA L1RecvRespStep ==
    ASSUME Sound(q1, l2), NEW a \in Lines, L1RecvResp(a)
    PROVE  Good(q1, l2, q1', l2') /\ used' = used
<1>1. l2.bad = "none" /\ q1' = q1 /\ used' = used /\ L2Type(l2) /\ Queue(q1)
  BY Zenon DEF L1RecvResp, Running, Sound
<1>2. L2Type(l2') /\ Keeps(l2, l2') /\ Idle(l2, l2')
  <2>1. CASE l2' = Bad(l2, "fill")
    <3>1. "fill" # "none"
      OBVIOUS
    <3> QED
      BY Zenon, <1>1, <2>1, <3>1, BadStep
  <2>2. CASE l2' = [l2 EXCEPT !.resp[a] = None]
    <3>1. IsL2(l2)
      BY Zenon, <1>1 DEF L2Type
    <3>2. l2'.way = l2.way /\ Idle(l2, l2') /\ IsL2(l2')
      BY <2>2, <3>1 DEF IsL2, Idle
    <3> QED
      BY Zenon, <1>1, <3>2, QuietStep
  <2> QED
    BY Zenon, <2>1, <2>2 DEF L1RecvResp
<1>3. Sound(q1, l2')
  BY Zenon, <1>1, <1>2, SoundIdle
<1> QED
  BY Zenon, <1>1, <1>2, <1>3 DEF Good

\* The L2 sends a miss.
LEMMA L2SendMissStep ==
    ASSUME Sound(q1, l2), NEW a \in Lines, L2SendMiss(a)
    PROVE  Good(q1, l2, q1', l2') /\ used' = used
<1>1. /\ l2.bad = "none" /\ q1' = q1 /\ used' = used /\ L2Type(l2)
      /\ l2' = SendMissTo(l2, a)
  BY Zenon DEF L2SendMiss, Running, Sound
<1>2. L2Type(l2') /\ Keeps(l2, l2') /\ Settles(l2, l2', a)
  BY Zenon, <1>1, SendMissStep
<1>3. Sound(q1, l2')
  BY Zenon, <1>1, <1>2, SoundSettles
<1> QED
  BY Zenon, <1>1, <1>2, <1>3 DEF Good

\* The L2 sends an entry of its write buffer.
LEMMA L2SendWriteStep ==
    ASSUME Sound(q1, l2), NEW i, L2SendWrite(i)
    PROVE  Good(q1, l2, q1', l2') /\ used' = used
<1>1. /\ l2.bad = "none" /\ q1' = q1 /\ used' = used /\ L2Type(l2) /\ Queue(q1)
  BY Zenon DEF L2SendWrite, Running, Sound
<1>2. PICK q : q = Deallocate(l2.buf, i)
  BY Zenon
<1>3. l2' = [l2 EXCEPT !.buf = q]
  BY Zenon, <1>2 DEF L2SendWrite
<1>4. L2Type(l2') /\ Keeps(l2, l2') /\ Idle(l2, l2')
  BY Zenon, <1>1, <1>3, BufferStep
<1>5. Sound(q1, l2')
  BY Zenon, <1>1, <1>4, SoundIdle
<1> QED
  BY Zenon, <1>1, <1>4, <1>5 DEF Good

\* A response reaches the L2.
LEMMA L2RecvRespStep ==
    ASSUME Sound(q1, l2), NEW a \in Lines, L2RecvResp(a)
    PROVE  Good(q1, l2, q1', l2') /\ used' = used
<1>1. l2.bad = "none" /\ q1' = q1 /\ used' = used /\ L2Type(l2)
  BY Zenon DEF L2RecvResp, Running, Sound
<1>2. /\ L2Type(l2') /\ Keeps(l2, l2')
      /\ l2'.bad = "none" => Settles(l2, l2', a)
  <2>1. CASE l2' \in FillFrom(l2, a, memory[a])
    BY Zenon, <1>1, <2>1, FillStep
  <2>2. CASE l2' = ForwardedResp(l2, a)
    BY Zenon, <1>1, <2>2, ForwardedStep
  <2> QED
    BY Zenon, <2>1, <2>2 DEF L2RecvResp
<1>3. Sound(q1, l2')
  BY Zenon, <1>1, <1>2, SoundSettles
<1> QED
  BY Zenon, <1>1, <1>2, <1>3 DEF Good

\* spm.st writes the slot in the L2.
LEMMA SpmStoreStep ==
    ASSUME Sound(q1, l2), NEW w \in Ways, SpmStore(w)
    PROVE  Sound(q1', l2') /\ \A x \in Ways : l2'.way[x].st = l2.way[x].st
<1>1. l2.bad = "none" /\ q1' = q1 /\ L2Type(l2) /\ Queue(q1)
  BY Zenon DEF SpmStore, Issue, Running, Sound
<1>2. L2Type(l2') /\ Idle(l2, l2') /\ \A x \in Ways : l2'.way[x].st = l2.way[x].st
  <2>1. CASE l2' = l2
    BY Zenon, <1>1, <2>1 DEF Idle
  <2>2. CASE l2' = [l2 EXCEPT !.way[w].val = used.store + 1]
    <3>1. /\ IsL2(l2) /\ l2.way = [x \in Ways \cup {Temp} |-> l2.way[x]]
          /\ \A x \in Ways \cup {Temp} : IsBlk(l2.way[x])
      BY Zenon, <1>1 DEF L2Type
    <3>2. PICK k : k = [l2.way[w] EXCEPT !.val = used.store + 1]
      BY Zenon
    <3>3. IsBlk(l2.way[w]) /\ w \in DOMAIN l2.way
      BY Zenon, <3>1
    <3>4. IsBlk(k) /\ k.st = l2.way[w].st
      BY <3>2, <3>3 DEF IsBlk
    <3>5. IsL2(l2')  /\ Idle(l2, l2') /\ l2'.way = [l2.way EXCEPT ![w] = k]
      BY Zenon, <2>2, <3>1, <3>2 DEF IsL2, Idle
    <3>6. /\ \A x \in Ways \cup {Temp} : l2'.way[x] = IF x = w THEN k ELSE l2.way[x]
          /\ l2'.way = [x \in Ways \cup {Temp} |-> l2'.way[x]]
      BY Zenon, <3>1, <3>5
    <3>7. /\ \A x \in Ways \cup {Temp} : IsBlk(l2'.way[x])
          /\ \A x \in Ways : l2'.way[x].st = l2.way[x].st
      BY Zenon, <3>1, <3>4, <3>6
    <3>8. L2Type(l2')
      BY Zenon, <1>1, <3>5, <3>6, <3>7 DEF L2Type, Idle
    <3> QED
      BY Zenon, <3>5, <3>7, <3>8
  <2> QED
    BY Zenon, <2>1, <2>2 DEF SpmStore
<1>3. Sound(q1, l2')
  BY Zenon, <1>1, <1>2, SoundIdle
<1> QED
  BY Zenon, <1>1, <1>2, <1>3

\* A step keeps AnswerInv and the claimed ways.
LEMMA NextStep ==
    ASSUME Sound(q1, l2), Counters(used), [Next]_vars
    PROVE  Sound(q1', l2') /\ Counters(used') /\ Claimed(l2, l2', used, used')
<1>1. ASSUME Good(q1, l2, q1', l2'), Counters(used')
      PROVE  Sound(q1', l2') /\ Counters(used') /\ Claimed(l2, l2', used, used')
  BY Zenon, <1>1, ClaimedSteps DEF Good
<1>2. ASSUME Good(q1, l2, q1', l2') /\ used' = used
      PROVE  Sound(q1', l2') /\ Counters(used') /\ Claimed(l2, l2', used, used')
  BY Zenon, <1>1, <1>2
<1>3. ASSUME q1' = q1, l2' = l2, Counters(used')
      PROVE  Sound(q1', l2') /\ Counters(used') /\ Claimed(l2, l2', used, used')
  BY Zenon, <1>3 DEF Claimed
<1>4. ASSUME NEW k \in {"store", "copy", "wb", "load"}, NEW n, Issue(k, n)
      PROVE  Counters(used') /\ l2.bad = "none" /\ (k = "store" => used'.store > used.store)
  BY Zenon, <1>4, CountersStep DEF Issue, Running
<1>5. ASSUME NEW a \in Lines, Load(a)
      PROVE  Sound(q1', l2') /\ Counters(used') /\ Claimed(l2, l2', used, used')
  <2>1. Counters(used') /\ q1' = q1 /\ l2' = l2
    BY Zenon, <1>4, <1>5 DEF Load
  <2> QED
    BY Zenon, <1>3, <2>1
<1>6. ASSUME NEW a \in Lines, Store(a)
      PROVE  Sound(q1', l2') /\ Counters(used') /\ Claimed(l2, l2', used, used')
  <2>1. Counters(used') /\ q1' = q1 /\ l2' = l2
    BY Zenon, <1>4, <1>6 DEF Store
  <2> QED
    BY Zenon, <1>3, <2>1
<1>7. ASSUME NEW a \in Lines, NEW w \in Ways, IssueCopy(a, w)
      PROVE  Sound(q1', l2') /\ Counters(used') /\ Claimed(l2, l2', used, used')
  <2>1. Issue("copy", MaxCopies) /\ Command("cp", a, w, FALSE)
    BY Zenon, <1>7 DEF IssueCopy
  <2>2. Counters(used') /\ l2.bad = "none"
    BY Zenon, <1>4, <2>1
  <2>3. PICK c \in {"cp", "wb"}, f \in BOOLEAN : Command(c, a, w, f)
    BY Zenon, <2>1
  <2>4. Good(q1, l2, q1', l2')
    BY Zenon, <2>2, <2>3, CommandStep
  <2> QED
    BY Zenon, <1>1, <2>2, <2>4
<1>8. ASSUME NEW a \in Lines, NEW w \in Ways, NEW f \in WbSizes, IssueWriteback(w, a, f)
      PROVE  Sound(q1', l2') /\ Counters(used') /\ Claimed(l2, l2', used, used')
  <2>1. Issue("wb", MaxWritebacks) /\ Command("wb", a, w, f)
    BY Zenon, <1>8 DEF IssueWriteback
  <2>2. Counters(used') /\ l2.bad = "none"
    BY Zenon, <1>4, <2>1
  <2>3. f \in BOOLEAN
    BY Zenon, ConstantsAssumption
  <2>4. PICK c \in {"cp", "wb"} : Command(c, a, w, f)
    BY Zenon, <2>1
  <2>5. Good(q1, l2, q1', l2')
    BY Zenon, <2>2, <2>3, <2>4, CommandStep
  <2> QED
    BY Zenon, <1>1, <2>2, <2>5
<1>9. ASSUME NEW w \in Ways, SpmStore(w)
      PROVE  Sound(q1', l2') /\ Counters(used') /\ Claimed(l2, l2', used, used')
  <2>1. Counters(used') /\ used'.store > used.store
    BY Zenon, <1>4, <1>9 DEF SpmStore
  <2> QED
    BY Zenon, <1>9, <2>1, SpmStoreStep DEF Claimed
<1>10. ASSUME NEW a \in Lines,
              L1Evict(a) \/ L1SendMiss(a) \/ L1RecvResp(a) \/ L2SendMiss(a) \/ L2RecvResp(a)
       PROVE  Good(q1, l2, q1', l2') /\ used' = used
  BY Zenon, <1>10, L1EvictStep, L1SendMissStep, L1RecvRespStep, L2SendMissStep, L2RecvRespStep
<1>11. ASSUME NEW i \in 1 .. Len(q1), L1SendWrite(i)
       PROVE  Good(q1, l2, q1', l2') /\ used' = used
  BY Zenon, <1>11, L1SendWriteStep
<1>12. ASSUME NEW i, L2SendWrite(i)
       PROVE  Good(q1, l2, q1', l2') /\ used' = used
  BY Zenon, <1>12, L2SendWriteStep
<1>13. CASE UNCHANGED vars
  <2>1. q1' = q1 /\ l2' = l2 /\ used' = used
    BY Zenon, <1>13 DEF vars
  <2> QED
    BY Zenon, <1>3, <2>1
<1>14. CASE Next
  BY Zenon, <1>2, <1>5, <1>6, <1>7, <1>8, <1>9, <1>10, <1>11, <1>12, <1>14 DEF Next
<1> QED
  BY Zenon, <1>13, <1>14

\* Nothing is owed in the initial state.
LEMMA InitSound == Init => Sound(q1, l2) /\ Counters(used)
<1> SUFFICES ASSUME Init
             PROVE  Sound(q1, l2) /\ Counters(used)
  OBVIOUS
<1>1. /\ l2.way = [w \in Ways \cup {Temp} |-> Invalid]
      /\ l2.mshr = [a \in Lines |-> NoMshr] /\ l2.owed = [w \in Ways |-> 0]
      /\ IsL2(l2) /\ q1 = <<>>
  BY DEF Init, IsL2
<1>2. Counters(used)
  BY DEF Init, Counters
<1>3. IsBlk(Invalid) /\ NoMshr \in MshrType /\ NoMshr.tg \o NoMshr.df = <<>>
  BY DEF IsBlk, Invalid, Blk, NoMshr, MshrType
<1>4. l2.way = [w \in Ways \cup {Temp} |-> l2.way[w]] /\ \A w \in Ways \cup {Temp} : IsBlk(l2.way[w])
  BY Zenon, <1>1, <1>3
<1>5. l2.mshr \in [Lines -> MshrType]
  BY Zenon, <1>1, <1>3
<1>6. l2.owed \in [Ways -> Int] /\ \A w \in Ways : l2.owed[w] = 0
  BY <1>1
<1>7. L2Type(l2)
  BY Zenon, <1>1, <1>4, <1>5, <1>6 DEF L2Type
<1>8. \A a \in Lines : Waiting(l2, a) = <<>>
  BY Zenon, <1>1, <1>3 DEF Waiting
<1>9. Fits(l2)
  <2>1. Len(<<>>) <= MaxTargets
    BY ConstantsAssumption
  <2> QED
    BY Zenon, <1>8, <2>1 DEF Fits
<1>10. Queue(q1)
  <2>1. PICK S : S = {}
    BY Zenon
  <2>2. q1 \in Seq(S)
    BY <1>1
  <2>3. \A e \in S : Packet(e)
    BY Zenon, <2>1
  <2> QED
    BY Zenon, <2>2, <2>3, QueueOf
<1>11. ASSUME NEW w \in Ways
       PROVE  Balance(q1, l2, w)
  <2>1. Commands(q1, Len(q1), w) = 0
    <3>1. Len(q1) = 0
      BY <1>1
    <3> QED
      BY Zenon, <3>1, CommandsNone
  <2>2. WaitingOf(l2, w) = {}
    <3>1. ASSUME NEW x \in WaitingOf(l2, w)
          PROVE  FALSE
      <4>1. x \in Lines \X (1 .. MaxTargets + 1) /\ x[2] \in DOMAIN Waiting(l2, x[1])
        BY Zenon DEF WaitingOf
      <4>2. x[1] \in Lines
        BY <4>1
      <4>3. x[2] \in DOMAIN <<>>
        BY Zenon, <1>8, <4>1, <4>2
      <4> QED
        BY <4>3
    <3> QED
      BY Zenon, <3>1
  <2>3. Cardinality(WaitingOf(l2, w)) = 0
    BY Zenon, <2>2, FS_EmptySet
  <2>4. l2.owed[w] = Commands(q1, Len(q1), w) + Cardinality(WaitingOf(l2, w))
    BY <1>6, <2>1, <2>3
  <2> QED
    BY Zenon, <2>4 DEF Balance
<1> QED
  BY Zenon, <1>2, <1>7, <1>9, <1>10, <1>11 DEF Sound

-----------------------------------------------------------------------------
(* The theorems. *)

\* AnswerInv holds whatever the program does: it is inductive.
THEOREM AnswerInductive == Spec => []AnswerInv
<1> DEFINE I == Sound(q1, l2) /\ Counters(used)
<1>1. Init => I
  BY Zenon, InitSound
<1>2. I /\ [Next]_vars => I'
  BY Zenon, NextStep
<1>3. I => AnswerInv
  BY Zenon, InvForm
<1> HIDE DEF I
<1> QED
  BY <1>1, <1>2, <1>3, PTL DEF Spec

\* Every scratchpad command is answered once and is in one place until then, for
\* any number of lines, slots and buffer entries and for every program, also one
\* that keeps none of the rules of MayCommand.
THEOREM AnsweredOnce == Spec => []OwedExact
<1>1. AnswerInv => OwedExact
  BY Zenon DEF AnswerInv
<1> QED
  BY <1>1, AnswerInductive, PTL

\* A way that spm.cp claimed is never given to a line again, and its value
\* changes only with the answer to one of its commands or by spm.st.
THEOREM ClaimKept == Spec => ClaimedForever
<1> DEFINE I == Sound(q1, l2) /\ Counters(used)
           C == Claimed(l2, l2', used, used')
<1>1. Init => I
  BY Zenon, InitSound
<1>2. I /\ [Next]_vars => I' /\ C
  BY Zenon, NextStep
<1>3. C => [\A w \in Ways : l2.way[w].st = "spm" =>
              /\ l2'.way[w].st = "spm"
              /\ l2'.way[w].val # l2.way[w].val =>
                    l2'.owed[w] < l2.owed[w] \/ used'.store > used.store]_vars
  BY Zenon DEF Claimed
<1> HIDE DEF I, C
<1> QED
  BY <1>1, <1>2, <1>3, PTL DEF Spec, ClaimedForever
=============================================================================
