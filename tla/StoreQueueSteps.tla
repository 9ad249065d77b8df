-------------------------- MODULE StoreQueueSteps ---------------------------
(***************************************************************************)
(* The inductive invariant of StoreQueue is preserved by dispatch, squash, *)
(* execution and retirement: the steps that do not move the write-back     *)
(* iterator.  First come least and greatest elements of sets of naturals,  *)
(* which give the positions at which the loops of squash and completeStore *)
(* stop, and the count of the stores to write back.                        *)
(***************************************************************************)
EXTENDS StoreQueue, FiniteSetTheorems, TLAPS

\* A set of naturals that is not empty has a least element.
LEMMA LeastNat ==
    ASSUME NEW T \in SUBSET Nat, T # {}
    PROVE  \E m \in T : \A k \in T : m <= k
<1>1. PICK R : R = OpToRel(<, Nat)
  BY Zenon
<1>2. \A x, y \in Nat : x < y => <<x, y>> \in R
  BY <1>1 DEF OpToRel
<1>3. IsWellFoundedOn(R, Nat)
  BY <1>1, NatLessThanWellFounded, Zenon
<1>4. PICK m \in T : \A k \in T : ~(<<k, m>> \in R)
  BY Zenon, <1>3, WFMin
<1>5. \A k \in T : ~(k < m)
  BY Zenon, <1>2, <1>4
<1> QED
  BY <1>5

\* A bounded set of naturals that is not empty has a greatest element.
LEMMA GreatestNat ==
    ASSUME NEW T \in SUBSET Nat, T # {}, NEW b \in Nat, \A k \in T : k <= b
    PROVE  \E m \in T : \A k \in T : k <= m
<1>1. PICK U : U = {x \in Nat : b - x \in T}
  BY Zenon
<1>2. \A k \in T : b - k \in U
  BY <1>1
<1>3. PICK u \in U : \A x \in U : u <= x
  BY Zenon, <1>1, <1>2, LeastNat
<1>4. b - u \in T
  BY <1>1
<1>5. \A k \in T : u <= b - k
  BY <1>2, <1>3
<1>6. u \in Nat
  BY <1>1
<1>7. \A k \in T : k <= b - u
  BY <1>5, <1>6
<1> QED
  BY Zenon, <1>4, <1>7

\* The types and the order of the queue at one glance: what the proofs need
\* of the positions.
LEMMA Positions ==
    ASSUME TypeOK, QueueOrder, WrittenBack, IteratorAtBorder
    PROVE  /\ head \in Nat \ {0} /\ tail \in Nat /\ wbIt \in Nat /\ MaxSeq \in Nat
           /\ head <= wbIt /\ wbIt <= tail + 1 /\ tail <= MaxSeq /\ tail < next
           /\ retired \in Nat /\ next \in Nat
           /\ \A i \in 1 .. tail :
                 /\ i \in SeqNum
                 /\ sq[i] \in SeqNum /\ sq[i] < next
                 /\ sq[i] \in live
                 /\ op[sq[i]] \in StoreOps
           /\ \A n \in live : n \in SeqNum /\ n < next
<1>1. /\ head \in Nat \ {0} /\ tail \in Nat /\ wbIt \in Nat /\ MaxSeq \in Nat
      /\ head <= wbIt /\ wbIt <= tail + 1 /\ tail <= MaxSeq
      /\ retired \in Nat /\ next \in Nat /\ next >= 1
  BY SizeAssumption DEF TypeOK, RobType, QueueType, IteratorAtBorder
<1>2. \A n \in live : n \in SeqNum /\ n < next
  BY SizeAssumption DEF TypeOK, RobType, SeqNum
<1>3. \A i \in 1 .. tail :
         i \in SeqNum /\ sq[i] \in live /\ op[sq[i]] \in StoreOps /\ i <= sq[i]
  BY <1>1 DEF QueueOrder, Inst, SeqNum
<1>4. tail < next
  BY <1>1, <1>2, <1>3 DEF SeqNum
<1> QED
  BY <1>1, <1>2, <1>3, <1>4

\* The loop of squash stops right behind the last store older than n, and
\* never behind the write-back iterator.
LEMMA SquashTail ==
    ASSUME TypeOK, QueueOrder, WrittenBack, IteratorAtBorder,
           NEW n \in live, n > retired
    PROVE  /\ NewTail(n) \in Nat
           /\ wbIt - 1 <= NewTail(n) /\ head - 1 <= NewTail(n) /\ NewTail(n) <= tail
           /\ \A i \in 1 .. tail : (i <= NewTail(n)) <=> (sq[i] < n)
<1> DEFINE Stop(t) == /\ \A i \in t + 1 .. tail : sq[i] >= n /\ sq[i] \notin canWB
                      /\ t >= head => sq[t] < n \/ sq[t] \in canWB
<1>0. n \in Nat
  BY Positions DEF SeqNum
<1>1. \A i \in 1 .. tail : sq[i] \in canWB => sq[i] < n
  BY Positions, <1>0 DEF WrittenBack, SeqNum
<1>2. \A i \in 1 .. wbIt - 1 : sq[i] \in canWB /\ sq[i] < n
  BY <1>1, Positions DEF WrittenBack
<1>3. \E t \in head - 1 .. tail : Stop(t)
  <2>1. PICK T : T = {t \in head - 1 .. tail : t < head \/ sq[t] < n}
    BY Zenon
  <2>2. T \in SUBSET Nat /\ head - 1 \in T /\ \A k \in T : k <= tail
    BY <2>1, Positions
  <2>3. PICK m \in T : \A k \in T : k <= m
    BY Zenon, <2>2, Positions, GreatestNat
  <2>4. \A i \in m + 1 .. tail : sq[i] >= n /\ sq[i] \notin canWB
    BY <2>1, <2>2, <2>3, <1>0, <1>1, Positions DEF SeqNum
  <2>5. m \in head - 1 .. tail /\ (m >= head => sq[m] < n)
    BY <2>1, <2>2, Positions
  <2> QED
    BY <2>4, <2>5
<1>4. NewTail(n) \in head - 1 .. tail /\ Stop(NewTail(n))
  BY <1>3 DEF NewTail
<1>5. PICK t : t = NewTail(n)
  OBVIOUS
<1>6. t \in head - 1 .. tail /\ Stop(t)
  BY <1>4, <1>5
<1>7. t \in Nat /\ t <= tail /\ head - 1 <= t
  BY <1>6, Positions
<1>8. \A i \in 1 .. tail : i <= t => sq[i] < n
  <2> SUFFICES ASSUME NEW i \in 1 .. tail, i <= t PROVE sq[i] < n
    OBVIOUS
  <2>1. CASE i < head
    BY <2>1, <1>2, Positions
  <2>2. CASE i >= head
    <3>1. t \in 1 .. tail /\ sq[t] < n
      BY <2>2, <1>1, <1>6, <1>7, Positions
    <3> QED
      BY <3>1, <1>0, <1>7, Positions DEF QueueOrder, SeqNum
  <2> QED
    BY <2>1, <2>2, Positions
<1>9. \A i \in 1 .. tail : i > t => sq[i] >= n
  BY <1>6, <1>7, Positions
<1>10. wbIt - 1 <= t
  BY <1>2, <1>6, <1>7, Positions DEF SeqNum
<1> QED
  BY <1>0, <1>5, <1>7, <1>8, <1>9, <1>10, Positions DEF SeqNum

\* The loop of completeStore: the head passes the stores that are completed,
\* the one at position i among them, and stops at the first that is not.  It
\* does not pass the iterator.
LEMMA CompleteHead ==
    ASSUME TypeOK, QueueOrder, WrittenBack, IteratorAtBorder, HeadIsLive,
           NEW i \in head .. tail, i <= wbIt, sq[i] \notin completed
    PROVE  /\ NewHead(i) \in Nat /\ head <= NewHead(i) /\ NewHead(i) <= tail + 1
           /\ \A j \in head .. NewHead(i) - 1 : sq[j] \in completed \cup {sq[i]}
           /\ NewHead(i) <= tail => sq[NewHead(i)] \notin completed \cup {sq[i]}
           /\ i < wbIt => NewHead(i) <= wbIt
           /\ i = wbIt => NewHead(i) <= wbIt + 1
           /\ i = wbIt /\ head = wbIt => NewHead(i) = wbIt + 1
<1> DEFINE Stop(h) == /\ \A j \in head + 1 .. h - 1 : sq[j] \in completed
                      /\ h <= tail => sq[h] \notin completed
<1>1. \A j \in head .. tail : j >= wbIt => sq[j] \notin completed
  BY Positions DEF IteratorAtBorder
<1>2. \A j \in head .. tail : j > i => sq[j] # sq[i]
  BY Positions DEF QueueOrder, SeqNum
<1>3. CASE i # head
  <2>1. NewHead(i) = head
    BY <1>3 DEF NewHead
  <2>2. head < i /\ head <= tail /\ sq[head] \notin completed /\ sq[head] # sq[i]
    BY <1>3, Positions DEF HeadIsLive, QueueOrder, SeqNum
  <2> QED
    BY <2>1, <2>2, Positions
<1>4. CASE i = head
  <2>1. \E h \in head + 1 .. tail + 1 : Stop(h)
    <3>1. PICK T : T = {h \in head + 1 .. tail + 1 : h > tail \/ sq[h] \notin completed}
      BY Zenon
    <3>2. T \in SUBSET Nat /\ tail + 1 \in T
      BY <3>1, Positions
    <3>3. PICK m \in T : \A k \in T : m <= k
      BY <3>2, LeastNat
    <3>4. m \in head + 1 .. tail + 1 /\ (m <= tail => sq[m] \notin completed)
      BY <3>1, Positions
    <3>5. \A j \in head + 1 .. m - 1 : sq[j] \in completed
      BY <3>1, <3>3, <3>4, Positions
    <3> QED
      BY <3>4, <3>5
  <2>2. NewHead(i) \in head + 1 .. tail + 1 /\ Stop(NewHead(i))
    BY <1>4, <2>1 DEF NewHead
  <2>3. PICK h : h = NewHead(i)
    OBVIOUS
  <2>4. h \in Nat /\ head + 1 <= h /\ h <= tail + 1 /\ Stop(h)
    BY <2>2, <2>3, Positions
  <2>5. \A j \in head .. h - 1 : sq[j] \in completed \cup {sq[i]}
    BY <1>4, <2>4, Positions
  <2>6. h <= tail => sq[h] \notin completed \cup {sq[i]}
    BY <1>2, <1>4, <2>4, Positions
  <2>7. h > head + 1 => h - 1 < wbIt
    BY <1>1, <2>4, Positions
  <2> QED
    BY <1>4, <2>3, <2>4, <2>5, <2>6, <2>7, Positions
<1> QED
  BY <1>3, <1>4

\* Every set of sequence numbers is finite and within the counter's range.
LEMMA CountRange ==
    ASSUME NEW S \in SUBSET SeqNum
    PROVE  IsFiniteSet(S) /\ Cardinality(S) \in 0 .. MaxSeq
<1>1. IsFiniteSet(SeqNum) /\ Cardinality(SeqNum) = MaxSeq
  BY SizeAssumption, FS_Interval DEF SeqNum
<1>2. IsFiniteSet(S) /\ Cardinality(S) <= MaxSeq
  BY <1>1, FS_Subset
<1> QED
  BY <1>2, FS_CardinalityType, SizeAssumption

\* The stores to write back are sequence numbers.
LEMMA ToWriteBackType ==
    ASSUME TypeOK, QueueOrder, WrittenBack, IteratorAtBorder
    PROVE  ToWriteBack \in SUBSET SeqNum
BY Positions DEF ToWriteBack, Queue

-----------------------------------------------------------------------------

\* insertLoad: the new load is younger than every store in the queue, and its
\* iterator is the end of the queue.
LEMMA InsertLoadStep ==
    ASSUME IInv, next <= MaxSeq, NEW c \in LoadCovers, InsertLoad(c)
    PROVE  IInv'
<1>0. /\ TypeOK /\ RobOrder /\ QueueOrder /\ WrittenBack /\ IteratorAtBorder
      /\ HeadIsLive /\ CountExact /\ LoadOrder /\ StallOldest
  BY DEF IInv
<1>1. /\ next' = next + 1 /\ live' = live \cup {next} /\ lq' = lq \cup {next}
      /\ op' = [op EXCEPT ![next] = "ld"] /\ cover' = [cover EXCEPT ![next] = c]
      /\ sqIt' = [sqIt EXCEPT ![next] = tail + 1]
      /\ UNCHANGED <<retired, executed, nullified, addrValid, outst, blocked>>
      /\ UNCHANGED <<sq, head, tail, wbIt, canWB, completed, storesToWB, inflight,
                     storeBlocked, cacheBlocked, mem>>
      /\ UNCHANGED <<replay, stalled, stallStore, stallLoad>>
  BY DEF InsertLoad, queueVars, portVars, stallVars
<1>2. next \in SeqNum /\ next \notin live /\ next \in Nat /\ c \in SUBSET Words
  BY <1>0, CoverAssumption, SizeAssumption DEF TypeOK, RobType, SeqNum
<1>3. /\ Inst({"ld"})' = Inst({"ld"}) \cup {next}
      /\ Inst({"st"})' = Inst({"st"})
      /\ Inst(StoreOps)' = Inst(StoreOps)
  BY SMTT(30), <1>0, <1>1, <1>2, Positions DEF Inst, StoreOps, TypeOK, RobType
<1>4. RobType'
  BY <1>0, <1>1, <1>2, SizeAssumption DEF TypeOK, RobType, SeqNum
<1>5. RobOrder'
  BY <1>0, <1>1, <1>2, <1>3, Positions DEF RobOrder
<1>6. QueueType' /\ WrittenBack' /\ IteratorAtBorder' /\ HeadIsLive' /\ CountExact'
  BY Zenon, <1>0, <1>1 DEF TypeOK, QueueType, WrittenBack, IteratorAtBorder, HeadIsLive,
                    CountExact, Queue, ToWriteBack
<1>7. QueueOrder'
  BY <1>0, <1>1, <1>3 DEF QueueOrder
<1>8. LoadType'
  BY <1>0, <1>1, <1>2, Positions DEF TypeOK, LoadType
<1>9. LoadOrder'
  <2>1. ASSUME NEW l \in Inst({"ld"})'
        PROVE  /\ sqIt'[l] \in 1 .. tail + 1
               /\ \A i \in 1 .. tail : (i < sqIt'[l]) <=> (sq[i] < l)
               /\ l > retired => l \in lq'
               /\ l \in executed \cup outst => l \in addrValid
    <3>1. CASE l = next
      BY SMTT(30), <3>1, <1>0, <1>1, <1>2, Positions DEF TypeOK, RobType, LoadType
    <3>2. CASE l # next
      BY <3>2, <2>1, <1>0, <1>1, <1>2, <1>3 DEF LoadOrder, TypeOK, LoadType
    <3> QED
      BY SMTT(30), <3>1, <3>2
  <2> QED
    BY <2>1, <1>0, <1>1, <1>3 DEF LoadOrder
<1>10. StallOldest'
  BY <1>0, <1>1 DEF StallOldest
<1> QED
  BY <1>4, <1>5, <1>6, <1>7, <1>8, <1>9, <1>10 DEF IInv, TypeOK

\* insertStore: the new store is the youngest and goes to the end of the
\* queue, behind the iterator of every load.
LEMMA InsertStoreStep ==
    ASSUME IInv, next <= MaxSeq, NEW k \in StoreOps, NEW c \in SUBSET Words,
           InsertStore(k, c)
    PROVE  IInv'
<1>0. /\ TypeOK /\ RobOrder /\ QueueOrder /\ WrittenBack /\ IteratorAtBorder
      /\ HeadIsLive /\ CountExact /\ LoadOrder /\ StallOldest
  BY DEF IInv
<1>1. /\ next' = next + 1 /\ live' = live \cup {next}
      /\ tail' = tail + 1 /\ sq' = [sq EXCEPT ![tail + 1] = next]
      /\ op' = [op EXCEPT ![next] = k] /\ cover' = [cover EXCEPT ![next] = c]
      /\ UNCHANGED <<retired, executed, nullified, lq, sqIt, addrValid, outst, blocked>>
      /\ UNCHANGED <<head, wbIt, canWB, completed, storesToWB, inflight,
                     storeBlocked, cacheBlocked, mem>>
      /\ UNCHANGED <<replay, stalled, stallStore, stallLoad>>
  BY DEF InsertStore, portVars, loadVars, stallVars
<1>2. next \in SeqNum /\ next \notin live /\ next \in Nat /\ tail + 1 \in SeqNum
  BY SMTT(30), <1>0, Positions, SizeAssumption DEF TypeOK, RobType, SeqNum
<1>3. /\ Inst({"ld"})' = Inst({"ld"})
      /\ Inst({"st"}) \subseteq Inst({"st"})'
      /\ Inst(StoreOps)' = Inst(StoreOps) \cup {next}
  BY SMTT(30), <1>0, <1>1, <1>2, Positions DEF Inst, StoreOps, TypeOK, RobType
<1>4. sq'[tail + 1] = next /\ \A i \in 1 .. tail : sq'[i] = sq[i]
  BY SMTT(30), <1>0, <1>1, <1>2, Positions DEF TypeOK, QueueType
<1>5. RobType'
  BY SMTT(30), <1>0, <1>1, <1>2, SizeAssumption DEF TypeOK, RobType, SeqNum, StoreOps
<1>6. RobOrder'
  BY SMTT(30), <1>0, <1>1, <1>2, <1>3, Positions DEF RobOrder
<1>7. QueueType'
  BY <1>0, <1>1, <1>2 DEF TypeOK, QueueType, SeqNum
<1>8. QueueOrder'
  <2>1. \A i \in 1 .. tail + 1 : sq'[i] \in Inst(StoreOps)' /\ i <= sq'[i]
    BY SMTT(30), <1>0, <1>2, <1>3, <1>4, Positions DEF QueueOrder
  <2>2. \A i, j \in 1 .. tail + 1 : i < j => sq'[i] < sq'[j]
    BY SMTT(30), <1>0, <1>2, <1>4, Positions DEF QueueOrder
  <2>3. \A n \in Inst(StoreOps)' : \E i \in 1 .. tail + 1 : sq'[i] = n
    BY <1>0, <1>3, <1>4, Positions DEF QueueOrder
  <2> QED
    BY SMTT(30), <1>1, <2>1, <2>2, <2>3 DEF QueueOrder
<1>9. WrittenBack'
  BY <1>0, <1>1, <1>4, Positions DEF WrittenBack
<1>10. next \notin canWB \cup completed \cup inflight
  BY SMTT(30), <1>0, <1>2 DEF TypeOK, QueueType
<1>11. IteratorAtBorder'
  BY <1>0, <1>1, <1>4, <1>10, Positions DEF IteratorAtBorder
<1>12. Queue' = Queue \cup {next}
  <2>1. head \in Nat \ {0} /\ tail \in Nat /\ head <= tail + 1
    BY <1>0, Positions
  <2>2. Queue' = {sq'[i] : i \in head .. tail + 1}
    BY Zenon, <1>1 DEF Queue
  <2>3. head .. tail + 1 = (head .. tail) \cup {tail + 1} /\ head .. tail \subseteq 1 .. tail
    BY <2>1
  <2>4. ASSUME NEW x \in Queue' PROVE x \in Queue \cup {next}
    <3>1. PICK i \in (head .. tail) \cup {tail + 1} : x = sq'[i]
      BY Zenon, <2>2, <2>3
    <3> QED
      BY Zenon, <3>1, <1>4, <2>3 DEF Queue
  <2>5. ASSUME NEW x \in Queue \cup {next} PROVE x \in Queue'
    <3>1. PICK i \in (head .. tail) \cup {tail + 1} : x = sq'[i]
      BY Zenon, <1>4, <2>3 DEF Queue
    <3> QED
      BY Zenon, <3>1, <2>2, <2>3
  <2> QED
    BY Zenon, <2>4, <2>5
<1>13. HeadIsLive'
  BY <1>0, <1>1, <1>4, <1>10, <1>12, Positions DEF HeadIsLive
<1>14. CountExact'
  BY Zenon, <1>0, <1>1, <1>10, <1>12 DEF CountExact, ToWriteBack
<1>15. LoadType'
  BY SMTT(30), <1>0, <1>1 DEF TypeOK, LoadType
<1>16. LoadOrder'
  <2>1. ASSUME NEW l \in Inst({"ld"})
        PROVE  /\ sqIt[l] \in 1 .. tail + 2
               /\ \A i \in 1 .. tail + 1 : (i < sqIt[l]) <=> (sq'[i] < l)
    <3>1. sqIt[l] \in 1 .. tail + 1 /\ \A i \in 1 .. tail : (i < sqIt[l]) <=> (sq[i] < l)
      BY <1>0 DEF LoadOrder
    <3>2. l < next /\ l \in Nat
      BY SMTT(30), <1>0, Positions DEF Inst, SeqNum
    <3> QED
      BY SMTT(30), <3>1, <3>2, <1>0, <1>2, <1>4, Positions
  <2> QED
    BY SMTT(30), <2>1, <1>0, <1>1, <1>3, Positions DEF LoadOrder
<1>17. StallOldest'
  BY <1>0, <1>1, <1>4, Positions DEF StallOldest
<1> QED
  BY <1>5, <1>6, <1>7, <1>8, <1>9, <1>11, <1>13, <1>14, <1>15, <1>16, <1>17
     DEF IInv, TypeOK

\* LSQUnit::squash: what is older than n stays as it was.  E is what had
\* executed, with the store whose data has just arrived if one caused it.
LEMMA SquashStep ==
    ASSUME IInv, NEW n \in live, n > retired, SquashFrom(n),
           NEW E \in SUBSET live, executed \subseteq E,
           \A m \in E : m \in executed \/ op[m] \in StoreOps,
           executed' = {m \in E : m < n}
    PROVE  IInv'
<1>0. /\ TypeOK /\ RobOrder /\ QueueOrder /\ WrittenBack /\ IteratorAtBorder
      /\ HeadIsLive /\ CountExact /\ LoadOrder /\ StallOldest
  BY DEF IInv
<1>1. /\ live' = {m \in live : m < n} /\ lq' = {m \in lq : m < n}
      /\ nullified' = {m \in nullified : m < n}
      /\ tail' = NewTail(n)
      /\ addrValid' = {m \in addrValid : m < n} /\ outst' = {m \in outst : m < n}
      /\ blocked' = {m \in blocked : m < n} /\ replay' = {m \in replay : m < n}
      /\ UNCHANGED <<next, op, cover, retired, sq, head, wbIt, canWB, completed,
                     storesToWB, storeBlocked, cacheBlocked, inflight, sqIt, mem>>
  BY DEF SquashFrom, portVars
<1>2. /\ tail' \in Nat /\ tail' <= tail /\ head - 1 <= tail' /\ wbIt - 1 <= tail'
      /\ \A i \in 1 .. tail : (i <= tail') <=> (sq[i] < n)
  BY SMTT(30), <1>0, <1>1, SquashTail
<1>3. n \in Nat /\ \A m \in canWB : m < n /\ m \in Nat
  BY SMTT(30), <1>0, Positions DEF WrittenBack, TypeOK, QueueType, SeqNum
<1>4. \A K : Inst(K)' = {m \in Inst(K) : m < n}
  BY <1>1 DEF Inst
<1>5. RobType'
  BY ZenonT(30), <1>0, <1>1 DEF TypeOK, RobType
<1>6. RobOrder'
  <2>1. retired \in live' \cup {0}
    BY Zenon, <1>0, <1>1, <1>3, Positions DEF RobOrder
  <2> QED
    BY <2>1, <1>0, <1>1, <1>4 DEF RobOrder
<1>7. QueueType'
  <2>1. tail' \in 0 .. MaxSeq
    <3>1. tail \in Nat /\ tail <= MaxSeq /\ MaxSeq \in Nat
      BY Zenon, <1>0, Positions
    <3> QED
      BY <3>1, <1>2
  <2> QED
    BY Zenon, <2>1, <1>0, <1>1, <1>3 DEF TypeOK, QueueType
<1>8. QueueOrder'
  <2>1. \A i \in 1 .. tail' : i \in 1 .. tail /\ sq[i] < n
    BY <1>2, <1>0, Positions
  <2>2. \A i \in 1 .. tail' : sq[i] \in Inst(StoreOps)' /\ i <= sq[i]
    BY <2>1, <1>0, <1>4 DEF QueueOrder
  <2>3. \A i, j \in 1 .. tail' : i < j => sq[i] < sq[j]
    BY SMTT(30), <2>1, <1>0 DEF QueueOrder
  <2>4. \A m \in Inst(StoreOps)' : \E i \in 1 .. tail' : sq[i] = m
    BY <1>0, <1>2, <1>4, Positions DEF QueueOrder
  <2> QED
    BY Zenon, <1>1, <2>2, <2>3, <2>4 DEF QueueOrder
<1>9. WrittenBack'
  BY Zenon, <1>0, <1>1 DEF WrittenBack
<1>10. IteratorAtBorder'
  <2>0. head \in Nat \ {0} /\ tail \in Nat /\ wbIt \in Nat /\ head <= wbIt
    BY Zenon, <1>0, Positions
  <2>1. ASSUME storeBlocked PROVE wbIt <= tail' /\ sq[wbIt] \in canWB \ nullified'
    <3>1. wbIt <= tail /\ sq[wbIt] \in canWB \ nullified
      BY Zenon, <2>1, <1>0 DEF IteratorAtBorder
    <3>2. wbIt \in 1 .. tail /\ sq[wbIt] < n
      BY <2>0, <3>1, <1>3
    <3> QED
      BY Zenon, <3>1, <3>2, <1>1, <1>2
  <2>2. wbIt <= tail' + 1
    <3>1. PICK t \in Nat : t = tail'
      BY Zenon, <1>2
    <3>2. wbIt \in Nat /\ wbIt - 1 <= t
      BY Zenon, <2>0, <1>2, <3>1
    <3>3. wbIt <= t + 1
      BY <3>2
    <3> QED
      BY Zenon, <3>1, <3>3
  <2>3. head .. tail' \subseteq head .. tail
    BY <2>0, <1>2
  <2> QED
    BY Zenon, <2>1, <2>2, <2>3, <1>0, <1>1 DEF IteratorAtBorder
<1>11. canWB \cap Queue' = canWB \cap Queue
  <2>1. head \in Nat \ {0} /\ tail \in Nat
    BY Zenon, <1>0, Positions
  <2>2. /\ head .. tail' \subseteq head .. tail
        /\ \A i \in head .. tail : sq[i] < n => i \in head .. tail'
    BY <2>1, <1>2
  <2>3. Queue' = {sq[i] : i \in head .. tail'}
    BY Zenon, <1>1 DEF Queue
  <2> QED
    BY Zenon, <2>2, <2>3, <1>3 DEF Queue
<1>12. HeadIsLive'
  <2>1. head \in Nat \ {0} /\ tail \in Nat
    BY Zenon, <1>0, Positions
  <2>2. head <= tail' => head <= tail
    BY SMTT(30), <2>1, <1>2
  <2> QED
    BY Zenon, <2>2, <1>0, <1>1, <1>11 DEF HeadIsLive, TypeOK, QueueType
<1>13. CountExact'
  <2>1. ToWriteBack' = ToWriteBack
    BY SMTT(30), <1>1, <1>11 DEF ToWriteBack
  <2> QED
    BY SMTT(30), <1>0, <1>1, <2>1 DEF CountExact
<1>14. IF stalled /\ stallLoad >= n
       THEN stalled' = FALSE /\ stallStore' = 0 /\ stallLoad' = 0
       ELSE UNCHANGED <<stalled, stallStore, stallLoad>>
  BY DEF SquashFrom, DropStall
<1>15. LoadType'
  <2>1. 0 \in 0 .. MaxSeq
    BY SizeAssumption
  <2>2. stalled' \in BOOLEAN /\ stallStore' \in 0 .. MaxSeq /\ stallLoad' \in 0 .. MaxSeq
    BY <2>1, <1>0, <1>14, Zenon DEF TypeOK, LoadType
  <2> QED
    BY Zenon, <2>2, <1>0, <1>1 DEF TypeOK, LoadType
<1>16. LoadOrder'
  <2>1. ASSUME NEW l \in Inst({"ld"}), l < n
        PROVE  /\ sqIt[l] \in 1 .. tail' + 1
               /\ \A i \in 1 .. tail' : (i < sqIt[l]) <=> (sq[i] < l)
    <3>1. sqIt[l] \in 1 .. tail + 1 /\ \A i \in 1 .. tail : (i < sqIt[l]) <=> (sq[i] < l)
      BY <1>0 DEF LoadOrder
    <3>2. l \in Nat
      BY SMTT(30), <1>0, Positions DEF Inst, SeqNum
    <3>3. sqIt[l] > 1 => sqIt[l] - 1 <= tail'
      BY <2>1, <3>1, <3>2, <1>0, <1>2, <1>3, Positions DEF SeqNum
    <3> QED
      BY SMTT(30), <3>1, <3>3, <1>0, <1>2, Positions
  <2>2. \A l \in Inst({"ld"}) : l \in executed' \cup outst' => l \in addrValid'
    BY Zenon, <1>0, <1>1 DEF LoadOrder, Inst, StoreOps
  <2> QED
    BY ZenonT(30), <2>1, <2>2, <1>0, <1>1, <1>4 DEF LoadOrder
<1>17. StallOldest'
  <2>1. CASE stalled /\ stallLoad >= n
    <3>1. \A m \in replay : m \in Nat /\ stallLoad <= m
      <4>1. \A m \in replay : stallLoad <= m
        BY Zenon, <2>1, <1>0 DEF StallOldest
      <4>2. replay \subseteq live
        BY Zenon, <1>0 DEF TypeOK, LoadType
      <4>3. live \subseteq Nat
        BY <1>0, Positions DEF SeqNum
      <4> QED
        BY Zenon, <4>1, <4>2, <4>3
    <3>2. stallLoad \in Nat
      BY SMTT(30), <1>0 DEF TypeOK, LoadType
    <3>3. replay' = {}
      BY <2>1, <3>1, <3>2, <1>1, <1>3
    <3> QED
      BY <2>1, <3>3, <1>14 DEF StallOldest
  <2>2. CASE stalled /\ stallLoad < n
    <3>1. PICK i \in wbIt .. tail : sq[i] = stallStore
      BY <2>2, <1>0 DEF StallOldest
    <3>2. i \in wbIt .. tail'
      <4>1. stallStore < stallLoad /\ stallStore \in Nat /\ stallLoad \in Nat
        BY <2>2, <1>0 DEF StallOldest, TypeOK, LoadType
      <4>2. sq[i] < n
        BY <2>2, <3>1, <4>1, <1>3
      <4>3. wbIt \in Nat \ {0} /\ tail \in Nat
        BY <1>0, Positions
      <4> QED
        BY <3>1, <4>2, <4>3, <1>2
    <3>3. stalled' /\ UNCHANGED <<stallStore, stallLoad>>
      <4>1. ~(stallLoad >= n)
        BY <2>2, <1>0, <1>3 DEF TypeOK, LoadType
      <4> QED
        BY <4>1, <2>2, <1>14, Zenon
    <3>4. stallLoad \in replay' /\ \A l \in replay' : stallLoad <= l
      BY Zenon, <2>2, <1>0, <1>1 DEF StallOldest
    <3> QED
      BY Zenon, <2>2, <3>1, <3>2, <3>3, <3>4, <1>0, <1>1 DEF StallOldest
  <2>3. CASE ~stalled
    BY Zenon, <2>3, <1>0, <1>1, <1>14 DEF StallOldest
  <2> QED
    BY SMTT(30), <2>1, <2>2, <2>3, <1>0, <1>3 DEF TypeOK, LoadType
<1> QED
  BY <1>5, <1>6, <1>7, <1>8, <1>9, <1>10, <1>12, <1>13, <1>15, <1>16, <1>17
     DEF IInv, TypeOK

\* A store gets its data, or turns out to have none: it had not retired, so
\* it is not the store the cache refused.
LEMMA ExecuteStep ==
    ASSUME IInv, NEW s \in Inst(StoreOps) \ executed,
           executed' = executed \cup {s},
           \/ nullified' = nullified
           \/ nullified' = nullified \cup {s} /\ s \in Inst({"st"}),
           UNCHANGED <<robVars, queueVars, portVars, inflight, loadVars, stallVars, mem>>
    PROVE  IInv'
<1>0. /\ TypeOK /\ RobOrder /\ QueueOrder /\ WrittenBack /\ IteratorAtBorder
      /\ HeadIsLive /\ CountExact /\ LoadOrder /\ StallOldest
  BY DEF IInv
<1>1. /\ UNCHANGED <<next, op, cover, live, retired, lq, sqIt, addrValid, outst, blocked>>
      /\ UNCHANGED <<sq, head, tail, wbIt, canWB, completed, storesToWB, inflight,
                     storeBlocked, cacheBlocked, mem>>
      /\ UNCHANGED <<replay, stalled, stallStore, stallLoad>>
  BY Zenon DEF robVars, queueVars, portVars, loadVars, stallVars
<1>2. s \in live /\ op[s] \in StoreOps
  BY DEF Inst
<1>3. \A K : Inst(K)' = Inst(K)
  BY Zenon, <1>1 DEF Inst
<1>4. s \notin canWB
  BY Zenon, <1>0 DEF RobOrder, WrittenBack, TypeOK, QueueType
<1>5. RobType' /\ RobOrder'
  BY Zenon, <1>0, <1>1, <1>2, <1>3 DEF TypeOK, RobType, RobOrder
<1>6. QueueType' /\ QueueOrder' /\ WrittenBack'
  BY Zenon, <1>0, <1>1, <1>3 DEF TypeOK, QueueType, QueueOrder, WrittenBack
<1>7. IteratorAtBorder'
  BY Zenon, <1>0, <1>1, <1>4 DEF IteratorAtBorder
<1>8. HeadIsLive' /\ CountExact'
  BY Zenon, <1>0, <1>1 DEF HeadIsLive, CountExact, ToWriteBack, Queue
<1>9. LoadType' /\ StallOldest'
  BY Zenon, <1>0, <1>1 DEF TypeOK, LoadType, StallOldest
<1>10. s \notin Inst({"ld"})
  BY <1>2 DEF Inst, StoreOps
<1>11. LoadOrder'
  BY Zenon, <1>0, <1>1, <1>3, <1>10 DEF LoadOrder
<1> QED
  BY Zenon, <1>5, <1>6, <1>7, <1>8, <1>9, <1>11 DEF IInv, TypeOK

\* Steps that leave the queue alone: loads that issue, wait or get their
\* data, and the cache's refusals.
LEMMA SideStep ==
    ASSUME IInv,
           UNCHANGED <<robVars, nullified, queueVars, inflight, mem, lq, sqIt>>,
           storeBlocked' \in BOOLEAN, cacheBlocked' \in BOOLEAN,
           storeBlocked' => wbIt <= tail /\ sq[wbIt] \in canWB \ nullified,
           executed \subseteq executed',
           executed' \subseteq executed \cup Inst({"ld"}),
           addrValid' \cup outst' \cup blocked' \cup replay' \subseteq Inst({"ld"}),
           \A l \in Inst({"ld"}) : l \in executed' \cup outst' => l \in addrValid',
           stalled' \in BOOLEAN,
           stallStore' \in 0 .. MaxSeq, stallLoad' \in 0 .. MaxSeq,
           StallOldest'
    PROVE  IInv'
<1>0. /\ TypeOK /\ RobOrder /\ QueueOrder /\ WrittenBack /\ IteratorAtBorder
      /\ HeadIsLive /\ CountExact /\ LoadOrder
  BY DEF IInv
<1>1. /\ UNCHANGED <<next, op, cover, live, retired, nullified, lq, sqIt>>
      /\ UNCHANGED <<sq, head, tail, wbIt, canWB, completed, storesToWB, inflight, mem>>
  BY Zenon DEF robVars, queueVars
<1>2. \A K : Inst(K)' = Inst(K) /\ Inst(K) \subseteq live
  BY Zenon, <1>1 DEF Inst
<1>3. RobType' /\ RobOrder'
  BY Zenon, <1>0, <1>1, <1>2 DEF TypeOK, RobType, RobOrder
<1>4. QueueType' /\ QueueOrder' /\ WrittenBack'
  BY Zenon, <1>0, <1>1, <1>2 DEF TypeOK, QueueType, QueueOrder, WrittenBack
<1>5. IteratorAtBorder'
  BY Zenon, <1>0, <1>1 DEF IteratorAtBorder
<1>6. HeadIsLive' /\ CountExact'
  BY Zenon, <1>0, <1>1 DEF HeadIsLive, CountExact, ToWriteBack, Queue
<1>7. LoadType'
  BY Zenon, <1>0, <1>1, <1>2 DEF TypeOK, LoadType
<1>8. LoadOrder'
  BY Zenon, <1>0, <1>1, <1>2 DEF LoadOrder
<1> QED
  BY Zenon, <1>3, <1>4, <1>5, <1>6, <1>7, <1>8 DEF IInv, TypeOK

\* The ROB retires its head, which is the oldest instruction left.
LEMMA RetireStep ==
    ASSUME IInv, NEW n \in SeqNum, Retire(n)
    PROVE  IInv'
<1>0. /\ TypeOK /\ RobOrder /\ QueueOrder /\ WrittenBack /\ IteratorAtBorder
      /\ HeadIsLive /\ CountExact /\ LoadOrder /\ StallOldest
  BY DEF IInv
<1>1. /\ retired' = n
      /\ UNCHANGED <<next, op, cover, live, executed, nullified>>
      /\ UNCHANGED <<lq, sqIt, addrValid, outst, blocked>>
      /\ UNCHANGED <<sq, head, tail, wbIt, canWB, completed, storesToWB, inflight,
                     storeBlocked, cacheBlocked, mem>>
      /\ UNCHANGED <<replay, stalled, stallStore, stallLoad>>
  BY Zenon DEF Retire, queueVars, portVars, loadVars, stallVars
<1>2. /\ n \in live /\ n > retired /\ n \in executed
      /\ \A m \in live : m > retired => n <= m
  BY Zenon DEF Retire, Head
<1>3. \A K : Inst(K)' = Inst(K)
  BY Zenon, <1>1 DEF Inst
<1>4. n \in 0 .. MaxSeq /\ retired \in Nat /\ \A m \in live : m \in Nat
  BY <1>0, Positions, SizeAssumption DEF SeqNum
<1>5. RobType' /\ RobOrder'
  <2>1. \A m \in live : m <= n => m \in executed
    BY <1>0, <1>2, <1>4 DEF RobOrder, SeqNum
  <2> QED
    BY Zenon, <2>1, <1>0, <1>1, <1>2, <1>3, <1>4 DEF TypeOK, RobType, RobOrder
<1>6. QueueType' /\ QueueOrder'
  BY Zenon, <1>0, <1>1, <1>3 DEF TypeOK, QueueType, QueueOrder
<1>7. WrittenBack'
  <2>1. \A m \in canWB : m <= n
    BY <1>0, <1>2, <1>4 DEF WrittenBack, TypeOK, QueueType
  <2> QED
    BY Zenon, <2>1, <1>0, <1>1 DEF WrittenBack
<1>8. IteratorAtBorder' /\ HeadIsLive' /\ CountExact'
  BY Zenon, <1>0, <1>1 DEF IteratorAtBorder, HeadIsLive, CountExact, ToWriteBack, Queue
<1>9. LoadType' /\ StallOldest'
  BY Zenon, <1>0, <1>1 DEF TypeOK, LoadType, StallOldest
<1>10. LoadOrder'
  <2>1. \A l \in Inst({"ld"}) : l > n => l > retired
    BY <1>2, <1>4 DEF Inst
  <2> QED
    BY Zenon, <2>1, <1>0, <1>1, <1>3 DEF LoadOrder
<1> QED
  BY <1>5, <1>6, <1>7, <1>8, <1>9, <1>10 DEF IInv, TypeOK

\* commitLoads and commitStores: the stores that retired are marked and
\* counted, each once.
LEMMA NoticeStep ==
    ASSUME IInv, CommitNotice
    PROVE  IInv'
<1>0. /\ TypeOK /\ RobOrder /\ QueueOrder /\ WrittenBack /\ IteratorAtBorder
      /\ HeadIsLive /\ CountExact /\ LoadOrder /\ StallOldest
  BY DEF IInv
<1>1. PICK marked :
        /\ marked = {sq[i] : i \in {j \in head .. tail :
                                     sq[j] <= retired /\ sq[j] \notin canWB}}
        /\ canWB' = canWB \cup marked
        /\ storesToWB' = storesToWB + Cardinality(marked)
        /\ lq' = lq \ {l \in lq : l <= retired}
  BY Zenon DEF CommitNotice
<1>2. /\ UNCHANGED <<next, op, cover, live, executed, nullified, retired>>
      /\ UNCHANGED <<sqIt, addrValid, outst, blocked>>
      /\ UNCHANGED <<sq, head, tail, wbIt, completed, inflight,
                     storeBlocked, cacheBlocked, mem>>
      /\ UNCHANGED <<replay, stalled, stallStore, stallLoad>>
  BY Zenon DEF CommitNotice, robVars, portVars, stallVars
<1>3. /\ marked \in SUBSET SeqNum /\ marked \subseteq Queue /\ marked \subseteq live
      /\ marked \cap canWB = {} /\ \A m \in marked : m <= retired
  BY <1>0, <1>1, Positions DEF Queue
<1>4. \A K : Inst(K)' = Inst(K)
  BY <1>2 DEF Inst
<1>5. RobType' /\ RobOrder'
  BY Zenon, <1>0, <1>2, <1>4 DEF TypeOK, RobType, RobOrder
<1>6. QueueOrder' /\ WrittenBack' /\ IteratorAtBorder' /\ HeadIsLive'
  <2>1. QueueOrder'
    BY Zenon, <1>0, <1>2, <1>4 DEF QueueOrder
  <2>2. WrittenBack'
    BY Zenon, <1>0, <1>1, <1>2, <1>3 DEF WrittenBack
  <2>3. IteratorAtBorder'
    BY Zenon, <1>0, <1>1, <1>2, <1>3 DEF IteratorAtBorder
  <2>4. HeadIsLive'
    BY Zenon, <1>0, <1>1, <1>2, <1>3 DEF HeadIsLive, Queue
  <2> QED
    BY Zenon, <2>1, <2>2, <2>3, <2>4
<1>7. ToWriteBack' = ToWriteBack \cup marked /\ ToWriteBack \cap marked = {}
  BY Zenon, <1>0, <1>1, <1>2, <1>3 DEF ToWriteBack, Queue, TypeOK, QueueType
<1>8. CountExact' /\ storesToWB' \in 0 .. MaxSeq
  <2>1. ToWriteBack \in SUBSET SeqNum /\ (ToWriteBack \cup marked) \in SUBSET SeqNum
    BY <1>0, <1>3, ToWriteBackType
  <2>2. /\ IsFiniteSet(ToWriteBack) /\ IsFiniteSet(marked)
        /\ Cardinality(ToWriteBack \cup marked) \in 0 .. MaxSeq
        /\ Cardinality(ToWriteBack) \in Nat /\ Cardinality(marked) \in Nat
    BY <2>1, <1>3, CountRange
  <2>3. Cardinality(ToWriteBack \cup marked)
          = Cardinality(ToWriteBack) + Cardinality(marked)
    <3>1. Cardinality(ToWriteBack \cup marked)
            = Cardinality(ToWriteBack) + Cardinality(marked)
              - Cardinality(ToWriteBack \cap marked)
      BY <2>2, FS_Union
    <3>2. Cardinality(ToWriteBack \cap marked) = 0
      BY <1>7, FS_EmptySet, Zenon
    <3> QED
      BY <3>1, <3>2, <2>2
  <2> QED
    BY Zenon, <2>2, <2>3, <1>0, <1>1, <1>7 DEF CountExact
<1>9. QueueType'
  BY Zenon, <1>0, <1>1, <1>2, <1>3, <1>8 DEF TypeOK, QueueType
<1>10. LoadType' /\ StallOldest'
  BY Zenon, <1>0, <1>1, <1>2 DEF TypeOK, LoadType, StallOldest
<1>11. LoadOrder'
  <2>1. \A l \in live : l > retired => ~(l <= retired)
    BY <1>0, Positions DEF SeqNum
  <2> QED
    BY Zenon, <2>1, <1>0, <1>1, <1>2, <1>4 DEF LoadOrder, Inst
<1> QED
  BY <1>5, <1>6, <1>8, <1>9, <1>10, <1>11 DEF IInv, TypeOK
=============================================================================
