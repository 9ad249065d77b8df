-------------------------- MODULE StoreQueueProofs --------------------------
(***************************************************************************)
(* The write-back steps of StoreQueue preserve the inductive invariant,    *)
(* and the safety properties of the queue follow from it.                  *)
(***************************************************************************)
EXTENDS StoreQueueSteps

\* Positions of an interval that lie below h.
LEMMA BelowPosition ==
    \A a, b, h \in Nat : \A j \in a .. b : j < h => j \in a .. h - 1
OBVIOUS

\* The stall that waits for the store at position i ends when that store is
\* sent or completes; any other stall still has its store ahead.
LEMMA UnstallStep ==
    ASSUME TypeOK, QueueOrder, WrittenBack, IteratorAtBorder, StallOldest,
           NEW i \in head .. tail, Unstall(sq[i]),
           UNCHANGED <<sq, tail>>,
           \/ i = wbIt /\ wbIt' = wbIt + 1
           \/ wbIt' = wbIt
    PROVE  /\ StallOldest'
           /\ replay' \subseteq replay
           /\ stalled' \in BOOLEAN
           /\ stallStore' \in 0 .. MaxSeq /\ stallLoad' \in 0 .. MaxSeq
<1>1. CASE stalled /\ stallStore = sq[i]
  <2>1. stalled' = FALSE /\ stallStore' = 0 /\ replay' = {} /\ stallLoad' = stallLoad
    BY <1>1, Zenon DEF Unstall
  <2>2. 0 \in 0 .. MaxSeq /\ stallLoad \in 0 .. MaxSeq
    BY SizeAssumption DEF TypeOK, LoadType
  <2> QED
    BY Zenon, <2>1, <2>2 DEF StallOldest
<1>2. CASE ~(stalled /\ stallStore = sq[i])
  <2>1. /\ stalled' = stalled /\ stallStore' = stallStore
        /\ replay' = replay /\ stallLoad' = stallLoad
    BY <1>2, Zenon DEF Unstall, stallVars
  <2>2. stalled => \E j \in wbIt' .. tail' : sq'[j] = stallStore
    BY <1>2, Positions DEF StallOldest
  <2>3. StallOldest'
    BY <2>1, <2>2 DEF StallOldest
  <2> QED
    BY <2>1, <2>3 DEF TypeOK, LoadType
<1> QED
  BY <1>1, <1>2

\* completeStore, at the iterator (a copy, or a store with no data) or on the
\* cache's answer to a store sent before.
LEMMA CompleteStep ==
    ASSUME IInv, NEW i \in head .. tail, CompleteStore(i), sq[i] \in canWB,
           UNCHANGED <<robVars, executed, nullified, sq, tail, canWB, mem,
                       lq, sqIt, addrValid, outst>>,
           blocked' \subseteq blocked, cacheBlocked' \in BOOLEAN,
           \/ /\ i = wbIt /\ wbIt' = wbIt + 1
              /\ inflight' = inflight /\ storeBlocked' = FALSE
           \/ /\ sq[i] \in inflight /\ wbIt' = wbIt
              /\ inflight' = inflight \ {sq[i]} /\ storeBlocked' = storeBlocked
    PROVE  IInv'
<1>0. /\ TypeOK /\ RobOrder /\ QueueOrder /\ WrittenBack /\ IteratorAtBorder
      /\ HeadIsLive /\ CountExact /\ LoadOrder /\ StallOldest
  BY DEF IInv
<1>1. /\ completed' = completed \cup {sq[i]}
      /\ storesToWB' = storesToWB - 1
      /\ head' = NewHead(i)
      /\ Unstall(sq[i])
  BY DEF CompleteStore
<1>2. UNCHANGED <<next, op, cover, live, retired, executed, nullified, sq, tail, canWB,
                  mem, lq, sqIt, addrValid, outst>>
  BY DEF robVars
<1>3. /\ i \in 1 .. tail /\ i <= wbIt /\ sq[i] \notin completed
      /\ i = wbIt => sq[i] \notin inflight
      /\ sq[i] \in inflight => i < wbIt
      /\ \A j \in 1 .. tail : j # i => sq[j] # sq[i]
  <2>1. i \in 1 .. tail /\ \A j \in 1 .. tail : j # i => sq[j] # sq[i]
    BY <1>0, Positions DEF QueueOrder, SeqNum
  <2>2. i < wbIt <=> sq[i] \in inflight \cup completed
    BY <1>0 DEF IteratorAtBorder
  <2>3. inflight \cap completed = {}
    BY <1>0 DEF WrittenBack
  <2> QED
    BY <2>1, <2>2, <2>3, <1>0, Positions
<1>4. /\ head' \in Nat /\ head <= head' /\ head' <= tail + 1 /\ head' <= wbIt'
      /\ \A j \in head .. head' - 1 : sq[j] \in completed'
      /\ head' <= tail => sq[head'] \notin completed'
  BY SMTT(30), <1>0, <1>1, <1>3, CompleteHead, Positions
<1>5. wbIt' \in Nat /\ wbIt <= wbIt' /\ wbIt' <= tail + 1
  BY <1>0, <1>3, Positions
<1>6. \A K : Inst(K)' = Inst(K)
  BY <1>2 DEF Inst
<1>7. RobType' /\ RobOrder' /\ QueueOrder'
  BY Zenon, <1>0, <1>2, <1>6 DEF TypeOK, RobType, RobOrder, QueueOrder
<1>8. WrittenBack'
  <2>1. \A j \in 1 .. wbIt' - 1 : sq[j] \in canWB
    BY <1>0, <1>3, Positions DEF WrittenBack
  <2>2. inflight' \cap completed' = {}
    BY <1>0, <1>1, <1>3 DEF WrittenBack
  <2> QED
    BY <2>1, <2>2, <1>0, <1>2 DEF WrittenBack
<1>9. IteratorAtBorder'
  <2>1. \A j \in head' .. tail : j < wbIt' <=> sq[j] \in inflight' \cup completed'
    BY <1>0, <1>1, <1>3, <1>4, Positions DEF IteratorAtBorder
  <2>2. storeBlocked' => wbIt' <= tail /\ sq[wbIt'] \in canWB \ nullified
    BY Zenon, <1>0 DEF IteratorAtBorder
  <2> QED
    BY SMTT(30), <2>1, <2>2, <1>2, <1>4, <1>5 DEF IteratorAtBorder
<1>10. \A j \in head .. tail : j < head' => sq[j] \in completed'
  <2>1. head \in Nat /\ tail \in Nat
    BY <1>0, Positions
  <2>2. \A j \in head .. tail : j < head' => j \in head .. head' - 1
    BY <2>1, <1>4, BelowPosition, Zenon
  <2> QED
    BY <2>2, <1>4, Zenon
<1>11. HeadIsLive'
  <2>1. inflight' \cap completed' = {} /\ inflight' \subseteq inflight
    BY SMTT(30), <1>8 DEF WrittenBack
  <2>2. inflight' \subseteq Queue'
    BY SMTT(30), <2>1, <1>0, <1>2, <1>4, <1>10, Positions DEF HeadIsLive, Queue
  <2> QED
    BY <2>2, <1>2, <1>4 DEF HeadIsLive
<1>12. ToWriteBack' = ToWriteBack \ {sq[i]} /\ sq[i] \in ToWriteBack
  <2>1. Queue' \subseteq Queue
    BY SMTT(30), <1>0, <1>2, <1>4, Positions DEF Queue
  <2>2. \A m \in Queue : m \notin completed' => m \in Queue'
    BY <1>0, <1>2, <1>4, <1>10, Positions DEF Queue
  <2>3. sq[i] \in Queue
    BY DEF Queue
  <2> QED
    BY SMTT(30), <2>1, <2>2, <2>3, <1>1, <1>2, <1>3 DEF ToWriteBack
<1>13. CountExact' /\ storesToWB' \in 0 .. MaxSeq
  <2>1. ToWriteBack \in SUBSET SeqNum
    BY <1>0, ToWriteBackType
  <2>2. IsFiniteSet(ToWriteBack) /\ Cardinality(ToWriteBack) \in 0 .. MaxSeq
        /\ Cardinality(ToWriteBack \ {sq[i]}) \in 0 .. MaxSeq
    BY <2>1, CountRange
  <2>3. Cardinality(ToWriteBack \ {sq[i]}) = Cardinality(ToWriteBack) - 1
    BY Zenon, <2>2, <1>12, FS_RemoveElement
  <2> QED
    BY <2>2, <2>3, <1>0, <1>1, <1>12 DEF CountExact
<1>14. QueueType'
  <2>1. head' \in 1 .. MaxSeq + 1 /\ wbIt' \in 1 .. MaxSeq + 1
    BY <1>0, <1>4, <1>5, Positions
  <2>3. storeBlocked' \in BOOLEAN
    BY <1>0, Zenon DEF TypeOK, QueueType
  <2>2. completed' \subseteq canWB /\ inflight' \subseteq canWB
    BY <1>0, <1>1 DEF TypeOK, QueueType
  <2> QED
    BY SMTT(30), <2>1, <2>2, <2>3, <1>0, <1>2, <1>13 DEF TypeOK, QueueType
<1>15. /\ StallOldest' /\ replay' \subseteq replay /\ stalled' \in BOOLEAN
       /\ stallStore' \in 0 .. MaxSeq /\ stallLoad' \in 0 .. MaxSeq
  BY <1>0, <1>1, <1>2, UnstallStep
<1>16. LoadType'
  BY <1>0, <1>2, <1>15 DEF TypeOK, LoadType
<1>17. LoadOrder'
  BY <1>0, <1>2, <1>6, <1>15 DEF LoadOrder
<1> QED
  BY <1>7, <1>8, <1>9, <1>11, <1>13, <1>14, <1>15, <1>16, <1>17 DEF IInv, TypeOK

\* storePostSend: the store under the iterator is in the cache's hands.
LEMMA PostSendStep ==
    ASSUME IInv, NEW s \in canWB, wbIt <= tail, sq[wbIt] = s, PostSend(s),
           UNCHANGED <<robVars, executed, nullified, sq, tail, canWB,
                       lq, sqIt, addrValid, outst>>,
           blocked' \subseteq blocked, cacheBlocked' \in BOOLEAN, storeBlocked' = FALSE
    PROVE  IInv'
<1>0. /\ TypeOK /\ RobOrder /\ QueueOrder /\ WrittenBack /\ IteratorAtBorder
      /\ HeadIsLive /\ CountExact /\ LoadOrder /\ StallOldest
  BY DEF IInv
<1>1. /\ inflight' = inflight \cup {s} /\ wbIt' = wbIt + 1
      /\ mem' = [w \in Words |-> IF w \in cover[s] THEN s ELSE mem[w]]
      /\ UNCHANGED <<head, completed, storesToWB>>
      /\ Unstall(sq[wbIt])
  BY DEF PostSend
<1>2. UNCHANGED <<next, op, cover, live, retired, executed, nullified, sq, tail, canWB,
                  lq, sqIt, addrValid, outst>>
  BY SMTT(30) DEF robVars
<1>3. /\ wbIt \in head .. tail /\ wbIt \in 1 .. tail /\ s \in SeqNum
      /\ s \notin inflight \cup completed
      /\ \A j \in 1 .. tail : j # wbIt => sq[j] # s
  <2>1. wbIt \in head .. tail /\ wbIt \in 1 .. tail /\ s \in SeqNum
    BY <1>0, Positions
  <2> QED
    BY <2>1, <1>0, Positions DEF IteratorAtBorder, QueueOrder, SeqNum
<1>4. \A K : Inst(K)' = Inst(K)
  BY <1>2 DEF Inst
<1>5. RobType' /\ RobOrder' /\ QueueOrder'
  BY Zenon, <1>0, <1>2, <1>4 DEF TypeOK, RobType, RobOrder, QueueOrder
<1>6. QueueType'
  <2>1. wbIt' \in 1 .. MaxSeq + 1 /\ inflight' \subseteq canWB
    BY <1>0, <1>1, <1>3, Positions DEF TypeOK, QueueType
  <2>2. mem' \in [Words -> 0 .. MaxSeq]
    <3>1. s \in 0 .. MaxSeq
      BY <1>3, SizeAssumption DEF SeqNum
    <3>2. \A w \in Words : mem[w] \in 0 .. MaxSeq
      BY Zenon, <1>0 DEF TypeOK, QueueType
    <3> QED
      BY Zenon, <3>1, <3>2, <1>1
  <2> QED
    BY ZenonT(30), <2>1, <2>2, <1>0, <1>1, <1>2 DEF TypeOK, QueueType
<1>7. WrittenBack'
  <2>1. (\A n \in canWB' : n <= retired') /\ inflight' \cap completed' = {}
    BY Zenon, <1>0, <1>1, <1>2, <1>3 DEF WrittenBack
  <2>0. wbIt \in Nat /\ wbIt' = wbIt + 1
    BY Zenon, <1>0, <1>1, Positions
  <2>2. \A i \in 1 .. wbIt : i \in 1 .. wbIt - 1 \/ i = wbIt
    BY <2>0
  <2>3. wbIt' - 1 = wbIt
    BY <2>0
  <2>4. \A i \in 1 .. wbIt : sq[i] \in canWB
    BY Zenon, <2>2, <1>0, <1>1 DEF WrittenBack
  <2> QED
    BY Zenon, <2>1, <2>3, <2>4, <1>2 DEF WrittenBack
<1>8. IteratorAtBorder'
  <2>1. head \in Nat \ {0} /\ tail \in Nat /\ wbIt \in head .. tail
    BY Zenon, <1>0, <1>3, Positions
  <2>2. /\ head <= wbIt + 1 /\ wbIt + 1 <= tail + 1
        /\ \A i \in head .. tail : (i < wbIt + 1) <=> (i < wbIt \/ i = wbIt)
        /\ \A i \in head .. tail : i \in 1 .. tail
    BY <2>1
  <2>3. ASSUME NEW i \in head .. tail
        PROVE  (i < wbIt') <=> sq'[i] \in inflight' \cup completed'
    <3>1. (i < wbIt) <=> sq[i] \in inflight \cup completed
      BY Zenon, <1>0 DEF IteratorAtBorder
    <3>2. sq[i] = s <=> i = wbIt
      BY Zenon, <1>3, <2>2
    <3>3. sq[i] \in inflight' \cup completed' <=> sq[i] \in inflight \cup completed \/ sq[i] = s
      BY Zenon, <1>1
    <3> QED
      BY Zenon, <2>2, <3>1, <3>2, <3>3, <1>1, <1>2
  <2> QED
    BY Zenon, <2>2, <2>3, <1>1, <1>2 DEF IteratorAtBorder
<1>9. HeadIsLive' /\ CountExact'
  BY Zenon, <1>0, <1>1, <1>2, <1>3 DEF HeadIsLive, CountExact, ToWriteBack, Queue
<1>10. /\ StallOldest' /\ replay' \subseteq replay /\ stalled' \in BOOLEAN
       /\ stallStore' \in 0 .. MaxSeq /\ stallLoad' \in 0 .. MaxSeq
  BY Zenon, <1>0, <1>1, <1>2, <1>3, UnstallStep
<1>11. LoadType' /\ LoadOrder'
  BY Zenon, <1>0, <1>2, <1>4, <1>10 DEF TypeOK, LoadType, LoadOrder
<1> QED
  BY <1>5, <1>6, <1>7, <1>8, <1>9, <1>10, <1>11 DEF IInv, TypeOK

\* The forced completion of a copy leaves the iterator one further on, in
\* whichever branch it was moved.
LEMMA ForceCompleteMoves ==
    ASSUME IInv, NEW s, wbIt <= tail, sq[wbIt] = s, s \in canWB, ForceComplete(s),
           UNCHANGED tail
    PROVE  wbIt' = wbIt + 1
<1>0. TypeOK /\ QueueOrder /\ WrittenBack /\ IteratorAtBorder /\ HeadIsLive
  BY DEF IInv
<1>1. wbIt \in head .. tail /\ sq[wbIt] \notin completed
  BY SMTT(30), <1>0, Positions DEF IteratorAtBorder
<1>2. /\ NewHead(wbIt) \in Nat /\ NewHead(wbIt) <= tail + 1
      /\ NewHead(wbIt) <= wbIt + 1
      /\ head = wbIt => NewHead(wbIt) = wbIt + 1
  BY SMTT(30), <1>0, <1>1, CompleteHead, Positions
<1>3. head' = NewHead(wbIt)
  BY DEF ForceComplete, CompleteStore
<1>4. wbIt' = IF head' > tail THEN tail + 1 ELSE IF wbIt = head THEN head' ELSE wbIt + 1
  BY DEF ForceComplete
<1> QED
  BY <1>0, <1>1, <1>2, <1>3, <1>4, Positions

\* The store under the iterator is accepted by the cache.
LEMMA AcceptStep ==
    ASSUME IInv, NEW s \in canWB, wbIt <= tail, sq[wbIt] = s,
           PostSend(s) \/ ForceComplete(s),
           UNCHANGED <<robVars, executed, nullified, sq, tail, canWB,
                       lq, sqIt, addrValid, outst>>,
           blocked' \subseteq blocked, cacheBlocked' \in BOOLEAN, storeBlocked' = FALSE
    PROVE  IInv'
<1>1. CASE PostSend(s)
  BY Zenon, <1>1, PostSendStep
<1>2. CASE ForceComplete(s)
  <2>1. wbIt' = wbIt + 1
    BY <1>2, ForceCompleteMoves
  <2>2. wbIt \in head .. tail
    BY Positions DEF IInv
  <2>3. CompleteStore(wbIt) /\ UNCHANGED <<mem, inflight>>
    BY Zenon, <1>2 DEF ForceComplete
  <2> QED
    BY Zenon, <2>1, <2>2, <2>3, CompleteStep
<1> QED
  BY <1>1, <1>2

\* writebackBlockedStore: the store the cache refused is still under the
\* iterator and still to be sent.
LEMMA ResendStep ==
    ASSUME IInv, storeBlocked, NEW s, NEW outcome, Resend(s, outcome),
           blocked' \subseteq blocked,
           UNCHANGED <<robVars, executed, nullified, lq, sqIt, addrValid, outst>>
    PROVE  IInv'
<1>1. wbIt <= tail /\ sq[wbIt] \in canWB \ nullified /\ sq[wbIt] = s
  BY DEF IInv, IteratorAtBorder, Resend
<1>2. CASE /\ storeBlocked' = FALSE /\ cacheBlocked' = FALSE
           /\ PostSend(s) \/ ForceComplete(s)
           /\ UNCHANGED <<sq, tail, canWB>>
  BY Zenon, <1>1, <1>2, AcceptStep
<1>3. CASE /\ cacheBlocked' \in BOOLEAN
           /\ UNCHANGED <<storeBlocked, queueVars, inflight, stallVars, mem>>
  <2>1. /\ UNCHANGED <<replay, stalled, stallStore, stallLoad, sq, tail, wbIt>>
        /\ StallOldest /\ TypeOK /\ LoadOrder
    BY <1>3 DEF IInv, stallVars, queueVars
  <2>2. StallOldest'
    BY <2>1 DEF StallOldest
  <2>3. /\ storeBlocked' \in BOOLEAN /\ stalled' \in BOOLEAN
        /\ stallStore' \in 0 .. MaxSeq /\ stallLoad' \in 0 .. MaxSeq
    BY <1>3, <2>1 DEF TypeOK, QueueType, LoadType
  <2>4. /\ addrValid' \cup outst' \cup blocked' \cup replay' \subseteq Inst({"ld"})
        /\ \A l \in Inst({"ld"}) : l \in executed' \cup outst' => l \in addrValid'
    BY <2>1 DEF LoadOrder
  <2> QED
    BY SMTT(30), <1>1, <1>3, <2>2, <2>3, <2>4, SideStep
<1>4. \/ /\ storeBlocked' = FALSE /\ cacheBlocked' = FALSE
         /\ PostSend(s) \/ ForceComplete(s)
         /\ UNCHANGED <<sq, tail, canWB>>
      \/ /\ cacheBlocked' \in BOOLEAN
         /\ UNCHANGED <<storeBlocked, queueVars, inflight, stallVars, mem>>
  BY Zenon DEF Resend
<1> QED
  BY ZenonT(30), <1>2, <1>3, <1>4

\* A load that issues is sent, kept back or given a store's data, or gets
\* its data from the cache: nothing is recorded about stalls.
LEMMA LoadStep ==
    ASSUME IInv, NEW l \in SeqNum,
           \/ ForwardLoad(l) \/ SendLoad(l) \/ LoadResp(l)
           \/ \E got \in BOOLEAN : BlockLoad(l, got)
    PROVE  IInv'
<1>0. TypeOK /\ LoadOrder /\ IteratorAtBorder /\ StallOldest
  BY DEF IInv
<1>1. /\ UNCHANGED <<robVars, nullified, queueVars, inflight, mem, lq, sqIt, storeBlocked>>
      /\ UNCHANGED <<replay, stalled, stallStore, stallLoad>>
      /\ executed' \subseteq executed \cup {l} /\ executed \subseteq executed'
  BY Zenon DEF ForwardLoad, SendLoad, LoadResp, BlockLoad, portVars, stallVars
<1>2. cacheBlocked' \in BOOLEAN
  BY Zenon, <1>0 DEF TypeOK, QueueType, ForwardLoad, SendLoad, LoadResp, BlockLoad, portVars
<1>3. l \in Inst({"ld"})
  BY Zenon, <1>0 DEF ForwardLoad, SendLoad, LoadResp, BlockLoad, CanIssue, LoadOrder
<1>4. /\ addrValid' \cup outst' \cup blocked' \subseteq
           addrValid \cup outst \cup blocked \cup {l}
      /\ addrValid \subseteq addrValid'
      /\ executed' \cup outst' \subseteq executed \cup outst \cup {l}
      /\ l \in executed' \cup outst' => l \in addrValid' \/ l \in outst
  BY Zenon DEF ForwardLoad, SendLoad, LoadResp, BlockLoad
<1>5. /\ addrValid' \cup outst' \cup blocked' \cup replay' \subseteq Inst({"ld"})
      /\ \A m \in Inst({"ld"}) : m \in executed' \cup outst' => m \in addrValid'
  BY <1>0, <1>1, <1>3, <1>4 DEF LoadOrder
<1>6. StallOldest' /\ stalled' \in BOOLEAN
      /\ stallStore' \in 0 .. MaxSeq /\ stallLoad' \in 0 .. MaxSeq
  BY Zenon, <1>0, <1>1 DEF StallOldest, TypeOK, LoadType, queueVars
<1>7. /\ storeBlocked' \in BOOLEAN
      /\ storeBlocked' => wbIt <= tail /\ sq[wbIt] \in canWB \ nullified
  BY Zenon, <1>0, <1>1 DEF TypeOK, QueueType, IteratorAtBorder
<1> QED
  BY <1>1, <1>2, <1>3, <1>5, <1>6, <1>7, SideStep

\* A load is parked behind a store that covers it in part: the store is not
\* sent and older, and the record moves to the load if it is the oldest.
LEMMA StallStep ==
    ASSUME IInv, NEW l \in SeqNum, StallLoad(l)
    PROVE  IInv'
<1>0. /\ TypeOK /\ QueueOrder /\ WrittenBack /\ LoadOrder /\ IteratorAtBorder
      /\ StallOldest
  BY DEF IInv
<1>1. /\ UNCHANGED <<robVars, nullified, queueVars, inflight, mem, lq, sqIt>>
      /\ UNCHANGED <<storeBlocked, cacheBlocked, executed, outst, blocked>>
      /\ replay' = replay \cup {l} /\ addrValid' = addrValid \ {l}
  BY DEF StallLoad, portVars
<1>2. l \in Inst({"ld"}) /\ l \notin executed \cup outst
  BY DEF StallLoad, CanIssue
<1>3. PICK i \in wbIt .. tail :
        /\ i \in Candidates(l)
        /\ IF ~stalled \/ l < stallLoad
           THEN stalled' = TRUE /\ stallStore' = sq[i] /\ stallLoad' = l
           ELSE UNCHANGED <<stalled, stallStore, stallLoad>>
  BY DEF StallLoad, Match
<1>4. sq[i] < l /\ sq[i] \in 0 .. MaxSeq /\ l \in 0 .. MaxSeq
  <2>1. i \in 1 .. tail /\ i < sqIt[l]
    BY SMTT(30), <1>0, <1>2, <1>3, Positions DEF Candidates, LoadOrder
  <2> QED
    BY SMTT(30), <2>1, <1>0, <1>2, Positions DEF LoadOrder, SeqNum
<1>5. sq' = sq /\ tail' = tail /\ wbIt' = wbIt
  BY <1>1 DEF queueVars
<1>6. /\ StallOldest' /\ stalled' \in BOOLEAN
      /\ stallStore' \in 0 .. MaxSeq /\ stallLoad' \in 0 .. MaxSeq
  <2>1. CASE ~stalled \/ l < stallLoad
    <3>1. stalled' = TRUE /\ stallStore' = sq[i] /\ stallLoad' = l
      BY <2>1, <1>3, Zenon
    <3>2. \A m \in replay : l <= m
      <4>1. CASE stalled
        <5>1. \A m \in replay : stallLoad <= m
          BY Zenon, <4>1, <1>0 DEF StallOldest
        <5>2. stallLoad \in 0 .. MaxSeq /\ replay \subseteq live
          BY Zenon, <1>0 DEF TypeOK, LoadType
        <5>3. live \subseteq 0 .. MaxSeq
          BY <1>0, Positions DEF SeqNum
        <5>4. l < stallLoad
          BY Zenon, <2>1, <4>1
        <5>5. replay \subseteq 0 .. MaxSeq /\ l \in 0 .. MaxSeq /\ MaxSeq \in Nat
          BY Zenon, <5>2, <5>3, <1>4, SizeAssumption
        <5> QED
          BY <5>1, <5>2, <5>4, <5>5
      <4>2. CASE ~stalled
        BY Zenon, <4>2, <1>0 DEF StallOldest
      <4> QED
        BY Zenon, <4>1, <4>2
    <3>3. l \in replay' /\ \A m \in replay' : l <= m
      BY <3>2, <1>1, <1>4
    <3> QED
      BY Zenon, <3>1, <3>3, <1>3, <1>4, <1>5 DEF StallOldest
  <2>2. CASE stalled /\ ~(l < stallLoad)
    <3>1. stalled' /\ stalled' \in BOOLEAN
          /\ stallStore' = stallStore /\ stallLoad' = stallLoad
      BY <2>2, <1>0, <1>3, Zenon DEF TypeOK, LoadType
    <3>2. stallLoad \in Nat /\ stallLoad <= l
      BY <2>2, <1>0, <1>4 DEF TypeOK, LoadType
    <3>3. stallLoad \in replay' /\ \A m \in replay' : stallLoad <= m
      BY <2>2, <3>2, <1>0, <1>1 DEF StallOldest
    <3> QED
      BY Zenon, <2>2, <3>1, <3>3, <1>0, <1>5 DEF StallOldest, TypeOK, LoadType
  <2> QED
    BY <2>1, <2>2
<1>7. /\ addrValid' \cup outst' \cup blocked' \cup replay' \subseteq Inst({"ld"})
      /\ \A m \in Inst({"ld"}) : m \in executed' \cup outst' => m \in addrValid'
  BY Zenon, <1>0, <1>1, <1>2 DEF LoadOrder
<1>8. /\ storeBlocked' \in BOOLEAN /\ cacheBlocked' \in BOOLEAN
      /\ storeBlocked' => wbIt <= tail /\ sq[wbIt] \in canWB \ nullified
  BY Zenon, <1>0, <1>1 DEF TypeOK, QueueType, IteratorAtBorder
<1> QED
  BY Zenon, <1>1, <1>6, <1>7, <1>8, SideStep

\* The cache's refusals and retries, and blocked loads that become free.
LEMMA PortStep ==
    ASSUME IInv,
           \/ TickUnblock \/ RecvRetryNoStore
           \/ \E s \in SeqNum, got \in BOOLEAN : BlockStore(s, got)
    PROVE  IInv'
<1>0. TypeOK /\ LoadOrder /\ IteratorAtBorder /\ StallOldest
  BY DEF IInv
<1>1. /\ UNCHANGED <<robVars, executed, nullified, queueVars, inflight, mem>>
      /\ UNCHANGED <<lq, sqIt, addrValid, outst, replay, stalled, stallStore, stallLoad>>
      /\ blocked' \subseteq blocked
  BY Zenon DEF TickUnblock, RecvRetryNoStore, BlockStore, loadVars, stallVars
<1>2. /\ storeBlocked' \in BOOLEAN /\ cacheBlocked' \in BOOLEAN
      /\ storeBlocked' => wbIt <= tail /\ sq[wbIt] \in canWB \ nullified
  <2>1. CASE TickUnblock
    BY Zenon, <2>1, <1>0 DEF TickUnblock, portVars, TypeOK, QueueType, IteratorAtBorder
  <2>2. CASE RecvRetryNoStore
    BY Zenon, <2>2, <1>0 DEF RecvRetryNoStore, TypeOK, QueueType
  <2>3. ASSUME NEW s \in SeqNum, NEW got \in BOOLEAN, BlockStore(s, got)
        PROVE  /\ storeBlocked' = TRUE /\ cacheBlocked' = TRUE
               /\ wbIt <= tail /\ sq[wbIt] \in canWB \ nullified
    BY Zenon, <2>3 DEF BlockStore, AtWbIt
  <2> QED
    BY Zenon, <2>1, <2>2, <2>3
<1>3. /\ StallOldest' /\ stalled' \in BOOLEAN
      /\ stallStore' \in 0 .. MaxSeq /\ stallLoad' \in 0 .. MaxSeq
  BY Zenon, <1>0, <1>1 DEF StallOldest, TypeOK, LoadType, queueVars
<1>4. /\ addrValid' \cup outst' \cup blocked' \cup replay' \subseteq Inst({"ld"})
      /\ \A l \in Inst({"ld"}) : l \in executed' \cup outst' => l \in addrValid'
  BY <1>0, <1>1 DEF LoadOrder
<1> QED
  BY Zenon, <1>1, <1>2, <1>3, <1>4, SideStep

\* executeStore and write(): the oldest load that went too early and all
\* that follows it are squashed, and no retired instruction is among them.
LEMMA StoreExecutes ==
    ASSUME IInv, NEW s \in SeqNum, ExecuteStore(s)
    PROVE  IInv'
<1>0. TypeOK /\ RobOrder /\ QueueOrder /\ WrittenBack /\ IteratorAtBorder /\ LoadOrder
  BY DEF IInv
<1>1. s \in Inst(StoreOps) \ executed
  BY Zenon DEF ExecuteStore
<1>2. CASE Violators(s) = {}
  <2>1. /\ executed' = executed \cup {s} /\ nullified' = nullified
        /\ UNCHANGED <<robVars, queueVars, portVars, inflight, loadVars, stallVars, mem>>
    BY Zenon, <1>2 DEF ExecuteStore
  <2> QED
    BY <2>1, <1>1, ExecuteStep
<1>3. CASE Violators(s) # {}
  <2>1. PICK l \in Violators(s) :
          executed' = {m \in executed \cup {s} : m < l} /\ SquashFrom(l)
    BY Zenon, <1>3 DEF ExecuteStore
  <2>2. s \in live /\ op[s] \in StoreOps /\ s > retired
    BY SMTT(30), <1>0, <1>1, Positions DEF Inst, RobOrder, SeqNum
  <2>3. l \in live /\ l > retired
    BY SMTT(30), <2>2, <1>0, Positions DEF Violators, TypeOK, LoadType, SeqNum
  <2>4. executed \cup {s} \in SUBSET live
    BY <2>2, <1>0 DEF TypeOK, RobType
  <2>5. \A m \in executed \cup {s} : m \in executed \/ op[m] \in StoreOps
    BY <2>2
  <2> QED
    BY Zenon, <2>1, <2>3, <2>4, <2>5, SquashStep
<1> QED
  BY <1>2, <1>3

\* The answer to a store finds it in the queue and completes it.
LEMMA StoreRespStep ==
    ASSUME IInv, NEW s \in SeqNum, StoreResp(s)
    PROVE  IInv'
<1>1. PICK i \in head .. tail : sq[i] = s /\ CompleteStore(i)
  BY Zenon DEF StoreResp
<1>2. s \in inflight /\ s \in canWB /\ cacheBlocked \in BOOLEAN
  BY Zenon DEF StoreResp, IInv, TypeOK, QueueType
<1>3. /\ UNCHANGED <<robVars, executed, nullified, sq, tail, canWB, mem,
                     lq, sqIt, addrValid, outst>>
      /\ UNCHANGED <<wbIt, blocked, storeBlocked, cacheBlocked>>
      /\ inflight' = inflight \ {s}
  BY Zenon DEF StoreResp, loadVars, portVars
<1> QED
  BY Zenon, <1>1, <1>2, <1>3, CompleteStep

\* A store with no data completes under the iterator.
LEMMA SkipStep ==
    ASSUME IInv, NEW s \in SeqNum, SkipStore(s)
    PROVE  IInv'
<1>1. wbIt \in head .. tail /\ sq[wbIt] \in canWB
  BY Positions DEF SkipStore, AtWbIt, IInv
<1>2. /\ UNCHANGED <<robVars, executed, nullified, sq, tail, canWB, mem,
                     lq, sqIt, addrValid, outst>>
      /\ UNCHANGED <<inflight, blocked, cacheBlocked>>
      /\ wbIt' = wbIt + 1 /\ CompleteStore(wbIt)
  BY DEF SkipStore, loadVars, portVars
<1>3. storeBlocked' = FALSE /\ cacheBlocked \in BOOLEAN
  BY Zenon DEF SkipStore, portVars, IInv, TypeOK, QueueType
<1> QED
  BY Zenon, <1>1, <1>2, <1>3, CompleteStep

\* writebackStores sends the store under the iterator.
LEMMA SendStep ==
    ASSUME IInv, NEW s \in SeqNum, SendStore(s)
    PROVE  IInv'
<1>1. s \in canWB /\ wbIt <= tail /\ sq[wbIt] = s
  BY DEF SendStore, AtWbIt
<1>2. /\ UNCHANGED <<robVars, executed, nullified, sq, tail, canWB,
                     lq, sqIt, addrValid, outst>>
      /\ UNCHANGED <<blocked, cacheBlocked>>
      /\ PostSend(s) \/ ForceComplete(s)
  BY DEF SendStore, loadVars, portVars
<1>3. storeBlocked' = FALSE /\ cacheBlocked \in BOOLEAN
  BY Zenon DEF SendStore, portVars, IInv, TypeOK, QueueType
<1> QED
  BY Zenon, <1>1, <1>2, <1>3, AcceptStep

\* IInv holds initially.
LEMMA InitIInv == Init => IInv
<1> SUFFICES ASSUME Init PROVE IInv
  OBVIOUS
<1>1. TypeOK
  <2>1. RobType
    BY SizeAssumption DEF Init, RobType, SeqNum
  <2>2. storeBlocked \in BOOLEAN /\ cacheBlocked \in BOOLEAN /\ stalled \in BOOLEAN
    BY Zenon DEF Init
  <2>3. /\ sq \in [SeqNum -> 0 .. MaxSeq] /\ mem \in [Words -> 0 .. MaxSeq]
        /\ sqIt \in [SeqNum -> 0 .. MaxSeq + 1]
    BY SizeAssumption DEF Init, SeqNum
  <2>4. /\ head \in 1 .. MaxSeq + 1 /\ tail \in 0 .. MaxSeq /\ wbIt \in 1 .. MaxSeq + 1
        /\ storesToWB \in 0 .. MaxSeq
        /\ stallStore \in 0 .. MaxSeq /\ stallLoad \in 0 .. MaxSeq
    BY SizeAssumption DEF Init
  <2>5. QueueType /\ LoadType
    BY Zenon, <2>2, <2>3, <2>4 DEF Init, QueueType, LoadType
  <2> QED
    BY <2>1, <2>5 DEF TypeOK
<1>2. /\ head = 1 /\ wbIt = 1 /\ tail = 0 /\ head .. tail = {} /\ 1 .. tail = {}
      /\ 1 .. wbIt - 1 = {} /\ live = {}
  BY DEF Init
<1>3. /\ RobOrder /\ QueueOrder /\ WrittenBack /\ IteratorAtBorder /\ LoadOrder
      /\ StallOldest /\ HeadIsLive /\ ToWriteBack = {}
  <2>1. \A K : Inst(K) = {}
    BY Zenon, <1>2 DEF Inst
  <2>2. RobOrder
    BY Zenon, <1>2, <2>1 DEF Init, RobOrder
  <2>3. QueueOrder /\ WrittenBack
    BY Zenon, <1>2, <2>1 DEF Init, QueueOrder, WrittenBack
  <2>4. head <= wbIt /\ wbIt <= tail + 1
    BY <1>2
  <2>5. IteratorAtBorder
    BY Zenon, <1>2, <2>4 DEF Init, IteratorAtBorder
  <2>6. LoadOrder /\ StallOldest
    BY Zenon, <1>2, <2>1 DEF Init, LoadOrder, StallOldest
  <2>7. HeadIsLive /\ ToWriteBack = {}
    BY Zenon, <1>2 DEF Init, HeadIsLive, ToWriteBack, Queue
  <2> QED
    BY Zenon, <2>2, <2>3, <2>5, <2>6, <2>7
<1>4. CountExact
  BY <1>3, FS_EmptySet, Zenon DEF Init, CountExact
<1> QED
  BY <1>1, <1>2, <1>3, <1>4 DEF IInv

\* Every step of the queue preserves IInv.
LEMMA NextIInv == IInv /\ [Next]_vars => IInv'
<1> SUFFICES ASSUME IInv, [Next]_vars PROVE IInv'
  OBVIOUS
<1>1. CASE Dispatch
  <2>1. CASE next <= MaxSeq /\ \E c \in LoadCovers : InsertLoad(c)
    BY <2>1, InsertLoadStep
  <2>2. CASE next <= MaxSeq /\ \E k \in StoreOps, c \in SUBSET Words : InsertStore(k, c)
    BY <2>2, InsertStoreStep
  <2> QED
    BY <1>1, <2>1, <2>2, CoverAssumption DEF Dispatch, StoreOps
<1>2. CASE Squash
  <2>1. executed \in SUBSET live
    BY DEF IInv, TypeOK, RobType
  <2> QED
    BY <1>2, <2>1, SquashStep DEF Squash
<1>3. CASE CommitNotice
  BY <1>3, NoticeStep
<1>4. CASE TickUnblock \/ RecvRetryNoStore
  BY <1>4, PortStep
<1>5. ASSUME NEW n \in SeqNum, ExecuteStore(n) \/ NullifyStore(n)
      PROVE  IInv'
  <2>1. CASE ExecuteStore(n)
    BY <2>1, StoreExecutes
  <2>2. CASE NullifyStore(n)
    BY Zenon, <2>2, ExecuteStep DEF NullifyStore, Inst, StoreOps
  <2> QED
    BY <1>5, <2>1, <2>2
<1>6. ASSUME NEW n \in SeqNum,
             \/ ForwardLoad(n) \/ SendLoad(n) \/ LoadResp(n)
             \/ BlockLoad(n, TRUE) \/ BlockLoad(n, FALSE)
      PROVE  IInv'
  BY Zenon, <1>6, LoadStep
<1>7. ASSUME NEW n \in SeqNum, StallLoad(n) \/ Retire(n)
      PROVE  IInv'
  BY <1>7, StallStep, RetireStep
<1>8. ASSUME NEW n \in SeqNum, SkipStore(n) \/ SendStore(n) \/ StoreResp(n)
      PROVE  IInv'
  BY <1>8, SkipStep, SendStep, StoreRespStep
<1>9. ASSUME NEW n \in SeqNum, BlockStore(n, TRUE) \/ BlockStore(n, FALSE)
      PROVE  IInv'
  BY Zenon, <1>9, PortStep
<1>10. ASSUME NEW n \in SeqNum, NEW o, RetryStore(n, o) \/ RecvRetry(n, o)
       PROVE  IInv'
  <2>1. /\ storeBlocked /\ Resend(n, o) /\ blocked' \subseteq blocked
        /\ UNCHANGED <<robVars, executed, nullified, lq, sqIt, addrValid, outst>>
    BY <1>10 DEF RetryStore, RecvRetry, loadVars
  <2> QED
    BY <2>1, ResendStep
<1>11. CASE UNCHANGED vars
  <2>1. UNCHANGED <<robVars, executed, nullified, queueVars, portVars, inflight,
                    loadVars, stallVars, mem>>
    BY <1>11 DEF vars
  <2>2. UNCHANGED <<next, op, cover, live, retired, executed, nullified>>
    BY <2>1 DEF robVars
  <2>3. UNCHANGED <<sq, head, tail, wbIt, canWB, completed, storesToWB, inflight,
                    storeBlocked, cacheBlocked, mem>>
    BY <2>1 DEF queueVars, portVars
  <2>4. UNCHANGED <<lq, sqIt, addrValid, outst, blocked, replay, stalled, stallStore,
                    stallLoad>>
    BY <2>1 DEF loadVars, stallVars
  <2>5. TypeOK' /\ RobOrder'
    BY <2>2, <2>3, <2>4, ZenonT(30)
    DEF IInv, TypeOK, RobType, QueueType, LoadType, RobOrder, Inst
  <2>6. QueueOrder' /\ WrittenBack' /\ IteratorAtBorder'
    BY <2>2, <2>3, Zenon DEF IInv, QueueOrder, WrittenBack, IteratorAtBorder, Inst
  <2>7. HeadIsLive' /\ CountExact'
    BY <2>2, <2>3, Zenon DEF IInv, HeadIsLive, CountExact, ToWriteBack, Queue
  <2>8. LoadOrder' /\ StallOldest'
    BY <2>2, <2>3, <2>4, Zenon DEF IInv, LoadOrder, StallOldest, Inst
  <2> QED
    BY <2>5, <2>6, <2>7, <2>8 DEF IInv
<1> QED
  BY Zenon, <1>1, <1>2, <1>3, <1>4, <1>5, <1>6, <1>7, <1>8, <1>9, <1>10, <1>11 DEF Next

\* IInv is an invariant of the store queue.
THEOREM StoreQueueInductive == Spec => []IInv
BY InitIInv, NextIInv, PTL DEF Spec

\* The queue's state keeps its types, whatever the cache refuses and whenever
\* a squash comes: in particular the assertion storesToWB >= 0 never fails.
THEOREM StoreQueueTypes == Spec => []TypeOK
<1>1. IInv => TypeOK
  BY DEF IInv
<1> QED
  BY <1>1, StoreQueueInductive, PTL

\* storeWBIt stays at the border between the stores handed to the cache and
\* the others, for every queue size and every order of completions, forced
\* completions and squashes.
THEOREM IteratorBorder == Spec => []IteratorAtBorder
<1>1. IInv => IteratorAtBorder
  BY DEF IInv
<1> QED
  BY <1>1, StoreQueueInductive, PTL

\* storesToWB is exact: the write-back loop neither stops with a store left
\* nor runs on without one.
THEOREM StoreCount == Spec => []CountExact
<1>1. IInv => CountExact
  BY DEF IInv
<1> QED
  BY <1>1, StoreQueueInductive, PTL

\* completeStore leaves no completed store at the front of the queue, and a
\* store that has been sent stays in the queue until its answer.
THEOREM HeadLive == Spec => []HeadIsLive
<1>1. IInv => HeadIsLive
  BY DEF IInv
<1> QED
  BY <1>1, StoreQueueInductive, PTL

\* The assertion of LSQUnit::read holds: the position a load starts its scan
\* from is not behind the write-back iterator.
THEOREM ScanInRange == Spec => []ScanStartsInRange
<1>1. ASSUME IInv, NEW l \in Inst({"ld"}), l > retired
      PROVE  wbIt <= sqIt[l] /\ sqIt[l] <= tail + 1
  <2>0. TypeOK /\ QueueOrder /\ WrittenBack /\ IteratorAtBorder /\ LoadOrder
    BY <1>1 DEF IInv
  <2>1. sqIt[l] \in 1 .. tail + 1 /\ \A i \in 1 .. tail : (i < sqIt[l]) <=> (sq[i] < l)
    BY Zenon, <2>0 DEF LoadOrder
  <2>2. l \in Nat
    BY <2>0, Positions DEF Inst, SeqNum
  <2>3. wbIt > 1 => sq[wbIt - 1] < l
    BY <1>1, <2>0, <2>2, Positions DEF WrittenBack, SeqNum
  <2> QED
    BY <2>0, <2>1, <2>3, Positions
<1>2. IInv => ScanStartsInRange
  BY <1>1 DEF ScanStartsInRange
<1> QED
  BY <1>2, StoreQueueInductive, PTL

\* A load parked on a partial match always has a recorded stall that a store
\* still to be sent will end.
THEOREM StallWoken == Spec => []StallHasWaker
<1>1. IInv => StallHasWaker
  BY DEF IInv, StallOldest, StallHasWaker
<1> QED
  BY <1>1, StoreQueueInductive, PTL
=============================================================================
