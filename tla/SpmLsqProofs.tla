---------------------------- MODULE SpmLsqProofs ----------------------------
(***************************************************************************)
(* Type correctness of SpmLsq, its inductive invariant action by action,   *)
(* and its invariants for every program, every number of lines and         *)
(* instructions, every queue size and every Env.                           *)
(***************************************************************************)
EXTENDS SpmLsq, FiniteSetTheorems, TLAPS

-----------------------------------------------------------------------------
(* Type correctness *)


\* The number dispatch hands out is a sequence number.
LEMMA NextInSeqNum == ASSUME ProgType, next <= MaxSeq PROVE next \in SeqNum
  BY SizeAssumption DEF ProgType, SeqNum, SizeAssumption

\* The reset state is well typed.
LEMMA TypeInit == Init => TypeOK
<1> SUFFICES ASSUME Init PROVE TypeOK
  OBVIOUS
<1>1. ProgType
  BY SizeAssumption DEF Init, ProgType, SizeAssumption
<1>2. RobType /\ IqType /\ TabType
  BY DEF Init, RobType, IqType, TabType
<1>3. MemType /\ LoadType
  BY ZenonT(60) DEF Init, MemType, LoadType, Data
<1> QED
  BY <1>1, <1>2, <1>3 DEF TypeOK

\* What every execution of LSQUnit::read leaves well typed.
LEMMA ReadLoadType ==
  ASSUME TypeOK, NEW n \in SeqNum, ReadLoad(n)
  PROVE  /\ ProgType' /\ RobType' /\ MemType'
         /\ ready' \in [SeqNum -> Nat]
         /\ shadow' \subseteq SeqNum /\ addrValid' \subseteq SeqNum
         /\ pending' \subseteq SeqNum
         /\ aborted' \in BOOLEAN
<1>1. ready[n] - 1 \in Nat
  BY DEF TypeOK, IqType, ReadLoad, CanIssue
<1>2. ready' \in [SeqNum -> Nat]
  BY <1>1 DEF TypeOK, IqType, ReadLoad
<1>3. ProgType' /\ RobType' /\ MemType'
  BY DEF TypeOK, ProgType, RobType, MemType, ReadLoad, robVars, memVars
<1> QED
  BY <1>2, <1>3 DEF TypeOK, TabType, LoadType, ReadLoad

\* No handler takes a variable out of its type.
LEMMA TypeStep == TypeOK /\ [Next]_vars => TypeOK'
<1> SUFFICES ASSUME TypeOK, [Next]_vars PROVE TypeOK'
  OBVIOUS
<1> USE DEF TypeOK
<1>1. ASSUME NEW k \in Kinds, NEW ls \in SUBSET Lines, Dispatch(k, ls)
      PROVE  TypeOK'
  <2>1. next \in SeqNum /\ next + 1 \in 1 .. MaxSeq + 1
    BY <1>1, NextInSeqNum, SizeAssumption DEF Dispatch, ProgType, SizeAssumption
  <2>2. ProgType'
    BY <1>1, <2>1 DEF Dispatch, ProgType
  <2>3. IqType' /\ TabType'
    BY <1>1, <2>1 DEF Dispatch, IqType, TabType
  <2> QED
    BY <1>1, <2>2, <2>3 DEF Dispatch, RobType, MemType, LoadType, robVars,
                            memVars
<1>2. ASSUME NEW n \in SeqNum, CanIssue(n), ready' = [ready EXCEPT ![n] = @ - 1],
             UNCHANGED <<blocked, replay>>
      PROVE  IqType'
  <2>1. ready[n] - 1 \in Nat
    BY <1>2 DEF CanIssue, IqType
  <2> QED
    BY <1>2, <2>1 DEF IqType
<1>3. ASSUME NEW n \in SeqNum, ExecuteCopy(n) PROVE TypeOK'
  <2>1. IqType'
    BY ZenonT(60), <1>2, <1>3 DEF ExecuteCopy
  <2> QED
    BY <1>3, <2>1 DEF ExecuteCopy, memVars, ProgType, RobType, TabType,
                      MemType, LoadType
<1>4. ASSUME NEW n \in SeqNum, FaultCopy(n) PROVE TypeOK'
  <2>1. IqType'
    BY ZenonT(60), <1>2, <1>4 DEF FaultCopy
  <2> QED
    BY <1>4, <2>1 DEF FaultCopy, memVars, tabVars, ProgType, RobType, TabType,
                      MemType, LoadType
<1>5. ASSUME NEW n \in SeqNum, ExecuteStore(n) \/ SkipLoad(n) PROVE TypeOK'
  <2>1. IqType'
    BY Zenon, <1>2, <1>5 DEF ExecuteStore, SkipLoad
  <2> QED
    BY <1>5, <2>1 DEF ExecuteStore, SkipLoad, memVars, tabVars, ProgType,
                      RobType, TabType, MemType, LoadType
<1>6. ASSUME NEW n \in SeqNum, ParkLoad(n) PROVE TypeOK'
  <2>1. ReadLoad(n)
    BY <1>6 DEF ParkLoad
  <2>2. IqType' /\ LoadType'
    BY <1>6, <2>1, ReadLoadType DEF ParkLoad, IqType, LoadType
  <2>3. TabType'
    BY <1>6, <2>1, ReadLoadType DEF ParkLoad, TabType
  <2> QED
    BY <2>1, <2>2, <2>3, ReadLoadType
<1>7. ASSUME NEW n \in SeqNum, DeferLoad(n) \/ RefuseLoad(n) PROVE TypeOK'
  <2>1. ReadLoad(n)
    BY <1>7 DEF DeferLoad, RefuseLoad
  <2>2. IqType'
    BY <1>7, <2>1, ReadLoadType DEF DeferLoad, RefuseLoad, IqType
  <2>3. TabType' /\ LoadType'
    BY <1>7, <2>1, ReadLoadType DEF DeferLoad, RefuseLoad, TabType, LoadType
  <2> QED
    BY <2>1, <2>2, <2>3, ReadLoadType
<1>8. ASSUME NEW n \in SeqNum, SendLoad(n) PROVE TypeOK'
  <2>1. ReadLoad(n)
    BY <1>8 DEF SendLoad
  <2>2. IqType' /\ TabType'
    BY <1>8, <2>1, ReadLoadType DEF SendLoad, IqType, TabType
  <2>3. [l \in Lines |-> IF l \in rng[n] THEN content[l] ELSE 0]
            \in [Lines -> Data]
    BY DEF MemType, Data
  <2>4. LoadType'
    BY SMTT(60), <1>8, <2>1, <2>3, ReadLoadType DEF SendLoad, LoadType
  <2> QED
    BY <2>1, <2>2, <2>4, ReadLoadType
<1>9. ASSUME NEW n \in SeqNum, AbortLoad(n) PROVE TypeOK'
  BY <1>9 DEF AbortLoad, robVars, iqVars, memVars, tabVars, ProgType, RobType,
              IqType, TabType, MemType, LoadType
<1>10. ASSUME NEW n \in SeqNum, LoadResp(n) PROVE TypeOK'
  BY <1>10 DEF LoadResp, iqVars, memVars, ProgType, RobType, IqType, TabType,
               MemType, LoadType
<1>11. ASSUME NEW n \in SeqNum, Commit(n) \/ CommitBarrier(n) PROVE TypeOK'
  BY <1>11 DEF Commit, CommitBarrier, iqVars, memVars, tabVars, ProgType,
               RobType, IqType, TabType, MemType, LoadType
<1>12. ASSUME NEW n \in SeqNum, SquashFrom(n) PROVE TypeOK'
  <2>1. IqType'
    BY <1>12 DEF SquashFrom, IqType
  <2> QED
    BY <1>12, <2>1 DEF SquashFrom, robVars, memVars, ProgType, RobType,
                       TabType, MemType, LoadType
<1>13. ASSUME NEW n \in SeqNum, SendCopy(n) \/ StoreResp(n) PROVE TypeOK'
  BY Zenon, <1>13 DEF SendCopy, StoreResp, robVars, iqVars, tabVars, ProgType,
               RobType, IqType, TabType, MemType, LoadType
<1>14. ASSUME NEW n \in SeqNum, CopyDone(n) PROVE TypeOK'
  <2>1. [l \in Lines |-> IF l \in rng[n] THEN content[l] ELSE 0]
            \in [Lines -> Data]
    BY DEF MemType, Data
  <2>2. [l \in Lines |-> IF l \in rng[n] THEN n ELSE content[l]]
            \in [Lines -> Data]
    BY DEF MemType, Data
  <2>3. MemType' /\ LoadType'
    BY SMTT(60), <1>14, <2>1, <2>2 DEF CopyDone, MemType, LoadType
  <2> QED
    BY <1>14, <2>3 DEF CopyDone, robVars, iqVars, tabVars, ProgType, RobType,
                       IqType, TabType
<1>15. ASSUME NEW n \in SeqNum, CopyAck(n) PROVE TypeOK'
  <2>1. IqType'
    BY <1>15 DEF CopyAck, IqType
  <2>2. TabType'
    BY <1>15 DEF CopyAck, TabType
  <2> QED
    BY SMTT(60), <1>15, <2>1, <2>2 DEF CopyAck, robVars, ProgType, RobType, MemType,
                             LoadType
<1>16. ASSUME NEW n \in SeqNum, SendStore(n) PROVE TypeOK'
  <2>1. MemType'
    BY <1>16 DEF SendStore, MemType, Data
  <2> QED
    BY SMTT(60), <1>16, <2>1 DEF SendStore, robVars, iqVars, tabVars, ProgType, RobType,
                       IqType, TabType, LoadType
<1>17. CASE ReplayAll \/ CacheUnblocked
  <2>1. IqType'
    BY <1>17 DEF ReplayAll, CacheUnblocked, IqType
  <2> QED
    BY <1>17, <2>1 DEF ReplayAll, CacheUnblocked, robVars, memVars, tabVars,
                       ProgType, RobType, TabType, MemType, LoadType
<1>18. CASE UNCHANGED vars
  BY Zenon, <1>18 DEF vars, robVars, iqVars, memVars, tabVars, ProgType, RobType,
               IqType, TabType, MemType, LoadType
<1> HIDE DEF TypeOK
<1> QED
  BY <1>1, <1>3, <1>4, <1>5, <1>6, <1>7, <1>8, <1>9, <1>10, <1>11, <1>12,
     <1>13, <1>14, <1>15, <1>16, <1>17, <1>18 DEF Next, Step, Squash, Trap

\* Every variable of the LSQ keeps its type, whatever the program, the sizes
\* of the queues and the order of the L2's answers.
THEOREM TypeCorrect == Spec => []TypeOK
  BY TypeInit, TypeStep, PTL DEF Spec

-----------------------------------------------------------------------------
(* The inductive invariant *)

\* Sequence numbers are naturals (all the proofs below use of them).
LEMMA SeqNumNat == SeqNum \subseteq Nat
  BY DEF SeqNum

\* The load queue is a finite set.
LEMMA LoadQueueFinite == ASSUME TypeOK PROVE IsFiniteSet(LoadQueue)
<1>1. IsFiniteSet(SeqNum)
  BY FS_Interval, SizeAssumption DEF SeqNum, SizeAssumption
<1>2. LoadQueue \subseteq SeqNum
  BY DEF TypeOK, ProgType, LoadQueue, Inst
<1> QED
  BY <1>1, <1>2, FS_Subset

\* A step that adds nothing to the load queue keeps it within its bound.
LEMMA LoadQueueShrinks ==
  ASSUME TypeOK, PendingTracked, LoadQueue' \subseteq LoadQueue
  PROVE  Cardinality(LoadQueue') <= LQEntries
<1>1. /\ IsFiniteSet(LoadQueue) /\ IsFiniteSet(LoadQueue')
      /\ Cardinality(LoadQueue') <= Cardinality(LoadQueue)
  BY LoadQueueFinite, FS_Subset
<1>2. Cardinality(LoadQueue) \in Nat /\ Cardinality(LoadQueue') \in Nat
  BY <1>1, FS_CardinalityType
<1> QED
  BY <1>1, <1>2, SizeAssumption DEF PendingTracked, SizeAssumption

\* The empty queues and tables satisfy the inductive invariant.
LEMMA IInvInit == Init => IInv
<1> SUFFICES ASSUME Init PROVE IInv
  OBVIOUS
<1>1. TypeOK
  BY TypeInit
<1>2. LoadQueue = {} /\ Cardinality(LoadQueue) = 0
  BY FS_EmptySet DEF Init, LoadQueue, Inst
<1>3. FlightOrder /\ CommitOrder /\ RawOrdered
  BY DEF Init, FlightOrder, CommitOrder, RawOrdered, Inst
<1>4. ShadowComplete /\ NoLostWakeup
  BY <1>2 DEF Init, ShadowComplete, NoLostWakeup, Inst
<1>5. PendingTracked
  BY <1>2, SizeAssumption DEF Init, PendingTracked, SizeAssumption
<1> QED
  BY <1>1, <1>3, <1>4, <1>5 DEF IInv

\* Commit is in order and takes executed instructions only.
LEMMA CommitStep ==
  ASSUME IInv, TypeOK', NEW n \in SeqNum, Commit(n) \/ CommitBarrier(n)
  PROVE  IInv'
<1> USE SeqNumNat DEF IInv
<1>1. FlightOrder'
  <2>1. UNCHANGED <<next, live, outst, sent, done, acked>>
    BY DEF Commit, CommitBarrier, memVars
  <2>2. n \in live /\ committed' = committed \cup {n}
    BY DEF Commit, CommitBarrier, Head
  <2>3. executed' = executed \/ executed' = executed \cup {n}
    BY DEF Commit, CommitBarrier
  <2> QED
    BY <2>1, <2>2, <2>3 DEF FlightOrder
<1>2. CommitOrder'
  BY Zenon DEF Commit, CommitBarrier, Head, iqVars, tabVars, memVars, TypeOK,
     ProgType, CommitOrder
<1>3. ShadowComplete'
  BY Zenon DEF Commit, CommitBarrier, Head, iqVars, tabVars, memVars, TypeOK,
     ProgType, TabType, ShadowComplete, Inst
<1>4. PendingTracked'
  <2>1. /\ pending' \subseteq LoadQueue' \ executed'
        /\ \A m \in pending' : rng'[m] # {}
    BY Zenon DEF Commit, CommitBarrier, Head, iqVars, tabVars, memVars,
       PendingTracked, LoadQueue, Inst
  <2>2. LoadQueue' \subseteq LoadQueue
    BY DEF Commit, CommitBarrier, Head, iqVars, tabVars, memVars, LoadQueue,
       Inst
  <2> QED
    BY <2>1, <2>2, LoadQueueShrinks DEF PendingTracked
<1>5. RawOrdered'
  BY DEF Commit, CommitBarrier, Head, iqVars, tabVars, memVars, RawOrdered,
     Inst
<1>6. NoLostWakeup'
  BY Zenon DEF Commit, CommitBarrier, Head, iqVars, tabVars, memVars, TypeOK, IqType,
     TabType, NoLostWakeup, LoadQueue, Inst
<1> QED
  BY <1>1, <1>2, <1>3, <1>4, <1>5, <1>6

\* Handing a copy to the L2, and its being performed, touch no table.
LEMMA SendCopyStep ==
  ASSUME IInv, TypeOK', NEW n \in SeqNum, SendCopy(n) \/ CopyDone(n)
  PROVE  IInv'
<1> USE SeqNumNat DEF IInv
<1>1. FlightOrder'
  BY Zenon DEF SendCopy, CopyDone, MainSQ, iqVars, tabVars, robVars, TypeOK,
     ProgType, FlightOrder
<1>2. CommitOrder'
  BY Zenon DEF SendCopy, CopyDone, MainSQ, iqVars, tabVars, robVars, TypeOK,
     ProgType, CommitOrder
<1>3. ShadowComplete'
  BY Zenon DEF SendCopy, CopyDone, MainSQ, iqVars, tabVars, robVars, TypeOK,
     ProgType, TabType, ShadowComplete, Inst
<1>4. PendingTracked'
  <2>1. /\ pending' \subseteq LoadQueue' \ executed'
        /\ \A m \in pending' : rng'[m] # {}
    BY Zenon DEF SendCopy, CopyDone, MainSQ, iqVars, tabVars, robVars,
       PendingTracked, LoadQueue, Inst
  <2>2. LoadQueue' \subseteq LoadQueue
    BY Zenon DEF SendCopy, CopyDone, MainSQ, iqVars, tabVars, robVars, LoadQueue,
       Inst
  <2> QED
    BY <2>1, <2>2, LoadQueueShrinks DEF PendingTracked
<1>5. RawOrdered'
  BY Zenon DEF SendCopy, CopyDone, MainSQ, iqVars, tabVars, robVars, RawOrdered, Inst
<1>6. NoLostWakeup'
  BY ZenonT(60) DEF SendCopy, CopyDone, MainSQ, iqVars, tabVars, robVars, TypeOK, IqType,
     TabType, NoLostWakeup, LoadQueue, Inst
<1> QED
  BY <1>1, <1>2, <1>3, <1>4, <1>5, <1>6

\* A store has no shadow entry, so its answer completes none.
LEMMA StoreStep ==
  ASSUME IInv, TypeOK', NEW n \in SeqNum, SendStore(n) \/ StoreResp(n)
  PROVE  IInv'
<1> USE SeqNumNat DEF IInv
<1>1. FlightOrder'
  BY ZenonT(60) DEF SendStore, StoreResp, SpmSQ, iqVars, tabVars, robVars, TypeOK,
     ProgType, FlightOrder
<1>2. CommitOrder'
  BY Zenon DEF SendStore, StoreResp, SpmSQ, iqVars, tabVars, robVars, TypeOK,
     ProgType, CommitOrder
<1>3. ShadowComplete'
  BY Zenon DEF SendStore, StoreResp, SpmSQ, iqVars, tabVars, robVars, TypeOK,
     ProgType, TabType, ShadowComplete, Inst
<1>4. PendingTracked'
  <2>1. /\ pending' \subseteq LoadQueue' \ executed'
        /\ \A m \in pending' : rng'[m] # {}
    BY Zenon DEF SendStore, StoreResp, SpmSQ, iqVars, tabVars, robVars,
       PendingTracked, LoadQueue, Inst
  <2>2. LoadQueue' \subseteq LoadQueue
    BY Zenon DEF SendStore, StoreResp, SpmSQ, iqVars, tabVars, robVars, LoadQueue,
       Inst
  <2> QED
    BY <2>1, <2>2, LoadQueueShrinks DEF PendingTracked
<1>5. RawOrdered'
  BY Zenon DEF SendStore, StoreResp, SpmSQ, iqVars, tabVars, robVars, RawOrdered,
     Inst
<1>6. NoLostWakeup'
  BY ZenonT(60) DEF SendStore, StoreResp, SpmSQ, iqVars, tabVars, robVars, TypeOK, IqType,
     TabType, NoLostWakeup, LoadQueue, Inst, ShadowComplete, Copy
<1> QED
  BY <1>1, <1>2, <1>3, <1>4, <1>5, <1>6

\* The acknowledgement wakes every live load that waits for this entry.
LEMMA CopyAckStep ==
  ASSUME IInv, TypeOK', NEW n \in SeqNum, CopyAck(n)
  PROVE  IInv'
<1> USE SeqNumNat DEF IInv
<1>1. FlightOrder'
  BY ZenonT(60) DEF CopyAck, robVars, TypeOK, ProgType, FlightOrder
<1>2. CommitOrder'
  BY Zenon DEF CopyAck, robVars, TypeOK, ProgType, CommitOrder
<1>3. ShadowComplete'
  BY Zenon DEF CopyAck, robVars, TypeOK, ProgType, TabType, ShadowComplete, Inst
<1>4. PendingTracked'
  <2>1. /\ pending' \subseteq LoadQueue' \ executed'
        /\ \A m \in pending' : rng'[m] # {}
    BY Zenon DEF CopyAck, robVars, PendingTracked, LoadQueue, Inst
  <2>2. LoadQueue' \subseteq LoadQueue
    BY DEF CopyAck, robVars, LoadQueue, Inst
  <2> QED
    BY Zenon, <2>1, <2>2, LoadQueueShrinks DEF PendingTracked
<1>5. RawOrdered'
  BY Zenon DEF CopyAck, robVars, RawOrdered, Inst
<1>6. NoLostWakeup'
  <2> SUFFICES ASSUME NEW m \in LoadQueue' \ (executed' \cup outst'),
                      ready'[m] + blocked'[m] + replay'[m] = 0
               PROVE  \E e \in shadow' \ acked' : m \in waiting'[e]
    BY DEF NoLostWakeup
  <2>1. m \in LoadQueue \ (executed \cup outst) /\ m \in live /\ m \in SeqNum
    BY Zenon DEF CopyAck, robVars, LoadQueue, Inst, TypeOK, ProgType
  <2>2. ready'[m] = 0 /\ ready[m] = 0 /\ blocked[m] = 0 /\ replay[m] = 0
    BY SMTT(60), <2>1 DEF CopyAck, TypeOK, IqType
  <2>3. PICK e \in shadow \ acked : m \in waiting[e]
    <3>1. ready[m] + blocked[m] + replay[m] = 0
      BY <2>2
    <3> QED
      BY Zenon, <2>1, <3>1 DEF NoLostWakeup
  <2>4. e # n
    BY <2>1, <2>2, <2>3 DEF CopyAck
  <2>5. e \in shadow' \ acked' /\ waiting'[e] = waiting[e]
    BY Zenon, <2>3, <2>4 DEF CopyAck, TypeOK, TabType
  <2> QED
    BY <2>3, <2>5
<1> QED
  BY <1>1, <1>2, <1>3, <1>4, <1>5, <1>6

\* Cleaning up drops only acknowledged entries.
LEMMA ExecuteCopyStep ==
  ASSUME IInv, TypeOK', NEW n \in SeqNum, ExecuteCopy(n)
  PROVE  IInv'
<1> USE SeqNumNat DEF IInv
<1>1. FlightOrder'
  BY Zenon DEF ExecuteCopy, CanIssue, Retired, memVars, TypeOK, ProgType, FlightOrder
<1>2. CommitOrder'
  BY Zenon DEF ExecuteCopy, CanIssue, Retired, memVars, TypeOK, ProgType, CommitOrder
<1>3. ShadowComplete'
  BY ZenonT(60) DEF ExecuteCopy, CanIssue, Retired, memVars, TypeOK, ProgType, TabType,
     ShadowComplete, Inst
<1>4. PendingTracked'
  <2>1. /\ pending' \subseteq LoadQueue' \ executed'
        /\ \A m \in pending' : rng'[m] # {}
    BY Zenon DEF ExecuteCopy, CanIssue, Retired, memVars, PendingTracked, LoadQueue,
       Inst, Copy
  <2>2. LoadQueue' \subseteq LoadQueue
    BY Zenon DEF ExecuteCopy, CanIssue, Retired, memVars, LoadQueue, Inst, Copy
  <2> QED
    BY Zenon, <2>1, <2>2, LoadQueueShrinks DEF PendingTracked
<1>5. RawOrdered'
  BY Zenon DEF ExecuteCopy, CanIssue, Retired, memVars, RawOrdered, Inst, Copy
<1>6. NoLostWakeup'
  <2> SUFFICES ASSUME NEW m \in LoadQueue' \ (executed' \cup outst'),
                      ready'[m] + blocked'[m] + replay'[m] = 0
               PROVE  \E e \in shadow' \ acked' : m \in waiting'[e]
    BY Zenon DEF NoLostWakeup
  <2>1. m \in LoadQueue \ (executed \cup outst) /\ m # n
    BY Zenon DEF ExecuteCopy, LoadQueue, Inst
  <2>2. ready[m] + blocked[m] + replay[m] = 0
    BY <2>1 DEF ExecuteCopy, TypeOK, IqType
  <2>3. PICK e \in shadow \ acked : m \in waiting[e]
    BY Zenon, <2>1, <2>2 DEF NoLostWakeup
  <2> QED
    BY Zenon, <2>3 DEF ExecuteCopy, Retired, memVars
<1> QED
  BY <1>1, <1>2, <1>3, <1>4, <1>5, <1>6

\* Executing a store, a faulting copy or a load without lanes touches no table.
LEMMA ExecuteOtherStep ==
  ASSUME IInv, TypeOK', NEW n \in SeqNum,
         FaultCopy(n) \/ ExecuteStore(n) \/ SkipLoad(n)
  PROVE  IInv'
<1> USE SeqNumNat DEF IInv
<1>0. /\ CanIssue(n)
      /\ op[n] \in Copy \/ op[n] = "st" \/ (op[n] = "ld" /\ rng[n] = {})
      /\ ready' = [ready EXCEPT ![n] = @ - 1]
      /\ executed' = executed \cup {n}
      /\ UNCHANGED <<next, op, rng, live, committed, blocked, replay, outst>>
      /\ UNCHANGED <<shadow, addrValid, waiting, acked, pending>>
      /\ UNCHANGED <<sent, done, content>>
  <2>1. CASE FaultCopy(n)
    BY ZenonT(60), <2>1 DEF FaultCopy, tabVars, memVars
  <2>2. CASE ExecuteStore(n)
    BY Zenon, <2>2 DEF ExecuteStore, tabVars, memVars
  <2>3. CASE SkipLoad(n)
    BY Zenon, <2>3 DEF SkipLoad, tabVars, memVars
  <2> QED
    BY ZenonT(60), <2>1, <2>2, <2>3
<1>1. FlightOrder'
  BY Zenon, <1>0 DEF CanIssue, TypeOK, ProgType, FlightOrder
<1>2. CommitOrder'
  BY Zenon, <1>0 DEF CanIssue, TypeOK, ProgType, CommitOrder
<1>3. ShadowComplete'
  BY Zenon, <1>0 DEF CanIssue, TypeOK, ProgType, TabType, ShadowComplete, Inst
<1>4. PendingTracked'
  <2>1. /\ pending' \subseteq LoadQueue' \ executed'
        /\ \A m \in pending' : rng'[m] # {}
    BY Zenon, <1>0 DEF PendingTracked, LoadQueue, Inst, Copy
  <2>2. LoadQueue' \subseteq LoadQueue
    BY Zenon, <1>0 DEF LoadQueue, Inst
  <2> QED
    BY SMTT(60), <2>1, <2>2, LoadQueueShrinks DEF PendingTracked
<1>5. RawOrdered'
  BY Zenon, <1>0 DEF RawOrdered, Inst, Copy
<1>6. NoLostWakeup'
  <2> SUFFICES ASSUME NEW m \in LoadQueue' \ (executed' \cup outst'),
                      ready'[m] + blocked'[m] + replay'[m] = 0
               PROVE  \E e \in shadow' \ acked' : m \in waiting'[e]
    BY Zenon DEF NoLostWakeup
  <2>1. m \in LoadQueue \ (executed \cup outst) /\ m # n /\ m \in SeqNum
    BY Zenon, <1>0 DEF LoadQueue, Inst, TypeOK, ProgType
  <2>2. ready[m] + blocked[m] + replay[m] = 0
    BY <1>0, <2>1, SMTT(60) DEF TypeOK, IqType
  <2>3. PICK e \in shadow \ acked : m \in waiting[e]
    BY ZenonT(60), <2>1, <2>2 DEF NoLostWakeup
  <2> QED
    BY Zenon, <1>0, <2>3
<1> QED
  BY <1>1, <1>2, <1>3, <1>4, <1>5, <1>6

\* An answered load leaves the pending table as it becomes executed.
LEMMA LoadRespStep ==
  ASSUME IInv, TypeOK', NEW n \in SeqNum, LoadResp(n)
  PROVE  IInv'
<1> USE SeqNumNat DEF IInv
<1>1. FlightOrder'
  BY Zenon DEF LoadResp, iqVars, memVars, TypeOK, ProgType, FlightOrder, RobType
<1>2. CommitOrder'
  BY Zenon DEF LoadResp, iqVars, memVars, TypeOK, ProgType, CommitOrder, RobType
<1>3. ShadowComplete'
  BY Zenon DEF LoadResp, iqVars, memVars, TypeOK, ProgType, TabType, ShadowComplete,
     Inst
<1>4. PendingTracked'
  <2>1. /\ pending' \subseteq LoadQueue' \ executed'
        /\ \A m \in pending' : rng'[m] # {}
    BY Zenon DEF LoadResp, iqVars, memVars, PendingTracked, LoadQueue, Inst
  <2>2. LoadQueue' \subseteq LoadQueue
    BY Zenon DEF LoadResp, iqVars, memVars, LoadQueue, Inst
  <2> QED
    BY Zenon, <2>1, <2>2, LoadQueueShrinks DEF PendingTracked
<1>5. RawOrdered'
  BY Zenon DEF LoadResp, iqVars, memVars, RawOrdered, Inst
<1>6. NoLostWakeup'
  BY Zenon DEF LoadResp, iqVars, memVars, TypeOK, IqType, TabType, NoLostWakeup,
     LoadQueue, Inst
<1> QED
  BY <1>1, <1>2, <1>3, <1>4, <1>5, <1>6

\* A squash that spares the committed prefix spares the entries older
\* loads wait for.
LEMMA SquashStep ==
  ASSUME IInv, TypeOK', NEW k \in SeqNum,
         SquashFrom(k), \A m \in committed : m < k
  PROVE  IInv'
<1> USE SeqNumNat DEF IInv
<1>1. FlightOrder'
  <2>1. \A n \in live' \cup executed' \cup outst' : n < next'
    BY Zenon DEF SquashFrom, robVars, FlightOrder
  <2>2. committed' \subseteq live'
    <3> SUFFICES ASSUME NEW m \in committed PROVE m \in live'
      BY DEF SquashFrom, robVars
    <3>1. m \in live /\ m \in SeqNum /\ m < k
      BY DEF FlightOrder, TypeOK, ProgType
    <3>2. ~(m >= k)
      BY <3>1
    <3> QED
      BY Zenon, <3>1, <3>2 DEF SquashFrom
  <2>3. sent' \subseteq committed' /\ done' \subseteq sent' /\ acked' \subseteq done'
    BY DEF SquashFrom, robVars, memVars, FlightOrder
  <2> QED
    BY <2>1, <2>2, <2>3 DEF FlightOrder
<1>2. CommitOrder'
  BY Zenon DEF SquashFrom, robVars, memVars, TypeOK, ProgType, CommitOrder, RobType
<1>3. ShadowComplete'
  BY ZenonT(60) DEF SquashFrom, robVars, memVars, TypeOK, ProgType, TabType,
     ShadowComplete, Inst
<1>4. PendingTracked'
  <2>1. /\ pending' \subseteq LoadQueue' \ executed'
        /\ \A m \in pending' : rng'[m] # {}
    BY Zenon DEF SquashFrom, robVars, memVars, PendingTracked, LoadQueue, Inst
  <2>2. LoadQueue' \subseteq LoadQueue
    BY DEF SquashFrom, robVars, memVars, LoadQueue, Inst
  <2> QED
    BY <2>1, <2>2, LoadQueueShrinks DEF PendingTracked
<1>5. RawOrdered'
  BY Zenon DEF SquashFrom, robVars, memVars, RawOrdered, Inst
<1>6. NoLostWakeup'
  <2> SUFFICES ASSUME NEW m \in LoadQueue' \ (executed' \cup outst'),
                      ready'[m] + blocked'[m] + replay'[m] = 0
               PROVE  \E e \in shadow' \ acked' : m \in waiting'[e]
    BY Zenon DEF NoLostWakeup
  <2>1. m \in LoadQueue \ (executed \cup outst) /\ m \in SeqNum /\ ~(m >= k)
    BY Zenon DEF SquashFrom, robVars, LoadQueue, Inst, TypeOK, ProgType
  <2>2. ready[m] + blocked[m] + replay[m] = 0
    BY SMTT(60), <2>1 DEF SquashFrom
  <2>3. PICK e \in shadow \ acked : m \in waiting[e]
    BY Zenon, <2>1, <2>2 DEF NoLostWakeup
  <2>4. e \in SeqNum /\ e < m
    BY Zenon, <2>3 DEF ShadowComplete, TypeOK, TabType
  <2>5. ~(e >= k)
    BY SMTT(60), <2>1, <2>4
  <2>6. e \in shadow' \ acked'
    BY Zenon, <2>3, <2>5 DEF SquashFrom, memVars
  <2> QED
    BY Zenon, <2>3, <2>6 DEF SquashFrom
<1> QED
  BY <1>1, <1>2, <1>3, <1>4, <1>5, <1>6

\* Re-issue moves loads from one list of the IQ to another.
LEMMA ReissueStep ==
  ASSUME IInv, TypeOK', ReplayAll \/ CacheUnblocked
  PROVE  IInv'
<1> USE SeqNumNat DEF IInv
<1>1. FlightOrder'
  BY ZenonT(60) DEF ReplayAll, CacheUnblocked, robVars, tabVars, memVars, TypeOK,
     ProgType, FlightOrder
<1>2. CommitOrder'
  BY Zenon DEF ReplayAll, CacheUnblocked, robVars, tabVars, memVars, TypeOK,
     ProgType, CommitOrder
<1>3. ShadowComplete'
  BY Zenon DEF ReplayAll, CacheUnblocked, robVars, tabVars, memVars, TypeOK,
     ProgType, TabType, ShadowComplete, Inst
<1>4. PendingTracked'
  <2>1. /\ pending' \subseteq LoadQueue' \ executed'
        /\ \A m \in pending' : rng'[m] # {}
    BY Zenon DEF ReplayAll, CacheUnblocked, robVars, tabVars, memVars,
       PendingTracked, LoadQueue, Inst
  <2>2. LoadQueue' \subseteq LoadQueue
    BY Zenon DEF ReplayAll, CacheUnblocked, robVars, tabVars, memVars, LoadQueue,
       Inst
  <2> QED
    BY Zenon, <2>1, <2>2, LoadQueueShrinks DEF PendingTracked
<1>5. RawOrdered'
  BY Zenon DEF ReplayAll, CacheUnblocked, robVars, tabVars, memVars, RawOrdered, Inst
<1>6. NoLostWakeup'
  <2> SUFFICES ASSUME NEW m \in LoadQueue' \ (executed' \cup outst'),
                      ready'[m] + blocked'[m] + replay'[m] = 0
               PROVE  \E e \in shadow' \ acked' : m \in waiting'[e]
    BY Zenon DEF NoLostWakeup
  <2>1. m \in LoadQueue \ (executed \cup outst) /\ m \in SeqNum
    BY Zenon DEF ReplayAll, CacheUnblocked, robVars, LoadQueue, Inst, TypeOK, ProgType
  <2>2. ready[m] + blocked[m] + replay[m] = 0
    <3>1. ready[m] \in Nat /\ blocked[m] \in Nat /\ replay[m] \in Nat
      BY Zenon, <2>1 DEF TypeOK, IqType
    <3>2. CASE ReplayAll
      BY <2>1, <3>1, <3>2 DEF ReplayAll
    <3>3. CASE CacheUnblocked
      BY <2>1, <3>1, <3>3 DEF CacheUnblocked
    <3> QED
      BY Zenon, <3>2, <3>3
  <2> QED
    BY Zenon, <2>1, <2>2 DEF ReplayAll, CacheUnblocked, tabVars, memVars, NoLostWakeup
<1> QED
  BY SMTT(60), <1>1, <1>2, <1>3, <1>4, <1>5, <1>6

-----------------------------------------------------------------------------
(* LSQUnit::read *)

\* A failed assertion only stops the simulator.
LEMMA AbortStep ==
  ASSUME IInv, TypeOK', NEW n \in SeqNum, AbortLoad(n)
  PROVE  IInv'
<1> USE SeqNumNat DEF IInv
<1>1. FlightOrder'
  BY DEF AbortLoad, robVars, iqVars, tabVars, memVars, TypeOK, ProgType,
     FlightOrder
<1>2. CommitOrder'
  BY SMTT(30) DEF AbortLoad, robVars, iqVars, tabVars, memVars, TypeOK, ProgType,
     CommitOrder
<1>3. ShadowComplete'
  BY DEF AbortLoad, robVars, iqVars, tabVars, memVars, TypeOK, ProgType,
     TabType, ShadowComplete, Inst
<1>4. PendingTracked'
  <2>1. /\ pending' \subseteq LoadQueue' \ executed'
        /\ \A m \in pending' : rng'[m] # {}
    BY SMTT(30) DEF AbortLoad, robVars, iqVars, tabVars, memVars, PendingTracked,
       LoadQueue, Inst
  <2>2. LoadQueue' \subseteq LoadQueue
    BY SMTT(30) DEF AbortLoad, robVars, iqVars, tabVars, memVars, LoadQueue, Inst
  <2> QED
    BY SMTT(30), <2>1, <2>2, LoadQueueShrinks DEF PendingTracked
<1>5. RawOrdered'
  BY SMTT(30) DEF AbortLoad, robVars, iqVars, tabVars, memVars, RawOrdered, Inst
<1>6. NoLostWakeup'
  BY Zenon DEF AbortLoad, robVars, iqVars, tabVars, memVars, TypeOK, IqType, TabType,
     NoLostWakeup, LoadQueue, Inst
<1> QED
  BY ZenonT(30), <1>1, <1>2, <1>3, <1>4, <1>5, <1>6

\* A parked load is in the waiting list of an entry still in flight.
LEMMA ParkStep ==
  ASSUME IInv, TypeOK', NEW n \in SeqNum, ParkLoad(n)
  PROVE  IInv'
<1> USE SeqNumNat DEF IInv
<1>0. ReadLoad(n)
  BY DEF ParkLoad
<1>1. FlightOrder'
  <2>1. UNCHANGED <<next, live, executed, outst, committed, sent, done, acked>>
    BY Zenon, <1>0 DEF ParkLoad, ReadLoad, robVars, memVars
  <2> QED
    BY SMTT(30), <2>1 DEF FlightOrder
<1>2. CommitOrder'
  BY Zenon, <1>0 DEF ParkLoad, ReadLoad, robVars, memVars, TypeOK, ProgType,
     CommitOrder, CanIssue
<1>3. ShadowComplete'
  <2>1. shadow' = shadow \ Retired /\ UNCHANGED <<op, live, acked>>
    BY ZenonT(30), <1>0 DEF ReadLoad, memVars
  <2>2. \A e \in SeqNum : \A m \in waiting'[e] : e < m
    BY Zenon DEF ParkLoad, Overlapping, Unacked, ShadowComplete
  <2> QED
    BY Zenon, <2>1, <2>2 DEF ShadowComplete, Inst, Retired
<1>4. PendingTracked'
  <2>1. LoadQueue' = LoadQueue /\ executed' = executed
    BY Zenon, <1>0 DEF ReadLoad, robVars, LoadQueue, Inst
  <2>2. n \in LoadQueue \ executed
    BY Zenon, <1>0 DEF ReadLoad, CanIssue, CommitOrder, LoadQueue, Inst
  <2>3. /\ pending' \subseteq LoadQueue' \ executed'
        /\ \A m \in pending' : rng'[m] # {}
    BY ZenonT(60), <1>0, <2>1, <2>2 DEF ReadLoad, PendingTracked
  <2> QED
    BY Zenon, <2>1, <2>3 DEF PendingTracked
<1>5. RawOrdered'
  BY ZenonT(30), <1>0 DEF ParkLoad, ReadLoad, robVars, memVars, RawOrdered, Inst
<1>6. NoLostWakeup'
  <2> SUFFICES ASSUME NEW m \in LoadQueue' \ (executed' \cup outst'),
                      ready'[m] + blocked'[m] + replay'[m] = 0
               PROVE  \E e \in shadow' \ acked' : m \in waiting'[e]
    BY DEF NoLostWakeup
  <2>1. m \in LoadQueue \ (executed \cup outst) /\ m \in SeqNum
    BY Zenon, <1>0 DEF ParkLoad, ReadLoad, robVars, LoadQueue, Inst, TypeOK, ProgType
  <2>2. \A e \in shadow \ acked : e \in shadow' \ acked' /\ e \in SeqNum
    BY Zenon, <1>0 DEF ReadLoad, Retired, memVars, TypeOK, TabType
  <2>3. CASE m = n
    <3>1. PICK e \in Overlapping(n) : TRUE
      BY DEF ParkLoad
    <3>2. e \in shadow \ acked /\ e \in SeqNum
      BY <2>2 DEF Overlapping, Unacked
    <3>3. m \in waiting'[e]
      BY SMTT(30), <2>3, <3>1, <3>2 DEF ParkLoad
    <3> QED
      BY SMTT(30), <2>2, <3>2, <3>3
  <2>4. CASE m # n
    <3>1. ready[m] + blocked[m] + replay[m] = 0
      BY Zenon, <1>0, <2>1, <2>4 DEF ParkLoad, ReadLoad, TypeOK, IqType
    <3>2. PICK e \in shadow \ acked : m \in waiting[e]
      BY Zenon, <2>1, <3>1 DEF NoLostWakeup
    <3>3. m \in waiting'[e]
      BY <2>2, <3>2 DEF ParkLoad
    <3> QED
      BY <2>2, <3>2, <3>3
  <2> QED
    BY <2>3, <2>4
<1> QED
  BY SMTT(30), <1>1, <1>2, <1>3, <1>4, <1>5, <1>6

\* A deferred or refused load is in a list of the IQ.
LEMMA DeferStep ==
  ASSUME IInv, TypeOK', NEW n \in SeqNum, DeferLoad(n) \/ RefuseLoad(n)
  PROVE  IInv'
<1> USE SeqNumNat DEF IInv
<1>0. ReadLoad(n)
  BY ZenonT(60) DEF DeferLoad, RefuseLoad
<1>a. outst' = outst /\ waiting' = waiting
  BY ZenonT(60) DEF DeferLoad, RefuseLoad
<1>b. \/ replay' = [replay EXCEPT ![n] = @ + 1] /\ blocked' = blocked
      \/ blocked' = [blocked EXCEPT ![n] = @ + 1] /\ replay' = replay
  BY ZenonT(60) DEF DeferLoad, RefuseLoad
<1>1. FlightOrder'
  BY Zenon, <1>0, <1>a DEF ReadLoad, robVars, memVars, TypeOK,
     ProgType, FlightOrder, CanIssue
<1>2. CommitOrder'
  BY Zenon, <1>0, <1>a DEF ReadLoad, robVars, memVars, TypeOK,
     ProgType, CommitOrder, CanIssue
<1>3. ShadowComplete'
  BY Zenon, <1>0, <1>a DEF ReadLoad, robVars, memVars, TypeOK,
     ProgType, TabType, ShadowComplete, Inst, Retired
<1>4. PendingTracked'
  <2>1. LoadQueue' = LoadQueue /\ executed' = executed
    BY Zenon, <1>0 DEF ReadLoad, robVars, LoadQueue, Inst
  <2>2. n \in LoadQueue \ executed
    BY Zenon, <1>0 DEF ReadLoad, CanIssue, CommitOrder, LoadQueue, Inst
  <2>3. /\ pending' \subseteq LoadQueue' \ executed'
        /\ \A m \in pending' : rng'[m] # {}
    BY ZenonT(60), <1>0, <2>1, <2>2 DEF ReadLoad, PendingTracked
  <2> QED
    BY Zenon, <2>1, <2>3 DEF PendingTracked
<1>5. RawOrdered'
  BY Zenon, <1>0, <1>a DEF ReadLoad, robVars, memVars, RawOrdered,
     Inst
<1>6. NoLostWakeup'
  <2> SUFFICES ASSUME NEW m \in LoadQueue' \ (executed' \cup outst'),
                      ready'[m] + blocked'[m] + replay'[m] = 0
               PROVE  \E e \in shadow' \ acked' : m \in waiting'[e]
    BY SMTT(60) DEF NoLostWakeup
  <2>1. m \in LoadQueue \ (executed \cup outst) /\ m \in SeqNum
    BY Zenon, <1>0, <1>a DEF ReadLoad, robVars, LoadQueue, Inst, TypeOK, ProgType
  <2>2. m # n
    <3>1. ready'[n] \in Nat /\ blocked[n] \in Nat /\ replay[n] \in Nat
      BY DEF TypeOK, IqType
    <3>2. \/ blocked'[n] = blocked[n] /\ replay'[n] = replay[n] + 1
          \/ blocked'[n] = blocked[n] + 1 /\ replay'[n] = replay[n]
      BY SMTT(30), <1>b DEF TypeOK, IqType
    <3> QED
      BY <3>1, <3>2
  <2>3. ready[m] + blocked[m] + replay[m] = 0
    BY <1>0, <1>b, <2>1, <2>2, SMTT(60) DEF ReadLoad, TypeOK, IqType
  <2>4. PICK e \in shadow \ acked : m \in waiting[e]
    BY ZenonT(60), <2>1, <2>3 DEF NoLostWakeup
  <2> QED
    BY Zenon, <1>0, <1>a, <2>4 DEF ReadLoad, Retired, memVars
<1> QED
  BY SMTT(60), <1>1, <1>2, <1>3, <1>4, <1>5, <1>6

\* A load is sent only when no older copy to its lines is in flight.
LEMMA SendLoadStep ==
  ASSUME IInv, TypeOK', NEW n \in SeqNum, SendLoad(n)
  PROVE  IInv'
<1> USE SeqNumNat DEF IInv
<1>0. ReadLoad(n)
  BY DEF SendLoad
<1>1. FlightOrder'
  <2>1. UNCHANGED <<next, live, executed, committed, sent, done, acked>>
    BY Zenon, <1>0 DEF ReadLoad, robVars, memVars
  <2>2. outst' = outst \cup {n} /\ n \in live
    BY Zenon, <1>0 DEF SendLoad, ReadLoad, CanIssue
  <2> QED
    BY <2>1, <2>2 DEF FlightOrder
<1>2. CommitOrder'
  BY Zenon, <1>0 DEF SendLoad, ReadLoad, robVars, memVars, TypeOK, ProgType,
     CommitOrder, CanIssue
<1>3. ShadowComplete'
  BY ZenonT(60), <1>0 DEF SendLoad, ReadLoad, robVars, memVars, TypeOK, ProgType, TabType,
     ShadowComplete, Inst, Retired
<1>4. PendingTracked'
  <2>1. LoadQueue' = LoadQueue /\ executed' = executed
    BY Zenon, <1>0 DEF ReadLoad, robVars, LoadQueue, Inst
  <2>2. n \in LoadQueue \ executed
    BY Zenon, <1>0 DEF ReadLoad, CanIssue, CommitOrder, LoadQueue, Inst
  <2>3. /\ pending' \subseteq LoadQueue' \ executed'
        /\ \A m \in pending' : rng'[m] # {}
    BY ZenonT(60), <1>0, <2>1, <2>2 DEF ReadLoad, PendingTracked
  <2> QED
    BY Zenon, <2>1, <2>3 DEF PendingTracked
<1>5. RawOrdered'
  <2>1. \A e \in Inst(Copy) : e < n /\ rng[e] \cap rng[n] # {} => e \in acked
    BY Zenon DEF SendLoad, Overlapping, Unresolved, Unacked, ShadowComplete
  <2> QED
    BY Zenon, <1>0, <2>1 DEF SendLoad, ReadLoad, robVars, memVars, RawOrdered, Inst
<1>6. NoLostWakeup'
  <2> SUFFICES ASSUME NEW m \in LoadQueue' \ (executed' \cup outst'),
                      ready'[m] + blocked'[m] + replay'[m] = 0
               PROVE  \E e \in shadow' \ acked' : m \in waiting'[e]
    BY Zenon DEF NoLostWakeup
  <2>1. m \in LoadQueue \ (executed \cup outst) /\ m \in SeqNum
    BY ZenonT(60), <1>0 DEF SendLoad, ReadLoad, robVars, LoadQueue, Inst, TypeOK, ProgType
  <2>2. m # n
    BY Zenon DEF SendLoad
  <2>3. ready[m] + blocked[m] + replay[m] = 0
    BY Zenon, <1>0, <2>1, <2>2 DEF SendLoad, ReadLoad, TypeOK, IqType
  <2>4. PICK e \in shadow \ acked : m \in waiting[e]
    BY Zenon, <2>1, <2>3 DEF NoLostWakeup
  <2> QED
    BY Zenon, <1>0, <2>4 DEF SendLoad, ReadLoad, Retired, memVars
<1> QED
  BY <1>1, <1>2, <1>3, <1>4, <1>5, <1>6

-----------------------------------------------------------------------------
(* Dispatch, and the invariants *)

\* A new instruction is younger than everything in flight, is in the ready
\* list and, when it is a copy, has its shadow entry.
LEMMA DispatchStep ==
  ASSUME IInv, TypeOK', NEW k \in Kinds, NEW ls \in SUBSET Lines,
         Dispatch(k, ls)
  PROVE  IInv'
<1> USE SeqNumNat DEF IInv
<1>a. next \in SeqNum /\ next \notin live /\ \A m \in live : m < next
  <2>1. next \in SeqNum
    BY SMTT(30), NextInSeqNum DEF Dispatch, TypeOK
  <2> QED
    BY <2>1 DEF FlightOrder
<1>b. /\ live' = live \cup {next}
      /\ UNCHANGED <<robVars, memVars, pending, outst, waiting>>
      /\ op'[next] = k /\ \A m \in live : op'[m] = op[m] /\ rng'[m] = rng[m]
  BY <1>a DEF Dispatch, TypeOK, ProgType
<1>c. live \subseteq SeqNum
  BY SMTT(30) DEF TypeOK, ProgType
<1>1. FlightOrder'
  <2>1. next' = next + 1 /\ next \in Nat
    BY <1>a DEF Dispatch
  <2>2. \A n \in live' \cup executed' \cup outst' : n \in SeqNum
    BY <1>a, <1>b DEF robVars, TypeOK, ProgType, RobType, LoadType
  <2>3. \A n \in live' \cup executed' \cup outst' : n < next \/ n = next
    BY <1>b DEF FlightOrder, robVars
  <2>4. \A n \in live' \cup executed' \cup outst' : n < next'
    <3>1. \A n, x \in Nat : n < x \/ n = x => n < x + 1
      OBVIOUS
    <3> QED
      BY ZenonT(60), <2>1, <2>2, <2>3, <3>1
  <2>5. UNCHANGED <<committed, sent, done, acked>>
    BY SMTT(30), <1>b DEF robVars, memVars
  <2> QED
    BY Zenon, <1>b, <2>4, <2>5 DEF FlightOrder
<1>2. CommitOrder'
  <2>1. \A n \in committed : ~(next < n)
    BY <1>a, <1>c DEF FlightOrder
  <2> QED
    BY <1>b, <2>1 DEF CommitOrder, robVars
<1>3. ShadowComplete'
  <2>1. Inst(Copy)' = Inst(Copy) \cup (IF k \in Copy THEN {next} ELSE {})
    BY <1>a, <1>b DEF Inst
  <2>2. shadow' \subseteq shadow \cup (IF k \in Copy THEN {next} ELSE {})
    BY SMTT(60) DEF Dispatch
  <2>3. shadow \ acked \subseteq shadow' /\ (k \in Copy => next \in shadow')
    BY DEF Dispatch, Retired
  <2> QED
    BY Zenon, <1>b, <2>1, <2>2, <2>3 DEF ShadowComplete, memVars
<1>4. PendingTracked'
  <2>1. LoadQueue' = LoadQueue \cup (IF k = "ld" THEN {next} ELSE {})
    BY SMTT(30), <1>a, <1>b DEF LoadQueue, Inst, robVars, FlightOrder
  <2>2. pending' \subseteq LoadQueue' \ executed' /\ pending \subseteq live
    BY <1>b, <2>1 DEF PendingTracked, LoadQueue, Inst, robVars
  <2>3. Cardinality(LoadQueue') <= LQEntries
    <3>1. CASE k = "ld"
      <4>1. LoadQueue' = LoadQueue \cup {next} /\ next \notin LoadQueue
        BY <1>a, <2>1, <3>1 DEF LoadQueue, Inst
      <4>2. /\ Cardinality(LoadQueue') = Cardinality(LoadQueue) + 1
            /\ Cardinality(LoadQueue) \in Nat
        BY ZenonT(60), <4>1, LoadQueueFinite, FS_AddElement, FS_CardinalityType
      <4>3. ~(Cardinality(LoadQueue) >= LQEntries)
        BY <3>1 DEF Dispatch, LsqFull
      <4> QED
        BY <4>2, <4>3, SizeAssumption DEF SizeAssumption
    <3>2. CASE k # "ld"
      <4>1. LoadQueue' \subseteq LoadQueue
        BY Zenon, <2>1, <3>2
      <4> QED
        BY Zenon, <4>1, LoadQueueShrinks
    <3> QED
      BY <3>1, <3>2
  <2> QED
    BY <1>b, <2>2, <2>3 DEF PendingTracked
<1>5. RawOrdered'
  <2>1. next \notin outst \cup executed
    BY <1>a DEF FlightOrder
  <2>2. \A n \in live : ~(next < n)
    BY <1>a, <1>c
  <2> QED
    BY <1>a, <1>b, <2>1, <2>2 DEF RawOrdered, Inst, robVars, memVars
<1>6. NoLostWakeup'
  <2> SUFFICES ASSUME NEW m \in LoadQueue' \ (executed' \cup outst'),
                      ready'[m] + blocked'[m] + replay'[m] = 0
               PROVE  \E e \in shadow' \ acked' : m \in waiting'[e]
    BY DEF NoLostWakeup
  <2>1. CASE m = next
    <3>1. k = "ld"
      BY <1>a, <1>b, <2>1 DEF LoadQueue, Inst
    <3>2. ready'[m] = 1 /\ blocked'[m] \in Nat /\ replay'[m] \in Nat
      BY SMTT(60), <1>a, <2>1, <3>1 DEF Dispatch, TypeOK, IqType
    <3> QED
      BY <3>2
  <2>2. CASE m # next
    <3>1. m \in LoadQueue \ (executed \cup outst) /\ m \in SeqNum
      BY <1>b, <1>c, <2>2 DEF LoadQueue, Inst, robVars
    <3>2. ready[m] + blocked[m] + replay[m] = 0
      BY SMTT(60), <1>a, <2>2, <3>1 DEF Dispatch, TypeOK, IqType
    <3>3. PICK e \in shadow \ acked : m \in waiting[e]
      BY ZenonT(60), <3>1, <3>2 DEF NoLostWakeup
    <3>4. e \in shadow' \ acked'
      BY Zenon, <1>b, <3>3 DEF Dispatch, Retired, memVars
    <3> QED
      BY Zenon, <1>b, <3>3, <3>4
  <2> QED
    BY <2>1, <2>2
<1> QED
  BY <1>1, <1>2, <1>3, <1>4, <1>5, <1>6

\* The invariant is a predicate on the variables.
LEMMA StutterStep ==
  ASSUME IInv, TypeOK', UNCHANGED vars
  PROVE  IInv'
<1> USE DEF IInv, vars, robVars, iqVars, tabVars, memVars
<1>1. FlightOrder' /\ CommitOrder' /\ LoadQueue' = LoadQueue
  BY DEF FlightOrder, CommitOrder, LoadQueue, Inst
<1>2. ShadowComplete' /\ RawOrdered'
  BY DEF ShadowComplete, RawOrdered, Inst
<1>3. PendingTracked' /\ NoLostWakeup'
  BY <1>1 DEF PendingTracked, NoLostWakeup
<1> QED
  BY <1>1, <1>2, <1>3

\* The instructions squashed by a trap are younger than every retired one.
LEMMA TrapSparesCommitted ==
  ASSUME IInv, NEW n \in SeqNum, Head(n)
  PROVE  \A m \in committed : m < n
<1>1. ASSUME NEW m \in committed, ~(m < n) PROVE FALSE
  <2>1. n # m /\ m \in live /\ n \in live /\ m \in SeqNum
    BY <1>1 DEF Head, IInv, FlightOrder, TypeOK, RobType
  <2>2. n < m
    BY <1>1, <2>1, SeqNumNat
  <2> QED
    BY <1>1, <2>1, <2>2 DEF Head, IInv, CommitOrder
<1> QED
  BY <1>1

-----------------------------------------------------------------------------

\* Every handler preserves the inductive invariant.
LEMMA IInvStep == IInv /\ [Next]_vars => IInv'
<1> SUFFICES ASSUME IInv, [Next]_vars PROVE IInv'
  OBVIOUS
<1>t. TypeOK'
  BY TypeStep DEF IInv
<1>1. ASSUME NEW k \in Kinds, NEW ls \in SUBSET Lines, Dispatch(k, ls)
      PROVE  IInv'
  BY <1>1, <1>t, DispatchStep
<1>2. ASSUME NEW n \in SeqNum,
             \/ ExecuteCopy(n) \/ FaultCopy(n) \/ ExecuteStore(n)
             \/ ParkLoad(n) \/ DeferLoad(n) \/ SendLoad(n) \/ RefuseLoad(n)
             \/ AbortLoad(n) \/ SkipLoad(n) \/ LoadResp(n)
      PROVE  IInv'
  BY <1>2, <1>t, ExecuteCopyStep, ExecuteOtherStep, ParkStep, DeferStep,
     SendLoadStep, AbortStep, LoadRespStep
<1>3. ASSUME NEW n \in SeqNum, Squash(n) \/ Trap(n) PROVE IInv'
  <2>1. SquashFrom(n) /\ \A m \in committed : m < n
    BY <1>3, TrapSparesCommitted DEF Squash, Trap
  <2> QED
    BY <2>1, <1>t, SquashStep
<1>4. ASSUME NEW n \in SeqNum,
             \/ Commit(n) \/ CommitBarrier(n)
             \/ SendCopy(n) \/ CopyDone(n) \/ CopyAck(n)
             \/ SendStore(n) \/ StoreResp(n)
      PROVE  IInv'
  BY <1>4, <1>t, CommitStep, SendCopyStep, CopyAckStep, StoreStep
<1>5. CASE ReplayAll \/ CacheUnblocked
  BY <1>5, <1>t, ReissueStep
<1>6. CASE UNCHANGED vars
  BY <1>6, <1>t, StutterStep
<1> QED
  BY <1>1, <1>2, <1>3, <1>4, <1>5, <1>6 DEF Next, Step

\* The inductive invariant holds in every reachable state of the queue.
THEOREM Inductive == Spec => []IInv
<1> QED
  BY IInvInit, IInvStep, PTL DEF Spec

-----------------------------------------------------------------------------
(* The safety properties *)

\* The shadow-table scan of LSQUnit::read lets no load past an older copy to
\* one of its lines that is not acknowledged.
THEOREM RawOrder == Spec => []RawOrdered
<1>1. IInv => RawOrdered
  BY DEF IInv
<1> QED
  BY <1>1, Inductive, PTL

\* A load that still needs its data is in a list of the instruction queue or
\* waits for an acknowledgement to come, so recvTimingResp will wake it.
THEOREM WakeupKept == Spec => []NoLostWakeup
<1>1. IInv => NoLostWakeup
  BY DEF IInv
<1> QED
  BY <1>1, Inductive, PTL

\* The loads the WAR scans of writebackStores look for have all retired when
\* a copy may be written back, so the scans hold nothing back.
THEOREM WarDead == Spec => []WarNeverFires
<1>1. IInv => WarNeverFires
  <2> SUFFICES ASSUME IInv, NEW c \in MainSQ \cap committed, WarConflict(c)
               PROVE  FALSE
    BY DEF WarNeverFires
  <2>1. PICK n \in LoadQueue : n < c
    BY DEF WarConflict, IInv, PendingTracked
  <2> QED
    BY <2>1 DEF IInv, CommitOrder, LoadQueue, Inst
<1> QED
  BY <1>1, Inductive, PTL

\* The panic_if of LSQUnit::read on a full pending-load table cannot fire.
THEOREM PendingFits == Spec => []PendingTableFits
<1>1. IInv => PendingTableFits
  <2> SUFFICES ASSUME IInv, LQEntries <= PendingSize
               PROVE  Cardinality(pending) <= PendingSize
    BY DEF PendingTableFits
  <2>1. pending \subseteq LoadQueue /\ IsFiniteSet(LoadQueue)
    BY LoadQueueFinite DEF IInv, PendingTracked
  <2>2. /\ IsFiniteSet(pending)
        /\ Cardinality(pending) <= Cardinality(LoadQueue)
    BY <2>1, FS_Subset
  <2>3. Cardinality(pending) \in Nat /\ Cardinality(LoadQueue) \in Nat
    BY <2>1, <2>2, FS_CardinalityType
  <2>4. Cardinality(LoadQueue) <= LQEntries
    BY DEF IInv, PendingTracked
  <2> QED
    BY <2>2, <2>3, <2>4, SizeAssumption DEF SizeAssumption
<1> QED
  BY <1>1, Inductive, PTL
=============================================================================
