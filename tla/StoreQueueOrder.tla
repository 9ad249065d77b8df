-------------------------- MODULE StoreQueueOrder ---------------------------
(***************************************************************************)
(* StoreQueue gives loads the right data and implements InOrderMemory, as  *)
(* long as no copy names every word of a load.                             *)
(***************************************************************************)
EXTENDS StoreQueueProofs

\* What the values of loads and of memory words depend on, apart from the
\* position of the iterator.
SameProgram ==
    UNCHANGED <<op, cover, live, retired, last, executed, nullified, outst, val>>

\* The store under the iterator goes to the cache's memory.
Performs ==
    /\ SameProgram /\ sq' = sq /\ wbIt' = wbIt + 1
    /\ wbIt <= tail
    /\ op[sq[wbIt]] = "st" /\ sq[wbIt] \notin nullified
    /\ mem' = [w \in Words |-> IF w \in cover[sq[wbIt]] THEN sq[wbIt] ELSE mem[w]]

\* The iterator passes a copy, or a store with no data.
Passes ==
    /\ SameProgram /\ sq' = sq /\ wbIt' = wbIt + 1 /\ mem' = mem
    /\ wbIt <= tail
    /\ op[sq[wbIt]] = "cp" \/ sq[wbIt] \in nullified

Rests == SameProgram /\ UNCHANGED <<sq, wbIt, mem>>

\* The cache accepts the store under the iterator.
LEMMA AcceptKinds ==
    ASSUME IInv, NEW s \in canWB \ nullified, wbIt <= tail, sq[wbIt] = s,
           PostSend(s) \/ ForceComplete(s), SameProgram, UNCHANGED <<sq, tail>>
    PROVE  Performs \/ Passes
<1>1. CASE PostSend(s)
  BY <1>1 DEF PostSend, Performs
<1>2. CASE ForceComplete(s)
  <2>1. wbIt' = wbIt + 1
    BY <1>2, ForceCompleteMoves
  <2> QED
    BY <1>2, <2>1 DEF ForceComplete, Passes
<1> QED
  BY Zenon, <1>1, <1>2

\* The blocked store is accepted, or nothing moves.
LEMMA ResendKinds ==
    ASSUME IInv, storeBlocked, NEW s, NEW outcome, Resend(s, outcome), SameProgram
    PROVE  Performs \/ Passes \/ Rests
<1>1. wbIt <= tail /\ sq[wbIt] = s /\ s \in canWB \ nullified
  BY DEF IInv, IteratorAtBorder, Resend
<1>2. CASE (PostSend(s) \/ ForceComplete(s)) /\ UNCHANGED <<sq, tail, canWB>>
  BY <1>1, <1>2, AcceptKinds
<1>3. CASE UNCHANGED <<queueVars, mem>>
  BY <1>3 DEF queueVars, Rests
<1> QED
  BY Zenon, <1>2, <1>3 DEF Resend

\* Every step is one of a few kinds, as far as values are concerned.
LEMMA StepKinds ==
    ASSUME IInv, [Next]_vars
    PROVE  \/ Dispatch \/ Squash
           \/ \E n \in SeqNum :
                 \/ ExecuteStore(n) \/ NullifyStore(n) \/ Retire(n)
                 \/ ForwardLoad(n) \/ SendLoad(n) \/ LoadResp(n)
           \/ Performs \/ Passes \/ Rests
<1>1. CASE CommitNotice
  BY <1>1 DEF CommitNotice, robVars, Rests, SameProgram
<1>2. CASE TickUnblock \/ RecvRetryNoStore
  BY <1>2 DEF TickUnblock, RecvRetryNoStore, robVars, queueVars, Rests, SameProgram
<1>3. ASSUME NEW n \in SeqNum, StallLoad(n)
      PROVE  Rests
  BY <1>3 DEF StallLoad, robVars, queueVars, Rests, SameProgram
<1>4. ASSUME NEW n \in SeqNum, NEW got, BlockLoad(n, got) \/ BlockStore(n, got)
      PROVE  Rests
  BY <1>4 DEF BlockLoad, BlockStore, robVars, queueVars, loadVars, Rests, SameProgram
<1>5. ASSUME NEW n \in SeqNum, SkipStore(n)
      PROVE  Passes
  BY <1>5 DEF SkipStore, AtWbIt, robVars, loadVars, Passes, SameProgram
<1>6. ASSUME NEW n \in SeqNum, StoreResp(n)
      PROVE  Rests
  BY <1>6 DEF StoreResp, robVars, loadVars, Rests, SameProgram
<1>7. ASSUME NEW n \in SeqNum, SendStore(n)
      PROVE  Performs \/ Passes
  <2>1. SameProgram /\ UNCHANGED <<sq, tail>>
    BY <1>7 DEF SendStore, robVars, loadVars, SameProgram
  <2>2. n \in canWB \ nullified /\ wbIt <= tail /\ sq[wbIt] = n
    BY <1>7 DEF SendStore, AtWbIt
  <2> QED
    BY <1>7, <2>1, <2>2, AcceptKinds DEF SendStore
<1>8. ASSUME NEW n \in SeqNum, NEW o, RetryStore(n, o) \/ RecvRetry(n, o)
      PROVE  Performs \/ Passes \/ Rests
  <2>1. storeBlocked /\ Resend(n, o) /\ SameProgram
    BY <1>8 DEF RetryStore, RecvRetry, robVars, loadVars, SameProgram
  <2> QED
    BY <2>1, ResendKinds
<1>9. CASE UNCHANGED vars
  BY <1>9 DEF vars, robVars, queueVars, loadVars, Rests, SameProgram
<1> QED
  BY Zenon, <1>1, <1>2, <1>3, <1>4, <1>5, <1>6, <1>7, <1>8, <1>9 DEF Next

\* What has retired stays as it is.
RetiredStable ==
    /\ \A n \in live : n <= retired =>
          /\ n \in live' /\ op'[n] = op[n] /\ cover'[n] = cover[n]
          /\ n \in nullified' <=> n \in nullified
    /\ \A n \in live' : n <= retired => n \in live

\* A squash removes instructions from the live set, none that retired.
LEMMA SquashKeepsRetired ==
    ASSUME IInv, NEW n \in live, n > retired, SquashFrom(n)
    PROVE  RetiredStable
<1>1. n \in Nat /\ retired \in Nat /\ \A m \in live : m \in Nat
  BY Positions DEF IInv, SeqNum
<1>2. \A m \in live : m <= retired => m < n
  BY <1>1
<1> QED
  BY <1>2 DEF SquashFrom, RetiredStable

\* No step changes what has retired: a squash starts behind it, and a store
\* whose predicate is found false has not retired.
LEMMA RetiredKept ==
    ASSUME IInv, [Next]_vars
    PROVE  RetiredStable
<1>0. TypeOK /\ QueueOrder /\ WrittenBack /\ IteratorAtBorder /\ RobOrder /\ LoadOrder
  BY DEF IInv
<1>1. CASE Dispatch
  <2>1. /\ live' = live \cup {next} /\ nullified' = nullified
        /\ \E k : op' = [op EXCEPT ![next] = k]
        /\ \E c : cover' = [cover EXCEPT ![next] = c]
    BY Zenon, <1>1 DEF Dispatch, InsertLoad, InsertStore
  <2>2. next \notin live /\ ~(next <= retired)
    BY SMTT(30), <1>0, Positions DEF RobOrder, TypeOK, RobType, SeqNum
  <2>3. \A n \in live : op'[n] = op[n] /\ cover'[n] = cover[n]
    BY <2>1, <2>2, <1>0, Positions DEF TypeOK, RobType
  <2> QED
    BY <2>1, <2>2, <2>3 DEF RetiredStable
<1>2. CASE Squash
  BY <1>2, SquashKeepsRetired DEF Squash
<1>3. ASSUME NEW s \in SeqNum, ExecuteStore(s)
      PROVE  RetiredStable
  <2>1. CASE Violators(s) = {}
    BY Zenon, <1>3, <2>1 DEF ExecuteStore, robVars, RetiredStable
  <2>2. CASE Violators(s) # {}
    <3>1. PICK l \in Violators(s) : SquashFrom(l)
      BY Zenon, <1>3, <2>2 DEF ExecuteStore
    <3>2. s \in live /\ s > retired
      BY <1>0, <1>3, Positions DEF ExecuteStore, Inst, RobOrder, SeqNum
    <3>3. l \in live /\ l > retired
      BY <3>2, <1>0, Positions DEF Violators, TypeOK, LoadType, SeqNum
    <3> QED
      BY <3>1, <3>3, SquashKeepsRetired
  <2> QED
    BY <2>1, <2>2
<1>4. ASSUME NEW s \in SeqNum, NullifyStore(s)
      PROVE  RetiredStable
  <2>1. s \notin executed /\ nullified' = nullified \cup {s} /\ UNCHANGED <<op, cover, live>>
    BY <1>4 DEF NullifyStore, robVars
  <2> QED
    BY <2>1, <1>0 DEF RetiredStable, RobOrder
<1>5. ASSUME NEW n \in SeqNum,
             Retire(n) \/ ForwardLoad(n) \/ SendLoad(n) \/ LoadResp(n)
      PROVE  RetiredStable
  BY Zenon, <1>5 DEF Retire, ForwardLoad, SendLoad, LoadResp, robVars, RetiredStable
<1>6. CASE Performs \/ Passes \/ Rests
  BY Zenon, <1>6 DEF Performs, Passes, Rests, SameProgram, RetiredStable
<1> QED
  BY SMTT(30), <1>1, <1>2, <1>3, <1>4, <1>5, <1>6, StepKinds

\* What was sent stays as it is while the iterator does not move.
LEMMA SentKept ==
    ASSUME IInv, RetiredStable, wbIt' = wbIt, \A i \in 1 .. wbIt - 1 : sq'[i] = sq[i],
           NEW w
    PROVE  SentWriters(w)' = SentWriters(w)
<1>1. \A i \in 1 .. wbIt - 1 :
         /\ sq[i] \in live /\ sq[i] \in live' /\ op'[sq[i]] = op[sq[i]]
         /\ cover'[sq[i]] = cover[sq[i]]
         /\ sq[i] \in nullified' <=> sq[i] \in nullified
  BY Zenon DEF IInv, WrittenBack, TypeOK, QueueType, RetiredStable
<1>2. \A s : s \in SentWriters(w)' =>
                s \in SentWriters(w)
  BY <1>1 DEF SentWriters, Inst
<1>3. \A s : s \in SentWriters(w) => s \in SentWriters(w)'
  BY <1>1 DEF SentWriters, Inst
<1> QED
  BY <1>2, <1>3 DEF SentWriters

\* The cache's memory stays the youngest store sent to each word: stores are
\* sent in the order of the queue, and copies are not performed on it.
LEMMA CacheKept ==
    ASSUME IInv, CacheCurrent, [Next]_vars
    PROVE  CacheCurrent'
<1>0. TypeOK /\ QueueOrder /\ WrittenBack /\ IteratorAtBorder /\ RobOrder
  BY DEF IInv
<1>1. RetiredStable
  BY RetiredKept
<1>2. CASE wbIt' = wbIt /\ mem' = mem /\ \A i \in 1 .. wbIt - 1 : sq'[i] = sq[i]
  <2>1. \A w \in Words : SentWriters(w)' = SentWriters(w)
    BY <1>1, <1>2, SentKept
  <2> QED
    BY <1>2, <2>1 DEF CacheCurrent, Youngest
<1>3. CASE Performs \/ Passes
  <2>1. PICK s : s = sq[wbIt]
    OBVIOUS
  <2>2. /\ s \in live /\ s \in Nat /\ wbIt <= tail /\ wbIt \in 1 .. tail
        /\ \A i \in 1 .. wbIt - 1 : sq[i] < s
    BY SMTT(30), <2>1, <1>0, <1>3, Positions DEF Performs, Passes, QueueOrder, SeqNum
  <2>3. \A i \in 1 .. wbIt' - 1 : sq'[i] = s \/ (i \in 1 .. wbIt - 1 /\ sq'[i] = sq[i])
    BY <2>1, <1>0, <1>3, Positions DEF Performs, Passes
  <2>4. wbIt \in 1 .. wbIt' - 1 /\ 1 .. wbIt - 1 \subseteq 1 .. wbIt' - 1
    BY <2>2, <1>3 DEF Performs, Passes
  <2>5. SameProgram /\ sq' = sq
    BY <1>3 DEF Performs, Passes
  <2>6. ASSUME NEW w \in Words PROVE Youngest(mem[w], SentWriters(w))'
    <3>1. Youngest(mem[w], SentWriters(w))
      BY DEF CacheCurrent
    <3>2. \A m \in SentWriters(w) : m < s /\ m \in Nat
      BY <2>2, <1>0, Positions DEF SentWriters, Inst, SeqNum
    <3>3. CASE Performs /\ w \in cover[s]
      <4>1. SentWriters(w)' = SentWriters(w) \cup {s}
        BY Zenon, <2>1, <2>2, <2>3, <2>4, <2>5, <3>3
           DEF Performs, SentWriters, Inst, SameProgram
      <4>2. mem'[w] = s
        BY Zenon, <2>1, <3>3 DEF Performs
      <4>3. \A m \in SentWriters(w) \cup {s} : m <= s
        BY <2>2, <3>2
      <4> QED
        BY <4>1, <4>2, <4>3 DEF Youngest
    <3>4. CASE Passes \/ w \notin cover[s]
      <4>1. SentWriters(w)' = SentWriters(w)
        BY Zenon, <2>1, <2>2, <2>3, <2>4, <2>5, <3>4
           DEF Passes, SentWriters, Inst, SameProgram
      <4>2. mem'[w] = mem[w]
        BY Zenon, <2>1, <1>3, <3>4 DEF Performs, Passes
      <4> QED
        BY Zenon, <3>1, <4>1, <4>2 DEF Youngest
    <3> QED
      BY <3>3, <3>4, <1>3
  <2> QED
    BY <2>6 DEF CacheCurrent
<1>4. CASE Dispatch
  <2>1. wbIt' = wbIt /\ mem' = mem /\ (sq' = sq \/ sq' = [sq EXCEPT ![tail + 1] = next])
    BY Zenon, <1>4 DEF Dispatch, InsertLoad, InsertStore, queueVars
  <2>2. \A i \in 1 .. wbIt - 1 : i # tail + 1 /\ i \in SeqNum
    BY <1>0, Positions
  <2>3. \A i \in 1 .. wbIt - 1 : sq'[i] = sq[i]
    BY <2>1, <2>2, <1>0 DEF TypeOK, QueueType
  <2> QED
    BY <2>1, <2>3, <1>2
<1>5. CASE \/ Squash \/ Rests
           \/ \E n \in SeqNum :
                 \/ ExecuteStore(n) \/ NullifyStore(n) \/ Retire(n)
                 \/ ForwardLoad(n) \/ SendLoad(n) \/ LoadResp(n)
  <2>1. wbIt' = wbIt /\ mem' = mem /\ sq' = sq
    BY ZenonT(30), <1>5 DEF Squash, SquashFrom, Rests, ExecuteStore, NullifyStore, Retire,
                ForwardLoad, SendLoad, LoadResp, queueVars
  <2> QED
    BY <2>1, <1>2
<1> QED
  BY <1>3, <1>4, <1>5, StepKinds

\* A load that holds data keeps the right data when the stores before it, as
\* far as they write its words, are the same ones with data as before.
LEMMA LoadKept ==
    ASSUME NEW l, NEW W, W = cover[l], cover'[l] = cover[l], val'[l] = val[l],
           \A w \in W : ReadyWriters(l, w)' = ReadyWriters(l, w),
           val[l] = [w \in cover[l] |-> val[l][w]],
           \A w \in W : Youngest(val[l][w], ReadyWriters(l, w))
    PROVE  /\ val'[l] = [w \in cover'[l] |-> val'[l][w]]
           /\ \A w \in cover'[l] : Youngest(val'[l][w], ReadyWriters(l, w)')
BY Zenon DEF Youngest

\* The stores before l with data are the same when every instruction before l
\* that writes w keeps its state.
LEMMA ReadyKept ==
    ASSUME NEW l, NEW w,
           \A s \in live : s < l =>
              /\ s \in live' /\ op'[s] = op[s] /\ cover'[s] = cover[s]
              /\ op[s] = "st" /\ w \in cover[s] =>
                    (s \in executed' \ nullified' <=> s \in executed \ nullified),
           \A s \in live' : s < l => s \in live
    PROVE  ReadyWriters(l, w)' = ReadyWriters(l, w)
BY DEF ReadyWriters, Inst

\* A load that already holds data and that the store about to execute does
\* not squash shares no word with it.
LEMMA ExecuteQuiet ==
    ASSUME IInv, NEW s \in Inst(StoreOps) \ executed,
           NEW l \in Inst({"ld"}), l \in executed \cup outst, s < l, l \notin Violators(s)
    PROVE  cover[s] \cap cover[l] = {}
<1>0. TypeOK /\ QueueOrder /\ WrittenBack /\ IteratorAtBorder /\ RobOrder /\ LoadOrder
  BY DEF IInv
<1>1. s \in live /\ l \in live /\ s \in SeqNum /\ l \in SeqNum /\ retired \in Nat
  BY SMTT(30), <1>0, Positions DEF Inst
<1>2. s > retired
  BY <1>0, <1>1 DEF RobOrder, SeqNum
<1>3. l > retired /\ l > s
  BY <1>1, <1>2 DEF SeqNum
<1>4. l \in lq /\ l \in addrValid
  BY <1>0, <1>3 DEF LoadOrder
<1>5. ~SameBlock(s, l)
  BY <1>3, <1>4 DEF Violators
<1> QED
  BY <1>5 DEF SameBlock

\* What the loads hold stays right in the steps that give no load new data.
LEMMA OldLoadsKept ==
    ASSUME IInv, LoadsCurrent, [Next]_vars,
           NEW l \in Inst({"ld"})', l \in Inst({"ld"}), l \in executed \cup outst
    PROVE  /\ val'[l] = [w \in cover'[l] |-> val'[l][w]]
           /\ \A w \in cover'[l] : Youngest(val'[l][w], ReadyWriters(l, w)')
<1>0. TypeOK /\ QueueOrder /\ WrittenBack /\ IteratorAtBorder /\ RobOrder /\ LoadOrder
  BY DEF IInv
<1>1. /\ val[l] = [w \in cover[l] |-> val[l][w]]
      /\ \A w \in cover[l] : Youngest(val[l][w], ReadyWriters(l, w))
  BY Zenon DEF LoadsCurrent
<1>2. l \in live /\ l \in SeqNum
  BY <1>0, Positions DEF Inst
<1>3. SUFFICES /\ cover'[l] = cover[l] /\ val'[l] = val[l]
               /\ \A w \in cover[l] : ReadyWriters(l, w)' = ReadyWriters(l, w)
  BY <1>1, LoadKept, Zenon
<1>4. CASE Dispatch
  <2>1. /\ live' = live \cup {next} /\ UNCHANGED <<nullified, executed, val>>
        /\ \E k : op' = [op EXCEPT ![next] = k]
        /\ \E c : cover' = [cover EXCEPT ![next] = c]
    BY Zenon, <1>4 DEF Dispatch, InsertLoad, InsertStore, loadVars
  <2>2. next \notin live /\ ~(next < l)
    BY <1>0, <1>2, Positions DEF TypeOK, RobType, SeqNum
  <2>3. \A n \in live : op'[n] = op[n] /\ cover'[n] = cover[n]
    BY Zenon, <2>1, <2>2, <1>0, Positions DEF TypeOK, RobType
  <2> QED
    BY Zenon, <2>1, <2>2, <2>3, <1>2, ReadyKept
<1>5. CASE Squash
  <2>1. PICK n \in live :
          /\ n > retired
          /\ SquashFrom(n)
          /\ executed' = {m \in executed : m < n}
    BY <1>5 DEF Squash
  <2>2. /\ live' = {m \in live : m < n} /\ nullified' = {m \in nullified : m < n}
        /\ UNCHANGED <<op, cover, val>>
    BY Zenon, <2>1 DEF SquashFrom
  <2>3. l < n /\ n \in Nat /\ \A s \in live : s \in Nat
    BY SMTT(30), <2>2, <1>0, Positions DEF Inst, SeqNum
  <2>4. \A s \in live : s < l => s < n
    BY <2>3, <1>2 DEF SeqNum
  <2> QED
    BY Zenon, <2>1, <2>2, <2>4, ReadyKept
<1>6. ASSUME NEW x \in SeqNum, ExecuteStore(x)
      PROVE  /\ cover'[l] = cover[l] /\ val'[l] = val[l]
             /\ \A w \in cover[l] : ReadyWriters(l, w)' = ReadyWriters(l, w)
  <2>0. x \in Inst(StoreOps) \ executed
    BY <1>6 DEF ExecuteStore
  <2>1. CASE Violators(x) = {}
    <3>1. executed' = executed \cup {x} /\ UNCHANGED <<op, cover, live, nullified, val>>
      BY Zenon, <1>6, <2>1 DEF ExecuteStore, robVars, loadVars
    <3>2. x < l => cover[x] \cap cover[l] = {}
      BY Zenon, <2>0, <2>1, ExecuteQuiet
    <3> QED
      BY Zenon, <3>1, <3>2, ReadyKept
  <2>2. CASE Violators(x) # {}
    <3>1. PICK n \in Violators(x) :
            /\ \A m \in Violators(x) : n <= m
            /\ executed' = {m \in executed \cup {x} : m < n}
            /\ SquashFrom(n)
      BY Zenon, <1>6, <2>2 DEF ExecuteStore
    <3>2. /\ live' = {m \in live : m < n} /\ nullified' = {m \in nullified : m < n}
          /\ UNCHANGED <<op, cover, val>>
      BY Zenon, <3>1 DEF SquashFrom
    <3>3. l < n /\ n \in SeqNum /\ \A s \in live : s \in SeqNum
      BY Zenon, <3>2, <1>0, Positions DEF Inst, Violators, TypeOK, LoadType
    <3>4. \A s \in live : s < l => s < n
      BY <3>3, <1>2 DEF SeqNum
    <3>5. l \notin Violators(x)
      BY <3>1, <3>3, <1>2 DEF SeqNum
    <3>6. x < l => cover[x] \cap cover[l] = {}
      BY Zenon, <2>0, <3>5, ExecuteQuiet
    <3> QED
      BY Zenon, <3>1, <3>2, <3>4, <3>6, ReadyKept
  <2> QED
    BY Zenon, <2>1, <2>2
<1>7. ASSUME NEW x \in SeqNum, NullifyStore(x)
      PROVE  /\ cover'[l] = cover[l] /\ val'[l] = val[l]
             /\ \A w \in cover[l] : ReadyWriters(l, w)' = ReadyWriters(l, w)
  <2>1. /\ x \notin executed
        /\ executed' = executed \cup {x} /\ nullified' = nullified \cup {x}
        /\ UNCHANGED <<op, cover, live, val>>
    BY <1>7 DEF NullifyStore, robVars, loadVars
  <2> QED
    BY Zenon, <2>1, ReadyKept
<1>8. ASSUME NEW x \in SeqNum, ForwardLoad(x) \/ SendLoad(x) \/ LoadResp(x)
      PROVE  /\ cover'[l] = cover[l] /\ val'[l] = val[l]
             /\ \A w \in cover[l] : ReadyWriters(l, w)' = ReadyWriters(l, w)
  <2>1. /\ UNCHANGED <<op, cover, live, nullified>>
        /\ executed' = executed \cup {x} \/ executed' = executed
    BY Zenon, <1>8 DEF ForwardLoad, SendLoad, LoadResp, robVars
  <2>2. op[x] = "ld"
    BY Zenon, <1>0, <1>8 DEF ForwardLoad, SendLoad, LoadResp, CanIssue, Inst, LoadOrder
  <2>3. val'[l] = val[l]
    BY Zenon, <1>2, <1>8 DEF ForwardLoad, SendLoad, LoadResp, CanIssue, loadVars, LoadsCurrent
  <2> QED
    BY Zenon, <2>1, <2>2, <2>3, ReadyKept
<1>9. ASSUME NEW n \in SeqNum, Retire(n)
      PROVE  /\ cover'[l] = cover[l] /\ val'[l] = val[l]
             /\ \A w \in cover[l] : ReadyWriters(l, w)' = ReadyWriters(l, w)
  BY Zenon, <1>9 DEF Retire, loadVars, ReadyWriters, Inst
<1>10. CASE Performs \/ Passes \/ Rests
  BY Zenon, <1>10 DEF Performs, Passes, Rests, SameProgram, ReadyWriters, Inst
<1> QED
  BY Zenon, <1>4, <1>5, <1>6, <1>7, <1>8, <1>9, <1>10, StepKinds

\* What a load can see of the queue when it issues: every store before it
\* with data that writes one of its words has been sent or is a candidate of
\* the scan, and what has been sent is older.
LEMMA ScanSees ==
    ASSUME IInv, NEW l \in Inst({"ld"}) \ executed, NEW w \in cover[l]
    PROVE  /\ \A s \in ReadyWriters(l, w) :
                 \E j \in 1 .. tail : /\ sq[j] = s
                                      /\ j >= wbIt => j \in Candidates(l)
           /\ SentWriters(w) \subseteq ReadyWriters(l, w)
           /\ \A s \in ReadyWriters(l, w) :
                 (\E j \in 1 .. wbIt - 1 : sq[j] = s) => s \in SentWriters(w)
<1>0. TypeOK /\ QueueOrder /\ WrittenBack /\ IteratorAtBorder /\ RobOrder /\ LoadOrder
  BY DEF IInv
<1>1. l \in live /\ l \in SeqNum /\ l > retired
  BY <1>0, Positions DEF Inst, RobOrder, SeqNum
<1>2. ASSUME NEW s \in ReadyWriters(l, w)
      PROVE  \E j \in 1 .. tail : sq[j] = s /\ (j >= wbIt => j \in Candidates(l))
  <2>1. s \in Inst(StoreOps) /\ s \in executed \ nullified /\ s < l /\ w \in cover[s]
    BY Zenon DEF ReadyWriters, Inst, StoreOps
  <2>2. PICK j \in 1 .. tail : sq[j] = s
    BY ZenonT(30), <2>1, <1>0 DEF QueueOrder
  <2>3. j < sqIt[l] /\ sqIt[l] \in Nat
    BY SMTT(30), <2>1, <2>2, <1>0, Positions DEF LoadOrder
  <2>4. j >= wbIt => j \in wbIt .. sqIt[l] - 1
    BY <2>2, <2>3, <1>0, Positions
  <2> QED
    BY Zenon, <2>1, <2>2, <2>4 DEF Candidates
<1>3. ASSUME NEW s \in SentWriters(w)
      PROVE  s \in ReadyWriters(l, w)
  <2>1. PICK i \in 1 .. wbIt - 1 : sq[i] = s
    BY Zenon DEF SentWriters
  <2>2. s \in canWB /\ s \in live /\ s \in SeqNum
    BY Zenon, <2>1, <1>0, Positions DEF WrittenBack, TypeOK, QueueType
  <2>3. s \in executed /\ s < l
    BY SMTT(30), <2>2, <1>0, <1>1, Positions DEF WrittenBack, RobOrder, SeqNum
  <2> QED
    BY Zenon, <2>3 DEF SentWriters, ReadyWriters
<1>4. \A s \in ReadyWriters(l, w) :
         (\E j \in 1 .. wbIt - 1 : sq[j] = s) => s \in SentWriters(w)
  BY DEF ReadyWriters, SentWriters
<1> QED
  BY Zenon, <1>2, <1>3, <1>4

\* Store-to-load forwarding hands over the youngest store before the load
\* for every word of it: the scan stops at the youngest candidate, and a
\* candidate that covers the load is not a copy.
LEMMA ForwardRight ==
    ASSUME NoCopyCovers, IInv, CoversKnown, DOMAIN val = SeqNum,
           NEW l \in SeqNum, ForwardLoad(l)
    PROVE  /\ val'[l] = [w \in cover'[l] |-> val'[l][w]]
           /\ \A w \in cover'[l] : Youngest(val'[l][w], ReadyWriters(l, w)')
<1>0. TypeOK /\ QueueOrder /\ WrittenBack /\ IteratorAtBorder /\ RobOrder /\ LoadOrder
  BY DEF IInv
<1>1. l \in Inst({"ld"}) \ executed /\ op[l] = "ld" /\ l \in live
  BY Zenon DEF ForwardLoad, CanIssue, Inst
<1>2. PICK i \in wbIt .. tail :
        /\ Match(l, i) /\ FullCoverage(l, i)
        /\ val' = [val EXCEPT ![l] = [w \in cover[l] |-> sq[i]]]
  BY Zenon DEF ForwardLoad
<1>3. UNCHANGED <<op, cover, live, nullified>> /\ executed' = executed \cup {l}
  BY Zenon DEF ForwardLoad, robVars
<1>4. val'[l] = [w \in cover[l] |-> sq[i]]
  BY <1>2
<1>5. i \in 1 .. tail /\ wbIt <= i /\ i \in Candidates(l)
  <2>1. head \in Nat \ {0} /\ tail \in Nat /\ wbIt \in Nat /\ head <= wbIt
    BY Zenon, <1>0, Positions
  <2>2. i \in Candidates(l)
    BY Zenon, <1>2 DEF Match
  <2> QED
    BY <2>1, <2>2
<1>6. sq[i] \in executed \ nullified /\ sq[i] < l
  <2>1. i \in wbIt .. sqIt[l] - 1 /\ sq[i] \in executed \ nullified
    BY Zenon, <1>5 DEF Candidates
  <2>2. sqIt[l] \in 1 .. tail + 1 /\ wbIt \in Nat /\ tail \in Nat
    BY Zenon, <1>0, <1>1, Positions DEF LoadOrder
  <2>3. i < sqIt[l]
    BY <2>1, <2>2
  <2> QED
    BY Zenon, <1>0, <1>1, <1>5, <2>1, <2>3 DEF LoadOrder
<1>7. op[sq[i]] = "st"
  <2>1. sq[i] \in live /\ op[sq[i]] \in {"st", "cp"}
    BY SMTT(30), <1>0, <1>5, Positions DEF StoreOps
  <2>2. cover[l] \in LoadCovers /\ (op[sq[i]] = "cp" => cover[sq[i]] \in CopyCovers)
    BY Zenon, <1>1, <2>1 DEF CoversKnown
  <2>3. cover[l] \subseteq cover[sq[i]]
    BY Zenon, <1>2 DEF FullCoverage
  <2> QED
    BY Zenon, <2>1, <2>2, <2>3 DEF NoCopyCovers
<1>8. ASSUME NEW w \in cover[l]
      PROVE  Youngest(sq[i], ReadyWriters(l, w))
  <2>1. sq[i] \in ReadyWriters(l, w)
    BY Zenon, <1>0, <1>2, <1>5, <1>6, <1>7, Positions DEF FullCoverage, ReadyWriters, Inst
  <2>2. ASSUME NEW s \in ReadyWriters(l, w)
        PROVE  s <= sq[i]
    <3>1. PICK j \in 1 .. tail : sq[j] = s /\ (j >= wbIt => j \in Candidates(l))
      BY Zenon, <1>1, ScanSees
    <3>2. j >= wbIt => j <= i
      BY Zenon, <3>1, <1>2 DEF Match
    <3>3. j < i => sq[j] < sq[i]
      BY Zenon, <1>0, <1>5 DEF QueueOrder
    <3>4. wbIt \in Nat /\ tail \in Nat /\ sq[i] \in SeqNum /\ sq[j] \in SeqNum
      BY Zenon, <1>0, <1>5, Positions
    <3> QED
      BY <3>1, <3>2, <3>3, <3>4, <1>5 DEF SeqNum
  <2> QED
    BY Zenon, <2>1, <2>2 DEF Youngest
<1>9. \A w : ReadyWriters(l, w)' = ReadyWriters(l, w)
  BY Zenon, <1>1, <1>3 DEF ReadyWriters, Inst
<1>10. \A w \in cover[l] : val'[l][w] = sq[i]
  BY Zenon, <1>4
<1>11. \A w \in cover'[l] : Youngest(val'[l][w], ReadyWriters(l, w)')
  BY Zenon, <1>3, <1>8, <1>9, <1>10
<1> QED
  BY Zenon, <1>3, <1>4, <1>10, <1>11

\* A load that finds no candidate reads what the cache holds, which is then
\* the youngest store before it with data.
LEMMA SendRight ==
    ASSUME IInv, CacheCurrent, DOMAIN val = SeqNum, NEW l \in SeqNum, SendLoad(l)
    PROVE  /\ val'[l] = [w \in cover'[l] |-> val'[l][w]]
           /\ \A w \in cover'[l] : Youngest(val'[l][w], ReadyWriters(l, w)')
<1>0. TypeOK /\ QueueOrder /\ WrittenBack /\ IteratorAtBorder /\ RobOrder /\ LoadOrder
  BY DEF IInv
<1>1. l \in Inst({"ld"}) \ executed /\ Candidates(l) = {}
  BY Zenon DEF SendLoad, CanIssue
<1>2. /\ UNCHANGED <<op, cover, live, nullified, executed>>
      /\ val' = [val EXCEPT ![l] = [w \in cover[l] |-> mem[w]]]
  BY Zenon DEF SendLoad, robVars
<1>3. val'[l] = [w \in cover[l] |-> mem[w]]
  BY Zenon, <1>2
<1>4. ASSUME NEW w \in cover[l]
      PROVE  Youngest(mem[w], ReadyWriters(l, w))
  <2>1. SentWriters(w) = ReadyWriters(l, w)
    <3>1. SentWriters(w) \subseteq ReadyWriters(l, w)
      BY Zenon, <1>1, ScanSees
    <3>2. ASSUME NEW s \in ReadyWriters(l, w)
          PROVE  s \in SentWriters(w)
      <4>1. PICK j \in 1 .. tail : sq[j] = s /\ (j >= wbIt => j \in Candidates(l))
        BY Zenon, <1>1, ScanSees
      <4>2. ~(j >= wbIt) /\ wbIt \in Nat
        BY Zenon, <4>1, <1>0, <1>1, Positions
      <4>3. j \in 1 .. wbIt - 1
        BY <4>2
      <4> QED
        BY Zenon, <4>1, <4>3, <1>1, ScanSees
    <3> QED
      BY Zenon, <3>1, <3>2
  <2>2. w \in Words
    BY Zenon, <1>0, <1>1, Positions DEF TypeOK, RobType, Inst
  <2> QED
    BY Zenon, <2>1, <2>2 DEF CacheCurrent
<1>5. \A w : ReadyWriters(l, w)' = ReadyWriters(l, w)
  BY Zenon, <1>2 DEF ReadyWriters, Inst
<1>6. \A w \in cover[l] : val'[l][w] = mem[w]
  BY Zenon, <1>3
<1>7. \A w \in cover'[l] : Youngest(val'[l][w], ReadyWriters(l, w)')
  BY Zenon, <1>2, <1>4, <1>5, <1>6
<1> QED
  BY Zenon, <1>2, <1>3, <1>6, <1>7

\* A load that holds data held it before, or has just been given it.
LEMMA WhoHasData ==
    ASSUME IInv, DOMAIN val = SeqNum, [Next]_vars
    PROVE  /\ DOMAIN val' = SeqNum
           /\ \A l \in Inst({"ld"})' : l \in executed' \cup outst' =>
                 /\ l \in Inst({"ld"})
                 /\ l \in executed \cup outst \/ ForwardLoad(l) \/ SendLoad(l)
<1>0. TypeOK /\ LoadOrder
  BY DEF IInv
<1>1. CASE Dispatch
  <2>1. /\ live' = live \cup {next} /\ UNCHANGED <<executed, outst, val>>
        /\ \E k : op' = [op EXCEPT ![next] = k]
    BY Zenon, <1>1 DEF Dispatch, InsertLoad, InsertStore, loadVars
  <2>2. next \notin live /\ \A n \in live : n \in SeqNum
    BY <1>0, SizeAssumption DEF TypeOK, RobType, SeqNum
  <2>3. executed \cup outst \subseteq live
    BY Zenon, <1>0 DEF TypeOK, RobType, LoadType
  <2> QED
    BY Zenon, <2>1, <2>2, <2>3, <1>0 DEF Inst, TypeOK, RobType
<1>2. ASSUME NEW n, NEW E, SquashFrom(n), executed' = {m \in E : m < n},
             \A m \in E : m \in executed \/ op[m] \in StoreOps
      PROVE  /\ DOMAIN val' = SeqNum
             /\ \A l \in Inst({"ld"})' : l \in executed' \cup outst' =>
                   l \in Inst({"ld"}) /\ l \in executed \cup outst
  <2>1. /\ live' = {m \in live : m < n} /\ outst' = {m \in outst : m < n}
        /\ UNCHANGED <<op, val>>
    BY Zenon, <1>2 DEF SquashFrom
  <2> QED
    BY <2>1, <1>2 DEF Inst, StoreOps
<1>3. CASE Squash
  BY Zenon, <1>2, <1>3 DEF Squash
<1>4. ASSUME NEW s \in SeqNum, ExecuteStore(s) \/ NullifyStore(s)
      PROVE  /\ DOMAIN val' = SeqNum
             /\ \A l \in Inst({"ld"})' : l \in executed' \cup outst' =>
                   l \in Inst({"ld"}) /\ l \in executed \cup outst
  <2>0. op[s] \in StoreOps
    BY Zenon, <1>4 DEF ExecuteStore, NullifyStore, Inst, StoreOps
  <2>1. CASE executed' = executed \cup {s} /\ UNCHANGED <<op, live, outst, val>>
    BY Zenon, <2>0, <2>1 DEF Inst, StoreOps
  <2>2. CASE \E n : SquashFrom(n) /\ executed' = {m \in executed \cup {s} : m < n}
    BY Zenon, <2>0, <2>2, <1>2
  <2> QED
    BY Zenon, <1>4, <2>1, <2>2 DEF ExecuteStore, NullifyStore, robVars, loadVars
<1>5. ASSUME NEW n \in SeqNum, ForwardLoad(n) \/ SendLoad(n) \/ LoadResp(n)
      PROVE  /\ DOMAIN val' = SeqNum
             /\ \A l \in Inst({"ld"})' : l \in executed' \cup outst' =>
                   /\ l \in Inst({"ld"})
                   /\ l \in executed \cup outst \/ ForwardLoad(l) \/ SendLoad(l)
  <2>1. UNCHANGED <<op, live>>
    BY Zenon, <1>5 DEF ForwardLoad, SendLoad, LoadResp, robVars
  <2>2. Inst({"ld"})' = Inst({"ld"})
    BY <2>1 DEF Inst
  <2>3. DOMAIN val' = SeqNum
    BY Zenon, <1>5 DEF ForwardLoad, SendLoad, LoadResp
  <2>4. /\ executed' \cup outst' \subseteq executed \cup outst \cup {n}
        /\ n \in executed \cup outst \/ ForwardLoad(n) \/ SendLoad(n)
    BY Zenon, <1>5 DEF ForwardLoad, SendLoad, LoadResp
  <2> QED
    BY Zenon, <2>2, <2>3, <2>4
<1>6. ASSUME NEW n \in SeqNum, Retire(n)
      PROVE  UNCHANGED <<op, live, executed, outst, val>>
  BY Zenon, <1>6 DEF Retire, loadVars
<1>7. CASE Performs \/ Passes \/ Rests \/ UNCHANGED <<op, live, executed, outst, val>>
  BY Zenon, <1>7 DEF Performs, Passes, Rests, SameProgram, Inst
<1> QED
  BY Zenon, <1>1, <1>3, <1>4, <1>5, <1>6, <1>7, StepKinds

\* The words an instruction names are those it was dispatched with.
LEMMA CoversKept ==
    ASSUME IInv, CoversKnown, [Next]_vars
    PROVE  CoversKnown'
<1>0. TypeOK
  BY DEF IInv
<1>1. CASE Dispatch
  <2>1. \E k, c :
          /\ live' = live \cup {next}
          /\ op' = [op EXCEPT ![next] = k] /\ cover' = [cover EXCEPT ![next] = c]
          /\ k = "cp" => c \in CopyCovers
          /\ k = "ld" => c \in LoadCovers
    <3>1. CASE \E c \in LoadCovers : InsertLoad(c)
      BY Zenon, <3>1 DEF InsertLoad
    <3>2. CASE \E c \in StoreCovers : InsertStore("st", c)
      <4>1. PICK c \in StoreCovers : InsertStore("st", c)
        BY Zenon, <3>2
      <4>2. /\ live' = live \cup {next}
            /\ op' = [op EXCEPT ![next] = "st"] /\ cover' = [cover EXCEPT ![next] = c]
        BY Zenon, <4>1 DEF InsertStore
      <4>3. "st" # "cp" /\ "st" # "ld" /\ "cp" # "ld"
        OBVIOUS
      <4> QED
        BY Zenon, <4>1, <4>2, <4>3
    <3>3. CASE \E c \in CopyCovers : InsertStore("cp", c)
      <4>1. PICK c \in CopyCovers : InsertStore("cp", c)
        BY Zenon, <3>3
      <4>2. /\ live' = live \cup {next}
            /\ op' = [op EXCEPT ![next] = "cp"] /\ cover' = [cover EXCEPT ![next] = c]
        BY Zenon, <4>1 DEF InsertStore
      <4>3. "st" # "cp" /\ "st" # "ld" /\ "cp" # "ld"
        OBVIOUS
      <4> QED
        BY Zenon, <4>1, <4>2, <4>3
    <3> QED
      BY Zenon, <1>1, <3>1, <3>2, <3>3 DEF Dispatch
  <2>2. next \in SeqNum /\ next \notin live /\ \A n \in live : n \in SeqNum
    BY <1>0, <1>1, SizeAssumption DEF Dispatch, TypeOK, RobType, SeqNum
  <2> QED
    BY <2>1, <2>2, <1>0 DEF CoversKnown, TypeOK, RobType
<1>2. CASE UNCHANGED <<op, cover>> /\ live' \subseteq live
  BY Zenon, <1>2 DEF CoversKnown
<1>3. CASE \/ Squash
           \/ \E n \in SeqNum : ExecuteStore(n) \/ NullifyStore(n) \/ Retire(n)
  <2>1. UNCHANGED <<op, cover>> /\ live' \subseteq live
    BY Zenon, <1>3 DEF Squash, SquashFrom, ExecuteStore, NullifyStore, Retire, robVars
  <2> QED
    BY <2>1, <1>2
<1>4. CASE \/ \E n \in SeqNum : ForwardLoad(n) \/ SendLoad(n) \/ LoadResp(n)
           \/ Performs \/ Passes \/ Rests
  <2>1. UNCHANGED <<op, cover, live>>
    BY Zenon, <1>4 DEF ForwardLoad, SendLoad, LoadResp, robVars, Performs, Passes, Rests,
                SameProgram
  <2> QED
    BY <2>1, <1>2
<1> QED
  BY Zenon, <1>1, <1>3, <1>4, StepKinds

\* The last instruction InOrderMemory saw is the last one retired; only
\* Retire moves either.
LEMMA LastKept ==
    ASSUME IInv, last.seq = retired, [Next]_vars
    PROVE  /\ last'.seq = retired'
           /\ UNCHANGED <<last, retired>> \/ \E n \in SeqNum : Retire(n)
<1>1. CASE \E n \in SeqNum : Retire(n)
  <2>1. PICK n \in SeqNum : Retire(n)
    BY Zenon, <1>1
  <2>2. /\ retired' = n
        /\ last' = [seq |-> n,
                    kind |-> IF op[n] = "cp" \/ n \in nullified THEN "none" ELSE op[n],
                    words |-> cover[n],
                    read |-> IF op[n] = "ld" THEN val[n] ELSE <<>>]
    BY Zenon, <2>1 DEF Retire
  <2>3. last'.seq = n
    BY Zenon, <2>2
  <2> QED
    BY Zenon, <1>1, <2>2, <2>3
<1>2. CASE Dispatch \/ Squash \/ \E n \in SeqNum : ExecuteStore(n) \/ NullifyStore(n)
  BY Zenon, <1>2 DEF Dispatch, InsertLoad, InsertStore, Squash, SquashFrom, ExecuteStore,
              NullifyStore, robVars
<1>3. CASE \/ \E n \in SeqNum : ForwardLoad(n) \/ SendLoad(n) \/ LoadResp(n)
           \/ Performs \/ Passes \/ Rests
  BY Zenon, <1>3 DEF ForwardLoad, SendLoad, LoadResp, robVars, Performs, Passes, Rests,
              SameProgram
<1> QED
  BY Zenon, <1>1, <1>2, <1>3, StepKinds

\* Every step preserves the invariant on values.
LEMMA NextVInv ==
    ASSUME NoCopyCovers, IInv, VInv, [Next]_vars
    PROVE  VInv'
<1>0. CoversKnown /\ CacheCurrent /\ LoadsCurrent /\ last.seq = retired
      /\ DOMAIN val = SeqNum
  BY Zenon DEF VInv, LoadsCurrent
<1>1. CoversKnown' /\ CacheCurrent' /\ (last.seq = retired)'
  BY Zenon, <1>0, CoversKept, CacheKept, LastKept
<1>2. DOMAIN val' = SeqNum
  BY Zenon, <1>0, WhoHasData
<1>3. ASSUME NEW l \in Inst({"ld"})', l \in executed' \cup outst'
      PROVE  /\ val'[l] = [w \in cover'[l] |-> val'[l][w]]
             /\ \A w \in cover'[l] : Youngest(val'[l][w], ReadyWriters(l, w)')
  <2>1. /\ l \in Inst({"ld"})
        /\ l \in executed \cup outst \/ ForwardLoad(l) \/ SendLoad(l)
    BY Zenon, <1>0, <1>3, WhoHasData
  <2>2. l \in SeqNum
    BY Zenon, <2>1, Positions DEF IInv, Inst
  <2>3. CASE l \in executed \cup outst
    BY Zenon, <1>0, <1>3, <2>1, <2>3, OldLoadsKept
  <2>4. CASE ForwardLoad(l)
    BY Zenon, <1>0, <2>2, <2>4, ForwardRight
  <2>5. CASE SendLoad(l)
    BY Zenon, <1>0, <2>2, <2>5, SendRight
  <2> QED
    BY Zenon, <2>1, <2>3, <2>4, <2>5
<1>4. LoadsCurrent'
  BY Zenon, <1>2, <1>3 DEF LoadsCurrent, Youngest
<1> QED
  BY <1>1, <1>4 DEF VInv

\* Nothing has been read or written initially.
LEMMA InitVInv == Init => VInv
<1> SUFFICES ASSUME Init PROVE VInv
  OBVIOUS
<1>1. \A K : Inst(K) = {}
  BY Zenon DEF Init, Inst
<1>2. \A w : SentWriters(w) = {}
  BY Zenon, <1>1 DEF SentWriters
<1> QED
  BY Zenon, <1>1, <1>2 DEF Init, VInv, CoversKnown, CacheCurrent, LoadsCurrent, Youngest

\* Every load that has its data has, word by word, the youngest store before
\* it in program order among those that have executed.
THEOREM ValuesInductive == ASSUME NoCopyCovers PROVE Spec => [](IInv /\ VInv)
<1>1. Init => IInv /\ VInv
  BY InitIInv, InitVInv
<1>2. IInv /\ VInv /\ [Next]_vars => (IInv /\ VInv)'
  BY NextIInv, NextVInv
<1> QED
  BY <1>1, <1>2, PTL DEF Spec

\* A load that retires returns the youngest store before it in program order,
\* word by word, for every queue size and every interleaving of forwarding,
\* stalls, violations, squashes and the cache's answers.
THEOREM LoadsCorrect == ASSUME NoCopyCovers PROVE Spec => []RetiredLoadCorrect
<1>1. ASSUME IInv, VInv, retired \in Inst({"ld"}), NEW w \in cover[retired]
      PROVE  Youngest(val[retired][w], WritersBefore(retired, w))
  <2>0. TypeOK /\ QueueOrder /\ WrittenBack /\ IteratorAtBorder /\ RobOrder
    BY Zenon, <1>1 DEF IInv
  <2>1. retired \in executed
    BY <1>1, <2>0, Positions DEF RobOrder, Inst, SeqNum
  <2>2. \A s \in live : s < retired => s \in executed
    BY <2>0, Positions DEF RobOrder, SeqNum
  <2>3. WritersBefore(retired, w) = ReadyWriters(retired, w)
    BY Zenon, <2>2 DEF WritersBefore, ReadyWriters, Inst
  <2> QED
    BY Zenon, <1>1, <2>1, <2>3 DEF VInv, LoadsCurrent
<1>2. IInv /\ VInv => RetiredLoadCorrect
  BY Zenon, <1>1 DEF RetiredLoadCorrect
<1> QED
  BY <1>2, ValuesInductive, PTL

-----------------------------------------------------------------------------
(* The refinement of InOrderMemory *)

\* The stores to w that have retired.
RetiredWriters(w) ==
    {s \in Inst({"st"}) : s \notin nullified /\ s <= retired /\ w \in cover[s]}

\* There is one youngest element.
LEMMA YoungestUnique ==
    ASSUME NEW S \in SUBSET Nat, NEW u, NEW v, Youngest(u, S), Youngest(v, S)
    PROVE  u = v
<1>1. CASE S = {}
  BY <1>1 DEF Youngest
<1>2. CASE S # {}
  <2>1. u \in S /\ v \in S /\ u <= v /\ v <= u
    BY Zenon, <1>2 DEF Youngest
  <2> QED
    BY <2>1
<1> QED
  BY <1>1, <1>2

\* The memory that program order has made holds the youngest retired store.
LEMMA OrderedYoungest ==
    ASSUME IInv, CacheCurrent, NEW w \in Words
    PROVE  Youngest(OrderedMemory[w], RetiredWriters(w))
<1>0. TypeOK /\ QueueOrder /\ WrittenBack /\ IteratorAtBorder /\ RobOrder
  BY DEF IInv
<1>1. ASSUME NEW i \in 1 .. wbIt - 1
      PROVE  i \in 1 .. tail /\ sq[i] <= retired
  <2>1. wbIt \in Nat /\ tail \in Nat /\ wbIt <= tail + 1
    BY Zenon, <1>0, Positions
  <2>2. i \in 1 .. tail
    BY <2>1
  <2> QED
    BY Zenon, <2>2, <1>0 DEF WrittenBack
<1>2. ASSUME NEW s \in RetiredWriters(w)
      PROVE  \E j \in 1 .. tail : sq[j] = s /\ (j >= wbIt => j \in PendingWriters(w))
  <2>1. s \in Inst(StoreOps) /\ s <= retired /\ s \notin nullified
        /\ op[s] = "st" /\ w \in cover[s]
    BY DEF RetiredWriters, Inst, StoreOps
  <2>2. PICK j \in 1 .. tail : sq[j] = s
    BY Zenon, <2>1, <1>0 DEF QueueOrder
  <2>3. j >= wbIt => j \in wbIt .. tail
    BY <1>0, Positions
  <2> QED
    BY Zenon, <2>1, <2>2, <2>3 DEF PendingWriters
<1>3. \A i \in PendingWriters(w) : i \in 1 .. tail /\ wbIt <= i /\ sq[i] \in RetiredWriters(w)
  BY <1>0, Positions DEF PendingWriters, RetiredWriters, Inst
<1>4. CASE PendingWriters(w) = {}
  <2>1. OrderedMemory[w] = mem[w]
    BY <1>4 DEF OrderedMemory
  <2>2. RetiredWriters(w) \subseteq SentWriters(w)
    <3> SUFFICES ASSUME NEW s \in RetiredWriters(w) PROVE s \in SentWriters(w)
      OBVIOUS
    <3>1. PICK j \in 1 .. tail : sq[j] = s /\ ~(j >= wbIt)
      BY <1>2, <1>4
    <3>2. j \in 1 .. wbIt - 1
      BY <3>1, <1>0, Positions
    <3> QED
      BY Zenon, <3>1, <3>2 DEF RetiredWriters, SentWriters
  <2>3. SentWriters(w) \subseteq RetiredWriters(w)
    BY Zenon, <1>1 DEF SentWriters, RetiredWriters
  <2>4. RetiredWriters(w) = SentWriters(w)
    BY <2>2, <2>3
  <2> QED
    BY Zenon, <2>1, <2>4 DEF CacheCurrent
<1>5. CASE PendingWriters(w) # {}
  <2>1. \E i \in PendingWriters(w) : \A j \in PendingWriters(w) : j <= i
    <3>1. PICK P : P = PendingWriters(w)
      OBVIOUS
    <3>2. P \in SUBSET Nat /\ P # {} /\ \A k \in P : k <= tail
      BY <3>1, <1>0, <1>3, <1>5, Positions
    <3>3. \E i \in P : \A j \in P : j <= i
      BY Zenon, <3>2, <1>0, Positions, GreatestNat
    <3> QED
      BY <3>1, <3>3
  <2>2. PICK i : i = CHOOSE k \in PendingWriters(w) : \A j \in PendingWriters(w) : j <= k
    OBVIOUS
  <2>3. i \in PendingWriters(w) /\ \A j \in PendingWriters(w) : j <= i
    BY <2>1, <2>2
  <2>4. OrderedMemory[w] = sq[i]
    BY Zenon, <1>5, <2>2 DEF OrderedMemory
  <2>5. i \in 1 .. tail /\ wbIt <= i /\ sq[i] \in RetiredWriters(w)
    BY <2>3, <1>3
  <2>6. ASSUME NEW s \in RetiredWriters(w)
        PROVE  s <= sq[i]
    <3>1. PICK j \in 1 .. tail : sq[j] = s /\ (j >= wbIt => j \in PendingWriters(w))
      BY Zenon, <1>2
    <3>2. j >= wbIt => j <= i
      BY Zenon, <3>1, <2>3
    <3>3. j < i => sq[j] < sq[i]
      BY Zenon, <2>5, <1>0 DEF QueueOrder
    <3>4. wbIt \in Nat /\ tail \in Nat /\ sq[i] \in SeqNum /\ sq[j] \in SeqNum
      BY Zenon, <2>5, <1>0, Positions
    <3> QED
      BY <3>1, <3>2, <3>3, <3>4, <2>5 DEF SeqNum
  <2> QED
    BY Zenon, <2>4, <2>5, <2>6 DEF Youngest
<1> QED
  BY <1>4, <1>5

\* The memory that the refinement shows, against the stores that retired.
OrderedIsYoungest ==
    \A w \in Words : Youngest(OrderedMemory[w], RetiredWriters(w))

\* Retired stores are older than anything that has not retired.
LEMMA RetiredSmall ==
    ASSUME IInv, NEW w
    PROVE  /\ RetiredWriters(w) \in SUBSET Nat
           /\ \A s \in RetiredWriters(w), n \in SeqNum : n > retired => s < n
<1>1. /\ retired \in Nat /\ \A n \in live : n \in SeqNum
  BY Zenon, Positions DEF IInv
<1>2. \A n \in SeqNum : n \in Nat
  BY DEF SeqNum
<1>3. \A s \in RetiredWriters(w) : s \in live /\ s <= retired
  BY Zenon DEF RetiredWriters, Inst
<1>4. \A s \in live, n \in SeqNum : s <= retired /\ n > retired => s < n
  BY <1>1, <1>2
<1> QED
  BY Zenon, <1>1, <1>2, <1>3, <1>4

\* What the refined memory holds of the words.
LEMMA MemoryShape ==
    /\ OrderedMemory = [w \in Words |-> OrderedMemory[w]]
    /\ OrderedMemory' = [w \in Words |-> OrderedMemory'[w]]
  BY DEF OrderedMemory

\* The refined memory is one value per word: two states with the same
\* retired stores show the same memory.
LEMMA SameMemory ==
    ASSUME IInv, OrderedIsYoungest, OrderedIsYoungest',
           \A w \in Words : RetiredWriters(w)' = RetiredWriters(w)
    PROVE  OrderedMemory' = OrderedMemory
<1>1. ASSUME NEW w \in Words
      PROVE  OrderedMemory'[w] = OrderedMemory[w]
  <2>1. RetiredWriters(w) \in SUBSET Nat
    BY Zenon, RetiredSmall
  <2>2. Youngest(OrderedMemory[w], RetiredWriters(w))
    BY Zenon DEF OrderedIsYoungest
  <2>3. Youngest(OrderedMemory'[w], RetiredWriters(w))
    BY Zenon DEF OrderedIsYoungest, Youngest
  <2> QED
    BY Zenon, <2>1, <2>2, <2>3, YoungestUnique
<1>2. /\ OrderedMemory = [w \in Words |-> OrderedMemory[w]]
      /\ OrderedMemory' = [w \in Words |-> OrderedMemory'[w]]
  BY Zenon, MemoryShape
<1> QED
  BY Zenon, <1>1, <1>2

\* A store that retires, or an instruction that carries no data, against the
\* stores that have retired.
LEMMA RetiredGrows ==
    ASSUME IInv, NEW n \in SeqNum, Retire(n), NEW w
    PROVE  RetiredWriters(w)' = RetiredWriters(w) \cup
               {s \in {n} : op[n] = "st" /\ n \notin nullified /\ w \in cover[n]}
<1>0. TypeOK /\ QueueOrder /\ WrittenBack /\ IteratorAtBorder
  BY DEF IInv
<1>1. retired' = n /\ UNCHANGED <<op, cover, live, nullified>>
  BY Zenon DEF Retire
<1>2. n \in live /\ n > retired /\ \A m \in live : m > retired => n <= m
  BY Zenon DEF Retire, Head
<1>3. \A m \in live : m <= n <=> (m <= retired \/ m = n)
  <2>1. retired \in Nat /\ \A m \in live : m \in SeqNum
    BY Zenon, <1>0, Positions
  <2> QED
    BY <1>2, <2>1 DEF SeqNum
<1> QED
  BY Zenon, <1>1, <1>2, <1>3 DEF RetiredWriters, Inst

\* A load that retires reads the refined memory.
LEMMA LoadReadsMemory ==
    ASSUME IInv, VInv, OrderedIsYoungest,
           NEW n \in SeqNum, Retire(n), op[n] = "ld"
    PROVE  val[n] = [w \in cover[n] |-> OrderedMemory[w]]
<1>0. TypeOK /\ QueueOrder /\ WrittenBack /\ IteratorAtBorder /\ RobOrder
  BY DEF IInv
<1>1. /\ n \in live /\ n > retired /\ n \in executed
      /\ \A m \in live : m > retired => n <= m
  BY Zenon DEF Retire, Head
<1>2. n \in Inst({"ld"})
  BY <1>1 DEF Inst
<1>3. /\ val[n] = [w \in cover[n] |-> val[n][w]]
      /\ \A w \in cover[n] : Youngest(val[n][w], ReadyWriters(n, w))
  BY Zenon, <1>1, <1>2 DEF VInv, LoadsCurrent
<1>4. ASSUME NEW w \in cover[n]
      PROVE  val[n][w] = OrderedMemory[w]
  <2>1. \A s \in live : (s \in executed /\ s < n) <=> s <= retired
    <3>1. retired \in Nat /\ \A m \in live : m \in SeqNum
      BY Zenon, <1>0, Positions
    <3>2. \A s \in live : s <= retired => s \in executed
      BY Zenon, <1>0 DEF RobOrder
    <3> QED
      BY <1>1, <3>1, <3>2 DEF SeqNum
  <2>2. ReadyWriters(n, w) = RetiredWriters(w)
    BY Zenon, <2>1 DEF ReadyWriters, RetiredWriters, Inst
  <2>3. w \in Words
    BY Zenon, <1>0 DEF TypeOK, RobType
  <2>4. RetiredWriters(w) \in SUBSET Nat
    BY Zenon, RetiredSmall
  <2>5. Youngest(OrderedMemory[w], RetiredWriters(w))
    BY Zenon, <2>3 DEF OrderedIsYoungest
  <2> QED
    BY Zenon, <1>3, <2>2, <2>4, <2>5, YoungestUnique
<1> QED
  BY Zenon, <1>3, <1>4

\* Retirement is where an instruction takes effect in InOrderMemory.
LEMMA RetireRefines ==
    ASSUME IInv, VInv, OrderedIsYoungest, OrderedIsYoungest',
           NEW n \in SeqNum, Retire(n)
    PROVE  InOrder!Next
<1>0. TypeOK /\ QueueOrder /\ WrittenBack /\ IteratorAtBorder
  BY DEF IInv
<1>1. /\ last' = [seq |-> n,
                  kind |-> IF op[n] = "cp" \/ n \in nullified THEN "none" ELSE op[n],
                  words |-> cover[n],
                  read |-> IF op[n] = "ld" THEN val[n] ELSE <<>>]
      /\ n > last.seq /\ n > retired
  BY Zenon DEF Retire, Head, VInv
<1>2. cover[n] \in SUBSET Words /\ op[n] \in {"st", "cp", "ld"} /\ n \in 1 .. MaxSeq
  BY <1>0 DEF TypeOK, RobType, SeqNum
<1>3. CASE op[n] = "st" /\ n \notin nullified
  <2>1. ASSUME NEW w \in Words
        PROVE  OrderedMemory'[w] = IF w \in cover[n] THEN n ELSE OrderedMemory[w]
    <3>1. RetiredWriters(w) \in SUBSET Nat /\ \A s \in RetiredWriters(w) : s < n
      BY Zenon, <1>1, RetiredSmall
    <3>2. Youngest(OrderedMemory[w], RetiredWriters(w))
      BY Zenon DEF OrderedIsYoungest
    <3>3. Youngest(OrderedMemory'[w], RetiredWriters(w)')
      BY Zenon DEF OrderedIsYoungest, Youngest
    <3>4. CASE w \in cover[n]
      <4>1. RetiredWriters(w)' = RetiredWriters(w) \cup {n}
        <5>1. {s \in {n} : op[n] = "st" /\ n \notin nullified /\ w \in cover[n]} = {n}
          BY Zenon, <1>3, <3>4
        <5>2. RetiredWriters(w)' = RetiredWriters(w) \cup
                 {s \in {n} : op[n] = "st" /\ n \notin nullified /\ w \in cover[n]}
          BY Zenon, RetiredGrows
        <5> QED
          BY Zenon, <5>1, <5>2
      <4>2. Youngest(n, RetiredWriters(w) \cup {n})
        BY <3>1 DEF Youngest, SeqNum
      <4>3. RetiredWriters(w) \cup {n} \in SUBSET Nat
        BY <3>1 DEF SeqNum
      <4> QED
        BY Zenon, <3>3, <3>4, <4>1, <4>2, <4>3, YoungestUnique
    <3>5. CASE w \notin cover[n]
      <4>1. {s \in {n} : op[n] = "st" /\ n \notin nullified /\ w \in cover[n]} = {}
        BY Zenon, <3>5
      <4>2. RetiredWriters(w)' = RetiredWriters(w) \cup
               {s \in {n} : op[n] = "st" /\ n \notin nullified /\ w \in cover[n]}
        BY Zenon, RetiredGrows
      <4>3. RetiredWriters(w)' = RetiredWriters(w)
        BY Zenon, <4>1, <4>2
      <4> QED
        BY Zenon, <3>1, <3>2, <3>3, <3>5, <4>3, YoungestUnique
    <3> QED
      BY Zenon, <3>4, <3>5
  <2>2. OrderedMemory' = [w \in Words |-> IF w \in cover[n] THEN n ELSE OrderedMemory[w]]
    <3>1. OrderedMemory' = [w \in Words |-> OrderedMemory'[w]]
      BY Zenon, MemoryShape
    <3> QED
      BY Zenon, <2>1, <3>1
  <2>3. InOrder!Store(n, cover[n])
    BY Zenon, <1>1, <1>3, <2>2 DEF InOrder!Store, InOrder!Effect
  <2> QED
    BY Zenon, <1>2, <2>3 DEF InOrder!Next
<1>4. CASE ~(op[n] = "st" /\ n \notin nullified)
  <2>1. ASSUME NEW w \in Words
        PROVE  RetiredWriters(w)' = RetiredWriters(w)
    <3>1. RetiredWriters(w)' = RetiredWriters(w) \cup
             {s \in {n} : op[n] = "st" /\ n \notin nullified /\ w \in cover[n]}
      BY Zenon, RetiredGrows
    <3>2. {s \in {n} : op[n] = "st" /\ n \notin nullified /\ w \in cover[n]} = {}
      BY Zenon, <1>4
    <3> QED
      BY Zenon, <3>1, <3>2
  <2>2. OrderedMemory' = OrderedMemory
    BY <2>1, SameMemory
  <2>3. CASE op[n] = "ld"
    <3>1. val[n] = [w \in cover[n] |-> OrderedMemory[w]]
      BY Zenon, <2>3, LoadReadsMemory
    <3>2. n \notin nullified
      BY Zenon, <2>3 DEF IInv, RobOrder, Inst
    <3>3. InOrder!Load(n, cover[n])
      BY Zenon, <1>1, <2>2, <2>3, <3>1, <3>2 DEF InOrder!Load, InOrder!Effect
    <3> QED
      BY Zenon, <1>2, <3>3 DEF InOrder!Next
  <2>4. CASE op[n] # "ld"
    <3>1. InOrder!NoData(n, cover[n])
      BY Zenon, <1>1, <1>2, <1>4, <2>2, <2>4 DEF InOrder!NoData, InOrder!Effect
    <3> QED
      BY Zenon, <1>2, <3>1 DEF InOrder!Next
  <2> QED
    BY <2>3, <2>4
<1> QED
  BY <1>3, <1>4

\* Any step of the queue is a step of InOrderMemory or leaves it alone.
LEMMA StepRefines ==
    ASSUME IInv, VInv, OrderedIsYoungest, OrderedIsYoungest', [Next]_vars
    PROVE  [InOrder!Next]_InOrder!vars
<1>1. UNCHANGED <<last, retired>> \/ \E n \in SeqNum : Retire(n)
  BY Zenon, LastKept DEF VInv
<1>2. CASE \E n \in SeqNum : Retire(n)
  BY Zenon, <1>2, RetireRefines
<1>3. CASE UNCHANGED <<last, retired>>
  <2>1. RetiredStable
    BY RetiredKept
  <2>2. \A w \in Words : RetiredWriters(w)' = RetiredWriters(w)
    BY Zenon, <1>3, <2>1 DEF RetiredStable, RetiredWriters, Inst
  <2>3. OrderedMemory' = OrderedMemory
    BY Zenon, <2>2, SameMemory
  <2> QED
    BY <1>3, <2>3 DEF InOrder!vars
<1> QED
  BY Zenon, <1>1, <1>2, <1>3

\* The main load/store queue implements a memory on which instructions take
\* effect one at a time, in program order, when they retire.
THEOREM Refinement == ASSUME NoCopyCovers PROVE Spec => ImplementsInOrderMemory
<1>1. IInv /\ VInv => OrderedIsYoungest
  BY Zenon, OrderedYoungest DEF VInv, OrderedIsYoungest
<1>2. Init => InOrder!Init
  <2> SUFFICES ASSUME Init PROVE InOrder!Init
    OBVIOUS
  <2>1. wbIt = 1 /\ tail = 0
    BY Zenon DEF Init
  <2>2. wbIt .. tail = {}
    BY <2>1
  <2>3. \A w \in Words : PendingWriters(w) = {}
    BY Zenon, <2>2 DEF PendingWriters
  <2> QED
    BY Zenon, <2>3 DEF Init, OrderedMemory, InOrder!Init, InOrder!NoInst
<1>3. IInv /\ VInv /\ OrderedIsYoungest /\ OrderedIsYoungest' /\ [Next]_vars
        => [InOrder!Next]_InOrder!vars
  BY StepRefines
<1> QED
  BY <1>1, <1>2, <1>3, ValuesInductive, PTL DEF Spec, ImplementsInOrderMemory, InOrder!Spec
=============================================================================
