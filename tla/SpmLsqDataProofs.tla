------------------------- MODULE SpmLsqDataProofs ---------------------------
(***************************************************************************)
(* The data of SpmLsq: programs that keep the discipline of the kernels    *)
(* read and write back what program order says, for every number of lines  *)
(* and instructions, whatever is deferred, refused, faulted or squashed.   *)
(***************************************************************************)
EXTENDS SpmLsqProofs

\* A set of naturals that is not empty has a least element.
LEMMA LeastNat ==
    ASSUME NEW T \in SUBSET Nat, T # {}
    PROVE  \E m \in T : \A k \in T : m <= k
<1>1. PICK R : R = OpToRel(<, Nat)
  BY Zenon
<1>2. \A x, y \in Nat : x < y => <<x, y>> \in R
  BY <1>1 DEF OpToRel
<1>3. IsWellFoundedOn(R, Nat)
  BY <1>1, NatLessThanWellFounded, Zenon
<1>4. PICK m \in T : \A k \in T : ~(<<k, m>> \in R)
  BY Zenon, <1>3, WFMin
<1>5. \A k \in T : ~(k < m)
  BY Zenon, <1>2, <1>4
<1> QED
  BY <1>5

\* A bounded set of naturals that is not empty has a greatest element.
LEMMA GreatestNat ==
    ASSUME NEW T \in SUBSET Nat, T # {}, NEW b \in Nat, \A k \in T : k <= b
    PROVE  \E m \in T : \A k \in T : k <= m
<1>1. PICK U : U = {x \in Nat : b - x \in T}
  BY Zenon
<1>2. \A k \in T : b - k \in U
  BY <1>1
<1>3. PICK u \in U : \A x \in U : u <= x
  BY Zenon, <1>1, <1>2, LeastNat
<1>4. b - u \in T
  BY <1>1
<1>5. \A k \in T : u <= b - k
  BY <1>2, <1>3
<1>6. u \in Nat
  BY <1>1
<1>7. \A k \in T : k <= b - u
  BY <1>5, <1>6
<1> QED
  BY Zenon, <1>4, <1>7

\* The numbers in flight.
LEMMA InFlight ==
    ASSUME IInv
    PROVE  /\ next \in Nat /\ MaxSeq \in Nat
           /\ \A n \in live : n \in SeqNum /\ n \in Nat /\ n < next /\ n <= MaxSeq
           /\ done \subseteq sent /\ sent \subseteq committed /\ committed \subseteq live
<1>1. /\ next \in 1 .. MaxSeq + 1 /\ live \subseteq SeqNum
      /\ \A n \in live : n < next
      /\ done \subseteq sent /\ sent \subseteq committed /\ committed \subseteq live
  BY DEF IInv, TypeOK, ProgType, FlightOrder
<1> QED
  BY <1>1, SizeAssumption DEF SeqNum

\* A line that some instruction in flight touches is touched by a last one.
LEMMA LastTouch ==
    ASSUME IInv, NEW l, NEW m \in live, l \in rng[m]
    PROVE  \E x \in live : /\ l \in rng[x] /\ m <= x
                           /\ \A j \in live : j > x => l \notin rng[j]
<1>1. PICK T : T = {j \in live : l \in rng[j]}
  BY Zenon
<1>2. T \in SUBSET Nat /\ T # {} /\ \A j \in T : j <= MaxSeq
  BY <1>1, InFlight
<1>3. PICK x \in T : \A j \in T : j <= x
  BY Zenon, <1>2, InFlight, GreatestNat
<1>4. \A j \in live : j > x => l \notin rng[j]
  BY <1>1, <1>3, InFlight
<1> QED
  BY <1>1, <1>3, <1>4

\* Dispatch changes nothing about the instructions in flight.
LEMMA DispatchKeeps ==
    ASSUME IInv, NEW k, NEW ls, Dispatch(k, ls)
    PROVE  /\ next \notin live /\ live' = live \cup {next}
           /\ op'[next] = k /\ rng'[next] = ls
           /\ \A m \in live : op'[m] = op[m] /\ rng'[m] = rng[m] /\ m < next
           /\ UNCHANGED <<executed, committed, outst, sent, done, content, val>>
<1>1. next \in SeqNum /\ next \notin live
  BY InFlight DEF Dispatch, IInv, TypeOK, ProgType, SeqNum
<1>2. /\ op' = [op EXCEPT ![next] = k] /\ rng' = [rng EXCEPT ![next] = ls]
      /\ live' = live \cup {next}
      /\ UNCHANGED <<executed, committed, outst, sent, done, content, val>>
  BY DEF Dispatch, robVars, memVars
<1>3. DOMAIN op = SeqNum /\ DOMAIN rng = SeqNum
  BY DEF IInv, TypeOK, ProgType
<1> QED
  BY <1>1, <1>2, <1>3, InFlight

\* The discipline at dispatch keeps the whole program in flight disciplined.
LEMMA DispatchOrder ==
    ASSUME IInv, ProgramOrder, "anyProgram" \notin Env,
           NEW k, NEW ls, Dispatch(k, ls)
    PROVE  ProgramOrder'
<1>1. Disciplined(k, ls)
  BY DEF Dispatch
<1> SUFFICES ASSUME NEW m \in live', NEW n \in live',
                    NEW l \in rng'[m] \cap rng'[n], m < n
             PROVE  /\ op'[m] # "st"
                    /\ op'[m] \in Copy /\ op'[n] # "ld" =>
                          \E j \in Inst({"ld"})' : m < j /\ j < n /\ l \in rng'[j]
  BY DEF ProgramOrder
<1>2. m \in live
  BY DispatchKeeps, InFlight
<1>3. CASE n \in live
  <2>1. l \in rng[m] \cap rng[n]
    BY <1>2, <1>3, DispatchKeeps
  <2>2. /\ op[m] # "st"
        /\ op[m] \in Copy /\ op[n] # "ld" =>
              \E j \in Inst({"ld"}) : m < j /\ j < n /\ l \in rng[j]
    BY <1>2, <1>3, <2>1 DEF ProgramOrder
  <2>3. \A j \in Inst({"ld"}) : j \in Inst({"ld"})' /\ rng'[j] = rng[j]
    BY DispatchKeeps DEF Inst
  <2> QED
    BY <1>2, <1>3, <2>2, <2>3, DispatchKeeps
<1>4. CASE n = next
  <2>1. l \in rng[m] /\ l \in ls
    BY <1>2, <1>4, DispatchKeeps
  <2>2. PICK x \in live : /\ l \in rng[x] /\ m <= x
                          /\ \A j \in live : j > x => l \notin rng[j]
    BY <1>2, <2>1, LastTouch
  <2>3. op[x] = "ld" \/ (k = "ld" /\ op[x] \in Copy)
    BY <1>1, <2>1, <2>2 DEF Disciplined
  <2>4. op[m] # "st"
    <3>1. CASE m = x
      BY <2>3, <3>1 DEF Copy
    <3>2. CASE m # x
      <4>1. m < x
        BY <1>2, <2>2, <3>2, InFlight
      <4> QED
        BY <1>2, <2>1, <2>2, <4>1 DEF ProgramOrder
    <3> QED
      BY <3>1, <3>2
  <2>5. ASSUME op[m] \in Copy, k # "ld"
        PROVE  x \in Inst({"ld"})' /\ m < x /\ x < n /\ l \in rng'[x]
    <3>1. op[x] = "ld" /\ m # x
      BY <2>3, <2>5 DEF Copy
    <3>2. m < x
      BY <1>2, <2>2, <3>1, InFlight
    <3> QED
      BY <1>4, <2>2, <3>1, <3>2, DispatchKeeps DEF Inst
  <2> QED
    BY <1>2, <1>4, <2>4, <2>5, DispatchKeeps
<1> QED
  BY <1>3, <1>4, DispatchKeeps

\* A copy or store is sent only when the older ones to its line are performed:
\* the load between them retired first, and it waited for the older copy.
LEMMA OlderPerformed ==
    ASSUME IInv, ProgramOrder,
           NEW m \in live, op[m] \in {"cp", "wb", "st"},
           NEW n \in sent, op[n] # "ld", m < n,
           NEW l \in rng[m] \cap rng[n]
    PROVE  m \in done
<1>1. n \in live /\ n \in committed
  BY InFlight
<1>2. op[m] \in Copy
  BY <1>1 DEF ProgramOrder, Copy
<1>3. PICK j \in Inst({"ld"}) : m < j /\ j < n /\ l \in rng[j]
  BY <1>1, <1>2 DEF ProgramOrder
<1>4. j \in executed
  BY <1>1, <1>3 DEF IInv, CommitOrder, Inst
<1>5. rng[m] \cap rng[j] # {} /\ m \in Inst(Copy)
  BY <1>2, <1>3 DEF Inst
<1>6. m \in acked
  BY <1>3, <1>4, <1>5 DEF IInv, RawOrdered
<1> QED
  BY <1>6 DEF IInv, FlightOrder

\* What a copy or store about to be performed, or a load about to be sent,
\* finds in line l: the youngest older write, with no younger one before it.
LEMMA ContentBefore ==
    ASSUME IInv, ContentLatest, NEW n \in live, NEW l \in Lines,
           \A m \in Performed(l) : m < n,
           \A m \in Inst({"cp", "st"}) : m < n /\ l \in rng[m] => m \in done
    PROVE  LatestBefore(n, l, content[l])
<1>1. PICK W : W = {m \in Inst({"cp", "st"}) : m < n /\ l \in rng[m]}
  BY Zenon
<1>2. W = Performed(l)
  BY <1>1, InFlight DEF Performed, Inst
<1>3. content[l] \in Performed(l) \cup {0} /\ \A m \in Performed(l) : m <= content[l]
  BY DEF ContentLatest
<1> QED
  BY <1>1, <1>2, <1>3 DEF LatestBefore

\* The discipline speaks of the program in flight alone.
LEMMA OrderKept == ASSUME ProgramOrder, UNCHANGED <<op, rng, live>> PROVE ProgramOrder'
  BY DEF ProgramOrder, Inst

\* Steps that move no data and take none.
Quiet ==
    /\ UNCHANGED <<op, rng, live, done, content, val>>
    /\ \A n \in live :
          op[n] = "ld" /\ rng[n] # {} /\ n \in executed' \cup outst'
              => n \in executed \cup outst

\* They change nothing the data depends on.
LEMMA QuietStep ==
    ASSUME IInv, DataInv, Quiet
    PROVE  DataInv'
<1>1. UNCHANGED <<op, rng, live, done, content, val>>
  BY DEF Quiet
<1>2. ProgramOrder'
  BY Zenon, <1>1, OrderKept DEF DataInv
<1>3. ContentLatest'
  BY <1>1 DEF DataInv, ContentLatest, Performed
<1>4. FreshData'
  <2> SUFFICES ASSUME NEW n \in live,
                      \/ op[n] = "ld" /\ n \in outst' \cup executed'
                      \/ op[n] = "wb" /\ n \in done,
                      NEW l \in rng[n]
               PROVE  LatestBefore(n, l, val[n][l])'
    BY <1>1 DEF FreshData
  <2>1. \/ op[n] = "ld" /\ n \in outst \cup executed
        \/ op[n] = "wb" /\ n \in done
    BY DEF Quiet
  <2>2. LatestBefore(n, l, val[n][l])
    BY <2>1 DEF DataInv, FreshData
  <2> QED
    BY <1>1, <2>2 DEF LatestBefore, Inst
<1> QED
  BY <1>2, <1>3, <1>4 DEF DataInv

\* The steps that are quiet.
LEMMA QuietSteps ==
    ASSUME IInv, NEW n \in SeqNum,
           \/ ExecuteCopy(n) \/ FaultCopy(n) \/ ExecuteStore(n)
           \/ ParkLoad(n) \/ DeferLoad(n) \/ RefuseLoad(n)
           \/ AbortLoad(n) \/ SkipLoad(n) \/ LoadResp(n)
           \/ Commit(n) \/ CommitBarrier(n)
           \/ SendCopy(n) \/ CopyAck(n) \/ StoreResp(n)
    PROVE  Quiet
<1>1. CASE ExecuteCopy(n) \/ FaultCopy(n) \/ ExecuteStore(n)
  <2>1. /\ UNCHANGED <<op, rng, live, done, content, val, outst>>
        /\ executed' = executed \cup {n} /\ op[n] # "ld"
    BY Zenon, <1>1 DEF ExecuteCopy, FaultCopy, ExecuteStore, memVars, Copy
  <2> QED
    BY Zenon, <2>1 DEF Quiet
<1>2. CASE ParkLoad(n) \/ DeferLoad(n) \/ RefuseLoad(n) \/ AbortLoad(n)
  <2>1. UNCHANGED <<op, rng, live, done, content, val, outst, executed>>
    BY Zenon, <1>2 DEF ParkLoad, DeferLoad, RefuseLoad, AbortLoad, ReadLoad, memVars, robVars
  <2> QED
    BY Zenon, <2>1 DEF Quiet
<1>3. CASE SkipLoad(n)
  <2>1. /\ UNCHANGED <<op, rng, live, done, content, val, outst>>
        /\ executed' = executed \cup {n} /\ rng[n] = {}
    BY Zenon, <1>3 DEF SkipLoad, memVars
  <2> QED
    BY Zenon, <2>1 DEF Quiet
<1>4. CASE LoadResp(n)
  <2>1. /\ UNCHANGED <<op, rng, live, done, content, val>>
        /\ executed' \cup outst' \subseteq executed \cup outst
    BY <1>4 DEF LoadResp, memVars
  <2> QED
    BY Zenon, <2>1 DEF Quiet
<1>5. CASE Commit(n) \/ CommitBarrier(n)
  <2>1. /\ UNCHANGED <<op, rng, live, done, content, val, outst>>
        /\ executed' \subseteq executed \cup {n}
        /\ executed' = executed \/ op[n] = "dsb"
    BY <1>5 DEF Commit, CommitBarrier, memVars
  <2> QED
    BY Zenon, <2>1 DEF Quiet
<1>6. CASE SendCopy(n) \/ CopyAck(n) \/ StoreResp(n)
  <2>1. UNCHANGED <<op, rng, live, done, content, val, outst, executed>>
    BY Zenon, <1>6 DEF SendCopy, CopyAck, StoreResp, memVars, robVars
  <2> QED
    BY Zenon, <2>1 DEF Quiet
<1> QED
  BY <1>1, <1>2, <1>3, <1>4, <1>5, <1>6

\* Dispatch: the new instruction is younger than every other.
LEMMA DispatchData ==
    ASSUME IInv, DataInv, "anyProgram" \notin Env, NEW k, NEW ls, Dispatch(k, ls)
    PROVE  DataInv'
<1>1. ProgramOrder'
  BY DispatchOrder DEF DataInv
<1>2. ContentLatest'
  <2>1. ASSUME NEW l PROVE Performed(l)' = Performed(l)
    BY Zenon, DispatchKeeps, InFlight DEF Performed
  <2>2. content' = content
    BY DispatchKeeps
  <2> QED
    BY <2>1, <2>2 DEF DataInv, ContentLatest
<1>3. FreshData'
  <2> SUFFICES ASSUME NEW n \in live',
                      \/ op'[n] = "ld" /\ n \in outst' \cup executed'
                      \/ op'[n] = "wb" /\ n \in done',
                      NEW l \in rng'[n]
               PROVE  LatestBefore(n, l, val[n][l])'
    BY DEF FreshData
  <2>1. n \in live
    BY DispatchKeeps, InFlight DEF IInv, FlightOrder
  <2>2. LatestBefore(n, l, val[n][l])
    BY <2>1, DispatchKeeps DEF DataInv, FreshData
  <2>3. \A m : m < n => (m \in live' <=> m \in live)
    BY <2>1, DispatchKeeps, InFlight
  <2>4. LatestBefore(n, l, val[n][l])' <=> LatestBefore(n, l, val[n][l])
    <3>1. {m \in Inst({"cp", "st"})' : m < n /\ l \in rng'[m]}
            = {m \in Inst({"cp", "st"}) : m < n /\ l \in rng[m]}
      BY <2>3, DispatchKeeps DEF Inst
    <3>2. val' = val
      BY Zenon, DispatchKeeps
    <3> QED
      BY <3>1, <3>2 DEF LatestBefore
  <2> QED
    BY <2>2, <2>4
<1> QED
  BY <1>1, <1>2, <1>3 DEF DataInv

\* A squash takes a suffix of the program in flight.
LEMMA SquashData ==
    ASSUME IInv, DataInv, NEW k \in SeqNum, SquashFrom(k)
    PROVE  DataInv'
<1>1. /\ live' = {m \in live : ~(m >= k)}
      /\ UNCHANGED <<op, rng, executed, outst, done, content, val>>
  BY DEF SquashFrom, memVars, robVars
<1>2. \A n \in live' : \A m \in live : m < n => m \in live'
  BY <1>1, InFlight DEF SeqNum
<1>3. ProgramOrder'
  <2> SUFFICES ASSUME NEW m \in live', NEW n \in live',
                      NEW l \in rng[m] \cap rng[n], m < n
               PROVE  /\ op[m] # "st"
                      /\ op[m] \in Copy /\ op[n] # "ld" =>
                            \E j \in Inst({"ld"})' : m < j /\ j < n /\ l \in rng[j]
    BY <1>1 DEF ProgramOrder
  <2>1. m \in live /\ n \in live
    BY <1>1
  <2>2. /\ op[m] # "st"
        /\ op[m] \in Copy /\ op[n] # "ld" =>
              \E j \in Inst({"ld"}) : m < j /\ j < n /\ l \in rng[j]
    BY <2>1 DEF DataInv, ProgramOrder
  <2>3. \A j \in Inst({"ld"}) : j < n => j \in Inst({"ld"})'
    BY <1>1, <1>2 DEF Inst
  <2> QED
    BY <2>2, <2>3
<1>4. ContentLatest'
  BY <1>1 DEF DataInv, ContentLatest, Performed
<1>5. FreshData'
  <2> SUFFICES ASSUME NEW n \in live',
                      \/ op[n] = "ld" /\ n \in outst \cup executed
                      \/ op[n] = "wb" /\ n \in done,
                      NEW l \in rng[n]
               PROVE  LatestBefore(n, l, val[n][l])'
    BY <1>1 DEF FreshData
  <2>1. LatestBefore(n, l, val[n][l])
    BY SMTT(30), <1>1 DEF DataInv, FreshData
  <2>2. {m \in Inst({"cp", "st"})' : m < n /\ l \in rng'[m]}
          = {m \in Inst({"cp", "st"}) : m < n /\ l \in rng[m]}
    BY <1>1, <1>2 DEF Inst
  <2>3. val' = val
    BY <1>1
  <2> QED
    BY <2>1, <2>2, <2>3 DEF LatestBefore
<1> QED
  BY <1>3, <1>4, <1>5 DEF DataInv

\* A step that gives data to instruction x alone leaves the data of the
\* others fresh.
LEMMA OthersFresh ==
    ASSUME IInv, FreshData, NEW x \in SeqNum,
           UNCHANGED <<op, rng, live>>,
           executed' \cup outst' \subseteq executed \cup outst \cup {x},
           done' \subseteq done \cup {x},
           \A n \in live : n # x => val'[n] = val[n],
           \/ op[x] \notin {"ld", "wb"}
           \/ \A l \in rng[x] : LatestBefore(x, l, val'[x][l])
    PROVE  FreshData'
<1> SUFFICES ASSUME NEW n \in live,
                    \/ op[n] = "ld" /\ n \in outst' \cup executed'
                    \/ op[n] = "wb" /\ n \in done',
                    NEW l \in rng[n]
             PROVE  LatestBefore(n, l, val[n][l])'
  BY Zenon DEF FreshData
<1>1. LatestBefore(n, l, val'[n][l])
  <2>1. CASE n = x
    BY <2>1
  <2>2. CASE n # x
    <3>1. LatestBefore(n, l, val[n][l])
      BY <2>2 DEF FreshData
    <3> QED
      BY <2>2, <3>1
  <2> QED
    BY Zenon, <2>1, <2>2
<1>2. {m \in Inst({"cp", "st"})' : m < n /\ l \in rng'[m]}
        = {m \in Inst({"cp", "st"}) : m < n /\ l \in rng[m]}
  BY DEF Inst
<1> QED
  BY Zenon, <1>1, <1>2 DEF LatestBefore

\* A load that is sent takes the latest data: every older copy to its lines is
\* acknowledged, no store to them is older, and nothing younger has retired.
LEMMA SendLoadData ==
    ASSUME IInv, IInv', DataInv, NEW n \in SeqNum, SendLoad(n)
    PROVE  DataInv'
<1>1. /\ UNCHANGED <<op, rng, live, executed, done, acked, content>>
      /\ outst' = outst \cup {n}
      /\ val' = [val EXCEPT ![n] =
                    [l \in Lines |-> IF l \in rng[n] THEN content[l] ELSE 0]]
      /\ n \in live /\ op[n] = "ld" /\ n \notin executed
  BY Zenon DEF SendLoad, ReadLoad, CanIssue, memVars, robVars
<1>2. ProgramOrder'
  BY Zenon, <1>1, OrderKept DEF DataInv
<1>3. ContentLatest'
  BY Zenon, <1>1 DEF DataInv, ContentLatest, Performed
<1>4. DOMAIN val = SeqNum /\ rng[n] \subseteq Lines
  BY DEF IInv, TypeOK, LoadType, ProgType
<1>5. ASSUME NEW l \in rng[n]
      PROVE  LatestBefore(n, l, val'[n][l])
  <2>1. l \in Lines /\ val'[n][l] = content[l]
    BY <1>1, <1>4
  <2>2. \A m \in Performed(l) : m < n
    <3> SUFFICES ASSUME NEW m \in Performed(l), ~(m < n) PROVE FALSE
      OBVIOUS
    <3>1. m \in done /\ m \in committed /\ m \in live /\ op[m] # "ld"
      BY Zenon, InFlight DEF Performed
    <3>2. n < m
      BY <1>1, <3>1, InFlight
    <3>3. n \in executed
      BY Zenon, <1>1, <3>1, <3>2 DEF IInv, CommitOrder
    <3> QED
      BY <1>1, <3>3
  <2>3. ASSUME NEW m \in Inst({"cp", "st"}), m < n, l \in rng[m]
        PROVE  m \in done
    <3>1. op[m] = "cp"
      BY Zenon, <1>1, <2>3 DEF DataInv, ProgramOrder, Inst
    <3>2. m \in Inst(Copy)' /\ n \in Inst({"ld"})' /\ rng'[m] \cap rng'[n] # {}
      BY Zenon, <1>1, <2>3, <3>1 DEF Inst, Copy
    <3>3. m \in acked'
      BY Zenon, <1>1, <2>3, <3>2 DEF IInv, RawOrdered
    <3> QED
      BY Zenon, <1>1, <3>3 DEF IInv, FlightOrder
  <2> QED
    BY SMTT(30), <1>1, <2>1, <2>2, <2>3, ContentBefore DEF DataInv
<1>6. FreshData'
  <2>1. \A m \in live : m # n => val'[m] = val[m]
    BY <1>1, <1>4
  <2> QED
    BY Zenon, <1>1, <1>5, <2>1, OthersFresh DEF DataInv
<1> QED
  BY <1>2, <1>3, <1>6 DEF DataInv

\* What is performed now is younger than everything performed in its lines.
LEMMA PerformedOlder ==
    ASSUME IInv, ProgramOrder, NEW n \in live \ done, op[n] \in {"cp", "wb", "st"},
           NEW l \in rng[n], NEW m \in Performed(l)
    PROVE  m < n
<1> SUFFICES ASSUME ~(m < n) PROVE FALSE
  OBVIOUS
<1>1. m \in done /\ m \in sent /\ m \in live /\ op[m] # "ld" /\ l \in rng[m]
  BY InFlight DEF Performed
<1>2. n < m
  BY <1>1, InFlight
<1> QED
  BY <1>1, <1>2, OlderPerformed

\* A write lands on top of the older ones.
LEMMA WriteData ==
    ASSUME IInv, DataInv, NEW n \in live \ done, op[n] \in {"cp", "st"},
           UNCHANGED <<op, rng, live, executed, outst, val>>,
           done' = done \cup {n},
           content' = [l \in Lines |-> IF l \in rng[n] THEN n ELSE content[l]]
    PROVE  DataInv'
<1>1. ProgramOrder'
  BY Zenon, OrderKept DEF DataInv
<1>2. ContentLatest'
  <2> SUFFICES ASSUME NEW l \in Lines
               PROVE  /\ content'[l] \in Performed(l)' \cup {0}
                      /\ \A m \in Performed(l)' : m <= content'[l]
    BY DEF ContentLatest
  <2>1. CASE l \in rng[n]
    <3>1. content'[l] = n /\ n \in Performed(l)'
      BY Zenon, <2>1 DEF Performed
    <3>2. \A m \in Performed(l)' : m = n \/ m \in Performed(l)
      BY DEF Performed
    <3>3. \A m \in Performed(l) : m < n /\ m \in live
      BY Zenon, <2>1, PerformedOlder, InFlight DEF DataInv, Performed
    <3> QED
      BY <3>1, <3>2, <3>3, InFlight
  <2>2. CASE l \notin rng[n]
    <3>1. content'[l] = content[l] /\ Performed(l)' = Performed(l)
      BY <2>2 DEF Performed
    <3> QED
      BY Zenon, <3>1 DEF DataInv, ContentLatest
  <2> QED
    BY Zenon, <2>1, <2>2
<1>3. FreshData'
  BY Zenon, OthersFresh, InFlight DEF DataInv
<1> QED
  BY <1>1, <1>2, <1>3 DEF DataInv

\* The L2 performs a copy.
LEMMA CopyDoneData ==
    ASSUME IInv, DataInv, NEW n \in SeqNum, CopyDone(n)
    PROVE  DataInv'
<1>1. /\ n \in live \ done /\ n \in sent
      /\ UNCHANGED <<op, rng, live, executed, outst>>
      /\ done' = done \cup {n} /\ op[n] \in {"cp", "wb"}
  BY Zenon, InFlight DEF CopyDone, robVars, Copy
<1>2. CASE op[n] = "cp"
  <2>1. /\ val' = val
        /\ content' = [l \in Lines |-> IF l \in rng[n] THEN n ELSE content[l]]
    BY <1>2 DEF CopyDone
  <2> QED
    BY Zenon, <1>1, <1>2, <2>1, WriteData
<1>3. CASE op[n] = "wb"
  <2>1. /\ content' = content
        /\ val' = [val EXCEPT ![n] =
                      [l \in Lines |-> IF l \in rng[n] THEN content[l] ELSE 0]]
    BY <1>3 DEF CopyDone
  <2>2. DOMAIN val = SeqNum /\ rng[n] \subseteq Lines
    BY DEF IInv, TypeOK, LoadType, ProgType
  <2>3. ASSUME NEW l \in rng[n]
        PROVE  LatestBefore(n, l, val'[n][l])
    <3>1. l \in Lines /\ val'[n][l] = content[l]
      BY <2>1, <2>2
    <3>2. \A m \in Performed(l) : m < n
      BY Zenon, <1>1, PerformedOlder DEF DataInv
    <3>3. \A m \in Inst({"cp", "st"}) : m < n /\ l \in rng[m] => m \in done
      BY Zenon, <1>1, <1>3, OlderPerformed DEF DataInv, Inst
    <3> QED
      BY Zenon, <1>1, <3>1, <3>2, <3>3, ContentBefore DEF DataInv
  <2>4. ProgramOrder'
    BY Zenon, <1>1, OrderKept DEF DataInv
  <2>5. ContentLatest'
    <3>1. ASSUME NEW l PROVE Performed(l)' = Performed(l)
      BY <1>1, <1>3 DEF Performed
    <3> QED
      BY Zenon, <2>1, <3>1 DEF DataInv, ContentLatest
  <2>6. FreshData'
    <3>1. \A m \in live : m # n => val'[m] = val[m]
      BY <2>1, <2>2
    <3> QED
      BY Zenon, <1>1, <2>3, <3>1, OthersFresh DEF DataInv
  <2> QED
    BY <2>4, <2>5, <2>6 DEF DataInv
<1> QED
  BY <1>1, <1>2, <1>3

\* A store is performed when it is sent.
LEMMA SendStoreData ==
    ASSUME IInv, DataInv, NEW n \in SeqNum, SendStore(n)
    PROVE  DataInv'
<1>1. /\ n \in live \ done /\ op[n] = "st"
      /\ UNCHANGED <<op, rng, live, executed, outst, val>>
      /\ done' = done \cup {n}
      /\ content' = [l \in Lines |-> IF l \in rng[n] THEN n ELSE content[l]]
  BY Zenon, InFlight DEF SendStore, SpmSQ, Inst, robVars
<1> QED
  BY Zenon, <1>1, WriteData

\* Every step keeps the data invariant of a disciplined program.
LEMMA NextData ==
    ASSUME IInv, IInv', DataInv, "anyProgram" \notin Env, [Next]_vars
    PROVE  DataInv'
<1>1. ASSUME NEW k \in Kinds, NEW ls \in SUBSET Lines, Dispatch(k, ls)
      PROVE  DataInv'
  BY <1>1, DispatchData
<1>2. ASSUME NEW n \in SeqNum,
             \/ ExecuteCopy(n) \/ FaultCopy(n) \/ ExecuteStore(n)
             \/ ParkLoad(n) \/ DeferLoad(n) \/ RefuseLoad(n)
             \/ AbortLoad(n) \/ SkipLoad(n) \/ LoadResp(n)
             \/ Commit(n) \/ CommitBarrier(n)
             \/ SendCopy(n) \/ CopyAck(n) \/ StoreResp(n)
      PROVE  DataInv'
  BY <1>2, QuietSteps, QuietStep
<1>3. ASSUME NEW n \in SeqNum, Squash(n) \/ Trap(n)
      PROVE  DataInv'
  BY <1>3, SquashData DEF Squash, Trap
<1>4. ASSUME NEW n \in SeqNum, SendLoad(n) \/ CopyDone(n) \/ SendStore(n)
      PROVE  DataInv'
  BY <1>4, SendLoadData, CopyDoneData, SendStoreData
<1>5. CASE ReplayAll \/ CacheUnblocked \/ UNCHANGED vars
  <2>1. UNCHANGED <<op, rng, live, done, content, val, outst, executed>>
    BY Zenon, <1>5 DEF ReplayAll, CacheUnblocked, vars, memVars, robVars
  <2>2. Quiet
    BY <2>1 DEF Quiet
  <2> QED
    BY <2>2, QuietStep
<1> QED
  BY Zenon, <1>1, <1>2, <1>3, <1>4, <1>5 DEF Next, Step

\* The data invariant holds throughout a disciplined program.
THEOREM DataInductive ==
    ASSUME "anyProgram" \notin Env PROVE Spec => [](IInv /\ DataInv)
<1>1. Init => DataInv
  BY Zenon DEF Init, DataInv, ProgramOrder, ContentLatest, Performed, FreshData, Inst
<1>2. IInv /\ IInv' /\ DataInv /\ [Next]_vars => DataInv'
  BY NextData
<1> QED
  BY <1>1, <1>2, Inductive, PTL DEF Spec

\* A disciplined program reads, and writes back, what program order says: the
\* shadow table, in-order commit and the discipline together suffice.
THEOREM Fresh == ASSUME "anyProgram" \notin Env PROVE Spec => []FreshData
<1>1. DataInv => FreshData
  BY DEF DataInv
<1> QED
  BY <1>1, DataInductive, PTL

\* Writes to a line of a disciplined program land in program order although
\* the L2 performs copies in any order.
THEOREM OrderedWrites == ASSUME "anyProgram" \notin Env PROVE Spec => []WritesInOrder
<1>1. IInv /\ DataInv => WritesInOrder
  <2> SUFFICES ASSUME IInv, DataInv, NEW m \in done, op[m] = "cp", NEW l \in rng[m]
               PROVE  content[l] >= m
    BY DEF WritesInOrder
  <2>1. l \in Lines /\ m \in SeqNum
    BY Zenon, InFlight DEF IInv, TypeOK, ProgType
  <2>2. m \in Performed(l)
    BY DEF Performed
  <2>3. m <= content[l] /\ content[l] \in Data
    BY Zenon, <2>1, <2>2 DEF DataInv, ContentLatest, IInv, TypeOK, MemType
  <2> QED
    BY <2>1, <2>3 DEF Data, SeqNum
<1> QED
  BY <1>1, DataInductive, PTL
=============================================================================
