----------------------------- MODULE StoreQueue -----------------------------
(***************************************************************************)
(* The main unit of the load/store queue (cpu/o3/lsq_unit.cc): the store   *)
(* queue that ordinary stores share with spm.cp and spm.wb, its write-back *)
(* iterator, the refusals and retries of the data cache, store-to-load     *)
(* forwarding, the stall on a partial match, memory-order violations,      *)
(* in-order commit and squash.                                             *)
(*                                                                         *)
(* An instruction is its sequence number.  It covers a set of words, and   *)
(* the datum a store writes is its own number.  Here "cp" stands for both  *)
(* spm.cp and spm.wb, which this unit treats alike: their effective        *)
(* address is the one in main memory and their datum is the scratchpad     *)
(* address.  The data cache performs accesses in the order it accepts      *)
(* them.                                                                   *)
(***************************************************************************)
EXTENDS Integers, FiniteSets

CONSTANTS
    Words,       \* words of main memory
    MaxSeq,      \* bound on the sequence numbers handed out
    LQEntries,   \* entries of the load queue
    SQEntries,   \* entries of the store queue
    StoreCovers, \* sets of words a store may write
    CopyCovers,  \* sets of words spm.cp may name
    LoadCovers,  \* sets of words a load may read
    DepUnit      \* DepUnit[w]: the block, of 2^depCheckShift bytes, w is in

ASSUME SizeAssumption ==
    MaxSeq \in Nat /\ LQEntries \in Nat /\ SQEntries \in Nat

ASSUME CoverAssumption ==
    /\ StoreCovers \cup CopyCovers \cup LoadCovers \subseteq SUBSET Words
    /\ {} \notin StoreCovers \cup CopyCovers \cup LoadCovers
    /\ DepUnit \in [Words -> Nat]

VARIABLES
    next,        \* next sequence number to dispatch
    op,          \* op[n]: "st", "cp" or "ld"
    cover,       \* cover[n]: the words n accesses
    live,        \* dispatched and not squashed
    executed,    \* store: in the queue with its data; load: has its data
    nullified,   \* stores whose predicate is false: size stays 0
    retired,     \* the youngest instruction retired from the ROB
    lq,          \* loads in the load queue
    sq,          \* sq[i]: the store at absolute position i of the queue
    head, tail,  \* absolute positions of its first and last store
    wbIt,        \* storeWBIt
    canWB,       \* stores marked by commitStores
    completed,   \* SQEntry::completed
    storesToWB,  \* the counter of that name
    storeBlocked,\* isStoreBlocked
    cacheBlocked,\* LSQ::_cacheBlocked
    inflight,    \* stores sent and not answered
    sqIt,        \* sqIt[n]: store queue position load n was inserted at
    addrValid,   \* loads with effAddrValid
    outst,       \* loads sent and not answered
    blocked,     \* loads in blockedMemInsts
    replay,      \* loads in instsToReplay
    stalled,     \* the flag of that name
    stallStore,  \* stallingStoreIsn
    stallLoad,   \* the load at stallingLoadIdx
    val,         \* val[n]: what load n read
    mem,         \* mem[w]: the last store the data cache performed on w
    last         \* the last instruction to retire, as InOrderMemory sees it

robVars   == <<next, op, cover, live, retired, last>>
queueVars == <<sq, head, tail, wbIt, canWB, completed, storesToWB>>
portVars  == <<storeBlocked, cacheBlocked>>
loadVars  == <<lq, sqIt, addrValid, outst, blocked, val>>
stallVars == <<replay, stalled, stallStore, stallLoad>>
vars == <<robVars, executed, nullified, queueVars, portVars, inflight,
          loadVars, stallVars, mem>>

SeqNum == 1 .. MaxSeq

StoreOps == {"st", "cp"}

-----------------------------------------------------------------------------
(* Helpers *)

Inst(K) == {n \in live : op[n] \in K}

\* ROB head: the oldest instruction not retired.
Head(n) ==
    /\ n \in live
    /\ n > retired
    /\ \A m \in live : m > retired => n <= m

\* Positions of the stores a load looks at, youngest first in the code:
\* older than the load, not sent, with their data.
Candidates(l) ==
    {i \in wbIt .. sqIt[l] - 1 :
        /\ sq[i] \in executed \ nullified
        /\ cover[sq[i]] \cap cover[l] # {}}

\* Variant: the scan takes the oldest store that overlaps.
OldestMatch(l, i) ==
    i \in Candidates(l) /\ \A j \in Candidates(l) : i <= j

\* The store the scan stops at.
Match(l, i) ==
    i \in Candidates(l) /\ \A j \in Candidates(l) : j <= i

FullCoverage(l, i) == cover[l] \subseteq cover[sq[i]]

\* Variant: the comparison is by word, not by block, and exact.
SameWordOnly(s, l) == cover[s] = cover[l]

\* The overlap test of checkViolations, on blocks of 2^depCheckShift bytes.
SameBlock(s, l) ==
    \E w \in cover[s], v \in cover[l] : DepUnit[w] = DepUnit[v]

\* Younger loads that already have an address and overlap store s.
Violators(s) ==
    {l \in lq : l > s /\ l \in addrValid /\ SameBlock(s, l)}

\* Loads the instruction queue may issue.
CanIssue(l) ==
    l \in Inst({"ld"}) \ (executed \cup outst \cup blocked \cup replay)

-----------------------------------------------------------------------------
(* Dispatch *)

\* LSQUnit::insertLoad.
InsertLoad(c) ==
    /\ Cardinality(lq) < LQEntries
    /\ lq' = lq \cup {next}
    /\ sqIt' = [sqIt EXCEPT ![next] = tail + 1]
    /\ op' = [op EXCEPT ![next] = "ld"]
    /\ cover' = [cover EXCEPT ![next] = c]
    /\ live' = live \cup {next}
    /\ next' = next + 1
    /\ UNCHANGED <<retired, last, executed, nullified, queueVars, portVars,
                   inflight, addrValid, outst, blocked, val, stallVars, mem>>

\* LSQUnit::insertStore.
InsertStore(k, c) ==
    /\ tail - head + 1 < SQEntries
    /\ tail' = tail + 1
    /\ sq' = [sq EXCEPT ![tail + 1] = next]
    /\ op' = [op EXCEPT ![next] = k]
    /\ cover' = [cover EXCEPT ![next] = c]
    /\ live' = live \cup {next}
    /\ next' = next + 1
    /\ UNCHANGED <<retired, last, executed, nullified, head, wbIt, canWB,
                   completed, storesToWB, portVars, inflight, loadVars,
                   stallVars, mem>>

Dispatch ==
    /\ next <= MaxSeq
    /\ \/ \E c \in LoadCovers : InsertLoad(c)
       \/ \E c \in StoreCovers : InsertStore("st", c)
       \/ \E c \in CopyCovers : InsertStore("cp", c)

-----------------------------------------------------------------------------
(* Squash *)

\* Variant: a squash leaves the stall recorded for a load it removes.
KeepStall(n) == UNCHANGED <<stalled, stallStore, stallLoad>>

\* The stall is dropped with the load it was recorded for.
DropStall(n) ==
    IF stalled /\ stallLoad >= n
    THEN stalled' = FALSE /\ stallStore' = 0 /\ stallLoad' = 0
    ELSE UNCHANGED <<stalled, stallStore, stallLoad>>

\* Where the tail stops: the loop pops stores from the back, n and younger,
\* and ends at one that commitStores has marked.
NewTail(n) ==
    CHOOSE t \in head - 1 .. tail :
        /\ \A i \in t + 1 .. tail : sq[i] >= n /\ sq[i] \notin canWB
        /\ t >= head => sq[t] < n \/ sq[t] \in canWB

\* LSQUnit::squash: n and everything younger go.
SquashFrom(n) ==
    /\ live' = {m \in live : m < n}
    /\ lq' = {m \in lq : m < n}
    /\ nullified' = {m \in nullified : m < n}
    /\ tail' = NewTail(n)
    /\ addrValid' = {m \in addrValid : m < n}
    /\ outst' = {m \in outst : m < n}
    /\ blocked' = {m \in blocked : m < n}
    /\ replay' = {m \in replay : m < n}
    /\ DropStall(n)
    /\ UNCHANGED <<next, op, cover, retired, last, sq, head, wbIt, canWB,
                   completed, storesToWB, portVars, inflight, sqIt, val, mem>>

\* A mispredicted branch, a trap or an interrupt.
Squash ==
    \E n \in live :
        /\ n > retired
        /\ SquashFrom(n)
        /\ executed' = {m \in executed : m < n}

-----------------------------------------------------------------------------
(* Execution of stores *)

\* executeStore and write(): the data enters the queue; a younger load that
\* overlaps and already has an address is squashed with its successors.
ExecuteStore(s) ==
    /\ s \in Inst(StoreOps) \ executed
    /\ IF Violators(s) = {}
       THEN /\ executed' = executed \cup {s}
            /\ UNCHANGED <<robVars, nullified, queueVars, portVars, inflight, loadVars,
                           stallVars, mem>>
       ELSE \E l \in Violators(s) :
               /\ \A m \in Violators(s) : l <= m
               /\ executed' = {m \in executed \cup {s} : m < l}
               /\ SquashFrom(l)

\* A store whose predicate is false writes nothing: its size stays 0.
NullifyStore(s) ==
    /\ s \in Inst({"st"}) \ executed
    /\ executed' = executed \cup {s}
    /\ nullified' = nullified \cup {s}
    /\ UNCHANGED <<robVars, queueVars, portVars, inflight, loadVars,
                   stallVars, mem>>

-----------------------------------------------------------------------------
(* LSQUnit::read, the branch for main memory *)

\* Full coverage: the load takes the store's data.
ForwardLoad(l) ==
    /\ CanIssue(l)
    /\ \E i \in wbIt .. tail :
          /\ Match(l, i)
          /\ FullCoverage(l, i)
          /\ val' = [val EXCEPT ![l] = [w \in cover[l] |-> sq[i]]]
    /\ executed' = executed \cup {l}
    /\ addrValid' = addrValid \cup {l}
    /\ UNCHANGED <<robVars, nullified, queueVars, portVars, inflight, lq,
                   sqIt, outst, blocked, stallVars, mem>>

\* Partial coverage: the load waits in the memory dependence unit, and the
\* oldest load to do so is recorded with the store it waits for.
StallLoad(l) ==
    /\ CanIssue(l)
    /\ \E i \in wbIt .. tail :
          /\ Match(l, i)
          /\ ~FullCoverage(l, i)
          /\ IF ~stalled \/ l < stallLoad
             THEN stalled' = TRUE /\ stallStore' = sq[i] /\ stallLoad' = l
             ELSE UNCHANGED <<stalled, stallStore, stallLoad>>
    /\ replay' = replay \cup {l}
    /\ addrValid' = addrValid \ {l}
    /\ UNCHANGED <<robVars, executed, nullified, queueVars, portVars,
                   inflight, lq, sqIt, outst, blocked, val, mem>>

\* No store overlaps and the cache accepts the load.
SendLoad(l) ==
    /\ CanIssue(l)
    /\ Candidates(l) = {}
    /\ ~cacheBlocked
    /\ outst' = outst \cup {l}
    /\ val' = [val EXCEPT ![l] = [w \in cover[l] |-> mem[w]]]
    /\ addrValid' = addrValid \cup {l}
    /\ UNCHANGED <<robVars, executed, nullified, queueVars, portVars,
                   inflight, lq, sqIt, blocked, stallVars, mem>>

\* No store overlaps and the load is not sent: the cache is blocked, it
\* refuses the load (got = TRUE), or the ports of this cycle are used up.
BlockLoad(l, got) ==
    /\ CanIssue(l)
    /\ Candidates(l) = {}
    /\ got => ~cacheBlocked
    /\ cacheBlocked' = (cacheBlocked \/ got)
    /\ blocked' = blocked \cup {l}
    /\ addrValid' = addrValid \cup {l}
    /\ UNCHANGED <<robVars, executed, nullified, queueVars, storeBlocked,
                   inflight, lq, sqIt, outst, val, stallVars, mem>>

\* The answer to a load: writeback() sets it executed.
LoadResp(l) ==
    /\ l \in outst
    /\ outst' = outst \ {l}
    /\ executed' = executed \cup {l}
    /\ UNCHANGED <<robVars, nullified, queueVars, portVars, inflight, lq,
                   sqIt, addrValid, blocked, val, stallVars, mem>>

\* LSQ::tick: loads the port limit kept back are issued again.
TickUnblock ==
    /\ ~cacheBlocked
    /\ blocked # {}
    /\ blocked' = {}
    /\ UNCHANGED <<robVars, executed, nullified, queueVars, portVars,
                   inflight, lq, sqIt, addrValid, outst, val, stallVars, mem>>

-----------------------------------------------------------------------------
(* Commit *)

\* The ROB retires its head once it has executed.
Retire(n) ==
    /\ Head(n)
    /\ n \in executed
    /\ retired' = n
    /\ last' = [seq |-> n,
                kind |-> IF op[n] = "cp" \/ n \in nullified THEN "none"
                         ELSE op[n],
                words |-> cover[n],
                read |-> IF op[n] = "ld" THEN val[n] ELSE <<>>]
    /\ UNCHANGED <<next, op, cover, live, executed, nullified, queueVars,
                   portVars, inflight, loadVars, stallVars, mem>>

\* Variant: a store that is marked already is counted again.
CommitRecount ==
    LET marked == {sq[i] : i \in {j \in head .. tail : sq[j] <= retired}}
        leaving == {l \in lq : l <= retired}
    IN  /\ marked \cup leaving # {}
        /\ canWB' = canWB \cup marked
        /\ storesToWB' = storesToWB + Cardinality(marked)
        /\ lq' = lq \ leaving
        /\ UNCHANGED <<robVars, executed, nullified, sq, head, tail, wbIt,
                       completed, portVars, inflight, sqIt, addrValid, outst,
                       blocked, val, stallVars, mem>>

\* commitLoads and commitStores, when the LSQ learns how far the ROB got.
CommitNotice ==
    LET marked == {sq[i] : i \in {j \in head .. tail :
                                     sq[j] <= retired /\ sq[j] \notin canWB}}
        leaving == {l \in lq : l <= retired}
    IN  /\ marked \cup leaving # {}
        /\ canWB' = canWB \cup marked
        /\ storesToWB' = storesToWB + Cardinality(marked)
        /\ lq' = lq \ leaving
        /\ UNCHANGED <<robVars, executed, nullified, sq, head, tail, wbIt,
                       completed, portVars, inflight, sqIt, addrValid, outst,
                       blocked, val, stallVars, mem>>

-----------------------------------------------------------------------------
(* Write-back *)

\* Variant: the stall ends and the parked loads are not replayed.
UnstallForgets(s) ==
    IF stalled /\ stallStore = s
    THEN /\ stalled' = FALSE
         /\ stallStore' = 0
         /\ UNCHANGED <<replay, stallLoad>>
    ELSE UNCHANGED stallVars

\* Unstall when store s is sent or completes: every load in the memory
\* dependence unit is replayed.
Unstall(s) ==
    IF stalled /\ stallStore = s
    THEN /\ stalled' = FALSE
         /\ stallStore' = 0
         /\ replay' = {}
         /\ UNCHANGED stallLoad
    ELSE UNCHANGED stallVars

\* Where the head moves when the store at position i completes.
NewHead(i) ==
    IF i # head THEN head
    ELSE CHOOSE h \in head + 1 .. tail + 1 :
            /\ \A j \in head + 1 .. h - 1 : sq[j] \in completed
            /\ h <= tail => sq[h] \notin completed

\* Variant: completed stores behind the head are left in the queue.
CompleteOne(i) ==
    /\ completed' = completed \cup {sq[i]}
    /\ storesToWB' = storesToWB - 1
    /\ head' = IF i = head THEN head + 1 ELSE head
    /\ Unstall(sq[i])

\* Variant: the store is taken off the count twice.
CompleteTwice(i) ==
    /\ completed' = completed \cup {sq[i]}
    /\ storesToWB' = storesToWB - 2
    /\ head' = NewHead(i)
    /\ Unstall(sq[i])

\* completeStore.
CompleteStore(i) ==
    /\ completed' = completed \cup {sq[i]}
    /\ storesToWB' = storesToWB - 1
    /\ head' = NewHead(i)
    /\ Unstall(sq[i])

\* Variant: a store may be sent before it is marked.
AtWbItUncommitted(s) == wbIt <= tail /\ sq[wbIt] = s /\ s \in executed

\* The write-back loop and the blocked store look at one entry.
AtWbIt(s) == wbIt <= tail /\ sq[wbIt] = s /\ s \in canWB /\ storesToWB > 0

\* A store with no data completes where it stands.
SkipStore(s) ==
    /\ AtWbIt(s)
    /\ ~storeBlocked
    /\ s \in nullified
    /\ CompleteStore(wbIt)
    /\ wbIt' = wbIt + 1
    /\ UNCHANGED <<robVars, executed, nullified, sq, tail, canWB, portVars,
                   inflight, loadVars, mem>>

\* The cache accepts an ordinary store: storePostSend.
PostSend(s) ==
    /\ op[s] = "st"
    /\ mem' = [w \in Words |-> IF w \in cover[s] THEN s ELSE mem[w]]
    /\ inflight' = inflight \cup {s}
    /\ Unstall(s)
    /\ wbIt' = wbIt + 1
    /\ UNCHANGED <<head, completed, storesToWB>>

\* Variant: after a copy at the head the iterator is advanced, and the
\* queue it points into has already lost its front.
ForceCompleteSkips(s) ==
    /\ op[s] = "cp"
    /\ CompleteStore(wbIt)
    /\ wbIt' = IF head' <= tail THEN head' + 1 ELSE tail + 1
    /\ UNCHANGED <<mem, inflight>>

\* The cache accepts spm.cp: it completes at once.  completeStore may pop
\* it, so the iterator restarts from the new front when it was the front.
ForceComplete(s) ==
    /\ op[s] = "cp"
    /\ CompleteStore(wbIt)
    /\ wbIt' = IF head' > tail THEN tail + 1
               ELSE IF wbIt = head THEN head' ELSE wbIt + 1
    /\ UNCHANGED <<mem, inflight>>

\* writebackStores sends the store under the iterator.
SendStore(s) ==
    /\ AtWbIt(s)
    /\ ~storeBlocked
    /\ s \notin nullified
    /\ ~cacheBlocked
    /\ PostSend(s) \/ ForceComplete(s)
    /\ UNCHANGED <<robVars, executed, nullified, sq, tail, canWB, portVars,
                   loadVars>>

\* ... or it is not sent: the cache is blocked or refuses it (got = TRUE).
BlockStore(s, got) ==
    /\ AtWbIt(s)
    /\ ~storeBlocked
    /\ s \notin nullified
    /\ got = ~cacheBlocked
    /\ storeBlocked' = TRUE
    /\ cacheBlocked' = TRUE
    /\ UNCHANGED <<robVars, executed, nullified, queueVars, inflight,
                   loadVars, stallVars, mem>>

\* writebackBlockedStore: the blocked store is sent, refused once more, or
\* kept back because the cache is blocked or a port is missing.
Resend(s, outcome) ==
    /\ sq[wbIt] = s
    /\ \/ /\ outcome = "sent"
          /\ storeBlocked' = FALSE
          /\ cacheBlocked' = FALSE
          /\ PostSend(s) \/ ForceComplete(s)
          /\ UNCHANGED <<sq, tail, canWB>>
       \/ /\ outcome = "refused"
          /\ cacheBlocked' = TRUE
          /\ UNCHANGED <<storeBlocked, queueVars, inflight, stallVars, mem>>
       \/ /\ outcome = "noPort"
          /\ cacheBlocked' = FALSE
          /\ UNCHANGED <<storeBlocked, queueVars, inflight, stallVars, mem>>

\* writebackStores starts with the blocked store.
RetryStore(s, outcome) ==
    /\ storeBlocked
    /\ ~cacheBlocked
    /\ outcome # "noPort"
    /\ Resend(s, outcome)
    /\ UNCHANGED <<robVars, executed, nullified, loadVars>>

\* LSQ::recvReqRetry: blocked loads are issued again, the cache counts as
\* free, and a blocked store is sent again at once.
RecvRetry(s, outcome) ==
    /\ cacheBlocked
    /\ blocked' = {}
    /\ storeBlocked
    /\ Resend(s, outcome)
    /\ UNCHANGED <<robVars, executed, nullified, lq, sqIt, addrValid, outst,
                   val>>

RecvRetryNoStore ==
    /\ cacheBlocked
    /\ blocked' = {}
    /\ ~storeBlocked
    /\ cacheBlocked' = FALSE
    /\ UNCHANGED <<robVars, executed, nullified, storeBlocked, queueVars,
                   inflight, stallVars, mem, lq, sqIt, addrValid, outst, val>>

\* The answer to an ordinary store: completeStore at its position.
StoreResp(s) ==
    /\ s \in inflight
    /\ \E i \in head .. tail : sq[i] = s /\ CompleteStore(i)
    /\ inflight' = inflight \ {s}
    /\ UNCHANGED <<robVars, executed, nullified, sq, tail, wbIt, canWB,
                   portVars, loadVars, mem>>

-----------------------------------------------------------------------------
(* The specification *)

Init ==
    /\ next = 1
    /\ op = [n \in SeqNum |-> "ld"]
    /\ cover = [n \in SeqNum |-> {}]
    /\ live = {} /\ executed = {} /\ nullified = {}
    /\ retired = 0
    /\ lq = {}
    /\ sq = [i \in SeqNum |-> 0]
    /\ head = 1 /\ tail = 0 /\ wbIt = 1
    /\ canWB = {} /\ completed = {}
    /\ storesToWB = 0
    /\ storeBlocked = FALSE /\ cacheBlocked = FALSE
    /\ inflight = {}
    /\ sqIt = [n \in SeqNum |-> 0]
    /\ addrValid = {} /\ outst = {} /\ blocked = {} /\ replay = {}
    /\ stalled = FALSE /\ stallStore = 0 /\ stallLoad = 0
    /\ val = [n \in SeqNum |-> <<>>]
    /\ mem = [w \in Words |-> 0]
    /\ last = [seq |-> 0, kind |-> "none", words |-> {}, read |-> <<>>]

Next ==
    \/ Dispatch
    \/ Squash
    \/ CommitNotice
    \/ TickUnblock
    \/ RecvRetryNoStore
    \/ \E n \in SeqNum :
          \/ ExecuteStore(n) \/ NullifyStore(n)
          \/ ForwardLoad(n) \/ StallLoad(n) \/ SendLoad(n)
          \/ BlockLoad(n, TRUE) \/ BlockLoad(n, FALSE)
          \/ LoadResp(n)
          \/ Retire(n)
          \/ SkipStore(n) \/ SendStore(n) \/ StoreResp(n)
          \/ BlockStore(n, TRUE) \/ BlockStore(n, FALSE)
          \/ RetryStore(n, "sent") \/ RetryStore(n, "refused")
          \/ RecvRetry(n, "sent") \/ RecvRetry(n, "refused")
          \/ RecvRetry(n, "noPort")

Spec == Init /\ [][Next]_vars

(***************************************************************************)
(* Fairness: every stage runs each cycle and the cache answers what it     *)
(* accepted (weak fairness); a load or store that is tried again and again *)
(* is not refused for ever, since the cache sends its retry only once it   *)
(* has room and the ports are freed each cycle (strong fairness).          *)
(* Dispatch, squashes and refusals need not happen.                        *)
(***************************************************************************)
IssueLoad(l) == ForwardLoad(l) \/ StallLoad(l) \/ SendLoad(l)
IssueStore(s) ==
    SendStore(s) \/ RetryStore(s, "sent") \/ RecvRetry(s, "sent")

Fairness ==
    /\ WF_vars(CommitNotice)
    /\ WF_vars(TickUnblock)
    /\ WF_vars(RecvRetryNoStore)
    /\ \A n \in SeqNum :
          /\ WF_vars(ExecuteStore(n))
          /\ WF_vars(LoadResp(n)) /\ WF_vars(StoreResp(n))
          /\ WF_vars(Retire(n))
          /\ WF_vars(SkipStore(n))
          /\ SF_vars(IssueLoad(n)) /\ SF_vars(IssueStore(n))

FairSpec == Spec /\ Fairness

-----------------------------------------------------------------------------
(* Properties *)

RobType ==
    /\ next \in 1 .. MaxSeq + 1
    /\ op \in [SeqNum -> {"st", "cp", "ld"}]
    /\ cover \in [SeqNum -> SUBSET Words]
    /\ live \in SUBSET (1 .. next - 1)
    /\ executed \subseteq live
    /\ nullified \subseteq executed
    /\ retired \in 0 .. MaxSeq

QueueType ==
    /\ sq \in [SeqNum -> 0 .. MaxSeq]
    /\ head \in 1 .. MaxSeq + 1
    /\ tail \in 0 .. MaxSeq
    /\ wbIt \in 1 .. MaxSeq + 1
    /\ canWB \subseteq live
    /\ completed \subseteq canWB
    /\ inflight \subseteq canWB
    /\ storesToWB \in 0 .. MaxSeq
    /\ storeBlocked \in BOOLEAN /\ cacheBlocked \in BOOLEAN
    /\ mem \in [Words -> 0 .. MaxSeq]

LoadType ==
    /\ lq \subseteq live
    /\ sqIt \in [SeqNum -> 0 .. MaxSeq + 1]
    /\ addrValid \cup outst \cup blocked \cup replay \subseteq live
    /\ stalled \in BOOLEAN
    /\ stallStore \in 0 .. MaxSeq /\ stallLoad \in 0 .. MaxSeq

\* The types of the queue's state; the counter storesToWB never goes below zero,
\* which writebackStores asserts.
TypeOK == RobType /\ QueueType /\ LoadType

Queue == {sq[i] : i \in head .. tail}

\* storeWBIt is exactly the border between the stores that were handed to
\* the cache and those that were not, wherever completeStore, the forced
\* completion of a copy and squash move the ends of the queue.
IteratorAtBorder ==
    /\ head <= wbIt /\ wbIt <= tail + 1
    /\ \A i \in head .. tail :
          (i < wbIt) <=> sq[i] \in inflight \cup completed
    /\ storeBlocked => wbIt <= tail /\ sq[wbIt] \in canWB \ nullified

ToWriteBack == {n \in Queue : n \in canWB /\ n \notin completed}

\* storesToWB counts the stores that may be written back and have not
\* completed: the loop of writebackStores and the barrier rely on it.
CountExact == storesToWB = Cardinality(ToWriteBack)

\* Completed stores do not linger at the front of the queue, and every
\* store that has been sent is still in the queue until it completes.
HeadIsLive ==
    /\ head <= tail => sq[head] \notin completed
    /\ inflight \subseteq Queue

\* assert(store_it >= storeWBIt) in LSQUnit::read: no store younger than a
\* load that has yet to issue has been sent.
ScanStartsInRange ==
    \A l \in Inst({"ld"}) : l > retired => wbIt <= sqIt[l] /\ sqIt[l] <= tail + 1

\* A load parked on a partial match is woken: while any load waits in the
\* memory dependence unit, a stall is recorded for a load in the queue and
\* for a store that is still to be sent.
StallHasWaker ==
    replay # {} =>
        /\ stalled
        /\ stallLoad \in replay
        /\ \E i \in wbIt .. tail : sq[i] = stallStore /\ stallStore < stallLoad

\* The stores that write word w and precede instruction n.
WritersBefore(n, w) ==
    {s \in Inst({"st"}) \ nullified : s < n /\ w \in cover[s]}

\* v is the youngest of the stores S, or the reset value when there is none.
Youngest(v, S) ==
    IF S = {} THEN v = 0 ELSE v \in S /\ \A s \in S : s <= v

\* A retiring load returns, word by word, the youngest store before it in
\* program order: forwarding, stalls, violations and the cache agree.
RetiredLoadCorrect ==
    retired \in Inst({"ld"}) =>
        \A w \in cover[retired] :
            Youngest(val[retired][w], WritersBefore(retired, w))

\* What program order has made of memory: the retired stores still in the
\* queue, over what the cache has performed.
PendingWriters(w) ==
    {i \in wbIt .. tail :
        /\ sq[i] <= retired
        /\ sq[i] \notin nullified
        /\ op[sq[i]] = "st"
        /\ w \in cover[sq[i]]}

OrderedMemory ==
    [w \in Words |->
        IF PendingWriters(w) = {} THEN mem[w]
        ELSE sq[CHOOSE i \in PendingWriters(w) :
                    \A j \in PendingWriters(w) : j <= i]]

InOrder == INSTANCE InOrderMemory WITH memory <- OrderedMemory, last <- last

\* The queue implements a memory on which instructions take effect in
\* program order when they retire.
ImplementsInOrderMemory == InOrder!Spec

\* Every store that retires is written back and leaves the queue, whatever
\* the cache refuses and whichever copies complete before it.
StoresDrain == \A n \in SeqNum : (n \in canWB) ~> (n \notin Queue)

\* A load that was parked, blocked or sent gets its data unless a squash
\* removes it: no stall, refusal or retry loses it.
LoadsFinish ==
    \A n \in SeqNum :
        (n \in live /\ op[n] = "ld") ~> (n \in executed \/ n \notin live)

-----------------------------------------------------------------------------
(***************************************************************************)
(* The inductive invariant behind the safety properties.  Positions are    *)
(* absolute, so 1 .. tail is every store that was ever inserted and not    *)
(* squashed, the ones that have left at the head included.                 *)
(***************************************************************************)

\* What has retired has executed, and only stores have a false predicate.
RobOrder ==
    /\ retired \in live \cup {0}
    /\ \A n \in live : n <= retired => n \in executed
    /\ nullified \subseteq Inst({"st"})

\* The queue holds the stores in program order, and all of them.
QueueOrder ==
    /\ \A i \in 1 .. tail : sq[i] \in Inst(StoreOps) /\ i <= sq[i]
    /\ \A i, j \in 1 .. tail : i < j => sq[i] < sq[j]
    /\ \A n \in Inst(StoreOps) : \E i \in 1 .. tail : sq[i] = n

\* Only retired stores are handed to the cache, in the order of the queue.
WrittenBack ==
    /\ \A n \in canWB : n <= retired
    /\ \A i \in 1 .. wbIt - 1 : sq[i] \in canWB
    /\ inflight \cap completed = {}

\* The iterator a load was inserted with splits the queue at its age, and
\* checkViolations can see every load that may hold data too early.
LoadOrder ==
    /\ lq \cup addrValid \cup outst \cup blocked \cup replay \subseteq Inst({"ld"})
    /\ \A l \in Inst({"ld"}) :
          /\ sqIt[l] \in 1 .. tail + 1
          /\ \A i \in 1 .. tail : (i < sqIt[l]) <=> (sq[i] < l)
          /\ l > retired => l \in lq
          /\ l \in executed \cup outst => l \in addrValid

\* The stall is recorded exactly while loads are parked, for the oldest one.
StallOldest ==
    /\ stalled <=> replay # {}
    /\ stalled =>
          /\ stallLoad \in replay
          /\ \A l \in replay : stallLoad <= l
          /\ stallStore < stallLoad
          /\ \E i \in wbIt .. tail : sq[i] = stallStore

IInv ==
    /\ TypeOK /\ RobOrder /\ QueueOrder /\ WrittenBack
    /\ IteratorAtBorder /\ HeadIsLive /\ CountExact
    /\ LoadOrder /\ StallOldest

\* The stores to w before load l that have their data.
ReadyWriters(l, w) ==
    {s \in Inst({"st"}) : s \in executed \ nullified /\ s < l /\ w \in cover[s]}

\* The stores to w that have been handed to the cache.
SentWriters(w) ==
    {s \in Inst({"st"}) :
        /\ s \notin nullified
        /\ w \in cover[s]
        /\ \E i \in 1 .. wbIt - 1 : sq[i] = s}

\* Copies and loads name the words their kind may name.
CoversKnown ==
    \A n \in live :
        /\ op[n] = "cp" => cover[n] \in CopyCovers
        /\ op[n] = "ld" => cover[n] \in LoadCovers

\* The cache holds the youngest store that was sent to it.
CacheCurrent == \A w \in Words : Youngest(mem[w], SentWriters(w))

\* A load that has been given its data, and not been squashed since, holds
\* the youngest store before it among those that have their data by now.
LoadsCurrent ==
    /\ DOMAIN val = SeqNum
    /\ \A l \in Inst({"ld"}) :
          l \in executed \cup outst =>
              /\ val[l] = [w \in cover[l] |-> val[l][w]]
              /\ \A w \in cover[l] : Youngest(val[l][w], ReadyWriters(l, w))

VInv == CoversKnown /\ CacheCurrent /\ LoadsCurrent /\ last.seq = retired

\* No spm.cp or spm.wb names every word of a load: the store queue would
\* forward the scratchpad address such a copy carries as its datum.
NoCopyCovers == \A c \in CopyCovers, l \in LoadCovers : ~(l \subseteq c)
=============================================================================
