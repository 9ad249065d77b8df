------------------------------- MODULE SpmLsq -------------------------------
(***************************************************************************)
(* The scratchpad (SPM) side of the out-of-order load/store queue: the     *)
(* shadow table that orders spm.ld after spm.cp / spm.wb, the pending-load *)
(* table that orders spm.cp after spm.ld, the instruction-queue lists that *)
(* re-issue loads, in-order commit, write-back from the two store queues   *)
(* and squash (cpu/o3/lsq.cc, lsq_unit.cc, iew.cc, inst_queue.cc,          *)
(* mem_dep_unit.cc, commit.cc).                                            *)
(*                                                                         *)
(* An instruction is its sequence number.  A scratchpad address is the set *)
(* of (way, slot) lines it covers, and the datum held by a line is the     *)
(* sequence number of the instruction that wrote it (0 at reset).  The L2  *)
(* is abstracted to what the LSQ sees: it performs copies in any order.    *)
(***************************************************************************)
EXTENDS Naturals, FiniteSets

CONSTANTS
    Lines,        \* scratchpad lines: (way, slot) pairs
    MaxSeq,       \* bound on the sequence numbers handed out
    LQEntries,    \* entries of the SPM load queue
    SQEntries,    \* entries of each of the two store queues
    PendingSize,  \* entries of spmPendingLoadTable
    Kinds,        \* kinds of instruction the program may contain
    Env           \* behaviours of the surroundings that are allowed

ASSUME SizeAssumption ==
    /\ MaxSeq \in Nat
    /\ LQEntries \in Nat
    /\ SQEntries \in Nat
    /\ PendingSize \in Nat

ASSUME KindAssumption == Kinds \subseteq {"cp", "wb", "ld", "st", "dsb"}

(***************************************************************************)
(* Env:  "lateAddr"   a load may issue while an older spm.cp / spm.wb has  *)
(*                    not computed its address                             *)
(*       "backToBack" a second acknowledgement may reach a load before it  *)
(*                    re-executes for the first                            *)
(*       "fault"      the memory operand of spm.cp / spm.wb may page-fault *)
(*       "refuse"     a port may be busy or the L2 may refuse a load       *)
(*       "squash"     a branch may turn out mispredicted                   *)
(*       "anyProgram" the program need not read a line between two copies  *)
(***************************************************************************)
ASSUME EnvAssumption ==
    Env \subseteq {"lateAddr", "backToBack", "fault", "refuse", "squash",
                   "anyProgram"}

VARIABLES
    next,      \* next sequence number to dispatch
    op,        \* op[n]: kind of instruction n
    rng,       \* rng[n]: scratchpad lines n reads or writes
    live,      \* dispatched and not squashed
    executed,  \* DynInst::isExecuted
    faulted,   \* executed with a fault to be taken at commit
    committed, \* retired from the ROB; in a store queue: canWB
    ready,     \* ready[n]: copies of n in the IQ ready list
    blocked,   \* blocked[n]: copies of n in blockedMemInsts
    replay,    \* replay[n]: copies of n in instsToReplay
    shadow,    \* keys of spmShadowTable
    addrValid, \* shadow entries whose spmAddr is known
    waiting,   \* waiting[n]: waitingLoads of shadow entry n
    pending,   \* valid entries of spmPendingLoadTable
    outst,     \* loads whose SPMLoadReq has not been answered
    sent,      \* copies and stores handed to the memory system
    done,      \* copies and stores performed by the L2
    acked,     \* response received; for copies: SpmShadowEntry::ready
    content,   \* content[l]: writer of the datum in line l of the L2
    val,       \* val[n][l]: datum load or write-back n took from line l
    aborted    \* an assertion of the simulator has failed

iqVars  == <<ready, blocked, replay>>
robVars == <<executed, faulted, committed>>
tabVars == <<shadow, addrValid, waiting, pending>>
memVars == <<sent, done, acked, content>>
vars == <<next, op, rng, live, robVars, iqVars, tabVars, outst, memVars,
          val, aborted>>

SeqNum == 1 .. MaxSeq

\* CP_TO_SPM and SPM_WRITEBACK: main store queue plus a shadow entry.
Copy == {"cp", "wb"}

Inst(K) == {n \in live : op[n] \in K}

-----------------------------------------------------------------------------
(* Queues and tables *)

\* The SPM load queue, and the two store queues.  A copy leaves the main
\* store queue when it is sent, a store leaves the SPM one when answered.
LoadQueue == Inst({"ld"}) \ committed
MainSQ    == Inst(Copy) \ sent
SpmSQ     == Inst({"st"}) \ acked

LsqFull(k) ==
    \/ k = "ld" /\ Cardinality(LoadQueue) >= LQEntries
    \/ k \in {"st"} \cup Copy /\ Cardinality(SpmSQ) >= SQEntries
    \/ k \in Copy /\ Cardinality(MainSQ) >= SQEntries

\* LSQ::hasStoresToWB looks at the main unit only.
StoresToWB == MainSQ \cap committed

\* The entries cleanupRetiredShadow erases (`retired` is never set).
Retired == {e \in shadow : e \in acked /\ waiting[e] = {}}

\* Variant: only spm.cp entries hold a load back, spm.wb entries are skipped.
UnackedCopiesOnly(n) ==
    {e \in shadow : e < n /\ e \notin acked /\ op[e] = "cp"}

\* Older shadow entries not yet acknowledged, as LSQUnit::read scans them.
Unacked(n)    == {e \in shadow : e < n /\ e \notin acked}
Unresolved(n) == Unacked(n) \ addrValid

\* Variant: an entry the load already waits for does not block it again.
OverlappingOnlyNew(n) ==
    {e \in Unacked(n) \cap addrValid :
        rng[e] \cap rng[n] # {} /\ n \notin waiting[e]}

Overlapping(n) ==
    {e \in Unacked(n) \cap addrValid : rng[e] \cap rng[n] # {}}

\* Variant: the scans do not compare sequence numbers.
WarConflictAnyAge(c) ==
    \/ \E n \in pending : rng[n] \cap rng[c] # {}
    \/ \E n \in LoadQueue : n \notin executed \cup pending

\* The two WAR scans of writebackStores: (A) tracked loads, by address,
\* (B) untracked loads that have not executed; their address is not known.
WarConflict(c) ==
    \/ \E n \in pending : n < c /\ rng[n] \cap rng[c] # {}
    \/ \E n \in LoadQueue : n < c /\ n \notin executed \cup pending

\* ROB head.
Head(n) ==
    /\ n \in live \ committed
    /\ \A m \in live : m < n => m \in committed

\* Variant: an instruction issues without being in the ready list.
CanIssueUnlisted(n) ==
    /\ n \in live
    /\ \A b \in Inst({"dsb"}) : b < n => b \in committed

\* MemDepUnit: a memory reference waits for every older barrier.
CanIssue(n) ==
    /\ n \in live
    /\ ready[n] > 0
    /\ \A b \in Inst({"dsb"}) : b < n => b \in committed

-----------------------------------------------------------------------------
(* Programs *)

\* What an instruction may address: copies one line, loads and stores any
\* number of ways (none when every predicate lane is false).
Shape(k, ls) ==
    /\ k \in Copy => Cardinality(ls) = 1
    /\ k = "dsb" => ls = {}

\* The software discipline of the kernels: a copy or a store touches a line
\* only if the line is fresh or was last touched by a load, and no load
\* follows a store to its line.
Disciplined(k, ls) ==
    \A l \in ls : \A m \in live :
        /\ l \in rng[m]
        /\ \A j \in live : j > m => l \notin rng[j]
        => \/ op[m] = "ld"
           \/ k = "ld" /\ op[m] \in Copy

-----------------------------------------------------------------------------
Init ==
    /\ next = 1
    /\ op = [n \in SeqNum |-> "none"]
    /\ rng = [n \in SeqNum |-> {}]
    /\ live = {} /\ executed = {} /\ faulted = {} /\ committed = {}
    /\ ready = [n \in SeqNum |-> 0]
    /\ blocked = [n \in SeqNum |-> 0]
    /\ replay = [n \in SeqNum |-> 0]
    /\ shadow = {} /\ addrValid = {}
    /\ waiting = [n \in SeqNum |-> {}]
    /\ pending = {} /\ outst = {}
    /\ sent = {} /\ done = {} /\ acked = {}
    /\ content = [l \in Lines |-> 0]
    /\ val = [n \in SeqNum |-> [l \in Lines |-> 0]]
    /\ aborted = FALSE

\* IEW dispatch: room in the queues, insertion in the LSQ and in the IQ (a
\* barrier waits for commit instead); a copy reserves its shadow entry.
Dispatch(k, ls) ==
    /\ next <= MaxSeq
    /\ ~LsqFull(k)
    /\ Shape(k, ls)
    /\ "anyProgram" \in Env \/ Disciplined(k, ls)
    /\ next' = next + 1
    /\ op' = [op EXCEPT ![next] = k]
    /\ rng' = [rng EXCEPT ![next] = ls]
    /\ live' = live \cup {next}
    /\ ready' = [ready EXCEPT ![next] = IF k = "dsb" THEN 0 ELSE 1]
    /\ shadow' = IF k \in Copy THEN (shadow \ Retired) \cup {next} ELSE shadow
    /\ UNCHANGED <<robVars, blocked, replay, addrValid, waiting, pending,
                   outst, memVars, val, aborted>>

\* executeStore of spm.cp / spm.wb; LSQ::write records the SPM address.
ExecuteCopy(n) ==
    /\ CanIssue(n) /\ op[n] \in Copy
    /\ ready' = [ready EXCEPT ![n] = @ - 1]
    /\ executed' = executed \cup {n}
    /\ shadow' = shadow \ Retired
    /\ addrValid' = addrValid \cup {n}
    /\ UNCHANGED <<next, op, rng, live, faulted, committed, blocked, replay,
                   waiting, pending, outst, memVars, val, aborted>>

\* The memory operand page-faults: the address is never recorded.
FaultCopy(n) ==
    /\ "fault" \in Env
    /\ CanIssue(n) /\ op[n] \in Copy
    /\ ready' = [ready EXCEPT ![n] = @ - 1]
    /\ executed' = executed \cup {n}
    /\ faulted' = faulted \cup {n}
    /\ UNCHANGED <<next, op, rng, live, committed, blocked, replay, tabVars,
                   outst, memVars, val, aborted>>

\* executeStore of spm.st: only the store queue learns the data.
ExecuteStore(n) ==
    /\ CanIssue(n) /\ op[n] = "st"
    /\ ready' = [ready EXCEPT ![n] = @ - 1]
    /\ executed' = executed \cup {n}
    /\ UNCHANGED <<next, op, rng, live, faulted, committed, blocked, replay,
                   tabVars, outst, memVars, val, aborted>>

-----------------------------------------------------------------------------
(* LSQUnit::read, one action per way out of it *)

\* What every execution of a load that reaches the tables does first.
ReadLoad(n) ==
    /\ CanIssue(n) /\ op[n] = "ld" /\ rng[n] # {}
    /\ n \notin executed \cup outst
    /\ "lateAddr" \in Env \/ Unresolved(n) = {}
    /\ ready' = [ready EXCEPT ![n] = @ - 1]
    /\ shadow' = shadow \ Retired
    /\ pending' = pending \cup {n}
    /\ UNCHANGED <<next, op, rng, live, robVars, addrValid, memVars, aborted>>

\* An older copy to one of its lines is in flight: park in waitingLoads.
ParkLoad(n) ==
    /\ ReadLoad(n)
    /\ Overlapping(n) # {}
    /\ waiting' = [e \in SeqNum |-> IF e \in Overlapping(n)
                                    THEN waiting[e] \cup {n} ELSE waiting[e]]
    /\ UNCHANGED <<blocked, replay, outst, val>>

\* An older copy has no address yet: rescheduleMemInst.
DeferLoad(n) ==
    /\ ReadLoad(n)
    /\ Overlapping(n) = {} /\ Unresolved(n) # {}
    /\ replay' = [replay EXCEPT ![n] = @ + 1]
    /\ UNCHANGED <<blocked, waiting, outst, val>>

\* The L2 reads the slots within the call that hands it the packet.
SendLoad(n) ==
    /\ ReadLoad(n)
    /\ Overlapping(n) = {} /\ Unresolved(n) = {}
    /\ outst' = outst \cup {n}
    /\ val' = [val EXCEPT ![n] =
                  [l \in Lines |-> IF l \in rng[n] THEN content[l] ELSE 0]]
    /\ UNCHANGED <<blocked, replay, waiting>>

\* No port this cycle, or the L2 is blocked: blockMemInst.
RefuseLoad(n) ==
    /\ "refuse" \in Env
    /\ ReadLoad(n)
    /\ Overlapping(n) = {} /\ Unresolved(n) = {}
    /\ blocked' = [blocked EXCEPT ![n] = @ + 1]
    /\ UNCHANGED <<replay, waiting, outst, val>>

\* assert(!isExecuted()) in read, assert(_numOutstandingPackets == 0) in
\* sendPacketToCache: the load was issued although it is already on its way.
AbortLoad(n) ==
    /\ CanIssue(n) /\ op[n] = "ld" /\ rng[n] # {}
    /\ n \in executed \cup outst
    /\ aborted' = TRUE
    /\ UNCHANGED <<next, op, rng, live, robVars, iqVars, tabVars, outst,
                   memVars, val>>

\* Every lane predicated off: executed without an access.
SkipLoad(n) ==
    /\ CanIssue(n) /\ op[n] = "ld" /\ rng[n] = {}
    /\ ready' = [ready EXCEPT ![n] = @ - 1]
    /\ executed' = executed \cup {n}
    /\ UNCHANGED <<next, op, rng, live, faulted, committed, blocked, replay,
                   tabVars, outst, memVars, val, aborted>>

\* Variant: the pending-load entry is not cleared.
LoadRespKeepsPending(n) ==
    /\ n \in outst /\ op[n] = "ld"
    /\ outst' = outst \ {n}
    /\ executed' = executed \cup ({n} \cap live)
    /\ UNCHANGED <<next, op, rng, live, faulted, committed, iqVars, tabVars,
                   memVars, val, aborted>>

\* SPM_LDST_resp of a load; a squashed load's answer is dropped.
LoadResp(n) ==
    /\ n \in outst /\ op[n] = "ld"
    /\ outst' = outst \ {n}
    /\ pending' = pending \ {n}
    /\ executed' = executed \cup ({n} \cap live)
    /\ UNCHANGED <<next, op, rng, live, faulted, committed, iqVars, shadow,
                   addrValid, waiting, memVars, val, aborted>>

-----------------------------------------------------------------------------
(* Re-issue *)

\* MemDepUnit::replay, called when a store of the main unit that stalled a
\* load completes or a strictly ordered load reaches commit: drains the list.
ReplayAll ==
    /\ \E n \in SeqNum : replay[n] > 0
    /\ ready' = [n \in SeqNum |-> ready[n] + replay[n]]
    /\ replay' = [n \in SeqNum |-> 0]
    /\ UNCHANGED <<next, op, rng, live, robVars, blocked, tabVars, outst,
                   memVars, val, aborted>>

\* InstructionQueue::cacheUnblocked, from LSQ::tick or a port retry.
CacheUnblocked ==
    /\ \E n \in SeqNum : blocked[n] > 0
    /\ ready' = [n \in SeqNum |-> ready[n] + blocked[n]]
    /\ blocked' = [n \in SeqNum |-> 0]
    /\ UNCHANGED <<next, op, rng, live, robVars, replay, tabVars, outst,
                   memVars, val, aborted>>

-----------------------------------------------------------------------------
(* Commit and squash *)

Commit(n) ==
    /\ Head(n)
    /\ n \in executed \ faulted
    /\ committed' = committed \cup {n}
    /\ UNCHANGED <<next, op, rng, live, executed, faulted, iqVars, tabVars,
                   outst, memVars, val, aborted>>

\* A barrier executes at the ROB head once the main unit has written back.
CommitBarrier(n) ==
    /\ Head(n) /\ op[n] = "dsb"
    /\ StoresToWB = {}
    /\ executed' = executed \cup {n}
    /\ committed' = committed \cup {n}
    /\ UNCHANGED <<next, op, rng, live, faulted, iqVars, tabVars, outst,
                   memVars, val, aborted>>

\* Variant: the pending-load table is left alone.
SquashKeepsPending(k) ==
    LET gone == {m \in live : m >= k} IN
    /\ live' = live \ gone
    /\ ready' = [n \in SeqNum |-> IF n \in gone THEN 0 ELSE ready[n]]
    /\ blocked' = [n \in SeqNum |-> IF n \in gone THEN 0 ELSE blocked[n]]
    /\ replay' = [n \in SeqNum |-> IF n \in gone THEN 0 ELSE replay[n]]
    /\ shadow' = shadow \ gone
    /\ UNCHANGED <<next, op, rng, robVars, addrValid, waiting, pending, outst,
                   memVars, val, aborted>>

\* LSQ::squash of both units and of the IQ: everything from k on goes.
SquashFrom(k) ==
    LET gone == {m \in live : m >= k} IN
    /\ live' = live \ gone
    /\ ready' = [n \in SeqNum |-> IF n \in gone THEN 0 ELSE ready[n]]
    /\ blocked' = [n \in SeqNum |-> IF n \in gone THEN 0 ELSE blocked[n]]
    /\ replay' = [n \in SeqNum |-> IF n \in gone THEN 0 ELSE replay[n]]
    /\ shadow' = shadow \ gone
    /\ pending' = pending \ gone
    /\ UNCHANGED <<next, op, rng, robVars, addrValid, waiting, outst,
                   memVars, val, aborted>>

\* A branch between k-1 and k was mispredicted.
Squash(k) ==
    /\ "squash" \in Env
    /\ k \in live
    /\ \A m \in committed : m < k
    /\ SquashFrom(k)

\* A faulting ROB head traps once the main unit has written back.
Trap(n) ==
    /\ Head(n) /\ n \in faulted
    /\ StoresToWB = {}
    /\ SquashFrom(n)

-----------------------------------------------------------------------------
(* Write-back and the memory system *)

\* Variant: the shadow entry becomes ready when the copy is sent.
SendCopyMarksReady(n) ==
    /\ n \in MainSQ \cap committed
    /\ \A m \in MainSQ : m >= n
    /\ sent' = sent \cup {n}
    /\ acked' = acked \cup {n}
    /\ ready' = [m \in SeqNum |-> IF m \in waiting[n] \cap live
                                  THEN ready[m] + 1 ELSE ready[m]]
    /\ waiting' = [waiting EXCEPT ![n] = {}]
    /\ UNCHANGED <<next, op, rng, live, robVars, blocked, replay, shadow,
                   addrValid, pending, outst, done, content, val, aborted>>

\* writebackStores of the main unit; a copy completes when it is sent.
SendCopy(n) ==
    /\ n \in MainSQ \cap committed
    /\ \A m \in MainSQ : m >= n
    /\ op[n] = "cp" => ~WarConflict(n)
    /\ sent' = sent \cup {n}
    /\ UNCHANGED <<next, op, rng, live, robVars, iqVars, tabVars, outst,
                   done, acked, content, val, aborted>>

\* The L2 moves the data: into the slot for cp, out of it for wb.
CopyDone(n) ==
    /\ n \in sent \ done /\ op[n] \in Copy
    /\ done' = done \cup {n}
    /\ IF op[n] = "cp"
         THEN /\ content' = [l \in Lines |-> IF l \in rng[n] THEN n
                                                             ELSE content[l]]
              /\ val' = val
         ELSE /\ content' = content
              /\ val' = [val EXCEPT ![n] =
                    [l \in Lines |-> IF l \in rng[n] THEN content[l] ELSE 0]]
    /\ UNCHANGED <<next, op, rng, live, robVars, iqVars, tabVars, outst,
                   sent, acked, aborted>>

\* Variant: only the oldest waiting load is woken.
CopyAckWakesOldest(n) ==
    /\ n \in done \ acked /\ op[n] \in Copy
    /\ acked' = acked \cup {n}
    /\ ready' = [m \in SeqNum |-> IF /\ m \in waiting[n] \cap live
                                     /\ \A j \in waiting[n] \cap live : m <= j
                                  THEN ready[m] + 1 ELSE ready[m]]
    /\ waiting' = [waiting EXCEPT ![n] = {}]
    /\ UNCHANGED <<next, op, rng, live, robVars, blocked, replay, shadow,
                   addrValid, pending, outst, sent, done, content, val,
                   aborted>>

\* Variant: waiting loads go to instsToReplay, as rescheduleMemInst would do.
CopyAckReschedules(n) ==
    /\ n \in done \ acked /\ op[n] \in Copy
    /\ acked' = acked \cup {n}
    /\ replay' = [m \in SeqNum |-> IF m \in waiting[n] \cap live
                                   THEN replay[m] + 1 ELSE replay[m]]
    /\ waiting' = [waiting EXCEPT ![n] = {}]
    /\ UNCHANGED <<next, op, rng, live, robVars, ready, blocked, shadow,
                   addrValid, pending, outst, sent, done, content, val,
                   aborted>>

\* SPMresp: mark the shadow entry ready and wake its waiting loads.
CopyAck(n) ==
    /\ n \in done \ acked /\ op[n] \in Copy
    /\ "backToBack" \in Env \/ \A m \in waiting[n] \cap live : ready[m] = 0
    /\ acked' = acked \cup {n}
    /\ ready' = [m \in SeqNum |-> IF n \in shadow /\ m \in waiting[n] \cap live
                                  THEN ready[m] + 1 ELSE ready[m]]
    /\ waiting' = [waiting EXCEPT ![n] = IF n \in shadow THEN {} ELSE @]
    /\ UNCHANGED <<next, op, rng, live, robVars, blocked, replay, shadow,
                   addrValid, pending, outst, sent, done, content, val,
                   aborted>>

\* writebackStores of the SPM unit: no hold, and the L2 writes the slots
\* within the call.  A store with every lane off completes without a packet.
SendStore(n) ==
    /\ n \in (SpmSQ \cap committed) \ sent
    /\ \A m \in SpmSQ \ sent : m >= n
    /\ sent' = sent \cup {n}
    /\ done' = done \cup {n}
    /\ acked' = IF rng[n] = {} THEN acked \cup {n} ELSE acked
    /\ content' = [l \in Lines |-> IF l \in rng[n] THEN n ELSE content[l]]
    /\ UNCHANGED <<next, op, rng, live, robVars, iqVars, tabVars, outst, val,
                   aborted>>

\* SPM_LDST_resp of a store: completeStore.
StoreResp(n) ==
    /\ n \in done \ acked /\ op[n] = "st"
    /\ acked' = acked \cup {n}
    /\ UNCHANGED <<next, op, rng, live, robVars, iqVars, tabVars, outst, sent,
                   done, content, val, aborted>>

-----------------------------------------------------------------------------
Step ==
    \/ \E k \in Kinds, ls \in SUBSET Lines : Dispatch(k, ls)
    \/ \E n \in SeqNum :
        \/ ExecuteCopy(n) \/ FaultCopy(n) \/ ExecuteStore(n)
        \/ ParkLoad(n) \/ DeferLoad(n) \/ SendLoad(n) \/ RefuseLoad(n)
        \/ AbortLoad(n) \/ SkipLoad(n) \/ LoadResp(n)
        \/ Commit(n) \/ CommitBarrier(n) \/ Squash(n) \/ Trap(n)
        \/ SendCopy(n) \/ CopyDone(n) \/ CopyAck(n)
        \/ SendStore(n) \/ StoreResp(n)
    \/ ReplayAll
    \/ CacheUnblocked

\* A failed assertion stops the simulator.
Next == ~aborted /\ Step

Spec == Init /\ [][Next]_vars

(***************************************************************************)
(* Fairness.  The CPU ticks until it has nothing left to do: each tick     *)
(* issues what is ready, commits the head, writes back and frees the       *)
(* ports; the memory system answers every request.  A load refused again   *)
(* and again is accepted in the end because the ports are reset each tick. *)
(* Nothing guarantees ReplayAll, Squash, or further instructions.          *)
(***************************************************************************)
IssueLoad(n) == ParkLoad(n) \/ DeferLoad(n) \/ SendLoad(n) \/ SkipLoad(n)

Tick(n) ==
    ~aborted /\ (ExecuteCopy(n) \/ FaultCopy(n) \/ ExecuteStore(n) \/ IssueLoad(n))

Retire(n) == ~aborted /\ (Commit(n) \/ CommitBarrier(n) \/ Trap(n))

WriteBack(n) == ~aborted /\ (SendCopy(n) \/ SendStore(n))

Answer(n) ==
    ~aborted /\ (CopyDone(n) \/ CopyAck(n) \/ StoreResp(n) \/ LoadResp(n))

Fairness ==
    /\ \A n \in SeqNum :
        /\ WF_vars(Tick(n))
        /\ SF_vars(~aborted /\ SendLoad(n))
        /\ WF_vars(Retire(n))
        /\ WF_vars(WriteBack(n))
        /\ WF_vars(Answer(n))
    /\ WF_vars(~aborted /\ CacheUnblocked)

FairSpec == Spec /\ Fairness

-----------------------------------------------------------------------------
(* Properties *)

Data == {0} \cup SeqNum

ProgType ==
    /\ next \in 1 .. MaxSeq + 1
    /\ op \in [SeqNum -> Kinds \cup {"none"}]
    /\ rng \in [SeqNum -> SUBSET Lines]
    /\ live \subseteq SeqNum

RobType ==
    executed \subseteq SeqNum /\ faulted \subseteq SeqNum /\ committed \subseteq SeqNum

IqType ==
    /\ ready \in [SeqNum -> Nat]
    /\ blocked \in [SeqNum -> Nat]
    /\ replay \in [SeqNum -> Nat]

TabType ==
    /\ shadow \subseteq SeqNum /\ addrValid \subseteq SeqNum
    /\ waiting \in [SeqNum -> SUBSET SeqNum]
    /\ pending \subseteq SeqNum

MemType ==
    /\ sent \subseteq SeqNum /\ done \subseteq SeqNum /\ acked \subseteq SeqNum
    /\ content \in [Lines -> Data]

LoadType ==
    /\ outst \subseteq SeqNum
    /\ val \in [SeqNum -> [Lines -> Data]]
    /\ aborted \in BOOLEAN

\* Every variable stays in its type.
TypeOK == ProgType /\ RobType /\ IqType /\ TabType /\ MemType /\ LoadType

\* A load is on its way to the L2, or has its data, only once every older
\* copy to one of its lines is acknowledged: the shadow-table scan of
\* LSQUnit::read misses none, whatever was squashed, woken or cleaned up.
RawOrdered ==
    \A n \in Inst({"ld"}), e \in Inst(Copy) :
        n \in outst \cup executed /\ e < n /\ rng[e] \cap rng[n] # {}
            => e \in acked

\* A copy that may be written back never meets a WAR conflict, so the branch
\* of writebackStores that skips it (and would run into
\* assert(!storeWBIt->committed()) the next time round) is never taken.
WarNeverFires ==
    \A c \in MainSQ \cap committed : op[c] = "cp" => ~WarConflict(c)

\* No load is forgotten: one that is neither executed nor sent is in a list
\* of the instruction queue, or in the waitingLoads of a shadow entry whose
\* acknowledgement is still to come.
NoLostWakeup ==
    \A n \in LoadQueue \ (executed \cup outst) :
        ready[n] + blocked[n] + replay[n] = 0
            => \E e \in shadow \ acked : n \in waiting[e]

\* The panic_if in LSQUnit::read cannot fire when the table has at least as
\* many entries as the load queue: squashed and answered loads free theirs.
PendingTableFits ==
    LQEntries <= PendingSize => Cardinality(pending) <= PendingSize

(***************************************************************************)
(* The strengthening that makes the invariants above inductive.            *)
(***************************************************************************)
\* Only numbers handed out are in flight; what the memory system has seen of
\* copies and stores is committed, and what is committed is not squashed.
FlightOrder ==
    /\ \A n \in live \cup executed \cup outst : n < next
    /\ committed \subseteq live
    /\ sent \subseteq committed /\ done \subseteq sent /\ acked \subseteq done

\* Commit is in program order and takes only executed instructions.
CommitOrder ==
    /\ \A m \in live, n \in committed : m < n => m \in committed
    /\ committed \subseteq executed

\* The shadow table holds copies in flight, every one that is not
\* acknowledged among them, and a load only waits for older entries.
ShadowComplete ==
    /\ shadow \subseteq Inst(Copy)
    /\ Inst(Copy) \ acked \subseteq shadow
    /\ \A e \in SeqNum : \A n \in waiting[e] : e < n

\* The pending-load table holds only loads of the load queue that still wait
\* for data, and the load queue is never overfull.
PendingTracked ==
    /\ pending \subseteq LoadQueue \ executed
    /\ \A n \in pending : rng[n] # {}
    /\ Cardinality(LoadQueue) <= LQEntries

IInv ==
    /\ TypeOK /\ FlightOrder /\ CommitOrder /\ ShadowComplete
    /\ PendingTracked /\ RawOrdered /\ NoLostWakeup

\* Data v is what line l holds in program order just before instruction n.
LatestBefore(n, l, v) ==
    LET W == {m \in Inst({"cp", "st"}) : m < n /\ l \in rng[m]}
    IN  v \in W \cup {0} /\ \A m \in W : m <= v

\* Every load, and every write-back, takes from the scratchpad what the
\* program order says is there.
FreshData ==
    \A n \in live :
        \/ op[n] = "ld" /\ n \in outst \cup executed
        \/ op[n] = "wb" /\ n \in done
        => \A l \in rng[n] : LatestBefore(n, l, val[n][l])

\* The L2 never holds in a line data older than a copy it has performed:
\* writes to a line land in program order.
WritesInOrder ==
    \A m \in done : op[m] = "cp" => \A l \in rng[m] : content[l] >= m


(***************************************************************************)
(* What FreshData and WritesInOrder rest on when programs are disciplined. *)
(***************************************************************************)
\* Nothing follows a store on its line, and a load reads a line between a
\* copy and the next instruction that writes the line or copies it back.
ProgramOrder ==
    \A m, n \in live : \A l \in rng[m] \cap rng[n] :
        m < n =>
            /\ op[m] # "st"
            /\ op[m] \in Copy /\ op[n] # "ld" =>
                  \E j \in Inst({"ld"}) : m < j /\ j < n /\ l \in rng[j]

\* The copies and stores to line l that the L2 has performed.
Performed(l) == {m \in done : op[m] \in {"cp", "st"} /\ l \in rng[m]}

\* The L2 holds in each line the youngest of them.
ContentLatest ==
    \A l \in Lines :
        content[l] \in Performed(l) \cup {0} /\ \A m \in Performed(l) : m <= content[l]

\* FreshData and what makes it inductive.
DataInv == ProgramOrder /\ ContentLatest /\ FreshData

\* No assertion of the simulator on the load path fails.
NoAssertFails == ~aborted

\* A spm.ld returns the data of an older spm.st to one of its lines.
LoadSeesOlderStore ==
    \A n \in Inst({"ld"}), s \in Inst({"st"}) :
        n \in outst \cup executed /\ s < n
            => \A l \in rng[n] \cap rng[s] : val[n][l] >= s

\* When a barrier has committed, every older copy has been performed.
BarrierDrainsCopies ==
    \A b \in Inst({"dsb"}) \cap committed, c \in Inst(Copy) :
        c < b => c \in done

\* Every instruction in flight is retired or squashed in the end: no cycle of
\* parked loads, held copies, barriers and traps stops the ROB head.
EventuallyRetired ==
    \A n \in SeqNum : n \in live ~> n \in committed \/ n \notin live

\* Every retired copy is written back and acknowledged in the end: the WAR
\* hold of writebackStores and the loads it waits for do not wait for each
\* other.
EventuallyAcked ==
    \A n \in SeqNum : n \in committed /\ op[n] \in Copy ~> n \in acked

\* A load deferred because an older copy had no address is retried.
DeferredRetried ==
    \A n \in SeqNum : replay[n] > 0 ~> replay[n] = 0
=============================================================================
