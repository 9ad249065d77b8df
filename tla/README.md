# TLA+ models of the CacheFlex scratchpad

CacheFlex is a gem5 model of an out-of-order core whose L2 cache lends ways to
a software-managed scratchpad (SPM).  Four instructions use it: `spm.cp`
copies a line of memory into a scratchpad line, `spm.wb` copies it back,
`spm.ld` and `spm.st` move vector registers.  This directory holds TLA+ models
of that machinery, TLC configurations that check them on small instances, and
proofs checked by TLAPS.  Paths below are relative to `src/gem5/src` unless
they start with `kernels/`.

## The system and its parts

| part | code | state | operations |
|---|---|---|---|
| SPM load/store queue unit | `cpu/o3/lsq_unit.{cc,hh}` (the unit with `isSpmLsq`) | load queue, store queue, `spmShadowTable`, `spmPendingLoadTable` | insert, execute (`read`, `write`), commit, `writebackStores`, `recvTimingResp`, `squash` |
| main load/store queue unit | the same class, per thread | store queue with the `cp`/`wb` entries, `storeWBIt` | the same; WAR scans of the other unit's tables |
| LSQ front | `cpu/o3/lsq.cc` | the two units, ports used in this cycle | routing by `memReqFlags`, `tick`, port accounting, retries |
| instruction queue, memory dependence unit | `cpu/o3/inst_queue.cc`, `mem_dep_unit.cc` | ready list, `blockedMemInsts`, `instsToReplay`, barrier dependences | issue, `addReadyMemInst`, `rescheduleMemInst`, `replay`, `cacheUnblocked` |
| IEW, commit | `cpu/o3/iew.cc`, `commit.cc` | ROB | dispatch against queue capacity, execute, in-order commit, barriers, traps |
| L1 and L2 | `mem/cache/base.cc`, `cache.cc`, `tags/`, `mshr.cc` | blocks, SPM ways and slots, MSHRs, write buffer | `access` for CPTOSPMReq, SPMWritebackReq, SPMLoadReq, SPMStoreReq; fills, evictions, responses |
| crossbars | `mem/xbar.cc`, `coherent_xbar.cc` | per destination: state, waiting ports, refused port | arbitration, refusal, retry |
| encoder and decoder | `spm_tools/spm_compiler.py`, `arch/arm/isa/formats` | none | mnemonic to word at build time, word to instruction at run time |
| kernels, experiments | `kernels`, `experiments`, `scripts` | none | benchmarks, plots |

How they interact.  `spm.cp` and `spm.wb` are stores of the **main** unit, so
they leave in program order after commit; at dispatch they also reserve an
entry in the shadow table of the **SPM** unit, which learns the scratchpad
address when the instruction executes.  `spm.ld` lives in the SPM load queue
and executes speculatively, out of order: `LSQUnit::read` scans the shadow
table and parks the load in the `waitingLoads` of each older overlapping entry
(read after write), or defers it when an older entry has no address yet.  The
L2's acknowledgement of the copy (`SPMresp`) marks the entry ready and puts the
parked loads back in the ready list.  Copies in turn are meant to wait for
older loads (write after read): `writebackStores` scans the pending-load table
and the SPM load queue.  A copy is complete for the store queue as soon as it
is *sent*, long before the L2 has performed it.  `spm.st` waits in the SPM
store queue and is written into the L2 within the call that sends it.

On its way a copy passes the L1, which attaches the line's data if it has it and
queues the command in its write buffer like an eviction.  The L2 takes the data
from the command, from its own block or from a miss, evicts what is in the way
the scratchpad address names, and marks the way as claimed.  A command is
answered on the scratchpad port, past the L1.

What makes this hard: loads run ahead of copies whose address is unknown; a
load may wait for several copies, be woken by one and find the others; a
squash frees entries whose answers are still on the way; a faulting copy keeps
an entry without an address; ports and caches refuse and re-issue; barriers
and traps look at only one of the two units; and the two tables are cleaned up
from several places.  The hazards are listed one by one, at the line where
they bite, in `PROJECT.json`.

## Modules

| module | models | role |
|---|---|---|
| `SpmLsq` | LSQ units, IQ lists, dispatch, commit, squash, write-back; the L2 as seen from there | specification and properties |
| `MCSpmLsq` | | model values and symmetry for TLC |
| `SpmLsqProofs`, `SpmLsqDataProofs` | | theorems and proofs about `SpmLsq`, the second extending the first |
| `StoreQueue`, `MCStoreQueue` | main LSQ unit: store queue, write-back, forwarding, violations, retries | specification, instance |
| `StoreQueueSteps`, `StoreQueueProofs`, `StoreQueueOrder` | | theorems and proofs about `StoreQueue`, each extending the one before |
| `InOrderMemory` | what the main unit promises | abstract specification that `StoreQueue` implements |
| `SpmCache`, `MCSpmCache` | L1 and L2: blocks, ways, MSHRs, write buffers, SPM commands | specification, instance |
| `SpmCacheSteps`, `SpmCacheCounts`, `SpmCacheProofs` | | theorems and proofs about `SpmCache`, each extending the one before |
| `SpmAccess`, `MCSpmAccess` | address arithmetic and byte placement of copies and vector accesses | specification, instance |

The modules are separate state machines; no run composes them.  Where they meet,
one module assumes what another one checks, and the correspondence is made by
hand.  `SpmLsq` lets the L2 perform a sent copy at any later time, in any order,
and answer it once; `SpmCache` has that no more and no fewer than one answer is
owed (`OwedExact`, proved for every program) and the data (`SlotExact`), under
its program rules.  `SpmLsq` takes an address for the set of blocks it covers; `SpmAccess` has that the
queue's overlap test and the L2's loop mean the same blocks (`OverlapExact`).
That a refused sender is told to retry is assumed.

### SpmLsq

Abstractions.  An instruction is its sequence number; gem5 never reuses one.  A
scratchpad address is the set of lines (way, slot) it covers: the overlap test
of the code (same slot, way within the load's range) is non-empty intersection.
The datum of a line is the number of the instruction that wrote it, so "which
value" becomes "whose value".  The L2 performs a copy in one step (`CopyDone`)
at any time after it was sent and in any order between copies, because an L2
hit overtakes a miss; the answer (`CopyAck`) is a later step.  Loads and stores
access the L2 in the call that sends them (`BaseCache::access` moves the data
before the timing response is scheduled), so `SendLoad` and `SendStore` read
and write `content` at once.  Instructions other than the five kinds (`cp`,
`wb`, `ld`, `st`, `dsb`) are left out; a mispredicted branch between two of
them is `Squash`.

| variable | code |
|---|---|
| `live`, `executed`, `faulted`, `committed` | ROB and `DynInst` flags; `committed` is also `canWB` of a store-queue entry |
| `ready`, `blocked`, `replay` | number of copies of an instruction in the ready list, `blockedMemInsts`/`retryMemInsts`, `instsToReplay` |
| `shadow`, `addrValid`, `waiting`, `acked` | `spmShadowTable`: its keys, `addrValid`, `waitingLoads`, `ready` |
| `pending` | valid entries of `spmPendingLoadTable` |
| `outst`, `sent`, `done` | requests on their way, and what the L2 has performed |
| `content`, `val` | data in the lines, data taken by loads and write-backs |
| `aborted` | an `assert` on the load path has failed |

Actions.  `Dispatch` is `IEW::dispatchInsts` with `LSQ::insertLoad/insertStore`
and the reservation of the shadow entry (clean-up included).  `ExecuteCopy`,
`FaultCopy`, `ExecuteStore` are `executeStore` by kind and outcome.  One
execution of `LSQUnit::read` is one of `ParkLoad`, `DeferLoad`, `SendLoad`,
`RefuseLoad` (all built on `ReadLoad`, which cleans the shadow table and
registers the load in the pending table), `AbortLoad` when an assertion stops
it, or `SkipLoad` when no lane is active.  `LoadResp`, `CopyAck`, `StoreResp`
are the three answers.  `ReplayAll` and `CacheUnblocked` drain the two re-issue
lists.  `Commit`, `CommitBarrier`, `Trap`, `Squash` are commit and squash;
`SquashFrom` cleans both queues, the IQ lists and both tables.  In
`LSQUnit::squash` the loop that replays the waiting loads of a squashed entry
never finds one alive, since loads wait for older entries only (part of
`ShadowComplete`), so it has no counterpart.  `SendCopy` and `SendStore` are
`writebackStores` of the two units; a send refused by the cache is a step that
has not happened yet.

The constant `Env` names which surroundings are allowed, so that a run can say
under which assumption a property holds:

| member | meaning | without it |
|---|---|---|
| `lateAddr` | a load may execute before an older copy has executed | copies get their address first |
| `backToBack` | a second acknowledgement may come before the woken load re-executes | acknowledgements to a load are spaced |
| `fault` | memory operands may page-fault | memory is mapped |
| `refuse` | ports and L2 may refuse a load | no contention |
| `squash` | branches may be mispredicted | straight-line code |
| `anyProgram` | any sequence of instructions | the kernels' discipline (`Disciplined`): between two copies to a line there is a load of it, and no load follows a store to its line |

`Disciplined` is how the kernels use the scratchpad
(`kernels/llama_bench_spm/04_qk_gqa_spm.cpp`: fill a batch of tiles, read every
tile, refill); no kernel of the repository issues `spm.wb` or `spm.st`.

### StoreQueue and InOrderMemory

The unit that holds ordinary loads and stores and, among the stores, `spm.cp`
and `spm.wb` (both `"cp"` here: the unit treats them alike).  An instruction
covers a set of words; a copy covers the 8 bytes at its memory operand, and its
store data is the scratchpad address.  The datum of a store is its number.  The
circular queue is a function on absolute positions with `head`, `tail` and
`wbIt` (`storeWBIt`), so that an iterator that outlives its entry is visible.

| action | code |
|---|---|
| `Dispatch` | `insertLoad`, `insertStore`, with the store position a load remembers |
| `ExecuteStore`, `NullifyStore` | `executeStore` with `checkViolations` and the squash it leads to; a false predicate |
| `ForwardLoad`, `StallLoad`, `SendLoad`, `BlockLoad` | the outcomes of `read` |
| `SkipStore`, `SendStore`, `BlockStore`, `RetryStore` | one round of `writebackStores` |
| `RecvRetry`, `RecvRetryNoStore`, `TickUnblock` | `recvReqRetry`, `tick` |
| `LoadResp`, `StoreResp` | `completeDataAccess` |
| `Retire`, `CommitNotice` | the ROB retires; the LSQ learns of it later |
| `Squash` | misprediction, trap |

`PostSend` is what follows a successful send of a store; `ForceComplete` is the
branch for copies, which completes the entry inside the loop and repositions
the iterator.  Any load may issue at any time, which covers whatever the
dependence predictor does.

`InOrderMemory` is a memory on which instructions take effect one by one in
program order.  The refinement maps its memory to what the data cache has
performed, overlaid with the retired stores still in the queue
(`OrderedMemory`), and its steps to `Retire`; everything else stutters.

### SpmCache

One core, one set of the L2.  A line or slot holds one value, so copies are of
whole lines (partial copies are the subject of `SpmAccess`; a partial `spm.wb`
differs here in the path it takes).  A send from the L1 is one step of both
caches, as in gem5, where it is a chain of calls; responses are steps of their
own.  Handlers of the L2 are operators from a state to the set of states they
may leave (`Copy`, `Writeback`, `Eviction`, `Request`, `FillFrom`); the choice
is the replacement policy's.  A failed `assert` records its name in `l2.bad` and
stops the run, as it stops the simulator.

The order of a write buffer is by ready time, which later tag and data latency
may invert (`Ready`); `after` is the age of a write against the miss to its
line, which `getNextQueueEntry` compares.  `IsCachedAbove` is the snoop with
which the L2 asks the L1 before it drops or queues a clean eviction.

The constant `Program` names rules the program keeps:

| member | meaning |
|---|---|
| `fenced` | one command at a time for a slot and for a line |
| `drained` | `spm.st` only to slots with no command outstanding |
| `claimed` | `spm.st` and `spm.wb` only of slots that were copied to |
| `settled` | no command for a line with an outstanding L1 miss |
| `unshared` | `spm.wb` only to lines the L1 holds nothing of |
| `apart` | no new slot is claimed while a `spm.wb` is outstanding |
| `streamed` | `spm.cp` only from lines the L1 holds nothing of |

The kernels keep `drained`, `claimed`, `unshared` and `apart` because they use
neither `spm.st` nor `spm.wb`.  The
other rules are assumptions: nothing in the caches enforces them.  Of `fenced`,
the discipline of the kernels gives the part about slots; the part about memory
lines has not been established for them.  The further configurations below show
what goes wrong without each of the others.

`drained` deserves a word.  `writebackStores` holds a `spm.st` back for nothing
(`cpu/o3/lsq_unit.cc:1017`), so it may write a slot before an older copy lands
in it.  The comment there trusts a `dsb` to prevent this, but a `dsb` does not
wait for copies to be performed (`lsq_dsb`); a `spm.ld` of the slot in between
does (`RawOrdered`), which is what `Disciplined` of `SpmLsq` asks for.  In
`SpmCache` the order in which the core issues its operations is taken for
program order; `spm.st` and the commands leave from two units, and that they do
so in program order is part of the assumption.

Abstracted: external snoops (one core), the L3, latencies, whole-line stores of
the core, prefetches.  `L1Evict` stands for a fill of some other line of the L1
set.  Memory is read when its response arrives.

### SpmAccess

Addresses are numbers, split into way, set and offset as in the code, with the
widths as constants; the bitwise `or` of the code is kept.  The state is the
bytes of the scratchpad and, beside it, what the program means to be there.
`Program` may contain `aligned` (an access over several ways starts at a
suitable way, as in the kernels), `claimed` (stores only to blocks copied to)
and `matched` (a copy keeps the offset in the line).  The 256-bit kernels do **not**
keep `matched` (see `access_source`), so `access_exact` does not speak for them.

## Runs

`CHECK_DEADLOCK FALSE` is set because a finished
program, and a simulator stopped by an assertion, really stop.  The `lsq_` runs
use queues of 2 entries, a pending table of 2, and the bound `MaxSeq` on the
instructions of an execution.

| run | instance | result |
|---|---|---|
| `lsq_mixed` | all kinds and all of `Env`; 2 lines; 3 instructions | `TypeOK`, `RawOrdered`, `WarNeverFires`, `NoLostWakeup`, `PendingTableFits` hold |
| `lsq_data` | cp, wb, ld; 1 line; 4 instructions; disciplined programs, squashes | `FreshData`, `WritesInOrder` hold |
| `lsq_live` | cp, ld, dsb; 1 line; 3 instructions; faults, refusals, squashes | `EventuallyRetired`, `EventuallyAcked` hold under `FairSpec` |
| `lsq_defer` | | `DeferredRetried` is violated |
| `lsq_assert` | | `NoAssertFails` is violated |
| `lsq_wrwr` | | `WritesInOrder` is violated without the discipline |
| `lsq_store` | | `LoadSeesOlderStore` is violated |
| `lsq_dsb` | | `BarrierDrainsCopies` is violated |
| `sq_all` | 2 words, 3 instructions, store queue 3, load queue 2; no load lies within the bytes a copy names | `TypeOK`, `IteratorAtBorder`, `CountExact`, `HeadIsLive`, `ScanStartsInRange`, `StallHasWaker`, `RetiredLoadCorrect`, the refinement `ImplementsInOrderMemory`, `StoresDrain`, `LoadsFinish` hold under `FairSpec` |
| `cache_exact` | 2 lines, 2 ways; 2 stores, 2 copies, 1 write-back, 1 load miss; all rules but `streamed` | `TypeOK`, `MemoryExact`, `SlotExact`, `OwedExact`, `ClaimedForever` hold, up to the first failed assertion |
| `cache_live` | 2 lines, 2 ways; one store, copy, write-back and load miss; all rules | `AssertsHold`, `CommandsAnswered`, `MissesFilled` hold under `FairSpec` |
| `access_exact` | blocks of 2 bytes, 2 sets, 4 ways, accesses of 1 to 4 bytes, 3 operations; all three rules | `OverlapExact`, `ContentExact`, `LoadExact` hold |

"Up to the first failed assertion" matters for `cache_exact`: without `streamed`
an assertion of the caches can fail (`cache_meet` below), the simulator stops
there, and the run says nothing of what would follow.

### Further configurations

These are run by hand and are not among the runs of `PROJECT.json`.  They are
larger instances, and what happens without a rule.

| configuration | instance | TLC's answer |
|---|---|---|
| `lsq_order.cfg` | cp, ld; 2 lines; 4 instructions; late addresses, back-to-back acknowledgements, squashes, any program | the properties of `lsq_mixed` hold |
| `lsq_data_five.cfg` | `lsq_data` with 5 instructions | holds (1,820,261 states) |
| `lsq_data_store.cfg` | `lsq_data` with st | holds (586,135 states) |
| `sq_order.cfg` | safety part of `sq_all`, 4 instructions | holds (854,210 states) |
| `cache_asserts.cfg` | `cache_exact` with 2 load misses and all rules | `AssertsHold` holds (1,170,303 states) |
| `cache_live_two.cfg` | `cache_live` with 2 copies | safety of `cache_exact`, `AssertsHold`, `CommandsAnswered`, `MissesFilled` hold under `FairSpec` (149,019 states) |
| `sq_forward.cfg` | loads of the 8 bytes a copy names | `RetiredLoadCorrect` is violated |
| `cache_overtaken.cfg` | without `drained` | `SlotExact` is violated |
| `cache_newer.cfg` | without `drained`, with `spm.wb` | `MemoryExact` is violated |
| `cache_unclaimed.cfg` | without `claimed` | `SlotExact` is violated |
| `cache_shared.cfg` | without `unshared` | `MemoryExact` is violated |
| `cache_meet.cfg` | without `streamed` | `EvictionMeetsWriteback` is violated |
| `cache_dropped.cfg` | without `streamed` and `apart` | `CopyFindsSlot` is violated |
| `cache_fill.cfg` | without `streamed` and `settled` | `FillMeetsNoWrite` is violated |
| `access_ways.cfg` | without `aligned` | `ConsecutiveWays` is violated |
| `access_partial.cfg` | without `claimed` | `StoreIgnored` is violated |
| `access_source.cfg` | without `matched` | `CopyTakesNamed` is violated |

### Bounds and fairness

Why the bounds suffice for what is asked: a wrong wake-up needs one load and
two copies (a load woken by one while the other is in flight) and a squash or
clean-up in between, which three instructions on two lines give, and four with
one of them re-fetched (`lsq_order.cfg`); a table that
leaks entries overflows at the third load when it has two; program-order data
needs two generations of a line, `cp ld cp ld`, or a write-back between a
load and a copy; a fifth instruction or stores change nothing (`lsq_data_five.cfg`,
`lsq_data_store.cfg`).  The safety properties of `SpmLsq` and `StoreQueue`
are proved for every bound below.

For the store queue, three instructions give a store in flight with a copy behind
it and a third store, and a store with two loads; a fourth adds nothing TLC could
find in the safety properties (`sq_order.cfg`).  For the caches, two lines and
two ways are the smallest set in which a claim can evict one line while the other
way holds the source; both ways can be claimed, and then fills use the temporary
block.  Both write buffers and the targets of an L1 miss reach their limits; the
limit on the targets of an L2 miss is not reached at these bounds.  `TypeOK`
bounds the L2 write buffer by its entries and the reserve, one for each MSHR, that
evictions use while requests from above are blocked.  With blocks
of two bytes an access of four bytes starting in the middle of a block covers
three, so first, middle and last parts all occur.

Fairness (`FairSpec`).  The core ticks as long as it has work, so an
instruction that can issue, retire or be written back eventually does
(weak fairness of `Tick`, `Retire`, `WriteBack` per instruction) and a request
is answered (`Answer`).  `LSQ::tick` frees the ports and re-issues the refused
loads (`CacheUnblocked`); since a load is not refused for ever, `SendLoad` is
strongly fair.  Nothing is assumed of `ReplayAll`: it runs only when a load of
the main unit that stalled on a store is released or a strictly ordered load
reaches commit, which no SPM kernel guarantees.  That is why `lsq_live` leaves
`lateAddr` out, and `lsq_defer` shows what happens with it.  `lsq_live` also
leaves `backToBack` out, because a failed assertion ends the run.

In `StoreQueue` every stage runs each cycle and the cache answers what it has
accepted (weak fairness).  A load or store that is tried again and again is in
the end accepted (strong fairness of `IssueLoad`, `IssueStore`): the cache sends
a retry only when it has room, and ports are freed every cycle.  Dispatch,
squashes and refusals need not happen.  In `SpmCache` each cache has a send
event scheduled while something is ready, scheduled responses arrive and memory
answers: weak fairness per line for misses and responses, and for each write
buffer as a whole.

### What the violations say

Each is a disagreement between the code and a comment, message or assertion,
except for two that only show what a rule is for (`cache_unclaimed`, `cache_shared`).
The quotations for the `lsq_` runs are in `PROJECT.json`; for the further
configurations they are given here.

* `lsq_defer`: a load deferred on an unresolved copy is not retried in the
  next cycle: it stays in `instsToReplay` until something unrelated drains it.
* `lsq_assert`: a load waiting for two copies that are acknowledged back to
  back is put twice in the ready list; its second issue fails an assertion.
* `lsq_wrwr`: two copies to one line without a load between them can land in
  the wrong order, since the second is sent without waiting for the first.
* `lsq_store`: a load may read a line before an older `spm.st` to it, still in
  the store queue, has been written.
* `sq_forward`: a load of the bytes a queued copy names is forwarded the copy's
  store data, a scratchpad address; `cpu/o3/lsq_unit.cc:1220` calls the copy
  "fundamentally a READ from DRAM to private SPM".
* `cache_overtaken`, `cache_newer`: a `spm.st` issued while a copy to its slot is
  outstanding is overwritten by the older copy when that lands; issued while a
  write-back of its slot is outstanding, its data reaches memory in place of the
  older.  `cpu/o3/lsq_unit.cc:1018` says "SPM_STORE: only block on older entries
  to SAME address", and the code blocks on none.
* `cache_unclaimed`: a `spm.st` to a way that is not claimed is ignored, as
  `mem/cache/base.cc:1932` says; the program has to copy first.
* `cache_shared`: `spm.wb` to a line the L1 holds leaves the L1's copy as it was
  (`mem/cache/base.cc:1834`).  Nothing in the repository says it may be used so.
* `cache_meet`: a copy queued in the L1 ends the snoop with which the L2 asks
  whether the line is cached above (`mem/cache/cache.cc:1555`); the L2 queues a
  clean eviction, and the L1's own eviction fails the assertion at
  `mem/cache/base.cc:2075`.  The comment at 2062 says "We check for presence of
  block in above caches before issuing Writeback or CleanEvict to write buffer."
* `cache_dropped`: a copy whose way holds a block with a miss of its own is
  acknowledged without its data; `mem/cache/cache.cc:867` says "this should have
  been handled in access() but check again".
* `cache_fill`: a copy queued behind a miss to the same line is still queued when
  the fill arrives, which fails an assertion; `mem/cache/base.cc:2321` says "When
  handling a fill, we should have no writes to this line."
* `access_ways`: a vector access over two ways that starts at an odd way touches
  the wrong second way, because the ways are or-ed (`mem/cache/base.cc:1925`);
  `kernels/llama_bench_spm/kernels_spm.hpp:932` says "2 consecutive ways per call".
* `access_partial`: a store over a claimed and an unclaimed block is half
  performed; the message at `mem/cache/base.cc:1935` says "store ignored".
* `access_source`: a copy of part of a line reads the source line at the offset
  of the scratchpad address (`mem/cache/base.cc:1586`, 1642, `cache.cc:815`).
  `kernels/llama_bench_spm/kernels_spm.hpp:178` copies 32 bytes from offset 32
  with the comment "Way1 ← B[k, 16..31] (32B)".
* `lsq_dsb`: `dsb` waits for the main store queue, which a copy leaves when it
  is sent; copies may still be in flight when the barrier commits.  Loads stay
  correct all the same (`RawOrdered` does not depend on barriers); a `spm.st` after
  the barrier does not (`cache_overtaken`).

## Proofs

TLAPS proves the following for every value of the constants: all sets of lines
and words, all queue and table sizes, any number of instructions.  The
assumptions on the constants are the ones named in the specifications
(`SizeAssumption` in `SpmLsq` and `StoreQueue`: the bounds are naturals;
`CoverAssumption` in `StoreQueue`: accesses name words; `ConstantsAssumption` in
`SpmCache`: there are finitely many lines, MSHRs have a size, and the temporary
block and the absent value are no line or way); where a theorem needs more, the
table says so.

| theorem | module | statement |
|---|---|---|
| `TypeCorrect` | `SpmLsqProofs` | `Spec => []TypeOK` |
| `Inductive` | `SpmLsqProofs` | `Spec => []IInv` |
| `RawOrder` | `SpmLsqProofs` | `Spec => []RawOrdered` |
| `WakeupKept` | `SpmLsqProofs` | `Spec => []NoLostWakeup` |
| `WarDead` | `SpmLsqProofs` | `Spec => []WarNeverFires` |
| `PendingFits` | `SpmLsqProofs` | `Spec => []PendingTableFits` |
| `DataInductive` | `SpmLsqDataProofs` | `Spec => []DataInv`, for disciplined programs |
| `Fresh` | `SpmLsqDataProofs` | `Spec => []FreshData`, for disciplined programs |
| `OrderedWrites` | `SpmLsqDataProofs` | `Spec => []WritesInOrder`, for disciplined programs |
| `StoreQueueInductive` | `StoreQueueProofs` | `Spec => []IInv` |
| `StoreQueueTypes` | `StoreQueueProofs` | `Spec => []TypeOK` |
| `IteratorBorder` | `StoreQueueProofs` | `Spec => []IteratorAtBorder` |
| `StoreCount` | `StoreQueueProofs` | `Spec => []CountExact` |
| `HeadLive` | `StoreQueueProofs` | `Spec => []HeadIsLive` |
| `ScanInRange` | `StoreQueueProofs` | `Spec => []ScanStartsInRange` |
| `StallWoken` | `StoreQueueProofs` | `Spec => []StallHasWaker` |
| `LoadsCorrect` | `StoreQueueOrder` | `Spec => []RetiredLoadCorrect`, given `NoCopyCovers` |
| `Refinement` | `StoreQueueOrder` | `Spec => ImplementsInOrderMemory`, given `NoCopyCovers` |
| `AnswerInductive` | `SpmCacheProofs` | `Spec => []AnswerInv` |
| `AnsweredOnce` | `SpmCacheProofs` | `Spec => []OwedExact` |
| `ClaimKept` | `SpmCacheProofs` | `Spec => ClaimedForever` |

Each inductive invariant was checked by TLC on a small instance before it was
proved.

### The scratchpad unit

`IInv` adds four facts to the properties.
`FlightOrder`: numbers in flight are below `next`, and acknowledged implies
performed implies sent implies committed implies alive.  `CommitOrder`: what is
older than a committed instruction is committed, and committed instructions
have executed.  `ShadowComplete`: every live copy not yet acknowledged has its
shadow entry, and loads wait for older entries only; without the first part the
scan of `read` could miss a copy, without the second a squash could take away
the entry a surviving load waits for.  `PendingTracked`: pending loads are in
the load queue and have not executed, and the load queue respects its capacity.

`RawOrder` follows because a load is sent only if no entry of the shadow table
that is older and unacknowledged overlaps it, and the table is complete; it
stays true because acknowledgements are never withdrawn and new copies are
younger.  `WarDead` says that the WAR scans never hold a copy back: a copy that
may be written back is committed, so every older load is committed too, hence
out of the load queue and, having executed, out of the pending table.  The
order of loads before younger copies comes from in-order commit, not from the
scans.  `PendingFits` bounds the table by the load queue that contains it.

`Fresh` and `OrderedWrites` are about data, and hold for disciplined programs
(`"anyProgram" \notin Env`): the guard `Disciplined` of `Dispatch`, which the
kernels keep, asks for a load between a copy and the next write of a line.
The violations `lsq_wrwr` and `lsq_store` are of programs that do not keep it.  `DataInv` adds to
`FreshData` two facts.  `ProgramOrder` carries the discipline from the last
instruction on a line, which is all that dispatch looks at, to every pair of
live instructions on it.  `ContentLatest`: a line holds the youngest of the
copies and stores the L2 has performed on it, though the L2 may perform copies
in any order.  The step that matters is `CopyDone`: if a younger write of the
line had been performed, it would be committed; a load lies between the two in
program order, so it is committed and was sent; by `RawOrdered` the older copy
was acknowledged by then, hence performed already.

There is one lemma per group of actions (`DispatchStep`, `ParkStep`, ...), each
with one step per conjunct of the invariant.

### The store queue

`IInv` has the types, five facts that no run states on its own, and the properties
themselves.  `RobOrder`: what has retired has executed.  `QueueOrder`: the queue
holds the stores and copies, all of them, in program order.  `WrittenBack`: what
is before the iterator has retired.  `LoadOrder`: the position a load was
inserted with splits the queue at its age, and a load that has data or waits for
it is where `checkViolations` looks.  `StallOldest`: a stall is recorded exactly
while loads are parked, for the oldest of them, and its store is not yet handed
to the cache.  `IteratorAtBorder`, `HeadIsLive` and `CountExact` are inductive only
with these: `completeStore` pops a run of completed entries and `squash` a run of
young ones, and the lemmas about where these loops stop need the order.  The
loops are modelled by the position at which they stop, so the induction over
the queue becomes an appeal to the least or greatest element of a set of
positions (`LeastNat`, `GreatestNat`).

`VInv` is about values.  `CoversKnown`: copies and loads name words their
kind may name.  `CacheCurrent`: a word of the cache's memory holds the youngest
store handed over.
`LoadsCurrent`: a load that has its data has, word by word, the youngest older
store that had executed; a store that executes later and finds such a load
squashes it, which is why the fact survives `executeStore`.  `LoadsCorrect`
follows because all stores older than a retired load have executed.  Both this
and the refinement assume `NoCopyCovers`: no copy names every word of a load.
Otherwise the queue forwards the scratchpad address the copy carries, and the
theorem is false (`sq_forward.cfg`).

The refinement maps the abstract memory to `OrderedMemory`: a word has the
youngest retired store that is still queued ahead of the iterator, or else what
the cache's memory holds.  Both cases together are the youngest retired store
to the word (lemma `OrderedYoungest`).  So a write-back leaves the abstract
memory alone, a squash takes away only what has not retired, and `Retire`, which
adds one store or delivers one load, is a step of `InOrderMemory`; every other
action is a stutter.

### The caches

`OwedExact` and `ClaimedForever` are proved with no rule on the program: for every
`Program`, the empty set included, every set of ways and every finite set of
lines.  The runs check them under rules, because the data properties beside them
need the rules.

`AnswerInv` adds to `OwedExact` what a handler relies on.  `L2Type`: a block, an
MSHR and the L2 have their fields, a target that is a command names a slot and a
request of the L1 names none, and targets are deferred only behind others.
`Packet`: the same of the entries of the L1 write buffer.  `TargetsFit`: the
targets of a miss keep to the room of its MSHR.  The last one is needed because
`TargetsOf` looks at a bounded number of places: a target beyond them would wait
without being counted.  It is inductive because the L2 blocks requests from
above while an MSHR is full, and a handler adds one target at most.

The argument has three layers, a module each.  `SpmCacheSteps` has a lemma for
each handler of the L2, as an operator on its state: it keeps `L2Type`, it gives
up no claimed way (`Keeps`), and of the commands it either leaves all alone
(`Idle`), lets one more wait (`Waits`) or answers one (`Answered`).
`SpmCacheCounts` counts the commands of a slot in a sequence of targets
(`Commands`), and shows that the loop of `serviceMSHRTargets` answers each
target's command once (`ServiceAllStep`), so that a fill, a forwarded response or
a miss that is sent settles a line (`Settles`): what is no longer owed is
exactly what no longer waits.  The loop is a recursive function; the argument
takes the least turn at which the claim would fail.  `SpmCacheProofs` adds the
counts over lines and the write buffer (`Balance`), turns the lemmas into one per
action, and ends with the theorems.

After a failed assertion the L2 is not constrained beyond its types and `Keeps`,
and `OwedExact` says nothing, since the simulator has stopped.  `ClaimedForever`
holds of that step too.

### Only model-checked

* Liveness (`EventuallyRetired`, `EventuallyAcked`, `StoresDrain`, `LoadsFinish`,
  and of the caches `CommandsAnswered` and `MissesFilled`): TLAPS proves nothing
  under fairness.
* The data of `SpmCache` (`MemoryExact`, `SlotExact`), its types (`TypeOK`, of which
  `AnswerInv` has the part about the L2 and the write buffer that the counts need)
  and its assertions (`AssertsHold`).  They need an invariant about the place of
  every value in two caches and two write buffers, under the program rules;
  none has been found that is short enough to be of use.
* `SpmAccess`, which uses `Bitwise`; the proof system cannot handle it.

## Not modelled

* **Most of gem5.**  The repository contains the whole simulator, over a million
  lines: other instruction sets and processor models, devices, the Ruby memory
  system, memory controllers, statistics, the Python front end.  The models
  cover the scratchpad path only, well under one per cent of the lines.
* **Crossbars**: arbitration and retries between the caches.
* **Encoder and decoder** (`spm_tools/spm_compiler.py`, `arch/arm/isa`).
* **Timing.**  Ports, egress queues, latencies and bandwidth decide when things
  happen; the models allow any time, and refusals are nondeterministic.
* **More than one core.**  The evaluated systems have one, so snoops from
  outside, invalidations of loads in the load queue and the snoop filter are
  left out.
* **Split, uncacheable, LL/SC and transactional accesses** in the load/store
  queue, and prefetches in the caches.  A copy whose memory operand crosses a line
  would be split and is not covered.
* **Generated execute methods of the instructions**: effective addresses,
  predication, write-back of the base register.  The kernels' remark that
  `SPMCP_64_PRE` drifts is therefore not examined.
* **The composition of the modules in one state space.**  It has not been built;
  the interfaces are matched by hand as described under Modules.
* Experiment scripts and plots.
