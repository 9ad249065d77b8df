----------------------------- MODULE SpmAccess -----------------------------
(***************************************************************************)
(* Vector accesses to the scratchpad: how spm.ld and spm.st, which may be  *)
(* longer than a cache block, find their bytes in the L2                   *)
(* (mem/cache/base.cc, BaseCache::access), and which blocks the load/store *)
(* queue believes they touch (cpu/o3/lsq_unit.cc).                         *)
(*                                                                         *)
(* A scratchpad address is way, set and offset, from the top bits down.  A *)
(* long access goes on in the next way of the same set.  A block is named  *)
(* by the address of its first byte.  The value of a byte is the number of *)
(* the operation that wrote it and the place of the byte in it.            *)
(***************************************************************************)
EXTENDS Integers, FiniteSets, Bitwise

CONSTANTS
    BlkBits,   \* log2 of the block size
    SetBits,   \* log2 of the number of sets
    WayBits,   \* log2 of the associativity
    Sizes,     \* sizes of the accesses
    Offsets,   \* offsets, in their line, of the bytes that are copied
    Program,   \* rules the program keeps: see Allowed
    MaxOps     \* bound on the operations

ASSUME AccessAssumption ==
    /\ BlkBits \in Nat /\ SetBits \in Nat /\ WayBits \in Nat
    /\ Sizes \subseteq Nat \ {0}
    /\ Offsets \subseteq Nat
    /\ Program \subseteq {"aligned", "claimed", "matched"}

VARIABLES
    spm,      \* blocks claimed for the scratchpad
    data,     \* data[b][o]: byte o of block b
    expected, \* the same, as the program means it
    last,     \* the last access: its kind, address, size, the bytes it read and
              \* for a copy the offset of its source
    ops       \* operations so far

vars == <<spm, data, expected, last, ops>>

blkSize == 2 ^ BlkBits

wayShift == SetBits + BlkBits

Addr == 0 .. 2 ^ (wayShift + WayBits) - 1

Blocks == {a \in Addr : a % blkSize = 0}

-----------------------------------------------------------------------------
(* The address arithmetic of the load/store queue. *)

spm_get_way(a) == (a \div 2 ^ wayShift) % 2 ^ WayBits

spm_get_slot(a) == (a \div 2 ^ BlkBits) % 2 ^ SetBits

spm_get_offset(a) == a % 2 ^ BlkBits

\* Variant: the last byte is taken to be one further.
EndWayPast(a, size) ==
    spm_get_way(a) + ((spm_get_offset(a) + size) \div blkSize)

EndWay(a, size) ==
    spm_get_way(a) + ((spm_get_offset(a) + size - 1) \div blkSize)

\* The test of read() and of the write-after-read scan: does the copy to block
\* b touch what the load of size bytes at a reads?
Overlaps(b, a, size) ==
    /\ spm_get_slot(b) = spm_get_slot(a)
    /\ spm_get_way(a) <= spm_get_way(b)
    /\ spm_get_way(b) <= EndWay(a, size)

-----------------------------------------------------------------------------
(* The address arithmetic of the L2. *)

extractWay(a) == (a \div 2 ^ wayShift) % 2 ^ WayBits

firstSlotBase(a) == (a \div blkSize) * blkSize

\* Variant: the offset of the first byte is left out.
NumSlotsFromBase(a, size) == (size + blkSize - 1) \div blkSize

numSlots(a, size) ==
    ((a % blkSize) + size + blkSize - 1) \div blkSize

currentWay(a, i) == extractWay(firstSlotBase(a)) + i

\* The block of the i-th part of an access: the way is or-ed into an address
\* that already has the first way in it, and the rest is cut off by extractWay.
slotAddr(a, i) ==
    LET s == firstSlotBase(a) | (currentWay(a, i) * 2 ^ wayShift)
    IN s % 2 ^ (wayShift + WayBits)

Parts(a, size) == 0 .. numSlots(a, size) - 1

\* The bytes that fit in the first block.
firstChunk(a) == blkSize - (a % blkSize)

\* The part byte k of an access belongs to.
PartOf(a, k) ==
    IF k < firstChunk(a) THEN 0 ELSE 1 + (k - firstChunk(a)) \div blkSize

\* Variant: every part starts at the offset of the first.
SameOffset(a, k) ==
    IF k < firstChunk(a) THEN (a % blkSize) + k
    ELSE ((a % blkSize) + k - firstChunk(a)) % blkSize

\* slot_offset: the first part starts at the offset, the others at 0.
OffsetOf(a, k) ==
    IF k < firstChunk(a) THEN (a % blkSize) + k
    ELSE (k - firstChunk(a)) % blkSize

\* The parts before the first one that is not a scratchpad block.
Reached(a, size) ==
    {i \in Parts(a, size) : \A j \in 0 .. i : slotAddr(a, j) \in spm}

-----------------------------------------------------------------------------
(* What the program means: the bytes lie one after the other in the set, *)
(* way after way.                                                        *)

MeantBlock(a, k) ==
    (spm_get_way(a) + (spm_get_offset(a) + k) \div blkSize) * 2 ^ wayShift
    + spm_get_slot(a) * blkSize

MeantOffset(a, k) == (spm_get_offset(a) + k) % blkSize

MeantBlocks(a, size) == {MeantBlock(a, k) : k \in 0 .. size - 1}

\* Accesses end in the last way or before it; the L2 stops at one that does not.
\* aligned: an access over several ways starts, as in the kernels, at a
\* multiple of a power of two that is no less than their number.
\* claimed: the program stores only to blocks it has copied to.
Allowed(kind, a, size) ==
    /\ EndWay(a, size) < 2 ^ WayBits
    /\ "aligned" \in Program =>
          \E n \in 0 .. WayBits :
              numSlots(a, size) <= 2 ^ n /\ spm_get_way(a) % 2 ^ n = 0
    /\ "claimed" \in Program /\ kind = "st" => MeantBlocks(a, size) \subseteq spm

-----------------------------------------------------------------------------
(* Operations. *)

Value(n, k) == 100 * n + k

Begin == ops < MaxOps /\ ops' = ops + 1

\* Where in its line byte k of a copy to d is read: at the offset of d.
SourceOffset(d, k) == spm_get_offset(d) + k

\* A copy of size bytes, at offset o of some line, to d is performed; the first
\* one claims the block.  Byte i of the line has the value Value(ops, i).
\* matched: the program copies to the offset it copies from.
Copy(d, o, size) ==
    LET b == firstSlotBase(d)
        From(Source(_), blk) ==
            [i \in DOMAIN blk |->
                IF i - spm_get_offset(d) \in 0 .. size - 1
                THEN Value(ops, Source(i - spm_get_offset(d))) ELSE blk[i]]
        Named(k) == o + k
        Taken(k) == SourceOffset(d, k)
    IN /\ Begin
       /\ spm_get_offset(d) + size <= blkSize /\ o + size <= blkSize
       /\ "matched" \in Program => o = spm_get_offset(d)
       /\ spm' = spm \cup {b}
       /\ data' = [data EXCEPT ![b] = From(Taken, @)]
       /\ expected' = [expected EXCEPT ![b] = From(Named, @)]
       /\ last' = [kind |-> "cp", a |-> d, size |-> size, read |-> <<>>, src |-> o]

\* SPMStoreReq: parts are written in order until one is not claimed.
Store(a, size) ==
    LET written == {k \in 0 .. size - 1 : PartOf(a, k) \in Reached(a, size)}
        meant == IF MeantBlocks(a, size) \subseteq spm THEN 0 .. size - 1 ELSE {}
    IN /\ Begin
       /\ Allowed("st", a, size)
       /\ data' = [b \in Blocks |-> [o \in 0 .. blkSize - 1 |->
            LET here == {k \in written : slotAddr(a, PartOf(a, k)) = b
                                         /\ OffsetOf(a, k) = o}
            IN IF here = {} THEN data[b][o]
               ELSE Value(ops, CHOOSE k \in here : \A j \in here : j <= k)]]
       /\ expected' = [b \in Blocks |-> [o \in 0 .. blkSize - 1 |->
            LET here == {k \in meant : MeantBlock(a, k) = b /\ MeantOffset(a, k) = o}
            IN IF here = {} THEN expected[b][o]
               ELSE Value(ops, CHOOSE k \in here : TRUE)]]
       /\ last' = [kind |-> "st", a |-> a, size |-> size, read |-> <<>>,
                   src |-> 0]
       /\ UNCHANGED spm

\* SPMLoadReq: zeros unless all its blocks are claimed.
Load(a, size) ==
    /\ Begin
    /\ Allowed("ld", a, size)
    /\ last' = [kind |-> "ld", a |-> a, size |-> size,
                read |-> [k \in 0 .. size - 1 |->
                    IF Reached(a, size) # Parts(a, size) THEN 0
                    ELSE data[slotAddr(a, PartOf(a, k))][OffsetOf(a, k)]],
                src |-> 0]
    /\ UNCHANGED <<spm, data, expected>>

Init ==
    /\ spm = {}
    /\ data = [b \in Blocks |-> [o \in 0 .. blkSize - 1 |-> 0]]
    /\ expected = data
    /\ last = [kind |-> "cp", a |-> 0, size |-> blkSize, read |-> <<>>,
               src |-> 0]
    /\ ops = 1

Next ==
    \/ \E d \in Addr, o \in Offsets, size \in Sizes : Copy(d, o, size)
    \/ \E a \in Addr, size \in Sizes : Store(a, size) \/ Load(a, size)

Spec == Init /\ [][Next]_vars

-----------------------------------------------------------------------------
(* Properties. *)

\* The load/store queue and the L2 agree on the blocks of an access: the blocks
\* read() and the write-after-read scan take it to overlap are the ones the L2
\* touches, no more and no fewer.
OverlapExact ==
    last.kind # "cp" => \A b \in Blocks :
        Overlaps(b, last.a, last.size)
        <=> b \in {slotAddr(last.a, i) : i \in Parts(last.a, last.size)}

\* The scratchpad holds what the program's copies and stores meant to put
\* there, whatever blocks an access spans and wherever in one it starts.
ContentExact == data = expected

\* A load returns the bytes the program meant, and zeros if one of its blocks
\* has not been copied to.
LoadExact ==
    last.kind = "ld" => \A k \in 0 .. last.size - 1 :
        last.read[k] = IF MeantBlocks(last.a, last.size) \subseteq spm
                       THEN expected[MeantBlock(last.a, k)][MeantOffset(last.a, k)]
                       ELSE 0

\* The comment on spm.ld1qd in the kernels: a load of two blocks reads two
\* consecutive ways.
ConsecutiveWays ==
    last.kind = "ld" => \A i \in Parts(last.a, last.size) :
        spm_get_way(slotAddr(last.a, i)) = spm_get_way(last.a) + i

\* The comments beside the 32-byte copies of the kernels, "Way1 <- B[k, 16..31]"
\* for a source 32 bytes into the row: a copy takes the bytes its memory operand
\* names.
CopyTakesNamed ==
    last.kind = "cp" /\ ops > 1 => \A k \in 0 .. last.size - 1 :
        data[firstSlotBase(last.a)][spm_get_offset(last.a) + k]
        = Value(ops - 1, last.src + k)

\* The message of the L2 on a store to a block that is not claimed: the store is
\* ignored, so it leaves no byte anywhere.
StoreIgnored ==
    last.kind = "st" /\ ~(MeantBlocks(last.a, last.size) \subseteq spm) =>
        \A b \in Blocks, o \in 0 .. blkSize - 1 :
            data[b][o] \div 100 # ops - 1
=============================================================================
