------------------------------ MODULE SpmCache ------------------------------
(***************************************************************************)
(* The L1 data cache and the L2 cache of one core, as far as the           *)
(* scratchpad commands use them: spm.cp copies a memory line into a        *)
(* scratchpad slot and spm.wb copies a slot to a memory line, while        *)
(* ordinary loads and stores go on.  A slot is a way of the L2 that was    *)
(* claimed by its first spm.cp.                                            *)
(*                                                                         *)
(* One set of the L2 is modelled.  `Lines' are memory lines of that set    *)
(* and `Ways' its ways.  A line or a slot holds one value: the content a   *)
(* line starts with (the line itself) or the number of a store.            *)
(*                                                                         *)
(* The L1 sends a request by calling into the L2 (through the crossbar),   *)
(* so a send is one step of both caches.  Responses are scheduled and      *)
(* arrive in a step of their own.                                          *)
(***************************************************************************)
EXTENDS Integers, Sequences, FiniteSets, Functions

CONSTANTS
    Lines,          \* memory lines of the modelled set
    Ways,           \* ways of the set; a slot is one of them
    Temp,           \* BaseCache::tempBlock, not a way
    None,           \* no line, no way, no value
    WbSizes,        \* may spm.wb cover a whole line (TRUE), a part of it (FALSE)
    Program,        \* the rules the program keeps: see MayCommand
    Q1Entries,      \* entries of the L1 write buffer
    Q2Entries,      \* entries of the L2 write buffer
    MaxTargets,     \* targets of one MSHR
    MaxStores, MaxCopies, MaxWritebacks, MaxLoads   \* bounds of the instance

ASSUME ConstantsAssumption ==
    /\ None \notin Lines \cup Ways \cup {Temp}
    /\ Temp \notin Ways
    /\ IsFiniteSet(Lines)
    /\ MaxTargets \in Nat
    /\ WbSizes \subseteq BOOLEAN
    /\ Program \subseteq {"fenced", "drained", "claimed", "settled", "unshared",
                          "apart", "streamed"}

VARIABLES
    l1,       \* the L1 block of a line
    m1,       \* the L1 MSHR of a line
    q1,       \* the L1 write buffer, in allocation order
    l2,       \* the L2: ways, MSHRs, write buffer, responses on their way up
    memory,   \* what is below the L2
    line,     \* what the program's stores and spm.wb left in a line, in order
    slot,     \* what the program's spm.cp and spm.st left in a slot, in order
    used      \* how many operations of each kind were issued

vars == <<l1, m1, q1, l2, memory, line, slot, used>>

Value == Lines \cup 1 .. MaxStores

Blk(st, tag, rd, wr, dt, v) ==
    [st |-> st, tag |-> tag, rd |-> rd, wr |-> wr, dt |-> dt,
     wait |-> FALSE, val |-> v]

Invalid == Blk("inv", None, FALSE, FALSE, FALSE, None)

Pkt(c, a, w, full, found, wr, v) ==
    [c |-> c, a |-> a, w |-> w, full |-> full, found |-> found,
     wr |-> wr, after |-> FALSE, val |-> v]

IsSpm(e) == e.c \in {"cp", "wb"}

Places(q, a) == {i \in 1 .. Len(q) : q[i].a = a}

First(S) == CHOOSE i \in S : \A j \in S : i <= j

-----------------------------------------------------------------------------
(* Queue selection, shared by both caches. *)

\* Whether an MSHR is allocated, and whether it still has to be sent.
Has(m) == m.tg # <<>>
Pending(m) == Has(m) /\ m.sent = "none"

\* A write buffer is sorted by ready time.  The ready time of a command that
\* hit in the L1 includes the wait for the block's data, and an eviction made
\* by a fill has no tag latency, so these may be ready before older commands.
Ready(q, i) ==
    \A j \in 1 .. (i - 1) : IsSpm(q[j]) /\ (q[j].found \/ ~IsSpm(q[i]))

\* Variant: a write always gives way to a pending miss to its line.
MaySendWriteYield(q, m, i) == Ready(q, i) /\ ~Pending(m[q[i].a])

\* A write is sent from the head of the ready list unless an older miss to the
\* line is pending, or because a pending miss to its line waits for it.
MaySendWrite(q, m, i) ==
    \/ Ready(q, i) /\ ~(Pending(m[q[i].a]) /\ q[i].after)
    \/ Pending(m[q[i].a]) /\ i = First(Places(q, q[i].a))

\* Variant: a miss is sent without a look at the write buffer.
MaySendMissBlind(q, m, a) == Pending(m[a])

\* A miss is sent when no write to its line is queued, or when the write at the
\* head of the ready list is younger than it.
MaySendMiss(q, m, a) ==
    /\ Pending(m[a])
    /\ \/ Places(q, a) = {}
       \/ \E i \in Places(q, a) : Ready(q, i) /\ q[i].after

\* allocateWriteBuffer: at the end, with its order relative to the line's miss.
Enqueue(q, m, e) == Append(q, [e EXCEPT !.after = Pending(m[e.a])])

\* Entry i leaves the queue, the others keep their order.
Deallocate(q, i) == SubSeq(q, 1, i - 1) \o SubSeq(q, i + 1, Len(q))

-----------------------------------------------------------------------------
(* The L2.  An operator maps the state s of the L2 to the set of states its *)
(* handler can leave it in; s.bad names the assertion that stopped the run. *)

Bad(s, name) == [s EXCEPT !.bad = name]

Find(s, a) == {w \in Ways : s.way[w].st = "line" /\ s.way[w].tag = a}

NeedsWritable(t) == t.c \in {"ex", "up", "wb"}

\* What a snoop from below learns of a line in the L1: an MSHR or a queued
\* eviction means it is cached, a queued scratchpad command ends the snoop.
IsCachedAbove(a) ==
    \/ Has(m1[a])
    \/ IF Places(q1, a) # {}
       THEN ~IsSpm(q1[First(Places(q1, a))])
       ELSE l1[a].st = "line"

\* Variant: a dirty block is dropped too when the line is cached above.
EvictIfUncached(s, w) ==
    LET b == s.way[w]
        e == Pkt(IF b.dt THEN "wbd" ELSE "ce", b.tag, None, FALSE, FALSE,
                 b.wr, b.val)
    IN [s EXCEPT !.way[w] = Invalid,
                 !.buf = IF b.st # "line" \/ IsCachedAbove(b.tag)
                         THEN @ ELSE Enqueue(@, s.mshr, e)]

\* evictBlock and doWritebacks: dirty data is queued for memory, a clean
\* eviction is dropped when the line is cached above.
Evict(s, w) ==
    LET b == s.way[w]
        e == Pkt(IF b.dt THEN "wbd" ELSE "ce", b.tag, None, FALSE, FALSE,
                 b.wr, b.val)
    IN [s EXCEPT !.way[w] = Invalid,
                 !.buf = IF b.st # "line" \/ (~b.dt /\ IsCachedAbove(b.tag))
                         THEN @ ELSE Enqueue(@, s.mshr, e)]

Busy(s, w) == s.way[w].st = "line" /\ Has(s.mshr[s.way[w].tag])

\* The assertion of handleEvictions on a block it may not evict.
BusyAsExpected(s, w) ==
    Busy(s, w) => /\ ~s.way[w].wr
                  /\ \E i \in DOMAIN s.mshr[s.way[w].tag].tg :
                        NeedsWritable(s.mshr[s.way[w].tag].tg[i])

\* Variant: claimed ways are victims like any other.
VictimsAny(s) == {w \in Ways : ~s.way[w].wait}

Victims(s) == {w \in Ways : s.way[w].st # "spm" /\ ~s.way[w].wait}

\* allocateBlock: <<the state after it, the way allocated or None>>, for any
\* choice of the replacement policy.
Allocate(s, a) ==
    IF Victims(s) = {} THEN {<<s, None>>}
    ELSE {IF Busy(s, w)
          THEN <<IF BusyAsExpected(s, w) THEN s ELSE Bad(s, "evict"), None>>
          ELSE <<[Evict(s, w) EXCEPT
                    !.way[w] = Blk("line", a, FALSE, FALSE, FALSE, None)], w>>
          : w \in Victims(s)}

\* handleTimingReqMiss: join the line's MSHR or allocate one, and make a valid
\* block unreadable while the miss is outstanding.
Miss(s, a, t) ==
    LET m == s.mshr[a]
        deferred == \/ m.df # <<>>
                    \/ /\ m.sent # "none"
                       /\ NeedsWritable(t)
                       /\ m.sent \in {"read", "forward"}
    IN IF Has(m)
       THEN IF deferred THEN [s EXCEPT !.mshr[a].df = Append(@, t)]
                        ELSE [s EXCEPT !.mshr[a].tg = Append(@, t)]
       ELSE IF \E w \in Find(s, a) : ~NeedsWritable(t) \/ s.way[w].wr
       THEN Bad(s, "miss")
       ELSE [s EXCEPT
               !.mshr[a] = [tg |-> <<t>>, df |-> <<>>, sent |-> "none"],
               !.way = [w \in DOMAIN @ |->
                          IF w \in Find(s, a) THEN [@[w] EXCEPT !.rd = FALSE]
                                              ELSE @[w]]]

\* Variants: two acknowledgements for a command, or none.
AnswerTwice(s, w) == [s EXCEPT !.owed[w] = @ - 2]
AnswerNever(s, w) == s

Answer(s, w) == [s EXCEPT !.owed[w] = @ - 1]

\* satisfyRequest for a request of the L1: a dirty block goes up as modified,
\* unless the read had to wait for a miss of the L2: then it goes up shared.
Respond(s, a, b, c, late) ==
    LET k == s.way[b]
        shared == c = "rd" /\ (~k.wr \/ (k.dt /\ late))
    IN [s EXCEPT !.resp[a] = [up |-> c = "up", wr |-> ~shared,
                              dt |-> ~shared /\ k.dt, val |-> k.val],
                 !.way[b].dt = shared /\ @]

\* access for a ReadShared, ReadEx or Upgrade request of the L1.
Request(s, a, c) ==
    LET hit == {w \in Find(s, a) : IF c = "rd" THEN s.way[w].rd ELSE s.way[w].wr}
    IN IF hit # {} THEN {Respond(s, a, w, c, FALSE) : w \in hit}
       ELSE {Miss(s, a, [c |-> c, w |-> None, full |-> FALSE])}

\* access for an eviction of the L1.  It may only meet a dirty writeback of the
\* line in the write buffer.  A writeback finds or allocates a block, or else it
\* is queued for memory; a clean eviction ends here if the block is found.
Eviction(s, e) ==
    LET a == e.a
        queued == Places(s.buf, a)
        s1 == IF queued # {} /\ e.c = "wbd"
              THEN [s EXCEPT !.buf = Deallocate(@, First(queued))] ELSE s
        Forward(z) ==
            IF ~Has(z.mshr[a]) THEN [z EXCEPT !.buf = Enqueue(@, z.mshr, e)]
            ELSE IF e.c = "ce" THEN z ELSE Bad(z, "forward")
        Fill(z, w) ==
            IF w = None THEN Forward(z)
            ELSE [z EXCEPT !.way[w].rd = TRUE, !.way[w].dt = TRUE,
                           !.way[w].wr = @ \/ e.wr, !.way[w].val = e.val]
    IN IF queued # {} /\ s.buf[First(queued)].c # "wbd" THEN {Bad(s, "meet")}
       ELSE IF e.c = "ce"
       THEN {IF queued # {} \/ Find(s, a) # {} THEN s ELSE Forward(s)}
       ELSE IF Find(s, a) # {}
       THEN {[s1 EXCEPT !.way[w].dt = TRUE, !.way[w].wr = @ \/ e.wr,
                        !.way[w].val = e.val] : w \in Find(s, a)}
       ELSE {Fill(r[1], r[2]) : r \in Allocate(s1, a)}

\* access for spm.cp: the data comes with the command (found in the L1), from
\* the L2 block, or from a miss.  The first command claims the way, evicting
\* its block; a block with an MSHR cannot be evicted.  With the data at hand the
\* command then joins the misses, otherwise the way is claimed all the same.
Copy(s, e) ==
    LET t == [c |-> "cp", w |-> e.w, full |-> FALSE]
        src == Find(s, e.a)
        data == IF e.found THEN e.val ELSE s.way[CHOOSE b \in src : TRUE].val
        claimed == s.way[e.w].st = "spm"
        kept == [s EXCEPT !.way[e.w].wr = FALSE, !.way[e.w].wait = TRUE]
        Claim(v) == [Evict(s, e.w) EXCEPT
                        !.way[e.w] = Blk("spm", None, FALSE, FALSE, FALSE, v)]
    IN IF ~claimed /\ ~BusyAsExpected(s, e.w) THEN Bad(s, "evict")
       ELSE IF e.found \/ src # {}
       THEN IF claimed THEN Answer([s EXCEPT !.way[e.w].val = data], e.w)
            ELSE IF Busy(s, e.w) THEN Miss(kept, e.a, t)
            ELSE Answer(Claim(data), e.w)
       ELSE IF claimed THEN Miss(s, e.a, t)
            ELSE IF Busy(s, e.w)
            THEN Miss([kept EXCEPT !.way[e.w].st = "spm",
                                   !.way[e.w].tag = None], e.a, t)
            ELSE Miss(Claim(None), e.a, t)

\* access for spm.wb: the slot is written to the line's block if there is one,
\* or to a new one if the command covers the line.  Without a writable block
\* the command is a miss.
Writeback(s, e) ==
    LET t == [c |-> "wb", w |-> e.w, full |-> e.full]
        v == s.way[e.w].val
        Into(z, w) == [z EXCEPT !.way[w].val = v, !.way[w].dt = TRUE]
    IN IF s.way[e.w].st # "spm" THEN {Bad(s, "slot")}
       ELSE IF Find(s, e.a) # {}
       THEN {IF s.way[w].wr THEN Answer(Into(s, w), e.w)
                            ELSE Miss(Into(s, w), e.a, t) : w \in Find(s, e.a)}
       ELSE IF e.full
       THEN {IF r[2] = None THEN Miss(r[1], e.a, t)
             ELSE Miss([Into(r[1], r[2]) EXCEPT !.way[r[2]].rd = TRUE], e.a, t)
             : r \in Allocate(s, e.a)}
       ELSE {Miss(s, e.a, t)}

\* Whether the targets write the whole line: a covering spm.wb that only
\* follows other writes; spm.cp never counts as a write.
WholeLineWrite(tg) ==
    \E k \in DOMAIN tg : /\ tg[k].c = "wb" /\ tg[k].full
                         /\ \A j \in 1 .. k : tg[j].c = "wb"

\* createMissPacket: what is sent for an MSHR.
MissKind(s, a) ==
    LET tg == s.mshr[a].tg
        writable == \E w \in Find(s, a) : s.way[w].wr
        needs == \E k \in DOMAIN tg : NeedsWritable(tg[k])
    IN IF Find(s, a) = {}
       THEN IF tg[1].c = "up" THEN "forward"
            ELSE IF WholeLineWrite(tg) THEN "invalidate"
            ELSE IF needs THEN "readEx" ELSE "read"
       ELSE IF writable \/ ~needs THEN "bad"
            ELSE IF WholeLineWrite(tg) THEN "invalidate" ELSE "upgrade"

SendMissTo(s, a) ==
    IF MissKind(s, a) = "bad" THEN Bad(s, "send")
    ELSE [s EXCEPT !.mshr[a].sent = MissKind(s, a)]

\* serviceMSHRTargets, for one target and the block b of the line.
Service(s, a, b, t) ==
    IF b = None
    THEN IF t.c = "up"
         THEN [s EXCEPT !.resp[a] = [up |-> TRUE, wr |-> TRUE, dt |-> FALSE,
                                     val |-> None]]
         ELSE Bad(s, "service")
    ELSE CASE t.c = "cp" ->
                Answer(IF s.way[t.w].st = "spm"
                       THEN [s EXCEPT !.way[t.w].val = s.way[b].val] ELSE s, t.w)
           [] t.c = "wb" ->
                IF s.way[t.w].st # "spm" THEN Bad(s, "slot")
                ELSE Answer([s EXCEPT !.way[b].val = s.way[t.w].val,
                                      !.way[b].dt = TRUE], t.w)
           [] OTHER -> Respond(s, a, b, t.c, TRUE)

ServiceAll(s, a, b, tgs) ==
    LET after[k \in 0 .. Len(tgs)] ==
            IF k = 0 THEN s ELSE Service(after[k - 1], a, b, tgs[k])
    IN after[Len(tgs)]

NoMshr == [tg |-> <<>>, df |-> <<>>, sent |-> "none"]

\* recvTimingResp for a fill: with handleFill, the block is the one found, the
\* temporary block for a miss that a scratchpad command started or when no way
\* can be allocated, or a newly allocated one.  All targets are serviced, the
\* deferred ones too, since the response is writable.
FillFrom(s, a, data) ==
    LET m == s.mshr[a]
        blocks == IF Find(s, a) # {} THEN {<<s, w>> : w \in Find(s, a)}
                  ELSE IF IsSpm(m.tg[1]) THEN {<<s, Temp>>}
                  ELSE {<<r[1], IF r[2] = None THEN Temp ELSE r[2]>>
                        : r \in Allocate(s, a)}
        Filled(z, b) ==
            [z EXCEPT !.way[b].st = "line", !.way[b].tag = a,
                      !.way[b].rd = TRUE, !.way[b].wr = TRUE,
                      !.way[b].val = IF m.sent \in {"read", "readEx"}
                                     THEN data ELSE @]
        Done(z, b) == LET y == [z EXCEPT !.mshr[a] = NoMshr]
                      IN IF b = Temp THEN Evict(y, Temp) ELSE y
    IN IF Places(s.buf, a) # {} THEN {Bad(s, "fill")}
       ELSE IF Find(s, a) = {} /\ m.sent = "upgrade" THEN {Bad(s, "nodata")}
       ELSE {Done(ServiceAll(Filled(r[1], r[2]), a, r[2], m.tg \o m.df), r[2])
             : r \in blocks}

\* recvTimingResp for a forwarded upgrade: nothing is filled, and deferred
\* targets are sent anew unless a writable block has appeared; a block that is
\* there may not be read until then.
ForwardedResp(s, a) ==
    LET m == s.mshr[a]
        b == IF Find(s, a) = {} THEN None ELSE CHOOSE w \in Find(s, a) : TRUE
        promote == b # None /\ s.way[b].wr
        z == ServiceAll(s, a, b, IF promote THEN m.tg \o m.df ELSE m.tg)
        y == [z EXCEPT !.mshr[a] = IF promote THEN NoMshr
                                   ELSE [tg |-> m.df, df |-> <<>>, sent |-> "none"]]
    IN IF b # None /\ ~promote /\ m.df # <<>>
       THEN [y EXCEPT !.way[b].rd = FALSE] ELSE y

L2Blocked ==
    \/ Len(l2.buf) >= Q2Entries
    \/ \E a \in Lines : Len(l2.mshr[a].tg) + Len(l2.mshr[a].df) >= MaxTargets

-----------------------------------------------------------------------------
(* The steps. *)

Running == l2.bad = "none"

Issue(kind, bound) == Running /\ used[kind] < bound
                      /\ used' = [used EXCEPT ![kind] = @ + 1]

\* A miss of the L1 joins the line's MSHR; v is the value of a store.
Join1(a, v) ==
    /\ Len(m1[a].tg) < MaxTargets
    /\ m1' = [m1 EXCEPT ![a].tg = Append(@, v)]

Load(a) ==
    /\ Issue("load", MaxLoads)
    /\ ~(l1[a].st = "line" /\ l1[a].rd)
    /\ Join1(a, None)
    /\ UNCHANGED <<l1, q1, l2, memory, line, slot>>

Store(a) ==
    /\ Issue("store", MaxStores)
    /\ line' = [line EXCEPT ![a] = used.store + 1]
    /\ \/ /\ l1[a].st = "line" /\ l1[a].wr
          /\ l1' = [l1 EXCEPT ![a].val = used.store + 1, ![a].dt = TRUE]
          /\ UNCHANGED m1
       \/ /\ ~(l1[a].st = "line" /\ l1[a].wr)
          /\ Join1(a, used.store + 1)
          /\ l1' = [l1 EXCEPT ![a].rd = FALSE]
    /\ UNCHANGED <<q1, l2, memory, slot>>

\* The commands of kind c for line a that are not answered yet: in the L1 write
\* buffer or waiting in an MSHR of the L2.
Outstanding(c, a) ==
    \/ \E i \in Places(q1, a) : q1[i].c = c
    \/ \E t \in Range(l2.mshr[a].tg \o l2.mshr[a].df) : t.c = c

\* The rules a program may keep.
\* fenced: one command at a time for a slot and for a line.
\* settled: no command for a line the L1 has a miss for.
MayCommand(w, a) ==
    /\ "fenced" \in Program =>
          l2.owed[w] = 0 /\ ~Outstanding("cp", a) /\ ~Outstanding("wb", a)
    /\ "settled" \in Program => ~Has(m1[a])
    /\ Len(q1) < Q1Entries

Above(a) == l1[a].st = "line" \/ Has(m1[a]) \/ Places(q1, a) # {}

\* apart: no slot is claimed while an spm.wb is outstanding.
\* streamed: spm.cp only reads lines the L1 holds nothing of.
MayCopy(w, a) ==
    /\ MayCommand(w, a)
    /\ "streamed" \in Program => ~Above(a)
    /\ "apart" \in Program /\ slot[w] = None =>
          \A b \in Lines : ~Outstanding("wb", b)

\* claimed: spm.wb and spm.st only name slots that a spm.cp was issued for.
\* unshared: spm.wb only writes lines the L1 holds nothing of.
MayWriteback(w, a) ==
    /\ MayCommand(w, a)
    /\ "claimed" \in Program => slot[w] # None
    /\ "apart" \in Program =>
          \A x \in Ways : l2.owed[x] > 0 => l2.way[x].st = "spm"
    /\ "unshared" \in Program => ~Above(a)

\* Variant: the L1 does not attach its data to the command.
CommandBare(c, a, w, full) ==
    /\ q1' = Enqueue(q1, m1, Pkt(c, a, w, full, FALSE, FALSE, None))
    /\ l2' = [l2 EXCEPT !.owed[w] = @ + 1]

\* The L1 access of a command takes along the block's data if it has it, and
\* queues the command in the write buffer.
Command(c, a, w, full) ==
    /\ q1' = Enqueue(q1, m1, Pkt(c, a, w, full, l1[a].st = "line", FALSE,
                                 l1[a].val))
    /\ l2' = [l2 EXCEPT !.owed[w] = @ + 1]

IssueCopy(a, w) ==
    /\ Issue("copy", MaxCopies)
    /\ MayCopy(w, a)
    /\ Command("cp", a, w, FALSE)
    /\ slot' = [slot EXCEPT ![w] = line[a]]
    /\ UNCHANGED <<l1, m1, memory, line>>

IssueWriteback(w, a, full) ==
    /\ Issue("wb", MaxWritebacks)
    /\ MayWriteback(w, a)
    /\ Command("wb", a, w, full)
    /\ line' = [line EXCEPT ![a] = slot[w]]
    /\ UNCHANGED <<l1, m1, memory, slot>>

\* drained: spm.st only names slots whose commands have been answered.  The LSQ
\* holds spm.st back for nothing: it may overtake the slot's older commands.
MaySpmStore(w) ==
    /\ "claimed" \in Program => slot[w] # None
    /\ "drained" \in Program => l2.owed[w] = 0

\* spm.st: the L2 writes the slot within the call, or ignores the store when the
\* way is not claimed.
SpmStore(w) ==
    /\ Issue("store", MaxStores)
    /\ MaySpmStore(w)
    /\ slot' = [slot EXCEPT ![w] = used.store + 1]
    /\ l2' = IF l2.way[w].st = "spm"
             THEN [l2 EXCEPT !.way[w].val = used.store + 1] ELSE l2
    /\ UNCHANGED <<l1, m1, q1, memory, line>>

\* A fill of some other line takes the place of this one in the L1.
L1Evict(a) ==
    /\ Running
    /\ l1[a].st = "line" /\ ~Has(m1[a]) /\ Len(q1) <= Q1Entries
    /\ q1' = Enqueue(q1, m1, Pkt(IF l1[a].dt THEN "wbd" ELSE "ce", a, None,
                                 FALSE, FALSE, l1[a].wr, l1[a].val))
    /\ l1' = [l1 EXCEPT ![a] = Invalid]
    /\ UNCHANGED <<m1, l2, memory, line, slot, used>>

\* The L1 sends a miss: an upgrade for a block it has, else a read.
L1SendMiss(a) ==
    /\ Running /\ ~L2Blocked
    /\ MaySendMiss(q1, m1, a)
    /\ \E s \in Request(l2, a, IF l1[a].st = "line" THEN "up"
                               ELSE IF Range(m1[a].tg) = {None} THEN "rd"
                               ELSE "ex") : l2' = s
    /\ m1' = [m1 EXCEPT ![a].sent = "sent"]
    /\ UNCHANGED <<l1, q1, memory, line, slot, used>>

\* The L1 sends an entry of its write buffer and the L2 handles it.
L1SendWrite(i) ==
    /\ Running /\ ~L2Blocked
    /\ MaySendWrite(q1, m1, i)
    /\ q1' = Deallocate(q1, i)
    /\ \/ q1[i].c = "cp" /\ l2' = Copy(l2, q1[i])
       \/ q1[i].c = "wb" /\ \E s \in Writeback(l2, q1[i]) : l2' = s
       \/ ~IsSpm(q1[i]) /\ \E s \in Eviction(l2, q1[i]) : l2' = s
    /\ UNCHANGED <<l1, m1, memory, line, slot, used>>

\* recvTimingResp of the L1: fill the block, then service the targets; with a
\* shared block only the loads before the first store, and the rest is sent
\* anew as an upgrade.
L1RecvResp(a) ==
    LET r == l2.resp[a]
        tg == m1[a].tg
        stores == {i \in DOMAIN tg : tg[i] # None}
        left == IF r.wr \/ stores = {} THEN <<>>
                ELSE SubSeq(tg, First(stores), Len(tg))
        stored == r.wr /\ stores # {}
        base == IF r.up THEN l1[a].val ELSE r.val
    IN /\ Running /\ r # None
       /\ IF Places(q1, a) # {}
          THEN /\ l2' = Bad(l2, "fill")
               /\ UNCHANGED <<l1, m1>>
          ELSE /\ l2' = [l2 EXCEPT !.resp[a] = None]
               /\ l1' = [l1 EXCEPT ![a] =
                    Blk("line", a, left = <<>>, r.wr \/ l1[a].wr,
                        r.dt \/ l1[a].dt \/ stored,
                        IF stored THEN tg[CHOOSE i \in stores :
                                            \A j \in stores : j <= i]
                                  ELSE base)]
               /\ m1' = [m1 EXCEPT ![a] = [tg |-> left, sent |-> "none"]]
       /\ UNCHANGED <<q1, memory, line, slot, used>>

L2SendMiss(a) ==
    /\ Running
    /\ MaySendMiss(l2.buf, l2.mshr, a)
    /\ l2' = SendMissTo(l2, a)
    /\ UNCHANGED <<l1, m1, q1, memory, line, slot, used>>

L2SendWrite(i) ==
    /\ Running
    /\ MaySendWrite(l2.buf, l2.mshr, i)
    /\ l2' = [l2 EXCEPT !.buf = Deallocate(@, i)]
    /\ memory' = IF l2.buf[i].c = "wbd"
                 THEN [memory EXCEPT ![l2.buf[i].a] = l2.buf[i].val] ELSE memory
    /\ UNCHANGED <<l1, m1, q1, line, slot, used>>

L2RecvResp(a) ==
    /\ Running
    /\ Has(l2.mshr[a])
    /\ \/ l2.mshr[a].sent \in {"read", "readEx", "upgrade", "invalidate"}
          /\ \E s \in FillFrom(l2, a, memory[a]) : l2' = s
       \/ l2.mshr[a].sent = "forward" /\ l2' = ForwardedResp(l2, a)
    /\ UNCHANGED <<l1, m1, q1, memory, line, slot, used>>

Init ==
    /\ l1 = [a \in Lines |-> Invalid]
    /\ m1 = [a \in Lines |-> [tg |-> <<>>, sent |-> "none"]]
    /\ q1 = <<>>
    /\ l2 = [way |-> [w \in Ways \cup {Temp} |-> Invalid],
             mshr |-> [a \in Lines |-> NoMshr],
             buf |-> <<>>,
             resp |-> [a \in Lines |-> None],
             owed |-> [w \in Ways |-> 0],
             bad |-> "none"]
    /\ memory = [a \in Lines |-> a]
    /\ line = [a \in Lines |-> a]
    /\ slot = [w \in Ways |-> None]
    /\ used = [store |-> 0, copy |-> 0, wb |-> 0, load |-> 0]

Next ==
    \/ \E a \in Lines : \/ Load(a) \/ Store(a) \/ L1Evict(a)
                        \/ L1SendMiss(a) \/ L1RecvResp(a)
                        \/ L2SendMiss(a) \/ L2RecvResp(a)
    \/ \E a \in Lines, w \in Ways : IssueCopy(a, w)
    \/ \E a \in Lines, w \in Ways, f \in WbSizes : IssueWriteback(w, a, f)
    \/ \E w \in Ways : SpmStore(w)
    \/ \E i \in 1 .. Len(q1) : L1SendWrite(i)
    \/ \E i \in 1 .. Len(l2.buf) : L2SendWrite(i)

Spec == Init /\ [][Next]_vars

\* Both caches schedule a send event while they have something ready to send, a
\* response that is scheduled arrives, and memory answers.
Fairness ==
    /\ \A a \in Lines : /\ WF_vars(L1SendMiss(a)) /\ WF_vars(L1RecvResp(a))
                        /\ WF_vars(L2SendMiss(a)) /\ WF_vars(L2RecvResp(a))
    /\ WF_vars(\E i \in 1 .. Len(q1) : L1SendWrite(i))
    /\ WF_vars(\E i \in 1 .. Len(l2.buf) : L2SendWrite(i))

FairSpec == Spec /\ Fairness

-----------------------------------------------------------------------------
(* Properties. *)

\* What a load of line a would read.
Visible(a) ==
    LET up == {i \in Places(q1, a) : q1[i].c = "wbd"}
        down == {i \in Places(l2.buf, a) : l2.buf[i].c = "wbd"}
    IN IF l1[a].st = "line" THEN l1[a].val
       ELSE IF up # {} THEN q1[CHOOSE i \in up : \A j \in up : j <= i].val
       ELSE IF Find(l2, a) # {} THEN l2.way[CHOOSE w \in Find(l2, a) : TRUE].val
       ELSE IF down # {} THEN l2.buf[CHOOSE i \in down : \A j \in down : j <= i].val
       ELSE memory[a]

\* The targets of the L2's MSHRs that belong to slot w.
TargetsOf(w) ==
    {x \in Lines \X (1 .. MaxTargets + 1) :
        LET tg == l2.mshr[x[1]].tg \o l2.mshr[x[1]].df
        IN x[2] \in DOMAIN tg /\ tg[x[2]].w = w}

BlkType == [st : {"inv", "line", "spm"}, tag : Lines \cup {None}, rd : BOOLEAN,
            wr : BOOLEAN, dt : BOOLEAN, wait : BOOLEAN, val : Value \cup {None}]

PktType == [c : {"cp", "wb", "wbd", "ce"}, a : Lines, w : Ways \cup {None},
            full : BOOLEAN, found : BOOLEAN, wr : BOOLEAN, after : BOOLEAN,
            val : Value \cup {None}]

\* The types of the caches' state.  The L2 write buffer keeps to the space the
\* code gives it: fills evict although the buffer is full and the cache blocked,
\* for which there is one more entry per MSHR, here per line.  (The length of q1
\* is bounded by the guards of the commands and of L1Evict.)
TypeOK ==
    /\ l1 \in [Lines -> BlkType]
    /\ Len(q1) <= Q1Entries + 1 /\ Range(q1) \subseteq PktType
    /\ l2.way \in [Ways \cup {Temp} -> BlkType]
    /\ l2.way[Temp] = Invalid \/ ~Running
    /\ Len(l2.buf) <= Q2Entries + Cardinality(Lines) /\ Range(l2.buf) \subseteq PktType
    /\ l2.owed \in [Ways -> Nat]
    /\ memory \in [Lines -> Value] /\ line \in [Lines -> Value]
    /\ slot \in [Ways -> Value \cup {None}]

\* A line with no miss and no spm.wb outstanding has the value that the stores
\* and spm.wb of the program left in it, wherever the L1, the write buffers, the
\* L2 and memory keep it: claiming a way (BaseCache::access) writes its dirty
\* block back, and a slot written to an L2 block or through an MSHR arrives.
MemoryExact ==
    Running => \A a \in Lines :
        ~Has(m1[a]) /\ ~Outstanding("wb", a) => Visible(a) = line[a]

\* A slot with no command outstanding holds what its last spm.cp or spm.st put
\* there: an acknowledged spm.cp took the newest data of the line, from the L1
\* block, the L2 block or the fill, and no fill or eviction touched the way.
SlotExact ==
    Running => \A w \in Ways :
        l2.owed[w] = 0 /\ slot[w] # None
        => l2.way[w].st = "spm" /\ l2.way[w].val = slot[w]

\* Each command is in one place until it is answered and is answered once: the
\* acknowledgements a slot is owed are its commands in the L1 write buffer and
\* among the MSHR targets of the L2.  The pending table of the LSQ counts on it.
OwedExact ==
    Running => \A w \in Ways :
        l2.owed[w] = Cardinality({i \in DOMAIN q1 : q1[i].w = w})
                     + Cardinality(TargetsOf(w))

\* A claimed way stays claimed: the replacement policy never gives it to a line
\* (findVictim skips scratchpad blocks), and its value changes only by the
\* answer to one of its own commands or by spm.st.
ClaimedForever ==
    [][\A w \in Ways : l2.way[w].st = "spm" =>
         /\ l2'.way[w].st = "spm"
         /\ l2'.way[w].val # l2.way[w].val =>
               l2'.owed[w] < l2.owed[w] \/ used'.store > used.store]_vars

(***************************************************************************)
(* What OwedExact and ClaimedForever rest on, whatever the program does.   *)
(***************************************************************************)

\* A target of an L2 MSHR: a scratchpad command names a slot, a request of the
\* L1 none.
TargetType == [c : {"cp", "wb"}, w : Ways, full : BOOLEAN]
              \cup [c : {"rd", "ex", "up"}, w : {None}, full : BOOLEAN]

\* An MSHR; targets are deferred only behind others.
MshrType ==
    {m \in [tg : Seq(TargetType), df : Seq(TargetType),
            sent : {"none", "read", "readEx", "upgrade", "invalidate", "forward"}] :
        m.tg = <<>> => m.df = <<>>}

\* A block has the fields of Blk.
IsBlk(b) == b = [st |-> b.st, tag |-> b.tag, rd |-> b.rd, wr |-> b.wr,
                 dt |-> b.dt, wait |-> b.wait, val |-> b.val]

\* The L2 has the fields of Init.
IsL2(s) == s = [way |-> s.way, mshr |-> s.mshr, buf |-> s.buf,
                resp |-> s.resp, owed |-> s.owed, bad |-> s.bad]

\* The state of the L2 as its handlers take it and leave it.
L2Type(s) ==
    /\ IsL2(s)
    /\ s.way = [w \in Ways \cup {Temp} |-> s.way[w]]
    /\ \A w \in Ways \cup {Temp} : IsBlk(s.way[w])
    /\ s.mshr \in [Lines -> MshrType]
    /\ s.owed \in [Ways -> Int]

\* A packet of the L1 names a slot exactly if it is a scratchpad command.
Packet(e) ==
    /\ e.a \in Lines /\ e.full \in BOOLEAN
    /\ IF IsSpm(e) THEN e.w \in Ways ELSE e.w = None

\* The targets of a miss stay within the room of its MSHR.
TargetsFit ==
    Running => \A a \in Lines :
        Len(l2.mshr[a].tg) + Len(l2.mshr[a].df) <= MaxTargets

AnswerInv ==
    /\ L2Type(l2)
    /\ q1 \in Seq(Range(q1)) /\ \A i \in DOMAIN q1 : Packet(q1[i])
    /\ used = [store |-> used.store, copy |-> used.copy, wb |-> used.wb,
               load |-> used.load]
    /\ used.store \in Nat
    /\ TargetsFit
    /\ OwedExact

\* None of the assertions of the two caches fails.
AssertsHold == Running

\* The comment in BaseCache::access on evictions from above: since the caches
\* above are asked before an eviction is queued, an arriving eviction can only
\* meet a writeback in the write buffer, which the assertion after it checks.
EvictionMeetsWriteback == l2.bad # "meet"

\* The comment in serviceMSHRTargets: the slot of an spm.cp that waited for a
\* miss "should have been handled in access()".  So a slot whose commands are
\* all answered is a claimed way.
CopyFindsSlot ==
    Running => \A w \in Ways :
        l2.owed[w] = 0 /\ slot[w] # None => l2.way[w].st = "spm"

\* The comment in handleFill: "When handling a fill, we should have no writes
\* to this line", which the assertion after it checks.
FillMeetsNoWrite == l2.bad # "fill"

\* Every command is answered: a slot's acknowledgements all arrive, so that the
\* LSQ's spm.ld to the slot does not wait forever.
CommandsAnswered == \A w \in Ways : l2.owed[w] > 0 ~> l2.owed[w] = 0

\* Every miss of the L1 ends, whatever commands are queued for its line.
MissesFilled == \A a \in Lines : Has(m1[a]) ~> ~Has(m1[a])
=============================================================================
