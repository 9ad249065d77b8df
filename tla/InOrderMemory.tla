--------------------------- MODULE InOrderMemory ---------------------------
(***************************************************************************)
(* What the main load/store queue promises the program: loads and stores   *)
(* take effect one at a time, in program order, on one memory.  A store    *)
(* writes every word it covers, a load returns what the words it covers    *)
(* hold, and an instruction that carries no data for memory (spm.cp, a     *)
(* store whose predicate is false) changes nothing.  The datum a store     *)
(* writes is its own sequence number.                                      *)
(***************************************************************************)
EXTENDS Naturals

CONSTANTS Words, MaxSeq

VARIABLES
    memory,  \* memory[w]: the last store to word w, 0 at reset
    last     \* the last instruction to take effect: its number, its kind
             \* ("st", "ld" or "none"), its words, and what it read (<<>> for
             \* an instruction that reads nothing)

vars == <<memory, last>>

NoInst == [seq |-> 0, kind |-> "none", words |-> {}, read |-> <<>>]

Init ==
    /\ memory = [w \in Words |-> 0]
    /\ last = NoInst

Effect(n, k, c, r) ==
    /\ n > last.seq
    /\ last' = [seq |-> n, kind |-> k, words |-> c, read |-> r]

Store(n, c) ==
    /\ Effect(n, "st", c, <<>>)
    /\ memory' = [w \in Words |-> IF w \in c THEN n ELSE memory[w]]

Load(n, c) ==
    /\ Effect(n, "ld", c, [w \in c |-> memory[w]])
    /\ UNCHANGED memory

NoData(n, c) ==
    /\ Effect(n, "none", c, <<>>)
    /\ UNCHANGED memory

Next ==
    \E n \in 1 .. MaxSeq, c \in SUBSET Words :
        Store(n, c) \/ Load(n, c) \/ NoData(n, c)

Spec == Init /\ [][Next]_vars
=============================================================================
