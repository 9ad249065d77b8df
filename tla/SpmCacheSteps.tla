--------------------------- MODULE SpmCacheSteps ----------------------------
(***************************************************************************)
(* The handlers of the L2, one by one: the claimed ways each leaves alone, *)
(* the commands it answers and the ones it lets wait.                      *)
(***************************************************************************)
EXTENDS SpmCache, TLAPS

\* From state s of the L2 to state z no claimed way is given up, and a slot
\* gets a new value only with the answer to one of its commands.
Keeps(s, z) ==
    \A w \in Ways :
        /\ z.owed[w] <= s.owed[w]
        /\ s.way[w].st = "spm" =>
              /\ z.way[w].st = "spm"
              /\ z.way[w].val # s.way[w].val => z.owed[w] < s.owed[w]

\* The commands and requests that wait for line a.
Waiting(s, a) == s.mshr[a].tg \o s.mshr[a].df

\* Nothing happens to waiting commands or to answers.
Idle(s, z) == z.owed = s.owed /\ z.mshr = s.mshr

\* Target t waits for line a from now on.
Waits(s, z, a, t) ==
    /\ z.owed = s.owed
    /\ Waiting(z, a) = Append(Waiting(s, a), t)
    /\ \A b \in Lines \ {a} : z.mshr[b] = s.mshr[b]

\* A command of slot w is answered.
Answered(s, z, w) ==
    /\ z.owed = [s.owed EXCEPT ![w] = @ - 1]
    /\ z.mshr = s.mshr

\* Handlers that follow each other keep what each of them keeps.
LEMMA KeepsTrans ==
    ASSUME NEW s, NEW y, NEW z, L2Type(s), L2Type(y), L2Type(z),
           Keeps(s, y), Keeps(y, z)
    PROVE  Keeps(s, z)
<1>1. ASSUME NEW w \in Ways
      PROVE  s.owed[w] \in Int /\ y.owed[w] \in Int /\ z.owed[w] \in Int
  BY Zenon DEF L2Type
<1> SUFFICES ASSUME NEW w \in Ways
             PROVE  /\ z.owed[w] <= s.owed[w]
                    /\ s.way[w].st = "spm" =>
                          /\ z.way[w].st = "spm"
                          /\ z.way[w].val # s.way[w].val => z.owed[w] < s.owed[w]
  BY DEF Keeps
<1>2. /\ y.owed[w] <= s.owed[w] /\ z.owed[w] <= y.owed[w]
      /\ s.way[w].st = "spm" =>
            /\ y.way[w].st = "spm"
            /\ y.way[w].val # s.way[w].val => y.owed[w] < s.owed[w]
      /\ y.way[w].st = "spm" =>
            /\ z.way[w].st = "spm"
            /\ z.way[w].val # y.way[w].val => z.owed[w] < y.owed[w]
  BY DEF Keeps
<1> QED
  BY <1>1, <1>2

\* A state keeps itself.
LEMMA KeepsSame ==
    ASSUME NEW s, NEW z, L2Type(s), z.way = s.way, z.owed = s.owed
    PROVE  Keeps(s, z)
<1>1. ASSUME NEW w \in Ways
      PROVE  s.owed[w] \in Int
  BY Zenon DEF L2Type
<1> QED
  BY <1>1 DEF Keeps

\* A failed assertion changes nothing else.
LEMMA BadStep ==
    ASSUME NEW s, L2Type(s), NEW name, name # "none"
    PROVE  /\ L2Type(Bad(s, name)) /\ Keeps(s, Bad(s, name))
           /\ Idle(s, Bad(s, name)) /\ Bad(s, name).bad # "none"
<1>1. /\ Bad(s, name).way = s.way /\ Bad(s, name).mshr = s.mshr
      /\ Bad(s, name).owed = s.owed /\ Bad(s, name).buf = s.buf
      /\ Bad(s, name).resp = s.resp /\ Bad(s, name).bad = name
      /\ Bad(s, name) = [way |-> s.way, mshr |-> s.mshr, buf |-> s.buf,
                         resp |-> s.resp, owed |-> s.owed, bad |-> name]
  BY DEF L2Type, IsL2, Bad
<1>2. L2Type(Bad(s, name))
  BY Zenon, <1>1 DEF L2Type, IsL2
<1> QED
  BY Zenon, <1>1, <1>2, KeepsSame DEF Idle

\* A new block in a way that is not claimed, or in the temporary block.
LEMMA BlockStep ==
    ASSUME NEW s, L2Type(s), NEW b \in Ways \cup {Temp}, NEW k, IsBlk(k),
           b \in Ways => s.way[b].st # "spm",
           NEW z, z.way = [s.way EXCEPT ![b] = k], Idle(s, z),
           IsL2(z)
    PROVE  L2Type(z) /\ Keeps(s, z)
<1>1. /\ s.way = [w \in Ways \cup {Temp} |-> s.way[w]]
      /\ \A w \in Ways \cup {Temp} : IsBlk(s.way[w])
      /\ s.mshr \in [Lines -> MshrType]
      /\ s.owed \in [Ways -> Int]
  BY Zenon DEF L2Type
<1>2. \A w \in Ways \cup {Temp} : z.way[w] = IF w = b THEN k ELSE s.way[w]
  BY Zenon, <1>1
<1>3. z.way = [w \in Ways \cup {Temp} |-> z.way[w]]
  BY Zenon, <1>1
<1>4. \A w \in Ways \cup {Temp} : IsBlk(z.way[w])
  BY Zenon, <1>1, <1>2
<1>5. L2Type(z)
  BY Zenon, <1>1, <1>3, <1>4 DEF L2Type, Idle
<1>6. \A w \in Ways : s.way[w].st = "spm" => z.way[w] = s.way[w]
  BY Zenon, <1>2
<1>7. ASSUME NEW w \in Ways
      PROVE  s.owed[w] \in Int
  BY Zenon, <1>1
<1> QED
  BY <1>5, <1>6, <1>7 DEF Keeps, Idle

\* evictBlock of a way that is not claimed, or of the temporary block.
LEMMA EvictStep ==
    ASSUME NEW s, L2Type(s), NEW b \in Ways \cup {Temp},
           b \in Ways => s.way[b].st # "spm"
    PROVE  /\ L2Type(Evict(s, b)) /\ Keeps(s, Evict(s, b))
           /\ Idle(s, Evict(s, b)) /\ Evict(s, b).bad = s.bad
           /\ Evict(s, b).way = [s.way EXCEPT ![b] = Invalid]
<1>1. PICK q : Evict(s, b) = [s EXCEPT !.way[b] = Invalid, !.buf = q]
  BY Zenon DEF Evict
<1>2. IsL2(s)
  BY Zenon DEF L2Type
<1>3. Evict(s, b) = [way |-> [s.way EXCEPT ![b] = Invalid], mshr |-> s.mshr,
                     buf |-> q, resp |-> s.resp, owed |-> s.owed, bad |-> s.bad]
  BY Zenon, <1>1, <1>2 DEF IsL2
<1>4. IsBlk(Invalid)
  BY DEF IsBlk, Invalid, Blk
<1>5. /\ Evict(s, b).way = [s.way EXCEPT ![b] = Invalid]
      /\ Idle(s, Evict(s, b)) /\ Evict(s, b).bad = s.bad
  BY <1>3 DEF Idle
<1>6. IsL2(Evict(s, b))
  BY <1>3 DEF IsL2
<1> QED
  BY Zenon, <1>4, <1>5, <1>6, BlockStep

\* allocateBlock never takes a claimed way.
LEMMA AllocateStep ==
    ASSUME NEW s, L2Type(s), NEW a, NEW r \in Allocate(s, a)
    PROVE  /\ L2Type(r[1]) /\ Keeps(s, r[1]) /\ Idle(s, r[1])
           /\ r[2] = None \/ (r[2] \in Ways /\ r[1].way[r[2]].st = "line")
<1>1. CASE r = <<s, None>>
  <2>1. r[1] = s /\ r[2] = None
    BY <1>1
  <2> QED
    BY Zenon, <2>1, KeepsSame DEF Idle
<1>2. CASE r = <<Bad(s, "evict"), None>>
  <2>1. r[1] = Bad(s, "evict") /\ r[2] = None
    BY <1>2
  <2>2. "evict" # "none"
    OBVIOUS
  <2> QED
    BY Zenon, <2>1, <2>2, BadStep
<1>3. ASSUME NEW b \in Victims(s),
             r = <<[Evict(s, b) EXCEPT
                      !.way[b] = Blk("line", a, FALSE, FALSE, FALSE, None)], b>>
      PROVE  /\ L2Type(r[1]) /\ Keeps(s, r[1]) /\ Idle(s, r[1])
             /\ r[2] \in Ways /\ r[1].way[r[2]].st = "line"
  <2> DEFINE k == Blk("line", a, FALSE, FALSE, FALSE, None)
  <2>1. b \in Ways /\ s.way[b].st # "spm"
    BY Zenon DEF Victims
  <2>2. PICK y : y = Evict(s, b)
    BY Zenon
  <2>3. L2Type(y) /\ Keeps(s, y) /\ Idle(s, y) /\ y.way = [s.way EXCEPT ![b] = Invalid]
    BY Zenon, <2>1, <2>2, EvictStep
  <2>4. IsBlk(k) /\ k.st = "line"
    BY DEF Blk, IsBlk
  <2>5. y.way[b].st # "spm"
    <3>1. b \in DOMAIN s.way
      BY Zenon, <2>1 DEF L2Type
    <3>2. y.way[b] = Invalid
      BY Zenon, <2>3, <3>1
    <3> QED
      BY <3>2 DEF Invalid, Blk
  <2> HIDE DEF k
  <2>6. r[1] = [y EXCEPT !.way[b] = k] /\ r[2] = b
    BY <1>3, <2>2 DEF k
  <2>7. IsL2(y)
    BY Zenon, <2>3 DEF L2Type
  <2>8. PICK z : z = r[1]
    BY Zenon
  <2>9. z = [way |-> [y.way EXCEPT ![b] = k], mshr |-> y.mshr, buf |-> y.buf,
             resp |-> y.resp, owed |-> y.owed, bad |-> y.bad]
    BY <2>6, <2>7, <2>8 DEF IsL2
  <2>10. /\ z.way = [y.way EXCEPT ![b] = k] /\ Idle(y, z)
         /\ IsL2(z)
    BY <2>9 DEF Idle, IsL2
  <2>11. L2Type(z) /\ Keeps(y, z)
    BY Zenon, <2>1, <2>3, <2>4, <2>5, <2>10, BlockStep
  <2>12. Keeps(s, z) /\ Idle(s, z)
    BY Zenon, <2>3, <2>10, <2>11, KeepsTrans DEF Idle
  <2>13. z.way[b] = k
    BY Zenon, <2>1, <2>3, <2>10 DEF L2Type
  <2> QED
    BY Zenon, <2>1, <2>4, <2>6, <2>8, <2>11, <2>12, <2>13
<1> QED
  BY Zenon, <1>1, <1>2, <1>3 DEF Allocate

\* The MSHRs are typed, so what waits for a line is a sequence of targets.
LEMMA MshrTyped ==
    ASSUME NEW s, L2Type(s), NEW a \in Lines
    PROVE  /\ s.mshr[a] = [tg |-> s.mshr[a].tg, df |-> s.mshr[a].df,
                           sent |-> s.mshr[a].sent]
           /\ s.mshr[a].tg \in Seq(TargetType) /\ s.mshr[a].df \in Seq(TargetType)
           /\ s.mshr[a] \in MshrType
           /\ s.mshr[a].tg = <<>> => s.mshr[a].df = <<>>
           /\ Waiting(s, a) \in Seq(TargetType)
<1>1. s.mshr[a] \in MshrType
  BY Zenon DEF L2Type
<1>2. /\ s.mshr[a] = [tg |-> s.mshr[a].tg, df |-> s.mshr[a].df,
                      sent |-> s.mshr[a].sent]
      /\ s.mshr[a].tg \in Seq(TargetType) /\ s.mshr[a].df \in Seq(TargetType)
      /\ s.mshr[a].tg = <<>> => s.mshr[a].df = <<>>
  BY <1>1 DEF MshrType
<1>3. Waiting(s, a) \in Seq(TargetType)
  BY <1>2 DEF Waiting
<1> QED
  BY Zenon, <1>1, <1>2, <1>3

\* The L2 after a change of its MSHRs alone.
LEMMA MshrStep ==
    ASSUME NEW s, L2Type(s), NEW z, z.way = s.way, z.owed = s.owed,
           z.mshr \in [Lines -> MshrType], IsL2(z)
    PROVE  L2Type(z) /\ Keeps(s, z)
<1>1. L2Type(z)
  BY Zenon DEF L2Type
<1> QED
  BY Zenon, <1>1, KeepsSame

\* Blocks that change without a claimed way giving up its place or its value.
LEMMA WaysStep ==
    ASSUME NEW s, L2Type(s), NEW z, IsL2(z), z.owed = s.owed,
           z.mshr \in [Lines -> MshrType],
           z.way = [w \in Ways \cup {Temp} |-> z.way[w]],
           \A w \in Ways \cup {Temp} : IsBlk(z.way[w]),
           \A w \in Ways : s.way[w].st = "spm" =>
               z.way[w].st = "spm" /\ z.way[w].val = s.way[w].val
    PROVE  L2Type(z) /\ Keeps(s, z)
<1>1. s.owed \in [Ways -> Int]
  BY Zenon DEF L2Type
<1>2. ASSUME NEW w \in Ways
      PROVE  s.owed[w] \in Int
  BY Zenon, <1>1
<1>3. L2Type(z)
  BY Zenon, <1>1 DEF L2Type
<1> QED
  BY <1>2, <1>3 DEF Keeps

\* handleTimingReqMiss: the target waits behind all others of the line.
LEMMA MissStep ==
    ASSUME NEW s, L2Type(s), NEW a \in Lines, NEW t \in TargetType
    PROVE  /\ L2Type(Miss(s, a, t)) /\ Keeps(s, Miss(s, a, t))
           /\ Miss(s, a, t).owed = s.owed
           /\ Miss(s, a, t).bad = "none" => Waits(s, Miss(s, a, t), a, t)
<1>m. PICK m : m = s.mshr[a]
  BY Zenon
<1>0. m.tg \in Seq(TargetType) /\ m.df \in Seq(TargetType)
  BY Zenon, <1>m, MshrTyped
<1>1. /\ m = [tg |-> m.tg, df |-> m.df, sent |-> m.sent]
      /\ m \in MshrType /\ (m.tg = <<>> => m.df = <<>>)
  BY Zenon, <1>m, MshrTyped
<1>2. IsL2(s)
  BY Zenon DEF L2Type
<1>3. ASSUME m.tg # <<>>, NEW z, z = [s EXCEPT !.mshr[a].df = Append(@, t)]
      PROVE  L2Type(z) /\ Keeps(s, z) /\ Waits(s, z, a, t)
  <2>1. PICK n : n = [m EXCEPT !.df = Append(m.df, t)]
    BY Zenon
  <2>2. /\ z.way = s.way /\ z.owed = s.owed /\ z.mshr = [s.mshr EXCEPT ![a] = n]
        /\ IsL2(z)
    BY Zenon, <1>m, <1>2, <1>3, <2>1 DEF IsL2
  <2>3. n = [tg |-> m.tg, df |-> Append(m.df, t), sent |-> m.sent]
    BY Zenon, <1>1, <2>1
  <2>4. n \in MshrType /\ n.tg = m.tg /\ n.df = Append(m.df, t)
    BY <1>0, <1>1, <1>3, <2>3 DEF MshrType
  <2>5. /\ z.mshr \in [Lines -> MshrType] /\ z.mshr[a] = n
        /\ \A b \in Lines \ {a} : z.mshr[b] = s.mshr[b]
    BY Zenon, <2>2, <2>4 DEF L2Type
  <2>6. m.tg \o Append(m.df, t) = Append(m.tg \o m.df, t)
    <3>1. PICK x \in Seq(TargetType), y \in Seq(TargetType) : x = m.tg /\ y = m.df
      BY Zenon, <1>0
    <3>2. x \o Append(y, t) = Append(x \o y, t)
      OBVIOUS
    <3> QED
      BY Zenon, <3>1, <3>2
  <2>7. Waiting(z, a) = Append(Waiting(s, a), t)
    BY Zenon, <1>m, <2>4, <2>5, <2>6 DEF Waiting
  <2>8. L2Type(z) /\ Keeps(s, z)
    BY Zenon, <2>2, <2>5, MshrStep
  <2> QED
    BY Zenon, <2>2, <2>5, <2>7, <2>8 DEF Waits
<1>4. ASSUME m.df = <<>>, NEW z, z = [s EXCEPT !.mshr[a].tg = Append(@, t)]
      PROVE  L2Type(z) /\ Keeps(s, z) /\ Waits(s, z, a, t)
  <2>1. PICK n : n = [m EXCEPT !.tg = Append(m.tg, t)]
    BY Zenon
  <2>2. /\ z.way = s.way /\ z.owed = s.owed /\ z.mshr = [s.mshr EXCEPT ![a] = n]
        /\ IsL2(z)
    BY Zenon, <1>m, <1>2, <1>4, <2>1 DEF IsL2
  <2>3. n = [tg |-> Append(m.tg, t), df |-> m.df, sent |-> m.sent]
    BY Zenon, <1>1, <2>1
  <2>4. n \in MshrType /\ n.tg = Append(m.tg, t) /\ n.df = m.df
    BY <1>0, <1>1, <1>4, <2>3 DEF MshrType
  <2>5. /\ z.mshr \in [Lines -> MshrType] /\ z.mshr[a] = n
        /\ \A b \in Lines \ {a} : z.mshr[b] = s.mshr[b]
    BY Zenon, <2>2, <2>4 DEF L2Type
  <2>6. Append(m.tg, t) \o m.df = Append(m.tg \o m.df, t)
    <3>1. PICK x \in Seq(TargetType), y \in Seq(TargetType) : x = m.tg /\ y = m.df
      BY Zenon, <1>0
    <3> QED
      BY <3>1, <1>4
  <2>7. Waiting(z, a) = Append(Waiting(s, a), t)
    BY Zenon, <1>m, <2>4, <2>5, <2>6 DEF Waiting
  <2>8. L2Type(z) /\ Keeps(s, z)
    BY Zenon, <2>2, <2>5, MshrStep
  <2> QED
    BY Zenon, <2>2, <2>5, <2>7, <2>8 DEF Waits
<1>5. /\ L2Type(Bad(s, "miss")) /\ Keeps(s, Bad(s, "miss"))
      /\ Bad(s, "miss").owed = s.owed /\ Bad(s, "miss").bad # "none"
  <2>1. "miss" # "none"
    OBVIOUS
  <2> QED
    BY Zenon, <2>1, BadStep DEF Idle
<1>6. ASSUME m.tg = <<>>, m.df = <<>>, NEW n, n = [tg |-> <<t>>, df |-> <<>>, sent |-> "none"],
             NEW z,
             z = [s EXCEPT
                    !.mshr[a] = n,
                    !.way = [w \in DOMAIN s.way |->
                               IF w \in Find(s, a)
                               THEN [s.way[w] EXCEPT !.rd = FALSE] ELSE s.way[w]]]
      PROVE  L2Type(z) /\ Keeps(s, z) /\ Waits(s, z, a, t)
  <2>1. /\ s.way = [w \in Ways \cup {Temp} |-> s.way[w]]
        /\ \A w \in Ways \cup {Temp} : IsBlk(s.way[w])
        /\ s.mshr \in [Lines -> MshrType]
    BY Zenon DEF L2Type
  <2>2. PICK k : k = [w \in Ways \cup {Temp} |->
                        IF w \in Find(s, a)
                        THEN [s.way[w] EXCEPT !.rd = FALSE] ELSE s.way[w]]
    BY Zenon
  <2>3. DOMAIN s.way = Ways \cup {Temp}
    BY Zenon, <2>1
  <2>4. z = [s EXCEPT !.mshr[a] = n, !.way = k]
    BY Zenon, <1>6, <2>2, <2>3
  <2>5. /\ z.way = k /\ z.owed = s.owed /\ z.mshr = [s.mshr EXCEPT ![a] = n]
        /\ IsL2(z)
    BY Zenon, <1>2, <2>4 DEF IsL2
  <2>6. ASSUME NEW w \in Ways \cup {Temp}
        PROVE  IsBlk(k[w]) /\ k[w].st = s.way[w].st /\ k[w].val = s.way[w].val
    <3>1. IsBlk(s.way[w])
      BY Zenon, <2>1
    <3>2. k[w] = s.way[w] \/ k[w] = [s.way[w] EXCEPT !.rd = FALSE]
      BY Zenon, <2>2
    <3> QED
      BY <3>1, <3>2 DEF IsBlk
  <2>7. n \in MshrType /\ n.tg = <<t>> /\ n.df = <<>>
    BY <1>6 DEF MshrType
  <2>8. /\ z.mshr \in [Lines -> MshrType] /\ z.mshr[a] = n
        /\ \A b \in Lines \ {a} : z.mshr[b] = s.mshr[b]
    BY Zenon, <2>1, <2>5, <2>7
  <2>9. L2Type(z) /\ Keeps(s, z)
    <3>1. k = [w \in Ways \cup {Temp} |-> k[w]]
      BY Zenon, <2>2
    <3> QED
      BY Zenon, <2>5, <2>6, <2>8, <3>1, WaysStep
  <2>10. n.tg \o n.df = Append(m.tg \o m.df, t)
    BY <1>6, <2>7
  <2>11. Waiting(z, a) = Append(Waiting(s, a), t)
    BY Zenon, <1>m, <2>8, <2>10 DEF Waiting
  <2> QED
    BY Zenon, <2>5, <2>8, <2>9, <2>11 DEF Waits
<1>7. CASE Has(m)
  <2>1. \/ Miss(s, a, t) = [s EXCEPT !.mshr[a].df = Append(@, t)]
        \/ m.df = <<>> /\ Miss(s, a, t) = [s EXCEPT !.mshr[a].tg = Append(@, t)]
    BY Zenon, <1>m, <1>7 DEF Miss
  <2> QED
    BY Zenon, <1>3, <1>4, <1>7, <2>1 DEF Waits, Has
<1>8. CASE ~Has(m)
  <2>1. CASE Miss(s, a, t) = Bad(s, "miss")
    BY Zenon, <1>5, <2>1
  <2>2. CASE Miss(s, a, t) # Bad(s, "miss")
    <3>1. PICK n : n = [tg |-> <<t>>, df |-> <<>>, sent |-> "none"]
      BY Zenon
    <3>2. Miss(s, a, t) =
            [s EXCEPT
                !.mshr[a] = n,
                !.way = [w \in DOMAIN s.way |->
                           IF w \in Find(s, a)
                           THEN [s.way[w] EXCEPT !.rd = FALSE] ELSE s.way[w]]]
      BY Zenon, <1>m, <1>8, <2>2, <3>1 DEF Miss
    <3> QED
      <4>1. m.tg = <<>> /\ m.df = <<>>
        BY Zenon, <1>1, <1>8 DEF Has
      <4>2. PICK z : z = Miss(s, a, t)
        BY Zenon
      <4>3. L2Type(z) /\ Keeps(s, z) /\ Waits(s, z, a, t)
        BY Zenon, <1>6, <3>1, <3>2, <4>1, <4>2
      <4> QED
        BY Zenon, <4>2, <4>3 DEF Waits
  <2> QED
    BY Zenon, <2>1, <2>2
<1> QED
  BY Zenon, <1>7, <1>8

\* The answer to a command of slot x, with or without its data.
LEMMA AnswerStep ==
    ASSUME NEW s, L2Type(s), NEW x \in Ways, NEW y, L2Type(y), Idle(s, y),
           y.bad = s.bad,
           \A w \in Ways : s.way[w].st = "spm" =>
               y.way[w].st = "spm" /\ (w # x => y.way[w].val = s.way[w].val)
    PROVE  /\ L2Type(Answer(y, x)) /\ Keeps(s, Answer(y, x))
           /\ Answered(s, Answer(y, x), x) /\ Answer(y, x).bad = s.bad
           /\ Answer(y, x).way = y.way
<1>1. PICK z : z = Answer(y, x)
  BY Zenon
<1>2. IsL2(y) /\ y.owed \in [Ways -> Int]
  BY Zenon DEF L2Type
<1>3. /\ z.way = y.way /\ z.mshr = y.mshr /\ z.bad = y.bad /\ IsL2(z)
      /\ z.owed = [y.owed EXCEPT ![x] = @ - 1]
  BY <1>1, <1>2 DEF Answer, IsL2
<1>4. z.owed \in [Ways -> Int]
  BY <1>2, <1>3
<1>5. L2Type(z)
  BY Zenon, <1>3, <1>4 DEF L2Type
<1>6. \A w \in Ways : s.owed[w] = y.owed[w] /\ y.owed[w] \in Int
  BY Zenon, <1>2 DEF Idle
<1>7. \A w \in Ways : z.owed[w] = IF w = x THEN y.owed[w] - 1 ELSE y.owed[w]
  BY <1>2, <1>3
<1>8. Keeps(s, z)
  BY <1>3, <1>6, <1>7 DEF Keeps
<1>9. Answered(s, z, x)
  BY Zenon, <1>3 DEF Answered, Idle
<1> QED
  BY Zenon, <1>1, <1>3, <1>5, <1>8, <1>9

\* satisfyRequest for a request of the L1 leaves slots and commands alone.
LEMMA RespondStep ==
    ASSUME NEW s, L2Type(s), NEW a, NEW b \in Ways \cup {Temp}, NEW c, NEW late,
           b \in Ways => s.way[b].st # "spm"
    PROVE  /\ L2Type(Respond(s, a, b, c, late)) /\ Keeps(s, Respond(s, a, b, c, late))
           /\ Idle(s, Respond(s, a, b, c, late))
           /\ Respond(s, a, b, c, late).bad = s.bad
           /\ \A w \in Ways \cup {Temp} :
                 Respond(s, a, b, c, late).way[w].st = s.way[w].st
<1>1. PICK z : z = Respond(s, a, b, c, late)
  BY Zenon
<1>2. IsL2(s) /\ IsBlk(s.way[b])
  BY Zenon DEF L2Type
<1>3. PICK r, d : z = [s EXCEPT !.resp[a] = r, !.way[b].dt = d]
  BY Zenon, <1>1 DEF Respond
<1>4. PICK k : k = [s.way[b] EXCEPT !.dt = d]
  BY Zenon
<1>5. /\ z.way = [s.way EXCEPT ![b] = k] /\ z.mshr = s.mshr /\ z.owed = s.owed
      /\ z.bad = s.bad /\ IsL2(z)
  BY Zenon, <1>2, <1>3, <1>4 DEF IsL2
<1>6. IsBlk(k) /\ k.st = s.way[b].st
  BY <1>2, <1>4 DEF IsBlk
<1>7. L2Type(z) /\ Keeps(s, z)
  BY Zenon, <1>5, <1>6, BlockStep DEF Idle
<1>8. s.way = [w \in Ways \cup {Temp} |-> s.way[w]]
  BY Zenon DEF L2Type
<1>9. \A w \in Ways \cup {Temp} : z.way[w].st = s.way[w].st
  BY Zenon, <1>5, <1>6, <1>8
<1> QED
  BY Zenon, <1>1, <1>5, <1>7, <1>9 DEF Idle

\* access for a request of the L1: it is answered at once or waits, and it
\* belongs to no slot.
LEMMA RequestStep ==
    ASSUME NEW s, L2Type(s), NEW a \in Lines, NEW c \in {"rd", "ex", "up"},
           NEW z \in Request(s, a, c)
    PROVE  /\ L2Type(z) /\ Keeps(s, z)
           /\ z.bad = "none" =>
                 \/ Idle(s, z)
                 \/ \E t \in TargetType : t.w = None /\ Waits(s, z, a, t)
<1>1. PICK t : t = [c |-> c, w |-> None, full |-> FALSE]
  BY Zenon
<1>2. t \in TargetType /\ t.w = None
  BY <1>1 DEF TargetType
<1>3. CASE z = Miss(s, a, t)
  BY Zenon, <1>2, <1>3, MissStep
<1>4. ASSUME NEW w \in Find(s, a), z = Respond(s, a, w, c, FALSE)
      PROVE  L2Type(z) /\ Keeps(s, z) /\ Idle(s, z)
  <2>1. w \in Ways /\ s.way[w].st = "line" /\ "line" # "spm"
    BY DEF Find
  <2> QED
    BY Zenon, <1>4, <2>1, RespondStep
<1> QED
  BY Zenon, <1>1, <1>3, <1>4 DEF Request

\* The L2 after a change of its write buffer or responses alone.
LEMMA QuietStep ==
    ASSUME NEW s, L2Type(s), NEW z, z.way = s.way, Idle(s, z), IsL2(z)
    PROVE  L2Type(z) /\ Keeps(s, z)
<1>1. L2Type(z)
  BY Zenon DEF L2Type, Idle
<1> QED
  BY Zenon, <1>1, KeepsSame DEF Idle

\* The L2 after a change of its write buffer.
LEMMA BufferStep ==
    ASSUME NEW s, L2Type(s), NEW q
    PROVE  /\ L2Type([s EXCEPT !.buf = q]) /\ Keeps(s, [s EXCEPT !.buf = q])
           /\ Idle(s, [s EXCEPT !.buf = q]) /\ [s EXCEPT !.buf = q].way = s.way
           /\ [s EXCEPT !.buf = q].bad = s.bad
<1>1. PICK z : z = [s EXCEPT !.buf = q]
  BY Zenon
<1>2. IsL2(s)
  BY Zenon DEF L2Type
<1>3. z.way = s.way /\ Idle(s, z) /\ IsL2(z) /\ z.bad = s.bad
  BY <1>1, <1>2 DEF IsL2, Idle
<1> QED
  BY Zenon, <1>1, <1>3, QuietStep

\* access for an eviction of the L1 leaves slots and commands alone.
LEMMA EvictionStep ==
    ASSUME NEW s, L2Type(s), NEW e, NEW z \in Eviction(s, e)
    PROVE  L2Type(z) /\ Keeps(s, z) /\ Idle(s, z)
<1> DEFINE a == e.a
           queued == Places(s.buf, a)
           s1 == IF queued # {} /\ e.c = "wbd"
                 THEN [s EXCEPT !.buf = Deallocate(@, First(queued))] ELSE s
           Forward(y) ==
               IF ~Has(y.mshr[a]) THEN [y EXCEPT !.buf = Enqueue(@, y.mshr, e)]
               ELSE IF e.c = "ce" THEN y ELSE Bad(y, "forward")
           Fill(y, w) ==
               IF w = None THEN Forward(y)
               ELSE [y EXCEPT !.way[w].rd = TRUE, !.way[w].dt = TRUE,
                              !.way[w].wr = @ \/ e.wr, !.way[w].val = e.val]
<1>1. \/ z = Bad(s, "meet")
      \/ z = s
      \/ z = Forward(s)
      \/ \E w \in Find(s, a) :
             z = [s1 EXCEPT !.way[w].dt = TRUE, !.way[w].wr = @ \/ e.wr,
                            !.way[w].val = e.val]
      \/ \E r \in Allocate(s1, a) : z = Fill(r[1], r[2])
  BY Zenon DEF Eviction
<1>2. ASSUME NEW y, L2Type(y)
      PROVE  L2Type(Forward(y)) /\ Keeps(y, Forward(y)) /\ Idle(y, Forward(y))
  <2>1. PICK q : \/ Forward(y) = [y EXCEPT !.buf = q]
                 \/ Forward(y) = y \/ Forward(y) = Bad(y, "forward")
    BY Zenon
  <2>2. Keeps(y, y) /\ Idle(y, y) /\ "forward" # "none"
    BY <1>2, KeepsSame DEF Idle
  <2>3. PICK x : x = Forward(y)
    BY Zenon
  <2>4. ASSUME x = [y EXCEPT !.buf = q]
        PROVE  L2Type(x) /\ Keeps(y, x) /\ Idle(y, x)
    <3>1. /\ L2Type([y EXCEPT !.buf = q]) /\ Keeps(y, [y EXCEPT !.buf = q])
          /\ Idle(y, [y EXCEPT !.buf = q])
      BY <1>2, BufferStep
    <3> QED
      BY Zenon, <2>4, <3>1
  <2>5. ASSUME x = y \/ x = Bad(y, "forward")
        PROVE  L2Type(x) /\ Keeps(y, x) /\ Idle(y, x)
    BY Zenon, <1>2, <2>2, <2>5, BadStep
  <2> HIDE DEF Forward
  <2> QED
    BY Zenon, <2>1, <2>3, <2>4, <2>5
<1>3. L2Type(s1) /\ Keeps(s, s1) /\ Idle(s, s1) /\ s1.way = s.way
  <2>1. PICK q : s1 = [s EXCEPT !.buf = q] \/ s1 = s
    BY Zenon
  <2>2. Keeps(s, s) /\ Idle(s, s)
    BY Zenon, KeepsSame DEF Idle
  <2>3. PICK x : x = s1
    BY Zenon
  <2>4. ASSUME x = [s EXCEPT !.buf = q]
        PROVE  L2Type(x) /\ Keeps(s, x) /\ Idle(s, x) /\ x.way = s.way
    <3>1. /\ L2Type([s EXCEPT !.buf = q]) /\ Keeps(s, [s EXCEPT !.buf = q])
          /\ Idle(s, [s EXCEPT !.buf = q]) /\ [s EXCEPT !.buf = q].way = s.way
      BY BufferStep
    <3> QED
      BY Zenon, <2>4, <3>1
  <2> HIDE DEF s1
  <2> QED
    BY Zenon, <2>1, <2>2, <2>3, <2>4
<1>4. CASE z = Bad(s, "meet") \/ z = s \/ z = Forward(s)
  <2>1. Keeps(s, s) /\ Idle(s, s) /\ "meet" # "none"
    BY KeepsSame DEF Idle
  <2> HIDE DEF Forward
  <2> QED
    BY Zenon, <1>2, <1>4, <2>1, BadStep
<1> HIDE DEF s1
<1>5. ASSUME NEW w \in Find(s, a),
             z = [s1 EXCEPT !.way[w].dt = TRUE, !.way[w].wr = @ \/ e.wr,
                            !.way[w].val = e.val]
      PROVE  L2Type(z) /\ Keeps(s, z) /\ Idle(s, z)
  <2>1. w \in Ways /\ s1.way[w].st = "line" /\ "line" # "spm"
    BY <1>3 DEF Find
  <2>2. IsL2(s1) /\ IsBlk(s1.way[w]) /\ w \in DOMAIN s1.way
    BY Zenon, <1>3, <2>1 DEF L2Type
  <2>3. PICK k : k = [s1.way[w] EXCEPT !.dt = TRUE, !.wr = @ \/ e.wr, !.val = e.val]
    BY Zenon
  <2>4. IsL2(z) /\ Idle(s1, z) /\ z.way = [s1.way EXCEPT ![w] = k]
    BY Zenon, <1>5, <2>2, <2>3 DEF IsL2, IsBlk, Idle
  <2>5. IsBlk(k)
    BY Zenon, <2>2, <2>3 DEF IsBlk
  <2>6. L2Type(z) /\ Keeps(s1, z)
    BY Zenon, <1>3, <2>1, <2>4, <2>5, BlockStep
  <2> QED
    BY Zenon, <1>3, <2>4, <2>6, KeepsTrans DEF Idle
<1>6. ASSUME NEW r \in Allocate(s1, a), z = Fill(r[1], r[2])
      PROVE  L2Type(z) /\ Keeps(s, z) /\ Idle(s, z)
  <2>1. PICK y, w : y = r[1] /\ w = r[2]
    BY Zenon
  <2>2. /\ L2Type(y) /\ Keeps(s1, y) /\ Idle(s1, y)
        /\ w = None \/ (w \in Ways /\ y.way[w].st = "line")
    BY Zenon, <1>3, <2>1, AllocateStep
  <2>3. Keeps(s, y) /\ Idle(s, y)
    BY Zenon, <1>3, <2>2, KeepsTrans DEF Idle
  <2>4. L2Type(z) /\ Keeps(y, z) /\ Idle(y, z)
    <3>1. CASE w = None
      <4>1. z = Forward(y)
        BY Zenon, <1>6, <2>1, <3>1
      <4> HIDE DEF Forward
      <4> QED
        BY Zenon, <1>2, <2>2, <4>1
    <3>2. CASE w # None
      <4>1. z = [y EXCEPT !.way[w].rd = TRUE, !.way[w].dt = TRUE,
                          !.way[w].wr = @ \/ e.wr, !.way[w].val = e.val]
        BY Zenon, <1>6, <2>1, <3>2
      <4>2. IsL2(y) /\ IsBlk(y.way[w]) /\ w \in DOMAIN y.way /\ w \in Ways
        BY Zenon, <2>2, <3>2 DEF L2Type
      <4>3. PICK k : k = [y.way[w] EXCEPT !.rd = TRUE, !.dt = TRUE, !.wr = @ \/ e.wr,
                                          !.val = e.val]
        BY Zenon
      <4>4. IsL2(z) /\ Idle(y, z) /\ z.way = [y.way EXCEPT ![w] = k]
        BY ZenonT(30), <4>1, <4>2, <4>3 DEF IsL2, IsBlk, Idle
      <4>5. IsBlk(k)
        BY Zenon, <4>2, <4>3 DEF IsBlk
      <4>6. y.way[w].st # "spm"
        BY <2>2, <3>2
      <4> QED
        BY Zenon, <2>2, <4>2, <4>4, <4>5, <4>6, BlockStep
    <3> QED
      BY Zenon, <3>1, <3>2
  <2> QED
    BY Zenon, <2>2, <2>3, <2>4, KeepsTrans DEF Idle
<1> QED
  BY ZenonT(30), <1>1, <1>4, <1>5, <1>6

\* A miss after a change of blocks alone.
LEMMA MissAfter ==
    ASSUME NEW s, L2Type(s), NEW y, L2Type(y), Keeps(s, y), Idle(s, y),
           NEW a \in Lines, NEW t \in TargetType
    PROVE  /\ L2Type(Miss(y, a, t)) /\ Keeps(s, Miss(y, a, t))
           /\ Miss(y, a, t).bad = "none" => Waits(s, Miss(y, a, t), a, t)
<1>1. PICK z : z = Miss(y, a, t)
  BY Zenon
<1>2. L2Type(z) /\ Keeps(y, z) /\ (z.bad = "none" => Waits(y, z, a, t))
  BY Zenon, <1>1, MissStep
<1>3. Keeps(s, z)
  BY Zenon, <1>2, KeepsTrans
<1>4. z.bad = "none" => Waits(s, z, a, t)
  BY Zenon, <1>2 DEF Waits, Waiting, Idle
<1> QED
  BY Zenon, <1>1, <1>2, <1>3, <1>4

\* access for spm.cp: the command is answered once or waits, and no other
\* slot changes.
LEMMA CopyStep ==
    ASSUME NEW s, L2Type(s), NEW e, e.a \in Lines, e.w \in Ways
    PROVE  /\ L2Type(Copy(s, e)) /\ Keeps(s, Copy(s, e))
           /\ Copy(s, e).bad = "none" =>
                 \/ Answered(s, Copy(s, e), e.w)
                 \/ \E t \in TargetType : t.w = e.w /\ Waits(s, Copy(s, e), e.a, t)
<1> DEFINE t == [c |-> "cp", w |-> e.w, full |-> FALSE]
           src == Find(s, e.a)
           data == IF e.found THEN e.val ELSE s.way[CHOOSE b \in src : TRUE].val
           claimed == s.way[e.w].st = "spm"
           kept == [s EXCEPT !.way[e.w].wr = FALSE, !.way[e.w].wait = TRUE]
           Claim(v) == [Evict(s, e.w) EXCEPT
                           !.way[e.w] = Blk("spm", None, FALSE, FALSE, FALSE, v)]
           Good(z) == /\ L2Type(z) /\ Keeps(s, z)
                      /\ z.bad = "none" =>
                            \/ Answered(s, z, e.w)
                            \/ \E u \in TargetType : u.w = e.w /\ Waits(s, z, e.a, u)
<1>1. \/ Copy(s, e) = Bad(s, "evict")
      \/ claimed /\ \E v : Copy(s, e) = Answer([s EXCEPT !.way[e.w].val = v], e.w)
      \/ ~claimed /\ Copy(s, e) = Miss(kept, e.a, t)
      \/ ~claimed /\ \E v : Copy(s, e) = Answer(Claim(v), e.w)
      \/ Copy(s, e) = Miss(s, e.a, t)
      \/ ~claimed /\ Copy(s, e) = Miss([kept EXCEPT !.way[e.w].st = "spm",
                                                     !.way[e.w].tag = None], e.a, t)
      \/ ~claimed /\ \E v : Copy(s, e) = Miss(Claim(v), e.a, t)
  BY Zenon DEF Copy
<1>2. t \in TargetType /\ t.w = e.w
  BY DEF TargetType
<1>3. /\ IsL2(s) /\ IsBlk(s.way[e.w]) /\ e.w \in DOMAIN s.way
      /\ s.way = [w \in Ways \cup {Temp} |-> s.way[w]]
  BY Zenon DEF L2Type
<1> HIDE DEF t
<1>4. ASSUME NEW y, L2Type(y), Keeps(s, y), Idle(s, y)
      PROVE  Good(Miss(y, e.a, t))
  BY Zenon, <1>2, <1>4, MissAfter
<1>5. Good(Bad(s, "evict")) /\ Good(Miss(s, e.a, t))
  <2>1. "evict" # "none"
    OBVIOUS
  <2>2. Keeps(s, s) /\ Idle(s, s)
    BY Zenon, KeepsSame DEF Idle
  <2>3. Good(Bad(s, "evict"))
    BY Zenon, <2>1, BadStep
  <2> HIDE DEF Good
  <2> QED
    BY Zenon, <1>4, <2>2, <2>3
<1>6. ASSUME NEW v, claimed
      PROVE  Good(Answer([s EXCEPT !.way[e.w].val = v], e.w))
  <2>1. PICK y : y = [s EXCEPT !.way[e.w].val = v]
    BY Zenon
  <2>2. PICK k : k = [s.way[e.w] EXCEPT !.val = v]
    BY Zenon
  <2>3. IsL2(y) /\ Idle(s, y) /\ y.way = [s.way EXCEPT ![e.w] = k] /\ y.bad = s.bad
    BY Zenon, <1>3, <2>1, <2>2 DEF IsL2, Idle
  <2>4. IsBlk(k) /\ k.st = s.way[e.w].st
    BY Zenon, <1>3, <2>2 DEF IsBlk
  <2>5. /\ y.way = [w \in Ways \cup {Temp} |-> y.way[w]]
        /\ \A w \in Ways \cup {Temp} : y.way[w] = IF w = e.w THEN k ELSE s.way[w]
    BY Zenon, <1>3, <2>3
  <2>6. \A w \in Ways \cup {Temp} : IsBlk(y.way[w])
    BY Zenon, <2>4, <2>5 DEF L2Type
  <2>7. L2Type(y)
    BY Zenon, <2>3, <2>5, <2>6 DEF L2Type, Idle
  <2>8. \A w \in Ways : s.way[w].st = "spm" =>
            y.way[w].st = "spm" /\ (w # e.w => y.way[w].val = s.way[w].val)
    BY Zenon, <2>4, <2>5
  <2>9. /\ L2Type(Answer(y, e.w)) /\ Keeps(s, Answer(y, e.w))
        /\ Answered(s, Answer(y, e.w), e.w)
    BY Zenon, <2>3, <2>7, <2>8, AnswerStep
  <2> QED
    BY Zenon, <2>1, <2>9
<1>7. ASSUME ~claimed
      PROVE  /\ L2Type(kept) /\ Keeps(s, kept) /\ Idle(s, kept)
             /\ kept.way[e.w].st = s.way[e.w].st
  <2>1. PICK y : y = kept
    BY Zenon
  <2>2. PICK k : k = [s.way[e.w] EXCEPT !.wr = FALSE, !.wait = TRUE]
    BY Zenon
  <2>3. IsL2(y) /\ Idle(s, y) /\ y.way = [s.way EXCEPT ![e.w] = k]
    BY Zenon, <1>3, <2>1, <2>2 DEF IsL2, IsBlk, Idle
  <2>4. IsBlk(k) /\ k.st = s.way[e.w].st
    BY Zenon, <1>3, <2>2 DEF IsBlk
  <2>5. L2Type(y) /\ Keeps(s, y)
    BY Zenon, <1>7, <2>3, <2>4, BlockStep
  <2>6. y.way[e.w] = k
    BY Zenon, <1>3, <2>3
  <2> HIDE DEF kept
  <2> QED
    BY Zenon, <2>1, <2>3, <2>4, <2>5, <2>6
<1> HIDE DEF kept
<1>8. ASSUME ~claimed
      PROVE  Good(Miss([kept EXCEPT !.way[e.w].st = "spm",
                                    !.way[e.w].tag = None], e.a, t))
  <2>1. PICK y : y = [kept EXCEPT !.way[e.w].st = "spm", !.way[e.w].tag = None]
    BY Zenon
  <2>2. PICK k : k = [kept.way[e.w] EXCEPT !.st = "spm", !.tag = None]
    BY Zenon
  <2>3. IsL2(kept) /\ IsBlk(kept.way[e.w]) /\ e.w \in DOMAIN kept.way
    BY Zenon, <1>7, <1>8 DEF L2Type
  <2>4. IsL2(y) /\ Idle(kept, y) /\ y.way = [kept.way EXCEPT ![e.w] = k]
    BY Zenon, <2>1, <2>2, <2>3 DEF IsL2, IsBlk, Idle
  <2>5. IsBlk(k)
    BY Zenon, <2>2, <2>3 DEF IsBlk
  <2>6. L2Type(y) /\ Keeps(kept, y)
    BY Zenon, <1>7, <1>8, <2>4, <2>5, BlockStep
  <2>7. Keeps(s, y) /\ Idle(s, y)
    BY Zenon, <1>7, <1>8, <2>4, <2>6, KeepsTrans DEF Idle
  <2> HIDE DEF Good
  <2> QED
    BY Zenon, <1>4, <2>1, <2>6, <2>7
<1>9. ASSUME NEW v, ~claimed
      PROVE  Good(Answer(Claim(v), e.w)) /\ Good(Miss(Claim(v), e.a, t))
  <2>1. PICK x : x = Evict(s, e.w)
    BY Zenon
  <2>2. PICK k : k = Blk("spm", None, FALSE, FALSE, FALSE, v)
    BY Zenon
  <2>3. PICK y : y = [x EXCEPT !.way[e.w] = k]
    BY Zenon
  <2>4. /\ L2Type(x) /\ Keeps(s, x) /\ Idle(s, x) /\ x.bad = s.bad
        /\ x.way = [s.way EXCEPT ![e.w] = Invalid]
    BY Zenon, <1>9, <2>1, EvictStep
  <2>5. IsL2(x) /\ x.way[e.w] = Invalid
    BY Zenon, <1>3, <2>4 DEF L2Type
  <2>6. IsL2(y) /\ Idle(x, y) /\ y.way = [x.way EXCEPT ![e.w] = k] /\ y.bad = x.bad
    BY <2>3, <2>5 DEF IsL2, Idle
  <2>7. IsBlk(k)
    BY <2>2 DEF Blk, IsBlk
  <2>8. x.way[e.w].st # "spm"
    BY <2>5 DEF Invalid, Blk
  <2>9. L2Type(y) /\ Keeps(x, y)
    <3>1. L2Type(x)
      BY Zenon, <2>4
    <3> QED
      BY Zenon, <2>6, <2>7, <2>8, <3>1, BlockStep
  <2>10. Keeps(s, y) /\ Idle(s, y) /\ y.bad = s.bad
    BY Zenon, <2>4, <2>6, <2>9, KeepsTrans DEF Idle
  <2>11. \A w \in Ways : s.way[w].st = "spm" => y.way[w] = s.way[w]
    <3>1. \A w \in Ways : w # e.w => x.way[w] = s.way[w]
      BY Zenon, <1>3, <2>4
    <3>2. \A w \in Ways : w # e.w => y.way[w] = x.way[w]
      BY Zenon, <2>4, <2>6 DEF L2Type
    <3> QED
      BY Zenon, <1>9, <3>1, <3>2
  <2>12. \A w \in Ways : s.way[w].st = "spm" =>
            y.way[w].st = "spm" /\ (w # e.w => y.way[w].val = s.way[w].val)
    BY Zenon, <2>11
  <2>13. /\ L2Type(Answer(y, e.w)) /\ Keeps(s, Answer(y, e.w))
         /\ Answered(s, Answer(y, e.w), e.w)
    BY Zenon, <2>9, <2>10, <2>12, AnswerStep
  <2>14. Good(Miss(y, e.a, t)) /\ Good(Answer(y, e.w))
    BY Zenon, <1>4, <2>9, <2>10, <2>13
  <2> HIDE DEF Good
  <2> QED
    BY Zenon, <2>1, <2>2, <2>3, <2>14
<1>10. Good(Copy(s, e))
  <2> HIDE DEF Good, claimed, Claim
  <2>1. CASE ~claimed /\ Copy(s, e) = Miss(kept, e.a, t)
    BY Zenon, <1>4, <1>7, <2>1
  <2> QED
    BY Zenon, <1>1, <1>5, <1>6, <1>8, <1>9, <2>1
<1> QED
  BY Zenon, <1>10

\* access for spm.wb: the command is answered once or waits.
LEMMA WritebackStep ==
    ASSUME NEW s, L2Type(s), NEW e, e.a \in Lines, e.w \in Ways, e.full \in BOOLEAN,
           NEW z \in Writeback(s, e)
    PROVE  /\ L2Type(z) /\ Keeps(s, z)
           /\ z.bad = "none" =>
                 \/ Answered(s, z, e.w)
                 \/ \E t \in TargetType : t.w = e.w /\ Waits(s, z, e.a, t)
<1> DEFINE t == [c |-> "wb", w |-> e.w, full |-> e.full]
           v == s.way[e.w].val
           Into(y, w) == [y EXCEPT !.way[w].val = v, !.way[w].dt = TRUE]
           Good(x) == /\ L2Type(x) /\ Keeps(s, x)
                      /\ x.bad = "none" =>
                            \/ Answered(s, x, e.w)
                            \/ \E u \in TargetType : u.w = e.w /\ Waits(s, x, e.a, u)
<1>1. \/ z = Bad(s, "slot")
      \/ \E w \in Find(s, e.a) : \/ z = Answer(Into(s, w), e.w)
                                \/ z = Miss(Into(s, w), e.a, t)
      \/ \E r \in Allocate(s, e.a) :
            \/ r[2] = None /\ z = Miss(r[1], e.a, t)
            \/ /\ r[2] # None
               /\ z = Miss([Into(r[1], r[2]) EXCEPT !.way[r[2]].rd = TRUE], e.a, t)
      \/ z = Miss(s, e.a, t)
  BY Zenon DEF Writeback
<1>2. t \in TargetType /\ t.w = e.w
  BY DEF TargetType
<1> HIDE DEF t, v
<1>3. ASSUME NEW y, L2Type(y), Keeps(s, y), Idle(s, y)
      PROVE  Good(Miss(y, e.a, t))
  BY Zenon, <1>2, <1>3, MissAfter
<1>4. Good(Bad(s, "slot")) /\ Good(Miss(s, e.a, t))
  <2>1. "slot" # "none"
    OBVIOUS
  <2>2. Keeps(s, s) /\ Idle(s, s)
    BY Zenon, KeepsSame DEF Idle
  <2>3. Good(Bad(s, "slot"))
    BY Zenon, <2>1, BadStep
  <2> HIDE DEF Good
  <2> QED
    BY Zenon, <1>3, <2>2, <2>3
<1>5. ASSUME NEW y, L2Type(y), NEW w \in Ways, y.way[w].st = "line"
      PROVE  /\ L2Type(Into(y, w)) /\ Keeps(y, Into(y, w)) /\ Idle(y, Into(y, w))
             /\ Into(y, w).bad = y.bad /\ Into(y, w).way[w].st = "line"
             /\ \A x \in Ways : y.way[x].st = "spm" => Into(y, w).way[x] = y.way[x]
  <2>1. PICK x : x = Into(y, w)
    BY Zenon
  <2>2. PICK k : k = [y.way[w] EXCEPT !.val = v, !.dt = TRUE]
    BY Zenon
  <2>3. /\ IsL2(y) /\ IsBlk(y.way[w]) /\ w \in DOMAIN y.way
        /\ y.way = [u \in Ways \cup {Temp} |-> y.way[u]]
    BY Zenon, <1>5 DEF L2Type
  <2>4. IsL2(x) /\ Idle(y, x) /\ x.way = [y.way EXCEPT ![w] = k] /\ x.bad = y.bad
    BY Zenon, <2>1, <2>2, <2>3 DEF IsL2, IsBlk, Idle
  <2>5. IsBlk(k) /\ k.st = y.way[w].st
    BY Zenon, <2>2, <2>3 DEF IsBlk
  <2>6. y.way[w].st # "spm"
    BY <1>5
  <2>7. L2Type(x) /\ Keeps(y, x)
    <3>1. w \in Ways \cup {Temp} /\ (w \in Ways => y.way[w].st # "spm")
      BY Zenon, <2>6
    <3>2. x.way = [y.way EXCEPT ![w] = k] /\ Idle(y, x) /\ IsL2(x) /\ IsBlk(k) /\ L2Type(y)
      BY Zenon, <1>5, <2>4, <2>5
    <3> HIDE DEF Into
    <3> QED
      BY Zenon, <3>1, <3>2, BlockStep
  <2>8. x.way[w] = k /\ \A u \in Ways : u # w => x.way[u] = y.way[u]
    BY Zenon, <2>3, <2>4
  <2> HIDE DEF Into
  <2> QED
    BY Zenon, <1>5, <2>1, <2>4, <2>5, <2>6, <2>7, <2>8
<1>6. ASSUME NEW w \in Find(s, e.a)
      PROVE  Good(Answer(Into(s, w), e.w)) /\ Good(Miss(Into(s, w), e.a, t))
  <2>1. w \in Ways /\ s.way[w].st = "line"
    BY Zenon DEF Find
  <2>2. PICK y : y = Into(s, w)
    BY Zenon
  <2>3. /\ L2Type(y) /\ Keeps(s, y) /\ Idle(s, y) /\ y.bad = s.bad
        /\ \A x \in Ways : s.way[x].st = "spm" => y.way[x] = s.way[x]
    <3> HIDE DEF Into
    <3> QED
      BY Zenon, <1>5, <2>1, <2>2
  <2>4. \A x \in Ways : s.way[x].st = "spm" =>
            y.way[x].st = "spm" /\ (x # e.w => y.way[x].val = s.way[x].val)
    BY Zenon, <2>3
  <2>5. /\ L2Type(Answer(y, e.w)) /\ Keeps(s, Answer(y, e.w))
        /\ Answered(s, Answer(y, e.w), e.w)
    BY Zenon, <2>3, <2>4, AnswerStep
  <2>6. Good(Answer(y, e.w)) /\ Good(Miss(y, e.a, t))
    BY Zenon, <1>3, <2>3, <2>5
  <2> HIDE DEF Good, Into
  <2> QED
    BY Zenon, <2>2, <2>6
<1>7. ASSUME NEW r \in Allocate(s, e.a)
      PROVE  /\ r[2] = None => Good(Miss(r[1], e.a, t))
             /\ r[2] # None =>
                  Good(Miss([Into(r[1], r[2]) EXCEPT !.way[r[2]].rd = TRUE], e.a, t))
  <2>1. PICK y, w : y = r[1] /\ w = r[2]
    BY Zenon
  <2>2. /\ L2Type(y) /\ Keeps(s, y) /\ Idle(s, y)
        /\ w = None \/ (w \in Ways /\ y.way[w].st = "line")
    BY Zenon, <2>1, AllocateStep
  <2>3. Good(Miss(y, e.a, t))
    BY Zenon, <1>3, <2>2
  <2>4. ASSUME w # None
        PROVE  Good(Miss([Into(y, w) EXCEPT !.way[w].rd = TRUE], e.a, t))
    <3>1. PICK x : x = Into(y, w)
      BY Zenon
    <3>2. L2Type(x) /\ Keeps(y, x) /\ Idle(y, x) /\ x.way[w].st = "line" /\ w \in Ways
      <4> HIDE DEF Into
      <4> QED
        BY Zenon, <1>5, <2>2, <2>4, <3>1
    <3>3. PICK u : u = [x EXCEPT !.way[w].rd = TRUE]
      BY Zenon
    <3>4. PICK k : k = [x.way[w] EXCEPT !.rd = TRUE]
      BY Zenon
    <3>5. IsL2(x) /\ IsBlk(x.way[w])
      BY Zenon, <3>2 DEF L2Type
    <3>6. IsL2(u) /\ Idle(x, u) /\ u.way = [x.way EXCEPT ![w] = k]
      BY Zenon, <3>3, <3>4, <3>5 DEF IsL2, Idle
    <3>7. IsBlk(k) /\ x.way[w].st # "spm"
      BY Zenon, <3>2, <3>4, <3>5 DEF IsBlk
    <3>8. L2Type(u) /\ Keeps(x, u)
      BY Zenon, <3>2, <3>6, <3>7, BlockStep
    <3>9. Keeps(y, u) /\ Idle(y, u)
      BY Zenon, <2>2, <3>2, <3>6, <3>8, KeepsTrans DEF Idle
    <3>10. Keeps(s, u) /\ Idle(s, u)
      BY Zenon, <2>2, <3>8, <3>9, KeepsTrans DEF Idle
    <3> HIDE DEF Good, Into
    <3> QED
      BY Zenon, <1>3, <3>1, <3>3, <3>8, <3>10
  <2> HIDE DEF Good, Into
  <2> QED
    BY Zenon, <2>1, <2>3, <2>4
<1>8. Good(z)
  <2> HIDE DEF Good, Into
  <2> QED
    BY Zenon, <1>1, <1>4, <1>6, <1>7
<1> QED
  BY Zenon, <1>8

\* A scratchpad command names its slot, any other target names none.
LEMMA TargetKinds ==
    ASSUME NEW t \in TargetType
    PROVE  \/ t.c \in {"cp", "wb"} /\ t.w \in Ways
           \/ t.c \in {"rd", "ex", "up"} /\ t.w \notin Ways
BY ConstantsAssumption DEF TargetType

\* What servicing target t does to state s: z keeps the claimed ways, and
\* answers t if it is a command.
Serviced(s, z, t) ==
    /\ L2Type(z) /\ Keeps(s, z) /\ z.mshr = s.mshr
    /\ \A w \in Ways \cup {Temp} : z.way[w].st = s.way[w].st
    /\ z.bad = "none" =>
          /\ s.bad = "none"
          /\ \A w \in Ways : z.owed[w] = IF t.w = w THEN s.owed[w] - 1 ELSE s.owed[w]

\* An answer to target t of slot x, after the value of one way has changed.
LEMMA ServeAnswer ==
    ASSUME NEW s, L2Type(s), NEW t, NEW x \in Ways, t.w = x, NEW y,
           NEW b \in Ways \cup {Temp}, NEW k, IsBlk(k), k.st = s.way[b].st,
           b \in Ways /\ b # x => s.way[b].st # "spm",
           IsL2(y), Idle(s, y), y.bad = s.bad, y.way = [s.way EXCEPT ![b] = k]
    PROVE  Serviced(s, Answer(y, x), t)
<1>1. /\ s.way = [w \in Ways \cup {Temp} |-> s.way[w]]
      /\ \A w \in Ways \cup {Temp} : IsBlk(s.way[w])
      /\ s.mshr \in [Lines -> MshrType] /\ s.owed \in [Ways -> Int]
  BY Zenon DEF L2Type
<1>2. /\ \A w \in Ways \cup {Temp} : y.way[w] = IF w = b THEN k ELSE s.way[w]
      /\ y.way = [w \in Ways \cup {Temp} |-> y.way[w]]
  BY Zenon, <1>1
<1>3. L2Type(y)
  <2>1. \A w \in Ways \cup {Temp} : IsBlk(y.way[w])
    BY Zenon, <1>1, <1>2
  <2> QED
    BY Zenon, <1>1, <1>2, <2>1 DEF L2Type, Idle
<1>4. \A w \in Ways \cup {Temp} : y.way[w].st = s.way[w].st
  BY Zenon, <1>2
<1>5. \A w \in Ways : s.way[w].st = "spm" =>
          y.way[w].st = "spm" /\ (w # x => y.way[w].val = s.way[w].val)
  BY Zenon, <1>2, <1>4
<1>6. PICK z : z = Answer(y, x)
  BY Zenon
<1>7. /\ L2Type(z) /\ Keeps(s, z) /\ Answered(s, z, x) /\ z.bad = s.bad /\ z.way = y.way
  <2>1. /\ L2Type(Answer(y, x)) /\ Keeps(s, Answer(y, x))
        /\ Answered(s, Answer(y, x), x) /\ Answer(y, x).bad = s.bad
        /\ Answer(y, x).way = y.way
    BY ZenonT(60), <1>3, <1>5, AnswerStep
  <2> QED
    BY Zenon, <1>6, <2>1
<1>8. \A w \in Ways : z.owed[w] = IF x = w THEN s.owed[w] - 1 ELSE s.owed[w]
  BY <1>1, <1>7 DEF Answered
<1>9. Serviced(s, z, t)
  BY Zenon, <1>4, <1>7, <1>8 DEF Serviced, Answered
<1> QED
  BY Zenon, <1>6, <1>9

\* serviceMSHRTargets for one target: a command is answered once.
LEMMA ServiceStep ==
    ASSUME NEW s, L2Type(s), NEW a, NEW b \in Ways \cup {Temp, None},
           b \in Ways => s.way[b].st = "line", NEW t \in TargetType
    PROVE  Serviced(s, Service(s, a, b, t), t)
<1>0. PICK z : z = Service(s, a, b, t)
  BY Zenon
<1>1. /\ IsL2(s) /\ s.way = [w \in Ways \cup {Temp} |-> s.way[w]]
      /\ \A w \in Ways \cup {Temp} : IsBlk(s.way[w])
  BY Zenon DEF L2Type
<1>2. ASSUME NEW name, name # "none", z = Bad(s, name)
      PROVE  Serviced(s, z, t)
  <2>1. /\ L2Type(z) /\ Keeps(s, z) /\ Idle(s, z) /\ z.bad # "none"
    BY Zenon, <1>2, BadStep
  <2>2. z.way = s.way
    BY <1>1, <1>2 DEF Bad, IsL2
  <2> QED
    BY Zenon, <2>1, <2>2 DEF Serviced, Idle
<1>3. ASSUME t.w \notin Ways, L2Type(z), Keeps(s, z), Idle(s, z), z.bad = s.bad,
             \A w \in Ways \cup {Temp} : z.way[w].st = s.way[w].st
      PROVE  Serviced(s, z, t)
  BY Zenon, <1>3 DEF Serviced, Idle
<1>4. CASE b = None
  <2>1. CASE t.c = "up"
    <3>1. PICK r : z = [s EXCEPT !.resp[a] = r]
      BY Zenon, <1>0, <1>4, <2>1 DEF Service
    <3>2. IsL2(z) /\ Idle(s, z) /\ z.way = s.way /\ z.bad = s.bad
      BY <1>1, <3>1 DEF IsL2, Idle
    <3>3. L2Type(z) /\ Keeps(s, z)
      BY Zenon, <3>2, QuietStep
    <3>4. t.w \notin Ways
      BY <2>1, TargetKinds
    <3> QED
      BY Zenon, <1>3, <3>2, <3>3, <3>4, <1>0
  <2>2. CASE t.c # "up"
    <3>1. z = Bad(s, "service") /\ "service" # "none"
      BY <1>0, <1>4, <2>2 DEF Service
    <3> QED
      BY Zenon, <1>0, <1>2, <3>1
  <2> QED
    BY Zenon, <2>1, <2>2
<1>5. CASE b # None /\ t.c = "cp"
  <2>1. t.w \in Ways
    BY <1>5, TargetKinds
  <2>2. PICK v : \/ z = Answer([s EXCEPT !.way[t.w].val = v], t.w)
                 \/ z = Answer(s, t.w)
    BY Zenon, <1>0, <1>5 DEF Service
  <2>3. PICK y, k : z = Answer(y, t.w) /\ IsBlk(k) /\ k.st = s.way[t.w].st
                    /\ IsL2(y) /\ Idle(s, y) /\ y.bad = s.bad
                    /\ y.way = [s.way EXCEPT ![t.w] = k]
    <3>1. CASE z = Answer(s, t.w)
      <4>1. s.way = [s.way EXCEPT ![t.w] = s.way[t.w]]
        BY <1>1, <2>1
      <4> QED
        BY Zenon, <1>1, <2>1, <3>1, <4>1 DEF Idle
    <3>2. CASE z = Answer([s EXCEPT !.way[t.w].val = v], t.w)
      <4>1. PICK y : y = [s EXCEPT !.way[t.w].val = v]
        BY Zenon
      <4>2. PICK k : k = [s.way[t.w] EXCEPT !.val = v]
        BY Zenon
      <4>3. IsBlk(s.way[t.w])
        BY Zenon, <1>1, <2>1
      <4>4. IsBlk(k) /\ k.st = s.way[t.w].st
        BY <4>2, <4>3 DEF IsBlk
      <4>5. IsL2(y) /\ Idle(s, y) /\ y.bad = s.bad /\ y.way = [s.way EXCEPT ![t.w] = k]
        BY Zenon, <1>1, <4>1, <4>2 DEF IsL2, Idle
      <4> QED
        BY Zenon, <3>2, <4>1, <4>4, <4>5
    <3> QED
      BY Zenon, <2>2, <3>1, <3>2
  <2>4. t.w \in Ways \cup {Temp} /\ (t.w \in Ways /\ t.w # t.w => s.way[t.w].st # "spm")
    BY Zenon, <2>1
  <2>5. Serviced(s, Answer(y, t.w), t)
    BY Zenon, <2>1, <2>3, <2>4, ServeAnswer
  <2> QED
    BY Zenon, <1>0, <2>3, <2>5
<1>6. CASE b # None /\ t.c = "wb"
  <2>1. t.w \in Ways
    BY <1>6, TargetKinds
  <2>2. b \in Ways \cup {Temp}
    BY Zenon, <1>6
  <2>3. CASE z = Bad(s, "slot")
    <3>1. "slot" # "none"
      OBVIOUS
    <3> QED
      BY Zenon, <1>0, <1>2, <2>3, <3>1
  <2>4. ASSUME NEW v, z = Answer([s EXCEPT !.way[b].val = v, !.way[b].dt = TRUE], t.w)
        PROVE  Serviced(s, z, t)
    <3>1. PICK y : y = [s EXCEPT !.way[b].val = v, !.way[b].dt = TRUE]
      BY Zenon
    <3>2. PICK k : k = [s.way[b] EXCEPT !.val = v, !.dt = TRUE]
      BY Zenon
    <3>3. IsBlk(s.way[b]) /\ b \in DOMAIN s.way
      BY Zenon, <1>1, <2>2
    <3>4. IsBlk(k) /\ k.st = s.way[b].st
      BY Zenon, <3>2, <3>3 DEF IsBlk
    <3>5. IsL2(y) /\ Idle(s, y) /\ y.bad = s.bad /\ y.way = [s.way EXCEPT ![b] = k]
      BY Zenon, <1>1, <3>1, <3>2, <3>3 DEF IsL2, IsBlk, Idle
    <3>6. b \in Ways => s.way[b].st # "spm"
      OBVIOUS
    <3>7. z = Answer(y, t.w)
      BY Zenon, <2>4, <3>1
    <3> QED
      BY Zenon, <2>1, <2>2, <3>4, <3>5, <3>6, <3>7, ServeAnswer
  <2>5. z = Bad(s, "slot") \/
        \E v : z = Answer([s EXCEPT !.way[b].val = v, !.way[b].dt = TRUE], t.w)
    <3>1. t.c # "cp"
      BY <1>6
    <3> QED
      BY Zenon, <1>0, <1>6, <3>1 DEF Service
  <2> QED
    BY Zenon, <1>0, <2>3, <2>4, <2>5
<1>7. CASE b # None /\ t.c \notin {"cp", "wb"}
  <2>1. t.w \notin Ways
    BY <1>7, TargetKinds
  <2>2. z = Respond(s, a, b, t.c, TRUE)
    BY Zenon, <1>0, <1>7 DEF Service
  <2>3. b \in Ways => s.way[b].st # "spm"
    OBVIOUS
  <2>4. b \in Ways \cup {Temp}
    BY Zenon, <1>7
  <2>5. /\ L2Type(z) /\ Keeps(s, z) /\ Idle(s, z) /\ z.bad = s.bad
        /\ \A w \in Ways \cup {Temp} : z.way[w].st = s.way[w].st
    <3>1. PICK c, l : c = t.c /\ l = TRUE
      BY Zenon
    <3>2. PICK y : y = Respond(s, a, b, c, l)
      BY Zenon
    <3>3. /\ L2Type(y) /\ Keeps(s, y) /\ Idle(s, y) /\ y.bad = s.bad
          /\ \A w \in Ways \cup {Temp} : y.way[w].st = s.way[w].st
      BY <2>3, <2>4, <3>2, RespondStep
    <3> QED
      BY Zenon, <2>2, <3>1, <3>2, <3>3
  <2> QED
    BY Zenon, <1>0, <1>3, <2>1, <2>5
<1> QED
  BY Zenon, <1>4, <1>5, <1>6, <1>7

=============================================================================
