-------------------------- MODULE AsyncLoggingProofs --------------------------
(***************************************************************************)
(* No assert of the back end fails and no line is lost, written twice or   *)
(* put out of order, for every size of the buffers, every limit on their   *)
(* number and every way of rolling the files.                              *)
(***************************************************************************)
EXTENDS AsyncLogging, SequenceTheorems, TLAPS

LineSeqs == Seq(Nat)

\* The lines of one buffer or file.
LinesOf(b) == Range(b) \ {0}

Typed ==
  /\ appended \in Nat /\ dropped \subseteq 1 .. appended
  /\ currentBuffer \in {{b} : b \in LineSeqs}
  /\ {nextBuffer, newBuffer1, newBuffer2} \subseteq {Null, {<<>>}}
  /\ buffers \in Seq(LineSeqs) /\ buffersToWrite \in Seq(LineSeqs) /\ files \in Seq(LineSeqs)
  /\ written \in 0 .. Len(buffersToWrite)
  /\ now \in Nat \ {0}

\* The thread exists from start() on, which waits until it has begun.
Threads ==
  /\ back = "none" <=> owner = "new"
  /\ back = "new" => owner = "starting"
  /\ owner = "starting" => running

\* What the back end has in its hands in each part of its loop.  The front end has
\* taken the spare buffer only after it put a full one aside.
Hands ==
  /\ nextBuffer = Null => buffers # <<>>
  /\ back \in {"none", "new"} => files = <<>> /\ logFile.lastRoll = 0
  /\ back \notin {"none", "new"} => files # <<>>
  /\ back \notin {"drop", "write"} => buffersToWrite = <<>>
  /\ back # "write" => written = 0
  /\ back \in {"check", "lock", "wait", "swap"} => newBuffer1 = {<<>>} /\ newBuffer2 = {<<>>}
  /\ back \in {"drop", "write"} =>
       /\ newBuffer1 = Null
       /\ buffersToWrite # <<>>
       /\ newBuffer2 = Null => Len(buffersToWrite) > 1

IndInv == Typed /\ Threads /\ Hands /\ NothingLost /\ ~failed

-----------------------------------------------------------------------------
(* Lines and their order under concatenation.                              *)

\* A line is in a sequence of buffers when it is in one of them.
LEMMA LinesMember ==
  ASSUME NEW s \in Seq(LineSeqs), NEW x
  PROVE  x \in Lines(s) <=> \E i \in 1 .. Len(s) : x \in LinesOf(s[i])
<1>1. DOMAIN s = 1 .. Len(s)
  BY LenProperties
<1>. QED BY <1>1 DEF Lines, LinesOf

\* Lines are numbers from 1 on.
LEMMA LinesOfType ==
  ASSUME NEW b \in LineSeqs
  PROVE  LinesOf(b) \subseteq Nat \ {0}
BY RangeOfSeq DEF LinesOf, LineSeqs, Range

\* So are those of a sequence of buffers.
LEMMA LinesType ==
  ASSUME NEW s \in Seq(LineSeqs)
  PROVE  Lines(s) \subseteq Nat \ {0}
BY LinesMember, LinesOfType, ElementOfSeq

\* The lines of two buffers, one after the other.
LEMMA LinesOfCat ==
  ASSUME NEW a \in LineSeqs, NEW b \in LineSeqs
  PROVE  /\ a \o b \in LineSeqs
         /\ LinesOf(a \o b) = LinesOf(a) \cup LinesOf(b)
<1>1. Range(a \o b) = Range(a) \cup Range(b)
  BY RangeConcatenation DEF LineSeqs
<1>. QED BY <1>1, ConcatProperties DEF LinesOf, LineSeqs

\* Two buffers one after the other are in order when each is and they are.
LEMMA IncreasingCat ==
  ASSUME NEW a \in LineSeqs, NEW b \in LineSeqs,
         Increasing(a), Increasing(b), Below(LinesOf(a), LinesOf(b))
  PROVE  Increasing(a \o b)
<1>1. /\ Len(a) \in Nat /\ Len(b) \in Nat /\ DOMAIN a = 1 .. Len(a) /\ DOMAIN b = 1 .. Len(b)
      /\ DOMAIN (a \o b) = 1 .. Len(a) + Len(b)
  BY ConcatProperties, LenProperties DEF LineSeqs
<1>2. SUFFICES ASSUME NEW i \in 1 .. Len(a) + Len(b), NEW j \in 1 .. Len(a) + Len(b),
                      i < j, (a \o b)[i] # 0, (a \o b)[j] # 0
               PROVE  (a \o b)[i] < (a \o b)[j]
  BY <1>1 DEF Increasing
<1>3. CASE j <= Len(a)
  <2>1. (a \o b)[i] = a[i] /\ (a \o b)[j] = a[j] /\ i \in DOMAIN a /\ j \in DOMAIN a
    BY <1>1, <1>2, <1>3, ConcatProperties DEF LineSeqs
  <2>. QED BY <1>2, <2>1 DEF Increasing
<1>4. CASE i <= Len(a) /\ j > Len(a)
  <2>1. (a \o b)[i] = a[i] /\ (a \o b)[j] = b[j - Len(a)]
        /\ i \in DOMAIN a /\ j - Len(a) \in DOMAIN b
    BY <1>1, <1>2, <1>4, ConcatProperties DEF LineSeqs
  <2>2. a[i] \in LinesOf(a) /\ b[j - Len(a)] \in LinesOf(b)
    BY <1>2, <2>1 DEF LinesOf, Range
  <2>. QED BY <2>1, <2>2 DEF Below
<1>5. CASE i > Len(a)
  <2>1. (a \o b)[i] = b[i - Len(a)] /\ (a \o b)[j] = b[j - Len(a)]
        /\ i - Len(a) \in DOMAIN b /\ j - Len(a) \in DOMAIN b /\ i - Len(a) < j - Len(a)
    BY <1>1, <1>2, <1>5, ConcatProperties DEF LineSeqs
  <2>. QED BY <1>2, <2>1 DEF Increasing
<1>. QED BY <1>1, <1>3, <1>4, <1>5

\* The lines of two sequences of buffers, one after the other.
LEMMA LinesCat ==
  ASSUME NEW s \in Seq(LineSeqs), NEW t \in Seq(LineSeqs)
  PROVE  /\ s \o t \in Seq(LineSeqs)
         /\ Lines(s \o t) = Lines(s) \cup Lines(t)
<1>1. /\ s \o t \in Seq(LineSeqs) /\ Len(s) \in Nat /\ Len(t) \in Nat
      /\ Len(s \o t) = Len(s) + Len(t)
      /\ \A i \in 1 .. Len(s) + Len(t) :
           (s \o t)[i] = IF i <= Len(s) THEN s[i] ELSE t[i - Len(s)]
  BY ConcatProperties, LenProperties
<1>2. ASSUME NEW x \in Lines(s \o t) PROVE x \in Lines(s) \cup Lines(t)
  <2>1. PICK i \in 1 .. Len(s) + Len(t) : x \in LinesOf((s \o t)[i])
    BY <1>1, LinesMember
  <2>2. CASE i <= Len(s)
    BY <1>1, <2>1, <2>2, LinesMember
  <2>3. CASE ~(i <= Len(s))
    <3>1. i - Len(s) \in 1 .. Len(t) /\ (s \o t)[i] = t[i - Len(s)]
      BY <1>1, <2>3
    <3>. QED BY <2>1, <3>1, LinesMember
  <2>. QED BY <2>2, <2>3
<1>3. ASSUME NEW x \in Lines(s) PROVE x \in Lines(s \o t)
  <2>1. PICK i \in 1 .. Len(s) : x \in LinesOf(s[i])
    BY LinesMember, <1>3
  <2>2. i \in 1 .. Len(s \o t) /\ (s \o t)[i] = s[i]
    BY <1>1
  <2>. QED BY <1>1, <2>1, <2>2, LinesMember
<1>4. ASSUME NEW x \in Lines(t) PROVE x \in Lines(s \o t)
  <2>1. PICK i \in 1 .. Len(t) : x \in LinesOf(t[i])
    BY LinesMember, <1>4
  <2>2. i + Len(s) \in 1 .. Len(s \o t) /\ (s \o t)[i + Len(s)] = t[i]
    BY <1>1
  <2>. QED BY <1>1, <2>1, <2>2, LinesMember
<1>. QED BY <1>1, <1>2, <1>3, <1>4

\* InOrder in terms of LinesOf and of indices.
LEMMA InOrderMeans ==
  ASSUME NEW s \in Seq(LineSeqs)
  PROVE  InOrder(s) <=>
           /\ \A i \in 1 .. Len(s) : Increasing(s[i])
           /\ \A i, k \in 1 .. Len(s) : i < k => Below(LinesOf(s[i]), LinesOf(s[k]))
BY LenProperties DEF InOrder, LinesOf

\* Two sequences of buffers, one after the other, are in order when each is and they are.
LEMMA InOrderCat ==
  ASSUME NEW s \in Seq(LineSeqs), NEW t \in Seq(LineSeqs)
  PROVE  InOrder(s \o t) <=> InOrder(s) /\ InOrder(t) /\ Below(Lines(s), Lines(t))
<1>. DEFINE st == s \o t
            m  == Len(s)
            n  == Len(t)
<1>1. /\ st \in Seq(LineSeqs) /\ m \in Nat /\ n \in Nat
      /\ Len(st) = m + n
      /\ \A i \in 1 .. m + n : st[i] = IF i <= m THEN s[i] ELSE t[i - m]
  BY ConcatProperties, LenProperties
<1>2. /\ \A i \in 1 .. m : i \in 1 .. Len(st) /\ st[i] = s[i]
      /\ \A i \in 1 .. n : i + m \in 1 .. Len(st) /\ st[i + m] = t[i]
      /\ \A i \in 1 .. Len(st) : i \in 1 .. m \/ \E k \in 1 .. n : i = k + m
  <2>. HIDE DEF st, m, n
  <2>1. ASSUME NEW i \in 1 .. Len(st), i \notin 1 .. m PROVE \E k \in 1 .. n : i = k + m
    <3>1. i - m \in 1 .. n /\ i = (i - m) + m
      BY <1>1, <2>1
    <3>. QED BY <3>1
  <2>. QED BY <1>1, <2>1
<1>. HIDE DEF st, m, n
<1>3. /\ \A x : x \in Lines(s) <=> \E i \in 1 .. m : x \in LinesOf(s[i])
      /\ \A x : x \in Lines(t) <=> \E i \in 1 .. n : x \in LinesOf(t[i])
  BY LinesMember DEF m, n
<1>4. /\ InOrder(st) <=> /\ \A i \in 1 .. Len(st) : Increasing(st[i])
                         /\ \A i, k \in 1 .. Len(st) :
                              i < k => Below(LinesOf(st[i]), LinesOf(st[k]))
      /\ InOrder(s) <=> /\ \A i \in 1 .. m : Increasing(s[i])
                        /\ \A i, k \in 1 .. m : i < k => Below(LinesOf(s[i]), LinesOf(s[k]))
      /\ InOrder(t) <=> /\ \A i \in 1 .. n : Increasing(t[i])
                        /\ \A i, k \in 1 .. n : i < k => Below(LinesOf(t[i]), LinesOf(t[k]))
  BY <1>1, InOrderMeans DEF m, n
<1>5. ASSUME InOrder(st) PROVE InOrder(s) /\ InOrder(t) /\ Below(Lines(s), Lines(t))
  <2>1. InOrder(s)
    BY <1>1, <1>2, <1>5, <1>4
  <2>2. InOrder(t)
    <3>1. \A i, k \in 1 .. n : i < k => i + m < k + m
      BY <1>1
    <3>. QED BY <1>2, <1>5, <1>4, <3>1
  <2>3. ASSUME NEW x \in Lines(s), NEW y \in Lines(t) PROVE x < y
    <3>1. PICK i \in 1 .. m : x \in LinesOf(s[i])
      BY <1>3
    <3>2. PICK k \in 1 .. n : y \in LinesOf(t[k])
      BY <1>3
    <3>3. i < k + m
      BY <1>1
    <3>4. Below(LinesOf(s[i]), LinesOf(t[k]))
      BY <1>2, <1>5, <1>4, <3>3
    <3>. QED BY <3>1, <3>2, <3>4 DEF Below
  <2>. QED BY <2>1, <2>2, <2>3 DEF Below
<1>6. ASSUME InOrder(s), InOrder(t), Below(Lines(s), Lines(t)) PROVE InOrder(st)
  <2>1. \A i \in 1 .. Len(st) : Increasing(st[i])
    BY <1>2, <1>6, <1>4
  <2>2. ASSUME NEW i \in 1 .. Len(st), NEW k \in 1 .. Len(st), i < k
        PROVE  Below(LinesOf(st[i]), LinesOf(st[k]))
    <3>1. CASE i \in 1 .. m /\ k \in 1 .. m
      BY <1>2, <1>6, <1>4, <2>2, <3>1
    <3>2. CASE i \in 1 .. m /\ k \notin 1 .. m
      <4>1. PICK q \in 1 .. n : k = q + m
        BY <1>2, <3>2
      <4>2. LinesOf(st[i]) \subseteq Lines(s) /\ LinesOf(st[k]) \subseteq Lines(t)
        BY <1>2, <1>3, <3>2, <4>1
      <4>. QED BY <1>6, <4>2 DEF Below
    <3>3. CASE i \notin 1 .. m
      <4>1. PICK p \in 1 .. n : i = p + m
        BY <1>2, <3>3
      <4>2. k \notin 1 .. m
        BY <1>1, <2>2, <4>1
      <4>3. PICK q \in 1 .. n : k = q + m
        BY <1>2, <4>2
      <4>4. p < q
        BY <1>1, <2>2, <4>1, <4>3
      <4>. QED BY <1>2, <1>6, <1>4, <4>1, <4>3, <4>4
    <3>. QED BY <3>1, <3>2, <3>3
  <2>. QED BY <1>4, <2>1, <2>2
<1>. QED BY <1>5, <1>6 DEF st

\* One buffer, and none.
LEMMA LinesOfOne ==
  ASSUME NEW c \in LineSeqs
  PROVE  /\ <<c>> \in Seq(LineSeqs)
         /\ Lines(<<c>>) = LinesOf(c)
         /\ InOrder(<<c>>) <=> Increasing(c)
<1>. DEFINE s == <<c>>
<1>1. s \in Seq(LineSeqs) /\ Len(s) = 1 /\ s[1] = c
  OBVIOUS
<1>. HIDE DEF s
<1>2. \A i \in 1 .. Len(s) : i = 1
  BY <1>1
<1>3. Lines(s) = LinesOf(c)
  <2>1. \A x : x \in Lines(s) <=> \E i \in 1 .. Len(s) : x \in LinesOf(s[i])
    BY <1>1, LinesMember
  <2>2. 1 \in 1 .. Len(s)
    BY <1>1
  <2>. QED BY <1>1, <1>2, <2>1, <2>2
<1>4. InOrder(s) <=> Increasing(c)
  <2>1. InOrder(s) <=>
           /\ \A i \in 1 .. Len(s) : Increasing(s[i])
           /\ \A i, k \in 1 .. Len(s) : i < k => Below(LinesOf(s[i]), LinesOf(s[k]))
    BY <1>1, InOrderMeans
  <2>2. 1 \in 1 .. Len(s) /\ ~(1 < 1)
    BY <1>1
  <2>. QED BY <1>1, <1>2, <2>1, <2>2
<1>. QED BY <1>1, <1>3, <1>4 DEF s

\* No buffer, and an empty one.
LEMMA LinesOfNone ==
  /\ <<>> \in LineSeqs /\ <<>> \in Seq(LineSeqs)
  /\ LinesOf(<<>>) = {} /\ Lines(<<>>) = {}
  /\ Increasing(<<>>) /\ InOrder(<<>>)
<1>1. <<>> \in LineSeqs /\ <<>> \in Seq(LineSeqs) /\ DOMAIN <<>> = {}
  BY EmptySeq, LenProperties DEF LineSeqs
<1>. QED BY <1>1 DEF LinesOf, Lines, Increasing, InOrder, Range

-----------------------------------------------------------------------------
(* The lines on their way: files f, buffers to write u, full buffers b and *)
(* the current buffer c hold the lines L, in this order.                   *)

Flow(f, u, b, c, L) ==
  /\ Lines(f) \cup Lines(u) \cup Lines(b) \cup LinesOf(c) = L
  /\ InOrder(f) /\ InOrder(u) /\ InOrder(b) /\ Increasing(c)
  /\ Below(Lines(f), Lines(u)) /\ Below(Lines(f), Lines(b)) /\ Below(Lines(f), LinesOf(c))
  /\ Below(Lines(u), Lines(b)) /\ Below(Lines(u), LinesOf(c))
  /\ Below(Lines(b), LinesOf(c))

\* NothingLost is about the four of them in a row.
LEMMA PlacesFlow ==
  ASSUME NEW f \in Seq(LineSeqs), NEW u \in Seq(LineSeqs), NEW b \in Seq(LineSeqs),
         NEW c \in LineSeqs, NEW L
  PROVE  Lines(f \o u \o b \o <<c>>) = L /\ InOrder(f \o u \o b \o <<c>>)
           <=> Flow(f, u, b, c, L)
<1>. DEFINE one == <<c>>
            fu  == f \o u
            fub == fu \o b
<1>1. one \in Seq(LineSeqs) /\ Lines(one) = LinesOf(c) /\ (InOrder(one) <=> Increasing(c))
  BY LinesOfOne
<1>. HIDE DEF one
<1>2. /\ fu \in Seq(LineSeqs) /\ Lines(fu) = Lines(f) \cup Lines(u)
      /\ InOrder(fu) <=> InOrder(f) /\ InOrder(u) /\ Below(Lines(f), Lines(u))
  BY LinesCat, InOrderCat
<1>. HIDE DEF fu
<1>3. /\ fub \in Seq(LineSeqs) /\ Lines(fub) = Lines(fu) \cup Lines(b)
      /\ InOrder(fub) <=> InOrder(fu) /\ InOrder(b) /\ Below(Lines(fu), Lines(b))
  BY <1>2, LinesCat, InOrderCat
<1>. HIDE DEF fub
<1>4. /\ Lines(fub \o one) = Lines(fub) \cup Lines(one)
      /\ InOrder(fub \o one) <=> InOrder(fub) /\ InOrder(one) /\ Below(Lines(fub), Lines(one))
  BY <1>1, <1>3, LinesCat, InOrderCat
<1>5. Lines(fub \o one) = L /\ InOrder(fub \o one) <=> Flow(f, u, b, c, L)
  BY <1>1, <1>2, <1>3, <1>4 DEF Flow, Below
<1>. QED BY <1>5 DEF fub, fu, one

\* append(): a line goes to the end of the current buffer.
LEMMA FlowAppend ==
  ASSUME NEW f, NEW u, NEW b, NEW c \in LineSeqs, NEW L, Flow(f, u, b, c, L),
         NEW n \in Nat \ {0}, \A x \in L : x < n
  PROVE  Append(c, n) \in LineSeqs /\ Flow(f, u, b, Append(c, n), L \cup {n})
<1>. DEFINE one == <<n>>
<1>1. one \in LineSeqs /\ Append(c, n) = c \o one
  BY AppendIsConcat DEF LineSeqs
<1>2. LinesOf(one) = {n} /\ Increasing(one)
  <2>1. DOMAIN one = {1} /\ one[1] = n
    OBVIOUS
  <2>. HIDE DEF one
  <2>. QED BY <2>1 DEF LinesOf, Range, Increasing
<1>. HIDE DEF one
<1>3. c \o one \in LineSeqs /\ LinesOf(c \o one) = LinesOf(c) \cup {n}
  BY <1>1, <1>2, LinesOfCat
<1>4. Below(LinesOf(c), LinesOf(one))
  BY <1>2 DEF Flow, Below
<1>5. Increasing(c \o one)
  BY <1>1, <1>2, <1>4, IncreasingCat DEF Flow
<1>6. Flow(f, u, b, c \o one, L \cup {n})
  BY <1>3, <1>5 DEF Flow, Below
<1>. QED BY <1>1, <1>3, <1>6

\* append(): the full buffer is put aside and another one, d, taken.
LEMMA FlowAside ==
  ASSUME NEW f, NEW u, NEW b \in Seq(LineSeqs), NEW c \in LineSeqs, NEW L, Flow(f, u, b, c, L),
         NEW d \in LineSeqs, Increasing(d), Below(L, LinesOf(d))
  PROVE  Append(b, c) \in Seq(LineSeqs) /\ Flow(f, u, Append(b, c), d, L \cup LinesOf(d))
<1>. DEFINE one == <<c>>
<1>1. /\ one \in Seq(LineSeqs) /\ Lines(one) = LinesOf(c) /\ (InOrder(one) <=> Increasing(c))
      /\ Append(b, c) = b \o one
  BY LinesOfOne, AppendIsConcat
<1>. HIDE DEF one
<1>2. /\ b \o one \in Seq(LineSeqs) /\ Lines(b \o one) = Lines(b) \cup LinesOf(c)
      /\ InOrder(b \o one)
  BY <1>1, LinesCat, InOrderCat DEF Flow
<1>3. Flow(f, u, b \o one, d, L \cup LinesOf(d))
  BY <1>2 DEF Flow, Below
<1>. QED BY <1>1, <1>2, <1>3

\* The back end takes all the front end has.
LEMMA FlowSwap ==
  ASSUME NEW f, NEW b \in Seq(LineSeqs), NEW c \in LineSeqs, NEW L, Flow(f, <<>>, b, c, L)
  PROVE  Append(b, c) \in Seq(LineSeqs) /\ Flow(f, Append(b, c), <<>>, <<>>, L)
<1>1. Append(b, c) \in Seq(LineSeqs) /\ Flow(f, <<>>, Append(b, c), <<>>, L \cup LinesOf(<<>>))
  BY FlowAside, LinesOfNone DEF Below
<1>. QED BY <1>1, LinesOfNone DEF Flow, Below

\* Lines appended to the last of the files f, which may then be rolled.
AppendsTo(f, x, g) ==
  LET e == [f EXCEPT ![Len(f)] = @ \o x] IN g = e \/ g = Append(e, <<>>)

\* The files keep their order.
LEMMA FileAppend ==
  ASSUME NEW f \in Seq(LineSeqs), f # <<>>, NEW x \in LineSeqs, NEW g,
         InOrder(f), Increasing(x), Below(Lines(f), LinesOf(x)),
         AppendsTo(f, x, g)
  PROVE  /\ g \in Seq(LineSeqs) /\ g # <<>>
         /\ Lines(g) = Lines(f) \cup LinesOf(x)
         /\ InOrder(g)
<1>. DEFINE n == Len(f)
            h == SubSeq(f, 1, n - 1)
            l == f[n]
            e == [f EXCEPT ![n] = l \o x]
            one == <<l>>
            two == <<l \o x>>
            nil == <<<<>>>>
<1>1. n \in Nat \ {0} /\ n \in 1 .. n /\ l \in LineSeqs
  BY EmptySeq, ElementOfSeq
<1>2. l \o x \in LineSeqs /\ LinesOf(l \o x) = LinesOf(l) \cup LinesOf(x)
  BY <1>1, LinesOfCat
<1>3. h \in Seq(LineSeqs) /\ Len(h) = n - 1 /\ \A i \in 1 .. n - 1 : h[i] = f[i]
  <2>1. 1 \in Int /\ n - 1 \in Int /\ \A i \in 1 .. n - 1 : f[i] \in LineSeqs
    BY <1>1, ElementOfSeq
  <2>2. /\ h \in Seq(LineSeqs) /\ Len(h) = IF 1 <= n - 1 THEN n - 1 - 1 + 1 ELSE 0
        /\ \A i \in 1 .. n - 1 - 1 + 1 : h[i] = f[1 + i - 1]
    BY <2>1, SubSeqProperties
  <2>. HIDE DEF h, n
  <2>. QED BY <1>1, <2>2
<1>4. f = h \o one
  <2>1. h \o one \in Seq(LineSeqs) /\ Len(h \o one) = n
    BY <1>1, <1>3
  <2>2. \A i \in 1 .. n : (h \o one)[i] = f[i]
    BY <1>1, <1>3
  <2>. QED BY <2>1, <2>2, SeqEqual
<1>5. e = h \o two /\ e \in Seq(LineSeqs) /\ Len(e) = n
  <2>1. h \o two \in Seq(LineSeqs) /\ Len(h \o two) = n
    BY <1>1, <1>2, <1>3
  <2>2. e \in Seq(LineSeqs) /\ Len(e) = n
    BY <1>1, <1>2, ExceptSeq
  <2>3. \A i \in 1 .. n : e[i] = IF i = n THEN l \o x ELSE f[i]
    BY <1>1, <1>2, ExceptSeq
  <2>. DEFINE y == l \o x
  <2>4. y \in LineSeqs
    BY <1>2
  <2>5. \A i \in 1 .. n : (h \o two)[i] = IF i = n THEN l \o x ELSE f[i]
    <3>1. \A i \in 1 .. n : (h \o <<y>>)[i] = IF i = n THEN y ELSE f[i]
      <4>. HIDE DEF y, h, l, n
      <4>. QED BY <1>1, <1>3, <2>4
    <3>. QED BY <3>1
  <2>. DEFINE ht == h \o two
  <2>6. \A i \in 1 .. n : e[i] = ht[i]
    BY <2>3, <2>5
  <2>7. ht \in Seq(LineSeqs) /\ Len(ht) = n
    BY <2>1
  <2>. HIDE DEF e, ht, n
  <2>8. e = ht
    BY <2>2, <2>6, <2>7, SeqEqual
  <2>. QED BY <2>2, <2>8 DEF ht
<1>6. /\ one \in Seq(LineSeqs) /\ Lines(one) = LinesOf(l) /\ (InOrder(one) <=> Increasing(l))
      /\ two \in Seq(LineSeqs) /\ Lines(two) = LinesOf(l \o x)
      /\ InOrder(two) <=> Increasing(l \o x)
      /\ nil \in Seq(LineSeqs) /\ Lines(nil) = {} /\ InOrder(nil)
  BY <1>1, <1>2, LinesOfOne, LinesOfNone
<1>7. e # <<>> /\ Append(e, <<>>) = e \o nil /\ e \o nil # <<>>
  <2>. HIDE DEF e
  <2>1. Len(e \o nil) = n + 1
    BY <1>5
  <2>. QED BY <1>1, <1>5, <2>1, LinesOfNone, EmptySeq, AppendIsConcat
<1>8. g = e \/ g = e \o nil
  BY <1>7 DEF AppendsTo
<1>. HIDE DEF h, l, e, one, two, nil
<1>9. /\ Lines(f) = Lines(h) \cup LinesOf(l)
      /\ InOrder(h) /\ Increasing(l) /\ Below(Lines(h), LinesOf(l))
  BY <1>3, <1>4, <1>6, LinesCat, InOrderCat
<1>10. Below(LinesOf(l), LinesOf(x)) /\ Below(Lines(h), LinesOf(x))
  BY <1>9 DEF Below
<1>11. InOrder(two)
  BY <1>1, <1>6, <1>9, <1>10, IncreasingCat
<1>12. Below(Lines(h), Lines(two))
  BY <1>2, <1>6, <1>9, <1>10 DEF Below
<1>13. Lines(e) = Lines(f) \cup LinesOf(x) /\ InOrder(e)
  <2>1. Lines(h \o two) = Lines(h) \cup Lines(two)
    BY <1>3, <1>6, LinesCat
  <2>2. InOrder(h \o two)
    BY <1>3, <1>6, <1>9, <1>11, <1>12, InOrderCat
  <2>. QED BY <1>2, <1>5, <1>6, <1>9, <2>1, <2>2
<1>14. e \o nil \in Seq(LineSeqs) /\ Lines(e \o nil) = Lines(e) /\ InOrder(e \o nil)
  <2>1. Below(Lines(e), Lines(nil))
    BY <1>6 DEF Below
  <2>2. e \o nil \in Seq(LineSeqs) /\ Lines(e \o nil) = Lines(e) \cup Lines(nil)
    BY <1>5, <1>6, LinesCat
  <2>3. InOrder(e \o nil)
    BY <1>5, <1>6, <1>13, <2>1, InOrderCat
  <2>. QED BY <1>6, <2>2, <2>3
<1>. QED BY <1>5, <1>7, <1>8, <1>13, <1>14

\* The first of the buffers to write has gone to the files.
LEMMA FlowWrite ==
  ASSUME NEW f \in Seq(LineSeqs), f # <<>>, NEW x \in LineSeqs, NEW v \in Seq(LineSeqs),
         NEW b, NEW c, NEW L, Flow(f, <<x>> \o v, b, c, L), NEW g,
         AppendsTo(f, x, g)
  PROVE  g \in Seq(LineSeqs) /\ g # <<>> /\ Flow(g, v, b, c, L)
<1>. DEFINE one == <<x>>
<1>1. one \in Seq(LineSeqs) /\ Lines(one) = LinesOf(x) /\ (InOrder(one) <=> Increasing(x))
  BY LinesOfOne
<1>2. Flow(f, one \o v, b, c, L)
  OBVIOUS
<1>. HIDE DEF one
<1>3. /\ Lines(one \o v) = LinesOf(x) \cup Lines(v)
      /\ InOrder(one \o v) <=> InOrder(one) /\ InOrder(v) /\ Below(Lines(one), Lines(v))
  BY <1>1, LinesCat, InOrderCat
<1>4. Increasing(x) /\ InOrder(v) /\ Below(LinesOf(x), Lines(v)) /\ InOrder(f)
  BY <1>1, <1>2, <1>3 DEF Flow
<1>5. Below(Lines(f), LinesOf(x)) /\ Below(Lines(f), Lines(v))
  BY <1>2, <1>3 DEF Flow, Below
<1>6. /\ g \in Seq(LineSeqs) /\ g # <<>>
      /\ Lines(g) = Lines(f) \cup LinesOf(x)
      /\ InOrder(g)
  BY <1>4, <1>5, FileAppend
<1>7. Flow(g, v, b, c, L)
  BY <1>2, <1>3, <1>4, <1>5, <1>6 DEF Flow, Below
<1>. QED BY <1>6, <1>7

\* The notice, which is no line.
Notice == <<0>>

\* The last of the buffers to write are erased; the notice has gone to the files.
LEMMA FlowDrop ==
  ASSUME NEW f \in Seq(LineSeqs), f # <<>>, NEW v \in Seq(LineSeqs), NEW w \in Seq(LineSeqs),
         NEW b \in Seq(LineSeqs), NEW c \in LineSeqs, NEW L, Flow(f, v \o w, b, c, L), NEW g,
         AppendsTo(f, Notice, g)
  PROVE  /\ g \in Seq(LineSeqs) /\ g # <<>> /\ Lines(w) \subseteq L
         /\ Flow(g, v, b, c, L \ Lines(w))
<1>. DEFINE x == Notice
<1>1. x \in LineSeqs /\ LinesOf(x) = {} /\ Increasing(x)
  <2>1. x \in LineSeqs /\ DOMAIN x = {1} /\ x[1] = 0
    BY DEF LineSeqs, Notice
  <2>. HIDE DEF x
  <2>. QED BY <2>1 DEF LinesOf, Range, Increasing
<1>2. AppendsTo(f, x, g)
  OBVIOUS
<1>. HIDE DEF x
<1>3. InOrder(f) /\ Below(Lines(f), LinesOf(x))
  BY <1>1 DEF Flow, Below
<1>4. g \in Seq(LineSeqs) /\ g # <<>> /\ Lines(g) = Lines(f) \cup LinesOf(x) /\ InOrder(g)
  BY <1>1, <1>2, <1>3, FileAppend
<1>5. /\ Lines(v \o w) = Lines(v) \cup Lines(w)
      /\ InOrder(v) /\ Below(Lines(v), Lines(w))
  BY LinesCat, InOrderCat DEF Flow
<1>6. ASSUME NEW y \in Lines(w) PROVE y \notin Lines(f) /\ y \notin Lines(v)
                                      /\ y \notin Lines(b) /\ y \notin LinesOf(c)
  <2>1. ~(y < y)
    BY <1>6, LinesType
  <2>. QED BY <1>5, <1>6, <2>1 DEF Flow, Below
<1>7. Lines(w) \subseteq L
  BY <1>5 DEF Flow
<1>8. Lines(g) \cup Lines(v) \cup Lines(b) \cup LinesOf(c) = L \ Lines(w)
  BY <1>1, <1>4, <1>5, <1>6 DEF Flow
<1>9. Flow(g, v, b, c, L \ Lines(w))
  BY <1>1, <1>4, <1>5, <1>8 DEF Flow, Below
<1>. QED BY <1>4, <1>7, <1>9

-----------------------------------------------------------------------------
(* From the variables to Flow and back.                                    *)

Kept == (1 .. appended) \ dropped

\* The buffers to write, before the first write and after the last one.
LEMMA UnwrittenEnds ==
  ASSUME NEW s \in Seq(LineSeqs)
  PROVE  /\ SubSeq(s, 0 + 1, Len(s)) = s
         /\ SubSeq(s, Len(s) + 1, Len(s)) = <<>>
<1>1. Len(s) \in Nat
  BY LenProperties
<1>2. SubSeq(s, 1, Len(s)) = s
  BY SubSeqFull
<1>3. Len(s) + 1 > Len(s)
  BY <1>1
<1>. QED BY <1>1, <1>2, <1>3, SubSeqEmpty

\* The next buffer to write and the rest.
LEMMA UnwrittenFirst ==
  ASSUME NEW s \in Seq(LineSeqs), NEW k \in 0 .. Len(s), k < Len(s)
  PROVE  /\ s[k + 1] \in LineSeqs /\ k + 1 \in 0 .. Len(s)
         /\ SubSeq(s, k + 1 + 1, Len(s)) \in Seq(LineSeqs)
         /\ SubSeq(s, k + 1, Len(s)) = <<s[k + 1]>> \o SubSeq(s, k + 1 + 1, Len(s))
<1>. DEFINE n == Len(s)
            m == k + 1
<1>1. n \in Nat /\ m \in 1 .. n /\ n \in m .. n /\ m + 1 \in Int /\ n \in Int
  BY LenProperties
<1>2. \A i \in 1 .. n : s[i] \in LineSeqs
  BY ElementOfSeq
<1>3. \A i \in m + 1 .. n : s[i] \in LineSeqs
  BY <1>1, <1>2
<1>4. s[m] \in LineSeqs /\ m \in 0 .. n
  BY <1>1, <1>2
<1>. HIDE DEF n, m
<1>5. SubSeq(s, m + 1, n) \in Seq(LineSeqs)
  BY <1>1, <1>3, SubSeqProperties
<1>6. SubSeq(s, m, n) = <<s[m]>> \o SubSeq(s, m + 1, n)
  BY <1>1, SubSeqRecursiveFirst DEF n
<1>. QED BY <1>4, <1>5, <1>6 DEF n, m

\* The two buffers that are kept and the ones that are erased.
LEMMA UnwrittenSplit ==
  ASSUME NEW s \in Seq(LineSeqs), Len(s) > 2
  PROVE  /\ SubSeq(s, 1, 2) \in Seq(LineSeqs) /\ Len(SubSeq(s, 1, 2)) = 2
         /\ SubSeq(s, 3, Len(s)) \in Seq(LineSeqs)
         /\ s = SubSeq(s, 1, 2) \o SubSeq(s, 3, Len(s))
<1>. DEFINE n == Len(s)
            a == SubSeq(s, 1, 2)
<1>1. n \in Nat /\ n > 2 /\ \A i \in 1 .. n : s[i] \in LineSeqs
  BY LenProperties, ElementOfSeq
<1>2. a \in Seq(LineSeqs) /\ Len(a) = 2
  <2>1. \A i \in 1 .. 2 : s[i] \in LineSeqs
    BY <1>1
  <2>2. a \in Seq(LineSeqs) /\ Len(a) = IF 1 <= 2 THEN 2 - 1 + 1 ELSE 0
    BY <2>1, SubSeqProperties
  <2>. HIDE DEF a
  <2>. QED BY <2>2
<1>3. SubSeq(s, 3, n) \in Seq(LineSeqs)
  <2>1. 3 \in Int /\ n \in Int /\ \A i \in 3 .. n : s[i] \in LineSeqs
    BY <1>1
  <2>. QED BY <2>1, SubSeqProperties
<1>4. a \o SubSeq(s, 2 + 1, n) = SubSeq(s, 1, n)
  <2>1. 1 \in 1 .. n + 1 /\ 2 \in 1 - 1 .. n /\ n \in 2 .. n
    BY <1>1
  <2>. QED BY <2>1, ConcatAdjacentSubSeq
<1>5. 2 + 1 = 3 /\ SubSeq(s, 1, n) = s
  BY SubSeqFull
<1>. QED BY <1>2, <1>3, <1>4, <1>5

\* What the invariant says of the lines.
LEMMA FlowNow ==
  ASSUME IndInv
  PROVE  \E c \in LineSeqs :
           /\ currentBuffer = {c} /\ TheBuffer(currentBuffer) = c
           /\ Unwritten \in Seq(LineSeqs)
           /\ Flow(files, Unwritten, buffers, c, Kept)
<1>1. PICK c \in LineSeqs : currentBuffer = {c}
  BY DEF IndInv, Typed
<1>2. TheBuffer(currentBuffer) = c
  BY <1>1 DEF TheBuffer
<1>3. Unwritten \in Seq(LineSeqs)
  <2>. DEFINE n == Len(buffersToWrite)
  <2>1. n \in Nat /\ written \in 0 .. n /\ \A i \in 1 .. n : buffersToWrite[i] \in LineSeqs
    BY ElementOfSeq, LenProperties DEF IndInv, Typed
  <2>2. /\ written + 1 \in Int /\ n \in Int
        /\ \A i \in written + 1 .. n : buffersToWrite[i] \in LineSeqs
    BY <2>1
  <2>. QED BY <2>2, SubSeqProperties DEF Unwritten
<1>4. Lines(files \o Unwritten \o buffers \o <<c>>) = Kept
      /\ InOrder(files \o Unwritten \o buffers \o <<c>>)
  BY <1>2 DEF IndInv, NothingLost, Places, Kept
<1>5. Flow(files, Unwritten, buffers, c, Kept)
  BY <1>3, <1>4, PlacesFlow DEF IndInv, Typed
<1>. QED BY <1>1, <1>2, <1>3, <1>5

\* What a step has to show of them.
LEMMA FlowThen ==
  ASSUME NEW f \in Seq(LineSeqs), NEW u \in Seq(LineSeqs), NEW b \in Seq(LineSeqs),
         NEW c \in LineSeqs, files' = f, Unwritten' = u, buffers' = b, currentBuffer' = {c},
         Flow(f, u, b, c, Kept')
  PROVE  NothingLost'
<1>1. TheBuffer(currentBuffer)' = c
  BY DEF TheBuffer
<1>2. Lines(f \o u \o b \o <<c>>) = Kept' /\ InOrder(f \o u \o b \o <<c>>)
  BY PlacesFlow
<1>3. Places' = f \o u \o b \o <<c>>
  BY <1>1 DEF Places
<1>4. NothingLost' <=> Lines(Places') = Kept' /\ InOrder(Places')
  BY DEF NothingLost, Kept, Lines, InOrder
<1>. QED BY <1>2, <1>3, <1>4

\* The file that append_unlocked() leaves.
LEMMA AppendedFiles ==
  ASSUME NEW lines, append_unlocked(lines)
  PROVE  AppendsTo(files, lines, files')
BY DEF append_unlocked, rollFile, AppendFile, fileAppend, AppendsTo

-----------------------------------------------------------------------------
(* The invariant.                                                          *)

\* The constructor's state.
LEMMA InitInv == Init => IndInv
<1>. SUFFICES ASSUME Init PROVE IndInv
  OBVIOUS
<1>. DEFINE none == <<>>
<1>1. none \in LineSeqs /\ none \in Seq(LineSeqs) /\ Len(none) = 0
  BY LinesOfNone
<1>2. Typed
  BY <1>1 DEF Init, Typed
<1>3. Threads
  BY DEF Init, Threads
<1>4. Hands
  BY DEF Init, Hands, Null
<1>5. Unwritten = <<>>
  BY <1>1, UnwrittenEnds DEF Init, Unwritten
<1>6. Flow(<<>>, <<>>, <<>>, <<>>, {})
  BY LinesOfNone DEF Flow, Below
<1>7. TheBuffer(currentBuffer) = <<>>
  BY DEF Init, TheBuffer
<1>8. Kept = {}
  BY DEF Init, Kept
<1>9. NothingLost
  <2>1. Lines(none \o none \o none \o <<none>>) = {} /\ InOrder(none \o none \o none \o <<none>>)
    BY <1>1, <1>6, PlacesFlow
  <2>. QED BY <1>5, <1>7, <1>8, <2>1 DEF Init, NothingLost, Places, Kept
<1>10. ~failed
  BY DEF Init
<1>. QED BY <1>2, <1>3, <1>4, <1>9, <1>10 DEF IndInv

\* A step that moves no line.
LEMMA QuietStep ==
  ASSUME NothingLost,
         UNCHANGED <<appended, dropped, files, buffersToWrite, written, buffers, currentBuffer>>
  PROVE  NothingLost'
BY DEF NothingLost, Places, Unwritten, TheBuffer

\* append(): the line goes to the current buffer or to a fresh one.
LEMMA AppendInv ==
  ASSUME IndInv, append
  PROVE  IndInv'
<1>1. PICK c \in LineSeqs :
        /\ currentBuffer = {c} /\ TheBuffer(currentBuffer) = c
        /\ Unwritten \in Seq(LineSeqs)
        /\ Flow(files, Unwritten, buffers, c, Kept)
  BY FlowNow
<1>. DEFINE line == appended + 1
<1>2. PICK len \in {1, BufferLen} :
        /\ appended' = line
        /\ dropped' = IF len = 1 THEN dropped ELSE dropped \cup {line}
        /\ IF avail(c) > len
           THEN currentBuffer' = {Append(c, line)} /\ UNCHANGED <<buffers, nextBuffer>>
           ELSE /\ putAside /\ nextBuffer' = Null
                /\ currentBuffer' = {IF len = 1 THEN <<line>> ELSE <<>>}
        /\ UNCHANGED <<running, owner, back, now, backVars, fileVars, failed>>
  BY <1>1 DEF append
<1>3. /\ appended \in Nat /\ dropped \subseteq 1 .. appended /\ buffers \in Seq(LineSeqs)
      /\ files \in Seq(LineSeqs) /\ buffersToWrite \in Seq(LineSeqs)
  BY DEF IndInv, Typed
<1>4. line \in Nat \ {0} /\ \A x \in Kept : x < line
  BY <1>3 DEF Kept
<1>5. /\ len = 1 => Kept' = Kept \cup {line}
      /\ len # 1 => Kept' = Kept
      /\ dropped' \subseteq 1 .. appended'
  BY <1>2, <1>3 DEF Kept
<1>6. Unwritten' = Unwritten /\ files' = files
  BY <1>2 DEF Unwritten, backVars, fileVars
<1>. HIDE DEF line
<1>7. \E d \in LineSeqs : \E b \in Seq(LineSeqs) :
        /\ currentBuffer' = {d} /\ buffers' = b /\ Flow(files, Unwritten, b, d, Kept')
        /\ (nextBuffer' = nextBuffer /\ b = buffers) \/ (nextBuffer' = Null /\ b # <<>>)
  <2>1. CASE avail(c) > len
    <3>1. Len(c) \in Nat /\ BufferLen \in Nat
      BY LogAssumption, LenProperties DEF LineSeqs
    <3>2. len = 1
      BY <2>1, <3>1 DEF avail
    <3>3. /\ Append(c, line) \in LineSeqs
          /\ Flow(files, Unwritten, buffers, Append(c, line), Kept \cup {line})
      BY <1>1, <1>4, FlowAppend
    <3>. DEFINE d == Append(c, line)
    <3>4. /\ currentBuffer' = {d} /\ buffers' = buffers /\ nextBuffer' = nextBuffer
          /\ Flow(files, Unwritten, buffers, d, Kept') /\ d \in LineSeqs
      BY <1>2, <1>5, <2>1, <3>2, <3>3
    <3>. HIDE DEF d
    <3>. QED BY <1>3, <3>4
  <2>2. CASE ~(avail(c) > len)
    <3>. DEFINE d == IF len = 1 THEN <<line>> ELSE <<>>
    <3>1. d \in LineSeqs /\ LinesOf(d) = (IF len = 1 THEN {line} ELSE {}) /\ Increasing(d)
      <4>1. CASE len = 1
        <5>1. d \in LineSeqs /\ DOMAIN d = {1} /\ d[1] = line
          BY <1>4, <4>1 DEF LineSeqs
        <5>. HIDE DEF d
        <5>2. LinesOf(d) = {line}
          BY <1>4, <5>1 DEF LinesOf, Range
        <5>3. Increasing(d)
          BY <5>1 DEF Increasing
        <5>. QED BY <4>1, <5>1, <5>2, <5>3
      <4>2. CASE len # 1
        BY <4>2, LinesOfNone
      <4>. QED BY <4>1, <4>2
    <3>2. currentBuffer' = {d} /\ buffers' = Append(buffers, c) /\ nextBuffer' = Null
      BY <1>1, <1>2, <2>2 DEF putAside
    <3>. HIDE DEF d
    <3>3. Below(Kept, LinesOf(d)) /\ Kept' = Kept \cup LinesOf(d)
      BY <1>4, <1>5, <3>1 DEF Below
    <3>4. /\ Append(buffers, c) \in Seq(LineSeqs)
          /\ Flow(files, Unwritten, Append(buffers, c), d, Kept \cup LinesOf(d))
      BY <1>1, <1>3, <3>1, <3>3, FlowAside
    <3>5. Append(buffers, c) # <<>>
      BY <1>3, AppendProperties
    <3>. DEFINE b == Append(buffers, c)
    <3>6. /\ currentBuffer' = {d} /\ buffers' = b /\ Flow(files, Unwritten, b, d, Kept')
          /\ nextBuffer' = Null /\ b # <<>> /\ b \in Seq(LineSeqs)
      BY <3>2, <3>3, <3>4, <3>5
    <3>. HIDE DEF b
    <3>. QED BY <3>1, <3>6
  <2>. QED BY <2>1, <2>2
<1>8. PICK d \in LineSeqs, b \in Seq(LineSeqs) :
        /\ currentBuffer' = {d} /\ buffers' = b /\ Flow(files, Unwritten, b, d, Kept')
        /\ (nextBuffer' = nextBuffer /\ b = buffers) \/ (nextBuffer' = Null /\ b # <<>>)
  BY <1>7
<1>9. NothingLost'
  BY <1>1, <1>3, <1>6, <1>8, FlowThen
<1>10. Typed'
  <2>1. appended' \in Nat
    BY <1>2, <1>4
  <2>2. nextBuffer' \in {Null, {<<>>}}
    BY <1>8 DEF IndInv, Typed
  <2>. QED BY <1>2, <1>5, <1>8, <2>1, <2>2 DEF IndInv, Typed, backVars, fileVars
<1>11. Threads'
  BY <1>2 DEF IndInv, Threads
<1>12. Hands'
  BY <1>2, <1>8 DEF IndInv, Hands, backVars, fileVars
<1>13. ~failed'
  BY <1>2 DEF IndInv
<1>. QED BY <1>9, <1>10, <1>11, <1>12, <1>13 DEF IndInv

\* The owner's steps and the clock's.
LEMMA OwnerInv ==
  ASSUME IndInv, start \/ Started \/ stop \/ Joined \/ Tick
  PROVE  IndInv'
<1>1. /\ UNCHANGED <<appended, dropped, files, buffersToWrite, written, buffers, currentBuffer>>
      /\ UNCHANGED <<nextBuffer, newBuffer1, newBuffer2, logFile, failed>>
  BY DEF start, Started, stop, Joined, Tick, frontVars, backVars, fileVars, ghostVars
<1>2. NothingLost'
  BY <1>1, QuietStep DEF IndInv
<1>3. now' \in Nat \ {0}
  BY DEF start, Started, stop, Joined, Tick, IndInv, Typed
<1>4. Typed'
  BY <1>1, <1>3 DEF IndInv, Typed
<1>5. Threads'
  BY DEF start, Started, stop, Joined, Tick, IndInv, Threads
<1>6. Hands'
  <2>1. CASE start
    BY <1>1, <2>1 DEF start, IndInv, Threads, Hands
  <2>2. CASE Started \/ stop \/ Joined \/ Tick
    <3>1. back' = back
      BY <2>2 DEF Started, stop, Joined, Tick
    <3>. QED BY <1>1, <3>1 DEF IndInv, Hands
  <2>. QED BY <2>1, <2>2
<1>7. ~failed'
  BY <1>1 DEF IndInv
<1>. QED BY <1>2, <1>4, <1>5, <1>6, <1>7 DEF IndInv

\* Steps of the back end that move no line.
LEMMA IdleInv ==
  ASSUME IndInv, Check \/ Lock \/ Wake \/ End
  PROVE  IndInv'
<1>1. /\ UNCHANGED <<appended, dropped, files, buffersToWrite, written, buffers, currentBuffer>>
      /\ UNCHANGED <<nextBuffer, newBuffer1, newBuffer2, logFile, now, running, owner>>
  BY DEF Check, Lock, Wake, End, frontVars, backVars, fileVars, ghostVars
<1>2. NothingLost'
  BY <1>1, QuietStep DEF IndInv
<1>3. Typed'
  BY <1>1 DEF IndInv, Typed
<1>4. Threads'
  BY <1>1 DEF Check, Lock, Wake, End, IndInv, Threads
<1>5. Hands'
  BY <1>1 DEF Check, Lock, Wake, End, IndInv, Hands
<1>6. ~failed'
  <2>1. CASE Check
    <3>1. back = "check"
      BY <2>1 DEF Check
    <3>2. newBuffer1 = {<<>>} /\ newBuffer2 = {<<>>} /\ buffersToWrite = <<>>
      BY <3>1 DEF IndInv, Hands
    <3>3. IsEmpty({<<>>})
      BY DEF IsEmpty, Null, TheBuffer
    <3>4. IsEmpty(newBuffer1) /\ IsEmpty(newBuffer2) /\ buffersToWrite = <<>>
      BY <3>2, <3>3
    <3>. QED BY <2>1, <3>4, Zenon DEF Check, Asserts, IndInv
  <2>2. CASE Lock \/ Wake \/ End
    BY <2>2 DEF Lock, Wake, End, ghostVars, IndInv
  <2>. QED BY <2>1, <2>2
<1>. QED BY <1>2, <1>3, <1>4, <1>5, <1>6 DEF IndInv

\* threadFunc() up to its loop: the first file is opened.
LEMMA BeginInv ==
  ASSUME IndInv, Begin
  PROVE  IndInv'
<1>1. PICK c \in LineSeqs :
        /\ currentBuffer = {c} /\ TheBuffer(currentBuffer) = c
        /\ Unwritten \in Seq(LineSeqs)
        /\ Flow(files, Unwritten, buffers, c, Kept)
  BY FlowNow
<1>2. /\ back = "new" /\ back' = "check" /\ newBuffer1' = {<<>>} /\ newBuffer2' = {<<>>}
      /\ UNCHANGED <<running, owner, now, currentBuffer, nextBuffer, buffers, buffersToWrite,
                     written, appended, dropped>>
  BY DEF Begin, frontVars
<1>3. files = <<>> /\ logFile.lastRoll = 0 /\ running /\ now \in Nat \ {0}
  BY <1>2 DEF IndInv, Hands, Threads, Typed
<1>. DEFINE first == <<<<>>>>
<1>4. files' = first
  <2>1. rollFile(files, logFile) /\ now > logFile.lastRoll
    BY <1>3 DEF Begin
  <2>. QED BY <1>3, <2>1 DEF rollFile, AppendFile
<1>5. first \in Seq(LineSeqs) /\ Lines(first) = {} /\ InOrder(first) /\ first # <<>>
  BY LinesOfNone, LinesOfOne
<1>. HIDE DEF first
<1>6. Flow(first, Unwritten, buffers, c, Kept)
  BY <1>1, <1>3, <1>5, LinesOfNone DEF Flow, Below
<1>7. NothingLost'
  <2>1. Unwritten' = Unwritten /\ Kept' = Kept /\ buffers \in Seq(LineSeqs)
    BY <1>2 DEF Unwritten, Kept, IndInv, Typed
  <2>. QED BY <1>1, <1>2, <1>4, <1>5, <1>6, <2>1, FlowThen
<1>8. Typed'
  BY <1>2, <1>4, <1>5 DEF IndInv, Typed
<1>9. Threads'
  BY <1>2 DEF IndInv, Threads
<1>10. Hands'
  BY <1>2, <1>4, <1>5 DEF IndInv, Hands
<1>11. ~failed'
  BY <1>3, Zenon DEF Begin, Asserts, IndInv
<1>. QED BY <1>7, <1>8, <1>9, <1>10, <1>11 DEF IndInv

\* The critical section: the front end's buffers are exchanged for empty ones.
LEMMA SwapInv ==
  ASSUME IndInv, Swap
  PROVE  IndInv'
<1>1. PICK c \in LineSeqs :
        /\ currentBuffer = {c} /\ TheBuffer(currentBuffer) = c
        /\ Unwritten \in Seq(LineSeqs)
        /\ Flow(files, Unwritten, buffers, c, Kept)
  BY FlowNow
<1>. DEFINE all == Append(buffers, c)
<1>2. /\ back = "swap" /\ back' = "drop" /\ buffersToWrite' = all /\ buffers' = <<>>
      /\ currentBuffer' = newBuffer1 /\ newBuffer1' = Null /\ written' = 0
      /\ IF nextBuffer = Null
         THEN nextBuffer' = newBuffer2 /\ newBuffer2' = Null
         ELSE UNCHANGED <<nextBuffer, newBuffer2>>
      /\ UNCHANGED <<running, owner, now, files, logFile, appended, dropped>>
  BY <1>1 DEF Swap, swap, fileVars
<1>3. newBuffer1 = {<<>>} /\ newBuffer2 = {<<>>} /\ buffersToWrite = <<>> /\ written = 0
  BY <1>2 DEF IndInv, Hands
<1>4. buffers \in Seq(LineSeqs) /\ files \in Seq(LineSeqs) /\ Len(buffers) \in Nat
  BY LenProperties DEF IndInv, Typed
<1>5. Unwritten = <<>>
  BY <1>3, LinesOfNone, UnwrittenEnds DEF Unwritten
<1>6. all \in Seq(LineSeqs) /\ Flow(files, all, <<>>, <<>>, Kept)
  BY <1>1, <1>4, <1>5, FlowSwap
<1>7. all # <<>> /\ Len(all) = Len(buffers) + 1 /\ (buffers # <<>> => Len(all) > 1)
  BY <1>4, EmptySeq, AppendProperties
<1>. HIDE DEF all
<1>8. NothingLost'
  <2>1. Unwritten' = all /\ Kept' = Kept
    BY <1>2, <1>6, UnwrittenEnds DEF Unwritten, Kept
  <2>. QED BY <1>2, <1>3, <1>4, <1>6, <2>1, LinesOfNone, FlowThen
<1>9. Typed'
  <2>1. written' \in 0 .. Len(buffersToWrite')
    BY <1>2, <1>4, <1>7
  <2>2. currentBuffer' \in {{b} : b \in LineSeqs}
    BY <1>2, <1>3, LinesOfNone
  <2>3. buffers' \in Seq(LineSeqs)
    BY <1>2, LinesOfNone
  <2>4. {nextBuffer', newBuffer1', newBuffer2'} \subseteq {Null, {<<>>}}
    BY <1>2, <1>3 DEF IndInv, Typed
  <2>. QED BY <1>2, <1>6, <2>1, <2>2, <2>3, <2>4 DEF IndInv, Typed
<1>10. Threads'
  BY <1>2 DEF IndInv, Threads
<1>11. Hands'
  <2>1. nextBuffer' # Null
    BY <1>2, <1>3 DEF Null
  <2>2. newBuffer2' = Null => buffers # <<>>
    BY <1>2, <1>3 DEF Null, IndInv, Hands
  <2>3. files' # <<>>
    BY <1>2 DEF IndInv, Hands
  <2>. QED BY <1>2, <1>7, <2>1, <2>2, <2>3 DEF Hands
<1>12. ~failed'
  <2>1. buffersToWrite' # <<>>
    BY <1>2, <1>7
  <2>. QED BY <2>1, Zenon DEF Swap, Asserts, IndInv
<1>. QED BY <1>8, <1>9, <1>10, <1>11, <1>12 DEF IndInv

\* Too many buffers: all but two are erased.
LEMMA DropInv ==
  ASSUME IndInv, Drop
  PROVE  IndInv'
<1>1. PICK c \in LineSeqs :
        /\ currentBuffer = {c} /\ TheBuffer(currentBuffer) = c
        /\ Unwritten \in Seq(LineSeqs)
        /\ Flow(files, Unwritten, buffers, c, Kept)
  BY FlowNow
<1>2. /\ back = "drop" /\ back' = "write"
      /\ UNCHANGED <<running, owner, now, currentBuffer, nextBuffer, buffers, newBuffer1,
                     newBuffer2, written, appended, failed>>
  BY DEF Drop, frontVars
<1>3. Threads'
  BY <1>2 DEF IndInv, Threads
<1>4. ~failed'
  BY <1>2 DEF IndInv
<1>5. CASE ~(Len(buffersToWrite) > MaxToWrite)
  <2>1. UNCHANGED <<buffersToWrite, dropped, files, logFile>>
    BY <1>5 DEF Drop, fileVars
  <2>2. NothingLost'
    BY <1>2, <2>1, QuietStep DEF IndInv
  <2>3. Typed' /\ Hands'
    BY <1>2, <2>1 DEF IndInv, Typed, Hands
  <2>. QED BY <1>3, <1>4, <2>2, <2>3 DEF IndInv
<1>6. CASE Len(buffersToWrite) > MaxToWrite
  <2>. DEFINE n == Len(buffersToWrite)
              v == SubSeq(buffersToWrite, 1, 2)
              w == SubSeq(buffersToWrite, 3, n)
  <2>1. /\ append_unlocked(<<0>>) /\ buffersToWrite' = v /\ dropped' = dropped \cup Lines(w)
    BY <1>6 DEF Drop
  <2>2. /\ buffersToWrite \in Seq(LineSeqs) /\ n > 2 /\ written = 0
        /\ files \in Seq(LineSeqs) /\ files # <<>> /\ buffers \in Seq(LineSeqs)
    BY <1>2, <1>6, LogAssumption, LenProperties DEF IndInv, Typed, Hands
  <2>3. /\ v \in Seq(LineSeqs) /\ Len(v) = 2 /\ w \in Seq(LineSeqs)
        /\ buffersToWrite = v \o w
    BY <2>2, UnwrittenSplit
  <2>. HIDE DEF v, w
  <2>4. Unwritten = v \o w
    BY <2>2, <2>3, UnwrittenEnds DEF Unwritten
  <2>5. Unwritten' = v
    BY <1>2, <2>1, <2>2, <2>3, UnwrittenEnds DEF Unwritten
  <2>6. AppendsTo(files, Notice, files')
    BY <2>1, AppendedFiles DEF Notice
  <2>7. /\ files' \in Seq(LineSeqs) /\ files' # <<>> /\ Lines(w) \subseteq Kept
        /\ Flow(files', v, buffers, c, Kept \ Lines(w))
    BY <1>1, <2>2, <2>3, <2>4, <2>6, FlowDrop
  <2>8. Kept' = Kept \ Lines(w)
    BY <1>2, <2>1 DEF Kept
  <2>9. NothingLost'
    BY <1>1, <1>2, <2>2, <2>3, <2>5, <2>7, <2>8, FlowThen
  <2>10. Typed'
    <3>1. dropped' \subseteq 1 .. appended'
      BY <1>2, <2>1, <2>7 DEF IndInv, Typed, Kept
    <3>2. written' \in 0 .. Len(buffersToWrite')
      BY <1>2, <2>1, <2>2, <2>3
    <3>. QED BY <1>2, <2>1, <2>3, <2>7, <3>1, <3>2 DEF IndInv, Typed
  <2>11. Hands'
    <3>1. buffersToWrite' # <<>> /\ Len(buffersToWrite') > 1
      BY <2>1, <2>3, SMTT(30)
    <3>2. /\ nextBuffer' = Null => buffers' # <<>>
          /\ newBuffer1' = Null
      BY <1>2 DEF IndInv, Hands
    <3>. QED BY <1>2, <2>7, <3>1, <3>2 DEF Hands
  <2>. QED BY <1>3, <1>4, <2>9, <2>10, <2>11 DEF IndInv
<1>. QED BY <1>5, <1>6

\* One buffer is written.
LEMMA WriteInv ==
  ASSUME IndInv, Write
  PROVE  IndInv'
<1>1. PICK c \in LineSeqs :
        /\ currentBuffer = {c} /\ TheBuffer(currentBuffer) = c
        /\ Unwritten \in Seq(LineSeqs)
        /\ Flow(files, Unwritten, buffers, c, Kept)
  BY FlowNow
<1>. DEFINE x == buffersToWrite[written + 1]
            v == SubSeq(buffersToWrite, written + 1 + 1, Len(buffersToWrite))
<1>2. /\ back = "write" /\ written < Len(buffersToWrite) /\ written' = written + 1
      /\ append_unlocked(x)
      /\ UNCHANGED <<running, owner, back, now, currentBuffer, nextBuffer, buffers, newBuffer1,
                     newBuffer2, buffersToWrite, appended, dropped, failed>>
  BY DEF Write, frontVars, ghostVars
<1>3. /\ buffersToWrite \in Seq(LineSeqs) /\ written \in 0 .. Len(buffersToWrite)
      /\ files \in Seq(LineSeqs) /\ files # <<>> /\ buffers \in Seq(LineSeqs)
  BY <1>2 DEF IndInv, Typed, Hands
<1>4. /\ x \in LineSeqs /\ written + 1 \in 0 .. Len(buffersToWrite) /\ v \in Seq(LineSeqs)
      /\ Unwritten = <<x>> \o v
  BY <1>2, <1>3, UnwrittenFirst DEF Unwritten
<1>5. Unwritten' = v
  BY <1>2 DEF Unwritten
<1>. HIDE DEF x, v
<1>6. AppendsTo(files, x, files')
  BY <1>2, AppendedFiles
<1>7. Flow(files, <<x>> \o v, buffers, c, Kept)
  BY <1>1, <1>4
<1>8. files' \in Seq(LineSeqs) /\ files' # <<>> /\ Flow(files', v, buffers, c, Kept)
  BY <1>3, <1>4, <1>6, <1>7, FlowWrite
<1>9. NothingLost'
  <2>1. Kept' = Kept
    BY <1>2 DEF Kept
  <2>. QED BY <1>1, <1>2, <1>3, <1>4, <1>5, <1>8, <2>1, FlowThen
<1>10. Typed'
  BY <1>2, <1>4, <1>8 DEF IndInv, Typed
<1>11. Threads'
  BY <1>2 DEF IndInv, Threads
<1>12. Hands'
  BY <1>2, <1>8 DEF IndInv, Hands
<1>13. ~failed'
  BY <1>2 DEF IndInv
<1>. QED BY <1>9, <1>10, <1>11, <1>12, <1>13 DEF IndInv

\* Two written buffers replace the spare ones that were given away.
LEMMA RecycleInv ==
  ASSUME IndInv, Recycle
  PROVE  IndInv'
<1>1. PICK c \in LineSeqs :
        /\ currentBuffer = {c} /\ TheBuffer(currentBuffer) = c
        /\ Unwritten \in Seq(LineSeqs)
        /\ Flow(files, Unwritten, buffers, c, Kept)
  BY FlowNow
<1>2. /\ back = "write" /\ back' = "check" /\ written = Len(buffersToWrite)
      /\ newBuffer1' = recycled(newBuffer1) /\ newBuffer2' = recycled(newBuffer2)
      /\ buffersToWrite' = <<>> /\ written' = 0
      /\ UNCHANGED <<running, owner, now, currentBuffer, nextBuffer, buffers, files, logFile,
                     appended, dropped>>
  BY DEF Recycle, frontVars
<1>3. /\ buffersToWrite \in Seq(LineSeqs) /\ files \in Seq(LineSeqs) /\ buffers \in Seq(LineSeqs)
      /\ {newBuffer1, newBuffer2} \subseteq {Null, {<<>>}}
  BY DEF IndInv, Typed
<1>4. newBuffer1' = {<<>>} /\ newBuffer2' = {<<>>}
  BY <1>2, <1>3 DEF recycled
<1>5. Unwritten = <<>> /\ Unwritten' = <<>> /\ Kept' = Kept
  BY <1>2, <1>3, UnwrittenEnds, LinesOfNone DEF Unwritten, Kept
<1>6. NothingLost'
  BY <1>1, <1>2, <1>3, <1>5, LinesOfNone, FlowThen
<1>7. Typed'
  <2>1. written' \in 0 .. Len(buffersToWrite') /\ buffersToWrite' \in Seq(LineSeqs)
    BY <1>2, LinesOfNone
  <2>. QED BY <1>2, <1>4, <2>1 DEF IndInv, Typed
<1>8. Threads'
  BY <1>2 DEF IndInv, Threads
<1>9. Hands'
  BY <1>2, <1>4 DEF IndInv, Hands
<1>10. ~failed'
  <2>. DEFINE left    == IF Len(buffersToWrite) > 2 THEN 2 ELSE Len(buffersToWrite)
              missing == (IF newBuffer1 = Null THEN 1 ELSE 0) + (IF newBuffer2 = Null THEN 1 ELSE 0)
  <2>1. buffersToWrite # <<>> /\ (newBuffer2 = Null => Len(buffersToWrite) > 1)
    BY <1>2 DEF IndInv, Hands
  <2>2. Len(buffersToWrite) \in Nat \ {0}
    BY <1>3, <2>1, EmptySeq
  <2>3. missing <= left
    BY <2>1, <2>2
  <2>4. Asserts(missing <= left)
    BY DEF Recycle
  <2>. HIDE DEF missing, left
  <2>. QED BY <2>3, <2>4, Zenon DEF Asserts, IndInv
<1>. QED BY <1>6, <1>7, <1>8, <1>9, <1>10 DEF IndInv

\* Every step.
LEMMA NextInv == IndInv /\ [Next]_vars => IndInv'
<1>. SUFFICES ASSUME IndInv, [Next]_vars PROVE IndInv'
  OBVIOUS
<1>1. CASE UNCHANGED vars
  <2>1. UNCHANGED <<appended, dropped, files, buffersToWrite, written, buffers, currentBuffer>>
    BY <1>1 DEF vars, frontVars, backVars, fileVars, ghostVars
  <2>2. UNCHANGED <<nextBuffer, newBuffer1, newBuffer2, logFile, now, running, owner, back, failed>>
    BY <1>1 DEF vars, frontVars, backVars, fileVars, ghostVars
  <2>3. NothingLost'
    BY <2>1, QuietStep DEF IndInv
  <2>4. Typed' /\ Threads' /\ Hands'
    BY <2>1, <2>2 DEF IndInv, Typed, Threads, Hands
  <2>. QED BY <2>2, <2>3, <2>4 DEF IndInv
<1>. QED BY <1>1, AppendInv, OwnerInv, IdleInv, BeginInv, SwapInv, DropInv, WriteInv, RecycleInv
         DEF Next, BackEnd, Finished

\* The invariant holds in every reachable state of the logger.
THEOREM Invariance == Spec => []IndInv
BY InitInv, NextInv, PTL DEF Spec

\* No assert of threadFunc() fails: whatever the front end does between two
\* rounds, a written buffer is there for every spare one that was given away.
THEOREM BackEndAssertsHold == Spec => []AssertsHold
<1>1. IndInv => AssertsHold
  BY DEF IndInv, AssertsHold
<1>. QED BY <1>1, Invariance, PTL

\* Every line is thrown away, or in the files or on its way to them, once and in
\* the order of the append() calls, through every swap, erasure and roll.
THEOREM NoLineIsLost == Spec => []NothingLost
<1>1. IndInv => NothingLost
  BY DEF IndInv
<1>. QED BY <1>1, Invariance, PTL

=============================================================================
