-------------------------- MODULE ReplayClientProofs --------------------------
(***************************************************************************)
(* Proofs about ReplayClient, for any matches, items, files and bounds.    *)
(***************************************************************************)
EXTENDS ReplayClient, SequenceTheorems, WellFoundedInduction, TLAPS

-----------------------------------------------------------------------------
(* Boards and messages.                                                    *)

\* A set of numbers that is not empty has a least element.
LEMMA NatMinimum ==
  ASSUME NEW S \in SUBSET Nat, S # {}
  PROVE  \E p \in S : \A q \in S : p <= q
<1> DEFINE R == {ss \in Nat \X Nat : ss[1] < ss[2]}
<1>1. R = OpToRel(<, Nat)
  BY Zenon DEF OpToRel
<1>2. IsWellFoundedOn(R, Nat)
  BY <1>1, NatLessThanWellFounded, Zenon
<1> HIDE DEF R
<1>3. \E p \in S : \A q \in S : ~(<<q, p>> \in R)
  BY <1>2, WFMin, Zenon
<1>4. \E p \in S : \A q \in S : ~(q < p)
  BY <1>3 DEF R
<1> QED
  BY <1>4

\* Two functions that begin alike and go on alike are alike.
LEMMA SameRun ==
  ASSUME NEW n \in Nat, NEW f, NEW g, f[0] = g[0],
         \A i \in 1..n : f[i - 1] = g[i - 1] => f[i] = g[i]
  PROVE  \A i \in 0..n : f[i] = g[i]
<1> DEFINE Bad == {i \in 0..n : f[i] # g[i]}
<1>1. SUFFICES ASSUME Bad # {} PROVE FALSE
  OBVIOUS
<1>2. PICK i \in Bad : \A j \in Bad : i <= j
  <2>1. Bad \in SUBSET Nat
    OBVIOUS
  <2> HIDE DEF Bad
  <2> QED
    BY <1>1, <2>1, NatMinimum, Zenon
<1>3. i \in 1..n /\ i - 1 \in 0..n /\ f[i - 1] # g[i - 1]
  BY <1>2
<1>4. i - 1 \in Bad
  BY <1>3
<1> QED
  BY <1>2, <1>3, <1>4

\* The boards that After passes through.
IsRun(f, on, s) ==
  f = [i \in 0..Len(s) |-> IF i = 0 THEN on ELSE Taken(f[i - 1], s[i])]

Run(on, s) == CHOOSE f : IsRun(f, on, s)

LEMMA RunExists ==
  ASSUME NEW on, NEW T, NEW s \in Seq(T)
  PROVE  IsRun(Run(on, s), on, s)
<1> DEFINE IsRunTo(f, n) ==
             f = [i \in 0..n |-> IF i = 0 THEN on ELSE Taken(f[i - 1], s[i])]
           Bad == {n \in 0..Len(s) : \A f : ~IsRunTo(f, n)}
<1>1. Len(s) \in Nat
  OBVIOUS
<1>2. ASSUME Bad # {} PROVE FALSE
  <2>1. PICK n \in Bad : \A j \in Bad : n <= j
    <3>1. Bad \in SUBSET Nat
      BY <1>1
    <3> HIDE DEF Bad
    <3> QED
      BY <1>2, <3>1, NatMinimum, Zenon
  <2>2. CASE n = 0
    <3> DEFINE f == [i \in 0..0 |-> on]
    <3>1. IsRunTo(f, 0)
      OBVIOUS
    <3> QED
      BY <2>1, <2>2, <3>1
  <2>3. CASE n # 0
    <3>1. n - 1 \in 0..Len(s) /\ n - 1 \notin Bad
      BY <1>1, <2>1, <2>3
    <3>2. PICK f : IsRunTo(f, n - 1)
      BY <3>1
    <3> DEFINE g == [i \in 0..n |-> IF i = n THEN Taken(f[n - 1], s[n]) ELSE f[i]]
    <3>3. ASSUME NEW i \in 0..n PROVE g[i] = IF i = 0 THEN on ELSE Taken(g[i - 1], s[i])
      <4>1. CASE i = n
        <5>1. g[n] = Taken(f[n - 1], s[n]) /\ g[n - 1] = f[n - 1]
          BY <1>1, <2>1, <2>3
        <5> QED
          BY <4>1, <5>1, <2>3
      <4>2. CASE i # n
        <5>1. g[i] = f[i] /\ i \in 0..(n - 1)
          BY <1>1, <2>1, <4>2
        <5>2. i # 0 => g[i - 1] = f[i - 1]
          BY <1>1, <2>1, <4>2
        <5>3. f[i] = IF i = 0 THEN on ELSE Taken(f[i - 1], s[i])
          BY <3>2, <5>1
        <5> QED
          BY <5>1, <5>2, <5>3
      <4> QED
        BY <4>1, <4>2
    <3>4. IsRunTo(g, n)
      <4> HIDE DEF g
      <4>1. g = [i \in 0..n |-> g[i]]
        BY DEF g
      <4> QED
        BY <3>3, <4>1
    <3> QED
      BY <2>1, <3>4
  <2> QED
    BY <2>2, <2>3
<1>3. \E f : IsRunTo(f, Len(s))
  BY <1>1, <1>2
<1>4. \E f : IsRun(f, on, s)
  BY <1>3 DEF IsRun
<1> QED
  BY <1>4, Zenon DEF Run

LEMMA RunSteps ==
  ASSUME NEW on, NEW T, NEW s \in Seq(T)
  PROVE  /\ Run(on, s)[0] = on
         /\ \A i \in 1..Len(s) : Run(on, s)[i] = Taken(Run(on, s)[i - 1], s[i])
         /\ After(on, s) = Run(on, s)[Len(s)]
<1> DEFINE f == Run(on, s)
<1>1. f = [i \in 0..Len(s) |-> IF i = 0 THEN on ELSE Taken(f[i - 1], s[i])]
  BY RunExists DEF IsRun
<1>2. After(on, s) = f[Len(s)]
  BY DEF After, Run, IsRun
<1>3. Len(s) \in Nat
  OBVIOUS
<1> HIDE DEF f
<1>4. f[0] = on /\ \A i \in 1..Len(s) : f[i] = Taken(f[i - 1], s[i])
  BY <1>1, <1>3
<1> QED
  BY <1>2, <1>4 DEF f

\* Nothing to read changes nothing.
LEMMA AfterNothing ==
  ASSUME NEW on
  PROVE  After(on, <<>>) = on
<1>1. <<>> \in Seq(Message) /\ Len(<<>>) = 0
  OBVIOUS
<1> QED
  BY <1>1, RunSteps, ZenonT(30)

\* The last message is taken last.
LEMMA AfterAppend ==
  ASSUME NEW on, NEW T, NEW s \in Seq(T), NEW m \in T
  PROVE  After(on, Append(s, m)) = Taken(After(on, s), m)
<1> DEFINE t == Append(s, m)
           n == Len(s)
           f == Run(on, s)
           g == Run(on, t)
<1>1. t \in Seq(T) /\ n \in Nat /\ Len(t) = n + 1 /\ t[n + 1] = m
      /\ \A i \in 1..n : t[i] = s[i]
  OBVIOUS
<1>2. /\ f[0] = on /\ \A i \in 1..n : f[i] = Taken(f[i - 1], s[i])
      /\ After(on, s) = f[n]
  BY RunSteps
<1>3. /\ g[0] = on /\ \A i \in 1..Len(t) : g[i] = Taken(g[i - 1], t[i])
      /\ After(on, t) = g[Len(t)]
  <2> HIDE DEF t
  <2> QED  BY <1>1, RunSteps
<1> HIDE DEF t, n, f, g
<1>5. f[n] = g[n]
  <2>1. \A i \in 1..n : f[i - 1] = g[i - 1] => f[i] = g[i]
    BY <1>1, <1>2, <1>3, SMTT(30)
  <2>2. n \in Nat /\ f[0] = g[0]
    BY <1>1, <1>2, <1>3
  <2>3. \A i \in 0..n : f[i] = g[i]
    BY <2>1, <2>2, SameRun, ZenonT(30)
  <2> QED
    BY <2>2, <2>3
<1>6. g[n + 1] = Taken(g[n], m)
  BY <1>1, <1>3
<1> QED
  BY <1>1, <1>2, <1>3, <1>5, <1>6 DEF t

\* The first message is taken first.
LEMMA AfterHead ==
  ASSUME NEW on, NEW T, NEW s \in Seq(T), s # <<>>
  PROVE  After(on, s) = After(Taken(on, Head(s)), Tail(s))
<1> DEFINE t == Tail(s)
           n == Len(t)
           f == Run(on, s)
           g == Run(Taken(on, Head(s)), t)
           h == [i \in 0..n |-> f[i + 1]]
<1>1. t \in Seq(T) /\ n \in Nat /\ Len(s) = n + 1 /\ s[1] = Head(s)
      /\ \A i \in 1..n : t[i] = s[i + 1]
  OBVIOUS
<1>2. /\ f[0] = on /\ \A i \in 1..Len(s) : f[i] = Taken(f[i - 1], s[i])
      /\ After(on, s) = f[Len(s)]
  BY RunSteps
<1>3. /\ g[0] = Taken(on, Head(s)) /\ \A i \in 1..n : g[i] = Taken(g[i - 1], t[i])
      /\ After(Taken(on, Head(s)), t) = g[n]
  <2> HIDE DEF t
  <2> QED  BY <1>1, RunSteps
<1> HIDE DEF t, n, f, g
<1>4. h[0] = g[0]
  BY <1>1, <1>2, <1>3
<1>5. ASSUME NEW i \in 1..n, h[i - 1] = g[i - 1] PROVE h[i] = g[i]
  <2>1. h[i] = f[i + 1] /\ h[i - 1] = f[i]
    BY <1>1
  <2>2. f[i + 1] = Taken(f[i], s[i + 1])
    BY <1>1, <1>2
  <2> QED
    BY <1>1, <1>3, <1>5, <2>1, <2>2
<1>6. h[n] = g[n]
  <2> HIDE DEF h
  <2>1. n \in Nat /\ h[0] = g[0]
    BY <1>1, <1>4
  <2>2. \A i \in 1..n : h[i - 1] = g[i - 1] => h[i] = g[i]
    BY <1>5
  <2>3. \A i \in 0..n : h[i] = g[i]
    BY <2>1, <2>2, SameRun, ZenonT(30)
  <2> QED
    BY <2>1, <2>3
<1> QED
  BY <1>1, <1>2, <1>3, <1>6 DEF t

HasInit(s) == \E i \in DOMAIN s : s[i].type = "init"

\* Whoever gets a whole board does not need the old one.
LEMMA AfterInit ==
  ASSUME NEW on, NEW other, NEW T, NEW s \in Seq(T), HasInit(s)
  PROVE  After(on, s) = After(other, s)
<1> DEFINE f == Run(on, s)
           g == Run(other, s)
<1>1. PICK k \in 1..Len(s) : s[k].type = "init"
  BY DEF HasInit
<1>2. /\ \A i \in 1..Len(s) : f[i] = Taken(f[i - 1], s[i])
      /\ After(on, s) = f[Len(s)]
  BY RunSteps
<1>3. /\ \A i \in 1..Len(s) : g[i] = Taken(g[i - 1], s[i])
      /\ After(other, s) = g[Len(s)]
  BY RunSteps
<1> HIDE DEF f, g
<1> DEFINE n == Len(s) - k
           p == [i \in 0..n |-> f[i + k]]
           q == [i \in 0..n |-> g[i + k]]
<1>4. n \in Nat /\ Len(s) \in Nat
  OBVIOUS
<1>5. p[0] = q[0]
  <2>1. f[k] = Taken(f[k - 1], s[k]) /\ g[k] = Taken(g[k - 1], s[k])
    BY <1>2, <1>3
  <2>2. f[k] = s[k].items /\ g[k] = s[k].items
    BY <1>1, <2>1 DEF Taken
  <2> QED
    BY <1>4, <2>2
<1>6. ASSUME NEW i \in 1..n, p[i - 1] = q[i - 1] PROVE p[i] = q[i]
  <2>1. p[i] = f[i + k] /\ q[i] = g[i + k] /\ p[i - 1] = f[i + k - 1] /\ q[i - 1] = g[i + k - 1]
        /\ i + k \in 1..Len(s)
    BY <1>4
  <2> QED
    BY <1>2, <1>3, <1>6, <2>1
<1>7. p[n] = q[n]
  <2> HIDE DEF p, q, n
  <2>1. n \in Nat /\ p[0] = q[0]
    BY <1>4, <1>5
  <2>2. \A i \in 1..n : p[i - 1] = q[i - 1] => p[i] = q[i]
    BY <1>6
  <2>3. \A i \in 0..n : p[i] = q[i]
    BY <2>1, <2>2, SameRun, ZenonT(60)
  <2> QED
    BY <2>1, <2>3
<1> QED
  BY <1>2, <1>3, <1>4, <1>7

-----------------------------------------------------------------------------
(* The search for a frame.                                                 *)

\* One step of the search, on what f says of smaller ranges.
Narrowed(f, log, cursor, range) ==
  LET low  == range[1]
      high == range[2]
      mid  == (low + high + 1) \div 2
  IN  IF low >= high THEN low
      ELSE IF Offset(log, mid) <= cursor THEN f[<<mid, high>>] ELSE f[<<low, mid - 1>>]

Ranges(n) == (1..n) \X (1..n)

IsSearch(f, log, cursor, R) == f = [range \in R |-> Narrowed(f, log, cursor, range)]

Search(log, cursor) == CHOOSE f : IsSearch(f, log, cursor, Ranges(Len(log.frames)))

\* What a step asks for is shorter and within the range.
LEMMA Narrower ==
  ASSUME NEW low \in Nat, NEW high \in Nat, low < high
  PROVE  LET mid == (low + high + 1) \div 2
         IN  mid \in Nat /\ low < mid /\ mid <= high
OBVIOUS

LEMMA SearchExists ==
  ASSUME NEW log, NEW T, log.frames \in Seq(T), NEW cursor
  PROVE  IsSearch(Search(log, cursor), log, cursor, Ranges(Len(log.frames)))
<1> DEFINE n == Len(log.frames)
           Short(k) == {range \in Ranges(n) : range[2] - range[1] <= k}
           Bad == {k \in Nat : \A f : ~IsSearch(f, log, cursor, Short(k))}
<1>1. n \in Nat
  OBVIOUS
<1> HIDE DEF n
<1>2. ASSUME Bad # {} PROVE FALSE
  <2>1. PICK k \in Bad : \A j \in Bad : k <= j
    <3>1. Bad \in SUBSET Nat
      OBVIOUS
    <3> HIDE DEF Bad
    <3> QED
      BY <1>2, <3>1, NatMinimum, Zenon
  <2>2. CASE k = 0
    <3> DEFINE f == [range \in Short(0) |-> range[1]]
    <3>1. ASSUME NEW range \in Short(0) PROVE f[range] = Narrowed(f, log, cursor, range)
      <4>1. range[1] >= range[2]
        BY <1>1 DEF Ranges
      <4> QED
        BY <4>1 DEF Narrowed
    <3>2. IsSearch(f, log, cursor, Short(0))
      <4> HIDE DEF Short
      <4>1. f = [range \in Short(0) |-> f[range]]
        OBVIOUS
      <4> HIDE DEF f
      <4> QED
        BY <3>1, <4>1 DEF IsSearch
    <3> QED
      BY <2>1, <2>2, <3>2
  <2>3. CASE k # 0
    <3>1. k - 1 \in Nat /\ k - 1 \notin Bad
      BY <2>1, <2>3
    <3>2. PICK f : IsSearch(f, log, cursor, Short(k - 1))
      BY <3>1
    <3> DEFINE g == [range \in Short(k) |-> Narrowed(f, log, cursor, range)]
    <3>3. ASSUME NEW range \in Short(k - 1) PROVE g[range] = f[range]
      <4>1. range \in Short(k)
        <5>1. range[1] \in 1..n /\ range[2] \in 1..n /\ range[2] - range[1] <= k - 1
          BY DEF Ranges
        <5>2. range[2] - range[1] <= k
          <6>1. k \in Int
            BY <2>1
          <6> QED
            BY <1>1, <5>1, <6>1
        <5> QED
          BY <5>2
      <4>2. f[range] = Narrowed(f, log, cursor, range)
        BY <3>2 DEF IsSearch
      <4> QED
        BY <4>1, <4>2
    <3>4. ASSUME NEW range \in Short(k)
          PROVE  g[range] = Narrowed(g, log, cursor, range)
      <4> DEFINE low == range[1]
                 high == range[2]
                 mid == (low + high + 1) \div 2
      <4>1. low \in 1..n /\ high \in 1..n /\ high - low <= k
        BY DEF Ranges
      <4>2. CASE low >= high
        BY <4>2 DEF Narrowed
      <4>3. CASE low < high
        <5>1. mid \in Nat /\ low < mid /\ mid <= high
          <6> HIDE DEF low, high
          <6> QED  BY <1>1, <4>1, <4>3, Narrower
        <5>2. <<mid, high>> \in Short(k - 1) /\ <<low, mid - 1>> \in Short(k - 1)
          <6> HIDE DEF mid, low, high
          <6>1. <<mid, high>> \in Ranges(n) /\ <<low, mid - 1>> \in Ranges(n)
            BY <1>1, <4>1, <4>3, <5>1 DEF Ranges
          <6>2. high - mid <= k - 1 /\ (mid - 1) - low <= k - 1
            BY <1>1, <3>1, <4>1, <4>3, <5>1
          <6> QED
            BY <6>1, <6>2
        <5>3. g[<<mid, high>>] = f[<<mid, high>>] /\ g[<<low, mid - 1>>] = f[<<low, mid - 1>>]
          <6> HIDE DEF g, Short, mid, low, high
          <6> QED  BY <3>3, <5>2
        <5>4. g[range] = Narrowed(f, log, cursor, range)
          OBVIOUS
        <5> QED
          <6> HIDE DEF g, Short
          <6> QED  BY <5>3, <5>4 DEF Narrowed
      <4> QED
        BY <1>1, <4>1, <4>2, <4>3
    <3>5. IsSearch(g, log, cursor, Short(k))
      <4> HIDE DEF Short
      <4>1. g = [range \in Short(k) |-> g[range]]
        OBVIOUS
      <4> HIDE DEF g
      <4> QED
        BY <3>4, <4>1 DEF IsSearch
    <3> QED
      BY <2>1, <3>5
  <2> QED
    BY <2>2, <2>3
<1>3. \E f : IsSearch(f, log, cursor, Short(n))
  BY <1>1, <1>2
<1>4. Short(n) = Ranges(n)
  BY <1>1 DEF Ranges
<1>5. \E f : IsSearch(f, log, cursor, Ranges(n))
  BY <1>3, <1>4
<1> QED
  BY <1>5, Zenon DEF Search, n

\* What the search finds lies in its range, and if the frames that have begun are
\* the first of the range, it is the last one of these.
LEMMA SearchFinds ==
  ASSUME NEW log, NEW T, log.frames \in Seq(T), NEW cursor,
         NEW low \in 1..Len(log.frames), NEW high \in 1..Len(log.frames), low <= high
  PROVE  LET i == Search(log, cursor)[<<low, high>>]
             Begun(j) == Offset(log, j) <= cursor
         IN  /\ i \in low..high
             /\ (/\ Begun(low)
                 /\ \A j, h \in low..high : j <= h /\ Begun(h) => Begun(j))
                => \A j \in low..high : Begun(j) <=> j <= i
<1> DEFINE n == Len(log.frames)
           f == Search(log, cursor)
           Begun(j) == Offset(log, j) <= cursor
           First(range) ==
             /\ Begun(range[1])
             /\ \A j, h \in range[1]..range[2] : j <= h /\ Begun(h) => Begun(j)
           Good(range) ==
             /\ f[range] \in range[1]..range[2]
             /\ First(range) => \A j \in range[1]..range[2] : Begun(j) <=> j <= f[range]
           Bad == {k \in Nat : \E range \in Ranges(n) : range[2] - range[1] = k /\ ~Good(range)}
<1>1. n \in Nat /\ <<low, high>> \in Ranges(n)
  BY DEF Ranges
<1>2. \A range \in Ranges(n) : f[range] = Narrowed(f, log, cursor, range)
  BY SearchExists DEF IsSearch
<1> HIDE DEF n, f
<1>3. ASSUME Bad # {} PROVE FALSE
  <2>1. PICK k \in Bad : \A j \in Bad : k <= j
    <3>1. Bad \in SUBSET Nat
      OBVIOUS
    <3> HIDE DEF Bad
    <3> QED
      BY <1>3, <3>1, NatMinimum, Zenon
  <2>2. PICK range \in Ranges(n) : range[2] - range[1] = k /\ ~Good(range)
    BY <2>1
  <2> DEFINE l == range[1]
             r == range[2]
             mid == (l + r + 1) \div 2
  <2>3. l \in 1..n /\ r \in 1..n /\ r - l = k /\ l <= r /\ k \in Nat
    BY <1>1, <2>1, <2>2 DEF Ranges
  <2>4. CASE l = r
    <3>1. f[range] = l
      BY <1>1, <1>2, <2>3, <2>4 DEF Narrowed
    <3> QED
      BY <1>1, <2>2, <2>3, <2>4, <3>1
  <2>5. CASE l < r
    <3>1. mid \in Nat /\ l < mid /\ mid <= r
      <4> HIDE DEF l, r
      <4> QED  BY <1>1, <2>3, <2>5, Narrower
    <3>2. f[range] = IF Begun(mid) THEN f[<<mid, r>>] ELSE f[<<l, mid - 1>>]
      <4>1. ~(l >= r)
        BY <1>1, <2>3, <2>5
      <4> QED
        BY <1>2, <4>1 DEF Narrowed
    <3>3. ASSUME NEW part \in Ranges(n), part[1] <= part[2], part[2] - part[1] < k
          PROVE  Good(part)
      <4>1. part[2] - part[1] \in Nat /\ part[2] - part[1] \notin Bad
        <5>1. part[1] \in 1..n /\ part[2] \in 1..n
          BY DEF Ranges
        <5>2. part[2] - part[1] \in Nat
          BY <1>1, <3>3, <5>1
        <5> HIDE DEF Bad
        <5> QED
          BY <1>1, <2>1, <2>3, <3>3, <5>1, <5>2
      <4> HIDE DEF Good
      <4> QED
        BY <4>1
    <3> HIDE DEF mid, l, r
    <3>4. CASE Begun(mid)
      <4> DEFINE part == <<mid, r>>
      <4>1. part \in Ranges(n) /\ part[1] <= part[2] /\ part[2] - part[1] < k
        BY <1>1, <2>3, <3>1 DEF Ranges
      <4>2. Good(part)
        <5> HIDE DEF Good, part
        <5> QED  BY <3>3, <4>1
      <4>3. f[part] \in mid..r
            /\ ((Begun(mid) /\ \A j, h \in mid..r : j <= h /\ Begun(h) => Begun(j))
                  => \A j \in mid..r : Begun(j) <=> j <= f[part])
        <5> HIDE DEF Begun
        <5> QED  BY <4>2
      <4>4. f[range] = f[part]
        BY <3>2, <3>4
      <4> HIDE DEF part, Begun
      <4>5. f[range] \in l..r
        BY <1>1, <2>3, <3>1, <4>3, <4>4
      <4>6. ASSUME Begun(l), \A j, h \in l..r : j <= h /\ Begun(h) => Begun(j),
                   NEW j \in l..r
            PROVE  Begun(j) <=> j <= f[range]
        <5>1. mid \in l..r /\ \A h \in mid..r : h \in l..r
          BY <1>1, <2>3, <3>1
        <5>2. \A h \in mid..r : Begun(h) <=> h <= f[part]
          BY <3>4, <4>3, <4>6, <5>1
        <5>3. CASE j \in mid..r
          BY <4>4, <5>2, <5>3
        <5>4. CASE j \notin mid..r
          <6>1. j <= mid /\ j <= f[part]
            BY <1>1, <2>3, <3>1, <4>3, <5>4
          <6>2. Begun(j)
            BY <3>4, <4>6, <5>1, <6>1
          <6> QED
            BY <4>4, <6>1, <6>2
        <5> QED
          BY <5>3, <5>4
      <4> QED
        BY <2>2, <4>5, <4>6 DEF l, r
    <3>5. CASE ~Begun(mid)
      <4> DEFINE part == <<l, mid - 1>>
      <4>1. part \in Ranges(n) /\ part[1] <= part[2] /\ part[2] - part[1] < k
        BY <1>1, <2>3, <3>1 DEF Ranges
      <4>2. Good(part)
        <5> HIDE DEF Good, part
        <5> QED  BY <3>3, <4>1
      <4>3. f[part] \in l..(mid - 1)
            /\ ((Begun(l) /\ \A j, h \in l..(mid - 1) : j <= h /\ Begun(h) => Begun(j))
                  => \A j \in l..(mid - 1) : Begun(j) <=> j <= f[part])
        <5> HIDE DEF Begun
        <5> QED  BY <4>2
      <4>4. f[range] = f[part]
        BY <3>2, <3>5
      <4> HIDE DEF part, Begun
      <4>5. f[range] \in l..r
        BY <1>1, <2>3, <3>1, <4>3, <4>4
      <4>6. ASSUME Begun(l), \A j, h \in l..r : j <= h /\ Begun(h) => Begun(j),
                   NEW j \in l..r
            PROVE  Begun(j) <=> j <= f[range]
        <5>1. mid \in l..r /\ \A h \in l..(mid - 1) : h \in l..r
          BY <1>1, <2>3, <3>1
        <5>2. \A h \in l..(mid - 1) : Begun(h) <=> h <= f[part]
          BY <4>3, <4>6, <5>1
        <5>3. CASE j \in l..(mid - 1)
          BY <4>4, <5>2, <5>3
        <5>4. CASE j \notin l..(mid - 1)
          <6>1. mid <= j /\ ~(j <= f[part])
            BY <1>1, <2>3, <3>1, <4>3, <5>4
          <6>2. ~Begun(j)
            BY <3>5, <4>6, <5>1, <6>1
          <6> QED
            BY <4>4, <6>1, <6>2
        <5> QED
          BY <5>3, <5>4
      <4> QED
        BY <2>2, <4>5, <4>6 DEF l, r
    <3> QED
      BY <3>4, <3>5
  <2> QED
    BY <1>1, <2>3, <2>4, <2>5
<1>4. Good(<<low, high>>)
  <2>1. high - low \in Nat
    BY <1>1
  <2>2. high - low \notin Bad
    BY <1>3
  <2> HIDE DEF Good
  <2> QED
    BY <1>1, <2>1, <2>2
<1> HIDE DEF Begun
<1>5. /\ f[<<low, high>>] \in low..high
      /\ (/\ Begun(low)
          /\ \A j, h \in low..high : j <= h /\ Begun(h) => Begun(j))
         => \A j \in low..high : Begun(j) <=> j <= f[<<low, high>>]
  BY <1>4
<1> QED
  BY <1>5 DEF f, Begun

-----------------------------------------------------------------------------
(* Invariants.                                                             *)

\* The next message is a whole board, or there is none and none is due.
Fresh == IF inbox = <<>> THEN ~(link /\ srv.running) ELSE Head(inbox).type = "init"

\* Like Kept, of the map and the tick: what the client has of its match, whether
\* it is shown or saved behind a replay.
KeptWorld == IF playback # None THEN saved.world ELSE world
KeptSnap == IF playback # None THEN saved.snap ELSE snap

Typed ==
  /\ TypeOK
  /\ srv.running => srv.match # 0 /\ srv.tick < LastTick
  /\ ~link => inbox = <<>>
  /\ seed = None => Fresh /\ rec = <<>>
  /\ latest # None => latest.frames # <<>>

\* What may come after a message.
Follows(p, q) ==
  /\ q.type = "state" =>
       \/ p.type = "init" /\ p.match = q.match
            /\ Applied(p.items, q) = Course[q.match][q.tick]
       \/ p.type = "state" /\ p.match = q.match /\ p.tick < q.tick
            /\ Applied(Course[q.match][p.tick], q) = Course[q.match][q.tick]
  /\ q.type = "over" => p.type = "state" /\ p.tick = q.last

Linked(s) == \A i \in 2..Len(s) : Follows(s[i - 1], s[i])

\* What the client must have read before a message, if no replay has hidden
\* something of the match.
Ready(q) ==
  ~eclipsed =>
    /\ q.type = "state" =>
         /\ seed # None /\ seed = q.match /\ KeptWorld = q.match
         /\ Applied(Kept, q) = Course[q.match][q.tick]
         /\ rec # <<>> => Last(rec).tick < q.tick
    /\ q.type = "over" =>
         /\ seed # None /\ KeptWorld = seed
         /\ KeptSnap # None /\ KeptSnap = [match |-> seed, tick |-> q.last]
         /\ Kept = Course[seed][q.last]
         /\ rec # <<>> /\ Last(rec).tick <= q.last

\* The client has read all there is of the match.
UpToDate ==
  ~eclipsed =>
    /\ seed # None /\ seed = srv.match /\ KeptWorld = srv.match
    /\ Kept = Course[srv.match][srv.tick]
    /\ rec # <<>> => Last(rec).tick <= srv.tick

\* The message is the latest of the match.
IsLatest(p) ==
  /\ p.type = "init" \/ p.type = "state"
  /\ p.match = srv.match
  /\ p.type = "init" => p.items = Course[srv.match][srv.tick]
  /\ p.type = "state" => p.tick = srv.tick

Chain ==
  /\ Linked(inbox)
  /\ inbox # <<>> => Ready(Head(inbox))
  /\ link /\ srv.running => IF inbox = <<>> THEN UpToDate ELSE IsLatest(Last(inbox))

\* The frames are of the match.
OfMatch(frames, match) ==
  \A i \in DOMAIN frames :
    frames[i].match = match /\ frames[i].items = Course[match][frames[i].tick]

RecordIsOrdered == ~eclipsed => OfMatch(rec, seed) /\ InOrder(rec)

Following == Chain /\ RecordIsOrdered

-----------------------------------------------------------------------------
(* Frames, logs and messages have their types.                             *)

\* What the assumptions say of the matches.
LEMMA Matches ==
  /\ Len(Course) \in Nat /\ Match = 1..Len(Course)
  /\ LastTick \in Nat \ {0}
  /\ \A m \in Match, t \in Tick : Course[m][t] \in SUBSET Item
BY CourseAssumption DEF Match, Tick

\* Later frames of an ordered log are of later ticks.
LEMMA InOrderIsMonotone ==
  ASSUME NEW frames \in Seq(Frame), InOrder(frames),
         NEW i \in DOMAIN frames, NEW j \in DOMAIN frames, i < j
  PROVE  frames[i].tick < frames[j].tick
<1> DEFINE n == Len(frames)
           Bad == {k \in i + 1..n : ~(frames[i].tick < frames[k].tick)}
<1>1. n \in Nat /\ DOMAIN frames = 1..n /\ \A k \in 1..n : frames[k].tick \in Int
  <2>1. \A k \in 1..n : frames[k] \in Frame
    OBVIOUS
  <2> QED
    BY <2>1, Matches, SMTT(30) DEF Frame, Tick
<1> HIDE DEF n
<1>2. SUFFICES ASSUME Bad # {} PROVE FALSE
  BY <1>1
<1>3. PICK k \in Bad : \A h \in Bad : k <= h
  <2>1. Bad \in SUBSET Nat
    BY <1>1
  <2> HIDE DEF Bad
  <2> QED
    BY <1>2, <2>1, NatMinimum, Zenon
<1>4. k \in 2..n /\ k > i /\ frames[k - 1].tick < frames[k].tick
  <2>1. i \in 1..n
    BY <1>1
  <2>2. k \in 2..n /\ k > i
    BY <1>1, <1>3, <2>1
  <2>3. k \in DOMAIN frames /\ k > 1
    BY <1>1, <2>2
  <2> QED
    BY <2>2, <2>3 DEF InOrder
<1>5. CASE k - 1 = i
  BY <1>3, <1>4, <1>5
<1>6. CASE k - 1 # i
  <2>1. k - 1 \in i + 1..n /\ k - 1 \notin Bad
    BY <1>1, <1>3, <1>4, <1>6
  <2>2. frames[i].tick < frames[k - 1].tick
    BY <2>1
  <2>3. frames[i].tick \in Int /\ frames[k].tick \in Int /\ frames[k - 1].tick \in Int
    BY <1>1, <1>4
  <2> QED
    BY <1>3, <1>4, <2>2, <2>3
<1> QED
  BY <1>5, <1>6

\* The ends of a log and the times of its frames.
LEMMA Offsets ==
  ASSUME NEW log \in LogOf(Seq(Frame)), log.frames # <<>>
  PROVE  /\ Len(log.frames) \in Nat \ {0} /\ DOMAIN log.frames = 1..Len(log.frames)
         /\ \A i \in DOMAIN log.frames : Offset(log, i) \in Tick
         /\ Duration(log) \in Tick
         /\ Offset(log, 1) = 0
<1>1. log.frames \in Seq(Frame)
  BY DEF LogOf
<1>2. Len(log.frames) \in Nat \ {0} /\ DOMAIN log.frames = 1..Len(log.frames)
      /\ \A i \in 1..Len(log.frames) : log.frames[i] \in Frame
  BY <1>1
<1>3. \A i \in 1..Len(log.frames) : log.frames[i].tick \in 0..LastTick
  BY <1>2 DEF Frame, Tick
<1>4. \A i \in 1..Len(log.frames) : Offset(log, i) \in Tick
  BY <1>2, <1>3, Matches DEF Offset, Tick
<1>5. Offset(log, 1) = 0
  BY <1>2, <1>3, Matches DEF Offset
<1> QED
  BY <1>2, <1>4, <1>5 DEF Duration

\* The search of the code finds a frame, and in an ordered log the last that has begun.
LEMMA FrameIndexFinds ==
  ASSUME NEW log \in LogOf(Seq(Frame)), log.frames # <<>>, NEW cursor \in Tick
  PROVE  /\ FrameIndex(log, cursor) \in DOMAIN log.frames
         /\ InOrder(log.frames) =>
              \A i \in DOMAIN log.frames :
                Offset(log, i) <= cursor <=> i <= FrameIndex(log, cursor)
<1> DEFINE n == Len(log.frames)
           i == Search(log, cursor)[<<1, n>>]
           Begun(j) == Offset(log, j) <= cursor
<1>1. FrameIndex(log, cursor) = i
  BY DEF FrameIndex, Search, IsSearch, Narrowed, Ranges
<1>2. n \in Nat \ {0} /\ DOMAIN log.frames = 1..n
      /\ (\A j \in 1..n : Offset(log, j) \in Tick) /\ Offset(log, 1) = 0
  BY Offsets
<1>3. log.frames \in Seq(Frame)
  BY DEF LogOf
<1>4. 1 \in 1..n /\ n \in 1..n /\ 1 <= n
  BY <1>2
<1>5. /\ i \in 1..n
      /\ (/\ Begun(1)
          /\ \A j, h \in 1..n : j <= h /\ Begun(h) => Begun(j))
         => \A j \in 1..n : Begun(j) <=> j <= i
  BY <1>3, <1>4, SearchFinds
<1>6. Begun(1)
  BY <1>2 DEF Tick
<1>7. ASSUME InOrder(log.frames), NEW j \in 1..n, NEW h \in 1..n, j <= h, Begun(h)
      PROVE  Begun(j)
  <2>1. CASE j = h
    BY <1>7, <2>1
  <2>2. CASE j # h
    <3>1. log.frames[j].tick < log.frames[h].tick
      BY <1>2, <1>3, <1>7, <2>2, InOrderIsMonotone
    <3>2. log.frames[j] \in Frame /\ log.frames[h] \in Frame /\ log.frames[1] \in Frame
      BY <1>2, <1>3, <1>4
    <3>3. log.frames[j].tick \in Int /\ log.frames[h].tick \in Int /\ log.frames[1].tick \in Int
      BY <3>2, Matches, SMTT(30) DEF Frame, Tick
    <3>4. Offset(log, j) <= Offset(log, h)
      BY <3>1, <3>3 DEF Offset
    <3>5. Offset(log, j) \in Int /\ Offset(log, h) \in Int /\ cursor \in Int
      BY <1>2, Matches DEF Tick
    <3> QED
      BY <1>7, <3>4, <3>5
  <2> QED
    BY <2>1, <2>2
<1> HIDE DEF i, n, Begun
<1>8. InOrder(log.frames) => \A j \in 1..n : Begun(j) <=> j <= i
  BY <1>5, <1>6, <1>7
<1> QED
  BY <1>1, <1>2, <1>5, <1>8 DEF Begun

\* The server sends messages.
LEMMA Messages ==
  ASSUME NEW m \in Match, NEW t \in Tick
  PROVE  /\ InitMsg(m, t) \in Message /\ StateNow(m, t) \in Message /\ OverMsg(t) \in Message
         /\ \A near : t # 0 => StateMsg(m, t, near) \in Message
<1>1. Course[m][t] \in SUBSET Item
  BY Matches
<1>2. t # 0 => t - 1 \in Tick /\ Course[m][t - 1] \in SUBSET Item
  BY Matches DEF Tick
<1>3. InitMsg(m, t) \in Message
  BY <1>1 DEF InitMsg, Message
<1>4. StateNow(m, t) \in Message
  BY DEF StateNow, Message
<1>5. OverMsg(t) \in Message
  BY DEF OverMsg, Message
<1>6. \A near : t # 0 => StateMsg(m, t, near) \in Message
  BY <1>1, <1>2 DEF StateMsg, Visible, Message
<1> QED
  BY <1>3, <1>4, <1>5, <1>6

\* What each kind of message carries.
LEMMA MessageParts ==
  ASSUME NEW q \in Message
  PROVE  /\ q.type \in {"init", "state", "over"}
         /\ q.type = "init" => q.match \in Match /\ q.items \in SUBSET Item
         /\ q.type = "state" => /\ q.match \in Match /\ q.tick \in Tick
                                /\ q.gone \in SUBSET Item /\ q.back \in SUBSET Item
         /\ q.type = "over" => q.last \in Tick
BY DEF Message

\* A frame is added to the record, or the record is kept; it is never empty then.
LEMMA Records ==
  ASSUME NEW frames \in Seq(Frame), NEW s \in Snapshot, NEW on \in SUBSET Item
  PROVE  /\ Recorded(frames, s, on) \in Seq(Frame)
         /\ Recorded(frames, s, on) # <<>>
<1>1. [match |-> s.match, tick |-> s.tick, items |-> on] \in Frame
  BY DEF Snapshot, Frame
<1> QED
  BY <1>1 DEF Recorded

LEMMA Finals ==
  ASSUME Typed, rec # <<>>
  PROVE  /\ FinalFrames \in Seq(Frame)
         /\ FinalFrames # <<>>
<1>1. rec \in Seq(Frame) /\ items \in SUBSET Item /\ snap \in Snapshot \cup {None}
  BY DEF Typed, TypeOK
<1>2. snap # None => [match |-> snap.match, tick |-> snap.tick, items |-> items] \in Frame
  BY <1>1 DEF Snapshot, Frame
<1> QED
  BY <1>1, <1>2 DEF FinalFrames

\* A file that is accepted is a log.
LEMMA ParsedIsLog ==
  ASSUME NEW raw \in Files, Parsed(raw) # None
  PROVE  Parsed(raw) = raw /\ raw \in LogOf(Seq(Frame)) /\ raw.frames # <<>>
<1>1. raw.frames # <<>> /\ Parsed(raw) = raw
      /\ \A i \in DOMAIN raw.frames : raw.frames[i] # None
  BY DEF Parsed
<1>2. raw \in LogOf(Seq(Frame \cup {None}))
  BY CourseAssumption
<1>3. raw.frames \in Seq(Frame \cup {None})
  BY <1>2 DEF LogOf
<1>4. raw.frames \in Seq(Frame)
  <2>1. Len(raw.frames) \in Nat /\ DOMAIN raw.frames = 1..Len(raw.frames)
        /\ raw.frames \in [1..Len(raw.frames) -> Frame \cup {None}]
    BY <1>3
  <2>2. \A i \in 1..Len(raw.frames) : raw.frames[i] \in Frame
    BY <1>1, <2>1
  <2>3. raw.frames \in [1..Len(raw.frames) -> Frame]
    BY <2>1, <2>2
  <2> QED
    BY <2>1, <2>3
<1>5. raw \in LogOf(Seq(Frame))
  BY <1>2, <1>4 DEF LogOf
<1> QED
  BY <1>1, <1>5

-----------------------------------------------------------------------------
(* Types.                                                                  *)

\* What a step of the server does to the messages under way.
LEMMA Sending ==
  ASSUME Typed, NEW messages \in Seq(Message), NEW n \in Nat, Len(messages) <= n, Room(n)
  PROVE  /\ Sent(messages) \in Seq(Message) /\ Len(Sent(messages)) <= MaxInbox
         /\ inbox # <<>> => Sent(messages) # <<>> /\ Head(Sent(messages)) = Head(inbox)
         /\ ~link => Sent(messages) = <<>>
<1>1. inbox \in Seq(Message) /\ Len(inbox) <= MaxInbox /\ MaxInbox \in Nat
      /\ (~link => inbox = <<>>)
  BY CourseAssumption DEF Typed, TypeOK
<1>2. inbox \o messages \in Seq(Message) /\ Len(inbox \o messages) <= MaxInbox
  BY <1>1 DEF Room
<1>3. inbox # <<>> => inbox \o messages # <<>> /\ Head(inbox \o messages) = Head(inbox)
  BY <1>1
<1> QED
  BY <1>1, <1>2, <1>3 DEF Sent

LEMMA Reading ==
  ASSUME Typed, inbox # <<>>
  PROVE  /\ Head(inbox) \in Message
         /\ Tail(inbox) \in Seq(Message) /\ Len(Tail(inbox)) <= MaxInbox
         /\ link
<1>1. inbox \in Seq(Message) /\ Len(inbox) <= MaxInbox /\ MaxInbox \in Nat
      /\ (~link => inbox = <<>>) /\ link \in BOOLEAN
  BY CourseAssumption DEF Typed, TypeOK
<1>2. Head(inbox) \in Message /\ Tail(inbox) \in Seq(Message) /\ Len(Tail(inbox)) <= MaxInbox
  BY <1>1
<1> QED
  BY <1>1, <1>2

\* What closeReplay puts back.
LEMMA RestoredIsBoard ==
  ASSUME Typed, playback # None
  PROVE  Restored \in Board
<1>1. saved \in Board
  BY DEF Typed, TypeOK
<1>2. world \in Match \cup {None} /\ snap \in Snapshot \cup {None}
  BY DEF Typed, TypeOK
<1> QED
  BY <1>1, <1>2 DEF Restored, Board

\* A replay that is opened shows its first frame.
LEMMA Opened ==
  ASSUME Typed, NEW log \in LogOf(Seq(Frame)), log.frames # <<>>, OpenReplay(log)
  PROVE  /\ world' \in Match \cup {None} /\ snap' \in Snapshot \cup {None}
         /\ items' \in SUBSET Item
         /\ playback' \in Playback /\ playback'.index \in DOMAIN playback'.log.frames
         /\ playback' # None
         /\ saved' \in Board /\ saved' # None
         /\ panel' \in BOOLEAN
         /\ ShowsItsTime'
<1> DEFINE f == log.frames[1]
<1>1. log.frames \in Seq(Frame) /\ log.world \in Match
  BY DEF LogOf
<1>2. 1 \in DOMAIN log.frames /\ f \in Frame
  BY <1>1
<1>3. playback' = [log |-> log, index |-> 1, cursor |-> 0, playing |-> TRUE]
      /\ world' = log.world /\ snap' = [match |-> f.match, tick |-> f.tick] /\ items' = f.items
      /\ panel' = FALSE
  BY DEF OpenReplay, ShowFrame
<1>4. playback' \in Playback /\ playback'.log = log /\ playback'.index = 1
      /\ playback'.cursor = 0
  <2>1. 0 \in Tick
    BY Matches DEF Tick
  <2> QED
    BY <1>3, <2>1 DEF Playback
<1>5. playback' # None
  BY <1>4, NoneAssumption
<1>6. snap' \in Snapshot /\ items' \in SUBSET Item
  BY <1>2, <1>3 DEF Frame, Snapshot
<1>7. saved' \in Board
  <2>1. [world |-> world, snap |-> snap, items |-> items] \in Board
    BY DEF Typed, TypeOK, Board
  <2> QED
    BY <2>1, RestoredIsBoard DEF OpenReplay
<1>8. saved' # None
  BY <1>7, NoneAssumption
<1>9. ASSUME InOrder(log.frames), NEW i \in DOMAIN log.frames
      PROVE  Offset(log, i) <= 0 <=> i <= 1
  <2>1. /\ Len(log.frames) \in Nat \ {0} /\ DOMAIN log.frames = 1..Len(log.frames)
        /\ Offset(log, 1) = 0
    BY Offsets
  <2>2. CASE i = 1
    BY <2>1, <2>2
  <2>3. CASE i # 1
    <3>1. 1 < i
      BY <2>1, <2>3
    <3>2. f.tick < log.frames[i].tick
      BY <1>1, <1>2, <1>9, <3>1, InOrderIsMonotone
    <3>3. f.tick \in Int /\ log.frames[i].tick \in Int
      <4>1. log.frames[i] \in Frame
        BY <1>1
      <4> QED
        BY <1>2, <4>1, Matches DEF Frame, Tick
    <3>4. ~(Offset(log, i) <= 0)
      BY <3>2, <3>3 DEF Offset
    <3> QED
      BY <2>1, <3>1, <3>4
  <2> QED
    BY <2>2, <2>3
<1>10. ShowsItsTime'
  BY <1>3, <1>4, <1>9 DEF ShowsItsTime, Offset
<1> QED
  BY <1>1, <1>2, <1>3, <1>4, <1>5, <1>6, <1>7, <1>8, <1>10

\* A frame that is looked up by time.
LEMMA Found ==
  ASSUME Typed, playback # None, NEW cursor \in Tick
  PROVE  LET i == FrameIndex(playback.log, cursor) IN
         /\ i \in DOMAIN playback.log.frames /\ i \in Nat
         /\ playback.log.frames[i] \in Frame
         /\ InOrder(playback.log.frames) =>
              \A j \in DOMAIN playback.log.frames :
                Offset(playback.log, j) <= cursor <=> j <= i
<1> DEFINE log == playback.log
<1>1. log \in LogOf(Seq(Frame)) /\ log.frames # <<>> /\ log.frames \in Seq(Frame)
  BY DEF Typed, TypeOK, Playback, LogOf
<1>2. DOMAIN log.frames = 1..Len(log.frames) /\ Len(log.frames) \in Nat
  BY <1>1
<1> HIDE DEF log
<1>3. /\ FrameIndex(log, cursor) \in DOMAIN log.frames
      /\ InOrder(log.frames) =>
           \A i \in DOMAIN log.frames :
             Offset(log, i) <= cursor <=> i <= FrameIndex(log, cursor)
  BY <1>1, FrameIndexFinds
<1>4. FrameIndex(log, cursor) \in Nat /\ log.frames[FrameIndex(log, cursor)] \in Frame
  BY <1>1, <1>2, <1>3
<1> QED
  BY <1>3, <1>4 DEF log

\* The times the player can be at.
LEMMA Cursors ==
  ASSUME Typed, playback # None
  PROVE  /\ Duration(playback.log) \in Tick
         /\ \A delta \in 1..2 : playback.cursor + delta < Duration(playback.log) =>
              playback.cursor + delta \in Tick
<1>1. playback.log \in LogOf(Seq(Frame)) /\ playback.log.frames # <<>>
      /\ playback.cursor \in Tick
  BY DEF Typed, TypeOK, Playback
<1>2. Duration(playback.log) \in Tick
  BY <1>1, Offsets
<1> QED
  BY <1>1, <1>2, Matches DEF Tick

LEMMA TypedInit == Init => Typed
<1> SUFFICES ASSUME Init PROVE Typed
  OBVIOUS
<1>1. 0 \in Tick /\ Len(Course) \in Nat /\ MaxInbox \in Nat
  BY Matches, CourseAssumption DEF Tick
<1>2. srv \in [match : 0..Len(Course), tick : Tick, running : BOOLEAN] /\ ~srv.running
  BY <1>1 DEF Init
<1>3. inbox \in Seq(Message) /\ Len(inbox) <= MaxInbox
  BY <1>1, CourseAssumption DEF Init
<1>4. rec \in Seq(Frame)
  BY DEF Init
<1>5. link \in BOOLEAN /\ panel \in BOOLEAN /\ eclipsed \in BOOLEAN
  BY DEF Init
<1>6. Fresh
  BY <1>2 DEF Init, Fresh
<1>7. /\ world \in Match \cup {None} /\ seed \in Match \cup {None}
      /\ snap \in Snapshot \cup {None} /\ items \in SUBSET Item
      /\ saved \in Board \cup {None} /\ (saved # None <=> playback # None)
      /\ file \in Files \cup {None}
      /\ playback = None /\ latest = None /\ inbox = <<>> /\ rec = <<>>
  BY DEF Init
<1> HIDE DEF Init
<1> QED
  BY <1>2, <1>3, <1>4, <1>5, <1>6, <1>7 DEF Typed, TypeOK

\* A step of the server leaves the client alone.
client == <<world, seed, snap, items, rec, latest, playback, saved, panel, file, eclipsed>>

LEMMA TypedServer ==
  ASSUME Typed, UNCHANGED client,
         srv' \in [match : 0..Len(Course), tick : Tick, running : BOOLEAN],
         srv'.running => srv'.match # 0 /\ srv'.tick < LastTick,
         link' \in BOOLEAN, inbox' \in Seq(Message), Len(inbox') <= MaxInbox,
         ~link' => inbox' = <<>>,
         Fresh => Fresh'
  PROVE  Typed'
BY DEF client, Typed, TypeOK

LEMMA TypedStart == Typed /\ Start => Typed'
<1> SUFFICES ASSUME Typed, Start PROVE Typed'
  OBVIOUS
<1> DEFINE m == srv.match + 1
<1>1. m \in Match /\ m # 0 /\ m \in 0..Len(Course) /\ 0 \in Tick /\ 0 < LastTick
  BY Matches DEF Typed, TypeOK, Start, Tick
<1> HIDE DEF m
<1>2. srv' = [match |-> m, tick |-> 0, running |-> TRUE] /\ link' = link
      /\ inbox' = Sent(<<InitMsg(m, 0)>>) /\ Room(1) /\ UNCHANGED client
  BY DEF Start, m, client
<1>3. <<InitMsg(m, 0)>> \in Seq(Message) /\ Len(<<InitMsg(m, 0)>>) <= 1
  BY <1>1, Messages
<1>4. /\ inbox' \in Seq(Message) /\ Len(inbox') <= MaxInbox
      /\ inbox # <<>> => inbox' # <<>> /\ Head(inbox') = Head(inbox)
      /\ ~link => inbox' = <<>>
  BY <1>2, <1>3, Sending
<1>5. srv' \in [match : 0..Len(Course), tick : Tick, running : BOOLEAN]
      /\ (srv'.running => srv'.match # 0 /\ srv'.tick < LastTick)
  BY <1>1, <1>2
<1>6. ASSUME Fresh PROVE Fresh'
  <2>1. CASE inbox # <<>>
    BY <1>4, <1>6, <2>1 DEF Fresh
  <2>2. CASE inbox = <<>> /\ link
    <3>1. inbox' = <<InitMsg(m, 0)>>
      BY <1>2, <1>3, <2>2 DEF Sent
    <3>2. inbox' # <<>> /\ Head(inbox').type = "init"
      BY <3>1 DEF InitMsg
    <3> QED
      BY <3>2 DEF Fresh
  <2>3. CASE ~link
    BY <1>2, <1>4, <2>3 DEF Fresh
  <2> QED
    BY <2>1, <2>2, <2>3
<1>7. link' \in BOOLEAN
  BY <1>2 DEF Typed, TypeOK
<1> QED
  BY <1>2, <1>4, <1>5, <1>6, <1>7, TypedServer

\* The messages of a step of the server.
StepMessages(near, ends) ==
  IF ends THEN <<StateMsg(srv.match, srv.tick + 1, near), OverMsg(srv.tick + 1)>>
  ELSE <<StateMsg(srv.match, srv.tick + 1, near)>>

LEMMA OneOrTwo ==
  ASSUME NEW s \in Seq(Message), NEW a \in Message, NEW b \in Message
  PROVE  /\ <<a>> \o <<b>> = <<a, b>> /\ <<a>> \o <<>> = <<a>>
         /\ s \o <<a>> = Append(s, a) /\ s \o <<a, b>> = Append(Append(s, a), b)
<1>1. <<a>> \in Seq(Message) /\ <<b>> \in Seq(Message) /\ Append(s, a) \in Seq(Message)
  OBVIOUS
<1>2. <<a, b>> = Append(<<a>>, b)
  BY <1>1, SeqEqual
<1>3. <<a>> \o <<b>> = <<a, b>>
  BY <1>1, <1>2, AppendIsConcat
<1>4. <<a>> \o <<>> = <<a>>
  BY <1>1, ConcatEmptySeq
<1>5. s \o <<a>> = Append(s, a)
  BY AppendIsConcat
<1>6. Append(Append(s, a), b) = (s \o <<a>>) \o <<b>>
  BY <1>1, <1>5, AppendIsConcat
<1>7. (s \o <<a>>) \o <<b>> = s \o (<<a>> \o <<b>>)
  BY <1>1, ConcatAssociative
<1> QED
  BY <1>3, <1>4, <1>5, <1>6, <1>7

LEMMA StepSends ==
  ASSUME Typed, NEW near \in SUBSET Item, NEW ends \in BOOLEAN, Step(near, ends)
  PROVE  /\ srv.match \in Match /\ srv.tick \in Tick /\ srv.tick + 1 \in Tick
         /\ srv' = [match |-> srv.match, tick |-> srv.tick + 1, running |-> ~ends]
         /\ ~ends => srv.tick + 1 < LastTick
         /\ StepMessages(near, ends) \in Seq(Message) /\ Len(StepMessages(near, ends)) <= 2
         /\ StateMsg(srv.match, srv.tick + 1, near) \in Message
         /\ OverMsg(srv.tick + 1) \in Message
         /\ inbox' = Sent(StepMessages(near, ends)) /\ Room(2)
         /\ srv.running /\ UNCHANGED <<link, client>>
<1> DEFINE t == srv.tick + 1
           m == srv.match
<1>1. srv \in [match : 0..Len(Course), tick : Tick, running : BOOLEAN] /\ srv.running
      /\ m # 0 /\ srv.tick < LastTick
  BY DEF Typed, TypeOK, Step
<1>2. m \in Match /\ srv.tick \in Tick
  BY <1>1, Matches
<1>3. t \in Tick /\ t # 0
  BY <1>1, Matches DEF Tick
<1>4. srv' = [srv EXCEPT !.tick = t, !.running = ~ends] /\ (t = LastTick => ends)
      /\ inbox' = Sent(<<StateMsg(m, t, near)>> \o IF ends THEN <<OverMsg(t)>> ELSE <<>>)
      /\ Room(2) /\ UNCHANGED <<link, client>>
  BY DEF Step, client
<1>5. srv' = [match |-> m, tick |-> t, running |-> ~ends]
  BY <1>1, <1>4
<1>6. ~ends => t < LastTick
  BY <1>1, <1>4, Matches DEF Tick
<1>7. StateMsg(m, t, near) \in Message /\ OverMsg(t) \in Message
  BY <1>2, <1>3, Messages
<1>8. /\ <<StateMsg(m, t, near)>> \o <<OverMsg(t)>> = <<StateMsg(m, t, near), OverMsg(t)>>
      /\ <<StateMsg(m, t, near)>> \o <<>> = <<StateMsg(m, t, near)>>
  <2>1. inbox \in Seq(Message)
    BY DEF Typed, TypeOK
  <2> HIDE DEF m, t
  <2> QED
    BY <1>7, <2>1, OneOrTwo
<1>9. CASE ends
  <2>1. StepMessages(near, ends) = <<StateMsg(m, t, near), OverMsg(t)>>
    BY <1>9 DEF StepMessages
  <2>2. inbox' = Sent(StepMessages(near, ends))
    BY <1>4, <1>8, <1>9, <2>1
  <2>3. StepMessages(near, ends) \in Seq(Message) /\ Len(StepMessages(near, ends)) <= 2
    <3> HIDE DEF m, t
    <3> QED  BY <1>7, <2>1
  <2> QED
    BY <1>1, <1>2, <1>3, <1>4, <1>5, <1>6, <1>7, <2>2, <2>3
<1>10. CASE ~ends
  <2>1. StepMessages(near, ends) = <<StateMsg(m, t, near)>>
    BY <1>10 DEF StepMessages
  <2>2. inbox' = Sent(StepMessages(near, ends))
    BY <1>4, <1>8, <1>10, <2>1
  <2>3. StepMessages(near, ends) \in Seq(Message) /\ Len(StepMessages(near, ends)) <= 2
    <3> HIDE DEF m, t
    <3> QED  BY <1>7, <2>1
  <2> QED
    BY <1>1, <1>2, <1>3, <1>4, <1>5, <1>6, <1>7, <2>2, <2>3
<1> QED
  BY <1>9, <1>10

LEMMA TypedServerStep ==
  ASSUME Typed, NEW near \in SUBSET Item, NEW ends \in BOOLEAN, Step(near, ends)
  PROVE  Typed'
<1>1. /\ srv.match \in Match /\ srv.tick + 1 \in Tick
      /\ srv' = [match |-> srv.match, tick |-> srv.tick + 1, running |-> ~ends]
      /\ ~ends => srv.tick + 1 < LastTick
      /\ StepMessages(near, ends) \in Seq(Message) /\ Len(StepMessages(near, ends)) <= 2
      /\ inbox' = Sent(StepMessages(near, ends)) /\ Room(2)
      /\ srv.running /\ link' = link /\ UNCHANGED client
  BY StepSends
<1>2. /\ inbox' \in Seq(Message) /\ Len(inbox') <= MaxInbox
      /\ inbox # <<>> => inbox' # <<>> /\ Head(inbox') = Head(inbox)
      /\ ~link => inbox' = <<>>
  BY <1>1, Sending
<1>3. srv' \in [match : 0..Len(Course), tick : Tick, running : BOOLEAN]
      /\ (srv'.running => srv'.match # 0 /\ srv'.tick < LastTick)
  <2>1. srv.match \in 0..Len(Course) /\ srv.match # 0
    BY <1>1, Matches
  <2> QED
    BY <1>1, <2>1
<1>4. ASSUME Fresh PROVE Fresh'
  <2>1. CASE inbox # <<>>
    BY <1>2, <1>4, <2>1 DEF Fresh
  <2>2. CASE inbox = <<>>
    <3>1. ~link
      BY <1>1, <1>4, <2>2 DEF Fresh
    <3> QED
      BY <1>1, <1>2, <3>1 DEF Fresh
  <2> QED
    BY <2>1, <2>2
<1>5. link' \in BOOLEAN
  BY <1>1 DEF Typed, TypeOK
<1> QED
  BY <1>1, <1>2, <1>3, <1>4, <1>5, TypedServer

LEMMA TypedCut == Typed /\ Cut => Typed'
<1> SUFFICES ASSUME Typed, Cut PROVE Typed'
  OBVIOUS
<1>1. link' = FALSE /\ inbox' = <<>> /\ srv' = srv /\ UNCHANGED client
  BY DEF Cut, client
<1>2. inbox' \in Seq(Message) /\ Len(inbox') <= MaxInbox
  BY <1>1, CourseAssumption
<1>3. Fresh'
  BY <1>1 DEF Fresh
<1>4. srv \in [match : 0..Len(Course), tick : Tick, running : BOOLEAN]
      /\ (srv.running => srv.match # 0 /\ srv.tick < LastTick)
  BY DEF Typed, TypeOK
<1> QED
  BY <1>1, <1>2, <1>3, <1>4, TypedServer

LEMMA TypedReconnect == Typed /\ Reconnect => Typed'
<1> SUFFICES ASSUME Typed, Reconnect PROVE Typed'
  OBVIOUS
<1>1. link' = TRUE /\ inbox' = Reconnected /\ srv' = srv /\ UNCHANGED client
  BY DEF Reconnect, client
<1>2. srv \in [match : 0..Len(Course), tick : Tick, running : BOOLEAN]
      /\ (srv.running => srv.match # 0 /\ srv.tick < LastTick)
  BY DEF Typed, TypeOK
<1>3. CASE srv.running
  <2>1. srv.match \in Match /\ srv.tick \in Tick
    BY <1>2, <1>3, Matches
  <2>2. inbox' = <<InitMsg(srv.match, srv.tick), StateNow(srv.match, srv.tick)>>
    BY <1>1, <1>3 DEF Reconnected
  <2>3. InitMsg(srv.match, srv.tick) \in Message /\ StateNow(srv.match, srv.tick) \in Message
    BY <2>1, Messages
  <2>4. inbox' \in Seq(Message) /\ Len(inbox') <= MaxInbox
    BY <2>2, <2>3, CourseAssumption
  <2>5. Fresh'
    <3>1. inbox' # <<>> /\ Head(inbox').type = "init"
      BY <2>2 DEF InitMsg
    <3> QED
      BY <3>1 DEF Fresh
  <2> QED
    BY <1>1, <1>2, <2>4, <2>5, TypedServer
<1>4. CASE ~srv.running
  <2>1. inbox' = <<>>
    BY <1>1, <1>4 DEF Reconnected
  <2>2. inbox' \in Seq(Message) /\ Len(inbox') <= MaxInbox /\ Fresh'
    BY <1>1, <1>4, <2>1, CourseAssumption DEF Fresh
  <2> QED
    BY <1>1, <1>2, <2>2, TypedServer
<1> QED
  BY <1>3, <1>4

\* What is read behind a replay is hidden.
LEMMA Eclipses ==
  ASSUME Typed, ReceiveState \/ ReceiveOver
  PROVE  eclipsed' \in BOOLEAN /\ (eclipsed' <=> eclipsed \/ playback # None)
<1>1. eclipsed' = (eclipsed \/ playback # None)
  BY Zenon DEF ReceiveState, ReceiveOver
<1>2. (eclipsed \/ playback # None) \in BOOLEAN
  BY Zenon
<1> QED
  BY <1>1, <1>2, Zenon

LEMMA TypedReceiveInit == Typed /\ ReceiveInit => Typed'
<1> SUFFICES ASSUME Typed, ReceiveInit PROVE Typed'
  OBVIOUS
<1> DEFINE q == Head(inbox)
<1>1. inbox # <<>> /\ q.type = "init"
  BY DEF ReceiveInit, Arrives
<1>2. q \in Message /\ Tail(inbox) \in Seq(Message) /\ Len(Tail(inbox)) <= MaxInbox /\ link
  BY <1>1, Reading
<1>3. q.match \in Match /\ q.items \in SUBSET Item
  BY <1>1, <1>2, MessageParts
<1>4. /\ world' = q.match /\ seed' = q.match /\ snap' = None /\ items' = q.items
      /\ rec' = <<>> /\ playback' = None /\ saved' = None /\ panel' = FALSE
      /\ inbox' = Tail(inbox) /\ eclipsed' = FALSE /\ UNCHANGED <<srv, link, latest, file>>
  BY DEF ReceiveInit
<1>5. seed' # None
  BY <1>3, <1>4, NoneAssumption
<1>6. rec' \in Seq(Frame)
  BY <1>4
<1> HIDE DEF q
<1> QED
  BY <1>2, <1>3, <1>4, <1>5, <1>6 DEF Typed, TypeOK

LEMMA TypedReceiveState == Typed /\ ReceiveState => Typed'
<1> SUFFICES ASSUME Typed, ReceiveState PROVE Typed'
  OBVIOUS
<1> DEFINE q == Head(inbox)
           now == [match |-> q.match, tick |-> q.tick]
<1>1. inbox # <<>> /\ q.type = "state"
  BY DEF ReceiveState, Arrives
<1>2. q \in Message /\ Tail(inbox) \in Seq(Message) /\ Len(Tail(inbox)) <= MaxInbox /\ link
  BY <1>1, Reading
<1>3. q.match \in Match /\ q.tick \in Tick /\ q.gone \in SUBSET Item /\ q.back \in SUBSET Item
  BY <1>1, <1>2, MessageParts
<1>4. now \in Snapshot
  BY <1>3 DEF Snapshot
<1>5. Applied(items, q) \in SUBSET Item
  BY <1>3 DEF Applied, Typed, TypeOK
<1>6. Recorded(rec, now, Applied(items, q)) \in Seq(Frame)
  <2>1. rec \in Seq(Frame)
    BY DEF Typed, TypeOK
  <2> HIDE DEF now, q
  <2> QED
    BY <1>4, <1>5, <2>1, Records
<1>7. /\ inbox' = Tail(inbox)
      /\ \/ UNCHANGED <<snap, items, rec>>
         \/ /\ snap' = now /\ items' = Applied(items, q)
            /\ rec' = Recorded(rec, now, Applied(items, q))
      /\ UNCHANGED <<srv, link, world, seed, latest, playback, saved, panel, file>>
  BY DEF ReceiveState
<1>8. seed # None
  <2>1. ~Fresh
    BY <1>1 DEF Fresh
  <2> QED
    BY <2>1 DEF Typed
<1> HIDE DEF q, now
<1>9. snap' \in Snapshot \cup {None} /\ items' \in SUBSET Item /\ rec' \in Seq(Frame)
  BY <1>4, <1>5, <1>6, <1>7 DEF Typed, TypeOK
<1>10. eclipsed' \in BOOLEAN
  BY Eclipses
<1> QED
  BY <1>2, <1>7, <1>8, <1>9, <1>10 DEF Typed, TypeOK

LEMMA TypedReceiveOver == Typed /\ ReceiveOver => Typed'
<1> SUFFICES ASSUME Typed, ReceiveOver PROVE Typed'
  OBVIOUS
<1> DEFINE q == Head(inbox)
<1>1. inbox # <<>> /\ q.type = "over"
  BY DEF ReceiveOver, Arrives
<1>2. q \in Message /\ Tail(inbox) \in Seq(Message) /\ Len(Tail(inbox)) <= MaxInbox /\ link
  BY <1>1, Reading
<1>3. q.last \in Tick
  BY <1>1, <1>2, MessageParts
<1>4. seed # None
  <2>1. ~Fresh
    BY <1>1 DEF Fresh
  <2> QED
    BY <2>1 DEF Typed
<1>5. /\ inbox' = Tail(inbox) /\ panel' = TRUE
      /\ UNCHANGED <<srv, link, world, seed, snap, items, playback, saved, file>>
  BY DEF ReceiveOver
<1>6. rec' \in Seq(Frame)
      /\ (latest' # None => latest' \in LogOf(Seq(Frame)) /\ latest'.frames # <<>>)
  <2>1. CASE world = None \/ rec = <<>>
    BY <2>1 DEF ReceiveOver, Typed, TypeOK
  <2>2. CASE ~(world = None \/ rec = <<>>)
    <3>1. /\ rec' = FinalFrames
          /\ latest' = [match |-> seed, world |-> world, last |-> q.last, frames |-> rec']
      BY <2>2 DEF ReceiveOver
    <3>2. FinalFrames \in Seq(Frame) /\ FinalFrames # <<>>
      BY <2>2, Finals
    <3>3. seed \in Match /\ world \in Match
      BY <1>4, <2>2 DEF Typed, TypeOK
    <3>4. latest' \in LogOf(Seq(Frame)) /\ latest'.frames = rec'
      BY <1>3, <3>1, <3>2, <3>3 DEF LogOf
    <3> QED
      BY <3>1, <3>2, <3>4
  <2> QED
    BY <2>1, <2>2
<1> HIDE DEF q
<1>7. panel' \in BOOLEAN /\ eclipsed' \in BOOLEAN
  BY <1>5, Eclipses
<1> QED
  BY <1>2, <1>4, <1>5, <1>6, <1>7 DEF Typed, TypeOK

LEMMA TypedOpens ==
  ASSUME Typed, NEW log \in LogOf(Seq(Frame)), log.frames # <<>>, OpenReplay(log),
         UNCHANGED <<srv, link, inbox, seed, rec, eclipsed>>,
         latest' = log, file' \in Files \cup {None}
  PROVE  Typed'
<1>1. /\ world' \in Match \cup {None} /\ snap' \in Snapshot \cup {None}
      /\ items' \in SUBSET Item
      /\ playback' \in Playback /\ playback'.index \in DOMAIN playback'.log.frames
      /\ playback' # None
      /\ saved' \in Board /\ saved' # None
      /\ panel' \in BOOLEAN
  BY Opened
<1>2. Fresh => Fresh'
  BY DEF Fresh
<1> QED
  BY <1>1, <1>2 DEF Typed, TypeOK

LEMMA TypedOpenLatest == Typed /\ OpenLatest => Typed'
<1> SUFFICES ASSUME Typed, OpenLatest PROVE Typed'
  OBVIOUS
<1>1. latest \in LogOf(Seq(Frame)) /\ latest.frames # <<>> /\ file \in Files \cup {None}
  BY DEF Typed, TypeOK, OpenLatest
<1> QED
  BY <1>1, TypedOpens DEF OpenLatest

LEMMA TypedFileIsRead == Typed /\ FileIsRead => Typed'
<1> SUFFICES ASSUME Typed, FileIsRead PROVE Typed'
  OBVIOUS
<1>1. file \in Files /\ Parsed(file) # None
  BY DEF Typed, TypeOK, FileIsRead
<1>2. Parsed(file) \in LogOf(Seq(Frame)) /\ Parsed(file).frames # <<>>
  BY <1>1, ParsedIsLog
<1> QED
  BY <1>2, TypedOpens DEF FileIsRead

LEMMA TypedCloseReplay == Typed /\ CloseReplay => Typed'
<1> SUFFICES ASSUME Typed, CloseReplay PROVE Typed'
  OBVIOUS
<1>1. Restored \in Board
  BY RestoredIsBoard DEF CloseReplay
<1>2. /\ world' \in Match \cup {None} /\ snap' \in Snapshot \cup {None}
      /\ items' \in SUBSET Item /\ playback' = None /\ saved' = None
  BY <1>1 DEF CloseReplay, Board
<1>3. Fresh => Fresh'
  BY DEF Fresh, CloseReplay
<1> QED
  BY <1>2, <1>3 DEF Typed, TypeOK, CloseReplay

\* The player moves to another time, or only stops or goes on.
LEMMA PlayerShows ==
  ASSUME Typed, playback # None, NEW cursor \in Tick, NEW playing \in BOOLEAN,
         playback' = [playback EXCEPT !.cursor = cursor, !.playing = playing,
                                      !.index = FrameIndex(playback.log, cursor)],
         ShowFrame(playback.log, FrameIndex(playback.log, cursor))
  PROVE  /\ playback' \in Playback /\ playback' # None
         /\ playback'.log = playback.log /\ playback'.cursor = cursor
         /\ playback'.index = FrameIndex(playback.log, cursor)
         /\ playback'.index \in DOMAIN playback'.log.frames
         /\ snap' \in Snapshot /\ items' \in SUBSET Item
<1> DEFINE i == FrameIndex(playback.log, cursor)
<1>1. i \in Nat /\ i \in DOMAIN playback.log.frames /\ playback.log.frames[i] \in Frame
  BY Found
<1> HIDE DEF i
<1>2. playback \in Playback
  BY DEF Typed, TypeOK
<1>3. playback' \in Playback /\ playback'.log = playback.log /\ playback'.index = i
      /\ playback'.cursor = cursor
  BY <1>1, <1>2 DEF Playback, i
<1>4. playback' # None
  BY <1>3, NoneAssumption
<1>5. snap' \in Snapshot /\ items' \in SUBSET Item
  BY <1>1 DEF ShowFrame, Frame, Snapshot, i
<1> QED
  BY <1>1, <1>3, <1>4, <1>5 DEF i

LEMMA TypedPlayer ==
  ASSUME Typed, playback # None,
         playback' \in Playback, playback' # None,
         playback'.index \in DOMAIN playback'.log.frames,
         snap' \in Snapshot \cup {None}, items' \in SUBSET Item,
         UNCHANGED <<srv, link, inbox, world, seed, rec, latest, saved, panel, file, eclipsed>>
  PROVE  Typed'
<1>1. Fresh => Fresh'
  BY DEF Fresh
<1> QED
  BY <1>1 DEF Typed, TypeOK

\* What an animation frame does to the player.
LEMMA Advances ==
  ASSUME Typed, NEW delta \in 1..2, Advance(delta)
  PROVE  \/ /\ playback' = [playback EXCEPT !.playing = FALSE]
            /\ UNCHANGED <<snap, items>>
         \/ \E cursor \in Tick, playing \in BOOLEAN :
              /\ playback' = [playback EXCEPT !.cursor = cursor, !.playing = playing,
                                              !.index = FrameIndex(playback.log, cursor)]
              /\ ShowFrame(playback.log, FrameIndex(playback.log, cursor))
<1> DEFINE d == Duration(playback.log)
           cursor == IF playback.cursor + delta >= d THEN d ELSE playback.cursor + delta
           playing == cursor < d
<1>1. CASE d = 0
  BY <1>1 DEF Advance
<1>2. CASE d # 0
  <2>1. d \in Tick /\ (playback.cursor + delta < d => playback.cursor + delta \in Tick)
    BY Cursors DEF Advance
  <2>2. playback.cursor \in Int /\ d \in Int /\ delta \in Int
    BY <2>1, Matches DEF Advance, Typed, TypeOK, Playback, Tick
  <2>3. cursor \in Tick
    BY <2>1, <2>2
  <2>4. playing \in BOOLEAN
    OBVIOUS
  <2>5. /\ playback' = [playback EXCEPT !.cursor = cursor,
                                        !.index = FrameIndex(playback.log, cursor),
                                        !.playing = playing]
        /\ ShowFrame(playback.log, FrameIndex(playback.log, cursor))
    BY <1>2 DEF Advance
  <2> HIDE DEF cursor, playing
  <2>6. playback' = [playback EXCEPT !.cursor = cursor, !.playing = playing,
                                     !.index = FrameIndex(playback.log, cursor)]
    BY <2>5
  <2> QED
    BY <2>3, <2>4, <2>5, <2>6
<1> QED
  BY <1>1, <1>2

\* A player that stops or goes on.
LEMMA Toggled ==
  ASSUME Typed, playback # None, NEW playing \in BOOLEAN,
         playback' = [playback EXCEPT !.playing = playing]
  PROVE  /\ playback' \in Playback /\ playback' # None
         /\ playback'.log = playback.log /\ playback'.cursor = playback.cursor
         /\ playback'.index = playback.index
         /\ playback'.index \in DOMAIN playback'.log.frames
<1>1. playback \in Playback /\ playback.index \in DOMAIN playback.log.frames
  BY DEF Typed, TypeOK
<1>2. playback' \in Playback /\ playback'.log = playback.log
      /\ playback'.index = playback.index /\ playback'.cursor = playback.cursor
  BY <1>1 DEF Playback
<1>3. playback' # None
  BY <1>2, NoneAssumption
<1> QED
  BY <1>1, <1>2, <1>3

LEMMA TypedAdvance ==
  ASSUME Typed, NEW delta \in 1..2, Advance(delta)
  PROVE  Typed'
<1>1. playback # None
      /\ UNCHANGED <<srv, link, inbox, world, seed, rec, latest, saved, panel, file, eclipsed>>
  BY DEF Advance
<1>2. CASE /\ playback' = [playback EXCEPT !.playing = FALSE]
           /\ UNCHANGED <<snap, items>>
  <2>1. /\ playback' \in Playback /\ playback' # None
        /\ playback'.index \in DOMAIN playback'.log.frames
    BY <1>1, <1>2, Toggled
  <2>2. snap' \in Snapshot \cup {None} /\ items' \in SUBSET Item
    BY <1>2 DEF Typed, TypeOK
  <2> QED
    BY <1>1, <2>1, <2>2, TypedPlayer
<1>3. ASSUME NEW cursor \in Tick, NEW playing \in BOOLEAN,
             playback' = [playback EXCEPT !.cursor = cursor, !.playing = playing,
                                          !.index = FrameIndex(playback.log, cursor)],
             ShowFrame(playback.log, FrameIndex(playback.log, cursor))
      PROVE  Typed'
  <2>1. /\ playback' \in Playback /\ playback' # None
        /\ playback'.index \in DOMAIN playback'.log.frames
        /\ snap' \in Snapshot \cup {None} /\ items' \in SUBSET Item
    BY <1>1, <1>3, PlayerShows
  <2> QED
    BY <1>1, <2>1, TypedPlayer
<1> QED
  BY <1>2, <1>3, Advances

LEMMA TypedTogglePlaying == Typed /\ TogglePlaying => Typed'
<1> SUFFICES ASSUME Typed, TogglePlaying PROVE Typed'
  OBVIOUS
<1>1. playback # None
      /\ UNCHANGED <<srv, link, inbox, world, seed, snap, items, rec, latest, saved, panel,
                     file, eclipsed>>
  BY DEF TogglePlaying, server, board
<1>2. playback' = [playback EXCEPT !.playing = ~playback.playing]
  BY Zenon DEF TogglePlaying
<1>3. (~playback.playing) \in BOOLEAN
  BY Zenon
<1>4. /\ playback' \in Playback /\ playback' # None
      /\ playback'.index \in DOMAIN playback'.log.frames
  BY <1>1, <1>2, <1>3, Toggled
<1>5. snap' \in Snapshot \cup {None} /\ items' \in SUBSET Item
  BY <1>1 DEF Typed, TypeOK
<1> QED
  BY <1>1, <1>4, <1>5, TypedPlayer

LEMMA TypedSeek ==
  ASSUME Typed, NEW cursor \in Tick, Seek(cursor)
  PROVE  Typed'
<1>1. /\ playback # None
      /\ playback' = [playback EXCEPT !.cursor = cursor, !.playing = FALSE,
                                      !.index = FrameIndex(playback.log, cursor)]
      /\ ShowFrame(playback.log, FrameIndex(playback.log, cursor))
      /\ UNCHANGED <<srv, link, inbox, world, seed, rec, latest, saved, panel, file, eclipsed>>
  BY DEF Seek
<1>2. /\ playback' \in Playback /\ playback' # None
      /\ playback'.index \in DOMAIN playback'.log.frames
      /\ snap' \in Snapshot \cup {None} /\ items' \in SUBSET Item
  BY <1>1, PlayerShows
<1> QED
  BY <1>1, <1>2, TypedPlayer

\* The panel and the file.
LEMMA TypedScreen ==
  ASSUME Typed, panel' \in BOOLEAN, file' \in Files \cup {None},
         UNCHANGED <<srv, link, inbox, world, seed, snap, items, rec, latest, playback, saved,
                     eclipsed>>
  PROVE  Typed'
<1>1. Fresh => Fresh'
  BY DEF Fresh
<1> QED
  BY <1>1 DEF Typed, TypeOK

LEMMA TypedStep == Typed /\ [Next]_vars => Typed'
<1> SUFFICES ASSUME Typed, [Next]_vars PROVE Typed'
  OBVIOUS
<1>0. panel \in BOOLEAN /\ file \in Files \cup {None}
  BY DEF Typed, TypeOK
<1>1. CASE Start
  BY <1>1, TypedStart
<1>2. ASSUME NEW near \in SUBSET Item, NEW ends \in BOOLEAN, Step(near, ends) PROVE Typed'
  BY <1>2, TypedServerStep
<1>3. CASE Cut
  BY <1>3, TypedCut
<1>4. CASE Reconnect
  BY <1>4, TypedReconnect
<1>5. CASE ReceiveInit
  BY <1>5, TypedReceiveInit
<1>6. CASE ReceiveState
  BY <1>6, TypedReceiveState
<1>7. CASE ReceiveOver
  BY <1>7, TypedReceiveOver
<1>8. CASE OpenLatest
  BY <1>8, TypedOpenLatest
<1>9. ASSUME NEW log \in Files, ChooseFile(log) PROVE Typed'
  BY <1>0, <1>9, TypedScreen DEF ChooseFile
<1>10. CASE FileIsRead
  BY <1>10, TypedFileIsRead
<1>11. CASE FileIsRefused
  BY <1>0, <1>11, TypedScreen DEF FileIsRefused, server, board
<1>12. CASE CloseReplay
  BY <1>12, TypedCloseReplay
<1>13. ASSUME NEW delta \in 1..2, Advance(delta) PROVE Typed'
  BY <1>13, TypedAdvance
<1>14. CASE TogglePlaying
  BY <1>14, TypedTogglePlaying
<1>15. ASSUME NEW cursor \in Tick, Seek(cursor) PROVE Typed'
  BY <1>15, TypedSeek
<1>16. CASE CloseResult
  BY <1>0, <1>16, TypedScreen DEF CloseResult, server, board
<1>17. CASE UNCHANGED vars
  BY <1>0, <1>17, TypedScreen DEF vars
<1> QED
  BY <1>1, <1>2, <1>3, <1>4, <1>5, <1>6, <1>7, <1>8, <1>9, <1>10, <1>11, <1>12, <1>13,
     <1>14, <1>15, <1>16, <1>17 DEF Next

\* Of whatever kind the matches and the files are, the client's variables keep
\* their types, an open replay is at one of its frames, and the queue of a
\* connection keeps its bound (client/main.ts).
THEOREM TypeCorrect == Spec => []TypeOK
<1>1. Spec => []Typed
  BY TypedInit, TypedStep, PTL DEF Spec
<1>2. Typed => TypeOK
  BY DEF Typed
<1> QED
  BY <1>1, <1>2, PTL

-----------------------------------------------------------------------------
(* What an open replay shows.                                              *)

\* Steps that leave the player and its screen alone.
LEMMA ShowsSame ==
  ASSUME ShowsItsTime, playback' = playback,
         playback # None => UNCHANGED <<world, snap, items>>
  PROVE  ShowsItsTime'
BY DEF ShowsItsTime, Offset

\* Steps after which no replay is open.
LEMMA ShowsNothing ==
  ASSUME playback' = None
  PROVE  ShowsItsTime'
BY DEF ShowsItsTime

LEMMA ShowsCursor ==
  ASSUME Typed, ShowsItsTime, playback # None, NEW cursor \in Tick, NEW playing \in BOOLEAN,
         playback' = [playback EXCEPT !.cursor = cursor, !.playing = playing,
                                      !.index = FrameIndex(playback.log, cursor)],
         ShowFrame(playback.log, FrameIndex(playback.log, cursor)),
         world' = world
  PROVE  ShowsItsTime'
<1> DEFINE log == playback.log
           i == FrameIndex(log, cursor)
<1>1. playback'.log = log /\ playback'.cursor = cursor /\ playback'.index = i
  BY PlayerShows
<1>2. InOrder(log.frames) =>
        \A j \in DOMAIN log.frames : Offset(log, j) <= cursor <=> j <= i
  BY Found
<1>3. world = log.world
  BY DEF ShowsItsTime
<1>4. /\ snap' = [match |-> log.frames[i].match, tick |-> log.frames[i].tick]
      /\ items' = log.frames[i].items
  BY DEF ShowFrame
<1> HIDE DEF log, i
<1>5. world' = log.world
  BY <1>3
<1> QED
  BY <1>1, <1>2, <1>4, <1>5 DEF ShowsItsTime, Offset

LEMMA ShowsStep == Typed /\ ShowsItsTime /\ [Next]_vars => ShowsItsTime'
<1> SUFFICES ASSUME Typed, ShowsItsTime, [Next]_vars PROVE ShowsItsTime'
  OBVIOUS
<1>1. CASE Start
  BY <1>1, ShowsSame DEF Start
<1>2. ASSUME NEW near \in SUBSET Item, NEW ends \in BOOLEAN, Step(near, ends)
      PROVE  ShowsItsTime'
  BY <1>2, ShowsSame DEF Step
<1>3. CASE Cut
  BY <1>3, ShowsSame DEF Cut
<1>4. CASE Reconnect
  BY <1>4, ShowsSame DEF Reconnect
<1>5. CASE ReceiveInit
  BY <1>5, ShowsNothing DEF ReceiveInit
<1>6. CASE ReceiveState
  BY <1>6, ShowsSame DEF ReceiveState
<1>7. CASE ReceiveOver
  BY <1>7, ShowsSame DEF ReceiveOver
<1>8. CASE OpenLatest
  <2>1. latest \in LogOf(Seq(Frame)) /\ latest.frames # <<>> /\ OpenReplay(latest)
    BY <1>8 DEF Typed, TypeOK, OpenLatest
  <2> QED
    BY <2>1, Opened
<1>9. ASSUME NEW log \in Files, ChooseFile(log) PROVE ShowsItsTime'
  BY <1>9, ShowsSame DEF ChooseFile
<1>10. CASE FileIsRead
  <2>1. file \in Files /\ Parsed(file) # None /\ OpenReplay(Parsed(file))
    BY <1>10 DEF Typed, TypeOK, FileIsRead
  <2>2. Parsed(file) \in LogOf(Seq(Frame)) /\ Parsed(file).frames # <<>>
    BY <2>1, ParsedIsLog
  <2> QED
    BY <2>1, <2>2, Opened
<1>11. CASE FileIsRefused
  BY <1>11, ShowsSame DEF FileIsRefused, board
<1>12. CASE CloseReplay
  BY <1>12, ShowsNothing DEF CloseReplay
<1>13. ASSUME NEW delta \in 1..2, Advance(delta) PROVE ShowsItsTime'
  <2>1. playback # None /\ world' = world
    BY <1>13 DEF Advance
  <2>2. CASE /\ playback' = [playback EXCEPT !.playing = FALSE]
             /\ UNCHANGED <<snap, items>>
    <3>1. /\ playback'.log = playback.log /\ playback'.cursor = playback.cursor
          /\ playback'.index = playback.index
      BY <2>1, <2>2, Toggled
    <3> QED
      BY <2>1, <2>2, <3>1 DEF ShowsItsTime, Offset
  <2>3. ASSUME NEW cursor \in Tick, NEW playing \in BOOLEAN,
               playback' = [playback EXCEPT !.cursor = cursor, !.playing = playing,
                                            !.index = FrameIndex(playback.log, cursor)],
               ShowFrame(playback.log, FrameIndex(playback.log, cursor))
        PROVE  ShowsItsTime'
    BY <2>1, <2>3, ShowsCursor
  <2> QED
    BY <1>13, <2>2, <2>3, Advances
<1>14. CASE TogglePlaying
  <2>1. playback # None /\ UNCHANGED <<world, snap, items>>
    BY <1>14 DEF TogglePlaying, board
  <2>2. playback' = [playback EXCEPT !.playing = ~playback.playing]
        /\ (~playback.playing) \in BOOLEAN
    BY <1>14, Zenon DEF TogglePlaying
  <2>3. /\ playback'.log = playback.log /\ playback'.cursor = playback.cursor
        /\ playback'.index = playback.index
    BY <2>1, <2>2, Toggled
  <2> QED
    BY <2>1, <2>3 DEF ShowsItsTime, Offset
<1>15. ASSUME NEW cursor \in Tick, Seek(cursor) PROVE ShowsItsTime'
  <2>1. /\ playback # None /\ world' = world
        /\ playback' = [playback EXCEPT !.cursor = cursor, !.playing = FALSE,
                                        !.index = FrameIndex(playback.log, cursor)]
        /\ ShowFrame(playback.log, FrameIndex(playback.log, cursor))
    BY <1>15 DEF Seek
  <2> QED
    BY <2>1, ShowsCursor
<1>16. CASE CloseResult
  BY <1>16, ShowsSame DEF CloseResult, board
<1>17. CASE UNCHANGED vars
  BY <1>17, ShowsSame DEF vars
<1> QED
  BY <1>1, <1>2, <1>3, <1>4, <1>5, <1>6, <1>7, <1>8, <1>9, <1>10, <1>11, <1>12, <1>13,
     <1>14, <1>15, <1>16, <1>17 DEF Next

\* An open replay shows the frame its cursor is in, on the map of its log, however
\* it was opened and moved and whatever messages came meanwhile; the binary search
\* of findReplayFrameIndex is right for logs of any length (client/main.ts).
THEOREM ShowsCorrect == Spec => []ShowsItsTime
<1>1. Init => ShowsItsTime
  BY DEF Init, ShowsItsTime
<1>2. Spec => []Typed
  BY TypedInit, TypedStep, PTL DEF Spec
<1> QED
  BY <1>1, <1>2, ShowsStep, PTL DEF Spec

-----------------------------------------------------------------------------
(* Messages follow each other.                                             *)

LEMMA LinkedTail ==
  ASSUME NEW T, NEW s \in Seq(T), s # <<>>, Linked(s)
  PROVE  /\ Linked(Tail(s))
         /\ Tail(s) # <<>> => Follows(Head(s), Head(Tail(s))) /\ Last(Tail(s)) = Last(s)
         /\ Tail(s) = <<>> => Last(s) = Head(s)
<1> DEFINE t == Tail(s)
<1>1. t \in Seq(T) /\ Len(t) \in Nat /\ Len(s) = Len(t) + 1 /\ Head(s) = s[1]
      /\ \A i \in 1..Len(t) : t[i] = s[i + 1]
  OBVIOUS
<1>2. t # <<>> => Len(t) # 0 /\ Head(t) = t[1]
  OBVIOUS
<1> HIDE DEF t
<1>3. t = <<>> => Len(t) = 0
  OBVIOUS
<1>4. ASSUME NEW i \in 2..Len(t) PROVE Follows(t[i - 1], t[i])
  <2>1. t[i - 1] = s[i] /\ t[i] = s[i + 1] /\ i + 1 \in 2..Len(s) /\ (i + 1) - 1 = i
    BY <1>1
  <2>2. Follows(s[(i + 1) - 1], s[i + 1])
    BY <2>1 DEF Linked
  <2> QED
    BY <2>1, <2>2
<1>5. ASSUME t # <<>> PROVE Follows(Head(s), Head(t)) /\ Last(t) = Last(s)
  <2>1. Head(t) = s[2] /\ 2 \in 2..Len(s) /\ 2 - 1 = 1
    BY <1>1, <1>2, <1>5
  <2>2. Follows(s[2 - 1], s[2])
    BY <2>1 DEF Linked
  <2>3. Last(t) = Last(s)
    BY <1>1, <1>2, <1>5 DEF Last
  <2> QED
    BY <1>1, <2>1, <2>2, <2>3
<1>6. t = <<>> => Last(s) = Head(s)
  BY <1>1, <1>3 DEF Last
<1>7. Linked(t)
  BY <1>4 DEF Linked
<1> QED
  BY <1>5, <1>6, <1>7 DEF t

LEMMA LinkedAppend ==
  ASSUME NEW T, NEW s \in Seq(T), NEW q \in T, Linked(s),
         s # <<>> => Follows(Last(s), q)
  PROVE  /\ Linked(Append(s, q)) /\ Append(s, q) # <<>> /\ Last(Append(s, q)) = q
         /\ Head(Append(s, q)) = IF s = <<>> THEN q ELSE Head(s)
<1> DEFINE t == Append(s, q)
<1>1. t \in Seq(T) /\ Len(s) \in Nat /\ Len(t) = Len(s) + 1 /\ t[Len(s) + 1] = q
      /\ t # <<>> /\ \A i \in 1..Len(s) : t[i] = s[i]
  OBVIOUS
<1>2. Head(t) = IF s = <<>> THEN q ELSE Head(s)
  OBVIOUS
<1>3. s # <<>> <=> Len(s) # 0
  OBVIOUS
<1> HIDE DEF t
<1>4. ASSUME NEW i \in 2..Len(t) PROVE Follows(t[i - 1], t[i])
  <2>1. CASE i = Len(t)
    <3>1. i - 1 = Len(s) /\ s # <<>> /\ t[i] = q /\ t[i - 1] = s[Len(s)]
      BY <1>1, <1>3, <2>1
    <3> QED
      BY <3>1 DEF Last
  <2>2. CASE i # Len(t)
    <3>1. i \in 2..Len(s) /\ t[i] = s[i] /\ t[i - 1] = s[i - 1]
      BY <1>1, <2>2
    <3> QED
      BY <3>1 DEF Linked
  <2> QED
    BY <2>1, <2>2
<1>5. Linked(t) /\ Last(t) = q
  BY <1>1, <1>4 DEF Linked, Last
<1> QED
  BY <1>1, <1>2, <1>5 DEF t

\* A frame of a later tick is added in order.
LEMMA OrderAppend ==
  ASSUME NEW frames \in Seq(Frame), NEW f \in Frame, InOrder(frames),
         frames # <<>> => Last(frames).tick < f.tick
  PROVE  InOrder(Append(frames, f)) /\ Last(Append(frames, f)) = f
<1> DEFINE t == Append(frames, f)
<1>1. t \in Seq(Frame) /\ Len(frames) \in Nat /\ Len(t) = Len(frames) + 1
      /\ t[Len(frames) + 1] = f
      /\ DOMAIN t = 1..Len(t) /\ DOMAIN frames = 1..Len(frames)
      /\ \A i \in 1..Len(frames) : t[i] = frames[i]
  OBVIOUS
<1>2. frames # <<>> <=> Len(frames) # 0
  OBVIOUS
<1> HIDE DEF t
<1>3. ASSUME NEW i \in DOMAIN t, i > 1 PROVE t[i - 1].tick < t[i].tick
  <2>1. CASE i = Len(t)
    <3>1. frames # <<>> /\ t[i] = f /\ t[i - 1] = frames[Len(frames)]
      BY <1>1, <1>2, <1>3, <2>1
    <3> QED
      BY <3>1 DEF Last
  <2>2. CASE i # Len(t)
    <3>1. i \in DOMAIN frames /\ t[i] = frames[i] /\ t[i - 1] = frames[i - 1]
      BY <1>1, <1>3, <2>2
    <3> QED
      BY <1>3, <3>1 DEF InOrder
  <2> QED
    BY <2>1, <2>2
<1>4. InOrder(t) /\ Last(t) = f
  BY <1>1, <1>3 DEF InOrder, Last
<1> QED
  BY <1>4 DEF t

LEMMA OfMatchAppend ==
  ASSUME NEW frames \in Seq(Frame), NEW f \in Frame, NEW m, OfMatch(frames, m),
         f.match = m, f.items = Course[m][f.tick]
  PROVE  OfMatch(Append(frames, f), m)
<1> DEFINE t == Append(frames, f)
<1>1. Len(frames) \in Nat /\ Len(t) = Len(frames) + 1 /\ t[Len(frames) + 1] = f
      /\ DOMAIN t = 1..Len(t) /\ DOMAIN frames = 1..Len(frames)
      /\ \A i \in 1..Len(frames) : t[i] = frames[i]
  OBVIOUS
<1> HIDE DEF t
<1>2. ASSUME NEW i \in DOMAIN t PROVE t[i].match = m /\ t[i].items = Course[m][t[i].tick]
  <2>1. CASE i = Len(t)
    BY <1>1, <2>1
  <2>2. CASE i # Len(t)
    <3>1. i \in DOMAIN frames /\ t[i] = frames[i]
      BY <1>1, <2>2
    <3> QED
      BY <3>1 DEF OfMatch
  <2> QED
    BY <2>1, <2>2
<1>3. OfMatch(t, m)
  BY <1>2 DEF OfMatch
<1> QED
  BY <1>3 DEF t

\* The differences of a tick turn the board before it into the board after it.
LEMMA Differences ==
  ASSUME NEW m \in Match, NEW t \in Tick, t + 1 \in Tick, NEW near
  PROVE  /\ Applied(Course[m][t], StateMsg(m, t + 1, near)) = Course[m][t + 1]
         /\ Applied(Course[m][t], StateNow(m, t)) = Course[m][t]
<1>1. (t + 1) - 1 = t
  BY Matches DEF Tick
<1>2. /\ StateMsg(m, t + 1, near).gone = Course[m][t] \ Course[m][t + 1]
      /\ StateMsg(m, t + 1, near).back = Course[m][t + 1] \ Course[m][t]
  BY <1>1 DEF StateMsg, Visible
<1>3. StateNow(m, t).gone = {} /\ StateNow(m, t).back = {}
  BY DEF StateNow
<1> QED
  BY <1>2, <1>3 DEF Applied

-----------------------------------------------------------------------------
(* The client follows the match.                                           *)

\* What a replay that is opened or closed leaves of what the client has.
LEMMA OpenKeeps ==
  ASSUME Typed, NEW log \in LogOf(Seq(Frame)), log.frames # <<>>, OpenReplay(log)
  PROVE  /\ Kept' = Kept
         /\ KeptWorld # None => KeptWorld' = KeptWorld
         /\ KeptSnap # None => KeptSnap' = KeptSnap
<1>1. playback' # None
  BY Opened
<1>2. Kept' = saved'.items /\ KeptWorld' = saved'.world /\ KeptSnap' = saved'.snap
  BY <1>1 DEF Kept, KeptWorld, KeptSnap
<1>3. CASE playback = None
  <2>1. saved' = [world |-> world, snap |-> snap, items |-> items]
    BY <1>3 DEF OpenReplay
  <2> QED
    BY <1>2, <1>3, <2>1 DEF Kept, KeptWorld, KeptSnap
<1>4. CASE playback # None
  <2>1. saved' = Restored
    BY <1>4 DEF OpenReplay
  <2> QED
    BY <1>2, <1>4, <2>1 DEF Kept, KeptWorld, KeptSnap, Restored
<1> QED
  BY <1>3, <1>4

LEMMA CloseKeeps ==
  ASSUME CloseReplay
  PROVE  /\ Kept' = Kept
         /\ KeptWorld # None => KeptWorld' = KeptWorld
         /\ KeptSnap # None => KeptSnap' = KeptSnap
BY DEF CloseReplay, Kept, KeptWorld, KeptSnap, Restored

\* The user changes what is shown, not what the client has.
user == <<srv, link, inbox, seed, rec, eclipsed>>

LEMMA ChainUser ==
  ASSUME Chain, UNCHANGED user, Kept' = Kept,
         KeptWorld # None => KeptWorld' = KeptWorld,
         KeptSnap # None => KeptSnap' = KeptSnap
  PROVE  Chain'
<1>1. UNCHANGED <<srv, link, inbox, seed, rec, eclipsed>>
  BY DEF user
<1>2. inbox # <<>> => Ready(Head(inbox))
  BY DEF Chain
<1>3. inbox' # <<>> => Ready(Head(inbox))'
  BY <1>1, <1>2 DEF Ready
<1>4. UpToDate => UpToDate'
  BY <1>1 DEF UpToDate
<1>5. IsLatest(Last(inbox)) => IsLatest(Last(inbox))'
  BY <1>1 DEF IsLatest
<1>6. Linked(inbox)'
  BY <1>1 DEF Chain
<1> QED
  BY <1>1, <1>3, <1>4, <1>5, <1>6 DEF Chain

\* The player and the panel leave what the client has alone.
LEMMA PlayerKeeps ==
  ASSUME UNCHANGED saved,
         \/ playback # None /\ playback' # None
         \/ UNCHANGED <<playback, world, snap, items>>
  PROVE  Kept' = Kept /\ KeptWorld' = KeptWorld /\ KeptSnap' = KeptSnap
BY DEF Kept, KeptWorld, KeptSnap

LEMMA UserKeeps ==
  ASSUME Typed,
         \/ OpenLatest \/ FileIsRead \/ FileIsRefused \/ CloseReplay \/ TogglePlaying
         \/ CloseResult \/ UNCHANGED vars
         \/ \E log \in Files : ChooseFile(log)
         \/ \E delta \in 1..2 : Advance(delta)
         \/ \E cursor \in Tick : Seek(cursor)
  PROVE  /\ UNCHANGED user /\ Kept' = Kept
         /\ KeptWorld # None => KeptWorld' = KeptWorld
         /\ KeptSnap # None => KeptSnap' = KeptSnap
<1>1. CASE OpenLatest
  <2>1. latest \in LogOf(Seq(Frame)) /\ latest.frames # <<>> /\ OpenReplay(latest)
    BY <1>1 DEF Typed, TypeOK, OpenLatest
  <2>2. UNCHANGED user
    BY <1>1 DEF OpenLatest, user
  <2> QED
    BY <2>1, <2>2, OpenKeeps
<1>2. CASE FileIsRead
  <2>1. file \in Files /\ Parsed(file) # None /\ OpenReplay(Parsed(file))
    BY <1>2 DEF Typed, TypeOK, FileIsRead
  <2>2. Parsed(file) \in LogOf(Seq(Frame)) /\ Parsed(file).frames # <<>>
    BY <2>1, ParsedIsLog
  <2>3. UNCHANGED user
    BY <1>2 DEF FileIsRead, user
  <2> QED
    BY <2>1, <2>2, <2>3, OpenKeeps
<1>3. CASE FileIsRefused
  BY <1>3, PlayerKeeps DEF FileIsRefused, user, server, board
<1>4. CASE CloseReplay
  BY <1>4, CloseKeeps DEF CloseReplay, user
<1>5. CASE TogglePlaying
  <2>1. playback # None /\ UNCHANGED saved /\ UNCHANGED user
    BY <1>5 DEF TogglePlaying, user, server, board
  <2>2. playback' = [playback EXCEPT !.playing = ~playback.playing]
        /\ (~playback.playing) \in BOOLEAN
    BY <1>5, Zenon DEF TogglePlaying
  <2>3. playback' # None
    BY <2>1, <2>2, Toggled
  <2> QED
    BY <2>1, <2>3, PlayerKeeps
<1>6. CASE CloseResult
  BY <1>6, PlayerKeeps DEF CloseResult, user, server, board
<1>7. CASE UNCHANGED vars
  BY <1>7, PlayerKeeps DEF vars, user
<1>8. ASSUME NEW log \in Files, ChooseFile(log)
      PROVE  UNCHANGED user /\ Kept' = Kept /\ KeptWorld' = KeptWorld /\ KeptSnap' = KeptSnap
  BY <1>8, PlayerKeeps DEF ChooseFile, user
<1>9. ASSUME NEW delta \in 1..2, Advance(delta)
      PROVE  UNCHANGED user /\ Kept' = Kept /\ KeptWorld' = KeptWorld /\ KeptSnap' = KeptSnap
  <2>1. playback # None /\ UNCHANGED saved /\ UNCHANGED user
    BY <1>9 DEF Advance, user
  <2>2. CASE playback' = [playback EXCEPT !.playing = FALSE]
    BY <2>1, <2>2, Toggled, PlayerKeeps
  <2>3. ASSUME NEW cursor \in Tick, NEW playing \in BOOLEAN,
               playback' = [playback EXCEPT !.cursor = cursor, !.playing = playing,
                                            !.index = FrameIndex(playback.log, cursor)],
               ShowFrame(playback.log, FrameIndex(playback.log, cursor))
        PROVE  playback' # None
    BY <2>1, <2>3, PlayerShows
  <2>4. playback' # None
    BY <1>9, <2>1, <2>2, <2>3, Advances, Toggled
  <2> QED
    BY <2>1, <2>4, PlayerKeeps
<1>10. ASSUME NEW cursor \in Tick, Seek(cursor)
       PROVE  UNCHANGED user /\ Kept' = Kept /\ KeptWorld' = KeptWorld /\ KeptSnap' = KeptSnap
  <2>1. /\ playback # None
        /\ playback' = [playback EXCEPT !.cursor = cursor, !.playing = FALSE,
                                        !.index = FrameIndex(playback.log, cursor)]
        /\ ShowFrame(playback.log, FrameIndex(playback.log, cursor))
        /\ UNCHANGED saved /\ UNCHANGED user
    BY <1>10 DEF Seek, user
  <2>2. playback' # None
    BY <2>1, PlayerShows
  <2> QED
    BY <2>1, <2>2, PlayerKeeps
<1> QED
  BY <1>1, <1>2, <1>3, <1>4, <1>5, <1>6, <1>7, <1>8, <1>9, <1>10

\* What the server sends, the client reads in its turn.
LEMMA ReadyStays ==
  ASSUME Chain, NEW q, inbox = <<>> => Ready(q), UNCHANGED client,
         Head(inbox') = IF inbox = <<>> THEN q ELSE Head(inbox)
  PROVE  Ready(Head(inbox))'
<1>1. Ready(Head(inbox'))
  BY DEF Chain
<1>2. /\ Kept' = Kept /\ KeptWorld' = KeptWorld /\ KeptSnap' = KeptSnap
      /\ seed' = seed /\ rec' = rec /\ (eclipsed' <=> eclipsed)
  BY DEF Kept, KeptWorld, KeptSnap, client
<1> QED
  BY <1>1, <1>2 DEF Ready

LEMMA ChainStart == Typed /\ Chain /\ Start => Chain'
<1> SUFFICES ASSUME Typed, Chain, Start PROVE Chain'
  OBVIOUS
<1> DEFINE m == srv.match + 1
           q == InitMsg(m, 0)
<1>1. m \in Match /\ 0 \in Tick
  BY Matches DEF Typed, TypeOK, Start, Tick
<1>2. srv' = [match |-> m, tick |-> 0, running |-> TRUE] /\ link' = link
      /\ inbox' = Sent(<<q>>) /\ UNCHANGED client
  BY DEF Start, client
<1>3. q \in Message /\ q.type = "init" /\ q.match = m /\ q.items = Course[m][0]
  BY <1>1, Messages DEF InitMsg
<1>4. inbox \in Seq(Message)
  BY DEF Typed, TypeOK
<1> HIDE DEF q, m
<1>5. CASE link
  <2>1. inbox' = Append(inbox, q)
    BY <1>2, <1>3, <1>4, <1>5, OneOrTwo DEF Sent
  <2>2. inbox # <<>> => Follows(Last(inbox), q)
    BY <1>3 DEF Follows
  <2>3. /\ Linked(inbox') /\ inbox' # <<>> /\ Last(inbox') = q
        /\ Head(inbox') = IF inbox = <<>> THEN q ELSE Head(inbox)
    BY <1>3, <1>4, <2>1, <2>2, LinkedAppend DEF Chain
  <2>4. Ready(Head(inbox))'
    <3>1. Ready(q)
      BY <1>3 DEF Ready
    <3> QED
      BY <1>2, <2>3, <3>1, ReadyStays
  <2>5. IsLatest(Last(inbox))'
    BY <1>2, <1>3, <2>3 DEF IsLatest
  <2> QED
    BY <2>3, <2>4, <2>5 DEF Chain
<1>6. CASE ~link
  <2>1. inbox' = <<>> /\ ~link'
    BY <1>2, <1>6 DEF Sent, Typed
  <2> QED
    BY <2>1 DEF Chain, Linked
<1> QED
  BY <1>5, <1>6

\* The state of the next tick continues what was sent and what the client has.
LEMMA StateContinues ==
  ASSUME Typed, Chain, NEW near \in SUBSET Item, NEW ends \in BOOLEAN, Step(near, ends), link
  PROVE  LET q == StateMsg(srv.match, srv.tick + 1, near) IN
         /\ inbox # <<>> => Follows(Last(inbox), q)
         /\ inbox = <<>> => Ready(q)
<1> DEFINE m == srv.match
           t == srv.tick
           q == StateMsg(m, t + 1, near)
<1>1. m \in Match /\ t \in Tick /\ t + 1 \in Tick /\ srv.running
  BY StepSends
<1>2. q.type = "state" /\ q.match = m /\ q.tick = t + 1
  BY DEF StateMsg
<1>3. Applied(Course[m][t], q) = Course[m][t + 1]
  BY <1>1, Differences
<1>4. t < t + 1 /\ t \in Int
  BY <1>1, Matches DEF Tick
<1>5. inbox # <<>> => IsLatest(Last(inbox))
  BY <1>1 DEF Chain
<1>6. inbox = <<>> => UpToDate
  BY <1>1 DEF Chain
<1>7. rec # <<>> => Last(rec).tick \in Int
  <2>1. rec \in Seq(Frame)
    BY DEF Typed, TypeOK
  <2>2. rec # <<>> => Last(rec) \in Frame
    BY <2>1 DEF Last
  <2> QED
    BY <2>2, Matches DEF Frame, Tick
<1> HIDE DEF m, t, q
<1>8. ASSUME inbox # <<>> PROVE Follows(Last(inbox), q)
  <2> DEFINE p == Last(inbox)
  <2>1. /\ p.type = "init" \/ p.type = "state"
        /\ p.match = m
        /\ p.type = "init" => p.items = Course[m][t]
        /\ p.type = "state" => p.tick = t
    BY <1>5, <1>8 DEF IsLatest, m, t
  <2> HIDE DEF p
  <2>2. Follows(p, q)
    BY <1>2, <1>3, <1>4, <2>1 DEF Follows
  <2> QED
    BY <2>2 DEF p
<1>9. ASSUME inbox = <<>> PROVE Ready(q)
  <2>1. ~eclipsed => /\ seed # None /\ seed = m /\ KeptWorld = m /\ Kept = Course[m][t]
                     /\ rec # <<>> => Last(rec).tick <= t
    BY <1>6, <1>9 DEF UpToDate, m, t
  <2>2. ~eclipsed /\ rec # <<>> => Last(rec).tick < t + 1
    BY <1>4, <1>7, <2>1
  <2> QED
    BY <1>2, <1>3, <2>1, <2>2 DEF Ready
<1> QED
  BY <1>8, <1>9 DEF q, m, t

LEMMA ChainServerStep ==
  ASSUME Typed, Chain, NEW near \in SUBSET Item, NEW ends \in BOOLEAN, Step(near, ends)
  PROVE  Chain'
<1> DEFINE q == StateMsg(srv.match, srv.tick + 1, near)
           o == OverMsg(srv.tick + 1)
<1>1. /\ srv' = [match |-> srv.match, tick |-> srv.tick + 1, running |-> ~ends]
      /\ q \in Message /\ o \in Message
      /\ inbox' = Sent(StepMessages(near, ends))
      /\ link' = link /\ UNCHANGED client
  BY StepSends
<1>2. q.type = "state" /\ q.match = srv.match /\ q.tick = srv.tick + 1
      /\ o.type = "over" /\ o.last = srv.tick + 1
  BY DEF StateMsg, OverMsg
<1>3. inbox \in Seq(Message)
  BY DEF Typed, TypeOK
<1>4. StepMessages(near, ends) = IF ends THEN <<q, o>> ELSE <<q>>
  BY DEF StepMessages
<1>5. link => /\ inbox # <<>> => Follows(Last(inbox), q)
              /\ inbox = <<>> => Ready(q)
  BY StateContinues
<1> HIDE DEF q, o
<1>6. CASE ~link
  <2>1. inbox' = <<>> /\ ~link'
    BY <1>1, <1>6 DEF Sent, Typed
  <2> QED
    BY <2>1 DEF Chain, Linked
<1>7. CASE link
  <2> DEFINE s == Append(inbox, q)
  <2>1. /\ Linked(s) /\ s # <<>> /\ Last(s) = q
        /\ Head(s) = IF inbox = <<>> THEN q ELSE Head(inbox)
    BY <1>1, <1>3, <1>5, <1>7, LinkedAppend DEF Chain
  <2>2. s \in Seq(Message) /\ inbox \o <<q>> = s /\ inbox \o <<q, o>> = Append(s, o)
    BY <1>1, <1>3, OneOrTwo
  <2> HIDE DEF s
  <2>3. CASE ends
    <3>1. inbox' = Append(s, o)
      BY <1>1, <1>4, <1>7, <2>2, <2>3 DEF Sent
    <3>2. s # <<>> => Follows(Last(s), o)
      BY <1>2, <2>1 DEF Follows
    <3>3. Linked(inbox') /\ inbox' # <<>> /\ Head(inbox') = Head(s)
      BY <1>1, <2>1, <2>2, <3>1, <3>2, LinkedAppend
    <3>4. Head(inbox') = IF inbox = <<>> THEN q ELSE Head(inbox)
      BY <2>1, <3>3
    <3>5. Ready(Head(inbox))'
      BY <1>1, <1>5, <1>7, <3>4, ReadyStays
    <3>6. ~srv'.running
      BY <1>1, <2>3
    <3> QED
      BY <3>3, <3>5, <3>6 DEF Chain
  <2>4. CASE ~ends
    <3>1. inbox' = s
      BY <1>1, <1>4, <1>7, <2>2, <2>4 DEF Sent
    <3>2. Ready(Head(inbox))'
      BY <1>1, <1>5, <1>7, <2>1, <3>1, ReadyStays
    <3>3. IsLatest(Last(inbox))'
      BY <1>1, <1>2, <2>1, <3>1 DEF IsLatest
    <3> QED
      BY <2>1, <3>1, <3>2, <3>3 DEF Chain
  <2> QED
    BY <2>3, <2>4
<1> QED
  BY <1>6, <1>7

LEMMA ChainReconnect == Typed /\ Chain /\ Reconnect => Chain'
<1> SUFFICES ASSUME Typed, Chain, Reconnect PROVE Chain'
  OBVIOUS
<1>1. link' = TRUE /\ inbox' = Reconnected /\ srv' = srv
  BY DEF Reconnect
<1>2. CASE ~srv.running
  <2>1. inbox' = <<>> /\ ~srv'.running
    BY <1>1, <1>2 DEF Reconnected
  <2> QED
    BY <2>1 DEF Chain, Linked
<1>3. CASE srv.running
  <2> DEFINE m == srv.match
             t == srv.tick
             p == InitMsg(m, t)
             q == StateNow(m, t)
  <2>1. srv.tick + 1 \in Tick /\ m \in Match /\ t \in Tick
    BY <1>3, Matches DEF Typed, TypeOK, Tick
  <2>2. p.type = "init" /\ p.match = m /\ p.items = Course[m][t]
        /\ q.type = "state" /\ q.match = m /\ q.tick = t
    BY DEF InitMsg, StateNow
  <2>3. Applied(p.items, q) = Course[m][t]
    BY <2>1, <2>2, Differences
  <2>4. inbox' = <<p, q>>
    BY <1>1, <1>3 DEF Reconnected
  <2> HIDE DEF p, q, m, t
  <2>5. Follows(p, q)
    BY <2>2, <2>3 DEF Follows
  <2>6. Linked(inbox')
    <3>1. Len(inbox') = 2 /\ inbox'[1] = p /\ inbox'[2] = q
      BY <2>4
    <3>2. \A i \in 2..Len(inbox') : i = 2
      BY <3>1
    <3> QED
      BY <2>5, <3>1, <3>2 DEF Linked
  <2>7. inbox' # <<>> /\ Head(inbox') = p /\ Last(inbox') = q
    BY <2>4 DEF Last
  <2>8. Ready(Head(inbox))'
    BY <2>2, <2>7 DEF Ready
  <2>9. IsLatest(Last(inbox))'
    BY <1>1, <2>2, <2>7 DEF IsLatest, m, t
  <2> QED
    BY <2>6, <2>7, <2>8, <2>9 DEF Chain
<1> QED
  BY <1>2, <1>3

\* The client has read a message: what is left, and what must hold of the rest.
LEMMA ChainReads ==
  ASSUME Typed, Chain, inbox # <<>>, inbox' = Tail(inbox), UNCHANGED <<srv, link>>,
         inbox' # <<>> /\ Follows(Head(inbox), Head(inbox')) => Ready(Head(inbox))',
         srv.running /\ IsLatest(Head(inbox)) => UpToDate'
  PROVE  Chain'
<1>1. /\ Linked(Tail(inbox))
      /\ Tail(inbox) # <<>> => /\ Follows(Head(inbox), Head(Tail(inbox)))
                               /\ Last(Tail(inbox)) = Last(inbox)
      /\ Tail(inbox) = <<>> => Last(inbox) = Head(inbox)
  <2>1. inbox \in Seq(Message)
    BY DEF Typed, TypeOK
  <2> QED
    BY <2>1, LinkedTail DEF Chain
<1>2. link' /\ srv'.running => IsLatest(Last(inbox))
  BY DEF Chain
<1>3. inbox' # <<>> => Ready(Head(inbox))'
  BY <1>1
<1>4. IsLatest(Last(inbox)) /\ inbox' # <<>> => IsLatest(Last(inbox))'
  BY <1>1 DEF IsLatest
<1>5. IsLatest(Last(inbox)) /\ srv.running /\ inbox' = <<>> => UpToDate'
  BY <1>1
<1> QED
  BY <1>1, <1>2, <1>3, <1>4, <1>5 DEF Chain

\* A client that has opened the match.
LEMMA ChainReceiveInit ==
  ASSUME Typed, Chain, ReceiveInit
  PROVE  Chain'
<1> DEFINE q == Head(inbox)
<1>1. inbox # <<>> /\ q.type = "init"
  BY DEF ReceiveInit, Arrives
<1>2. q \in Message /\ q.match \in Match
  BY <1>1, Reading, MessageParts
<1>3. /\ world' = q.match /\ seed' = q.match /\ items' = q.items
      /\ rec' = <<>> /\ playback' = None /\ panel' = FALSE
      /\ inbox' = Tail(inbox) /\ UNCHANGED <<srv, link, latest, file>>
  BY DEF ReceiveInit
<1>4. Kept' = q.items /\ KeptWorld' = q.match /\ seed' # None
  BY <1>2, <1>3, NoneAssumption DEF Kept, KeptWorld
<1> HIDE DEF q
<1>5. ASSUME Follows(q, Head(inbox')) PROVE Ready(Head(inbox))'
  BY <1>1, <1>3, <1>4, <1>5 DEF Follows, Ready
<1>6. ASSUME IsLatest(q) PROVE UpToDate'
  BY <1>1, <1>3, <1>4, <1>6 DEF IsLatest, UpToDate
<1> QED
  BY <1>1, <1>3, <1>5, <1>6, ChainReads DEF q

\* What a state message makes of the board and the record of its match.
LEMMA StateTaken ==
  ASSUME Typed, Chain, RecordIsOrdered, ReceiveState, ~eclipsed'
  PROVE  LET q == Head(inbox) IN
         /\ q.type = "state" /\ q.match \in Match /\ q.tick \in Tick
         /\ playback' = None /\ seed' = q.match /\ world' = q.match
         /\ snap' = [match |-> q.match, tick |-> q.tick]
         /\ items' = Course[q.match][q.tick]
         /\ rec' # <<>> /\ Last(rec').tick <= q.tick
         /\ OfMatch(rec', seed') /\ InOrder(rec')
         /\ inbox' = Tail(inbox) /\ UNCHANGED <<srv, link, latest>>
<1> DEFINE q == Head(inbox)
           f == [match |-> q.match, tick |-> q.tick, items |-> Applied(items, q)]
<1>1. inbox # <<>> /\ q.type = "state"
  BY DEF ReceiveState, Arrives
<1>2. q.match \in Match /\ q.tick \in Tick
  BY <1>1, Reading, MessageParts
<1>3. playback = None /\ ~eclipsed
  BY Eclipses
<1>4. /\ seed = q.match /\ world = q.match
      /\ Applied(items, q) = Course[q.match][q.tick]
      /\ rec # <<>> => Last(rec).tick < q.tick
  BY <1>1, <1>3 DEF Chain, Ready, Kept, KeptWorld
<1>5. /\ snap' = [match |-> q.match, tick |-> q.tick]
      /\ items' = Applied(items, q)
      /\ rec' = Recorded(rec, [match |-> q.match, tick |-> q.tick], Applied(items, q))
      /\ inbox' = Tail(inbox)
      /\ UNCHANGED <<srv, link, world, seed, latest, playback, saved, panel, file>>
  BY <1>3 DEF ReceiveState
<1>6. playback' = None /\ seed' = q.match /\ world' = q.match
  BY <1>4, <1>3, <1>5
<1>7. rec \in Seq(Frame) /\ OfMatch(rec, seed) /\ InOrder(rec)
  BY <1>3 DEF Typed, TypeOK, RecordIsOrdered
<1>8. f \in Frame /\ f.match = seed /\ f.tick = q.tick /\ f.items = Course[seed][f.tick]
  <2>1. Course[q.match][q.tick] \in SUBSET Item
    BY <1>2, Matches
  <2> QED
    BY <1>2, <1>4, <2>1 DEF Frame
<1>9. rec' = Append(rec, f) \/ (rec # <<>> /\ rec' = rec)
  BY <1>5 DEF Recorded
<1> HIDE DEF f, q
<1>10. CASE rec' = Append(rec, f)
  <2>1. rec # <<>> => Last(rec).tick < f.tick
    BY <1>4, <1>8
  <2>2. InOrder(Append(rec, f)) /\ Last(Append(rec, f)) = f
    BY <1>7, <1>8, <2>1, OrderAppend
  <2>3. OfMatch(Append(rec, f), seed)
    BY <1>7, <1>8, OfMatchAppend
  <2>4. rec' # <<>> /\ seed' = seed
    BY <1>4, <1>6, <1>7, <1>8, <1>10
  <2>5. f.tick <= q.tick
    BY <1>2, <1>8, Matches DEF Tick
  <2> QED
    BY <1>1, <1>2, <1>4, <1>5, <1>6, <1>8, <1>10, <2>2, <2>3, <2>4, <2>5 DEF q
<1>11. CASE rec # <<>> /\ rec' = rec
  <2>1. Last(rec).tick \in Int
    <3>1. Last(rec) \in Frame
      BY <1>7, <1>11 DEF Last
    <3> QED
      BY <3>1, Matches DEF Frame, Tick
  <2>2. Last(rec').tick <= q.tick
    BY <1>2, <1>4, <1>11, <2>1, Matches DEF Tick
  <2>3. seed' = seed
    BY <1>4, <1>6
  <2> QED
    BY <1>1, <1>2, <1>4, <1>5, <1>6, <1>7, <1>11, <2>2, <2>3 DEF q
<1> QED
  BY <1>9, <1>10, <1>11

LEMMA ChainReceiveState ==
  ASSUME Typed, Chain, RecordIsOrdered, ReceiveState
  PROVE  Chain'
<1> DEFINE q == Head(inbox)
<1>1. inbox # <<>> /\ inbox' = Tail(inbox) /\ UNCHANGED <<srv, link>>
  BY DEF ReceiveState, Arrives
<1>2. CASE eclipsed'
  <2>1. Ready(Head(inbox))' /\ UpToDate'
    BY <1>2 DEF Ready, UpToDate
  <2> QED
    BY <1>1, <2>1, ChainReads
<1> SUFFICES ASSUME ~eclipsed' PROVE Chain'
  BY <1>2
<1>3. /\ q.type = "state" /\ q.match \in Match /\ q.tick \in Tick
      /\ playback' = None /\ seed' = q.match /\ world' = q.match
      /\ snap' = [match |-> q.match, tick |-> q.tick]
      /\ items' = Course[q.match][q.tick]
      /\ rec' # <<>> /\ Last(rec').tick <= q.tick
      /\ inbox' = Tail(inbox) /\ srv' = srv /\ link' = link
  BY StateTaken
<1>4. KeptWorld' = world' /\ KeptSnap' = snap' /\ Kept' = items'
  BY <1>3 DEF Kept, KeptWorld, KeptSnap
<1>5. Last(rec').tick \in Int /\ q.tick \in Int
  <2>1. rec' \in Seq(Frame)
    BY TypedReceiveState DEF Typed, TypeOK
  <2>2. Last(rec') \in Frame
    BY <1>3, <2>1 DEF Last
  <2> QED
    BY <1>3, <2>2, Matches DEF Frame, Tick
<1>6. seed' # None /\ snap' # None
  <2>1. snap' \in Snapshot
    BY <1>3 DEF Snapshot
  <2> QED
    BY <1>3, <2>1, NoneAssumption
<1>7. ASSUME inbox' # <<>>, Follows(q, Head(inbox')) PROVE Ready(Head(inbox))'
  <2> DEFINE r == Head(inbox')
  <2>1. r \in Message
    <3>1. inbox' \in Seq(Message)
      BY <1>3, <1>1, Reading
    <3> QED
      BY <1>7, <3>1
  <2>2. r.type = "state" => r.tick \in Int
    BY <2>1, MessageParts, Matches DEF Tick
  <2>3. /\ r.type = "state" => /\ q.match = r.match /\ q.tick < r.tick
                               /\ Applied(Course[r.match][q.tick], r) = Course[r.match][r.tick]
        /\ r.type = "over" => q.tick = r.last
    BY <1>3, <1>7 DEF Follows
  <2> HIDE DEF q
  <2>4. ASSUME r.type = "state"
        PROVE  /\ seed' = r.match /\ KeptWorld' = r.match
               /\ Applied(Kept', r) = Course[r.match][r.tick]
               /\ Last(rec').tick < r.tick
    <3> HIDE DEF r
    <3>1. Last(rec').tick <= q.tick /\ q.tick < r.tick /\ r.tick \in Int
      BY <1>3, <2>2, <2>3, <2>4
    <3>2. Last(rec').tick < r.tick
      BY <1>5, <3>1
    <3>3. q.match = r.match /\ Applied(Course[r.match][q.tick], r) = Course[r.match][r.tick]
      BY <2>3, <2>4
    <3> QED
      BY <1>3, <1>4, <3>2, <3>3
  <2>5. ASSUME r.type = "over"
        PROVE  /\ KeptWorld' = seed'
               /\ KeptSnap' # None /\ KeptSnap' = [match |-> seed', tick |-> r.last]
               /\ Kept' = Course[seed'][r.last]
               /\ rec' # <<>> /\ Last(rec').tick <= r.last
    BY <1>3, <1>6, <1>4, <2>3, <2>5
  <2> QED
    BY <1>6, <2>4, <2>5 DEF Ready
<1>8. ASSUME IsLatest(q) PROVE UpToDate'
  <2>1. q.match = srv.match /\ q.tick = srv.tick
    BY <1>3, <1>8 DEF IsLatest
  <2> HIDE DEF q
  <2> QED
    BY <1>3, <1>6, <1>4, <2>1 DEF UpToDate
<1> QED
  BY <1>3, <1>1, <1>7, <1>8, ChainReads DEF q

LEMMA ChainReceiveOver ==
  ASSUME Typed, Chain, ReceiveOver
  PROVE  Chain'
<1> DEFINE q == Head(inbox)
<1>1. inbox # <<>> /\ q.type = "over"
  BY DEF ReceiveOver, Arrives
<1>2. inbox' = Tail(inbox) /\ UNCHANGED <<srv, link>>
  BY DEF ReceiveOver
<1>3. ASSUME inbox' # <<>>, Follows(q, Head(inbox')) PROVE Ready(Head(inbox))'
  BY <1>1, <1>3 DEF Follows, Ready
<1>4. ~IsLatest(q)
  BY <1>1 DEF IsLatest
<1> QED
  BY <1>1, <1>2, <1>3, <1>4, ChainReads DEF q

LEMMA ChainStep ==
  ASSUME Typed, Chain, RecordIsOrdered, [Next]_vars
  PROVE  Chain'
<1>1. CASE Start
  BY <1>1, ChainStart
<1>2. ASSUME NEW near \in SUBSET Item, NEW ends \in BOOLEAN, Step(near, ends) PROVE Chain'
  BY <1>2, ChainServerStep
<1>3. CASE Cut
  <2>1. inbox' = <<>> /\ ~link'
    BY <1>3 DEF Cut
  <2> QED
    BY <2>1 DEF Chain, Linked
<1>4. CASE Reconnect
  BY <1>4, ChainReconnect
<1>5. CASE ReceiveInit
  BY <1>5, ChainReceiveInit
<1>6. CASE ReceiveState
  BY <1>6, ChainReceiveState
<1>7. CASE ReceiveOver
  BY <1>7, ChainReceiveOver
<1>8. ASSUME \/ OpenLatest \/ FileIsRead \/ FileIsRefused \/ CloseReplay \/ TogglePlaying
             \/ CloseResult \/ UNCHANGED vars
             \/ \E log \in Files : ChooseFile(log)
             \/ \E delta \in 1..2 : Advance(delta)
             \/ \E cursor \in Tick : Seek(cursor)
      PROVE  Chain'
  BY <1>8, UserKeeps, ChainUser
<1> QED
  BY <1>1, <1>2, <1>3, <1>4, <1>5, <1>6, <1>7, <1>8 DEF Next

LEMMA RecordSame ==
  ASSUME RecordIsOrdered, rec' = rec, seed' = seed, eclipsed' = eclipsed
  PROVE  RecordIsOrdered'
BY DEF RecordIsOrdered, OfMatch, InOrder

\* What finalizeReplayLog makes of the record of a match that is over.
LEMMA OverTaken ==
  ASSUME Typed, Chain, RecordIsOrdered, ReceiveOver, ~eclipsed'
  PROVE  /\ seed' = seed /\ rec' \in Seq(Frame) /\ rec' # <<>>
         /\ OfMatch(rec', seed) /\ InOrder(rec')
         /\ latest' = [match |-> seed, world |-> seed, last |-> Last(rec').tick,
                       frames |-> rec']
<1> DEFINE q == Head(inbox)
           f == [match |-> snap.match, tick |-> snap.tick, items |-> items]
<1>1. inbox # <<>> /\ q.type = "over"
  BY DEF ReceiveOver, Arrives
<1>2. q.last \in Tick
  BY <1>1, Reading, MessageParts
<1>3. playback = None /\ ~eclipsed
  BY Eclipses
<1>4. /\ seed # None /\ world = seed
      /\ snap # None /\ snap = [match |-> seed, tick |-> q.last]
      /\ items = Course[seed][q.last]
      /\ rec # <<>> /\ Last(rec).tick <= q.last
  BY <1>1, <1>3 DEF Chain, Ready, Kept, KeptWorld, KeptSnap
<1>5. seed \in Match /\ rec \in Seq(Frame) /\ OfMatch(rec, seed) /\ InOrder(rec)
  BY <1>4, <1>3 DEF Typed, TypeOK, RecordIsOrdered
<1>6. snap # None
  BY <1>4
<1>7. /\ rec' = FinalFrames /\ seed' = seed
      /\ latest' = [match |-> seed, world |-> world, last |-> q.last, frames |-> rec']
  BY <1>4, <1>5, NoneAssumption DEF ReceiveOver
<1> HIDE DEF q
<1>8. CASE Last(rec).tick = q.last
  <2>1. rec' = rec
    BY <1>4, <1>7, <1>8 DEF FinalFrames
  <2> QED
    BY <1>4, <1>5, <1>7, <1>8, <2>1
<1>9. CASE Last(rec).tick # q.last
  <2>1. f \in Frame /\ f.match = seed /\ f.tick = q.last /\ f.items = Course[seed][f.tick]
    <3>1. Course[seed][q.last] \in SUBSET Item
      BY <1>2, <1>5, Matches
    <3> QED
      BY <1>2, <1>4, <1>5, <3>1 DEF Frame
  <2>2. rec' = Append(rec, f)
    BY <1>4, <1>6, <1>7, <1>9 DEF FinalFrames
  <2>3. Last(rec) \in Frame
    BY <1>4, <1>5 DEF Last
  <2>4. Last(rec).tick < f.tick
    BY <1>2, <1>4, <1>9, <2>1, <2>3, Matches DEF Frame, Tick
  <2> HIDE DEF f
  <2>5. InOrder(rec') /\ Last(rec') = f
    BY <1>5, <2>1, <2>2, <2>4, OrderAppend
  <2>6. OfMatch(rec', seed)
    BY <1>5, <2>1, <2>2, OfMatchAppend
  <2>7. rec' \in Seq(Frame) /\ rec' # <<>>
    BY <1>5, <2>1, <2>2
  <2> QED
    BY <1>4, <1>7, <2>1, <2>5, <2>6, <2>7
<1> QED
  BY <1>8, <1>9

LEMMA RecordStep ==
  ASSUME Typed, Chain, RecordIsOrdered, [Next]_vars
  PROVE  RecordIsOrdered'
<1>1. CASE ReceiveInit
  BY <1>1 DEF ReceiveInit, RecordIsOrdered, OfMatch, InOrder
<1>2. CASE ReceiveState
  BY <1>2, StateTaken DEF RecordIsOrdered
<1>3. CASE ReceiveOver
  <2>1. ~eclipsed' => seed' = seed /\ OfMatch(rec', seed) /\ InOrder(rec')
    BY <1>3, OverTaken
  <2> QED
    BY <2>1 DEF RecordIsOrdered, OfMatch
<1>4. CASE rec' = rec /\ seed' = seed /\ eclipsed' = eclipsed
  BY <1>4, RecordSame
<1>5. \/ ReceiveInit \/ ReceiveState \/ ReceiveOver
      \/ rec' = rec /\ seed' = seed /\ eclipsed' = eclipsed
  BY DEF Next, vars, Start, Step, Cut, Reconnect, OpenLatest, ChooseFile, FileIsRead,
         FileIsRefused, CloseReplay, Advance, TogglePlaying, Seek, CloseResult, board
<1> QED
  BY <1>1, <1>2, <1>3, <1>4, <1>5

\* What a step may make of the replay log.
Saves == latest' # latest => latest' = None \/ latest' \in Files \/ Whole(latest') \/ eclipsed'

LEMMA LogStep ==
  ASSUME Typed, Chain, RecordIsOrdered, [Next]_vars
  PROVE  Saves
<1>1. CASE ReceiveOver
  <2> SUFFICES ASSUME ~eclipsed' PROVE Whole(latest')
    BY DEF Saves
  <2>1. /\ rec' \in Seq(Frame) /\ rec' # <<>> /\ OfMatch(rec', seed) /\ InOrder(rec')
        /\ latest' = [match |-> seed, world |-> seed, last |-> Last(rec').tick,
                      frames |-> rec']
    BY <1>1, OverTaken
  <2>2. /\ latest'.match = seed /\ latest'.world = seed
        /\ latest'.last = Last(rec').tick /\ latest'.frames = rec'
    BY <2>1
  <2> QED
    BY <2>1, <2>2 DEF Whole, OfMatch
<1>2. CASE FileIsRead
  <2>1. file \in Files /\ Parsed(file) # None
    BY <1>2 DEF Typed, TypeOK, FileIsRead
  <2>2. latest' \in Files
    BY <1>2, <2>1, ParsedIsLog DEF FileIsRead
  <2> QED
    BY <2>2 DEF Saves
<1>3. CASE latest' = latest
  BY <1>3 DEF Saves
<1>4. ReceiveOver \/ FileIsRead \/ latest' = latest
  BY DEF Next, vars, Start, Step, Cut, Reconnect, ReceiveInit, ReceiveState, OpenLatest,
         ChooseFile, FileIsRefused, CloseReplay, Advance, TogglePlaying, Seek, CloseResult
<1> QED
  BY <1>1, <1>2, <1>3, <1>4

LEMMA FollowingInit == Init => Following
BY DEF Init, Following, Chain, Linked, RecordIsOrdered, OfMatch, InOrder

LEMMA FollowingStep ==
  ASSUME Typed, Following, [Next]_vars
  PROVE  Following'
BY ChainStep, RecordStep DEF Following

\* What is saved as the replay of a match is that match, frame by frame to its end,
\* whatever connections broke, whatever was open before the match and whenever a
\* file was read, if no message of the match was handled behind a replay
\* (recordReplayFrame, finalizeReplayLog).
THEOREM LogsCorrect == Spec => LogIsWhole
<1>1. Spec => []Typed
  BY TypedInit, TypedStep, PTL DEF Spec
<1>2. Typed /\ Following /\ [Next]_vars => Following'
  BY FollowingStep
<1>3. Typed /\ Following /\ [Next]_vars =>
        [latest' # latest => latest' = None \/ latest' \in Files \/ Whole(latest') \/ eclipsed']_vars
  BY LogStep DEF Following, Saves
<1> QED
  BY <1>1, <1>2, <1>3, FollowingInit, PTL DEF Spec, LogIsWhole

-----------------------------------------------------------------------------
(* The board of the client.                                                *)

LEMMA HasInitAppend ==
  ASSUME NEW T, NEW s \in Seq(T), NEW m \in T, m.type # "init"
  PROVE  HasInit(Append(s, m)) <=> HasInit(s)
<1> DEFINE t == Append(s, m)
<1>1. Len(s) \in Nat /\ DOMAIN s = 1..Len(s) /\ DOMAIN t = 1..(Len(s) + 1)
      /\ t[Len(s) + 1] = m /\ \A i \in 1..Len(s) : t[i] = s[i]
  OBVIOUS
<1> HIDE DEF t
<1>2. HasInit(t) <=> HasInit(s)
  BY <1>1 DEF HasInit
<1> QED
  BY <1>2 DEF t

LEMMA HasInitTail ==
  ASSUME NEW T, NEW s \in Seq(T), s # <<>>
  PROVE  HasInit(s) <=> Head(s).type = "init" \/ HasInit(Tail(s))
<1> DEFINE t == Tail(s)
<1>1. Len(t) \in Nat /\ DOMAIN s = 1..(Len(t) + 1) /\ DOMAIN t = 1..Len(t)
      /\ Head(s) = s[1] /\ \A i \in 1..Len(t) : t[i] = s[i + 1]
  OBVIOUS
<1> HIDE DEF t
<1>2. ASSUME HasInit(s) PROVE Head(s).type = "init" \/ HasInit(t)
  <2>1. PICK i \in 1..(Len(t) + 1) : s[i].type = "init"
    BY <1>1, <1>2 DEF HasInit
  <2>2. CASE i = 1
    BY <1>1, <2>1, <2>2
  <2>3. CASE i # 1
    <3>1. i - 1 \in 1..Len(t) /\ t[i - 1] = s[(i - 1) + 1] /\ (i - 1) + 1 = i
      BY <1>1, <2>1, <2>3
    <3> QED
      BY <1>1, <2>1, <3>1 DEF HasInit
  <2> QED
    BY <2>2, <2>3
<1>3. ASSUME Head(s).type = "init" \/ HasInit(t) PROVE HasInit(s)
  <2>1. CASE Head(s).type = "init"
    BY <1>1, <2>1 DEF HasInit
  <2>2. ASSUME NEW i \in 1..Len(t), t[i].type = "init" PROVE HasInit(s)
    <3>1. i + 1 \in DOMAIN s /\ s[i + 1].type = "init"
      BY <1>1, <2>2
    <3> QED
      BY <3>1 DEF HasInit
  <2> QED
    BY <1>1, <1>3, <2>1, <2>2 DEF HasInit
<1> QED
  BY <1>2, <1>3 DEF t

\* Steps of the user.
LEMMA MirrorsUser ==
  ASSUME MirrorsMatch, UNCHANGED user, Kept' = Kept
  PROVE  MirrorsMatch'
BY DEF MirrorsMatch, user, After, Taken, Applied

LEMMA MirrorsStart == Typed /\ Start => MirrorsMatch'
<1> SUFFICES ASSUME Typed, Start, link PROVE After(Kept', inbox') = Course[srv'.match][srv'.tick]
  BY DEF MirrorsMatch, Start
<1> DEFINE m == srv.match + 1
           q == InitMsg(m, 0)
<1>1. m \in Match /\ 0 \in Tick
  BY Matches DEF Typed, TypeOK, Start, Tick
<1>2. srv'.match = m /\ srv'.tick = 0 /\ inbox' = Sent(<<q>>) /\ Kept' = Kept
  BY DEF Start, Kept
<1>3. q \in Message /\ q.type = "init" /\ q.items = Course[m][0]
  BY <1>1, Messages DEF InitMsg
<1>4. inbox \in Seq(Message)
  BY DEF Typed, TypeOK
<1> HIDE DEF q, m
<1>5. inbox' = Append(inbox, q)
  BY <1>2, <1>3, <1>4, OneOrTwo DEF Sent
<1>6. After(Kept, Append(inbox, q)) = Taken(After(Kept, inbox), q)
  BY <1>3, <1>4, AfterAppend
<1> QED
  BY <1>2, <1>3, <1>5, <1>6 DEF Taken

LEMMA MirrorsServerStep ==
  ASSUME Typed, MirrorsMatch, NEW near \in SUBSET Item, NEW ends \in BOOLEAN, Step(near, ends)
  PROVE  MirrorsMatch'
<1> DEFINE m == srv.match
           t == srv.tick
           q == StateMsg(m, t + 1, near)
<1>1. /\ srv' = [match |-> m, tick |-> t + 1, running |-> ~ends]
      /\ m \in Match /\ t \in Tick /\ t + 1 \in Tick
      /\ q \in Message /\ srv.running
      /\ inbox' = Sent(StepMessages(near, ends)) /\ link' = link /\ UNCHANGED client
  BY StepSends
<1>2. Kept' = Kept /\ eclipsed' = eclipsed
  BY <1>1 DEF Kept, client
<1>3. CASE ends \/ ~link
  <2>1. ~(link' /\ srv'.running)
    BY <1>1, <1>3
  <2> QED
    BY <2>1 DEF MirrorsMatch
<1>4. CASE ~ends /\ link
  <2>1. inbox \in Seq(Message)
    BY DEF Typed, TypeOK
  <2>2. StepMessages(near, ends) = <<q>>
    BY <1>4 DEF StepMessages
  <2>3. q.type = "state" /\ Applied(Course[m][t], q) = Course[m][t + 1]
    BY <1>1, Differences DEF StateMsg
  <2>4. After(Kept, inbox) = Course[m][t] \/ (eclipsed /\ ~HasInit(inbox))
    BY <1>1, <1>4 DEF MirrorsMatch, HasInit
  <2> HIDE DEF q, m, t
  <2>5. inbox' = Append(inbox, q)
    BY <1>1, <1>4, <2>1, <2>2, OneOrTwo DEF Sent
  <2>6. After(Kept, Append(inbox, q)) = Taken(After(Kept, inbox), q)
    BY <1>1, <2>1, AfterAppend
  <2>7. HasInit(inbox') <=> HasInit(inbox)
    BY <1>1, <2>1, <2>3, <2>5, HasInitAppend
  <2>8. After(Kept', inbox') = Course[m][t + 1] \/ (eclipsed' /\ ~HasInit(inbox'))
    BY <1>2, <2>3, <2>4, <2>5, <2>6, <2>7 DEF Taken
  <2>9. srv'.match = m /\ srv'.tick = t + 1
    BY <1>1
  <2> QED
    BY <2>8, <2>9 DEF MirrorsMatch, HasInit
<1> QED
  BY <1>3, <1>4

LEMMA AfterTwo ==
  ASSUME NEW on, NEW p \in Message, NEW q \in Message
  PROVE  After(on, <<p, q>>) = Taken(Taken(on, p), q)
<1> DEFINE s == <<p, q>>
           f == Run(on, s)
<1>1. s \in Seq(Message) /\ Len(s) = 2 /\ s[1] = p /\ s[2] = q
  OBVIOUS
<1> HIDE DEF s
<1>2. /\ f[0] = on /\ \A i \in 1..Len(s) : f[i] = Taken(f[i - 1], s[i])
      /\ After(on, s) = f[Len(s)]
  BY <1>1, RunSteps
<1> HIDE DEF f
<1>3. f[1] = Taken(on, p) /\ f[2] = Taken(f[1], q)
  BY <1>1, <1>2
<1> QED
  BY <1>1, <1>2, <1>3 DEF s

LEMMA MirrorsReconnect == Typed /\ Reconnect => MirrorsMatch'
<1> SUFFICES ASSUME Typed, Reconnect, srv.running
             PROVE  After(Kept', inbox') = Course[srv.match][srv.tick]
  BY DEF MirrorsMatch, Reconnect
<1> DEFINE m == srv.match
           t == srv.tick
           p == InitMsg(m, t)
           q == StateNow(m, t)
<1>1. m \in Match /\ t \in Tick /\ t + 1 \in Tick
  BY Matches DEF Typed, TypeOK, Tick
<1>2. p \in Message /\ q \in Message
  BY <1>1, Messages
<1>3. p.type = "init" /\ p.items = Course[m][t] /\ q.type = "state"
  BY DEF InitMsg, StateNow
<1>4. Applied(Course[m][t], q) = Course[m][t]
  BY <1>1, Differences
<1>5. inbox' = <<p, q>>
  BY DEF Reconnect, Reconnected
<1> HIDE DEF p, q, m, t
<1>6. After(Kept', <<p, q>>) = Taken(Taken(Kept', p), q)
  BY <1>2, AfterTwo
<1>7. After(Kept', inbox') = Course[m][t]
  BY <1>3, <1>4, <1>5, <1>6 DEF Taken
<1> QED
  BY <1>7 DEF m, t

\* A message that is read is taken, or makes no difference, or is hidden.
LEMMA MirrorsRead ==
  ASSUME Typed, MirrorsMatch, inbox # <<>>, inbox' = Tail(inbox), UNCHANGED <<srv, link>>,
         Kept' = Taken(Kept, Head(inbox)) \/ HasInit(Tail(inbox)) \/ eclipsed',
         Head(inbox).type # "init" => (eclipsed => eclipsed')
  PROVE  MirrorsMatch'
<1> SUFFICES ASSUME link, srv.running
             PROVE  \/ After(Kept', Tail(inbox)) = Course[srv.match][srv.tick]
                    \/ eclipsed' /\ ~HasInit(Tail(inbox))
  BY DEF MirrorsMatch, HasInit
<1>1. inbox \in Seq(Message) /\ Tail(inbox) \in Seq(Message)
  BY Reading DEF Typed, TypeOK
<1>2. After(Kept, inbox) = After(Taken(Kept, Head(inbox)), Tail(inbox))
  BY <1>1, AfterHead
<1>3. HasInit(Tail(inbox)) =>
        After(Kept', Tail(inbox)) = After(Taken(Kept, Head(inbox)), Tail(inbox))
  BY <1>1, AfterInit
<1>4. HasInit(inbox) <=> Head(inbox).type = "init" \/ HasInit(Tail(inbox))
  BY <1>1, HasInitTail
<1>5. After(Kept, inbox) = Course[srv.match][srv.tick] \/ (eclipsed /\ ~HasInit(inbox))
  BY DEF MirrorsMatch, HasInit
<1> QED
  BY <1>2, <1>3, <1>4, <1>5

LEMMA MirrorsReceiveInit == Typed /\ MirrorsMatch /\ ReceiveInit => MirrorsMatch'
<1> SUFFICES ASSUME Typed, MirrorsMatch, ReceiveInit PROVE MirrorsMatch'
  OBVIOUS
<1>1. inbox # <<>> /\ Head(inbox).type = "init"
      /\ inbox' = Tail(inbox) /\ UNCHANGED <<srv, link>>
  BY DEF ReceiveInit, Arrives
<1>2. Kept' = Taken(Kept, Head(inbox))
  BY DEF ReceiveInit, Arrives, Kept, Taken
<1> QED
  BY <1>1, <1>2, MirrorsRead

LEMMA MirrorsReceiveState == Typed /\ MirrorsMatch /\ ReceiveState => MirrorsMatch'
<1> SUFFICES ASSUME Typed, MirrorsMatch, ReceiveState PROVE MirrorsMatch'
  OBVIOUS
<1>1. inbox # <<>> /\ Head(inbox).type = "state"
      /\ inbox' = Tail(inbox) /\ UNCHANGED <<srv, link>>
  BY DEF ReceiveState, Arrives
<1>2. eclipsed' <=> eclipsed \/ playback # None
  BY Eclipses
<1>3. playback = None => Kept' = Taken(Kept, Head(inbox))
  BY <1>1 DEF ReceiveState, Kept, Taken
<1> QED
  BY <1>1, <1>2, <1>3, MirrorsRead

LEMMA MirrorsReceiveOver == Typed /\ MirrorsMatch /\ ReceiveOver => MirrorsMatch'
<1> SUFFICES ASSUME Typed, MirrorsMatch, ReceiveOver PROVE MirrorsMatch'
  OBVIOUS
<1>1. inbox # <<>> /\ Head(inbox).type = "over"
      /\ inbox' = Tail(inbox) /\ UNCHANGED <<srv, link>>
  BY DEF ReceiveOver, Arrives
<1>2. eclipsed' <=> eclipsed \/ playback # None
  BY Eclipses
<1>3. Kept' = Taken(Kept, Head(inbox))
  BY <1>1 DEF ReceiveOver, Kept, Taken
<1> QED
  BY <1>1, <1>2, <1>3, MirrorsRead

LEMMA MirrorsStep ==
  ASSUME Typed, MirrorsMatch, [Next]_vars
  PROVE  MirrorsMatch'
<1>1. CASE Start
  BY <1>1, MirrorsStart
<1>2. ASSUME NEW near \in SUBSET Item, NEW ends \in BOOLEAN, Step(near, ends)
      PROVE  MirrorsMatch'
  BY <1>2, MirrorsServerStep
<1>3. CASE Cut
  BY <1>3 DEF Cut, MirrorsMatch
<1>4. CASE Reconnect
  BY <1>4, MirrorsReconnect
<1>5. CASE ReceiveInit
  BY <1>5, MirrorsReceiveInit
<1>6. CASE ReceiveState
  BY <1>6, MirrorsReceiveState
<1>7. CASE ReceiveOver
  BY <1>7, MirrorsReceiveOver
<1>8. ASSUME \/ OpenLatest \/ FileIsRead \/ FileIsRefused \/ CloseReplay \/ TogglePlaying
             \/ CloseResult \/ UNCHANGED vars
             \/ \E log \in Files : ChooseFile(log)
             \/ \E delta \in 1..2 : Advance(delta)
             \/ \E cursor \in Tick : Seek(cursor)
      PROVE  MirrorsMatch'
  BY <1>8, UserKeeps, MirrorsUser
<1> QED
  BY <1>1, <1>2, <1>3, <1>4, <1>5, <1>6, <1>7, <1>8 DEF Next

\* The differences of the state messages add up to the board of the running match
\* for every client with a connection, whether it was there from the start or came
\* back, whenever files were read and whatever it had open, as long as nothing of
\* the match was handled behind a replay (applyEvent, buildSnapshot); and the next
\* game_init puts right what was.
THEOREM MirrorsCorrect == Spec => []MirrorsMatch
<1>1. Spec => []Typed
  BY TypedInit, TypedStep, PTL DEF Spec
<1>2. Init => MirrorsMatch
  BY DEF Init, MirrorsMatch
<1> QED
  BY <1>1, <1>2, MirrorsStep, PTL DEF Spec

=============================================================================
