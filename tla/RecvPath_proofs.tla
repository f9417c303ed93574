-------------------------- MODULE RecvPath_proofs --------------------------
(***************************************************************************)
(* The receive window is accounted for and the pbuf pool is large enough,  *)
(* for every size of the queue, the window, the pbufs and the pool that    *)
(* fits together as lwipopts.h does, and for segments of every length.     *)
(*                                                                         *)
(* The first part is about Total, the sum of a sequence: what holds of all *)
(* its prefixes is proved by their least counterexample.                   *)
(***************************************************************************)
EXTENDS RecvPath, SequenceTheorems, WellFoundedInduction, TLAPS

\* f is the function of the prefix sums of s.
Sums(f, s) ==
    /\ DOMAIN f = 0..Len(s)
    /\ f[0] = 0
    /\ \A n \in 1..Len(s) : f[n] = f[n - 1] + s[n]

\* What holds of 0, and of n whenever it holds of n - 1, holds up to the end: a
\* set of numbers where it fails has no least element.
LEMMA NoLeastCounterexample ==
    ASSUME NEW N \in Nat, NEW Bad \in SUBSET (0..N), 0 \notin Bad,
           \A n \in 1..N : n \in Bad => n - 1 \in Bad
    PROVE  Bad = {}
<1> DEFINE Less == {ss \in Nat \X Nat : ss[1] < ss[2]}
<1>1. IsWellFoundedOn(Less, Nat)
  BY NatLessThanWellFounded DEF OpToRel
<1>2. SUFFICES ASSUME Bad # {} PROVE FALSE
  OBVIOUS
<1>3. Bad \subseteq Nat
  OBVIOUS
<1>4. PICK n \in Bad : \A k \in Bad : ~ (<<k, n>> \in Less)
  <2> HIDE DEF Less
  <2> QED BY <1>1, <1>2, <1>3, WFMin
<1>5. n \in 1..N /\ n - 1 \in Bad
  OBVIOUS
<1>6. <<n - 1, n>> \in Less
  BY <1>5
<1> QED BY <1>4, <1>5, <1>6

\* Every sequence of numbers has its prefix sums.
LEMMA SumsExist ==
    ASSUME NEW s \in Seq(Nat)
    PROVE  \E f \in [0..Len(s) -> Nat] : Sums(f, s)
<1> DEFINE Upto(k, f) == f[0] = 0 /\ \A n \in 1..k : f[n] = f[n - 1] + s[n]
           Bad == {k \in 0..Len(s) : ~ \E f \in [0..k -> Nat] : Upto(k, f)}
<1>0. Len(s) \in Nat
  OBVIOUS
<1>1. 0 \notin Bad
  <2>1. [n \in 0..0 |-> 0] \in [0..0 -> Nat] /\ Upto(0, [n \in 0..0 |-> 0])
    OBVIOUS
  <2> QED BY <2>1
<1>2. ASSUME NEW n \in 1..Len(s), n - 1 \notin Bad PROVE n \notin Bad
  <2>0. n - 1 \in 0..Len(s)
    BY <1>0
  <2>1. PICK f \in [0..(n - 1) -> Nat] : Upto(n - 1, f)
    <3> HIDE DEF Upto
    <3> QED BY <1>2, <2>0
  <2> DEFINE g == [k \in 0..n |-> IF k = n THEN f[n - 1] + s[n] ELSE f[k]]
  <2>2. s[n] \in Nat /\ n - 1 \in 0..(n - 1)
    BY <1>0
  <2>3. g \in [0..n -> Nat]
    BY <1>0, <2>2
  <2>4. g[0] = 0
    BY <1>0, <2>1
  <2>5. ASSUME NEW k \in 1..n PROVE g[k] = g[k - 1] + s[k]
    BY <1>0, <2>1
  <2> QED BY <2>3, <2>4, <2>5
<1>3. Bad = {}
  <2>1. Bad \in SUBSET (0..Len(s)) /\ \A n \in 1..Len(s) : n \in Bad => n - 1 \in Bad
    BY <1>2
  <2> HIDE DEF Bad
  <2> QED BY <1>0, <1>1, <2>1, NoLeastCounterexample
<1>4. PICK f \in [0..Len(s) -> Nat] : Upto(Len(s), f)
  <2>1. Len(s) \in 0..Len(s)
    BY <1>0
  <2>2. Len(s) \notin Bad
    <3> HIDE DEF Bad
    <3> QED BY <1>3
  <2> HIDE DEF Upto
  <2> QED BY <2>1, <2>2
<1> QED BY <1>4 DEF Sums

\* A sequence has only one function of prefix sums.
LEMMA SumsUnique ==
    ASSUME NEW s \in Seq(Nat), NEW f, NEW g, Sums(f, s), Sums(g, s)
    PROVE  f[Len(s)] = g[Len(s)]
<1> DEFINE Bad == {k \in 0..Len(s) : f[k] # g[k]}
<1>0. Len(s) \in Nat
  OBVIOUS
<1>1. Bad \in SUBSET (0..Len(s)) /\ 0 \notin Bad
  BY DEF Sums
<1>2. \A n \in 1..Len(s) : n \in Bad => n - 1 \in Bad
  BY <1>0 DEF Sums
<1>3. Bad = {}
  <2> HIDE DEF Bad
  <2> QED BY <1>0, <1>1, <1>2, NoLeastCounterexample
<1> QED BY <1>0, <1>3

\* Total is the last of the prefix sums.
LEMMA TotalIsLastSum ==
    ASSUME NEW s \in Seq(Nat), NEW f, Sums(f, s)
    PROVE  Total(s) = f[Len(s)]
<1> DEFINE Rec(u) == [n \in 0..Len(s) |-> IF n = 0 THEN 0 ELSE u[n - 1] + s[n]]
           upTo == CHOOSE u : u = Rec(u)
<1>0. Len(s) \in Nat
  OBVIOUS
<1>1. Total(s) = upTo[Len(s)]
  BY DEF Total
<1>2. PICK g \in [0..Len(s) -> Nat] : Sums(g, s)
  BY SumsExist
<1>3. g = Rec(g)
  BY <1>0, <1>2 DEF Sums
<1>4. upTo = Rec(upTo)
  <2> HIDE DEF Rec
  <2> QED BY <1>3
<1>5. Sums(upTo, s)
  <2> HIDE DEF upTo
  <2>1. DOMAIN upTo = 0..Len(s) /\ DOMAIN Rec(upTo) = 0..Len(s)
    BY <1>4
  <2>2. ASSUME NEW n \in 0..Len(s)
        PROVE  upTo[n] = IF n = 0 THEN 0 ELSE upTo[n - 1] + s[n]
    <3>1. Rec(upTo)[n] = IF n = 0 THEN 0 ELSE upTo[n - 1] + s[n]
      OBVIOUS
    <3> HIDE DEF Rec
    <3> QED BY <1>4, <3>1
  <2>3. upTo[0] = 0
    BY <1>0, <2>2
  <2>4. \A n \in 1..Len(s) : n \in 0..Len(s) /\ n # 0
    BY <1>0
  <2> QED BY <2>1, <2>2, <2>3, <2>4 DEF Sums
<1> HIDE DEF upTo
<1> QED BY <1>1, <1>5, SumsUnique

\* The sum of a sequence is a number.
LEMMA TotalType ==
    ASSUME NEW s \in Seq(Nat)
    PROVE  Total(s) \in Nat
<1>1. PICK f \in [0..Len(s) -> Nat] : Sums(f, s)
  BY SumsExist
<1>2. Total(s) = f[Len(s)]
  BY <1>1, TotalIsLastSum
<1> QED BY <1>2

\* Nothing sums up to 0, and so do zeros.
LEMMA TotalZeros ==
    ASSUME NEW s \in Seq(Nat), \A i \in 1..Len(s) : s[i] = 0
    PROVE  Total(s) = 0
<1> DEFINE f == [n \in 0..Len(s) |-> 0]
<1>0. Len(s) \in Nat
  OBVIOUS
<1>1. Sums(f, s) /\ f[Len(s)] = 0
  BY <1>0 DEF Sums
<1> HIDE DEF f
<1> QED BY <1>1, TotalIsLastSum

\* A number added at the end.
LEMMA TotalAppend ==
    ASSUME NEW s \in Seq(Nat), NEW e \in Nat
    PROVE  Total(Append(s, e)) = Total(s) + e
<1>0. PICK N \in Nat : N = Len(s)
  <2> WITNESS Len(s) \in Nat
  <2> QED OBVIOUS
<1>1. PICK f \in [0..N -> Nat] : Sums(f, s)
  BY <1>0, SumsExist
<1> DEFINE t == Append(s, e)
           g == [n \in 0..(N + 1) |-> IF n = N + 1 THEN f[N] + e ELSE f[n]]
<1>2. /\ t \in Seq(Nat) /\ Len(t) = N + 1 /\ t[N + 1] = e
      /\ \A n \in 1..N : t[n] = s[n]
  BY <1>0
<1> HIDE DEF t
<1>3. ASSUME NEW n \in 1..(N + 1) PROVE g[n] = g[n - 1] + t[n]
  <2>1. CASE n = N + 1
    BY <1>2, <2>1
  <2>2. CASE n # N + 1
    <3>1. n \in 1..N /\ n - 1 \in 0..N
      BY <2>2
    <3> QED BY <1>0, <1>1, <1>2, <3>1 DEF Sums
  <2> QED BY <2>1, <2>2
<1>4. Sums(g, t) /\ g[Len(t)] = f[N] + e
  <2>1. g[0] = 0
    BY <1>1 DEF Sums
  <2>2. DOMAIN g = 0..Len(t) /\ g[Len(t)] = f[N] + e
    BY <1>2
  <2> HIDE DEF g
  <2> QED BY <1>2, <1>3, <2>1, <2>2 DEF Sums
<1> HIDE DEF g
<1>5. Total(t) = f[N] + e
  BY <1>2, <1>4, TotalIsLastSum
<1>6. Total(s) = f[N]
  BY <1>0, <1>1, TotalIsLastSum
<1> QED BY <1>5, <1>6 DEF t

\* The first number taken away.
LEMMA TotalTail ==
    ASSUME NEW s \in Seq(Nat), s # <<>>
    PROVE  Total(s) = Head(s) + Total(Tail(s))
<1>0. PICK N \in Nat : N + 1 = Len(s)
  <2>1. Len(s) - 1 \in Nat /\ Len(s) - 1 + 1 = Len(s)
    OBVIOUS
  <2> QED BY <2>1
<1>1. PICK f \in [0..(N + 1) -> Nat] : Sums(f, s)
  BY <1>0, SumsExist
<1>h. PICK h \in Nat : h = Head(s)
  BY <1>0
<1> DEFINE t == Tail(s)
           g == [n \in 0..N |-> f[n + 1] - h]
<1>2. /\ t \in Seq(Nat) /\ Len(t) = N /\ Head(s) = s[1] /\ s[1] \in Nat
      /\ \A n \in 1..N : t[n] = s[n + 1]
  <2>1. Head(s) = s[1] /\ s[1] \in Nat
    OBVIOUS
  <2> QED BY <1>0, <2>1, HeadTailProperties
<1> HIDE DEF t
<1>3. ASSUME NEW n \in 1..N PROVE g[n] = g[n - 1] + t[n]
  <2>1. /\ n \in 0..N /\ n - 1 \in 0..N /\ n + 1 \in 1..(N + 1)
        /\ n - 1 + 1 = n /\ n + 1 - 1 = n
    OBVIOUS
  <2>2. f[n + 1] = f[n] + s[n + 1]
    <3>1. \A k \in 1..(N + 1) : f[k] = f[k - 1] + s[k]
      BY <1>0, <1>1 DEF Sums
    <3>2. PICK k \in 1..(N + 1) : k = n + 1 /\ k - 1 = n
      BY <2>1
    <3>3. f[k] = f[k - 1] + s[k]
      BY <3>1
    <3> QED BY <3>2, <3>3
  <2>3. f[n + 1] \in Nat /\ f[n] \in Nat /\ s[n + 1] \in Nat
    BY <1>0, <2>1
  <2>4. g[n] = f[n + 1] - h /\ g[n - 1] = f[n] - h
    BY <2>1
  <2>5. t[n] = s[n + 1]
    BY <1>2
  <2>6. f[n + 1] - h = (f[n] - h) + s[n + 1]
    <3>1. PICK x \in Nat, y \in Nat, z \in Nat :
             x = f[n + 1] /\ y = f[n] /\ z = s[n + 1]
      BY <2>3
    <3>2. x = y + z
      BY <2>2, <3>1
    <3>3. x - h = (y - h) + z
      BY <3>2
    <3> QED BY <3>1, <3>3
  <2> HIDE DEF g
  <2> QED BY <2>4, <2>5, <2>6
<1>4. f[1] = h
  <2>1. 1 \in 1..(N + 1) /\ 1 - 1 = 0
    OBVIOUS
  <2>2. f[1] = f[0] + s[1] /\ f[0] = 0
    BY <1>0, <1>1, <2>1 DEF Sums
  <2> QED BY <1>h, <1>2, <2>2
<1>5. Sums(g, t) /\ g[Len(t)] = f[N + 1] - h
  <2>1. g[0] = 0
    BY <1>2, <1>4
  <2>2. DOMAIN g = 0..Len(t) /\ g[Len(t)] = f[N + 1] - h
    BY <1>2
  <2> HIDE DEF g
  <2> QED BY <1>2, <1>3, <2>1, <2>2 DEF Sums
<1> HIDE DEF g
<1>6. Total(t) = f[N + 1] - h
  BY <1>2, <1>5, TotalIsLastSum
<1>7. Total(s) = f[N + 1]
  BY <1>0, <1>1, TotalIsLastSum
<1>8. f[N + 1] \in Nat
  OBVIOUS
<1> QED BY <1>h, <1>6, <1>7, <1>8 DEF t

\* Multiplication by a number.
LEMMA TimesSum ==
    ASSUME NEW r \in Nat, NEW x \in Nat, NEW y \in Nat
    PROVE  r * x \in Nat /\ r * (x + y) = r * x + r * y
OBVIOUS

\* Two bounds of the kind below add up.
LEMMA BoundStep ==
    ASSUME NEW r \in Nat, NEW c \in Nat, NEW n \in Nat, NEW x \in Nat, NEW y \in Nat,
           NEW u \in Nat, NEW v \in Nat,
           r * x <= u + n * c, r * y <= v + c
    PROVE  r * (x + y) <= (u + v) + (n + 1) * c
<1>1. r * (x + y) = r * x + r * y /\ r * x \in Nat /\ r * y \in Nat
  BY TimesSum
<1>2. (n + 1) * c = n * c + c /\ n * c \in Nat
  OBVIOUS
<1> QED BY <1>1, <1>2

\* A bound on every number is a bound on the sum: r times each p is at most b + c.
LEMMA TotalBound ==
    ASSUME NEW p \in Seq(Nat), NEW b \in Seq(Nat), Len(p) = Len(b),
           NEW r \in Nat, NEW c \in Nat,
           \A i \in 1..Len(p) : r * p[i] <= b[i] + c
    PROVE  r * Total(p) <= Total(b) + Len(p) * c
<1>0. PICK N \in Nat : N = Len(p)
  <2> WITNESS Len(p) \in Nat
  <2> QED OBVIOUS
<1>1. PICK f \in [0..N -> Nat] : Sums(f, p)
  BY <1>0, SumsExist
<1>2. PICK g \in [0..N -> Nat] : Sums(g, b)
  BY <1>0, SumsExist
<1> DEFINE Bad == {n \in 0..N : ~ (r * f[n] <= g[n] + n * c)}
<1>3. 0 \notin Bad
  BY <1>1, <1>2 DEF Sums
<1>4. ASSUME NEW n \in 1..N, n - 1 \notin Bad PROVE n \notin Bad
  <2>1. /\ n \in 0..N /\ n - 1 \in 0..N
        /\ f[n] = f[n - 1] + p[n] /\ g[n] = g[n - 1] + b[n]
    BY <1>0, <1>1, <1>2 DEF Sums
  <2>2. f[n - 1] \in Nat /\ g[n - 1] \in Nat /\ p[n] \in Nat /\ b[n] \in Nat
    <3>1. f[n - 1] \in Nat /\ g[n - 1] \in Nat
      BY <2>1
    <3>2. p[n] \in Nat
      BY <1>0
    <3>3. b[n] \in Nat
      BY <1>0
    <3> QED BY <3>1, <3>2, <3>3
  <2>3. r * f[n - 1] <= g[n - 1] + (n - 1) * c /\ r * p[n] <= b[n] + c
    BY <1>0, <1>4, <2>1
  <2>4. n - 1 \in Nat /\ n - 1 + 1 = n
    OBVIOUS
  <2>5. r * (f[n - 1] + p[n]) <= (g[n - 1] + b[n]) + (n - 1 + 1) * c
    BY <2>2, <2>3, <2>4, BoundStep
  <2> QED BY <2>1, <2>4, <2>5
<1>5. Bad = {}
  <2>1. Bad \in SUBSET (0..N) /\ \A n \in 1..N : n \in Bad => n - 1 \in Bad
    BY <1>4
  <2> HIDE DEF Bad
  <2> QED BY <1>3, <2>1, NoLeastCounterexample
<1>6. r * f[N] <= g[N] + N * c
  <2>1. N \in 0..N /\ ~ (N \in Bad)
    <3> HIDE DEF Bad
    <3> QED BY <1>5
  <2> QED BY <2>1
<1>7. Total(p) = f[N] /\ Total(b) = g[N]
  BY <1>0, <1>1, <1>2, TotalIsLastSum
<1> QED BY <1>0, <1>6, <1>7

-----------------------------------------------------------------------------
(* Chains in the queue, measured.                                          *)

\* The measures of the chains of q, in their order.
Measured(m, q) == [i \in DOMAIN q |-> m[q[i]]]

\* The pbufs of a chain, its bytes if it came on the connection that is up, and
\* whether it came on an earlier one.
PartsOf == [s \in Chain |-> s.parts]
UnreadOf == [s \in Chain |-> IF s.current THEN s.tot ELSE 0]
StaleOf == [s \in Chain |-> IF s.current THEN 0 ELSE 1]

\* Measures are numbers.
LEMMA MeasuredType ==
    ASSUME NEW m \in [Chain -> Nat], NEW q \in Seq(Chain)
    PROVE  /\ Measured(m, q) \in Seq(Nat) /\ Len(Measured(m, q)) = Len(q)
           /\ \A i \in 1..Len(q) : Measured(m, q)[i] = m[q[i]]
<1>1. DOMAIN q = 1..Len(q) /\ Len(q) \in Nat /\ \A i \in 1..Len(q) : q[i] \in Chain
  OBVIOUS
<1>2. \A i \in 1..Len(q) : m[q[i]] \in Nat
  BY <1>1
<1> QED BY <1>1, <1>2 DEF Measured

\* Queueing a chain adds its measure.
LEMMA MeasuredAppend ==
    ASSUME NEW m \in [Chain -> Nat], NEW q \in Seq(Chain), NEW s \in Chain
    PROVE  Total(Measured(m, Append(q, s))) = Total(Measured(m, q)) + m[s]
<1> DEFINE new == Measured(m, Append(q, s))
           old == Append(Measured(m, q), m[s])
<1>1. /\ Append(q, s) \in Seq(Chain) /\ Len(Append(q, s)) = Len(q) + 1
      /\ Append(q, s)[Len(q) + 1] = s /\ \A i \in 1..Len(q) : Append(q, s)[i] = q[i]
  OBVIOUS
<1>2. m[s] \in Nat
  OBVIOUS
<1>3. /\ Measured(m, q) \in Seq(Nat) /\ Len(Measured(m, q)) = Len(q)
      /\ \A i \in 1..Len(q) : Measured(m, q)[i] = m[q[i]]
  BY MeasuredType
<1>4. /\ new \in Seq(Nat) /\ Len(new) = Len(q) + 1
      /\ \A i \in 1..(Len(q) + 1) : new[i] = m[Append(q, s)[i]]
  <2>1. PICK r \in Seq(Chain) : r = Append(q, s)
    BY <1>1
  <2>2. /\ Measured(m, r) \in Seq(Nat) /\ Len(Measured(m, r)) = Len(r)
        /\ \A i \in 1..Len(r) : Measured(m, r)[i] = m[r[i]]
    BY MeasuredType
  <2> QED BY <1>1, <2>1, <2>2
<1>5. /\ old \in Seq(Nat) /\ Len(old) = Len(q) + 1
      /\ old[Len(q) + 1] = m[s] /\ \A i \in 1..Len(q) : old[i] = m[q[i]]
  BY <1>2, <1>3
<1>6. \A i \in 1..(Len(q) + 1) : new[i] = old[i]
  <2> HIDE DEF new, old
  <2> SUFFICES ASSUME NEW i \in 1..(Len(q) + 1) PROVE new[i] = old[i]
    OBVIOUS
  <2>1. CASE i = Len(q) + 1
    BY <1>1, <1>4, <1>5, <2>1
  <2>2. CASE i # Len(q) + 1
    <3>1. i \in 1..Len(q)
      BY <2>2
    <3> QED BY <1>1, <1>4, <1>5, <3>1
  <2> QED BY <2>1, <2>2
<1>7. new = old
  <2> HIDE DEF new, old
  <2> QED BY <1>4, <1>5, <1>6, SeqEqual
<1>8. Total(old) = Total(Measured(m, q)) + m[s]
  BY <1>2, <1>3, TotalAppend
<1> QED BY <1>7, <1>8

\* Taking a chain from the queue takes its measure away.
LEMMA MeasuredTail ==
    ASSUME NEW m \in [Chain -> Nat], NEW q \in Seq(Chain), q # <<>>
    PROVE  Total(Measured(m, q)) = m[Head(q)] + Total(Measured(m, Tail(q)))
<1> DEFINE new == Measured(m, Tail(q))
<1>1. /\ Len(q) \in Nat /\ Len(q) >= 1 /\ Head(q) = q[1]
      /\ Tail(q) \in Seq(Chain) /\ Len(Tail(q)) = Len(q) - 1
      /\ \A i \in 1..(Len(q) - 1) : Tail(q)[i] = q[i + 1]
  <2>1. Len(q) \in Nat /\ Len(q) >= 1 /\ Head(q) = q[1]
    OBVIOUS
  <2> QED BY <2>1, HeadTailProperties
<1>2. PICK a \in Seq(Nat) : a = Measured(m, q)
  BY MeasuredType
<1>3. Len(a) = Len(q) /\ \A i \in 1..Len(q) : a[i] = m[q[i]]
  BY <1>2, MeasuredType
<1>4. /\ a # <<>> /\ Head(a) = m[Head(q)]
      /\ Tail(a) \in Seq(Nat) /\ Len(Tail(a)) = Len(q) - 1
      /\ \A i \in 1..(Len(q) - 1) : Tail(a)[i] = a[i + 1]
  <2>1. a # <<>> /\ Head(a) = a[1] /\ a[1] = m[q[1]]
    BY <1>1, <1>3
  <2> QED BY <1>1, <1>3, <2>1, HeadTailProperties
<1>5. /\ new \in Seq(Nat) /\ Len(new) = Len(q) - 1
      /\ \A i \in 1..(Len(q) - 1) : new[i] = m[Tail(q)[i]]
  <2>1. PICK r \in Seq(Chain) : r = Tail(q)
    BY <1>1
  <2>2. /\ Measured(m, r) \in Seq(Nat) /\ Len(Measured(m, r)) = Len(r)
        /\ \A i \in 1..Len(r) : Measured(m, r)[i] = m[r[i]]
    BY MeasuredType
  <2> QED BY <1>1, <2>1, <2>2
<1>6. new = Tail(a)
  <2> HIDE DEF new
  <2>1. ASSUME NEW i \in 1..(Len(q) - 1) PROVE new[i] = Tail(a)[i]
    <3>1. i + 1 \in 1..Len(q)
      BY <1>1
    <3> QED BY <1>1, <1>3, <1>4, <1>5, <3>1
  <2>2. PICK b \in Seq(Nat) : b = Tail(a)
    BY <1>4
  <2> QED BY <1>4, <1>5, <2>1, <2>2, SeqEqual
<1>7. Total(a) = Head(a) + Total(Tail(a))
  BY <1>4, TotalTail
<1> QED BY <1>2, <1>4, <1>6, <1>7

-----------------------------------------------------------------------------
(* The chains, and what the queue and lwIP hold of them.                   *)

\* The smaller of two numbers.
LEMMA MinOfTwo ==
    ASSUME NEW x \in Nat, NEW y \in Nat
    PROVE  Min({x, y}) = IF x <= y THEN x ELSE y
<1>1. CASE x <= y
  <2>1. \A z \in {x, y} : x <= z
    BY <1>1
  <2>2. \A z \in {x, y} : (\A w \in {x, y} : z <= w) => z = x
    BY <1>1
  <2> QED BY <1>1, <2>1, <2>2 DEF Min
<1>2. CASE ~ (x <= y)
  <2>1. \A z \in {x, y} : y <= z
    BY <1>2
  <2>2. \A z \in {x, y} : (\A w \in {x, y} : z <= w) => z = y
    BY <1>2
  <2> QED BY <1>2, <2>1, <2>2 DEF Min
<1> QED BY <1>1, <1>2

\* A chain's bytes, and those of them that net_ReadPacket hands on.
LEMMA ChainFacts ==
    ASSUME NEW s \in Chain
    PROVE  /\ s.tot \in Nat \ {0} /\ s.parts \in Nat /\ s.current \in BOOLEAN
           /\ s.first \in Nat /\ s.first <= FirstLen /\ s.first <= s.tot
<1>1. /\ s.tot \in Nat \ {0} /\ s.parts \in Nat /\ s.current \in BOOLEAN
      /\ s.first \in 1..FirstLen /\ s.first <= s.tot
  BY DEF Chain
<1>2. FirstLen \in Nat
  BY LenAssumption
<1> QED BY <1>1, <1>2

\* The first pbuf of a segment.
LEMMA FirstPartIs ==
    ASSUME NEW n \in Nat
    PROVE  /\ FirstPart(n) = IF n <= FirstLen THEN n ELSE FirstLen
           /\ FirstPart(n) \in Nat /\ FirstPart(n) <= n /\ FirstPart(n) <= FirstLen
<1>1. FirstLen \in Nat
  BY LenAssumption
<1>2. FirstPart(n) = IF n <= FirstLen THEN n ELSE FirstLen
  BY <1>1, MinOfTwo DEF FirstPart
<1> QED BY <1>1, <1>2

\* Rounding up adds less than one.
LEMMA RoundUp ==
    ASSUME NEW x \in Nat, NEW r \in Nat \ {0}
    PROVE  /\ (x + r - 1) \div r \in Nat
           /\ r * ((x + r - 1) \div r) <= x + r - 1
OBVIOUS

\* The pbufs of a segment hold all of its bytes but SlackLen, at most.
LEMMA PartsBound ==
    ASSUME NEW n \in Nat \ {0}
    PROVE  Parts(n) \in Nat /\ RestLen * Parts(n) <= n + SlackLen
<1>1. /\ FirstPart(n) = IF n <= FirstLen THEN n ELSE FirstLen
      /\ FirstLen \in Nat \ {0} /\ RestLen \in Nat \ {0} /\ FirstLen <= RestLen
  BY FirstPartIs, LenAssumption
<1>2. PICK x \in Nat : x = n - FirstPart(n)
  BY <1>1
<1>3. PICK d \in Nat : d = (x + RestLen - 1) \div RestLen /\ RestLen * d <= x + RestLen - 1
  BY <1>1, RoundUp
<1>4. Parts(n) = 1 + d
  BY <1>2, <1>3 DEF Parts
<1>5. RestLen * (1 + d) = RestLen + RestLen * d /\ RestLen * d \in Nat
  BY <1>1, TimesSum
<1>6. CASE n <= FirstLen
  <2>1. x = 0
    BY <1>1, <1>2, <1>6
  <2>2. d = 0
    BY <1>1, <1>3, <2>1
  <2>3. RestLen * Parts(n) = RestLen
    BY <1>1, <1>4, <2>2
  <2> QED BY <1>1, <1>4, <2>2, <2>3 DEF SlackLen
<1>7. CASE ~ (n <= FirstLen)
  <2>1. x = n - FirstLen
    BY <1>1, <1>2, <1>7
  <2>2. RestLen * Parts(n) <= n - FirstLen + RestLen - 1 + RestLen
    BY <1>1, <1>3, <1>4, <1>5, <2>1
  <2> QED BY <1>1, <1>4, <2>2 DEF SlackLen
<1> QED BY <1>6, <1>7

\* The measures are numbers.
LEMMA MeasureTypes ==
    /\ PartsOf \in [Chain -> Nat] /\ UnreadOf \in [Chain -> Nat]
    /\ StaleOf \in [Chain -> Nat]
    /\ SlackLen \in Nat
<1>1. PartsOf \in [Chain -> Nat]
  BY ChainFacts DEF PartsOf
<1>2. UnreadOf \in [Chain -> Nat]
  BY ChainFacts DEF UnreadOf
<1>3. StaleOf \in [Chain -> Nat]
  BY ChainFacts DEF StaleOf
<1>4. SlackLen \in Nat
  BY LenAssumption DEF SlackLen
<1> QED BY <1>1, <1>2, <1>3, <1>4

\* What the queue and lwIP hold, in terms of the measures.
LEMMA HeldIs ==
    /\ PartsHeld = Total(Measured(PartsOf, items))
                     + (IF refused = NULL THEN 0 ELSE PartsOf[refused]) + ooseq.parts
    /\ Unread = Total(Measured(UnreadOf, items))
                  + (IF refused = NULL THEN 0 ELSE UnreadOf[refused])
    /\ Unread' = Total(Measured(UnreadOf, items'))
                  + (IF refused' = NULL THEN 0 ELSE UnreadOf[refused'])
BY DEF PartsHeld, Unread, Held, Measured, PartsOf, UnreadOf

-----------------------------------------------------------------------------
(* The inductive invariant.                                                *)

\* The types of the variables; the queue has a slot less than its array.
RecvTypes ==
    /\ items \in Seq(Chain) /\ Len(items) < NETCLIENT_QUEUE_SIZE
    /\ up \in BOOLEAN
    /\ rcv_wnd \in 0..TCP_WND
    /\ refused \in Chain \cup {NULL}
    /\ ooseq \in [tot : Nat, parts : Nat]
    /\ cut \in Nat /\ dropped \in Nat
    /\ credit \in Nat

\* Without a connection nothing in the queue is of the one that is up, nothing
\* waits in lwIP, and the histories start again.
OnlyOfThisConnection ==
    /\ refused # NULL => up /\ refused.current
    /\ ~up => /\ \A i \in 1..Len(items) : ~items[i].current
              /\ cut = 0 /\ dropped = 0 /\ credit = 0

\* The window is raised once for each chain of an earlier connection, by no more
\* than a first pbuf holds; the chains that wait for it are in the queue.
CreditIsBounded ==
    credit + FirstLen * Total(Measured(StaleOf, items))
        <= FirstLen * (NETCLIENT_QUEUE_SIZE - 1)

RecvInv == RecvTypes /\ OnlyOfThisConnection /\ CreditIsBounded /\ WindowAccountedFor

\* No byte of the connection that is up waits while there is none.
LEMMA NothingUnread ==
    ASSUME RecvInv, ~up
    PROVE  Unread = 0 /\ refused = NULL
<1>1. refused = NULL
  BY DEF RecvInv, OnlyOfThisConnection
<1>2. items \in Seq(Chain) /\ \A i \in 1..Len(items) : ~items[i].current
  BY DEF RecvInv, RecvTypes, OnlyOfThisConnection
<1>3. PICK a \in Seq(Nat) : a = Measured(UnreadOf, items)
  BY <1>2, MeasuredType, MeasureTypes
<1>4. ASSUME NEW i \in 1..Len(a) PROVE a[i] = 0
  <2>1. i \in 1..Len(items) /\ a[i] = UnreadOf[items[i]]
    BY <1>2, <1>3, MeasuredType, MeasureTypes
  <2>2. items[i] \in Chain /\ ~items[i].current
    BY <1>2, <2>1
  <2> QED BY <2>1, <2>2 DEF UnreadOf
<1>5. Total(a) = 0
  BY <1>4, TotalZeros
<1> QED BY <1>1, <1>3, <1>5, HeldIs

\* net_client starts without a connection and with an empty queue.
LEMMA RecvInit == Init => RecvInv
<1> SUFFICES ASSUME Init PROVE RecvInv
  OBVIOUS
<1>1. items = <<>> /\ items \in Seq(Chain) /\ Len(items) = 0
  BY EmptySeq DEF Init
<1>2. RecvTypes
  <2>1. 0 < NETCLIENT_QUEUE_SIZE /\ 0 \in 0..TCP_WND
    BY LenAssumption
  <2> QED BY <1>1, <2>1 DEF Init, RecvTypes, Nothing
<1>3. OnlyOfThisConnection /\ WindowAccountedFor
  BY <1>1 DEF Init, OnlyOfThisConnection, WindowAccountedFor
<1>4. CreditIsBounded
  <2>1. PICK a \in Seq(Nat) : a = Measured(StaleOf, items) /\ Len(a) = 0
    BY <1>1, MeasuredType, MeasureTypes
  <2>2. Total(Measured(StaleOf, items)) = 0
    <3>1. \A i \in 1..Len(a) : a[i] = 0
      BY <2>1
    <3> QED BY <2>1, <3>1, TotalZeros
  <2>3. FirstLen \in Nat /\ NETCLIENT_QUEUE_SIZE - 1 \in Nat
    BY LenAssumption
  <2>4. FirstLen * (NETCLIENT_QUEUE_SIZE - 1) \in Nat /\ FirstLen * 0 = 0
    BY <2>3, TimesSum
  <2> QED BY <2>2, <2>4 DEF Init, CreditIsBounded
<1> QED BY <1>2, <1>3, <1>4 DEF RecvInv

-----------------------------------------------------------------------------
(* Every action keeps it.                                                  *)

\* The sums that the actions change are numbers.
LEMMA SumTypes ==
    ASSUME NEW q \in Seq(Chain)
    PROVE  /\ Total(Measured(UnreadOf, q)) \in Nat
           /\ Total(Measured(StaleOf, q)) \in Nat
           /\ Total(Measured(PartsOf, q)) \in Nat
<1>1. /\ Measured(UnreadOf, q) \in Seq(Nat) /\ Measured(StaleOf, q) \in Seq(Nat)
      /\ Measured(PartsOf, q) \in Seq(Nat)
  BY MeasuredType, MeasureTypes
<1> QED BY <1>1, TotalType

\* net_ReceiveCb takes or refuses a chain of the connection: its bytes are held
\* from then on, and no data of earlier connections moves.
LEMMA ReceiveHolds ==
    ASSUME RecvTypes, NEW s \in Chain, s.current, Receive(s)
    PROVE  /\ items' \in Seq(Chain) /\ Len(items') < NETCLIENT_QUEUE_SIZE
           /\ refused' \in Chain \cup {NULL} /\ (refused' # NULL => refused' = s)
           /\ Unread' = Total(Measured(UnreadOf, items)) + s.tot
           /\ Total(Measured(StaleOf, items')) = Total(Measured(StaleOf, items))
<1>1. /\ items \in Seq(Chain) /\ Len(items) < NETCLIENT_QUEUE_SIZE /\ Len(items) \in Nat
      /\ NETCLIENT_QUEUE_SIZE \in Nat
  BY LenAssumption DEF RecvTypes
<1>2. UnreadOf[s] = s.tot /\ StaleOf[s] = 0
  BY DEF UnreadOf, StaleOf
<1>3. s.tot \in Nat /\ s # NULL
  BY ChainFacts, NullAssumption
<1>4. Total(Measured(UnreadOf, items)) \in Nat /\ Total(Measured(StaleOf, items)) \in Nat
  BY <1>1, SumTypes
<1>5. CASE HasRoom
  <2>1. items' = Append(items, s) /\ refused' = NULL /\ Len(items) < NETCLIENT_QUEUE_SIZE - 1
    BY <1>5 DEF Receive, HasRoom
  <2>2. /\ Total(Measured(UnreadOf, items')) = Total(Measured(UnreadOf, items)) + s.tot
        /\ Total(Measured(StaleOf, items')) = Total(Measured(StaleOf, items)) + 0
    BY <1>1, <1>2, <2>1, MeasuredAppend, MeasureTypes
  <2>3. items' \in Seq(Chain) /\ Len(items') = Len(items) + 1
    BY <1>1, <2>1
  <2>4. Unread' = Total(Measured(UnreadOf, items)) + s.tot
    BY <1>3, <1>4, <2>1, <2>2, HeldIs
  <2> QED BY <1>1, <1>4, <2>1, <2>2, <2>3, <2>4
<1>6. CASE ~HasRoom
  <2>1. items' = items /\ refused' = s
    BY <1>6 DEF Receive
  <2> QED BY <1>1, <1>2, <1>3, <2>1, HeldIs
<1> QED BY <1>5, <1>6

\* A segment, with what it is joined with, moves its length from the window to
\* what is unread.
LEMMA ArriveStep ==
    ASSUME RecvInv, SegmentArrives
    PROVE  RecvInv'
<1>0. RecvTypes
  BY DEF RecvInv
<1>1. PICK n \in SegmentLen, more \in {Nothing, ooseq} :
         /\ up /\ refused = NULL /\ n + more.tot <= rcv_wnd
         /\ Receive(Joined(n, more)) /\ rcv_wnd' = rcv_wnd - (n + more.tot)
         /\ ooseq' = IF more = Nothing THEN ooseq ELSE Nothing
  BY DEF SegmentArrives, Takes, WindowLess
<1>2. UNCHANGED <<up, cut, dropped, credit>>
  BY DEF SegmentArrives
<1>3. /\ n \in Nat \ {0} /\ more.tot \in Nat /\ more.parts \in Nat
      /\ ooseq' \in [tot : Nat, parts : Nat]
  <2>1. n \in 1..TCP_WND /\ TCP_WND \in Nat
    BY LenAssumption
  <2>2. Nothing \in [tot : Nat, parts : Nat] /\ ooseq \in [tot : Nat, parts : Nat]
    BY <1>0 DEF Nothing, RecvTypes
  <2> QED BY <1>1, <2>1, <2>2
<1>4. PICK s \in Chain : s = Joined(n, more) /\ s.tot = n + more.tot /\ s.current
  <2>1. FirstPart(n) \in 1..FirstLen /\ FirstPart(n) <= n /\ FirstLen \in Nat \ {0}
    BY <1>3, FirstPartIs, LenAssumption
  <2>2. Parts(n) + more.parts \in Nat /\ n + more.tot \in Nat \ {0}
    BY <1>3, PartsBound
  <2>3. FirstPart(n) <= n + more.tot
    BY <1>3, <2>1
  <2>4. Joined(n, more) \in Chain
    BY <2>1, <2>2, <2>3 DEF Joined, Chain
  <2> QED BY <2>4 DEF Joined
<1>6. /\ items' \in Seq(Chain) /\ Len(items') < NETCLIENT_QUEUE_SIZE
      /\ refused' \in Chain \cup {NULL} /\ (refused' # NULL => refused' = s)
      /\ Unread' = Total(Measured(UnreadOf, items)) + s.tot
      /\ Total(Measured(StaleOf, items')) = Total(Measured(StaleOf, items))
  BY <1>0, <1>1, <1>4, ReceiveHolds
<1>7. Unread = Total(Measured(UnreadOf, items)) /\ Unread \in Nat
  <2>1. Total(Measured(UnreadOf, items)) \in Nat
    BY <1>0, SumTypes DEF RecvTypes
  <2> QED BY <1>1, <2>1, HeldIs
<1>8. /\ TCP_WND \in Nat /\ rcv_wnd \in 0..TCP_WND
      /\ cut \in Nat /\ dropped \in Nat /\ credit \in Nat
  BY <1>0, LenAssumption DEF RecvTypes
<1>t. PICK t \in Nat : t = n + more.tot /\ t = s.tot
  BY <1>3, <1>4
<1>9. RecvTypes'
  <2>1. rcv_wnd' \in 0..TCP_WND
    BY <1>1, <1>t, <1>8
  <2> QED BY <1>0, <1>2, <1>3, <1>6, <2>1 DEF RecvTypes
<1>10. OnlyOfThisConnection'
  BY <1>1, <1>2, <1>4, <1>6 DEF OnlyOfThisConnection
<1>11. CreditIsBounded'
  BY <1>2, <1>6 DEF RecvInv, CreditIsBounded
<1>12. WindowAccountedFor'
  <2>1. /\ TCP_WND <= rcv_wnd + Unread + cut + dropped
        /\ rcv_wnd + Unread + cut + dropped <= TCP_WND + credit
    BY <1>1 DEF RecvInv, WindowAccountedFor
  <2>2. rcv_wnd' = rcv_wnd - t /\ Unread' = Unread + t
    BY <1>1, <1>t, <1>6, <1>7
  <2>3. rcv_wnd' + Unread' + cut' + dropped' = rcv_wnd + Unread + cut + dropped
    <3>1. \A w, u, c, d \in Nat : (w - t) + (u + t) + c + d = w + u + c + d
      OBVIOUS
    <3> QED BY <1>2, <1>7, <1>8, <2>2, <3>1
  <2> QED BY <1>2, <2>1, <2>3 DEF WindowAccountedFor
<1> QED BY <1>9, <1>10, <1>11, <1>12 DEF RecvInv

\* A segment behind a gap changes neither the queue nor the window.
LEMMA LaterStep ==
    ASSUME RecvInv, LaterArrives
    PROVE  RecvInv'
<1>1. UNCHANGED <<items, up, rcv_wnd, refused, cut, dropped, credit>>
  BY DEF LaterArrives
<1>2. PICK n \in SegmentLen :
         ooseq' = [tot |-> ooseq.tot + n, parts |-> ooseq.parts + Parts(n)]
  BY DEF LaterArrives
<1>3. ooseq' \in [tot : Nat, parts : Nat]
  <2>1. n \in 1..TCP_WND /\ TCP_WND \in Nat
    BY LenAssumption
  <2>2. n \in Nat \ {0} /\ Parts(n) \in Nat
    BY <2>1, PartsBound
  <2>3. ooseq.tot \in Nat /\ ooseq.parts \in Nat
    BY DEF RecvInv, RecvTypes
  <2>4. ooseq.tot + n \in Nat /\ ooseq.parts + Parts(n) \in Nat
    BY <2>2, <2>3
  <2> QED BY <1>2, <2>4
<1>4. Unread' = Unread
  BY <1>1, HeldIs
<1> QED BY <1>1, <1>3, <1>4 DEF RecvInv, RecvTypes, OnlyOfThisConnection, CreditIsBounded,
                               WindowAccountedFor

\* Offered again, a chain goes from lwIP to the queue or stays where it is.
LEMMA RedeliverStep ==
    ASSUME RecvInv, Redeliver
    PROVE  RecvInv'
<1>1. /\ up /\ refused # NULL /\ Receive(refused)
      /\ UNCHANGED <<up, rcv_wnd, ooseq, cut, dropped, credit>>
  BY DEF Redeliver
<1>2. RecvTypes /\ refused \in Chain /\ refused.current
  BY <1>1 DEF RecvInv, RecvTypes, OnlyOfThisConnection
<1>3. /\ items' \in Seq(Chain) /\ Len(items') < NETCLIENT_QUEUE_SIZE
      /\ refused' \in Chain \cup {NULL} /\ (refused' # NULL => refused' = refused)
      /\ Unread' = Total(Measured(UnreadOf, items)) + refused.tot
      /\ Total(Measured(StaleOf, items')) = Total(Measured(StaleOf, items))
  BY <1>1, <1>2, ReceiveHolds
<1>4. Unread' = Unread
  <2>1. UnreadOf[refused] = refused.tot
    BY <1>2 DEF UnreadOf
  <2> QED BY <1>1, <1>3, <2>1, HeldIs
<1>5. RecvTypes'
  BY <1>1, <1>2, <1>3 DEF RecvTypes
<1>6. OnlyOfThisConnection'
  BY <1>1, <1>2, <1>3 DEF OnlyOfThisConnection
<1>7. CreditIsBounded'
  BY <1>1, <1>3 DEF RecvInv, CreditIsBounded
<1>8. WindowAccountedFor'
  BY <1>1, <1>4 DEF RecvInv, WindowAccountedFor
<1> QED BY <1>5, <1>6, <1>7, <1>8 DEF RecvInv

\* Given up, a chain's bytes are no longer unread but dropped.
LEMMA GiveUpStep ==
    ASSUME RecvInv, GiveUp
    PROVE  RecvInv'
<1>1. /\ up /\ refused # NULL /\ refused' = NULL /\ dropped' = dropped + refused.tot
      /\ UNCHANGED <<items, up, rcv_wnd, ooseq, cut, credit>>
  BY DEF GiveUp
<1>2. RecvTypes /\ refused \in Chain /\ refused.current
  BY <1>1 DEF RecvInv, RecvTypes, OnlyOfThisConnection
<1>3. PICK t \in Nat, u \in Nat :
        t = refused.tot /\ u = Total(Measured(UnreadOf, items))
  <2>1. refused.tot \in Nat
    BY <1>2, ChainFacts
  <2>2. Total(Measured(UnreadOf, items)) \in Nat
    BY <1>2, SumTypes DEF RecvTypes
  <2> QED BY <2>1, <2>2
<1>4. Unread = u + t /\ Unread' = u
  <2>1. UnreadOf[refused] = t
    BY <1>2, <1>3 DEF UnreadOf
  <2>2. Unread = u + t
    BY <1>1, <1>3, <2>1, HeldIs
  <2>3. Unread' = u + 0
    BY <1>1, <1>3, HeldIs
  <2> QED BY <1>3, <2>2, <2>3
<1>5. rcv_wnd \in Nat /\ cut \in Nat /\ dropped \in Nat /\ dropped' \in Nat
  BY <1>1, <1>2, <1>3, LenAssumption DEF RecvTypes
<1>6. RecvTypes' /\ OnlyOfThisConnection' /\ CreditIsBounded'
  BY <1>1, <1>2, <1>5 DEF RecvInv, RecvTypes, OnlyOfThisConnection, CreditIsBounded
<1>7. rcv_wnd' + Unread' + cut' + dropped' = rcv_wnd + Unread + cut + dropped
  <2>1. \A w, c, d \in Nat : w + u + c + (d + t) = w + (u + t) + c + d
    OBVIOUS
  <2> QED BY <1>1, <1>3, <1>4, <1>5, <2>1
<1>8. WindowAccountedFor'
  BY <1>1, <1>7 DEF RecvInv, WindowAccountedFor
<1> QED BY <1>6, <1>8 DEF RecvInv

\* The oldest chain leaves the queue, with its bytes.
LEMMA DequeueHolds ==
    ASSUME RecvTypes, items # <<>>, items' = Tail(items), refused' = refused
    PROVE  /\ Head(items) \in Chain /\ Head(items) = items[1] /\ Len(items) >= 1
           /\ items' \in Seq(Chain) /\ Len(items') = Len(items) - 1
           /\ \A i \in 1..Len(items') : i + 1 \in 1..Len(items) /\ items'[i] = items[i + 1]
           /\ Unread = UnreadOf[Head(items)] + Unread'
           /\ Total(Measured(StaleOf, items))
                = StaleOf[Head(items)] + Total(Measured(StaleOf, items'))
<1>1. items \in Seq(Chain) /\ Len(items) \in Nat
  BY DEF RecvTypes
<1>2. Head(items) \in Chain /\ Head(items) = items[1] /\ Len(items) >= 1
  BY <1>1
<1>3. /\ items' \in Seq(Chain) /\ Len(items') = Len(items) - 1
      /\ \A i \in 1..Len(items') : items'[i] = items[i + 1]
  BY <1>1, HeadTailProperties
<1>4. \A i \in 1..Len(items') : i + 1 \in 1..Len(items)
  BY <1>1, <1>2, <1>3
<1>5. /\ Total(Measured(UnreadOf, items))
           = UnreadOf[Head(items)] + Total(Measured(UnreadOf, items'))
      /\ Total(Measured(StaleOf, items))
           = StaleOf[Head(items)] + Total(Measured(StaleOf, items'))
  BY <1>1, MeasuredTail, MeasureTypes
<1>6. Unread = UnreadOf[Head(items)] + Unread'
  <2>1. PICK x \in Nat, y \in Nat, z \in Nat :
          /\ x = UnreadOf[Head(items)] /\ y = Total(Measured(UnreadOf, items'))
          /\ z = IF refused = NULL THEN 0 ELSE UnreadOf[refused]
    <3>1. UnreadOf[Head(items)] \in Nat
      BY <1>2, MeasureTypes
    <3>2. Total(Measured(UnreadOf, items')) \in Nat
      BY <1>3, SumTypes
    <3>3. (IF refused = NULL THEN 0 ELSE UnreadOf[refused]) \in Nat
      BY MeasureTypes DEF RecvTypes
    <3> QED BY <3>1, <3>2, <3>3
  <2>2. Unread' = y + z /\ Unread = (x + y) + z
    BY <1>5, <2>1, HeldIs
  <2>3. (x + y) + z = x + (y + z)
    OBVIOUS
  <2> QED BY <2>1, <2>2, <2>3
<1> QED BY <1>2, <1>3, <1>4, <1>5, <1>6

\* The types of what net_ReadPacket changes.
LEMMA ReadTypes ==
    ASSUME RecvInv, net_ReadPacket
    PROVE  /\ RecvTypes' /\ UNCHANGED <<up, refused, ooseq, dropped>>
           /\ Unread \in Nat /\ Unread' \in Nat
           /\ up => rcv_wnd' = IF rcv_wnd + Head(items).first <= TCP_WND
                               THEN rcv_wnd + Head(items).first ELSE TCP_WND
           /\ ~up => rcv_wnd' = rcv_wnd
           /\ rcv_wnd <= rcv_wnd' /\ rcv_wnd' <= rcv_wnd + Head(items).first
<1>1. /\ items # <<>> /\ items' = Tail(items) /\ UNCHANGED <<up, refused, ooseq, dropped>>
      /\ rcv_wnd' = IF up THEN Min({rcv_wnd + Head(items).first, TCP_WND}) ELSE rcv_wnd
      /\ cut' = cut + (IF Head(items).current THEN Head(items).tot - Head(items).first ELSE 0)
      /\ credit' = credit + (IF Head(items).current THEN 0 ELSE rcv_wnd' - rcv_wnd)
  BY DEF net_ReadPacket, tcp_recved, Acknowledged, Dequeued
<1>2. /\ items \in Seq(Chain) /\ Len(items) < NETCLIENT_QUEUE_SIZE /\ Len(items) \in Nat
      /\ up \in BOOLEAN /\ rcv_wnd \in 0..TCP_WND /\ refused \in Chain \cup {NULL}
      /\ ooseq \in [tot : Nat, parts : Nat]
      /\ cut \in Nat /\ dropped \in Nat /\ credit \in Nat
      /\ TCP_WND \in Nat /\ NETCLIENT_QUEUE_SIZE \in Nat
  BY LenAssumption DEF RecvInv, RecvTypes
<1>3. /\ Head(items) \in Chain /\ items' \in Seq(Chain) /\ Len(items') = Len(items) - 1
  BY <1>1, DequeueHolds DEF RecvInv
<1>4. PICK a \in Nat, n \in Nat :
        /\ a = Head(items).first /\ n = Head(items).tot /\ a <= n
  BY <1>3, ChainFacts
<1>5. up => rcv_wnd' = IF rcv_wnd + a <= TCP_WND THEN rcv_wnd + a ELSE TCP_WND
  <2>1. rcv_wnd + a \in Nat
    BY <1>2
  <2>2. Min({rcv_wnd + a, TCP_WND}) = IF rcv_wnd + a <= TCP_WND THEN rcv_wnd + a ELSE TCP_WND
    BY <1>2, <2>1, MinOfTwo
  <2> QED BY <1>1, <1>4, <2>2
<1>6. ~up => rcv_wnd' = rcv_wnd
  BY <1>1
<1>7. rcv_wnd' \in 0..TCP_WND /\ rcv_wnd <= rcv_wnd' /\ rcv_wnd' <= rcv_wnd + a
  BY <1>2, <1>5, <1>6
<1>8. cut' \in Nat /\ credit' \in Nat
  <2>1. n - a \in Nat /\ rcv_wnd' - rcv_wnd \in Nat
    <3>1. \A x, y \in Nat : x <= y => y - x \in Nat
      OBVIOUS
    <3>2. rcv_wnd \in Nat /\ rcv_wnd' \in Nat
      BY <1>2, <1>7
    <3> QED BY <1>4, <1>7, <3>1, <3>2
  <2>2. cut' = cut + (IF Head(items).current THEN n - a ELSE 0)
    BY <1>1, <1>4
  <2>3. \A x, y \in Nat : x + y \in Nat
    OBVIOUS
  <2>4. cut' \in Nat
    BY <1>2, <2>1, <2>2, <2>3
  <2>5. credit' \in Nat
    BY <1>1, <1>2, <2>1, <2>3
  <2> QED BY <2>4, <2>5
<1>9. Len(items') < NETCLIENT_QUEUE_SIZE
  BY <1>2, <1>3
<1>10. RecvTypes'
  BY <1>1, <1>2, <1>3, <1>7, <1>8, <1>9 DEF RecvTypes
<1>11. Unread \in Nat /\ Unread' \in Nat
  <2>1. Total(Measured(UnreadOf, items)) \in Nat /\ Total(Measured(UnreadOf, items')) \in Nat
    BY <1>2, <1>3, SumTypes
  <2>2. /\ (IF refused = NULL THEN 0 ELSE UnreadOf[refused]) \in Nat
        /\ (IF refused' = NULL THEN 0 ELSE UnreadOf[refused']) \in Nat
    BY <1>1, <1>2, MeasureTypes
  <2> QED BY <2>1, <2>2, HeldIs
<1> QED BY <1>1, <1>4, <1>5, <1>6, <1>7, <1>10, <1>11

\* What net_ReadPacket reads of this connection goes back to the window or, beyond
\* the first pbuf, is counted as cut; what it reads of an earlier one raises it.
LEMMA ReadStep ==
    ASSUME RecvInv, net_ReadPacket
    PROVE  RecvInv'
<1>1. /\ items # <<>> /\ items' = Tail(items) /\ UNCHANGED <<up, refused, ooseq, dropped>>
      /\ cut' = cut + (IF Head(items).current THEN Head(items).tot - Head(items).first ELSE 0)
      /\ credit' = credit + (IF Head(items).current THEN 0 ELSE rcv_wnd' - rcv_wnd)
  BY DEF net_ReadPacket, Dequeued
<1>2. /\ rcv_wnd \in Nat /\ rcv_wnd' \in Nat /\ cut \in Nat /\ credit \in Nat
      /\ dropped \in Nat
      /\ rcv_wnd <= TCP_WND /\ rcv_wnd' <= TCP_WND
      /\ TCP_WND \in Nat /\ FirstLen \in Nat /\ NETCLIENT_QUEUE_SIZE - 1 \in Nat
      /\ Unread \in Nat /\ Unread' \in Nat /\ RecvTypes /\ RecvTypes'
  BY ReadTypes, LenAssumption DEF RecvInv, RecvTypes
<1>3. /\ Head(items) \in Chain /\ Head(items) = items[1] /\ Len(items) >= 1
      /\ items' \in Seq(Chain) /\ items \in Seq(Chain)
      /\ \A i \in 1..Len(items') : i + 1 \in 1..Len(items) /\ items'[i] = items[i + 1]
      /\ Unread = UnreadOf[Head(items)] + Unread'
      /\ Total(Measured(StaleOf, items))
           = StaleOf[Head(items)] + Total(Measured(StaleOf, items'))
  BY <1>1, <1>2, DequeueHolds DEF RecvTypes
<1>4. PICK a \in Nat, n \in Nat :
        a = Head(items).first /\ n = Head(items).tot /\ a <= n /\ a <= FirstLen
  BY <1>3, ChainFacts
<1>5. /\ up => rcv_wnd' = IF rcv_wnd + a <= TCP_WND THEN rcv_wnd + a ELSE TCP_WND
      /\ ~up => rcv_wnd' = rcv_wnd
      /\ rcv_wnd <= rcv_wnd' /\ rcv_wnd' <= rcv_wnd + a
  BY <1>4, ReadTypes
<1>6. PICK k \in Nat : k = Total(Measured(StaleOf, items'))
  BY <1>3, SumTypes
<1>7. credit + FirstLen * Total(Measured(StaleOf, items)) <= FirstLen * (NETCLIENT_QUEUE_SIZE - 1)
  BY DEF RecvInv, CreditIsBounded
<1>8. up => /\ TCP_WND <= rcv_wnd + Unread + cut + dropped
            /\ rcv_wnd + Unread + cut + dropped <= TCP_WND + credit
  BY DEF RecvInv, WindowAccountedFor
<1>9. ASSUME ~up PROVE ~Head(items).current
  <2>1. 1 \in 1..Len(items)
    BY <1>3
  <2> QED BY <1>3, <1>9, <2>1 DEF RecvInv, OnlyOfThisConnection
<1>10. OnlyOfThisConnection'
  <2>1. refused' # NULL => up' /\ refused'.current
    BY <1>1 DEF RecvInv, OnlyOfThisConnection
  <2>2. ASSUME ~up' PROVE /\ \A i \in 1..Len(items') : ~items'[i].current
                          /\ cut' = 0 /\ dropped' = 0 /\ credit' = 0
    <3>1. ~up /\ ~Head(items).current /\ rcv_wnd' = rcv_wnd
      BY <1>1, <1>5, <1>9, <2>2
    <3>2. cut = 0 /\ dropped = 0 /\ credit = 0 /\ \A i \in 1..Len(items) : ~items[i].current
      BY <3>1 DEF RecvInv, OnlyOfThisConnection
    <3>3. cut' = 0 /\ dropped' = 0 /\ credit' = 0
      BY <1>1, <1>2, <3>1, <3>2
    <3> QED BY <1>3, <3>2, <3>3
  <2> QED BY <2>1, <2>2 DEF OnlyOfThisConnection
<1>11. CASE Head(items).current
  <2>1. UnreadOf[Head(items)] = n /\ StaleOf[Head(items)] = 0
    BY <1>3, <1>4, <1>11 DEF UnreadOf, StaleOf
  <2>2. Unread = n + Unread' /\ Total(Measured(StaleOf, items)) = k
    BY <1>3, <1>6, <2>1
  <2>3. cut' = cut + (n - a) /\ credit' = credit
    BY <1>1, <1>2, <1>4, <1>11
  <2>4. CreditIsBounded'
    BY <1>6, <1>7, <2>2, <2>3 DEF CreditIsBounded
  <2>5. up
    BY <1>9, <1>11
  <2>6. /\ TCP_WND <= rcv_wnd' + Unread' + cut' + dropped'
        /\ rcv_wnd' + Unread' + cut' + dropped' <= TCP_WND + credit'
    <3>1. dropped' = dropped
      BY <1>1
    <3> QED BY <1>2, <1>4, <1>5, <1>8, <2>2, <2>3, <2>5, <3>1
  <2>7. WindowAccountedFor'
    BY <2>6 DEF WindowAccountedFor
  <2> QED BY <1>2, <1>10, <2>4, <2>7 DEF RecvInv
<1>12. CASE ~Head(items).current
  <2>1. UnreadOf[Head(items)] = 0 /\ StaleOf[Head(items)] = 1
    BY <1>3, <1>12 DEF UnreadOf, StaleOf
  <2>2. Unread = Unread' /\ Total(Measured(StaleOf, items)) = k + 1
    <3>1. Unread = 0 + Unread' /\ Total(Measured(StaleOf, items)) = 1 + k
      BY <1>3, <1>6, <2>1
    <3>2. 1 + k = k + 1 /\ \A x \in Nat : 0 + x = x
      OBVIOUS
    <3> QED BY <1>2, <3>1, <3>2
  <2>3. cut' = cut /\ credit' = credit + (rcv_wnd' - rcv_wnd)
    BY <1>1, <1>2, <1>12
  <2>4. CreditIsBounded'
    <3>1. FirstLen * (k + 1) = FirstLen * k + FirstLen * 1 /\ FirstLen * k \in Nat
      BY <1>2, TimesSum
    <3>2. FirstLen * 1 = FirstLen /\ FirstLen * (NETCLIENT_QUEUE_SIZE - 1) \in Nat
      BY <1>2, TimesSum
    <3>3. credit' <= credit + FirstLen
      <4>1. \A c, w, v, f \in Nat : w <= v /\ v <= w + a /\ a <= f => c + (v - w) <= c + f
        OBVIOUS
      <4> QED BY <1>2, <1>4, <1>5, <2>3, <4>1
    <3>4. credit + (FirstLen * k + FirstLen) <= FirstLen * (NETCLIENT_QUEUE_SIZE - 1)
      BY <1>7, <2>2, <3>1, <3>2
    <3>5. credit' \in Nat
      BY <1>2 DEF RecvTypes
    <3>6. credit' + FirstLen * k <= FirstLen * (NETCLIENT_QUEUE_SIZE - 1)
      <4>1. \A c, d, x, f, z \in Nat : d <= c + f /\ c + (x + f) <= z => d + x <= z
        OBVIOUS
      <4> QED BY <1>2, <3>1, <3>2, <3>3, <3>4, <3>5, <4>1
    <3> QED BY <1>6, <3>6 DEF CreditIsBounded
  <2>5. ASSUME up PROVE /\ TCP_WND <= rcv_wnd' + Unread' + cut' + dropped'
                        /\ rcv_wnd' + Unread' + cut' + dropped' <= TCP_WND + credit'
    <3>1. \A w, v, u, c, e, d, z \in Nat :
             w <= v /\ z <= w + u + c + e /\ w + u + c + e <= z + d
                => z <= v + u + c + e /\ v + u + c + e <= z + (d + (v - w))
      OBVIOUS
    <3>2. dropped' = dropped
      BY <1>1
    <3> QED BY <1>2, <1>5, <1>8, <2>2, <2>3, <2>5, <3>1, <3>2
  <2>6. WindowAccountedFor'
    BY <1>1, <2>5 DEF WindowAccountedFor
  <2> QED BY <1>2, <1>10, <2>4, <2>6 DEF RecvInv
<1> QED BY <1>11, <1>12

\* When the connection is lost everything in the queue is of an earlier one, and
\* there is no more of it than the queue has room for.
LEMMA LoseStep ==
    ASSUME RecvInv, Lose
    PROVE  RecvInv'
<1>1. /\ up' = FALSE /\ rcv_wnd' = 0 /\ refused' = NULL /\ ooseq' = Nothing
      /\ cut' = 0 /\ dropped' = 0 /\ credit' = 0
      /\ items' = [i \in DOMAIN items |-> [items[i] EXCEPT !.current = FALSE]]
  BY DEF Lose
<1>2. /\ items \in Seq(Chain) /\ Len(items) < NETCLIENT_QUEUE_SIZE /\ Len(items) \in Nat
      /\ TCP_WND \in Nat /\ FirstLen \in Nat /\ NETCLIENT_QUEUE_SIZE \in Nat
      /\ NETCLIENT_QUEUE_SIZE - 1 \in Nat
  BY LenAssumption DEF RecvInv, RecvTypes
<1>3. ASSUME NEW i \in 1..Len(items)
      PROVE  /\ [items[i] EXCEPT !.current = FALSE] \in Chain
             /\ ~[items[i] EXCEPT !.current = FALSE].current
  <2>1. items[i] \in Chain
    BY <1>2
  <2>2. /\ items[i].tot \in Nat \ {0} /\ items[i].first \in 1..FirstLen
        /\ items[i].parts \in Nat /\ items[i].first <= items[i].tot
    BY <2>1 DEF Chain
  <2>3. PICK e : e = [items[i] EXCEPT !.current = FALSE]
    OBVIOUS
  <2>4. /\ e \in [tot : Nat \ {0}, first : 1..FirstLen, parts : Nat, current : BOOLEAN]
        /\ e.first = items[i].first /\ e.tot = items[i].tot /\ e.current = FALSE
    BY <2>1, <2>3 DEF Chain
  <2>5. e \in Chain
    BY <2>2, <2>4 DEF Chain
  <2> QED BY <2>3, <2>4, <2>5
<1>4. /\ items' \in Seq(Chain) /\ Len(items') = Len(items)
      /\ \A i \in 1..Len(items') : ~items'[i].current
  <2>1. DOMAIN items = 1..Len(items)
    BY <1>2
  <2>2. items' \in [1..Len(items) -> Chain]
    BY <1>1, <1>3, <2>1
  <2>3. items' \in Seq(Chain) /\ Len(items') = Len(items)
    BY <1>2, <2>2
  <2> QED BY <1>1, <1>3, <2>1, <2>3
<1>5. RecvTypes'
  <2>1. Len(items') < NETCLIENT_QUEUE_SIZE /\ rcv_wnd' \in 0..TCP_WND
    BY <1>1, <1>2, <1>4
  <2> QED BY <1>1, <1>4, <2>1 DEF RecvTypes, Nothing
<1>6. OnlyOfThisConnection' /\ WindowAccountedFor'
  BY <1>1, <1>4 DEF OnlyOfThisConnection, WindowAccountedFor
<1>7. FirstLen * Total(Measured(StaleOf, items')) <= Len(items) * FirstLen
  <2>1. PICK p \in Seq(Nat), b \in Seq(Nat) :
          p = Measured(StaleOf, items') /\ b = Measured(UnreadOf, items')
    BY <1>4, MeasuredType, MeasureTypes
  <2>2. Len(p) = Len(items) /\ Len(b) = Len(items)
    BY <1>4, <2>1, MeasuredType, MeasureTypes
  <2>3. ASSUME NEW i \in 1..Len(p) PROVE p[i] = 1 /\ b[i] = 0
    <3>1. i \in 1..Len(items') /\ items'[i] \in Chain /\ ~items'[i].current
      BY <1>4, <2>2
    <3>2. p[i] = StaleOf[items'[i]] /\ b[i] = UnreadOf[items'[i]]
      BY <1>4, <2>1, <3>1, MeasuredType, MeasureTypes
    <3> QED BY <3>1, <3>2 DEF StaleOf, UnreadOf
  <2>4. \A i \in 1..Len(p) : FirstLen * p[i] <= b[i] + FirstLen
    BY <1>2, <2>3
  <2>5. FirstLen * Total(p) <= Total(b) + Len(p) * FirstLen
    BY <1>2, <2>2, <2>4, TotalBound
  <2>6. Total(b) = 0
    BY <2>2, <2>3, TotalZeros
  <2>7. Len(items) * FirstLen \in Nat /\ 0 + Len(items) * FirstLen = Len(items) * FirstLen
    BY <1>2, TimesSum
  <2> QED BY <2>1, <2>2, <2>5, <2>6, <2>7
<1>8. CreditIsBounded'
  <2>1. PICK d \in Nat : NETCLIENT_QUEUE_SIZE - 1 = Len(items) + d
    <3>1. NETCLIENT_QUEUE_SIZE - 1 - Len(items) \in Nat
          /\ NETCLIENT_QUEUE_SIZE - 1 = Len(items) + (NETCLIENT_QUEUE_SIZE - 1 - Len(items))
      BY <1>2
    <3> QED BY <3>1
  <2>2. /\ FirstLen * (Len(items) + d) = FirstLen * Len(items) + FirstLen * d
        /\ FirstLen * Len(items) \in Nat /\ FirstLen * d \in Nat
    BY <1>2, TimesSum
  <2>3. Len(items) * FirstLen = FirstLen * Len(items)
    BY <1>2
  <2>4. PICK k \in Nat : k = Total(Measured(StaleOf, items'))
    BY <1>4, SumTypes
  <2>5. FirstLen * k \in Nat
    BY <1>2, TimesSum
  <2>6. 0 + FirstLen * k <= FirstLen * (NETCLIENT_QUEUE_SIZE - 1)
    <3>1. \A x, y, z \in Nat : x <= y => 0 + x <= y + z
      OBVIOUS
    <3> QED BY <1>7, <2>1, <2>2, <2>3, <2>4, <2>5, <3>1
  <2> QED BY <1>1, <2>4, <2>6 DEF CreditIsBounded
<1> QED BY <1>5, <1>6, <1>8 DEF RecvInv

\* A new connection starts with the whole window and with nothing unread of it.
LEMMA ConnectStep ==
    ASSUME RecvInv, net_Connect
    PROVE  RecvInv'
<1>1. /\ ~up /\ up' = TRUE /\ rcv_wnd' = TCP_WND
      /\ UNCHANGED <<items, refused, ooseq, cut, dropped, credit>>
  BY DEF net_Connect
<1>2. Unread = 0 /\ refused = NULL
  BY <1>1, NothingUnread
<1>3. cut = 0 /\ dropped = 0 /\ credit = 0
  BY <1>1 DEF RecvInv, OnlyOfThisConnection
<1>4. Unread' = Unread
  BY <1>1, HeldIs
<1>5. TCP_WND \in Nat
  BY LenAssumption
<1>6. RecvTypes' /\ OnlyOfThisConnection' /\ CreditIsBounded'
  BY <1>1, <1>2, <1>5 DEF RecvInv, RecvTypes, OnlyOfThisConnection, CreditIsBounded
<1>7. WindowAccountedFor'
  <2>1. rcv_wnd' = TCP_WND /\ Unread' = 0 /\ cut' = 0 /\ dropped' = 0 /\ credit' = 0
    BY <1>1, <1>2, <1>3, <1>4
  <2> QED BY <1>5, <2>1 DEF WindowAccountedFor
<1> QED BY <1>6, <1>7 DEF RecvInv

\* Every step keeps the invariant.
LEMMA RecvStep == RecvInv /\ [Next]_vars => RecvInv'
<1> SUFFICES ASSUME RecvInv, [Next]_vars PROVE RecvInv'
  OBVIOUS
<1>1. CASE SegmentArrives
  BY <1>1, ArriveStep
<1>2. CASE Redeliver
  BY <1>2, RedeliverStep
<1>3. CASE net_ReadPacket
  BY <1>3, ReadStep
<1>4. CASE Lose
  BY <1>4, LoseStep
<1>5. CASE net_Connect
  BY <1>5, ConnectStep
<1>6. CASE LaterArrives
  BY <1>6, LaterStep
<1>7. CASE GiveUp
  BY <1>7, GiveUpStep
<1>8. CASE UNCHANGED vars
  <2>1. UNCHANGED <<items, up, rcv_wnd, refused, ooseq, cut, dropped, credit>>
    BY <1>8 DEF vars
  <2>2. Unread' = Unread
    BY <2>1, HeldIs
  <2> QED BY <2>1, <2>2 DEF RecvInv, RecvTypes, OnlyOfThisConnection, CreditIsBounded,
                            WindowAccountedFor
<1> QED BY <1>1, <1>2, <1>3, <1>4, <1>5, <1>6, <1>7, <1>8 DEF Next

\* The invariant holds throughout.
THEOREM RecvInvariant == Spec => []RecvInv
BY RecvInit, RecvStep, PTL DEF Spec

\* No byte of the receive window is lost between lwIP, the queue and net_ReadPacket,
\* and the window exceeds TCP_WND only by what was acknowledged for earlier
\* connections.
THEOREM WindowAccounting == Spec => []WindowAccountedFor
<1>1. RecvInv => WindowAccountedFor
  BY DEF RecvInv
<1> QED BY <1>1, RecvInvariant, PTL

-----------------------------------------------------------------------------
(* The pbuf pool.                                                          *)

\* A product with a smaller factor is smaller.
LEMMA SmallerProduct ==
    ASSUME NEW r \in Nat, NEW x \in Nat, NEW y \in Nat, x <= y
    PROVE  r * x <= r * y
<1>1. PICK d \in Nat : y = x + d
  <2>1. y - x \in Nat /\ y = x + (y - x)
    OBVIOUS
  <2> QED BY <2>1
<1>2. r * (x + d) = r * x + r * d /\ r * x \in Nat /\ r * d \in Nat
  BY TimesSum
<1> QED BY <1>1, <1>2

\* What PoolSuffices is about: all that is held came in order on one connection.
OneConnectionInOrder ==
    /\ ooseq = Nothing
    /\ \A i \in DOMAIN items : items[i].current /\ Compact(items[i])
    /\ refused # NULL => Compact(refused)

\* Segments of one connection that came in order take from the pool at most their
\* share of what is unread, and SlackLen more for each of them.
LEMMA PartsAreBounded ==
    ASSUME RecvInv, OneConnectionInOrder
    PROVE  /\ PartsHeld \in Nat /\ Unread \in Nat
           /\ RestLen * PartsHeld <= Unread + NETCLIENT_QUEUE_SIZE * SlackLen
<1>1. /\ items \in Seq(Chain) /\ Len(items) \in Nat /\ Len(items) < NETCLIENT_QUEUE_SIZE
      /\ refused \in Chain \cup {NULL} /\ (refused # NULL => refused.current)
      /\ RestLen \in Nat /\ NETCLIENT_QUEUE_SIZE \in Nat /\ SlackLen \in Nat
  BY LenAssumption, MeasureTypes DEF RecvInv, RecvTypes, OnlyOfThisConnection
<1>2. PICK p \in Seq(Nat), b \in Seq(Nat) :
        p = Measured(PartsOf, items) /\ b = Measured(UnreadOf, items)
  BY <1>1, MeasuredType, MeasureTypes
<1>3. Len(p) = Len(items) /\ Len(b) = Len(items)
  BY <1>1, <1>2, MeasuredType, MeasureTypes
<1>4. ASSUME NEW s \in Chain, s.current, Compact(s)
      PROVE  /\ PartsOf[s] \in Nat /\ UnreadOf[s] \in Nat
             /\ RestLen * PartsOf[s] <= UnreadOf[s] + SlackLen
  <2>1. PICK k \in Nat, m \in Nat, n \in Nat \ {0} :
          /\ k = s.parts /\ n = s.tot /\ m = Parts(n)
          /\ k <= m /\ RestLen * m <= n + SlackLen
    BY <1>4, PartsBound, ChainFacts DEF Compact
  <2>2. RestLen * k <= RestLen * m
    BY <1>1, <2>1, SmallerProduct
  <2>3. RestLen * k \in Nat /\ RestLen * m \in Nat
    BY <1>1, TimesSum
  <2>4. RestLen * k <= n + SlackLen
    <3>1. \A x, y, z \in Nat : x <= y /\ y <= z => x <= z
      OBVIOUS
    <3>2. n + SlackLen \in Nat
      BY <1>1
    <3> QED BY <2>1, <2>2, <2>3, <3>1, <3>2
  <2> QED BY <1>4, <2>1, <2>4 DEF PartsOf, UnreadOf
<1>5. \A i \in 1..Len(p) : RestLen * p[i] <= b[i] + SlackLen
  <2> SUFFICES ASSUME NEW i \in 1..Len(p) PROVE RestLen * p[i] <= b[i] + SlackLen
    OBVIOUS
  <2>1. i \in 1..Len(items) /\ i \in DOMAIN items
    BY <1>1, <1>3
  <2>2. items[i] \in Chain /\ items[i].current /\ Compact(items[i])
    BY <1>1, <2>1 DEF OneConnectionInOrder
  <2>3. p[i] = PartsOf[items[i]] /\ b[i] = UnreadOf[items[i]]
    BY <1>1, <1>2, <2>1, MeasuredType, MeasureTypes
  <2> QED BY <1>4, <2>2, <2>3
<1>6. RestLen * Total(p) <= Total(b) + Len(items) * SlackLen
  BY <1>1, <1>3, <1>5, TotalBound
<1>7. PICK x \in Nat, u \in Nat : x = Total(p) /\ u = Total(b)
  BY TotalType
<1>8. PICK n \in Nat : n = Len(items)
  BY <1>1
<1>9. PICK y \in Nat, v \in Nat :
        /\ y = IF refused = NULL THEN 0 ELSE PartsOf[refused]
        /\ v = IF refused = NULL THEN 0 ELSE UnreadOf[refused]
        /\ RestLen * y <= v + SlackLen
  <2>1. CASE refused = NULL
    <3>1. RestLen * 0 <= 0 + SlackLen
      BY <1>1
    <3> QED BY <2>1, <3>1
  <2>2. CASE refused # NULL
    BY <1>1, <1>4, <2>2 DEF OneConnectionInOrder
  <2> QED BY <2>1, <2>2
<1>10. RestLen * (x + y) <= (u + v) + (n + 1) * SlackLen
  BY <1>1, <1>6, <1>7, <1>8, <1>9, BoundStep
<1>11. PartsHeld = x + y /\ Unread = u + v
  <2>1. ooseq.parts = 0
    BY DEF OneConnectionInOrder, Nothing
  <2>2. PartsHeld = (x + y) + 0 /\ Unread = u + v
    BY <1>2, <1>7, <1>9, <2>1, HeldIs
  <2> QED BY <1>7, <1>9, <2>2
<1>12. (n + 1) * SlackLen <= NETCLIENT_QUEUE_SIZE * SlackLen
  <2>1. PICK d \in Nat : NETCLIENT_QUEUE_SIZE = (n + 1) + d
    <3>1. /\ NETCLIENT_QUEUE_SIZE - (n + 1) \in Nat
          /\ NETCLIENT_QUEUE_SIZE = (n + 1) + (NETCLIENT_QUEUE_SIZE - (n + 1))
      BY <1>1, <1>8
    <3> QED BY <3>1
  <2>2. /\ SlackLen * ((n + 1) + d) = SlackLen * (n + 1) + SlackLen * d
        /\ SlackLen * (n + 1) \in Nat /\ SlackLen * d \in Nat
    BY <1>1, TimesSum
  <2>3. /\ SlackLen * (n + 1) = (n + 1) * SlackLen
        /\ SlackLen * NETCLIENT_QUEUE_SIZE = NETCLIENT_QUEUE_SIZE * SlackLen
    BY <1>1
  <2>4. \A a, c \in Nat : a <= a + c
    OBVIOUS
  <2> QED BY <2>1, <2>2, <2>3, <2>4
<1>13. PICK A \in Nat, B \in Nat, C \in Nat :
         /\ A = RestLen * (x + y) /\ B = (n + 1) * SlackLen
         /\ C = NETCLIENT_QUEUE_SIZE * SlackLen
  BY <1>1, TimesSum
<1>14. A <= (u + v) + C
  BY <1>10, <1>12, <1>13
<1> QED BY <1>11, <1>13, <1>14

\* A product that is smaller has a smaller factor.
LEMMA SmallerFactor ==
    ASSUME NEW r \in Nat, NEW x \in Nat, NEW y \in Nat, r * x < r * y
    PROVE  x < y
<1> SUFFICES ASSUME y <= x PROVE FALSE
  OBVIOUS
<1>1. PICK d \in Nat : x = y + d
  <2>1. x - y \in Nat /\ x = y + (x - y)
    OBVIOUS
  <2> QED BY <2>1
<1>2. r * (y + d) = r * y + r * d /\ r * y \in Nat /\ r * d \in Nat
  BY TimesSum
<1> QED BY <1>1, <1>2

\* While only segments of one connection that came in order wait there is a pbuf to spare; and room
\* for a full segment more, if no data of an earlier connection raised the window.
LEMMA PoolIsEnough == RecvInv => PoolSuffices
<1> SUFFICES ASSUME RecvInv, OneConnectionInOrder
             PROVE  /\ PartsHeld < PBUF_POOL_SIZE
                    /\ credit = 0 =>
                         \A n \in SegmentLen : PartsHeld + Parts(n) <= PBUF_POOL_SIZE
  BY DEF PoolSuffices, OneConnectionInOrder
<1>1. /\ TCP_WND \in Nat /\ RestLen \in Nat /\ FirstLen \in Nat /\ PBUF_POOL_SIZE \in Nat
      /\ NETCLIENT_QUEUE_SIZE \in Nat /\ NETCLIENT_QUEUE_SIZE - 1 \in Nat /\ SlackLen \in Nat
      /\ rcv_wnd \in Nat /\ cut \in Nat /\ dropped \in Nat /\ credit \in Nat
  BY LenAssumption, MeasureTypes DEF RecvInv, RecvTypes
<1>2. PICK h \in Nat, u \in Nat :
        /\ h = PartsHeld /\ u = Unread
        /\ RestLen * h <= u + NETCLIENT_QUEUE_SIZE * SlackLen
  BY PartsAreBounded
<1>3. u <= TCP_WND + credit
  <2>1. CASE up
    BY <1>1, <1>2, <2>1 DEF RecvInv, WindowAccountedFor
  <2>2. CASE ~up
    BY <1>1, <1>2, <2>2, NothingUnread
  <2> QED BY <2>1, <2>2
<1>4. PICK K \in Nat, C \in Nat, H \in Nat, F \in Nat, P \in Nat :
        /\ K = FirstLen * Total(Measured(StaleOf, items))
        /\ C = NETCLIENT_QUEUE_SIZE * SlackLen /\ H = RestLen * h
        /\ F = FirstLen * (NETCLIENT_QUEUE_SIZE - 1) /\ P = RestLen * PBUF_POOL_SIZE
  <2>1. Total(Measured(StaleOf, items)) \in Nat
    BY SumTypes DEF RecvInv, RecvTypes
  <2> QED BY <1>1, <2>1, TimesSum
<1>5. credit <= F
  <2>1. credit + K <= F
    BY <1>4 DEF RecvInv, CreditIsBounded
  <2> QED BY <1>1, <2>1
<1>6. (NETCLIENT_QUEUE_SIZE - 1) * FirstLen = F
  BY <1>1, <1>4
<1>7. PartsHeld < PBUF_POOL_SIZE
  <2>1. TCP_WND + F + C < P
    BY <1>4, <1>6, PoolAssumption
  <2>2. H <= u + C
    BY <1>2, <1>4
  <2>3. H < P
    BY <1>1, <1>3, <1>5, <2>1, <2>2
  <2> QED BY <1>1, <1>2, <1>4, <2>3, SmallerFactor
<1>8. ASSUME credit = 0, NEW n \in SegmentLen
      PROVE  PartsHeld + Parts(n) <= PBUF_POOL_SIZE
  <2>1. n \in Nat \ {0}
    BY LenAssumption
  <2>2. PICK k \in Nat, m \in Nat :
          k = Parts(n) /\ m = n /\ RestLen * k <= n + SlackLen
    BY <2>1, PartsBound
  <2>3. TCP_WND + C + m + SlackLen < RestLen * (PBUF_POOL_SIZE + 1)
    BY <1>4, <2>2, PoolAssumption
  <2>4. RestLen * (h + k) = RestLen * h + RestLen * k /\ RestLen * k \in Nat
    BY <1>1, TimesSum
  <2>5. PICK D \in Nat, E \in Nat : D = RestLen * (PBUF_POOL_SIZE + 1) /\ E = RestLen * k
    BY <1>1, <2>4, TimesSum
  <2>6. H + E < D
    <3>1. H <= u + C /\ u <= TCP_WND /\ E <= m + SlackLen /\ TCP_WND + C + m + SlackLen < D
      BY <1>1, <1>2, <1>3, <1>4, <1>8, <2>2, <2>3, <2>5
    <3> QED BY <1>1, <3>1
  <2>7. h + k < PBUF_POOL_SIZE + 1
    <3>1. RestLen * (h + k) < RestLen * (PBUF_POOL_SIZE + 1)
      BY <1>4, <2>4, <2>5, <2>6
    <3> QED BY <1>1, <3>1, SmallerFactor
  <2> QED BY <1>1, <1>2, <2>1, <2>2, <2>7
<1> QED BY <1>7, <1>8

\* Segments of one connection that come in order cannot exhaust the pbuf pool,
\* whatever main does.
THEOREM PoolIsSufficient == Spec => []PoolSuffices
BY PoolIsEnough, RecvInvariant, PTL
=============================================================================
