------------------------- MODULE HttpRequestProofs -------------------------
(***************************************************************************)
(* Receiving a request, proved for any requests in any segments and for    *)
(* any buffer size.                                                        *)
(***************************************************************************)
EXTENDS HttpRequest, SequenceTheorems, FiniteSetTheorems, WellFoundedInduction, TLAPS

\* What the thread relies on when it reads: no segment is empty, and what it
\* has read so far neither fills the buffer nor ends in a chunk that the scan
\* accepts.
ReadInv ==
    /\ chunk \in Seq(Bytes) /\ unsent \in Seq(Seq(Bytes))
    /\ \A i \in DOMAIN net : net[i] # <<>>
    /\ outcome = "none" =>
          /\ ~scanForEnd(chunk) /\ Len(buffer) < dataMax
          /\ chunk = <<>> => buffer = <<>>

\* The inductive invariant.
RequestInv ==
    TypeOK /\ ReadInv /\ StopsEarlyOnlyOnBareLineEnd /\ OverrunOnlyWithoutLine

-----------------------------------------------------------------------------
(* Induction, suffixes, and the segments of a read. *)

\* A set of naturals that is not empty has a least element.
LEMMA LeastNat ==
  ASSUME NEW T, T \subseteq Nat, T # {}
  PROVE  \E x \in T : \A y \in T : x <= y
<1>1. IsWellFoundedOn({ss \in Nat \X Nat : ss[1] < ss[2]}, Nat)
  BY NatLessThanWellFounded DEF OpToRel
<1>2. PICK x \in T : \A y \in T : ~ (<<y, x>> \in {ss \in Nat \X Nat : ss[1] < ss[2]})
  BY <1>1, WFMin
<1>3. ASSUME NEW y \in T PROVE x <= y
  <2>1. x \in Nat /\ y \in Nat
    OBVIOUS
  <2>2. ~ (<<y, x>> \in {ss \in Nat \X Nat : ss[1] < ss[2]})
    BY <1>2
  <2>3. <<y, x>> \in Nat \X Nat /\ <<y, x>>[1] = y /\ <<y, x>>[2] = x
    BY <2>1
  <2>4. ~(y < x)
    BY <2>2, <2>3
  <2> QED BY <2>1, <2>4
<1> QED BY <1>3

\* Induction over the naturals, for a set.
LEMMA NatSetInduction ==
  ASSUME NEW S, 0 \in S, \A n \in Nat : n \in S => n + 1 \in S
  PROVE  \A n \in Nat : n \in S
<1> SUFFICES ASSUME NEW m \in Nat, m \notin S PROVE FALSE
  OBVIOUS
<1> DEFINE T == {n \in Nat : n \notin S}
<1>1. PICK x \in T : \A y \in T : x <= y
  <2>1. T \subseteq Nat /\ T # {}
    OBVIOUS
  <2> HIDE DEF T
  <2> QED BY <2>1, LeastNat
<1>2. x # 0 /\ x - 1 \in Nat /\ x - 1 \notin T
  BY <1>1
<1> QED BY <1>2

\* A suffix, element by element.
LEMMA SuffixAt ==
  ASSUME NEW S, NEW s \in Seq(S), NEW t \in Seq(S)
  PROVE  IsSuffix(s, t) <=>
           /\ Len(s) <= Len(t)
           /\ \A i \in 1..Len(s) : s[i] = t[Len(t) - Len(s) + i]
<1> DEFINE p == Reverse(s)
           q == Reverse(t)
<1>1. Len(s) \in Nat /\ Len(t) \in Nat
  OBVIOUS
<1>2. /\ p \in Seq(S) /\ Len(p) = Len(s) /\ \A i \in 1..Len(s) : p[i] = s[Len(s) - i + 1]
  BY <1>1 DEF Reverse
<1>3. /\ q \in Seq(S) /\ Len(q) = Len(t) /\ \A i \in 1..Len(t) : q[i] = t[Len(t) - i + 1]
  BY <1>1 DEF Reverse
<1>4. IsSuffix(s, t) <=> Len(p) <= Len(q) /\ SubSeq(p, 1, Len(p)) = SubSeq(q, 1, Len(p))
  BY DEF IsSuffix, IsPrefix
<1> HIDE DEF p, q
<1>5. ASSUME Len(s) <= Len(t)
      PROVE  SubSeq(p, 1, Len(p)) = SubSeq(q, 1, Len(p)) <=>
                \A i \in 1..Len(s) : p[i] = q[i]
  BY <1>1, <1>2, <1>3, <1>5
<1>6. ASSUME Len(s) <= Len(t)
      PROVE  (\A i \in 1..Len(s) : p[i] = q[i]) <=>
                \A i \in 1..Len(s) : s[i] = t[Len(t) - Len(s) + i]
  <2>1. ASSUME \A i \in 1..Len(s) : p[i] = q[i], NEW i \in 1..Len(s)
        PROVE  s[i] = t[Len(t) - Len(s) + i]
    <3> DEFINE k == Len(s) - i + 1
    <3>1. k \in 1..Len(s) /\ k \in 1..Len(t) /\ Len(s) - k + 1 = i
          /\ Len(t) - k + 1 = Len(t) - Len(s) + i
      BY <1>1, <1>6
    <3> HIDE DEF k
    <3>2. p[k] = s[Len(s) - k + 1] /\ q[k] = t[Len(t) - k + 1] /\ p[k] = q[k]
      BY <1>2, <1>3, <2>1, <3>1
    <3> QED BY <3>1, <3>2
  <2>2. ASSUME \A i \in 1..Len(s) : s[i] = t[Len(t) - Len(s) + i], NEW i \in 1..Len(s)
        PROVE  p[i] = q[i]
    <3> DEFINE k == Len(s) - i + 1
    <3>1. k \in 1..Len(s) /\ i \in 1..Len(t) /\ Len(t) - i + 1 = Len(t) - Len(s) + k
      BY <1>1, <1>6
    <3>2. p[i] = s[k] /\ q[i] = t[Len(t) - i + 1]
      BY <1>2, <1>3, <3>1
    <3> HIDE DEF k
    <3> QED BY <2>2, <3>1, <3>2
  <2> QED BY <2>1, <2>2
<1> QED BY <1>2, <1>3, <1>4, <1>5, <1>6

\* FlattenSeq adds one segment after the other.
LEMMA FlattenSteps ==
  ASSUME NEW S, NEW q \in Seq(Seq(S)), Len(q) >= 1
  PROVE  \E g : /\ g[1] = q[1]
                /\ \A i \in 2..Len(q) : g[i] = g[i - 1] \o q[i]
                /\ \A i \in 1..Len(q) : g[i] \in Seq(S) /\ Len(g[i]) >= Len(q[1])
                /\ FlattenSeq(q) = g[Len(q)]
<1> DEFINE N == Len(q)
           F == CHOOSE f : f = [i \in 1..N |-> IF i = 1 THEN q[i] ELSE f[i - 1] \o q[i]]
           Good(f, n) == \A i \in 1..n : f[i] = IF i = 1 THEN q[i] ELSE f[i - 1] \o q[i]
           E == {n \in Nat : \E f : f = [i \in 1..n |-> f[i]] /\ Good(f, n)}
<1>0. N \in Nat /\ N >= 1
  OBVIOUS
<1>1. FlattenSeq(q) = F[N]
  BY DEF FlattenSeq
<1>2. \A n \in Nat : n \in E
  <2>1. 0 \in E
    <3> DEFINE e == [i \in 1..0 |-> q]
    <3>1. e = [i \in 1..0 |-> e[i]] /\ Good(e, 0)
      OBVIOUS
    <3> HIDE DEF e, Good
    <3> QED BY <3>1
  <2>2. ASSUME NEW n \in Nat, n \in E PROVE n + 1 \in E
    <3>1. PICK f : f = [i \in 1..n |-> f[i]] /\ Good(f, n)
      BY <2>2
    <3> DEFINE g == [i \in 1..n + 1 |-> IF i <= n THEN f[i]
                                        ELSE IF i = 1 THEN q[i] ELSE f[i - 1] \o q[i]]
    <3>2. g = [i \in 1..n + 1 |-> g[i]]
      OBVIOUS
    <3>3. \A i \in 1..n : g[i] = f[i]
      OBVIOUS
    <3>4. Good(g, n + 1)
      <4> SUFFICES ASSUME NEW i \in 1..n + 1
                   PROVE  g[i] = IF i = 1 THEN q[i] ELSE g[i - 1] \o q[i]
        OBVIOUS
      <4>1. g[i] = IF i = 1 THEN q[i] ELSE f[i - 1] \o q[i]
        <5>1. CASE i \in 1..n
          BY <3>1, <3>3, <5>1
        <5>2. CASE i \notin 1..n
          BY <5>2
        <5> QED BY <5>1, <5>2
      <4>2. i # 1 => i - 1 \in 1..n
        OBVIOUS
      <4>3. i # 1 => g[i - 1] = f[i - 1]
        BY <3>3, <4>2
      <4> HIDE DEF g
      <4> QED BY <4>1, <4>3
    <3> HIDE DEF g, Good
    <3> QED BY <3>2, <3>4
  <2> HIDE DEF E
  <2> QED BY <2>1, <2>2, NatSetInduction
<1>3. F = [i \in 1..N |-> IF i = 1 THEN q[i] ELSE F[i - 1] \o q[i]]
  <2>1. PICK f : f = [i \in 1..N |-> f[i]] /\ Good(f, N)
    BY <1>0, <1>2
  <2>2. f = [i \in 1..N |-> IF i = 1 THEN q[i] ELSE f[i - 1] \o q[i]]
    BY <2>1
  <2> QED BY <2>2
<1> DEFINE L == Len(q[1])
           P == {n \in Nat : n + 1 <= N => F[n + 1] \in Seq(S) /\ Len(F[n + 1]) >= L}
<1> HIDE DEF F
<1>4. \A n \in Nat : n \in P
  <2>0. L \in Nat
    BY <1>0
  <2>1. 0 \in P
    BY <1>0, <1>3
  <2>2. ASSUME NEW n \in Nat, n \in P PROVE n + 1 \in P
    <3> SUFFICES ASSUME n + 2 <= N
                 PROVE  F[n + 2] \in Seq(S) /\ Len(F[n + 2]) >= L
      OBVIOUS
    <3>1. F[n + 1] \in Seq(S) /\ Len(F[n + 1]) >= L
      BY <1>0, <2>2
    <3>2. n + 2 \in 1..N /\ n + 2 # 1 /\ (n + 2) - 1 = n + 1 /\ q[n + 2] \in Seq(S)
      BY <1>0
    <3>3. F[n + 2] = F[n + 1] \o q[n + 2]
      BY <1>3, <3>2
    <3> DEFINE u == F[n + 1]
               v == q[n + 2]
    <3>4. u \in Seq(S) /\ v \in Seq(S) /\ Len(u) >= L
      BY <3>1, <3>2
    <3> HIDE DEF u, v, L
    <3>5. u \o v \in Seq(S) /\ Len(u \o v) >= L
      BY <2>0, <3>4
    <3> QED BY <3>3, <3>5 DEF u, v
  <2> HIDE DEF P
  <2> QED BY <2>1, <2>2, NatSetInduction
<1> HIDE DEF L
<1>5. ASSUME NEW i \in 1..N PROVE F[i] \in Seq(S) /\ Len(F[i]) >= L
  <2>1. i - 1 \in Nat /\ (i - 1) + 1 = i /\ i <= N
    BY <1>0
  <2>2. i - 1 \in P
    BY <1>4, <2>1
  <2> QED BY <2>1, <2>2
<1>6. F[1] = q[1]
  BY <1>0, <1>3
<1>7. ASSUME NEW i \in 2..N PROVE F[i] = F[i - 1] \o q[i]
  <2>1. i \in 1..N /\ i # 1
    BY <1>0
  <2> QED BY <1>3, <2>1
<1> QED BY <1>1, <1>5, <1>6, <1>7 DEF N, L

\* The bytes of the segments of one read: a sequence that is not empty.
LEMMA FlattenType ==
  ASSUME NEW S, NEW q \in Seq(Seq(S)), Len(q) >= 1, q[1] # <<>>
  PROVE  FlattenSeq(q) \in Seq(S) /\ Len(FlattenSeq(q)) >= 1
<1>1. PICK g : /\ \A i \in 1..Len(q) : g[i] \in Seq(S) /\ Len(g[i]) >= Len(q[1])
               /\ FlattenSeq(q) = g[Len(q)]
  BY FlattenSteps
<1>2. Len(q) \in 1..Len(q) /\ Len(q[1]) \in Nat \ {0}
  BY EmptySeq
<1>3. g[Len(q)] \in Seq(S) /\ Len(g[Len(q)]) >= Len(q[1])
  BY <1>1, <1>2
<1> QED BY <1>1, <1>2, <1>3

\* Whatever adds one segment after the other is FlattenSeq.
LEMMA FlattenUnique ==
  ASSUME NEW S, NEW q \in Seq(Seq(S)), Len(q) >= 1, NEW g, g[1] = q[1],
         \A i \in 2..Len(q) : g[i] = g[i - 1] \o q[i]
  PROVE  FlattenSeq(q) = g[Len(q)]
<1> DEFINE N == Len(q)
<1>1. PICK f : /\ f[1] = q[1]
               /\ \A i \in 2..N : f[i] = f[i - 1] \o q[i]
               /\ \A i \in 1..N : f[i] \in Seq(S) /\ Len(f[i]) >= Len(q[1])
               /\ FlattenSeq(q) = f[N]
  BY FlattenSteps, Zenon
<1> DEFINE P == {n \in Nat : n + 1 <= N => f[n + 1] = g[n + 1]}
<1>2. N \in Nat /\ N >= 1
  OBVIOUS
<1>3. \A i \in 2..N : g[i] = g[i - 1] \o q[i]
  OBVIOUS
<1> HIDE DEF N
<1>4. \A n \in Nat : n \in P
  <2>1. 0 \in P
    BY <1>1
  <2>2. ASSUME NEW n \in Nat, n \in P PROVE n + 1 \in P
    <3> SUFFICES ASSUME n + 2 <= N PROVE f[n + 2] = g[n + 2]
      OBVIOUS
    <3>1. n + 2 \in 2..N /\ (n + 2) - 1 = n + 1 /\ n + 1 <= N
      BY <1>2
    <3>2. f[n + 1] = g[n + 1]
      BY <2>2, <3>1
    <3>3. f[n + 2] = f[n + 1] \o q[n + 2] /\ g[n + 2] = g[n + 1] \o q[n + 2]
      BY <1>1, <1>3, <3>1
    <3> QED BY <3>2, <3>3
  <2> HIDE DEF P
  <2> QED BY <2>1, <2>2, NatSetInduction
<1>5. N - 1 \in Nat /\ (N - 1) + 1 = N
  BY <1>2
<1>6. f[N] = g[N]
  <2>1. N - 1 \in P
    BY <1>4, <1>5
  <2> QED BY <1>2, <1>5, <2>1
<1> QED BY <1>1, <1>6 DEF N

\* The first n segments.
LEMMA Firsts ==
  ASSUME NEW S, NEW q \in Seq(S), NEW n \in 0..Len(q)
  PROVE  /\ SubSeq(q, 1, n) \in Seq(S) /\ Len(SubSeq(q, 1, n)) = n
         /\ \A i \in 1..n : SubSeq(q, 1, n)[i] = q[i]
<1>1. \A i \in 1..n : q[i] \in S
  OBVIOUS
<1>2. 1 \in Int /\ n \in Int /\ (IF 1 <= n THEN n - 1 + 1 ELSE 0) = n /\ n - 1 + 1 = n
  OBVIOUS
<1>3. /\ SubSeq(q, 1, n) \in Seq(S) /\ Len(SubSeq(q, 1, n)) = n
      /\ \A i \in 1..n : SubSeq(q, 1, n)[i] = q[1 + i - 1]
  BY <1>1, <1>2, SubSeqProperties
<1> QED BY <1>3

\* One more segment.
LEMMA FlattenNext ==
  ASSUME NEW S, NEW q \in Seq(Seq(S)), NEW n \in 1..Len(q)
  PROVE  /\ FlattenSeq(SubSeq(q, 1, n)) \in Seq(S)
         /\ FlattenSeq(SubSeq(q, 1, n)) = FlattenSeq(SubSeq(q, 1, n - 1)) \o q[n]
<1>1. Len(q) \in Nat /\ Len(q) >= 1 /\ q[1] \in Seq(S)
  OBVIOUS
<1>2. PICK g : /\ g[1] = q[1]
               /\ \A i \in 2..Len(q) : g[i] = g[i - 1] \o q[i]
               /\ \A i \in 1..Len(q) : g[i] \in Seq(S) /\ Len(g[i]) >= Len(q[1])
               /\ FlattenSeq(q) = g[Len(q)]
  BY <1>1, FlattenSteps, Zenon
<1>3. ASSUME NEW m \in 1..Len(q) PROVE FlattenSeq(SubSeq(q, 1, m)) = g[m]
  <2> DEFINE p == SubSeq(q, 1, m)
  <2>1. p \in Seq(Seq(S)) /\ Len(p) = m /\ \A i \in 1..m : p[i] = q[i]
    BY <1>1, Firsts
  <2> HIDE DEF p
  <2>2. g[1] = p[1] /\ Len(p) >= 1
    BY <1>2, <2>1
  <2>3. ASSUME NEW i \in 2..Len(p) PROVE g[i] = g[i - 1] \o p[i]
    <3>1. i \in 2..Len(q) /\ i \in 1..m
      BY <1>1, <2>1
    <3> QED BY <1>2, <2>1, <3>1
  <2>4. FlattenSeq(p) = g[Len(p)]
    BY <2>1, <2>2, <2>3, FlattenUnique
  <2> QED BY <2>1, <2>4 DEF p
<1>4. CASE n = 1
  <2>1. SubSeq(q, 1, n - 1) = <<>>
    BY <1>4, SubSeqEmpty
  <2>2. FlattenSeq(<<>>) = <<>>
    BY DEF FlattenSeq
  <2>3. <<>> \o q[1] = q[1]
    BY <1>1, ConcatEmptySeq
  <2> QED BY <1>1, <1>2, <1>3, <1>4, <2>1, <2>2, <2>3
<1>5. CASE n # 1
  <2>1. n \in 2..Len(q) /\ n - 1 \in 1..Len(q)
    BY <1>1, <1>5
  <2>2. FlattenSeq(SubSeq(q, 1, n)) = g[n] /\ FlattenSeq(SubSeq(q, 1, n - 1)) = g[n - 1]
    BY <1>3, <2>1
  <2> QED BY <1>2, <2>1, <2>2
<1> QED BY <1>4, <1>5

\* The bytes of any segments.
LEMMA FlattenBytes ==
  ASSUME NEW S, NEW q \in Seq(Seq(S))
  PROVE  FlattenSeq(q) \in Seq(S)
<1>1. CASE Len(q) = 0
  BY <1>1 DEF FlattenSeq
<1>2. CASE Len(q) # 0
  <2>1. Len(q) \in 1..Len(q) /\ SubSeq(q, 1, Len(q)) = q
    BY <1>2
  <2> QED BY <2>1, FlattenNext
<1> QED BY <1>1, <1>2

\* The bytes of some segments and then of some more.
LEMMA FlattenConcat ==
  ASSUME NEW S, NEW s \in Seq(Seq(S)), NEW t \in Seq(Seq(S))
  PROVE  FlattenSeq(s \o t) = FlattenSeq(s) \o FlattenSeq(t)
<1> DEFINE q == s \o t
           A == FlattenSeq(s)
           B(n) == FlattenSeq(SubSeq(t, 1, n))
           C(n) == FlattenSeq(SubSeq(q, 1, Len(s) + n))
           P == {n \in Nat : n <= Len(t) => C(n) = A \o B(n)}
<1>1. /\ q \in Seq(Seq(S)) /\ Len(q) = Len(s) + Len(t) /\ Len(s) \in Nat /\ Len(t) \in Nat
      /\ \A i \in 1..Len(s) + Len(t) : q[i] = IF i <= Len(s) THEN s[i] ELSE t[i - Len(s)]
  BY ConcatProperties
<1> HIDE DEF q
<1>2. A \in Seq(S) /\ FlattenSeq(<<>>) = <<>>
  BY FlattenBytes DEF FlattenSeq
<1>3. \A n \in Nat : n \in P
  <2>1. 0 \in P
    <3>1. SubSeq(q, 1, Len(s)) = s
      <4> DEFINE p == SubSeq(q, 1, Len(s))
      <4>1. Len(s) \in 0..Len(q)
        BY <1>1
      <4>2. p \in Seq(Seq(S)) /\ Len(p) = Len(s) /\ \A i \in 1..Len(s) : p[i] = q[i]
        BY <1>1, <4>1, Firsts
      <4> HIDE DEF p
      <4>3. ASSUME NEW i \in 1..Len(p) PROVE p[i] = s[i]
        <5>1. i \in 1..Len(s) /\ i \in 1..Len(s) + Len(t) /\ i <= Len(s)
          BY <1>1, <4>2
        <5> QED BY <1>1, <4>2, <5>1
      <4>4. p = s
        BY <4>2, <4>3, SeqEqual
      <4> QED BY <4>4 DEF p
    <3>2. SubSeq(t, 1, 0) = <<>> /\ Len(s) + 0 = Len(s)
      BY <1>1, SubSeqEmpty
    <3>3. C(0) = A /\ B(0) = <<>>
      BY <1>2, <3>1, <3>2
    <3>4. A \o <<>> = A
      BY <1>2, ConcatEmptySeq
    <3> HIDE DEF A, B, C
    <3> QED BY <3>3, <3>4
  <2>2. ASSUME NEW n \in Nat, n \in P PROVE n + 1 \in P
    <3> SUFFICES ASSUME n + 1 <= Len(t) PROVE C(n + 1) = A \o B(n + 1)
      OBVIOUS
    <3> DEFINE x == t[n + 1]
    <3>1. /\ n + 1 \in 1..Len(t) /\ (n + 1) - 1 = n
          /\ Len(s) + (n + 1) \in 1..Len(q) /\ (Len(s) + (n + 1)) - 1 = Len(s) + n
          /\ n <= Len(t)
      BY <1>1
    <3>2. q[Len(s) + (n + 1)] = x
      <4>1. ~(Len(s) + (n + 1) <= Len(s)) /\ (Len(s) + (n + 1)) - Len(s) = n + 1
            /\ Len(s) + (n + 1) \in 1..Len(s) + Len(t)
        BY <1>1, <3>1
      <4> QED BY <1>1, <4>1
    <3>3. C(n + 1) = C(n) \o x
      BY <1>1, <3>1, <3>2, FlattenNext
    <3>4. B(n + 1) = B(n) \o x
      BY <3>1, FlattenNext
    <3>5. C(n) = A \o B(n)
      BY <2>2, <3>1
    <3>6. B(n) \in Seq(S) /\ x \in Seq(S)
      <4>1. n \in 0..Len(t)
        BY <1>1, <3>1
      <4>2. SubSeq(t, 1, n) \in Seq(Seq(S))
        BY <4>1, Firsts
      <4>3. B(n) \in Seq(S)
        BY <4>2, FlattenBytes, Zenon
      <4>4. x \in Seq(S)
        BY <3>1
      <4> QED BY <4>3, <4>4
    <3> DEFINE b == B(n)
               ab == C(n)
               bx == B(n + 1)
               abx == C(n + 1)
    <3>7. A \in Seq(S) /\ b \in Seq(S) /\ x \in Seq(S)
      BY <1>2, <3>6
    <3>8. ab = A \o b /\ bx = b \o x /\ abx = ab \o x
      BY <3>3, <3>4, <3>5
    <3> HIDE DEF A, b, ab, bx, abx, x
    <3>9. abx = A \o bx
      BY <3>7, <3>8, SMTT(60)
    <3> QED BY <3>9 DEF bx, abx
  <2> HIDE DEF P
  <2> QED BY <2>1, <2>2, NatSetInduction
<1>4. Len(t) \in P
  BY <1>1, <1>3
<1>5. SubSeq(t, 1, Len(t)) = t /\ SubSeq(q, 1, Len(s) + Len(t)) = q
  <2>1. SubSeq(q, 1, Len(q)) = q
    BY <1>1
  <2> QED BY <1>1, <2>1
<1>6. C(Len(t)) = A \o B(Len(t))
  BY <1>1, <1>4
<1> QED BY <1>5, <1>6 DEF q

\* The bytes of the first n segments come first.
LEMMA FlattenFirsts ==
  ASSUME NEW S, NEW q \in Seq(Seq(S)), NEW n \in 0..Len(q)
  PROVE  LET front == FlattenSeq(SubSeq(q, 1, n))
             whole == FlattenSeq(q)
         IN  /\ front \in Seq(S) /\ whole \in Seq(S) /\ Len(front) <= Len(whole)
             /\ \A i \in 1..Len(front) : front[i] = whole[i]
<1> DEFINE head == SubSeq(q, 1, n)
           tail == SubSeq(q, n + 1, Len(q))
           front == FlattenSeq(head)
           back == FlattenSeq(tail)
           whole == FlattenSeq(q)
<1>1. Len(q) \in Nat
  OBVIOUS
<1>2. head \in Seq(Seq(S)) /\ Len(head) = n /\ \A i \in 1..n : head[i] = q[i]
  BY Firsts
<1>3. /\ tail \in Seq(Seq(S)) /\ Len(tail) = Len(q) - n
      /\ \A i \in 1..Len(q) - n : tail[i] = q[n + i]
  BY <1>1
<1> HIDE DEF head, tail
<1>4. q = head \o tail
  <2> DEFINE p == head \o tail
  <2>1. /\ p \in Seq(Seq(S)) /\ Len(p) = Len(q)
        /\ \A i \in 1..Len(q) : p[i] = IF i <= n THEN head[i] ELSE tail[i - n]
    <3>1. /\ p \in Seq(Seq(S)) /\ Len(p) = Len(head) + Len(tail)
          /\ \A i \in 1..Len(head) + Len(tail) :
                p[i] = IF i <= Len(head) THEN head[i] ELSE tail[i - Len(head)]
      BY <1>2, <1>3, ConcatProperties
    <3>2. Len(head) + Len(tail) = Len(q)
      BY <1>1, <1>2, <1>3
    <3> HIDE DEF p
    <3> QED BY <1>2, <3>1, <3>2
  <2> HIDE DEF p
  <2>2. ASSUME NEW i \in 1..Len(q) PROVE p[i] = q[i]
    <3>1. CASE i <= n
      <4>1. i \in 1..n
        BY <3>1
      <4> QED BY <1>2, <2>1, <3>1, <4>1
    <3>2. CASE ~(i <= n)
      <4>1. i - n \in 1..Len(q) - n /\ n + (i - n) = i
        BY <1>1, <3>2
      <4>2. tail[i - n] = q[n + (i - n)]
        BY <1>3, <4>1
      <4> QED BY <2>1, <3>2, <4>1, <4>2
    <3> QED BY <3>1, <3>2
  <2>3. p = q
    BY <2>1, <2>2, SeqEqual
  <2> QED BY <2>3 DEF p
<1>5. /\ whole = front \o back
      /\ whole \in Seq(S) /\ front \in Seq(S) /\ back \in Seq(S)
  <2>1. FlattenSeq(head \o tail) = FlattenSeq(head) \o FlattenSeq(tail)
    BY <1>2, <1>3, FlattenConcat
  <2>2. FlattenSeq(q) \in Seq(S) /\ FlattenSeq(head) \in Seq(S) /\ FlattenSeq(tail) \in Seq(S)
    BY <1>2, <1>3, FlattenBytes
  <2> QED BY <1>4, <2>1, <2>2
<1> HIDE DEF whole, front, back
<1>6. /\ Len(whole) = Len(front) + Len(back) /\ Len(front) \in Nat /\ Len(back) \in Nat
      /\ \A i \in 1..Len(front) + Len(back) :
            whole[i] = IF i <= Len(front) THEN front[i] ELSE back[i - Len(front)]
  BY <1>5, ConcatProperties
<1>7. \A i \in 1..Len(front) : i \in 1..Len(front) + Len(back) /\ i <= Len(front)
  BY <1>6
<1>8. Len(front) <= Len(whole) /\ \A i \in 1..Len(front) : front[i] = whole[i]
  BY <1>6, <1>7
<1> QED BY <1>5, <1>8 DEF front, whole, head

-----------------------------------------------------------------------------
(* The scan and the parser. *)

\* s stands in t behind the first i elements.
StandsAt(s, t, i) == \A j \in 1..Len(s) : s[j] = t[i + j]

\* Where a part of a sequence stands in it.
LEMMA SubSeqsAt ==
  ASSUME NEW S, NEW s \in Seq(S), NEW t \in Seq(S), Len(s) >= 1
  PROVE  s \in SubSeqs(t) <=> \E i \in 0..Len(t) - Len(s) : StandsAt(s, t, i)
<1>1. Len(s) \in Nat /\ Len(t) \in Nat
  OBVIOUS
<1>2. ASSUME s \in SubSeqs(t)
      PROVE  \E i \in 0..Len(t) - Len(s) : StandsAt(s, t, i)
  <2>1. PICK i \in 0..Len(t), k \in 0..Len(t) : s = SubSeq(t, i + 1, k)
    BY <1>2 DEF SubSeqs
  <2>2. i + 1 <= k /\ Len(s) = k - i
    BY <1>1, <2>1
  <2>3. StandsAt(s, t, i)
    BY <1>1, <2>1, <2>2 DEF StandsAt
  <2>4. i \in 0..Len(t) - Len(s)
    BY <1>1, <2>2
  <2> QED BY <2>3, <2>4
<1>3. ASSUME NEW i \in 0..Len(t) - Len(s), StandsAt(s, t, i)
      PROVE  s \in SubSeqs(t)
  <2>1. i \in 0..Len(t) /\ i + Len(s) \in 0..Len(t)
    BY <1>1
  <2> DEFINE k == i + Len(s)
             u == SubSeq(t, i + 1, k)
  <2>2. u \in Seq(S) /\ Len(u) = Len(s) /\ \A j \in 1..Len(s) : u[j] = t[i + j]
    BY <1>1, <2>1
  <2>3. s = u
    <3> HIDE DEF u
    <3> QED BY <1>3, <2>2, SeqEqual DEF StandsAt
  <2>4. i \in 0..Len(t) /\ k \in 0..Len(t)
    BY <2>1
  <2> HIDE DEF k
  <2> QED BY <2>3, <2>4 DEF SubSeqs
<1> QED BY <1>2, <1>3

\* Where it stands in the first n elements.
LEMMA SubSeqsOfFirsts ==
  ASSUME NEW S, NEW s \in Seq(S), NEW t \in Seq(S), Len(s) >= 1, NEW n \in 0..Len(t)
  PROVE  s \in SubSeqs(SubSeq(t, 1, n)) <=> \E i \in 0..n - Len(s) : StandsAt(s, t, i)
<1> DEFINE u == SubSeq(t, 1, n)
<1>1. u \in Seq(S) /\ Len(u) = n /\ \A i \in 1..n : u[i] = t[i]
  BY Firsts
<1> HIDE DEF u
<1>2. s \in SubSeqs(u) <=> \E i \in 0..Len(u) - Len(s) : StandsAt(s, u, i)
  BY <1>1, SubSeqsAt, Zenon
<1>3. ASSUME NEW i \in 0..n - Len(s) PROVE StandsAt(s, u, i) <=> StandsAt(s, t, i)
  <2>1. \A j \in 1..Len(s) : i + j \in 1..n
    OBVIOUS
  <2>2. \A j \in 1..Len(s) : u[i + j] = t[i + j]
    BY <1>1, <2>1
  <2> QED BY <2>2 DEF StandsAt
<1> QED BY <1>1, <1>2, <1>3 DEF u

\* IndexFirstSubSeq is the first place where a part stands.
LEMMA IndexFirst ==
  ASSUME NEW S, NEW s \in Seq(S), NEW t \in Seq(S), Len(s) >= 1, s \in SubSeqs(t)
  PROVE  \E p \in 0..Len(t) - Len(s) :
            /\ IndexFirstSubSeq(s, t) = p + 1 /\ StandsAt(s, t, p)
            /\ \A i \in Nat : i < p => ~StandsAt(s, t, i)
<1> DEFINE D(n) == s \in SubSeqs(SubSeq(t, 1, n))
           L == Len(s)
           N == Len(t)
           T == {n \in 0..N : D(n)}
           last == CHOOSE i \in 0..N : D(i) /\ \A j \in 0..i - 1 : ~D(j)
<1>1. L \in Nat \ {0} /\ N \in Nat
  OBVIOUS
<1>2. \A n \in 0..N : D(n) <=> \E i \in 0..n - L : StandsAt(s, t, i)
  BY SubSeqsOfFirsts
<1>3. D(N)
  <2>1. SubSeq(t, 1, N) = t
    OBVIOUS
  <2> QED BY <2>1
<1>4. IndexFirstSubSeq(s, t) = last - (L - 1)
  BY DEF IndexFirstSubSeq
<1> HIDE DEF D, L, N
<1>5. PICK x \in T : \A y \in T : x <= y
  <2>1. T \subseteq Nat /\ N \in T
    BY <1>1, <1>3
  <2> HIDE DEF T
  <2> QED BY <2>1, LeastNat
<1>6. x \in 0..N /\ D(x) /\ \A j \in 0..x - 1 : ~D(j)
  BY <1>1, <1>5
<1>7. last \in 0..N /\ D(last) /\ \A j \in 0..last - 1 : ~D(j)
  BY <1>6
<1> HIDE DEF last
<1>8. PICK p \in 0..last - L : StandsAt(s, t, p)
  BY <1>2, <1>7
<1>9. ASSUME NEW i \in Nat, StandsAt(s, t, i), i + L <= N PROVE last <= i + L
  <2>1. i + L \in 0..N /\ i \in 0..(i + L) - L
    BY <1>1, <1>9
  <2>2. D(i + L)
    BY <1>2, <1>9, <2>1
  <2> QED BY <1>1, <1>7, <2>1, <2>2
<1>10. p + L = last /\ p \in 0..N - L
  <2>1. p \in Nat /\ p + L <= last /\ p + L <= N
    BY <1>1, <1>7
  <2>2. last <= p + L
    BY <1>8, <1>9, <2>1
  <2> QED BY <1>1, <1>7, <2>1, <2>2
<1>11. ASSUME NEW i \in Nat, i < p PROVE ~StandsAt(s, t, i)
  <2>1. i + L <= N /\ ~(last <= i + L)
    BY <1>1, <1>7, <1>10, <1>11
  <2> QED BY <1>9, <2>1
<1>12. last - (L - 1) = p + 1
  BY <1>1, <1>7, <1>10
<1> QED BY <1>4, <1>8, <1>10, <1>11, <1>12 DEF L, N

\* A longer sequence has the part at the same first place.
LEMMA IndexOfPrefix ==
  ASSUME NEW S, NEW s \in Seq(S), NEW t \in Seq(S), NEW b \in Seq(S), Len(s) >= 1,
         s \in SubSeqs(b), Len(b) <= Len(t), \A i \in 1..Len(b) : b[i] = t[i]
  PROVE  s \in SubSeqs(t) /\ IndexFirstSubSeq(s, b) = IndexFirstSubSeq(s, t)
<1> DEFINE L == Len(s)
           M == Len(b)
           N == Len(t)
<1>1. L \in Nat \ {0} /\ M \in Nat /\ N \in Nat /\ M <= N
  OBVIOUS
<1>2. ASSUME NEW i \in Nat, i + L <= M PROVE StandsAt(s, b, i) <=> StandsAt(s, t, i)
  <2>1. \A j \in 1..L : i + j \in 1..M
    BY <1>1, <1>2
  <2>2. \A j \in 1..L : b[i + j] = t[i + j]
    BY <2>1
  <2> QED BY <2>2 DEF StandsAt
<1>3. PICK p \in 0..M - L :
         /\ IndexFirstSubSeq(s, b) = p + 1 /\ StandsAt(s, b, p)
         /\ \A i \in Nat : i < p => ~StandsAt(s, b, i)
  BY IndexFirst, Zenon
<1>4. p \in Nat /\ p + L <= M /\ p \in 0..N - L
  BY <1>1
<1>5. StandsAt(s, t, p)
  BY <1>2, <1>3, <1>4
<1>6. s \in SubSeqs(t)
  BY <1>4, <1>5, SubSeqsAt
<1>7. PICK r \in 0..N - L :
         /\ IndexFirstSubSeq(s, t) = r + 1 /\ StandsAt(s, t, r)
         /\ \A i \in Nat : i < r => ~StandsAt(s, t, i)
  BY <1>6, IndexFirst, Zenon
<1>8. r \in Nat /\ ~(p < r)
  BY <1>1, <1>4, <1>5, <1>7
<1>9. r + L <= M
  BY <1>1, <1>4, <1>8
<1>10. StandsAt(s, b, r)
  BY <1>2, <1>7, <1>8, <1>9
<1>11. ~(r < p)
  BY <1>3, <1>8, <1>10
<1>12. r = p
  BY <1>4, <1>8, <1>11
<1> QED BY <1>3, <1>6, <1>7, <1>12

\* What the scan sees in a chunk is in the buffer the chunk was added to.
LEMMA SubSeqsOfSuffix ==
  ASSUME NEW S, NEW s \in Seq(S), NEW a \in Seq(S), NEW c \in Seq(S), Len(s) >= 1,
         s \in SubSeqs(c)
  PROVE  s \in SubSeqs(a \o c)
<1>1. Len(s) \in Nat /\ Len(a) \in Nat /\ Len(c) \in Nat
  OBVIOUS
<1>2. PICK i \in 0..Len(c) - Len(s) : StandsAt(s, c, i)
  BY SubSeqsAt
<1>3. a \o c \in Seq(S) /\ Len(a \o c) = Len(a) + Len(c)
  BY ConcatProperties
<1>4. Len(a) + i \in 0..Len(a \o c) - Len(s)
  BY <1>1, <1>3
<1>5. StandsAt(s, a \o c, Len(a) + i)
  <2> SUFFICES ASSUME NEW j \in 1..Len(s) PROVE s[j] = (a \o c)[(Len(a) + i) + j]
    BY DEF StandsAt
  <2>1. (Len(a) + i) + j \in 1..Len(a) + Len(c) /\ ~((Len(a) + i) + j <= Len(a))
        /\ ((Len(a) + i) + j) - Len(a) = i + j
    BY <1>1
  <2>2. (a \o c)[(Len(a) + i) + j] = c[i + j]
    BY <2>1, ConcatProperties
  <2> QED BY <1>2, <2>2 DEF StandsAt
<1> QED BY <1>3, <1>4, <1>5, SubSeqsAt

\* A chunk is a suffix of the buffer it was added to.
LEMMA ChunkIsSuffix ==
  ASSUME NEW S, NEW a \in Seq(S), NEW c \in Seq(S)
  PROVE  IsSuffix(c, a \o c)
<1>1. a \o c \in Seq(S) /\ Len(a \o c) = Len(a) + Len(c)
      /\ Len(a) \in Nat /\ Len(c) \in Nat
  BY ConcatProperties
<1>2. ASSUME NEW i \in 1..Len(c)
      PROVE  c[i] = (a \o c)[Len(a \o c) - Len(c) + i]
  <2>1. Len(a \o c) - Len(c) + i = Len(a) + i
    BY <1>1
  <2>2. (a \o c)[Len(a) + i] = c[i]
    BY <1>1
  <2> QED BY <2>1, <2>2
<1>3. Len(c) <= Len(a \o c)
  BY <1>1
<1> QED BY <1>1, <1>2, <1>3, SuffixAt

\* What the line ends are made of.
LEMMA LineEnds ==
  /\ CRLF \in Seq(Bytes) /\ Len(CRLF) = 2 /\ CRLF[1] = "r" /\ CRLF[2] = "n"
  /\ CRLF \o CRLF \in Seq(Bytes) /\ Len(CRLF \o CRLF) = 4
  /\ (CRLF \o CRLF)[1] = "r" /\ (CRLF \o CRLF)[2] = "n"
  /\ (CRLF \o CRLF)[3] = "r" /\ (CRLF \o CRLF)[4] = "n"
  BY DEF CRLF, Bytes

\* The line ends of a buffer.
LEMMA LineEndAt ==
  ASSUME NEW b \in Seq(Bytes)
  PROVE  CRLF \in SubSeqs(b) <=> \E i \in 1..Len(b) - 1 : b[i] = "r" /\ b[i + 1] = "n"
<1>1. CRLF \in SubSeqs(b) <=> \E i \in 0..Len(b) - 2 : StandsAt(CRLF, b, i)
  BY LineEnds, SubSeqsAt
<1>2. ASSUME NEW i \in Int
      PROVE  StandsAt(CRLF, b, i) <=> b[i + 1] = "r" /\ b[i + 2] = "n"
  BY LineEnds DEF StandsAt
<1>3. ASSUME NEW i \in 0..Len(b) - 2, StandsAt(CRLF, b, i)
      PROVE  \E k \in 1..Len(b) - 1 : b[k] = "r" /\ b[k + 1] = "n"
  <2>1. i + 1 \in 1..Len(b) - 1 /\ (i + 1) + 1 = i + 2
    OBVIOUS
  <2> QED BY <1>2, <1>3, <2>1
<1>4. ASSUME NEW k \in 1..Len(b) - 1, b[k] = "r", b[k + 1] = "n"
      PROVE  \E i \in 0..Len(b) - 2 : StandsAt(CRLF, b, i)
  <2> DEFINE i == k - 1
  <2>1. i \in 0..Len(b) - 2 /\ i + 1 = k /\ i + 2 = k + 1
    OBVIOUS
  <2> HIDE DEF i
  <2>2. StandsAt(CRLF, b, i)
    BY <1>2, <1>4, <2>1
  <2> QED BY <2>1, <2>2
<1> QED BY <1>1, <1>3, <1>4

\* A buffer with an empty line has a line end.
LEMMA EmptyLineHasLine ==
  ASSUME NEW b \in Seq(Bytes), CRLF \o CRLF \in SubSeqs(b)
  PROVE  CRLF \in SubSeqs(b)
<1> DEFINE w == CRLF \o CRLF
<1>1. w \in Seq(Bytes) /\ Len(w) = 4 /\ w[1] = "r" /\ w[2] = "n" /\ w \in SubSeqs(b)
  BY LineEnds
<1> HIDE DEF w
<1>2. PICK i \in 0..Len(b) - Len(w) : StandsAt(w, b, i)
  <2>1. Len(w) >= 1
    BY <1>1
  <2> QED BY <1>1, <2>1, SubSeqsAt, Zenon
<1>3. b[i + 1] = "r" /\ b[i + 2] = "n" /\ i + 1 \in 1..Len(b) - 1 /\ (i + 1) + 1 = i + 2
  BY <1>1, <1>2 DEF StandsAt
<1> QED BY <1>3, LineEndAt

\* A chunk that ends the request has a line end in it.
LEMMA ScannedHasLine ==
  ASSUME NEW c \in Seq(Bytes), scanForEnd(c)
  PROVE  CRLF \in SubSeqs(c)
<1>1. CASE c = CRLF
  BY <1>1, LineEnds, LineEndAt
<1>2. CASE CRLF \o CRLF \in SubSeqs(c)
  BY <1>2, EmptyLineHasLine
<1> QED BY <1>1, <1>2 DEF scanForEnd

\* _ReadLine finds the first line end behind the offset, or there is none.
LEMMA ReadLineFinds ==
  ASSUME NEW b \in Seq(Bytes), NEW offset \in Nat \ {0}
  PROVE  LET pos == _ReadLine(b, offset)
         IN  \/ /\ pos = -1
                /\ \A i \in offset..Len(b) - 1 : ~(b[i] = "r" /\ b[i + 1] = "n")
             \/ /\ pos \in Nat /\ offset + pos + 1 <= Len(b)
                /\ b[offset + pos] = "r" /\ b[offset + pos + 1] = "n"
                /\ \A i \in offset..offset + pos - 1 : ~(b[i] = "r" /\ b[i + 1] = "n")
<1> DEFINE ends == {i \in offset..Len(b) - 1 : b[i] = "r" /\ b[i + 1] = "n"}
<1>1. CASE ends = {}
  BY <1>1 DEF _ReadLine
<1>2. CASE ends # {}
  <2>1. ends \subseteq Nat /\ Len(b) \in Nat
    OBVIOUS
  <2> HIDE DEF ends
  <2>2. \E x \in ends : \A y \in ends : x <= y
    BY <1>2, <2>1, LeastNat
  <2>3. Min(ends) \in ends /\ \A y \in ends : Min(ends) <= y
    BY <2>2 DEF Min
  <2>4. _ReadLine(b, offset) = Min(ends) - offset
    BY <1>2 DEF _ReadLine, ends
  <2>5. PICK x \in ends : x = Min(ends) /\ \A y \in ends : x <= y
    BY <2>3
  <2>6. x \in offset..Len(b) - 1 /\ b[x] = "r" /\ b[x + 1] = "n"
    BY <2>5 DEF ends
  <2>7. x - offset \in Nat /\ offset + (x - offset) = x /\ x + 1 <= Len(b)
    BY <2>1, <2>6
  <2>8. ASSUME NEW i \in offset..x - 1, b[i] = "r", b[i + 1] = "n" PROVE FALSE
    <3>1. i \in offset..Len(b) - 1 /\ ~(x <= i)
      BY <2>1, <2>6
    <3>2. i \in ends
      BY <2>8, <3>1 DEF ends
    <3> QED BY <2>5, <3>1, <3>2
  <2> QED BY <2>4, <2>5, <2>6, <2>7, <2>8
<1> QED BY <1>1, <1>2

\* What the option loop may return.
Results == [outcome : {"parsed", "dropped"}, headers : Nat]

\* The option loop ends, on every buffer, with a count of header lines or an
\* exception: each round goes on behind the line end it has found.
LEMMA OptionsResult ==
  ASSUME NEW b \in Seq(Bytes), NEW start \in 1..Len(b) + 1
  PROVE  LET pos  == _ReadLine(b, start)
             next == start + pos + 2
         IN  /\ Options(b, start) \in Results
             /\ pos = 0 => Options(b, start) = [outcome |-> "parsed", headers |-> 0]
             /\ pos \in Nat \ {0} /\ next <= Len(b) =>
                   Options(b, start) = [Options(b, next) EXCEPT !.headers = @ + 1]
<1> DEFINE N == Len(b) + 1
           Round(f, o) ==
               LET pos == _ReadLine(b, o)
               IN  IF pos = -1 THEN [outcome |-> "dropped", headers |-> 0]
                   ELSE IF pos = 0 THEN [outcome |-> "parsed", headers |-> 0]
                   ELSE IF Len(b) < o + pos + 2 THEN [outcome |-> "parsed", headers |-> 1]
                   ELSE [f[o + pos + 2] EXCEPT !.headers = @ + 1]
           F == CHOOSE f : f = [o \in 1..Len(b) + 1 |-> Round(f, o)]
<1>1. \A o \in 1..Len(b) + 1 : Options(b, o) = F[o]
  BY DEF Options
<1>2. N \in Nat /\ N >= 1 /\ Len(b) \in Nat
  OBVIOUS
<1>3. ASSUME NEW o \in 1..N, NEW f, \A p \in o + 1..N : f[p] \in Results
      PROVE  Round(f, o) \in Results
  <2> DEFINE pos == _ReadLine(b, o)
             next == o + pos + 2
  <2>1. pos = -1 \/ pos \in Nat
    BY <1>2, ReadLineFinds
  <2> HIDE DEF pos
  <2>2. CASE pos = -1 \/ pos = 0 \/ Len(b) < next
    BY <2>2 DEF Results, pos
  <2>3. CASE ~(pos = -1 \/ pos = 0 \/ Len(b) < next)
    <3>1. next \in o + 1..N
      BY <1>2, <2>1, <2>3
    <3>2. f[next] \in Results
      BY <1>3, <3>1
    <3>3. Round(f, o) = [f[next] EXCEPT !.headers = @ + 1]
      BY <2>3 DEF pos
    <3> HIDE DEF Round, next
    <3> QED BY <3>2, <3>3 DEF Results
  <2> QED BY <2>2, <2>3
<1>4. ASSUME NEW o \in 1..N, NEW f, NEW g, \A p \in o + 1..N : f[p] = g[p]
      PROVE  Round(f, o) = Round(g, o)
  <2> DEFINE pos == _ReadLine(b, o)
             next == o + pos + 2
  <2>1. pos = -1 \/ pos \in Nat
    BY <1>2, ReadLineFinds
  <2> HIDE DEF pos
  <2>2. CASE pos = -1 \/ pos = 0 \/ Len(b) < next
    BY <2>2 DEF pos
  <2>3. CASE ~(pos = -1 \/ pos = 0 \/ Len(b) < next)
    <3>1. next \in o + 1..N
      BY <1>2, <2>1, <2>3
    <3>2. f[next] = g[next]
      BY <1>4, <3>1
    <3>3. /\ Round(f, o) = [f[next] EXCEPT !.headers = @ + 1]
          /\ Round(g, o) = [g[next] EXCEPT !.headers = @ + 1]
      BY <2>3 DEF pos
    <3> HIDE DEF Round, next
    <3> QED BY <3>2, <3>3
  <2> QED BY <2>2, <2>3
<1> HIDE DEF Round
<1> DEFINE Part(n, f) == /\ f \in [N - n + 1..N -> Results]
                         /\ \A o \in N - n + 1..N : f[o] = Round(f, o)
           E == {n \in Nat : n <= N => \E f : Part(n, f)}
<1>5. \A n \in Nat : n \in E
  <2>1. 0 \in E
    <3> DEFINE e == [o \in N + 1..N |-> [outcome |-> "parsed", headers |-> 0]]
    <3>1. N + 1..N = {} /\ N - 0 + 1 = N + 1
      BY <1>2
    <3>2. Part(0, e)
      BY <3>1
    <3> HIDE DEF e, Part
    <3> QED BY <3>2
  <2>2. ASSUME NEW n \in Nat, n \in E PROVE n + 1 \in E
    <3> SUFFICES ASSUME n + 1 <= N PROVE \E f : Part(n + 1, f)
      OBVIOUS
    <3> DEFINE k == N - n
    <3>1. k \in 1..N /\ N - n + 1 = k + 1 /\ N - (n + 1) + 1 = k /\ n <= N
      BY <1>2
    <3>2. PICK f : Part(n, f)
      BY <2>2, <3>1
    <3> HIDE DEF k
    <3> DEFINE g == [o \in k..N |-> IF o = k THEN Round(f, k) ELSE f[o]]
    <3>3. f \in [k + 1..N -> Results] /\ \A o \in k + 1..N : f[o] = Round(f, o)
      BY <3>1, <3>2
    <3>4. \A o \in k + 1..N : g[o] = f[o]
      BY <3>1
    <3>5. Round(f, k) \in Results
      BY <1>3, <3>1, <3>3
    <3>6. g \in [k..N -> Results]
      BY <1>2, <3>1, <3>3, <3>5
    <3>7. ASSUME NEW o \in k..N PROVE g[o] = Round(g, o)
      <4>1. o \in 1..N /\ \A p \in o + 1..N : p \in k + 1..N
        BY <1>2, <3>1
      <4>2. \A p \in o + 1..N : f[p] = g[p]
        BY <3>4, <4>1
      <4>3. Round(f, o) = Round(g, o)
        BY <1>4, <4>1, <4>2
      <4>4. g[o] = Round(f, o)
        BY <1>2, <3>1, <3>3, <3>4
      <4> QED BY <4>3, <4>4
    <3> HIDE DEF g
    <3>8. Part(n + 1, g)
      BY <3>1, <3>6, <3>7
    <3> QED BY <3>8
  <2> HIDE DEF E
  <2> QED BY <2>1, <2>2, NatSetInduction
<1>6. F = [o \in 1..N |-> Round(F, o)]
  <2>0. N \in E
    BY <1>2, <1>5
  <2>1. PICK f : Part(N, f)
    BY <1>2, <2>0
  <2>2. N - N + 1 = 1
    BY <1>2
  <2>3. f = [o \in 1..Len(b) + 1 |-> Round(f, o)]
    BY <2>1, <2>2
  <2> QED BY <2>3
<1> HIDE DEF F
<1> DEFINE P == {n \in Nat : n <= N => \A o \in N - n + 1..N : F[o] \in Results}
<1>7. \A n \in Nat : n \in P
  <2>1. 0 \in P
    BY <1>2
  <2>2. ASSUME NEW n \in Nat, n \in P PROVE n + 1 \in P
    <3> SUFFICES ASSUME n + 1 <= N, NEW o \in N - (n + 1) + 1..N PROVE F[o] \in Results
      OBVIOUS
    <3>1. o \in 1..N /\ \A p \in o + 1..N : p \in N - n + 1..N
      BY <1>2
    <3>2. \A p \in o + 1..N : F[p] \in Results
      BY <1>2, <2>2, <3>1
    <3>3. Round(F, o) \in Results
      BY <1>3, <3>1, <3>2
    <3> QED BY <1>6, <3>1, <3>3
  <2> HIDE DEF P
  <2> QED BY <2>1, <2>2, NatSetInduction
<1>8. N \in P /\ N - N + 1 = 1
  BY <1>2, <1>7
<1>9. F[start] \in Results
  BY <1>2, <1>8
<1> DEFINE pos  == _ReadLine(b, start)
           next == start + pos + 2
<1>10. ASSUME pos = 0 PROVE F[start] = [outcome |-> "parsed", headers |-> 0]
  <2>1. Round(F, start) = [outcome |-> "parsed", headers |-> 0]
    BY <1>10 DEF Round
  <2> QED BY <1>6, <2>1
<1>11. ASSUME pos \in Nat \ {0}, next <= Len(b)
       PROVE  F[start] = [Options(b, next) EXCEPT !.headers = @ + 1]
  <2> HIDE DEF pos
  <2>1. next \in 1..Len(b) + 1 /\ ~(Len(b) < next) /\ pos # -1 /\ pos # 0
    BY <1>2, <1>11
  <2>2. Round(F, start) = [F[next] EXCEPT !.headers = @ + 1]
    BY <2>1 DEF Round, pos
  <2>3. F[start] = Round(F, start)
    BY <1>6
  <2>4. F[next] = Options(b, next)
    BY <1>1, <2>1
  <2> HIDE DEF next
  <2> QED BY <2>2, <2>3, <2>4
<1>12. Options(b, start) = F[start]
  BY <1>1
<1> HIDE DEF pos, next
<1> QED BY <1>9, <1>10, <1>11, <1>12 DEF pos, next

\* What the parser makes of a buffer; it overruns only where there is no line.
LEMMA ParseResult ==
  ASSUME NEW b \in Seq(Bytes)
  PROVE  LET result == _ParseRequestHeader(b)
         IN  /\ result.outcome \in Outcomes \ {"none"} /\ result.headers \in Nat
             /\ result.outcome = "crash" => CRLF \notin SubSeqs(b)
<1> DEFINE pos == _ReadLine(b, 1)
           result == _ParseRequestHeader(b)
<1>1. \/ /\ pos = -1
         /\ \A i \in 1..Len(b) - 1 : ~(b[i] = "r" /\ b[i + 1] = "n")
      \/ /\ pos \in Nat /\ 1 + pos + 1 <= Len(b)
         /\ b[1 + pos] = "r" /\ b[1 + pos + 1] = "n"
  BY ReadLineFinds
<1>2. CASE pos = -1
  <2>1. result = [outcome |-> "crash", headers |-> 0]
    BY <1>2 DEF _ParseRequestHeader
  <2>2. CRLF \notin SubSeqs(b)
    <3> HIDE DEF pos
    <3> QED BY <1>1, <1>2, LineEndAt
  <2> QED BY <2>1, <2>2 DEF Outcomes
<1>3. CASE pos # -1
  <2>1. pos \in Nat /\ pos + 3 \in 1..Len(b) + 1
    BY <1>1, <1>3
  <2>2. \/ result = [outcome |-> "default", headers |-> 0]
        \/ result = Options(b, pos + 3)
    BY <1>3 DEF _ParseRequestHeader
  <2> HIDE DEF pos, result
  <2>3. Options(b, pos + 3) \in Results
    BY <2>1, OptionsResult
  <2> QED BY <2>2, <2>3 DEF Results, Outcomes, result
<1> QED BY <1>2, <1>3

\* A line ends at the i-th byte.
LineEnd(b, i) == b[i] = "r" /\ b[i + 1] = "n"

\* The first line end of a buffer.
LEMMA FirstLineEnd ==
  ASSUME NEW b \in Seq(Bytes), CRLF \in SubSeqs(b)
  PROVE  LET e == IndexFirstSubSeq(CRLF, b)
         IN  e \in 1..Len(b) - 1 /\ LineEnd(b, e) /\ \A i \in 1..e - 1 : ~LineEnd(b, i)
<1>1. PICK p \in 0..Len(b) - Len(CRLF) :
         /\ IndexFirstSubSeq(CRLF, b) = p + 1 /\ StandsAt(CRLF, b, p)
         /\ \A i \in Nat : i < p => ~StandsAt(CRLF, b, i)
  <2>1. CRLF \in Seq(Bytes) /\ Len(CRLF) >= 1
    BY LineEnds
  <2> QED BY <2>1, IndexFirst, Zenon
<1>2. ASSUME NEW i \in Int PROVE StandsAt(CRLF, b, i) <=> LineEnd(b, i + 1)
  BY LineEnds DEF StandsAt, LineEnd
<1>3. p \in Int /\ p + 1 \in 1..Len(b) - 1
  BY LineEnds
<1>4. ASSUME NEW i \in 1..(p + 1) - 1 PROVE ~LineEnd(b, i)
  <2>1. i - 1 \in Nat /\ i - 1 < p /\ (i - 1) + 1 = i
    BY <1>3
  <2>2. ~StandsAt(CRLF, b, i - 1)
    BY <1>1, <2>1
  <2>3. i - 1 \in Int
    BY <2>1
  <2> QED BY <1>2, <2>1, <2>2, <2>3
<1> QED BY <1>1, <1>2, <1>3, <1>4

\* The empty line of a whole request: the first of two line ends on end.
LEMMA EmptyLineAt ==
  ASSUME NEW b \in Seq(Bytes), Whole(b)
  PROVE  LET e == EmptyLine(b)
         IN  /\ e \in 1..Len(b) - 3 /\ LineEnd(b, e) /\ LineEnd(b, e + 2)
             /\ \A i \in 1..e - 1 : ~(LineEnd(b, i) /\ LineEnd(b, i + 2))
<1> DEFINE w == CRLF \o CRLF
<1>1. /\ w \in Seq(Bytes) /\ Len(w) = 4 /\ w \in SubSeqs(b)
      /\ w[1] = "r" /\ w[2] = "n" /\ w[3] = "r" /\ w[4] = "n"
      /\ EmptyLine(b) = IndexFirstSubSeq(w, b)
  BY LineEnds DEF Whole, EmptyLine
<1> HIDE DEF w
<1>2. PICK p \in 0..Len(b) - Len(w) :
         /\ IndexFirstSubSeq(w, b) = p + 1 /\ StandsAt(w, b, p)
         /\ \A i \in Nat : i < p => ~StandsAt(w, b, i)
  <2>1. Len(w) >= 1
    BY <1>1
  <2> QED BY <1>1, <2>1, IndexFirst, Zenon
<1>3. ASSUME NEW i \in Int
      PROVE  StandsAt(w, b, i) <=> LineEnd(b, i + 1) /\ LineEnd(b, (i + 1) + 2)
  <2>1. \A j \in 1..4 : j = 1 \/ j = 2 \/ j = 3 \/ j = 4
    OBVIOUS
  <2>2. (i + 1) + 1 = i + 2 /\ (i + 1) + 2 = i + 3 /\ ((i + 1) + 2) + 1 = i + 4
    OBVIOUS
  <2>3. StandsAt(w, b, i) <=> /\ b[i + 1] = "r" /\ b[i + 2] = "n"
                              /\ b[i + 3] = "r" /\ b[i + 4] = "n"
    BY <1>1, <2>1 DEF StandsAt
  <2> QED BY <2>2, <2>3 DEF LineEnd
<1>4. p \in Int /\ p + 1 \in 1..Len(b) - 3
  BY <1>1
<1>5. ASSUME NEW i \in 1..(p + 1) - 1 PROVE ~(LineEnd(b, i) /\ LineEnd(b, i + 2))
  <2>1. i - 1 \in Nat /\ i - 1 < p /\ (i - 1) + 1 = i
    BY <1>4
  <2>2. ~StandsAt(w, b, i - 1)
    BY <1>2, <2>1
  <2>3. i - 1 \in Int
    BY <2>1
  <2> QED BY <1>3, <2>1, <2>2, <2>3
<1> QED BY <1>1, <1>2, <1>3, <1>4, <1>5

\* _ReadLine stops at the first line end in sight.
LEMMA ReadLineStops ==
  ASSUME NEW b \in Seq(Bytes), NEW offset \in Nat \ {0},
         NEW e \in offset..Len(b) - 1, LineEnd(b, e)
  PROVE  LET pos == _ReadLine(b, offset)
         IN  /\ pos \in Nat /\ offset + pos <= e /\ LineEnd(b, offset + pos)
             /\ \A i \in offset..offset + pos - 1 : ~LineEnd(b, i)
<1> DEFINE pos == _ReadLine(b, offset)
<1>1. \/ /\ pos = -1
         /\ \A i \in offset..Len(b) - 1 : ~(b[i] = "r" /\ b[i + 1] = "n")
      \/ /\ pos \in Nat /\ offset + pos + 1 <= Len(b)
         /\ b[offset + pos] = "r" /\ b[offset + pos + 1] = "n"
         /\ \A i \in offset..offset + pos - 1 : ~(b[i] = "r" /\ b[i + 1] = "n")
  BY ReadLineFinds
<1> HIDE DEF pos
<1>2. pos \in Nat
  BY <1>1 DEF LineEnd
<1>3. LineEnd(b, offset + pos) /\ \A i \in offset..offset + pos - 1 : ~LineEnd(b, i)
  BY <1>1, <1>2 DEF LineEnd
<1>4. offset + pos <= e
  <2> SUFFICES ASSUME ~(offset + pos <= e) PROVE FALSE
    OBVIOUS
  <2>1. e \in offset..offset + pos - 1
    BY <1>2
  <2> QED BY <1>3, <2>1
<1> QED BY <1>2, <1>3, <1>4 DEF pos

\* From any line end on, the option loop counts the line ends up to the empty
\* line: what it skips holds none.
LEMMA OptionsCount ==
  ASSUME NEW b \in Seq(Bytes), Whole(b), NEW p \in 1..EmptyLine(b), LineEnd(b, p)
  PROVE  Options(b, p + 2) =
            [outcome |-> "parsed",
             headers |-> Cardinality({i \in p + 1..EmptyLine(b) : LineEnd(b, i)})]
<1> DEFINE e == EmptyLine(b)
           N == Len(b)
           Ends(q) == {i \in q + 1..e : LineEnd(b, i)}
           Counted(q) == Options(b, q + 2) =
                            [outcome |-> "parsed", headers |-> Cardinality(Ends(q))]
           P == {n \in Nat : \A q \in 1..e : LineEnd(b, q) /\ e - q <= n => Counted(q)}
<1>1. /\ e \in 1..N - 3 /\ LineEnd(b, e) /\ LineEnd(b, e + 2)
      /\ \A i \in 1..e - 1 : ~(LineEnd(b, i) /\ LineEnd(b, i + 2))
  BY EmptyLineAt
<1>2. N \in Nat
  OBVIOUS
<1> HIDE DEF e, N
<1>3. ASSUME NEW q \in 1..e PROVE IsFiniteSet(Ends(q)) /\ Cardinality(Ends(q)) \in Nat
  <2>1. q + 1 \in Int /\ e \in Int
    BY <1>1
  <2>2. IsFiniteSet(q + 1..e)
    BY <2>1, FS_Interval
  <2>3. Ends(q) \in SUBSET (q + 1..e)
    OBVIOUS
  <2> HIDE DEF Ends
  <2>4. IsFiniteSet(Ends(q))
    BY <2>2, <2>3, FS_Subset
  <2> QED BY <2>4, FS_CardinalityType
<1>4. Counted(e)
  <2> DEFINE pos == _ReadLine(b, e + 2)
  <2>1. e + 2 \in Nat \ {0} /\ e + 2 \in e + 2..N - 1 /\ e + 2 \in 1..N + 1
    BY <1>1, <1>2
  <2>2. pos \in Nat /\ (e + 2) + pos <= e + 2
    BY <1>1, <2>1, ReadLineStops DEF N
  <2>3. pos = 0
    <3> HIDE DEF pos
    <3> QED BY <1>1, <2>2
  <2>4. Options(b, e + 2) = [outcome |-> "parsed", headers |-> 0]
    BY <2>1, <2>3, OptionsResult DEF N
  <2>5. Ends(e) = {}
    BY <1>1
  <2>6. Cardinality(Ends(e)) = 0
    BY <2>5, FS_EmptySet
  <2> HIDE DEF Ends
  <2> QED BY <2>4, <2>6
<1>5. ASSUME NEW q \in 1..e, LineEnd(b, q), q # e
      PROVE  \E r \in q + 1..e :
                LineEnd(b, r) /\ (Counted(r) => Counted(q))
  <2> DEFINE pos == _ReadLine(b, q + 2)
             r == (q + 2) + pos
  <2>1. e # q + 1
    <3>1. b[q + 1] = "n" /\ b[e] = "r"
      BY <1>1, <1>5 DEF LineEnd
    <3> QED BY <3>1
  <2>2. q + 2 \in Nat \ {0} /\ e \in q + 2..N - 1 /\ q + 2 \in 1..N + 1
    BY <1>1, <1>2, <1>5, <2>1
  <2>3. /\ pos \in Nat /\ (q + 2) + pos <= e /\ LineEnd(b, (q + 2) + pos)
        /\ \A i \in q + 2..(q + 2) + pos - 1 : ~LineEnd(b, i)
    BY <1>1, <2>2, ReadLineStops DEF N
  <2>4. /\ Options(b, q + 2) \in Results
        /\ pos \in Nat \ {0} /\ (q + 2) + pos + 2 <= N =>
              Options(b, q + 2) = [Options(b, (q + 2) + pos + 2) EXCEPT !.headers = @ + 1]
    BY <2>2, OptionsResult DEF N
  <2> HIDE DEF pos
  <2>5. pos # 0
    <3>1. q \in 1..e - 1 /\ (q + 2) + 0 = q + 2
      BY <1>1, <1>5
    <3> QED BY <1>1, <1>5, <2>3, <3>1
  <2>6. r \in q + 1..e /\ r \in 1..e /\ r + 2 <= N /\ LineEnd(b, r)
    BY <1>1, <1>2, <2>3
  <2>7. Options(b, q + 2) = [Options(b, r + 2) EXCEPT !.headers = @ + 1]
    BY <2>3, <2>4, <2>5, <2>6
  <2>8. \A i \in q + 2..r - 1 : ~LineEnd(b, i)
    BY <2>3
  <2> HIDE DEF r
  <2>9. Ends(q) = Ends(r) \cup {r}
    <3>1. ~LineEnd(b, q + 1)
      BY <1>5 DEF LineEnd
    <3>2. ASSUME NEW i \in q + 1..e, LineEnd(b, i) PROVE i \in r + 1..e \/ i = r
      <4>1. i = q + 1 \/ i \in q + 2..r - 1 \/ i \in r + 1..e \/ i = r
        BY <1>1, <2>6
      <4> QED BY <2>8, <3>1, <3>2, <4>1
    <3>3. \A i \in r + 1..e : i \in q + 1..e
      BY <1>1, <2>6
    <3> QED BY <2>6, <3>2, <3>3
  <2>10. r \notin Ends(r)
    BY <2>6
  <2>11. IsFiniteSet(Ends(r)) /\ Cardinality(Ends(r)) \in Nat
    BY <1>3, <2>6
  <2> DEFINE T == Ends(r)
             U == Ends(q)
  <2>12. IsFiniteSet(T) /\ r \notin T /\ U = T \cup {r}
    BY <2>9, <2>10, <2>11
  <2> HIDE DEF T, U
  <2>13. Cardinality(U) = Cardinality(T) + 1
    BY <2>12, FS_AddElement
  <2>14. ASSUME Counted(r) PROVE Counted(q)
    <3>1. Options(b, r + 2) = [outcome |-> "parsed", headers |-> Cardinality(T)]
      BY <2>14 DEF T
    <3>2. Options(b, q + 2) = [outcome |-> "parsed", headers |-> Cardinality(T) + 1]
      BY <2>7, <3>1
    <3>3. Options(b, q + 2) = [outcome |-> "parsed", headers |-> Cardinality(U)]
      BY <2>13, <3>2
    <3> QED BY <3>3 DEF U
  <2> HIDE DEF Counted
  <2> QED BY <2>6, <2>14
<1> HIDE DEF Counted
<1>6. \A n \in Nat : n \in P
  <2>1. 0 \in P
    <3>1. \A q \in 1..e : e - q <= 0 => q = e
      BY <1>1
    <3> QED BY <1>4, <3>1
  <2>2. ASSUME NEW n \in Nat, n \in P PROVE n + 1 \in P
    <3> SUFFICES ASSUME NEW q \in 1..e, LineEnd(b, q), e - q <= n + 1 PROVE Counted(q)
      OBVIOUS
    <3>1. CASE q = e
      BY <1>4, <3>1
    <3>2. CASE q # e
      <4>1. PICK r \in q + 1..e : LineEnd(b, r) /\ (Counted(r) => Counted(q))
        BY <1>5, <3>2
      <4>2. r \in 1..e /\ e - r <= n
        BY <1>1
      <4> QED BY <2>2, <4>1, <4>2
    <3> QED BY <3>1, <3>2
  <2> HIDE DEF P
  <2> QED BY <2>1, <2>2, NatSetInduction
<1>7. e - p \in Nat /\ p \in 1..e /\ e - p <= e - p
  BY <1>1 DEF e
<1>8. e - p \in P
  BY <1>6, <1>7
<1>9. Counted(p)
  BY <1>7, <1>8
<1> QED BY <1>9 DEF Counted, e

\* The parser agrees with the reference: a whole request that begins with three
\* words is parsed, and its header lines are counted.
LEMMA ParseCounts ==
  ASSUME NEW b \in Seq(Bytes), Whole(b), WordCount(RequestLine(b)) >= 3
  PROVE  _ParseRequestHeader(b) = [outcome |-> "parsed", headers |-> HeaderLines(b)]
<1> DEFINE e == EmptyLine(b)
           f == IndexFirstSubSeq(CRLF, b)
           pos == _ReadLine(b, 1)
<1>1. /\ e \in 1..Len(b) - 3 /\ LineEnd(b, e) /\ Len(b) \in Nat
  BY EmptyLineAt
<1>2. f \in 1..Len(b) - 1 /\ LineEnd(b, f) /\ \A i \in 1..f - 1 : ~LineEnd(b, i)
  <2>1. CRLF \in SubSeqs(b)
    BY EmptyLineHasLine DEF Whole
  <2> QED BY <2>1, FirstLineEnd
<1> HIDE DEF e, f
<1>3. /\ pos \in Nat /\ 1 + pos <= e /\ LineEnd(b, 1 + pos)
      /\ \A i \in 1..1 + pos - 1 : ~LineEnd(b, i)
  <2>1. 1 \in Nat \ {0} /\ e \in 1..Len(b) - 1
    BY <1>1
  <2> QED BY <1>1, <2>1, ReadLineStops
<1> HIDE DEF pos
<1>4. f = 1 + pos /\ pos = f - 1 /\ f \in 1..e /\ pos + 3 = f + 2
  <2>1. ~(f < 1 + pos)
    BY <1>2, <1>3
  <2>2. ~(1 + pos < f)
    BY <1>2, <1>3
  <2> QED BY <1>1, <1>2, <1>3, <2>1, <2>2
<1>5. RequestLine(b) = SubSeq(b, 1, pos)
  BY <1>4 DEF RequestLine, f
<1> DEFINE T == {i \in f + 1..e : LineEnd(b, i)}
           U == {i \in 1..e : LineEnd(b, i)}
           words == WordCount(SubSeq(b, 1, pos))
<1>6. words \in Nat /\ words >= 3
  <2>1. words >= 3
    BY <1>5
  <2> DEFINE line == SubSeq(b, 1, pos)
             W == {i \in DOMAIN line : line[i] = "x" /\ (i = 1 \/ line[i - 1] # "x")}
  <2>2. pos \in 0..Len(b)
    BY <1>1, <1>3
  <2>3. line \in Seq(Bytes)
    BY <2>2, Firsts
  <2>4. words = Cardinality(W)
    BY DEF WordCount
  <2> HIDE DEF line
  <2>5. Len(line) \in Nat /\ DOMAIN line = 1..Len(line)
    BY <2>3
  <2>6. IsFiniteSet(1..Len(line))
    BY <2>5, FS_Interval
  <2>7. W \in SUBSET (1..Len(line))
    BY <2>5
  <2> HIDE DEF W
  <2>8. IsFiniteSet(W)
    BY <2>6, <2>7, FS_Subset
  <2>9. Cardinality(W) \in Nat
    BY <2>8, FS_CardinalityType
  <2> QED BY <2>1, <2>4, <2>9
<1> HIDE DEF words
<1>7. _ParseRequestHeader(b) = Options(b, pos + 3)
  <2>1. pos # -1 /\ ~(words < 3)
    BY <1>3, <1>6
  <2> QED BY <2>1 DEF _ParseRequestHeader, pos, words
<1>8. Options(b, f + 2) = [outcome |-> "parsed", headers |-> Cardinality(T)]
  BY <1>2, <1>4, OptionsCount DEF e
<1>9. HeaderLines(b) = Cardinality(U) - 1
  BY DEF HeaderLines, LineEnd, e
<1>10. IsFiniteSet(T) /\ Cardinality(T) \in Nat
  <2>1. f + 1 \in Int /\ e \in Int
    BY <1>1, <1>2
  <2>2. IsFiniteSet(f + 1..e)
    BY <2>1, FS_Interval
  <2>3. T \in SUBSET (f + 1..e)
    OBVIOUS
  <2> HIDE DEF T
  <2>4. IsFiniteSet(T)
    BY <2>2, <2>3, FS_Subset
  <2> QED BY <2>4, FS_CardinalityType
<1>11. U = T \cup {f} /\ f \notin T
  <2>1. ASSUME NEW i \in 1..e, LineEnd(b, i) PROVE i \in f + 1..e \/ i = f
    <3>1. i \in 1..f - 1 \/ i \in f + 1..e \/ i = f
      BY <1>1, <1>2
    <3> QED BY <1>2, <2>1, <3>1
  <2>2. \A i \in f + 1..e : i \in 1..e
    BY <1>1, <1>2
  <2>3. f \notin f + 1..e
    BY <1>2
  <2> QED BY <1>2, <1>4, <2>1, <2>2, <2>3
<1> HIDE DEF T, U
<1>12. Cardinality(U) = Cardinality(T) + 1
  BY <1>10, <1>11, FS_AddElement
<1>13. HeaderLines(b) = Cardinality(T)
  BY <1>9, <1>10, <1>12
<1> QED BY <1>4, <1>7, <1>8, <1>13

\* Two line ends on end make a request whole.
LEMMA WholeAt ==
  ASSUME NEW b \in Seq(Bytes), NEW i \in 1..Len(b) - 3, LineEnd(b, i), LineEnd(b, i + 2)
  PROVE  Whole(b)
<1> DEFINE w == CRLF \o CRLF
           p == i - 1
<1>1. /\ w \in Seq(Bytes) /\ Len(w) = 4
      /\ w[1] = "r" /\ w[2] = "n" /\ w[3] = "r" /\ w[4] = "n"
  BY LineEnds
<1> HIDE DEF w
<1>2. /\ p \in 0..Len(b) - 4 /\ p + 1 = i /\ p + 2 = i + 1 /\ p + 3 = i + 2
      /\ p + 4 = (i + 2) + 1 /\ Len(b) >= 4
  OBVIOUS
<1> HIDE DEF p
<1>3. b[p + 1] = "r" /\ b[p + 2] = "n" /\ b[p + 3] = "r" /\ b[p + 4] = "n"
  BY <1>2 DEF LineEnd
<1>4. StandsAt(w, b, p)
  <2>1. \A j \in 1..4 : j = 1 \/ j = 2 \/ j = 3 \/ j = 4
    OBVIOUS
  <2> QED BY <1>1, <1>3, <2>1 DEF StandsAt
<1>5. w \in SubSeqs(b)
  <2>1. Len(w) >= 1 /\ p \in 0..Len(b) - Len(w)
    BY <1>1, <1>2
  <2> QED BY <1>1, <1>4, <2>1, SubSeqsAt, Zenon
<1> QED BY <1>2, <1>5 DEF Whole, w

\* The end of the second part is the end of the whole.
LEMMA SuffixOfConcat ==
  ASSUME NEW S, NEW s \in Seq(S), NEW a \in Seq(S), NEW c \in Seq(S), IsSuffix(s, c)
  PROVE  IsSuffix(s, a \o c)
<1> DEFINE l == Len(s)
           m == Len(a)
           n == Len(c)
           q == a \o c
<1>1. l \in Nat /\ m \in Nat /\ n \in Nat
  OBVIOUS
<1>2. l <= n /\ \A i \in 1..l : s[i] = c[n - l + i]
  BY SuffixAt
<1>3. /\ q \in Seq(S) /\ Len(q) = m + n
      /\ \A i \in 1..m + n : q[i] = IF i <= m THEN a[i] ELSE c[i - m]
  BY ConcatProperties
<1> HIDE DEF q
<1>4. ASSUME NEW i \in 1..l PROVE s[i] = q[Len(q) - l + i]
  <2>1. /\ Len(q) - l + i \in 1..m + n /\ ~(Len(q) - l + i <= m)
        /\ (Len(q) - l + i) - m = n - l + i
    BY <1>1, <1>2, <1>3
  <2> QED BY <1>2, <1>3, <2>1
<1>5. l <= Len(q)
  BY <1>1, <1>2, <1>3
<1>6. IsSuffix(s, q)
  BY <1>3, <1>4, <1>5, SuffixAt
<1> QED BY <1>6 DEF q

\* A line end behind a line end makes a request whole.
LEMMA WholeAtEnd ==
  ASSUME NEW b \in Seq(Bytes), IsSuffix(CRLF, b)
  PROVE  Whole(b \o CRLF)
<1> DEFINE N == Len(b)
           q == b \o CRLF
<1>1. N \in Nat /\ N >= 2 /\ b[N - 1] = "r" /\ b[N] = "n"
  <2>1. /\ Len(CRLF) <= N
        /\ \A i \in 1..Len(CRLF) : CRLF[i] = b[N - Len(CRLF) + i]
    BY LineEnds, SuffixAt
  <2>2. N \in Nat /\ N - 2 + 1 = N - 1 /\ N - 2 + 2 = N
    OBVIOUS
  <2> QED BY <2>1, <2>2, LineEnds
<1>2. /\ q \in Seq(Bytes) /\ Len(q) = N + 2
      /\ \A i \in 1..N + 2 : q[i] = IF i <= N THEN b[i] ELSE CRLF[i - N]
  BY LineEnds, ConcatProperties
<1> HIDE DEF N, q
<1>3. /\ N - 1 \in 1..N + 2 /\ N \in 1..N + 2 /\ N + 1 \in 1..N + 2 /\ N + 2 \in 1..N + 2
      /\ N - 1 <= N /\ N <= N /\ ~(N + 1 <= N) /\ ~(N + 2 <= N)
      /\ (N + 1) - N = 1 /\ (N + 2) - N = 2
      /\ (N - 1) + 1 = N /\ (N - 1) + 2 = N + 1 /\ (N + 1) + 1 = N + 2
  BY <1>1
<1>4. /\ q[N - 1] = b[N - 1] /\ q[N] = b[N] /\ q[N + 1] = CRLF[1] /\ q[N + 2] = CRLF[2]
  BY <1>2, <1>3
<1>5. LineEnd(q, N - 1) /\ LineEnd(q, (N - 1) + 2)
  BY <1>1, <1>3, <1>4, LineEnds DEF LineEnd
<1>6. N - 1 \in 1..Len(q) - 3
  BY <1>1, <1>2
<1>7. Whole(q)
  BY <1>2, <1>5, <1>6, WholeAt
<1> QED BY <1>7 DEF q

\* Segments that end in line ends do so together.
LEMMA LinesEnd ==
  ASSUME NEW r \in Seq(Seq(Bytes)), \A i \in DOMAIN r : IsSuffix(CRLF, r[i]),
         NEW n \in 1..Len(r)
  PROVE  IsSuffix(CRLF, FlattenSeq(SubSeq(r, 1, n)))
<1> DEFINE last == r[n]
           front == FlattenSeq(SubSeq(r, 1, n - 1))
<1>1. last \in Seq(Bytes) /\ IsSuffix(CRLF, last)
  OBVIOUS
<1>2. front \in Seq(Bytes)
  <2>1. n - 1 \in 0..Len(r)
    OBVIOUS
  <2>2. SubSeq(r, 1, n - 1) \in Seq(Seq(Bytes))
    BY <2>1, Firsts
  <2> QED BY <2>2, FlattenBytes
<1>3. FlattenSeq(SubSeq(r, 1, n)) = front \o last
  BY FlattenNext
<1> HIDE DEF last, front
<1> QED BY <1>1, <1>2, <1>3, LineEnds, SuffixOfConcat

\* Bytes behind the empty line change neither the request line nor the count.
LEMMA PrefixParses ==
  ASSUME NEW b \in Seq(Bytes), NEW t \in Seq(Bytes), Whole(b),
         Len(b) <= Len(t), \A i \in 1..Len(b) : b[i] = t[i]
  PROVE  RequestLine(b) = RequestLine(t) /\ HeaderLines(b) = HeaderLines(t)
<1>1. CRLF \in SubSeqs(b)
  BY EmptyLineHasLine DEF Whole
<1> DEFINE f == IndexFirstSubSeq(CRLF, b)
           e == EmptyLine(b)
<1>2. f = IndexFirstSubSeq(CRLF, t)
  <2>1. CRLF \in Seq(Bytes) /\ Len(CRLF) >= 1
    BY LineEnds
  <2> QED BY <1>1, <2>1, IndexOfPrefix, Zenon
<1>3. e = EmptyLine(t)
  <2> DEFINE w == CRLF \o CRLF
  <2>1. w \in Seq(Bytes) /\ Len(w) >= 1 /\ w \in SubSeqs(b)
    BY LineEnds DEF Whole
  <2> HIDE DEF w
  <2>2. IndexFirstSubSeq(w, b) = IndexFirstSubSeq(w, t)
    BY <2>1, IndexOfPrefix, Zenon
  <2> QED BY <2>2 DEF EmptyLine, w
<1>4. f \in 1..Len(b) - 1
  BY <1>1, FirstLineEnd
<1>5. e \in 1..Len(b) - 3
  BY EmptyLineAt
<1> HIDE DEF e, f
<1>6. RequestLine(b) = RequestLine(t)
  <2> DEFINE n == f - 1
             u == SubSeq(b, 1, n)
             v == SubSeq(t, 1, n)
  <2>1. n \in 0..Len(b) /\ n \in 0..Len(t) /\ \A i \in 1..n : i \in 1..Len(b)
    BY <1>4
  <2> HIDE DEF n
  <2>2. u \in Seq(Bytes) /\ Len(u) = n /\ \A i \in 1..n : u[i] = b[i]
    BY <2>1, Firsts
  <2>3. v \in Seq(Bytes) /\ Len(v) = n /\ \A i \in 1..n : v[i] = t[i]
    BY <2>1, Firsts
  <2> HIDE DEF u, v
  <2>4. \A i \in 1..n : u[i] = v[i]
    BY <2>1, <2>2, <2>3
  <2>5. u = v
    BY <2>2, <2>3, <2>4, SeqEqual
  <2> QED BY <1>2, <2>5 DEF RequestLine, f, u, v, n
<1>7. HeaderLines(b) = HeaderLines(t)
  <2>1. \A i \in 1..e : i \in 1..Len(b) /\ i + 1 \in 1..Len(b)
    BY <1>5
  <2>2. \A i \in 1..e : b[i] = t[i] /\ b[i + 1] = t[i + 1]
    BY <2>1
  <2>3. {i \in 1..e : b[i] = "r" /\ b[i + 1] = "n"} = {i \in 1..e : t[i] = "r" /\ t[i + 1] = "n"}
    BY <2>2
  <2> QED BY <1>3, <2>3 DEF HeaderLines, e
<1> QED BY <1>6, <1>7

-----------------------------------------------------------------------------
(* The steps. *)

\* A thread starts with an empty buffer and a client that has sent nothing.
LEMMA InitRequest == Init => RequestInv
<1> SUFFICES ASSUME Init PROVE RequestInv
  OBVIOUS
<1>1. request \in Seq(Seq(Bytes))
  BY HttpRequestAssumption DEF Init
<1>2. IsSuffix(unsent, request) /\ IsSuffix(chunk, buffer)
  <2>1. IsSuffix(request, request)
    BY <1>1, SuffixAt
  <2>2. IsSuffix(<<>>, <<>>)
    <3>1. <<>> \in Seq(Bytes) /\ Len(<<>>) <= Len(<<>>)
          /\ \A i \in 1..Len(<<>>) : <<>>[i] = <<>>[Len(<<>>) - Len(<<>>) + i]
      OBVIOUS
    <3> QED BY <3>1, SuffixAt, Zenon
  <2> QED BY <2>1, <2>2 DEF Init
<1>3. TypeOK
  BY <1>2, HttpRequestAssumption DEF Init, TypeOK, Outcomes
<1>4. ~scanForEnd(<<>>)
  BY LineEnds DEF scanForEnd
<1>5. ReadInv
  BY <1>1, <1>4, HttpRequestAssumption DEF Init, ReadInv
<1> QED BY <1>3, <1>5 DEF Init, RequestInv, StopsEarlyOnlyOnBareLineEnd, OverrunOnlyWithoutLine

\* What a read takes out of the net: at least one byte, and no more than fits.
LEMMA ReadBytes ==
  ASSUME RequestInv, NEW k \in 1..Len(net), Read(k)
  PROVE  /\ chunk' \in Seq(Bytes) /\ chunk' # <<>>
         /\ buffer' = buffer \o chunk' /\ buffer' \in Seq(Bytes) /\ Len(buffer') <= dataMax
         /\ net' \in Seq(Seq(Bytes)) /\ \A i \in DOMAIN net' : net'[i] # <<>>
<1> DEFINE taken == SubSeq(net, 1, k)
           bytes == FlattenSeq(taken)
           got   == Fits(Len(bytes))
           rest  == SubSeq(bytes, got + 1, Len(bytes))
           later == SubSeq(net, k + 1, Len(net))
<1>1. /\ outcome = "none"
      /\ chunk' = SubSeq(bytes, 1, got)
      /\ buffer' = buffer \o chunk'
      /\ net' = IF rest = <<>> THEN later ELSE <<rest>> \o later
  BY DEF Read
<1>2. /\ net \in Seq(Seq(Bytes)) /\ \A i \in 1..Len(net) : net[i] # <<>>
      /\ buffer \in Seq(Bytes) /\ Len(buffer) < dataMax /\ Len(net) \in Nat
  <2>1. net \in Seq(Seq(Bytes)) /\ buffer \in Seq(Bytes)
    BY DEF RequestInv, TypeOK
  <2>2. Len(buffer) < dataMax /\ \A i \in DOMAIN net : net[i] # <<>>
    BY <1>1 DEF RequestInv, ReadInv
  <2>3. DOMAIN net = 1..Len(net) /\ Len(net) \in Nat
    BY <2>1
  <2> QED BY <2>1, <2>2, <2>3
<1>3. /\ taken \in Seq(Seq(Bytes)) /\ Len(taken) = k /\ taken[1] = net[1]
      /\ k \in Nat \ {0}
  BY <1>2
<1>4. later \in Seq(Seq(Bytes)) /\ \A i \in 1..Len(later) : later[i] # <<>>
  BY <1>2, <1>3
<1>5. bytes \in Seq(Bytes) /\ Len(bytes) >= 1
  <2>1. taken[1] # <<>> /\ Len(taken) >= 1
    BY <1>2, <1>3
  <2> HIDE DEF taken
  <2> QED BY <1>3, <2>1, FlattenType
<1> HIDE DEF bytes, later
<1>6. got \in 1..Len(bytes) /\ Len(buffer) + got <= dataMax /\ Len(bytes) \in Nat
  <2> DEFINE room == dataMax - Len(buffer)
  <2>1. room \in Nat \ {0} /\ Len(bytes) \in Nat \ {0} /\ Len(buffer) \in Nat
    BY <1>2, <1>5, HttpRequestAssumption
  <2>2. got = IF Len(bytes) < room THEN Len(bytes) ELSE room
    BY DEF Fits
  <2> HIDE DEF got
  <2> QED BY <2>1, <2>2, HttpRequestAssumption
<1> HIDE DEF got
<1>7. chunk' \in Seq(Bytes) /\ Len(chunk') = got /\ chunk' # <<>>
  <2> DEFINE c == SubSeq(bytes, 1, got)
  <2>1. c \in Seq(Bytes) /\ Len(c) = got
    BY <1>5, <1>6
  <2>2. c # <<>>
    <3> HIDE DEF c
    <3> QED BY <1>6, <2>1
  <2> QED BY <1>1, <2>1, <2>2
<1>8. buffer' \in Seq(Bytes) /\ Len(buffer') = Len(buffer) + got
  BY <1>1, <1>2, <1>7
<1>9. rest \in Seq(Bytes)
  BY <1>5, <1>6
<1>10. net' \in Seq(Seq(Bytes)) /\ \A i \in DOMAIN net' : net'[i] # <<>>
  <2> HIDE DEF rest
  <2>1. CASE rest = <<>>
    BY <1>1, <1>4, <2>1
  <2>2. CASE rest # <<>>
    <3>1. net' = <<rest>> \o later
      BY <1>1, <2>2
    <3>2. <<rest>> \in Seq(Seq(Bytes)) /\ Len(<<rest>>) = 1 /\ <<rest>>[1] = rest
      BY <1>9
    <3>3. net' \in Seq(Seq(Bytes)) /\ Len(net') = 1 + Len(later)
          /\ \A i \in 1..1 + Len(later) :
                net'[i] = IF i <= 1 THEN <<rest>>[i] ELSE later[i - 1]
      BY <1>4, <3>1, <3>2, ConcatProperties
    <3>4. ASSUME NEW i \in 1..1 + Len(later) PROVE net'[i] # <<>>
      <4>1. CASE i = 1
        BY <2>2, <3>2, <3>3, <4>1
      <4>2. CASE i # 1
        <5>1. i - 1 \in 1..Len(later) /\ ~(i <= 1)
          BY <1>4, <4>2
        <5> QED BY <1>4, <3>3, <5>1
      <4> QED BY <4>1, <4>2
    <3> QED BY <3>3, <3>4
  <2> QED BY <2>1, <2>2
<1> QED BY <1>1, <1>6, <1>7, <1>8, <1>10

\* The thread's reads keep the invariant.
LEMMA ReadStep ==
  ASSUME RequestInv, NEW k \in 1..Len(net), Read(k)
  PROVE  RequestInv'
<1>1. /\ chunk' \in Seq(Bytes) /\ chunk' # <<>>
      /\ buffer' = buffer \o chunk' /\ buffer' \in Seq(Bytes) /\ Len(buffer') <= dataMax
      /\ net' \in Seq(Seq(Bytes)) /\ \A i \in DOMAIN net' : net'[i] # <<>>
  BY ReadBytes
<1>2. buffer \in Seq(Bytes) /\ dataMax \in Nat /\ Len(buffer') \in Nat
  BY <1>1, HttpRequestAssumption DEF RequestInv, TypeOK
<1>3. IsSuffix(chunk', buffer')
  BY <1>1, <1>2, ChunkIsSuffix
<1>4. /\ outcome = "none" /\ UNCHANGED <<ssl, request, unsent, peer>>
      /\ IF scanForEnd(chunk') \/ Len(buffer') = dataMax
         THEN Parsed(buffer') ELSE UNCHANGED <<outcome, headers>>
  BY DEF Read
<1>5. scanForEnd(chunk') => /\ chunk' = CRLF \/ Whole(buffer')
                            /\ CRLF \in SubSeqs(buffer')
  <2> SUFFICES ASSUME scanForEnd(chunk')
               PROVE  (chunk' = CRLF \/ Whole(buffer')) /\ CRLF \in SubSeqs(buffer')
    OBVIOUS
  <2>1. CRLF \in SubSeqs(buffer')
    <3>1. CRLF \in SubSeqs(chunk')
      BY <1>1, ScannedHasLine
    <3> QED BY <1>1, <1>2, <3>1, LineEnds, SubSeqsOfSuffix
  <2>2. CASE Len(chunk') >= 4 /\ CRLF \o CRLF \in SubSeqs(chunk')
    <3> DEFINE w == CRLF \o CRLF
    <3>1. w \in Seq(Bytes) /\ Len(w) >= 1 /\ w \in SubSeqs(chunk')
      BY <2>2, LineEnds
    <3> HIDE DEF w
    <3>2. w \in SubSeqs(buffer')
      BY <1>1, <1>2, <3>1, SubSeqsOfSuffix
    <3>3. Len(buffer') >= 4
      BY <1>1, <1>2, <2>2
    <3> QED BY <2>1, <3>2, <3>3 DEF Whole, w
  <2> QED BY <2>1, <2>2 DEF scanForEnd
<1>6. CASE scanForEnd(chunk') \/ Len(buffer') = dataMax
  <2> DEFINE result == _ParseRequestHeader(buffer')
  <2>1. outcome' = result.outcome /\ headers' = result.headers
    BY <1>4, <1>6 DEF Parsed
  <2>2. /\ result.outcome \in Outcomes \ {"none"} /\ result.headers \in Nat
        /\ result.outcome = "crash" => CRLF \notin SubSeqs(buffer')
    BY <1>1, ParseResult
  <2> HIDE DEF result
  <2>3. TypeOK'
    BY <1>1, <1>3, <1>4, <2>1, <2>2 DEF RequestInv, TypeOK
  <2>4. ReadInv'
    BY <1>1, <1>4, <2>1, <2>2 DEF RequestInv, ReadInv
  <2>5. StopsEarlyOnlyOnBareLineEnd'
    BY <1>5, <1>6 DEF StopsEarlyOnlyOnBareLineEnd
  <2>6. OverrunOnlyWithoutLine'
    BY <1>5, <1>6, <2>1, <2>2 DEF OverrunOnlyWithoutLine
  <2> QED BY <2>3, <2>4, <2>5, <2>6 DEF RequestInv
<1>7. CASE ~(scanForEnd(chunk') \/ Len(buffer') = dataMax)
  <2>1. UNCHANGED <<outcome, headers>>
    BY <1>4, <1>7
  <2>2. TypeOK'
    BY <1>1, <1>3, <1>4, <2>1 DEF RequestInv, TypeOK
  <2>3. ReadInv'
    <3>1. \A m, n \in Nat : m <= n /\ m # n => m < n
      OBVIOUS
    <3>2. Len(buffer') < dataMax
      BY <1>1, <1>2, <1>7, <3>1, Zenon
    <3> QED BY <1>1, <1>4, <1>7, <2>1, <3>2 DEF RequestInv, ReadInv
  <2> QED BY <1>4, <2>1, <2>2, <2>3
          DEF RequestInv, StopsEarlyOnlyOnBareLineEnd, OverrunOnlyWithoutLine
<1> QED BY <1>6, <1>7

\* Every step keeps the invariant.
LEMMA StepRequest == RequestInv /\ [Next]_vars => RequestInv'
<1> SUFFICES ASSUME RequestInv, [Next]_vars PROVE RequestInv'
  OBVIOUS
<1>1. ASSUME NEW k \in 1..Len(net), Read(k) PROVE RequestInv'
  BY <1>1, ReadStep
<1>2. CASE ReadEof
  <2> DEFINE result == _ParseRequestHeader(buffer)
  <2>1. /\ outcome = "none" /\ peer = "closed"
        /\ UNCHANGED <<ssl, request, unsent, net, peer, buffer, chunk>>
        /\ \/ outcome' = "dropped" /\ headers' = headers
           \/ outcome' = result.outcome /\ headers' = result.headers
    BY <1>2 DEF ReadEof, Parsed
  <2>2. /\ result.outcome \in Outcomes \ {"none"} /\ result.headers \in Nat
        /\ result.outcome = "crash" => CRLF \notin SubSeqs(buffer)
    BY ParseResult DEF RequestInv, TypeOK
  <2> HIDE DEF result
  <2>3. TypeOK'
    BY <2>1, <2>2 DEF RequestInv, TypeOK, Outcomes
  <2>4. ReadInv'
    BY <2>1, <2>2 DEF RequestInv, ReadInv
  <2>5. StopsEarlyOnlyOnBareLineEnd' /\ OverrunOnlyWithoutLine'
    BY <2>1, <2>2 DEF StopsEarlyOnlyOnBareLineEnd, OverrunOnlyWithoutLine
  <2> QED BY <2>3, <2>4, <2>5 DEF RequestInv
<1>3. CASE ReadFails
  BY <1>3 DEF ReadFails, RequestInv, TypeOK, Outcomes, ReadInv,
              StopsEarlyOnlyOnBareLineEnd, OverrunOnlyWithoutLine
<1>4. CASE ClientWrite
  <2>1. /\ unsent # <<>> /\ net' = Append(net, Head(unsent)) /\ unsent' = Tail(unsent)
        /\ UNCHANGED <<ssl, request, peer, buffer, chunk, outcome, headers>>
    BY <1>4 DEF ClientWrite
  <2>2. /\ request \in Seq(Seq(Bytes)) /\ unsent \in Seq(Seq(Bytes))
        /\ net \in Seq(Seq(Bytes))
        /\ \A i \in 1..Len(request) : request[i] # <<>>
    <3>1. request \in Seq(Seq(Bytes)) /\ \A i \in DOMAIN request : request[i] # <<>>
      BY HttpRequestAssumption DEF RequestInv, TypeOK
    <3>2. unsent \in Seq(Seq(Bytes)) /\ net \in Seq(Seq(Bytes))
      BY DEF RequestInv, TypeOK, ReadInv
    <3>3. DOMAIN request = 1..Len(request)
      BY <3>1
    <3> QED BY <3>1, <3>2, <3>3
  <2>3. /\ Len(unsent) <= Len(request)
        /\ \A i \in 1..Len(unsent) : unsent[i] = request[Len(request) - Len(unsent) + i]
    BY <2>2, SuffixAt DEF RequestInv, TypeOK
  <2>4. /\ Len(unsent) \in Nat \ {0} /\ Len(request) \in Nat
        /\ Head(unsent) = unsent[1] /\ Head(unsent) \in Seq(Bytes)
    BY <2>1, <2>2
  <2>5. Head(unsent) # <<>>
    <3>1. Len(request) - Len(unsent) + 1 \in 1..Len(request) /\ 1 \in 1..Len(unsent)
      BY <2>3, <2>4
    <3> QED BY <2>2, <2>3, <2>4, <3>1
  <2>6. /\ unsent' \in Seq(Seq(Bytes)) /\ Len(unsent') = Len(unsent) - 1
        /\ \A i \in 1..Len(unsent') : unsent'[i] = unsent[i + 1]
    BY <2>1, <2>2
  <2>7. IsSuffix(unsent', request)
    <3>1. ASSUME NEW i \in 1..Len(unsent')
          PROVE  unsent'[i] = request[Len(request) - Len(unsent') + i]
      <4>1. i + 1 \in 1..Len(unsent)
            /\ Len(request) - Len(unsent) + (i + 1) = Len(request) - Len(unsent') + i
        BY <2>4, <2>6
      <4> QED BY <2>3, <2>6, <4>1
    <3>2. Len(unsent') <= Len(request)
      BY <2>3, <2>4, <2>6
    <3> QED BY <2>2, <2>6, <3>1, <3>2, SuffixAt
  <2>8. /\ net' \in Seq(Seq(Bytes)) /\ Len(net') = Len(net) + 1
        /\ \A i \in 1..Len(net') : net'[i] = IF i <= Len(net) THEN net[i] ELSE Head(unsent)
    <3> DEFINE e == Head(unsent)
    <3>1. e \in Seq(Bytes) /\ net' = Append(net, e)
      BY <2>1, <2>4
    <3> HIDE DEF e
    <3>2. /\ net' \in Seq(Seq(Bytes)) /\ Len(net') = Len(net) + 1
          /\ \A i \in 1..Len(net') : net'[i] = IF i <= Len(net) THEN net[i] ELSE e
      BY <2>2, <3>1
    <3> QED BY <3>2 DEF e
  <2>9. \A i \in DOMAIN net' : net'[i] # <<>>
    <3>1. \A i \in DOMAIN net : net[i] # <<>>
      BY DEF RequestInv, ReadInv
    <3>2. /\ DOMAIN net = 1..Len(net) /\ DOMAIN net' = 1..Len(net')
          /\ Len(net) \in Nat
      BY <2>2, <2>8
    <3> SUFFICES ASSUME NEW i \in 1..Len(net') PROVE net'[i] # <<>>
      BY <3>2
    <3>3. net'[i] = IF i <= Len(net) THEN net[i] ELSE Head(unsent)
      BY <2>8
    <3>4. i <= Len(net) => i \in 1..Len(net)
      BY <3>2
    <3> QED BY <2>5, <3>1, <3>2, <3>3, <3>4
  <2>10. TypeOK'
    BY <2>1, <2>7, <2>8 DEF RequestInv, TypeOK
  <2>11. ReadInv'
    BY <2>1, <2>6, <2>9 DEF RequestInv, ReadInv
  <2> QED BY <2>1, <2>10, <2>11
          DEF RequestInv, StopsEarlyOnlyOnBareLineEnd, OverrunOnlyWithoutLine
<1>5. CASE ClientLeaves
  BY <1>5 DEF ClientLeaves, RequestInv, TypeOK, ReadInv,
              StopsEarlyOnlyOnBareLineEnd, OverrunOnlyWithoutLine
<1>6. CASE UNCHANGED vars
  BY <1>6 DEF vars, RequestInv, TypeOK, ReadInv,
              StopsEarlyOnlyOnBareLineEnd, OverrunOnlyWithoutLine
<1> QED BY <1>1, <1>2, <1>3, <1>4, <1>5, <1>6 DEF Next, Server

\* The invariant holds in every reachable state.
THEOREM RequestInductive == Spec => []RequestInv
  BY InitRequest, StepRequest, PTL DEF Spec

-----------------------------------------------------------------------------
\* The buffer never overflows, the last chunk is its end, and what the parser
\* returns is an outcome and a count, whatever the client sent.
THEOREM RequestTypes == Spec => []TypeOK
<1>1. RequestInv => TypeOK
  BY DEF RequestInv
<1> QED BY <1>1, RequestInductive, PTL

\* recvRequest reads on behind the end of a request only if that end was cut so
\* that the last chunk has one byte or three.
THEOREM MissedEndWasCut == Spec => []MissesOnlyCutEnd
<1>1. RequestInv => MissesOnlyCutEnd
  <2> DEFINE w == CRLF \o CRLF
  <2> SUFFICES ASSUME RequestInv, outcome = "none", IsSuffix(w, buffer)
               PROVE  Len(chunk) \in {1, 3}
    BY DEF MissesOnlyCutEnd
  <2>1. /\ w \in Seq(Bytes) /\ Len(w) = 4
        /\ w[1] = "r" /\ w[2] = "n" /\ w[3] = "r" /\ w[4] = "n"
    BY LineEnds
  <2>2. /\ chunk \in Seq(Bytes) /\ buffer \in Seq(Bytes) /\ IsSuffix(chunk, buffer)
        /\ chunk = <<>> => buffer = <<>>
    BY DEF RequestInv, TypeOK, ReadInv
  <2>3. chunk # CRLF /\ ~(Len(chunk) >= 4 /\ w \in SubSeqs(chunk))
    BY DEF RequestInv, ReadInv, scanForEnd
  <2> HIDE DEF w
  <2>4. /\ 4 <= Len(buffer)
        /\ \A i \in 1..4 : w[i] = buffer[Len(buffer) - 4 + i]
    <3>1. /\ Len(w) <= Len(buffer)
          /\ \A i \in 1..Len(w) : w[i] = buffer[Len(buffer) - Len(w) + i]
      BY <2>1, <2>2, SuffixAt, Zenon
    <3> QED BY <2>1, <3>1
  <2>5. /\ Len(chunk) <= Len(buffer)
        /\ \A i \in 1..Len(chunk) : chunk[i] = buffer[Len(buffer) - Len(chunk) + i]
    BY <2>2, SuffixAt
  <2>6. Len(chunk) \in Nat /\ Len(buffer) \in Nat
    BY <2>2
  <2>7. Len(chunk) # 0
    BY <2>2, <2>4
  <2>8. Len(chunk) # 2
    <3> SUFFICES ASSUME Len(chunk) = 2 PROVE FALSE
      OBVIOUS
    <3>1. /\ chunk[1] = buffer[Len(buffer) - 1] /\ chunk[2] = buffer[Len(buffer)]
      BY <2>5, <2>6
    <3>2. /\ w[3] = buffer[Len(buffer) - 1] /\ w[4] = buffer[Len(buffer)]
      BY <2>4, <2>6
    <3>3. chunk = CRLF
      BY <2>1, <2>2, <3>1, <3>2, LineEnds, SeqEqual
    <3> QED BY <2>3, <3>3
  <2>9. ~(Len(chunk) >= 4)
    <3> SUFFICES ASSUME Len(chunk) >= 4 PROVE FALSE
      OBVIOUS
    <3> DEFINE i == Len(chunk) - 4
    <3>1. i \in 0..Len(chunk) - Len(w)
      BY <2>1, <2>6
    <3>2. ASSUME NEW j \in 1..4 PROVE w[j] = chunk[i + j]
      <4>1. i + j \in 1..Len(chunk)
            /\ Len(buffer) - Len(chunk) + (i + j) = Len(buffer) - 4 + j
        BY <2>6
      <4> HIDE DEF i
      <4> QED BY <2>4, <2>5, <4>1
    <3> HIDE DEF i
    <3>3. StandsAt(w, chunk, i)
      <4>1. \A j \in 1..Len(w) : w[j] = chunk[i + j]
        BY <2>1, <3>2, Zenon
      <4> QED BY <4>1, Zenon DEF StandsAt
    <3>4. Len(w) >= 1
      BY <2>1
    <3>5. w \in SubSeqs(chunk)
      BY <2>1, <2>2, <3>1, <3>3, <3>4, SubSeqsAt, Zenon
    <3> QED BY <2>3, <3>5
  <2>10. \A n \in Nat : n # 0 /\ n # 2 /\ ~(n >= 4) => n \in {1, 3}
    OBVIOUS
  <2> QED BY <2>6, <2>7, <2>8, <2>9, <2>10, Zenon
<1> QED BY <1>1, RequestInductive, PTL

\* recvRequest gives a request up before its end only on a chunk that is just a
\* line end, on a full buffer, or when the client has closed.
THEOREM EarlyStopIsBareLineEnd == Spec => []StopsEarlyOnlyOnBareLineEnd
<1>1. RequestInv => StopsEarlyOnlyOnBareLineEnd
  BY DEF RequestInv
<1> QED BY <1>1, RequestInductive, PTL

\* _ParseRequestHeader copies beyond the buffer only if no line end was
\* received at all.
THEOREM OverrunNeedsNoLine == Spec => []OverrunOnlyWithoutLine
<1>1. RequestInv => OverrunOnlyWithoutLine
  BY DEF RequestInv
<1> QED BY <1>1, RequestInductive, PTL

-----------------------------------------------------------------------------
(* The client's own requests. *)

\* The segments of the request that the thread has read.
Taken == Len(request) - Len(unsent) - Len(net)

\* While the thread reads, no byte of the request is lost, doubled or out of
\* order: the buffer holds the segments read, and the net the next ones.
SegmentsInOrder ==
    outcome = "none" =>
        /\ Taken \in Nat
        /\ \A i \in 1..Len(net) : net[i] = request[Taken + i]
        /\ buffer = FlattenSeq(SubSeq(request, 1, Taken))

\* The inductive invariant for the client's own requests.
OwnInv == RequestInv /\ SegmentsInOrder /\ OwnClientUnderstood

\* A read continues the stream: the buffer is a beginning of the segments read,
\* and as long as it has room, it holds all of them.
LEMMA ReadContinues ==
  ASSUME RequestInv, SegmentsInOrder, NEW k \in 1..Len(net), Read(k)
  PROVE  LET flat == FlattenSeq(SubSeq(request, 1, Taken + k))
         IN  /\ Stream \in Seq(Bytes) /\ Len(buffer') <= Len(Stream)
             /\ \A i \in 1..Len(buffer') : buffer'[i] = Stream[i]
             /\ Len(buffer') # dataMax =>
                   buffer' = flat /\ net' = SubSeq(net, k + 1, Len(net))
<1> DEFINE m     == Taken
           seg   == SubSeq(net, 1, k)
           bytes == FlattenSeq(seg)
           got   == Fits(Len(bytes))
           rest  == SubSeq(bytes, got + 1, Len(bytes))
           later == SubSeq(net, k + 1, Len(net))
           old   == SubSeq(request, 1, m)
           new   == SubSeq(request, 1, m + k)
           flat  == FlattenSeq(new)
<1>1. /\ outcome = "none"
      /\ chunk' = SubSeq(bytes, 1, got)
      /\ buffer' = buffer \o chunk'
      /\ net' = IF rest = <<>> THEN later ELSE <<rest>> \o later
  BY DEF Read
<1>2. /\ request \in Seq(Seq(Bytes)) /\ unsent \in Seq(Seq(Bytes)) /\ net \in Seq(Seq(Bytes))
      /\ buffer \in Seq(Bytes) /\ Len(buffer) < dataMax /\ dataMax \in Nat
  BY <1>1, HttpRequestAssumption DEF RequestInv, TypeOK, ReadInv
<1>3. /\ m \in Nat /\ \A i \in 1..Len(net) : net[i] = request[m + i]
      /\ buffer = FlattenSeq(old)
  BY <1>1 DEF SegmentsInOrder
<1>4. m + k \in 0..Len(request) /\ m \in 0..Len(request) /\ k \in 0..Len(net)
      /\ Len(net) \in Nat /\ Len(request) \in Nat
  <2>1. Len(net) \in Nat /\ Len(request) \in Nat /\ Len(unsent) \in Nat
    BY <1>2
  <2>2. m = Len(request) - Len(unsent) - Len(net)
    BY DEF Taken
  <2> HIDE DEF m
  <2> QED BY <1>3, <2>1, <2>2
<1> HIDE DEF m
<1>5. old \in Seq(Seq(Bytes)) /\ Len(old) = m /\ \A i \in 1..m : old[i] = request[i]
  BY <1>2, <1>4, Firsts
<1>6. /\ new \in Seq(Seq(Bytes)) /\ Len(new) = m + k
      /\ \A i \in 1..m + k : new[i] = request[i]
  BY <1>2, <1>4, Firsts
<1>7. seg \in Seq(Seq(Bytes)) /\ Len(seg) = k /\ \A i \in 1..k : seg[i] = net[i]
  BY <1>2, <1>4, Firsts
<1>8. Stream \in Seq(Bytes) /\ Len(flat) <= Len(Stream) /\ \A i \in 1..Len(flat) : flat[i] = Stream[i]
  BY <1>2, <1>4, FlattenFirsts DEF Stream
<1> HIDE DEF old, new, seg
<1>9. new = old \o seg
  <2> DEFINE q == old \o seg
  <2>1. /\ q \in Seq(Seq(Bytes)) /\ Len(q) = m + k
        /\ \A i \in 1..m + k : q[i] = IF i <= m THEN old[i] ELSE seg[i - m]
    BY <1>5, <1>7, ConcatProperties
  <2> HIDE DEF q
  <2>2. ASSUME NEW i \in 1..m + k PROVE q[i] = new[i]
    <3>1. CASE i <= m
      <4>1. i \in 1..m
        BY <1>3, <3>1
      <4> QED BY <1>5, <1>6, <2>1, <3>1, <4>1
    <3>2. CASE ~(i <= m)
      <4>1. i - m \in 1..k /\ i - m \in 1..Len(net) /\ m + (i - m) = i
        BY <1>3, <1>4, <3>2
      <4>2. seg[i - m] = request[m + (i - m)]
        BY <1>3, <1>7, <4>1
      <4> QED BY <1>6, <2>1, <3>2, <4>1, <4>2
    <3> QED BY <3>1, <3>2
  <2>3. q = new
    BY <1>6, <2>1, <2>2, SeqEqual
  <2> QED BY <2>3 DEF q
<1>10. bytes \in Seq(Bytes) /\ flat \in Seq(Bytes) /\ flat = buffer \o bytes
  <2>1. bytes \in Seq(Bytes) /\ flat \in Seq(Bytes)
    BY <1>6, <1>7, FlattenBytes
  <2>2. FlattenSeq(old \o seg) = FlattenSeq(old) \o FlattenSeq(seg)
    BY <1>5, <1>7, FlattenConcat
  <2> QED BY <1>3, <1>9, <2>1, <2>2
<1> HIDE DEF bytes, flat, later
<1>11. /\ got \in 0..Len(bytes) /\ Len(bytes) \in Nat /\ Len(buffer) \in Nat
       /\ got = Len(bytes) \/ Len(buffer) + got = dataMax
  <2> DEFINE room == dataMax - Len(buffer)
  <2>1. room \in Nat /\ Len(bytes) \in Nat /\ Len(buffer) \in Nat
    BY <1>2, <1>10
  <2>2. got = IF Len(bytes) < room THEN Len(bytes) ELSE room
    BY DEF Fits
  <2> HIDE DEF got
  <2> QED BY <1>2, <2>1, <2>2
<1>12. chunk' \in Seq(Bytes) /\ Len(chunk') = got /\ \A i \in 1..got : chunk'[i] = bytes[i]
  BY <1>1, <1>10, <1>11, Firsts
<1>13. /\ buffer' \in Seq(Bytes) /\ Len(buffer') = Len(buffer) + got
       /\ \A i \in 1..Len(buffer) + got :
             buffer'[i] = IF i <= Len(buffer) THEN buffer[i] ELSE chunk'[i - Len(buffer)]
  <2> DEFINE c == chunk'
             l == got
  <2>1. buffer \in Seq(Bytes) /\ c \in Seq(Bytes) /\ Len(c) = l /\ buffer' = buffer \o c
    BY <1>1, <1>2, <1>12
  <2> HIDE DEF c, l
  <2>2. /\ buffer' \in Seq(Bytes) /\ Len(buffer') = Len(buffer) + l
        /\ \A i \in 1..Len(buffer) + l :
              buffer'[i] = IF i <= Len(buffer) THEN buffer[i] ELSE c[i - Len(buffer)]
    BY <2>1, ConcatProperties
  <2> QED BY <2>2 DEF c, l
<1>14. /\ Len(flat) = Len(buffer) + Len(bytes)
       /\ \A i \in 1..Len(buffer) + Len(bytes) :
             flat[i] = IF i <= Len(buffer) THEN buffer[i] ELSE bytes[i - Len(buffer)]
  BY <1>2, <1>10, ConcatProperties
<1>15. Len(flat) \in Nat /\ Len(Stream) \in Nat
  BY <1>8, <1>10
<1> HIDE DEF got
<1>16. Len(buffer') <= Len(Stream)
  BY <1>8, <1>11, <1>13, <1>14, <1>15
<1>17. ASSUME NEW i \in 1..Len(buffer') PROVE buffer'[i] = flat[i] /\ flat[i] = Stream[i]
  <2>1. /\ i \in 1..Len(buffer) + got /\ i \in 1..Len(buffer) + Len(bytes)
        /\ i \in 1..Len(flat)
    BY <1>11, <1>13, <1>14, <1>15
  <2>2. Stream[i] = flat[i]
    BY <1>8, <2>1
  <2>3. CASE i <= Len(buffer)
    BY <1>13, <1>14, <2>1, <2>2, <2>3
  <2>4. CASE ~(i <= Len(buffer))
    <3>1. i - Len(buffer) \in 1..got
      BY <1>11, <2>1, <2>4
    <3>2. chunk'[i - Len(buffer)] = bytes[i - Len(buffer)]
      BY <1>12, <3>1
    <3> QED BY <1>13, <1>14, <2>1, <2>2, <2>4, <3>2
  <2> QED BY <2>3, <2>4
<1>18. ASSUME Len(buffer') # dataMax
       PROVE  buffer' = flat /\ net' = later
  <2>1. got = Len(bytes)
    BY <1>11, <1>13, <1>18
  <2>2. chunk' = bytes
    BY <1>10, <1>12, <2>1, SeqEqual
  <2>3. rest = <<>>
    <3>1. got + 1 > Len(bytes)
      BY <1>11, <2>1
    <3> QED BY <1>10, <1>11, <2>1, <3>1, SubSeqEmpty
  <2> HIDE DEF rest
  <2> QED BY <1>1, <1>10, <2>2, <2>3
<1> QED BY <1>8, <1>16, <1>17, <1>18 DEF flat, new, m, later

\* The read that ends an own request has all of it: a chunk that is just a line
\* end comes behind one, and a full buffer reaches the empty line.
LEMMA StopHasWhole ==
  ASSUME RequestInv, SegmentsInOrder, NEW k \in 1..Len(net), Read(k), OwnRequest(request),
         scanForEnd(chunk') \/ Len(buffer') = dataMax
  PROVE  Whole(buffer')
<1>1. /\ Stream \in Seq(Bytes) /\ Len(buffer') <= Len(Stream)
      /\ \A i \in 1..Len(buffer') : buffer'[i] = Stream[i]
  BY ReadContinues
<1>2. /\ \A i \in DOMAIN request : IsSuffix(CRLF, request[i])
      /\ Whole(Stream) /\ EmptyLine(Stream) + 3 <= dataMax
      /\ WordCount(RequestLine(Stream)) >= 3
  BY DEF OwnRequest, Stream
<1>3. /\ buffer' = buffer \o chunk' /\ buffer' \in Seq(Bytes)
      /\ buffer \in Seq(Bytes) /\ chunk' \in Seq(Bytes) /\ outcome = "none"
  BY ReadBytes DEF RequestInv, TypeOK, Read
<1>4. CASE Len(buffer') = dataMax
  <2> DEFINE e == EmptyLine(Stream)
  <2>1. e \in 1..Len(Stream) - 3 /\ LineEnd(Stream, e) /\ LineEnd(Stream, e + 2)
    BY <1>1, <1>2, EmptyLineAt
  <2>2. e + 3 <= Len(buffer')
    BY <1>2, <1>4
  <2> HIDE DEF e
  <2>3. /\ e \in 1..Len(buffer') /\ e + 1 \in 1..Len(buffer')
        /\ e + 2 \in 1..Len(buffer') /\ (e + 2) + 1 \in 1..Len(buffer')
        /\ e \in 1..Len(buffer') - 3
    BY <1>3, <2>1, <2>2
  <2>4. LineEnd(buffer', e) /\ LineEnd(buffer', e + 2)
    BY <1>1, <2>1, <2>3 DEF LineEnd
  <2> QED BY <1>3, <2>3, <2>4, WholeAt
<1>5. CASE chunk' = CRLF
  <2> DEFINE N == Len(buffer)
  <2>1. /\ N \in Nat /\ Len(buffer') = N + 2
        /\ \A i \in 1..N + 2 : buffer'[i] = IF i <= N THEN buffer[i] ELSE CRLF[i - N]
    BY <1>3, <1>5, LineEnds, ConcatProperties
  <2>2. Taken \in Nat /\ buffer = FlattenSeq(SubSeq(request, 1, Taken))
    BY <1>3 DEF SegmentsInOrder
  <2>3. CASE Taken = 0
    <3>1. N = 0
      <4>1. SubSeq(request, 1, 0) = <<>>
        BY SubSeqEmpty
      <4>2. buffer = <<>>
        BY <2>2, <2>3, <4>1 DEF FlattenSeq
      <4> QED BY <4>2
    <3>2. buffer'[1] = "r" /\ buffer'[2] = "n" /\ Len(buffer') = 2
      BY <2>1, <3>1, LineEnds
    <3>3. Stream[1] = "r" /\ Stream[1 + 1] = "n"
      BY <1>1, <3>2
    <3> DEFINE f == IndexFirstSubSeq(CRLF, Stream)
    <3>4. f \in 1..Len(Stream) - 1 /\ \A i \in 1..f - 1 : ~LineEnd(Stream, i)
      <4>1. CRLF \in SubSeqs(Stream)
        BY <1>1, <1>2, EmptyLineHasLine DEF Whole
      <4> QED BY <1>1, <4>1, FirstLineEnd
    <3>5. f - 1 = 0
      <4> HIDE DEF f
      <4>1. 1 \notin 1..f - 1
        BY <3>3, <3>4 DEF LineEnd
      <4> QED BY <3>4, <4>1
    <3>6. RequestLine(Stream) = <<>>
      <4>1. RequestLine(Stream) = SubSeq(Stream, 1, f - 1)
        BY DEF RequestLine
      <4> HIDE DEF f
      <4>2. RequestLine(Stream) = SubSeq(Stream, 1, 0)
        BY <3>5, <4>1
      <4> QED BY <4>2, SubSeqEmpty
    <3>7. WordCount(<<>>) = 0
      <4> DEFINE W == {i \in DOMAIN <<>> : <<>>[i] = "x" /\ (i = 1 \/ <<>>[i - 1] # "x")}
      <4>1. W = {}
        OBVIOUS
      <4>2. WordCount(<<>>) = Cardinality(W)
        BY DEF WordCount
      <4> HIDE DEF W
      <4> QED BY <4>1, <4>2, FS_EmptySet
    <3> QED BY <1>2, <3>6, <3>7
  <2>4. CASE Taken # 0
    <3>1. request \in Seq(Seq(Bytes)) /\ Taken \in 1..Len(request)
      <4>1. request \in Seq(Seq(Bytes)) /\ unsent \in Seq(Seq(Bytes)) /\ net \in Seq(Seq(Bytes))
        BY HttpRequestAssumption DEF RequestInv, TypeOK, ReadInv
      <4>2. Len(request) \in Nat /\ Len(unsent) \in Nat /\ Len(net) \in Nat
        BY <4>1
      <4> QED BY <2>2, <2>4, <4>1, <4>2 DEF Taken
    <3>2. IsSuffix(CRLF, buffer)
      BY <1>2, <2>2, <3>1, LinesEnd
    <3> QED BY <1>3, <1>5, <3>2, WholeAtEnd
  <2> QED BY <2>3, <2>4
<1>6. CASE scanForEnd(chunk') /\ chunk' # CRLF
  <2> DEFINE w == CRLF \o CRLF
  <2>1. w \in Seq(Bytes) /\ Len(w) >= 1 /\ w \in SubSeqs(chunk') /\ Len(chunk') >= 4
    BY <1>6, LineEnds DEF scanForEnd
  <2> HIDE DEF w
  <2>2. w \in SubSeqs(buffer')
    BY <1>3, <2>1, SubSeqsOfSuffix
  <2>3. Len(buffer') >= 4
    BY <1>3, <2>1
  <2> QED BY <2>2, <2>3 DEF Whole, w
<1> QED BY <1>4, <1>5, <1>6

\* A read keeps the invariant.
LEMMA OwnRead ==
  ASSUME OwnInv, NEW k \in 1..Len(net), Read(k)
  PROVE  SegmentsInOrder' /\ OwnClientUnderstood'
<1>1. RequestInv /\ SegmentsInOrder
  BY DEF OwnInv
<1> DEFINE flat == FlattenSeq(SubSeq(request, 1, Taken + k))
<1>2. /\ Stream \in Seq(Bytes) /\ Len(buffer') <= Len(Stream)
      /\ \A i \in 1..Len(buffer') : buffer'[i] = Stream[i]
      /\ Len(buffer') # dataMax => buffer' = flat /\ net' = SubSeq(net, k + 1, Len(net))
  BY <1>1, ReadContinues
<1>3. /\ outcome = "none" /\ UNCHANGED <<ssl, request, unsent, peer>>
      /\ IF scanForEnd(chunk') \/ Len(buffer') = dataMax
         THEN Parsed(buffer') ELSE UNCHANGED <<outcome, headers>>
  BY DEF Read
<1>4. buffer' \in Seq(Bytes)
  BY <1>1, ReadBytes
<1>5. CASE scanForEnd(chunk') \/ Len(buffer') = dataMax
  <2> DEFINE result == _ParseRequestHeader(buffer')
  <2>1. outcome' = result.outcome /\ headers' = result.headers
    BY <1>3, <1>5 DEF Parsed
  <2>2. outcome' # "none"
    BY <1>4, <2>1, ParseResult
  <2>3. SegmentsInOrder'
    BY <2>2 DEF SegmentsInOrder
  <2>4. ASSUME OwnRequest(request)
        PROVE  outcome' = "parsed" /\ headers' = HeaderLines(Stream)
    <3>1. Whole(buffer')
      BY <1>1, <1>5, <2>4, StopHasWhole
    <3>2. RequestLine(buffer') = RequestLine(Stream) /\ HeaderLines(buffer') = HeaderLines(Stream)
      BY <1>2, <1>4, <3>1, PrefixParses
    <3>3. WordCount(RequestLine(buffer')) >= 3
      BY <2>4, <3>2 DEF OwnRequest, Stream
    <3>4. result = [outcome |-> "parsed", headers |-> HeaderLines(buffer')]
      BY <1>4, <3>1, <3>3, ParseCounts
    <3> QED BY <2>1, <3>2, <3>4
  <2>5. OwnClientUnderstood'
    <3>1. request' = request /\ Stream' = Stream
      BY <1>3 DEF Stream
    <3>2. OwnRequest(request)' <=> OwnRequest(request)
      BY <3>1 DEF OwnRequest
    <3> QED BY <2>4, <3>1, <3>2 DEF OwnClientUnderstood
  <2> QED BY <2>3, <2>5
<1>6. CASE ~(scanForEnd(chunk') \/ Len(buffer') = dataMax)
  <2>1. outcome' = "none" /\ request' = request /\ unsent' = unsent
    BY <1>3, <1>6
  <2>2. buffer' = flat /\ net' = SubSeq(net, k + 1, Len(net))
    BY <1>2, <1>6
  <2>3. /\ net \in Seq(Seq(Bytes)) /\ Len(net) \in Nat
        /\ Taken \in Nat /\ \A i \in 1..Len(net) : net[i] = request[Taken + i]
    BY <1>1, <1>3 DEF RequestInv, TypeOK, SegmentsInOrder
  <2>4. Len(net') = Len(net) - k /\ \A i \in 1..Len(net) - k : net'[i] = net[k + i]
    BY <2>2, <2>3
  <2>5. Len(request) \in Nat /\ Len(unsent) \in Nat
    <3>1. request \in Seq(Seq(Bytes)) /\ unsent \in Seq(Seq(Bytes))
      BY <1>1, HttpRequestAssumption DEF RequestInv, TypeOK, ReadInv
    <3> QED BY <3>1
  <2>6. Taken' = Taken + k
    BY <2>1, <2>3, <2>4, <2>5 DEF Taken
  <2>7. ASSUME NEW i \in 1..Len(net') PROVE net'[i] = request[(Taken + k) + i]
    <3>1. i \in 1..Len(net) - k /\ k + i \in 1..Len(net) /\ Taken + (k + i) = (Taken + k) + i
      BY <2>3, <2>4
    <3> QED BY <2>3, <2>4, <3>1
  <2>8. Taken + k \in Nat
    BY <2>3
  <2>9. SegmentsInOrder'
    BY <2>1, <2>2, <2>6, <2>7, <2>8 DEF SegmentsInOrder
  <2> QED BY <2>1, <2>9 DEF OwnClientUnderstood
<1> QED BY <1>5, <1>6

\* Every step keeps the invariant.
LEMMA StepOwn == OwnInv /\ [Next]_vars => OwnInv'
<1> SUFFICES ASSUME OwnInv, [Next]_vars PROVE OwnInv'
  OBVIOUS
<1>1. RequestInv'
  BY StepRequest DEF OwnInv
<1>2. ASSUME NEW k \in 1..Len(net), Read(k) PROVE SegmentsInOrder' /\ OwnClientUnderstood'
  BY <1>2, OwnRead
<1>3. CASE ReadEof \/ ReadFails
  <2>1. peer' # "open"
    BY <1>3 DEF ReadEof, ReadFails
  <2>2. outcome' # "none"
    <3>1. CASE ReadFails
      BY <3>1 DEF ReadFails
    <3>2. CASE ReadEof
      <4>1. outcome' = "dropped" \/ outcome' = _ParseRequestHeader(buffer).outcome
        BY <3>2 DEF ReadEof, Parsed
      <4>2. buffer \in Seq(Bytes)
        BY DEF OwnInv, RequestInv, TypeOK
      <4> QED BY <4>1, <4>2, ParseResult
    <3> QED BY <1>3, <3>1, <3>2
  <2> QED BY <1>1, <2>1, <2>2 DEF OwnInv, SegmentsInOrder, OwnClientUnderstood
<1>4. CASE ClientWrite
  <2>1. /\ unsent # <<>> /\ net' = Append(net, Head(unsent)) /\ unsent' = Tail(unsent)
        /\ UNCHANGED <<ssl, request, peer, buffer, chunk, outcome, headers>>
    BY <1>4 DEF ClientWrite
  <2>2. OwnClientUnderstood'
    <3>1. OwnClientUnderstood
      BY DEF OwnInv
    <3>2. Stream' = Stream /\ (OwnRequest(request)' <=> OwnRequest(request))
      BY <2>1 DEF Stream, OwnRequest
    <3> QED BY <2>1, <3>1, <3>2 DEF OwnClientUnderstood
  <2>3. ASSUME outcome = "none"
        PROVE  /\ Taken' = Taken /\ Taken \in Nat
               /\ \A i \in 1..Len(net') : net'[i] = request[Taken + i]
               /\ buffer = FlattenSeq(SubSeq(request, 1, Taken))
    <3>1. /\ request \in Seq(Seq(Bytes)) /\ unsent \in Seq(Seq(Bytes))
          /\ net \in Seq(Seq(Bytes)) /\ IsSuffix(unsent, request)
      BY HttpRequestAssumption DEF OwnInv, RequestInv, TypeOK, ReadInv
    <3>2. /\ Taken \in Nat /\ \A i \in 1..Len(net) : net[i] = request[Taken + i]
          /\ buffer = FlattenSeq(SubSeq(request, 1, Taken))
      BY <2>3 DEF OwnInv, SegmentsInOrder
    <3> DEFINE e == Head(unsent)
    <3>3. /\ Len(unsent) \in Nat \ {0} /\ e = unsent[1] /\ e \in Seq(Bytes)
          /\ Len(Tail(unsent)) = Len(unsent) - 1
      BY <2>1, <3>1
    <3>4. net' = Append(net, e)
      BY <2>1
    <3> HIDE DEF e
    <3>5. /\ Len(net') = Len(net) + 1 /\ Len(net) \in Nat /\ Len(request) \in Nat
          /\ \A i \in 1..Len(net) + 1 : net'[i] = IF i <= Len(net) THEN net[i] ELSE e
      BY <3>1, <3>3, <3>4
    <3>6. Len(unsent') = Len(unsent) - 1
      BY <2>1, <3>3
    <3>7. Taken' = Taken
      BY <2>1, <3>3, <3>5, <3>6 DEF Taken
    <3>8. e = request[Taken + (Len(net) + 1)]
      <4>1. \A i \in 1..Len(unsent) : unsent[i] = request[Len(request) - Len(unsent) + i]
        BY <3>1, SuffixAt
      <4>2. 1 \in 1..Len(unsent) /\ Len(request) - Len(unsent) + 1 = Taken + (Len(net) + 1)
        BY <3>3, <3>5 DEF Taken
      <4> QED BY <3>3, <4>1, <4>2
    <3>9. ASSUME NEW i \in 1..Len(net') PROVE net'[i] = request[Taken + i]
      <4>1. i \in 1..Len(net) + 1 /\ (i <= Len(net) => i \in 1..Len(net))
            /\ (~(i <= Len(net)) => i = Len(net) + 1)
        BY <3>5
      <4> QED BY <3>2, <3>5, <3>8, <4>1
    <3> QED BY <3>2, <3>7, <3>9
  <2>4. SegmentsInOrder'
    BY <2>1, <2>3 DEF SegmentsInOrder
  <2> QED BY <1>1, <2>2, <2>4 DEF OwnInv
<1>5. CASE ClientLeaves
  <2>1. peer' # "open" /\ UNCHANGED <<request, unsent, net, buffer, outcome>>
    BY <1>5 DEF ClientLeaves
  <2>2. SegmentsInOrder'
    BY <2>1 DEF OwnInv, SegmentsInOrder, Taken
  <2> QED BY <1>1, <2>1, <2>2 DEF OwnInv, OwnClientUnderstood
<1>6. CASE UNCHANGED vars
  <2>1. UNCHANGED <<ssl, request, unsent, net, peer, buffer, chunk, outcome, headers>>
    BY <1>6 DEF vars
  <2>2. SegmentsInOrder'
    BY <2>1 DEF OwnInv, SegmentsInOrder, Taken
  <2>3. Stream' = Stream /\ (OwnRequest(request)' <=> OwnRequest(request))
    BY <2>1 DEF Stream, OwnRequest
  <2>4. OwnClientUnderstood'
    BY <2>1, <2>3 DEF OwnInv, OwnClientUnderstood
  <2> QED BY <1>1, <2>2, <2>4 DEF OwnInv
<1> QED BY <1>1, <1>2, <1>3, <1>4, <1>5, <1>6 DEF OwnInv, Next, Server

\* The thread begins with none of the request taken.
LEMMA InitOwn == Init => OwnInv
<1> SUFFICES ASSUME Init PROVE OwnInv
  OBVIOUS
<1>1. request \in Seq(Seq(Bytes))
  BY HttpRequestAssumption DEF Init
<1>2. Taken = 0
  <2>1. Len(request) \in Nat /\ Len(unsent) = Len(request) /\ Len(net) = 0
    BY <1>1 DEF Init
  <2> QED BY <2>1 DEF Taken
<1>3. FlattenSeq(SubSeq(request, 1, 0)) = <<>>
  <2>1. SubSeq(request, 1, 0) = <<>>
    BY SubSeqEmpty
  <2> QED BY <2>1 DEF FlattenSeq
<1>4. SegmentsInOrder
  BY <1>2, <1>3 DEF Init, SegmentsInOrder
<1> QED BY <1>4, InitRequest DEF Init, OwnInv, OwnClientUnderstood

\* The invariant holds in every reachable state.
THEOREM OwnInductive == Spec => []OwnInv
  BY InitOwn, StepOwn, PTL DEF Spec

\* The segments of a request reach the parser complete and in order, however
\* getMessage's reads merge them.
THEOREM NoByteLostOrMoved == Spec => []SegmentsInOrder
<1>1. OwnInv => SegmentsInOrder
  BY DEF OwnInv
<1> QED BY <1>1, OwnInductive, PTL

\* A client that writes its request as sendRequest and sendRequestFd do is
\* understood by recvRequest and _ParseRequestHeader: whatever the reads merge,
\* the request is parsed with all its header lines and never before its end.
THEOREM OwnClientIsUnderstood == Spec => []OwnClientUnderstood
<1>1. OwnInv => OwnClientUnderstood
  BY DEF OwnInv
<1> QED BY <1>1, OwnInductive, PTL

-----------------------------------------------------------------------------
(* What sendRequest and sendRequestFd write. *)

\* Lines with an empty one behind the first are a request as the thread wants it.
LEMMA LinesAreOwn ==
  ASSUME NEW r \in Seq(Seq(Bytes)), \A i \in DOMAIN r : IsSuffix(CRLF, r[i]),
         NEW n \in 2..Len(r), r[n] = CRLF,
         Len(FlattenSeq(r)) <= dataMax, WordCount(RequestLine(FlattenSeq(r))) >= 3
  PROVE  OwnRequest(r)
<1> DEFINE stream == FlattenSeq(r)
           front == FlattenSeq(SubSeq(r, 1, n))
           b == FlattenSeq(SubSeq(r, 1, n - 1))
<1>1. n \in 1..Len(r) /\ n \in 0..Len(r) /\ n - 1 \in 1..Len(r)
  OBVIOUS
<1>2. b \in Seq(Bytes) /\ IsSuffix(CRLF, b)
  BY <1>1, LinesEnd, FlattenNext
<1>3. front = b \o CRLF
  BY <1>1, FlattenNext
<1>4. stream \in Seq(Bytes) /\ front \in Seq(Bytes)
  BY <1>1, FlattenFirsts
<1>5. Len(front) <= Len(stream) /\ \A i \in 1..Len(front) : front[i] = stream[i]
  BY <1>1, FlattenFirsts
<1> HIDE DEF stream, front, b
<1>6. Whole(front)
  BY <1>2, <1>3, WholeAtEnd
<1>7. Whole(stream)
  <2> DEFINE e == EmptyLine(front)
  <2>1. e \in 1..Len(front) - 3 /\ LineEnd(front, e) /\ LineEnd(front, e + 2)
    BY <1>4, <1>6, EmptyLineAt
  <2> HIDE DEF e
  <2>2. /\ e \in 1..Len(front) /\ e + 1 \in 1..Len(front) /\ e + 2 \in 1..Len(front)
        /\ (e + 2) + 1 \in 1..Len(front) /\ e \in 1..Len(stream) - 3
    <3>1. Len(front) \in Nat /\ Len(stream) \in Nat /\ Len(front) <= Len(stream)
      BY <1>4, <1>5
    <3> QED BY <2>1, <3>1
  <2>3. LineEnd(stream, e) /\ LineEnd(stream, e + 2)
    BY <1>5, <2>1, <2>2 DEF LineEnd
  <2> QED BY <1>4, <2>2, <2>3, WholeAt
<1>8. EmptyLine(stream) + 3 <= dataMax
  <2>1. EmptyLine(stream) \in 1..Len(stream) - 3
    BY <1>4, <1>7, EmptyLineAt
  <2>2. Len(stream) <= dataMax /\ Len(stream) \in Nat /\ dataMax \in Nat
    BY <1>4, HttpRequestAssumption DEF stream
  <2> QED BY <2>1, <2>2
<1> QED BY <1>7, <1>8 DEF OwnRequest, stream

\* A list of segments, each a line of its own.
LEMMA SegmentList ==
  ASSUME NEW S, NEW n \in Nat, NEW f, f = [i \in 1..n |-> f[i]], \A i \in 1..n : f[i] \in S
  PROVE  f \in Seq(S) /\ Len(f) = n /\ DOMAIN f = 1..n
<1>1. f \in [1..n -> S]
  OBVIOUS
<1> QED BY <1>1, SeqDef, LenProperties

\* The words that sendRequest begins with.
LEMMA FirstWords ==
  LET line == <<"x", "_", "x", "_", "x">>
  IN  /\ line \in Seq(Bytes) /\ Len(line) = 5 /\ DOMAIN line = 1..5
      /\ line[1] = "x" /\ line[2] = "_" /\ line[3] = "x" /\ line[4] = "_" /\ line[5] = "x"
<1> DEFINE line == <<"x", "_", "x", "_", "x">>
<1>1. /\ Len(line) = 5 /\ DOMAIN line = 1..5 /\ line = [i \in 1..5 |-> line[i]]
      /\ line[1] = "x" /\ line[2] = "_" /\ line[3] = "x" /\ line[4] = "_" /\ line[5] = "x"
  OBVIOUS
<1> HIDE DEF line
<1>2. "x" \in Bytes /\ "_" \in Bytes
  BY DEF Bytes
<1>3. \A i \in 1..5 : i = 1 \/ i = 2 \/ i = 3 \/ i = 4 \/ i = 5
  OBVIOUS
<1>4. \A i \in 1..5 : line[i] \in Bytes
  BY <1>1, <1>2, <1>3, Zenon
<1>5. line \in Seq(Bytes)
  <2>1. 5 \in Nat
    OBVIOUS
  <2> QED BY <1>1, <1>4, <2>1, SegmentList, Zenon
<1> QED BY <1>1, <1>5 DEF line

\* A line with its line end, as putMessage sends it.
LEMMA LineIsSegment ==
  ASSUME NEW line \in Seq(Bytes)
  PROVE  line \o CRLF \in Seq(Bytes) /\ IsSuffix(CRLF, line \o CRLF)
  BY LineEnds, ChunkIsSuffix

\* What sendRequest writes, segment by segment.
LEMMA SendRequestSegments ==
  ASSUME NEW lines \in Seq(Seq(Bytes))
  PROVE  LET r == sendRequest(lines)
         IN  /\ r \in Seq(Seq(Bytes)) /\ Len(r) = Len(lines) + 3
             /\ r[1] = <<"x", "_", "x", "_", "x">> \o CRLF
             /\ r[2] = <<"x", "_", "x">> \o CRLF
             /\ \A i \in 1..Len(lines) : r[i + 2] = lines[i] \o CRLF
             /\ \A i \in DOMAIN r : IsSuffix(CRLF, r[i])
             /\ r[Len(lines) + 3] = CRLF
<1> DEFINE n == Len(lines)
           l1 == <<"x", "_", "x", "_", "x">> \o CRLF
           l2 == <<"x", "_", "x">> \o CRLF
           top == <<l1, l2>>
           mid == [i \in DOMAIN lines |-> lines[i] \o CRLF]
           end == <<CRLF>>
           tm == top \o mid
           r == tm \o end
<1>1. n \in Nat /\ DOMAIN lines = 1..n /\ \A i \in 1..n : lines[i] \in Seq(Bytes)
  OBVIOUS
<1>2. l1 \in Seq(Bytes) /\ IsSuffix(CRLF, l1) /\ l2 \in Seq(Bytes) /\ IsSuffix(CRLF, l2)
  <2>1. <<"x", "_", "x", "_", "x">> \in Seq(Bytes)
    BY FirstWords
  <2>2. <<"x", "_", "x">> \in Seq(Bytes)
    <3>1. "x" \in Bytes /\ "_" \in Bytes
      BY DEF Bytes
    <3>2. \A x, y \in Bytes : <<x, y, x>> \in Seq(Bytes)
      OBVIOUS
    <3> QED BY <3>1, <3>2, Zenon
  <2> QED BY <2>1, <2>2, LineIsSegment
<1>3. CRLF \in Seq(Bytes) /\ IsSuffix(CRLF, CRLF)
  <2>1. \A i \in 1..Len(CRLF) : CRLF[i] = CRLF[Len(CRLF) - Len(CRLF) + i]
    BY LineEnds
  <2> QED BY <2>1, LineEnds, SuffixAt
<1>4. sendRequest(lines) = r
  BY DEF sendRequest
<1>5. /\ mid \in Seq(Seq(Bytes)) /\ Len(mid) = n
      /\ \A i \in 1..n : IsSuffix(CRLF, mid[i]) /\ mid[i] = lines[i] \o CRLF
  <2>1. \A i \in 1..n : lines[i] \o CRLF \in Seq(Bytes) /\ IsSuffix(CRLF, lines[i] \o CRLF)
    BY <1>1, LineIsSegment
  <2>2. mid = [i \in 1..n |-> lines[i] \o CRLF]
    BY <1>1
  <2> HIDE DEF n
  <2> QED BY <1>1, <2>1, <2>2
<1> HIDE DEF l1, l2, mid, n
<1>6. top \in Seq(Seq(Bytes)) /\ Len(top) = 2 /\ top[1] = l1 /\ top[2] = l2
  BY <1>2
<1>7. end \in Seq(Seq(Bytes)) /\ Len(end) = 1 /\ end[1] = CRLF
  BY <1>3
<1> HIDE DEF top, end
<1>8. /\ tm \in Seq(Seq(Bytes)) /\ Len(tm) = 2 + n
      /\ \A i \in 1..2 + n : tm[i] = IF i <= 2 THEN top[i] ELSE mid[i - 2]
  <2>1. /\ tm \in Seq(Seq(Bytes)) /\ Len(tm) = Len(top) + Len(mid)
        /\ \A i \in 1..Len(top) + Len(mid) :
              tm[i] = IF i <= Len(top) THEN top[i] ELSE mid[i - Len(top)]
    BY <1>5, <1>6, ConcatProperties
  <2> HIDE DEF tm
  <2> QED BY <1>5, <1>6, <2>1
<1> HIDE DEF tm
<1>9. /\ r \in Seq(Seq(Bytes)) /\ Len(r) = (2 + n) + 1
      /\ \A i \in 1..(2 + n) + 1 : r[i] = IF i <= 2 + n THEN tm[i] ELSE end[i - (2 + n)]
  <2>1. /\ r \in Seq(Seq(Bytes)) /\ Len(r) = Len(tm) + Len(end)
        /\ \A i \in 1..Len(tm) + Len(end) :
              r[i] = IF i <= Len(tm) THEN tm[i] ELSE end[i - Len(tm)]
    BY <1>7, <1>8, ConcatProperties
  <2> HIDE DEF r
  <2> QED BY <1>7, <1>8, <2>1
<1> HIDE DEF r
<1>10. ASSUME NEW i \in 1..n + 3 PROVE IsSuffix(CRLF, r[i])
  <2>0. i \in 1..(2 + n) + 1
    BY <1>1
  <2>1. CASE i = 1 \/ i = 2
    <3>1. i <= 2 /\ i <= 2 + n /\ i \in 1..2 + n
      BY <1>1, <2>1
    <3>2. r[i] = top[i]
      BY <1>8, <1>9, <2>0, <3>1
    <3> QED BY <1>2, <1>6, <2>1, <3>2
  <2>2. CASE i = n + 3
    <3>1. ~(i <= 2 + n) /\ i - (2 + n) = 1
      BY <1>1, <2>2
    <3> QED BY <1>3, <1>7, <1>9, <2>0, <3>1
  <2>3. CASE i # 1 /\ i # 2 /\ i # n + 3
    <3>1. ~(i <= 2) /\ i <= 2 + n /\ i \in 1..2 + n /\ i - 2 \in 1..n
      BY <1>1, <2>3
    <3>2. r[i] = mid[i - 2]
      BY <1>8, <1>9, <2>0, <3>1
    <3> QED BY <1>5, <3>1, <3>2
  <2> QED BY <2>1, <2>2, <2>3
<1>11. r[1] = l1 /\ r[2] = l2
  <2>1. /\ 1 \in 1..(2 + n) + 1 /\ 1 <= 2 + n /\ 1 \in 1..2 + n /\ 1 <= 2
        /\ 2 \in 1..(2 + n) + 1 /\ 2 <= 2 + n /\ 2 \in 1..2 + n /\ 2 <= 2
    BY <1>1
  <2> QED BY <1>6, <1>8, <1>9, <2>1
<1>12. r[n + 3] = CRLF
  <2>1. n + 3 \in 1..(2 + n) + 1 /\ ~(n + 3 <= 2 + n) /\ (n + 3) - (2 + n) = 1
    BY <1>1
  <2> QED BY <1>7, <1>9, <2>1
<1>13. Len(r) = n + 3 /\ DOMAIN r = 1..n + 3
  BY <1>1, <1>9
<1>14. ASSUME NEW i \in 1..n PROVE r[i + 2] = lines[i] \o CRLF
  <2>1. /\ i + 2 \in 1..(2 + n) + 1 /\ i + 2 <= 2 + n /\ i + 2 \in 1..2 + n
        /\ ~(i + 2 <= 2) /\ (i + 2) - 2 = i
    BY <1>1
  <2>2. r[i + 2] = mid[i]
    BY <1>8, <1>9, <2>1
  <2> QED BY <1>5, <2>2
<1> QED BY <1>4, <1>9, <1>10, <1>11, <1>12, <1>13, <1>14 DEF n, l1, l2

\* The request line that sendRequest writes has three words.
LEMMA ThreeWords ==
  ASSUME NEW t \in Seq(Bytes)
  PROVE  WordCount(RequestLine((<<"x", "_", "x", "_", "x">> \o CRLF) \o t)) = 3
<1> DEFINE line == <<"x", "_", "x", "_", "x">>
           a == line \o CRLF
           b == a \o t
<1>1. /\ line \in Seq(Bytes) /\ Len(line) = 5 /\ line[1] = "x" /\ line[2] = "_"
      /\ line[3] = "x" /\ line[4] = "_" /\ line[5] = "x" /\ DOMAIN line = 1..5
  BY FirstWords
<1> HIDE DEF line
<1>2. /\ a \in Seq(Bytes) /\ Len(a) = 7
      /\ \A i \in 1..7 : a[i] = IF i <= 5 THEN line[i] ELSE CRLF[i - 5]
  <2>1. CRLF \in Seq(Bytes) /\ Len(CRLF) = 2 /\ 5 + 2 = 7
    BY LineEnds
  <2>2. /\ a \in Seq(Bytes) /\ Len(a) = Len(line) + Len(CRLF)
        /\ \A i \in 1..Len(line) + Len(CRLF) :
              a[i] = IF i <= Len(line) THEN line[i] ELSE CRLF[i - Len(line)]
    BY <1>1, <2>1, ConcatProperties
  <2> HIDE DEF a
  <2> QED BY <1>1, <2>1, <2>2
<1> HIDE DEF a
<1>3. /\ b \in Seq(Bytes) /\ Len(b) = 7 + Len(t) /\ Len(t) \in Nat
      /\ \A i \in 1..7 + Len(t) : b[i] = IF i <= 7 THEN a[i] ELSE t[i - 7]
  <2>1. /\ b \in Seq(Bytes) /\ Len(b) = Len(a) + Len(t)
        /\ \A i \in 1..Len(a) + Len(t) :
              b[i] = IF i <= Len(a) THEN a[i] ELSE t[i - Len(a)]
    BY <1>2, ConcatProperties
  <2> HIDE DEF b
  <2>2. Len(t) \in Nat
    OBVIOUS
  <2> QED BY <1>2, <2>1, <2>2
<1> HIDE DEF b
<1>4. \A i \in 1..7 : b[i] = a[i]
  <2>1. \A i \in 1..7 : i \in 1..7 + Len(t) /\ i <= 7
    BY <1>3
  <2> QED BY <1>3, <2>1
<1>5. \A i \in 1..5 : b[i] = line[i]
  BY <1>2, <1>4
<1>6. LineEnd(b, 6)
  BY <1>2, <1>4, LineEnds DEF LineEnd
<1>7. \A i \in 1..5 : b[i] # "r"
  <2>1. \A i \in 1..5 : i = 1 \/ i = 2 \/ i = 3 \/ i = 4 \/ i = 5
    OBVIOUS
  <2> QED BY <1>1, <1>5, <2>1
<1> DEFINE f == IndexFirstSubSeq(CRLF, b)
<1>8. f \in 1..Len(b) - 1 /\ LineEnd(b, f) /\ \A i \in 1..f - 1 : ~LineEnd(b, i)
  <2>1. 6 \in 1..Len(b) - 1
    BY <1>3
  <2>2. CRLF \in SubSeqs(b)
    BY <1>3, <1>6, <2>1, LineEndAt DEF LineEnd
  <2> QED BY <1>3, <2>2, FirstLineEnd
<1> HIDE DEF f
<1>9. f = 6
  <2>1. f \notin 1..5
    BY <1>7, <1>8 DEF LineEnd
  <2>2. 6 \notin 1..f - 1
    BY <1>6, <1>8
  <2> QED BY <1>3, <1>8, <2>1, <2>2
<1>10. RequestLine(b) = line
  <2> DEFINE u == SubSeq(b, 1, 5)
  <2>1. u \in Seq(Bytes) /\ Len(u) = 5 /\ \A i \in 1..5 : u[i] = b[i]
    <3>1. 5 \in 0..Len(b)
      BY <1>3
    <3> QED BY <1>3, <3>1, Firsts
  <2>2. RequestLine(b) = u
    <3>1. RequestLine(b) = SubSeq(b, 1, f - 1)
      BY DEF RequestLine, f
    <3>2. f - 1 = 5
      BY <1>9
    <3> QED BY <3>1, <3>2
  <2> HIDE DEF u
  <2>3. u = line
    BY <1>1, <1>5, <2>1, SeqEqual
  <2> QED BY <2>2, <2>3
<1>11. WordCount(line) = 3
  <2> DEFINE W == {i \in DOMAIN line : line[i] = "x" /\ (i = 1 \/ line[i - 1] # "x")}
  <2>1. ASSUME NEW i PROVE i \in W <=> i = 1 \/ i = 3 \/ i = 5
    <3>1. i \in 1..5 => i = 1 \/ i = 2 \/ i = 3 \/ i = 4 \/ i = 5
      OBVIOUS
    <3>2. /\ 1 \in 1..5 /\ 3 \in 1..5 /\ 5 \in 1..5 /\ 3 - 1 = 2 /\ 5 - 1 = 4
      OBVIOUS
    <3>3. 1 \in W /\ 3 \in W /\ 5 \in W
      BY <1>1, <3>2
    <3>4. 2 \notin W /\ 4 \notin W
      BY <1>1
    <3>5. i \in W => i \in 1..5
      BY <1>1
    <3> HIDE DEF W
    <3> QED BY <3>1, <3>3, <3>4, <3>5
  <2>2. W = ({1} \cup {3}) \cup {5}
    <3> HIDE DEF W
    <3> QED BY <2>1
  <2>3. WordCount(line) = Cardinality(W)
    BY DEF WordCount
  <2> HIDE DEF W
  <2>4. IsFiniteSet({1}) /\ Cardinality({1}) = 1
    BY FS_Singleton
  <2>5. IsFiniteSet({1} \cup {3}) /\ Cardinality({1} \cup {3}) = 2
    <3>1. 3 \notin {1} /\ 1 + 1 = 2
      OBVIOUS
    <3> QED BY <2>4, <3>1, FS_AddElement, Zenon
  <2>6. Cardinality(({1} \cup {3}) \cup {5}) = 3
    <3> DEFINE T == {1} \cup {3}
    <3>1. 5 \notin T
      OBVIOUS
    <3>2. IsFiniteSet(T) /\ Cardinality(T) = 2
      BY <2>5
    <3> HIDE DEF T
    <3>3. Cardinality(T \cup {5}) = 2 + 1
      BY <3>1, <3>2, FS_AddElement
    <3>4. 2 + 1 = 3
      OBVIOUS
    <3> QED BY <3>3, <3>4, Zenon DEF T
  <2> QED BY <2>2, <2>3, <2>6
<1> QED BY <1>10, <1>11 DEF a, b, line

\* Whatever header lines sendRequest is given, what it writes is a request as
\* OwnRequest wants it, if it fits into the server's buffer.
THEOREM SendRequestIsOwn ==
  ASSUME NEW lines \in Seq(Seq(Bytes)), Len(FlattenSeq(sendRequest(lines))) <= dataMax
  PROVE  OwnRequest(sendRequest(lines))
<1> DEFINE r == sendRequest(lines)
           n == Len(lines) + 3
           a == <<"x", "_", "x", "_", "x">> \o CRLF
<1>1. /\ r \in Seq(Seq(Bytes)) /\ Len(r) = n /\ r[1] = a
      /\ \A i \in DOMAIN r : IsSuffix(CRLF, r[i])
      /\ r[n] = CRLF /\ Len(FlattenSeq(r)) <= dataMax
  BY SendRequestSegments
<1>2. n \in 2..Len(r) /\ Len(r) \in Nat /\ 2 <= Len(r)
  <2> DEFINE l == Len(lines)
  <2>1. l \in Nat
    OBVIOUS
  <2>2. Len(r) = n /\ n = l + 3
    BY <1>1
  <2> HIDE DEF r, n, l
  <2> QED BY <2>1, <2>2
<1> HIDE DEF r, n
<1>3. a \in Seq(Bytes)
  BY FirstWords, LineIsSegment
<1> DEFINE tail == SubSeq(r, 2, Len(r))
           t == FlattenSeq(tail)
<1>4. /\ tail \in Seq(Seq(Bytes)) /\ Len(tail) = Len(r) - 1
      /\ \A i \in 1..Len(r) - 1 : tail[i] = r[i + 1]
  <2> DEFINE N == Len(r)
  <2>1. r \in Seq(Seq(Bytes)) /\ N = Len(r) /\ N \in Nat /\ 2 <= N
    BY <1>1, <1>2
  <2> HIDE DEF N
  <2>2. /\ SubSeq(r, 2, N) \in Seq(Seq(Bytes)) /\ Len(SubSeq(r, 2, N)) = N - 1
        /\ \A i \in 1..N - 1 : SubSeq(r, 2, N)[i] = r[i + 1]
    BY <2>1
  <2> QED BY <2>2 DEF N
<1>5. t \in Seq(Bytes)
  BY <1>4, FlattenBytes
<1> HIDE DEF a, tail
<1>6. r = <<a>> \o tail
  <2> DEFINE q == <<a>> \o tail
  <2>1. <<a>> \in Seq(Seq(Bytes)) /\ Len(<<a>>) = 1 /\ <<a>>[1] = a
    BY <1>3
  <2>2. /\ q \in Seq(Seq(Bytes)) /\ Len(q) = 1 + Len(tail)
        /\ \A i \in 1..1 + Len(tail) : q[i] = IF i <= 1 THEN <<a>>[i] ELSE tail[i - 1]
    BY <1>4, <2>1, ConcatProperties
  <2>3. Len(q) = Len(r)
    BY <1>2, <1>4, <2>2
  <2> HIDE DEF q
  <2>4. ASSUME NEW i \in 1..Len(r) PROVE q[i] = r[i]
    <3>1. i \in 1..1 + Len(tail)
      BY <1>2, <1>4
    <3>2. CASE i = 1
      BY <1>1, <2>1, <2>2, <3>1, <3>2
    <3>3. CASE i # 1
      <4>1. ~(i <= 1) /\ i - 1 \in 1..Len(r) - 1 /\ (i - 1) + 1 = i
        BY <1>2, <3>3
      <4> QED BY <1>4, <2>2, <3>1, <4>1
    <3> QED BY <3>2, <3>3
  <2>5. q = r
    BY <1>1, <2>2, <2>3, <2>4, SeqEqual
  <2> QED BY <2>5 DEF q
<1>7. FlattenSeq(r) = a \o t
  <2> DEFINE u == <<a>>
  <2>1. u \in Seq(Seq(Bytes)) /\ Len(u) = 1 /\ u[1] = a
    BY <1>3
  <2> HIDE DEF u
  <2>2. FlattenSeq(u) = a
    <3>1. 1 \in 1..Len(u) /\ SubSeq(u, 1, 1) = u
      BY <2>1
    <3>2. FlattenSeq(SubSeq(u, 1, 1)) = FlattenSeq(SubSeq(u, 1, 1 - 1)) \o u[1]
      BY <2>1, <3>1, FlattenNext
    <3>3. FlattenSeq(SubSeq(u, 1, 1 - 1)) = <<>>
      <4>1. SubSeq(u, 1, 1 - 1) = <<>>
        BY SubSeqEmpty
      <4> QED BY <4>1 DEF FlattenSeq
    <3>4. <<>> \o a = a
      BY <1>3, ConcatEmptySeq
    <3> QED BY <2>1, <3>1, <3>2, <3>3, <3>4
  <2>3. FlattenSeq(u \o tail) = FlattenSeq(u) \o FlattenSeq(tail)
    BY <1>4, <2>1, FlattenConcat
  <2>4. r = u \o tail
    BY <1>6 DEF u
  <2> QED BY <2>2, <2>3, <2>4
<1> HIDE DEF t
<1>8. WordCount(RequestLine(a \o t)) = 3
  BY <1>5, ThreeWords DEF a
<1>9. WordCount(RequestLine(FlattenSeq(r))) >= 3
  BY <1>7, <1>8
<1>10. OwnRequest(r)
  BY <1>1, <1>2, <1>9, LinesAreOwn
<1> QED BY <1>10 DEF r

\* The pieces of a file are one if the first has three words and one behind it
\* is empty: sendRequestFd ends each of them with a line end.
THEOREM SendRequestFdIsOwn ==
  ASSUME NEW lines \in Seq(Seq(Bytes)), NEW n \in 2..Len(lines), lines[n] = <<>>,
         Len(FlattenSeq(sendRequestFd(lines))) <= dataMax,
         WordCount(RequestLine(FlattenSeq(sendRequestFd(lines)))) >= 3
  PROVE  OwnRequest(sendRequestFd(lines))
<1> DEFINE r == sendRequestFd(lines)
           l == Len(lines)
<1>1. l \in Nat /\ n \in 2..l /\ DOMAIN lines = 1..l /\ \A i \in 1..l : lines[i] \in Seq(Bytes)
  OBVIOUS
<1>2. r = [i \in 1..l |-> lines[i] \o CRLF]
  BY <1>1 DEF sendRequestFd
<1>3. \A i \in 1..l : lines[i] \o CRLF \in Seq(Bytes) /\ IsSuffix(CRLF, lines[i] \o CRLF)
  BY <1>1, LineIsSegment
<1>4. Len(FlattenSeq(r)) <= dataMax /\ WordCount(RequestLine(FlattenSeq(r))) >= 3
  OBVIOUS
<1> HIDE DEF r, l
<1>5. r \in Seq(Seq(Bytes)) /\ Len(r) = l /\ DOMAIN r = 1..l
  <2>1. r = [i \in 1..l |-> r[i]] /\ \A i \in 1..l : r[i] \in Seq(Bytes)
    BY <1>2, <1>3
  <2> QED BY <1>1, <2>1, SegmentList
<1>6. \A i \in DOMAIN r : IsSuffix(CRLF, r[i])
  BY <1>2, <1>3, <1>5
<1>7. r[n] = CRLF
  <2>1. n \in 1..l
    BY <1>1
  <2>2. r[n] = <<>> \o CRLF
    BY <1>2, <2>1
  <2> QED BY <2>2, LineEnds, ConcatEmptySeq
<1>8. OwnRequest(r)
  BY <1>1, <1>4, <1>5, <1>6, <1>7, LinesAreOwn
<1> QED BY <1>8 DEF r

-----------------------------------------------------------------------------
(* The header lines of a request, counted at both ends. *)

\* A line that is not empty and has no carriage return, with its line end.
Line(s) == Len(s) >= 3 /\ LineEnd(s, Len(s) - 1) /\ \A i \in 1..Len(s) - 2 : s[i] # "r"

\* m lines, one after the other: m line ends, the last at the end, and never two
\* on end.
Lines(b, m) ==
    /\ b \in Seq(Bytes)
    /\ Cardinality({i \in 1..Len(b) - 1 : LineEnd(b, i)}) = m
    /\ m # 0 => Len(b) >= 3 /\ LineEnd(b, Len(b) - 1)
    /\ m = 0 => Len(b) = 0
    /\ \A i \in 1..Len(b) - 3 : ~(LineEnd(b, i) /\ LineEnd(b, i + 2))

\* One more line.
LEMMA OneMoreLine ==
  ASSUME NEW b, NEW m \in Nat, Lines(b, m), NEW s \in Seq(Bytes), Line(s)
  PROVE  Lines(b \o s, m + 1)
<1> DEFINE c == b \o s
           L == Len(b)
           l == Len(s)
           T == {i \in 1..L - 1 : LineEnd(b, i)}
           U == {i \in 1..Len(c) - 1 : LineEnd(c, i)}
<1>1. /\ b \in Seq(Bytes) /\ L \in Nat /\ l \in Nat /\ l >= 3 /\ LineEnd(s, l - 1)
      /\ \A i \in 1..l - 2 : s[i] # "r"
  BY DEF Lines, Line
<1>2. /\ Cardinality(T) = m /\ (m # 0 => L >= 3 /\ LineEnd(b, L - 1)) /\ (m = 0 => L = 0)
      /\ \A i \in 1..L - 3 : ~(LineEnd(b, i) /\ LineEnd(b, i + 2))
  BY DEF Lines
<1>3. /\ c \in Seq(Bytes) /\ Len(c) = L + l
      /\ \A i \in 1..L + l : c[i] = IF i <= L THEN b[i] ELSE s[i - L]
  BY <1>1, ConcatProperties
<1> HIDE DEF c, L, l
<1>4. ASSUME NEW i \in 1..L - 1 PROVE LineEnd(c, i) <=> LineEnd(b, i)
  <2>1. i \in 1..L + l /\ i <= L /\ i + 1 \in 1..L + l /\ i + 1 <= L
    BY <1>1
  <2>2. c[i] = b[i] /\ c[i + 1] = b[i + 1]
    BY <1>3, <2>1
  <2> QED BY <2>2 DEF LineEnd
<1>5. L # 0 => ~LineEnd(c, L)
  <2> SUFFICES ASSUME L # 0 PROVE c[L] # "r"
    BY DEF LineEnd
  <2>1. m # 0 /\ (L - 1) + 1 = L /\ L \in 1..L + l /\ L <= L
    BY <1>1, <1>2
  <2>2. b[(L - 1) + 1] = "n"
    BY <1>2, <2>1 DEF LineEnd
  <2>3. c[L] = b[L]
    BY <1>3, <2>1
  <2> QED BY <2>1, <2>2, <2>3
<1>6. ASSUME NEW i \in L + 1..L + l - 2 PROVE ~LineEnd(c, i)
  <2>1. i \in 1..L + l /\ ~(i <= L) /\ i - L \in 1..l - 2
    BY <1>1
  <2>2. c[i] = s[i - L]
    BY <1>3, <2>1
  <2> QED BY <1>1, <2>1, <2>2 DEF LineEnd
<1>7. LineEnd(c, L + l - 1)
  <2>1. /\ L + l - 1 \in 1..L + l /\ ~(L + l - 1 <= L) /\ (L + l - 1) - L = l - 1
        /\ (L + l - 1) + 1 \in 1..L + l /\ ~((L + l - 1) + 1 <= L)
        /\ ((L + l - 1) + 1) - L = (l - 1) + 1
    BY <1>1
  <2>2. c[L + l - 1] = s[l - 1] /\ c[(L + l - 1) + 1] = s[(l - 1) + 1]
    BY <1>3, <2>1
  <2> QED BY <1>1, <2>2 DEF LineEnd
<1> DEFINE x == L + l - 1
<1>8. ASSUME NEW i \in 1..x, LineEnd(c, i) PROVE i \in 1..L - 1 \/ i = x
  <2>1. i \in 1..L - 1 \/ (i = L /\ L # 0) \/ i \in L + 1..L + l - 2 \/ i = x
    BY <1>1
  <2> QED BY <1>5, <1>6, <1>8, <2>1
<1>9. U = T \cup {x} /\ x \notin T
  <2>1. Len(c) - 1 = x /\ x \in 1..x /\ x \notin 1..L - 1 /\ \A i \in 1..L - 1 : i \in 1..x
    BY <1>1, <1>3
  <2>2. LineEnd(c, x)
    BY <1>7
  <2> HIDE DEF x
  <2> QED BY <1>4, <1>8, <2>1, <2>2
<1>10. IsFiniteSet(T)
  <2>1. 1 \in Int /\ L - 1 \in Int
    BY <1>1
  <2>2. IsFiniteSet(1..L - 1)
    BY <2>1, FS_Interval
  <2>3. T \in SUBSET (1..L - 1)
    OBVIOUS
  <2> HIDE DEF T
  <2> QED BY <2>2, <2>3, FS_Subset
<1>11. Cardinality(U) = m + 1
  <2> HIDE DEF T, U, x
  <2> QED BY <1>2, <1>9, <1>10, FS_AddElement
<1>12. ASSUME NEW i \in 1..Len(c) - 3, LineEnd(c, i), LineEnd(c, i + 2) PROVE FALSE
  <2>1. i \in 1..x /\ i + 2 \in 1..x /\ i # x
    BY <1>1, <1>3
  <2>2. i \in 1..L - 1
    BY <1>8, <1>12, <2>1
  <2>3. i + 2 \in 1..L - 1
    <3>1. i + 2 # x
      BY <1>1, <2>2
    <3> QED BY <1>8, <1>12, <2>1, <3>1
  <2>4. LineEnd(b, i) /\ LineEnd(b, i + 2)
    BY <1>4, <1>12, <2>2, <2>3
  <2>5. i \in 1..L - 3
    BY <1>1, <2>2, <2>3
  <2> QED BY <1>2, <2>4, <2>5
<1>13. Len(c) >= 3 /\ LineEnd(c, Len(c) - 1) /\ m + 1 # 0
  BY <1>1, <1>3, <1>7
<1>14. Lines(c, m + 1)
  BY <1>3, <1>11, <1>12, <1>13 DEF Lines
<1> QED BY <1>14 DEF c

\* A request of m lines and an empty one has m - 1 header lines, whatever follows.
LEMMA LinesCounted ==
  ASSUME NEW r \in Seq(Seq(Bytes)), NEW m \in 1..Len(r) - 1,
         \A j \in 1..m : Line(r[j]), r[m + 1] = CRLF
  PROVE  HeaderLines(FlattenSeq(r)) = m - 1
<1> DEFINE B(k) == FlattenSeq(SubSeq(r, 1, k))
           P == {k \in Nat : k <= m => Lines(B(k), k)}
<1>1. Len(r) \in Nat /\ m \in Nat /\ m # 0 /\ m <= Len(r) - 1
  OBVIOUS
<1>2. \A k \in Nat : k \in P
  <2>1. 0 \in P
    <3>1. SubSeq(r, 1, 0) = <<>>
      BY SubSeqEmpty
    <3>2. B(0) = <<>>
      BY <3>1 DEF FlattenSeq
    <3> DEFINE e == <<>>
    <3>3. e \in Seq(Bytes) /\ Len(e) = 0
      OBVIOUS
    <3> HIDE DEF e
    <3>4. {i \in 1..Len(e) - 1 : LineEnd(e, i)} = {} /\ 1..Len(e) - 3 = {}
      BY <3>3
    <3>5. Cardinality({i \in 1..Len(e) - 1 : LineEnd(e, i)}) = 0
      BY <3>4, FS_EmptySet
    <3>6. Lines(e, 0)
      BY <3>3, <3>4, <3>5 DEF Lines
    <3>7. Lines(B(0), 0)
      BY <3>2, <3>6 DEF e
    <3> QED BY <3>7
  <2>2. ASSUME NEW k \in Nat, k \in P PROVE k + 1 \in P
    <3> SUFFICES ASSUME k + 1 <= m PROVE Lines(B(k + 1), k + 1)
      OBVIOUS
    <3>1. k + 1 \in 1..m /\ k + 1 \in 1..Len(r) /\ (k + 1) - 1 = k /\ k <= m
      BY <1>1
    <3>2. B(k + 1) = B(k) \o r[k + 1]
      BY <3>1, FlattenNext
    <3>3. Lines(B(k), k)
      BY <2>2, <3>1
    <3>4. r[k + 1] \in Seq(Bytes) /\ Line(r[k + 1])
      BY <3>1
    <3> HIDE DEF B
    <3>5. Lines(B(k) \o r[k + 1], k + 1)
      BY <3>3, <3>4, OneMoreLine
    <3> QED BY <3>2, <3>5
  <2> HIDE DEF P
  <2> QED BY <2>1, <2>2, NatSetInduction
<1> DEFINE b == B(m)
           L == Len(b)
           c == b \o CRLF
<1>3. Lines(b, m)
  <2>1. m \in P
    BY <1>1, <1>2
  <2> QED BY <1>1, <2>1
<1>4. c = FlattenSeq(SubSeq(r, 1, m + 1))
  <2>1. m + 1 \in 1..Len(r) /\ (m + 1) - 1 = m
    BY <1>1
  <2>2. FlattenSeq(SubSeq(r, 1, m + 1)) = FlattenSeq(SubSeq(r, 1, (m + 1) - 1)) \o r[m + 1]
    BY <2>1, FlattenNext
  <2> QED BY <2>1, <2>2
<1> HIDE DEF b
<1>5. /\ b \in Seq(Bytes) /\ L \in Nat /\ L >= 3 /\ LineEnd(b, L - 1)
      /\ Cardinality({i \in 1..L - 1 : LineEnd(b, i)}) = m
      /\ \A i \in 1..L - 3 : ~(LineEnd(b, i) /\ LineEnd(b, i + 2))
  BY <1>1, <1>3 DEF Lines
<1>6. /\ c \in Seq(Bytes) /\ Len(c) = L + 2
      /\ \A i \in 1..L + 2 : c[i] = IF i <= L THEN b[i] ELSE CRLF[i - L]
  <2>1. /\ c \in Seq(Bytes) /\ Len(c) = L + Len(CRLF)
        /\ \A i \in 1..L + Len(CRLF) : c[i] = IF i <= L THEN b[i] ELSE CRLF[i - L]
    BY <1>5, LineEnds, ConcatProperties
  <2> HIDE DEF c
  <2> QED BY <2>1, LineEnds
<1> HIDE DEF c, L
<1>7. ASSUME NEW i \in 1..L - 1 PROVE LineEnd(c, i) <=> LineEnd(b, i)
  <2>1. i \in 1..L + 2 /\ i <= L /\ i + 1 \in 1..L + 2 /\ i + 1 <= L
    BY <1>5
  <2>2. c[i] = b[i] /\ c[i + 1] = b[i + 1]
    BY <1>6, <2>1
  <2> QED BY <2>2 DEF LineEnd
<1>8. ~LineEnd(c, L)
  <2>1. (L - 1) + 1 = L /\ L \in 1..L + 2 /\ L <= L
    BY <1>5
  <2>2. b[(L - 1) + 1] = "n"
    BY <1>5 DEF LineEnd
  <2>3. c[L] = b[L]
    BY <1>6, <2>1
  <2> QED BY <2>1, <2>2, <2>3 DEF LineEnd
<1>9. LineEnd(c, (L - 1) + 2)
  <2>1. /\ L + 1 \in 1..L + 2 /\ ~(L + 1 <= L) /\ (L + 1) - L = 1 /\ (L - 1) + 2 = L + 1
        /\ L + 2 \in 1..L + 2 /\ ~(L + 2 <= L) /\ (L + 2) - L = 2 /\ (L + 1) + 1 = L + 2
    BY <1>5
  <2>2. c[L + 1] = CRLF[1] /\ c[L + 2] = CRLF[2]
    BY <1>6, <2>1
  <2> QED BY <2>1, <2>2, LineEnds DEF LineEnd
<1>10. L - 1 \in 1..L - 1 /\ L - 1 \in 1..Len(c) - 3 /\ LineEnd(c, L - 1)
  BY <1>5, <1>6, <1>7
<1>11. Whole(c)
  BY <1>6, <1>9, <1>10, WholeAt
<1> DEFINE e == EmptyLine(c)
<1>12. /\ e \in 1..Len(c) - 3 /\ LineEnd(c, e) /\ LineEnd(c, e + 2)
       /\ \A i \in 1..e - 1 : ~(LineEnd(c, i) /\ LineEnd(c, i + 2))
  BY <1>6, <1>11, EmptyLineAt
<1> HIDE DEF e
<1>13. e = L - 1
  <2>1. ~(L - 1 < e)
    BY <1>5, <1>6, <1>9, <1>10, <1>12
  <2>2. ~(e < L - 1)
    <3> SUFFICES ASSUME e < L - 1 PROVE FALSE
      OBVIOUS
    <3>1. e \in 1..L - 1 /\ (e + 2 = L \/ e + 2 \in 1..L - 1)
      BY <1>5, <1>12
    <3>2. e + 2 # L
      BY <1>8, <1>12
    <3>3. e + 2 \in 1..L - 1 /\ e \in 1..L - 3
      BY <1>5, <3>1, <3>2
    <3>4. LineEnd(b, e) /\ LineEnd(b, e + 2)
      BY <1>7, <1>12, <3>1, <3>3
    <3> QED BY <1>5, <3>3, <3>4
  <2> QED BY <1>5, <1>6, <1>12, <2>1, <2>2
<1>14. HeaderLines(c) = m - 1
  <2>1. HeaderLines(c) = Cardinality({i \in 1..L - 1 : LineEnd(c, i)}) - 1
    BY <1>13 DEF HeaderLines, LineEnd, e
  <2>2. {i \in 1..L - 1 : LineEnd(c, i)} = {i \in 1..L - 1 : LineEnd(b, i)}
    BY <1>7
  <2> QED BY <1>5, <2>1, <2>2
<1> DEFINE stream == FlattenSeq(r)
<1>15. /\ stream \in Seq(Bytes) /\ Len(c) <= Len(stream)
       /\ \A i \in 1..Len(c) : c[i] = stream[i]
  <2>1. m + 1 \in 0..Len(r)
    BY <1>1
  <2> QED BY <1>4, <2>1, FlattenFirsts
<1> HIDE DEF stream
<1>16. HeaderLines(c) = HeaderLines(stream)
  BY <1>6, <1>11, <1>15, PrefixParses
<1> QED BY <1>14, <1>16 DEF stream

\* A line without carriage returns, as putMessage sends it.
LEMMA PlainLine ==
  ASSUME NEW l \in Seq(Bytes), Len(l) # 0, \A j \in 1..Len(l) : l[j] # "r"
  PROVE  Line(l \o CRLF)
<1> DEFINE n == Len(l)
           s == l \o CRLF
<1>1. /\ s \in Seq(Bytes) /\ Len(s) = n + Len(CRLF)
      /\ \A i \in 1..n + Len(CRLF) : s[i] = IF i <= n THEN l[i] ELSE CRLF[i - n]
  BY LineEnds, ConcatProperties
<1>2. n \in Nat /\ n # 0 /\ \A j \in 1..n : l[j] # "r"
  OBVIOUS
<1> HIDE DEF s, n
<1>3. Len(s) = n + 2 /\ \A i \in 1..n + 2 : s[i] = IF i <= n THEN l[i] ELSE CRLF[i - n]
  BY <1>1, LineEnds
<1>4. /\ Len(s) >= 3 /\ Len(s) - 1 = n + 1 /\ Len(s) - 2 = n
      /\ n + 1 \in 1..n + 2 /\ ~(n + 1 <= n) /\ (n + 1) - n = 1 /\ (n + 1) + 1 = n + 2
      /\ n + 2 \in 1..n + 2 /\ ~(n + 2 <= n) /\ (n + 2) - n = 2
  BY <1>2, <1>3
<1>5. s[n + 1] = CRLF[1] /\ s[n + 2] = CRLF[2]
  BY <1>3, <1>4
<1>6. LineEnd(s, Len(s) - 1)
  BY <1>4, <1>5, LineEnds DEF LineEnd
<1>7. ASSUME NEW i \in 1..Len(s) - 2 PROVE s[i] # "r"
  <2>1. i \in 1..n /\ i \in 1..n + 2 /\ i <= n
    BY <1>2, <1>4
  <2> QED BY <1>2, <1>3, <2>1
<1> QED BY <1>4, <1>6, <1>7 DEF Line, s

\* End to end: what the client gives sendRequest, the server finds in the
\* request.  A request that fits is parsed, with the Host line and exactly the
\* header lines that were sent, however the segments were merged.
THEOREM SendRequestUnderstood ==
  ASSUME NEW lines \in Seq(Seq(Bytes)),
         \A i \in 1..Len(lines) :
            Len(lines[i]) # 0 /\ \A j \in 1..Len(lines[i]) : lines[i][j] # "r",
         Len(FlattenSeq(sendRequest(lines))) <= dataMax
  PROVE  Spec => [](request = sendRequest(lines) /\ outcome # "none" /\ peer = "open"
                       => outcome = "parsed" /\ headers = Len(lines) + 1)
<1> DEFINE r == sendRequest(lines)
           n == Len(lines)
           m == n + 2
           l1 == <<"x", "_", "x", "_", "x">>
           l2 == <<"x", "_", "x">>
<1>1. OwnRequest(r)
  BY SendRequestIsOwn
<1>2. /\ r \in Seq(Seq(Bytes)) /\ Len(r) = n + 3
      /\ r[1] = l1 \o CRLF /\ r[2] = l2 \o CRLF
      /\ \A i \in 1..n : r[i + 2] = lines[i] \o CRLF
      /\ r[n + 3] = CRLF
  BY SendRequestSegments
<1>3. /\ n \in Nat
      /\ \A i \in 1..n : /\ lines[i] \in Seq(Bytes) /\ Len(lines[i]) # 0
                         /\ \A j \in 1..Len(lines[i]) : lines[i][j] # "r"
  OBVIOUS
<1>4. Line(r[1])
  <2>1. /\ l1 \in Seq(Bytes) /\ Len(l1) = 5
        /\ l1[1] = "x" /\ l1[2] = "_" /\ l1[3] = "x" /\ l1[4] = "_" /\ l1[5] = "x"
    BY FirstWords
  <2> HIDE DEF l1
  <2>2. \A j \in 1..5 : j = 1 \/ j = 2 \/ j = 3 \/ j = 4 \/ j = 5
    OBVIOUS
  <2>3. Len(l1) # 0 /\ \A j \in 1..Len(l1) : l1[j] # "r"
    <3>1. \A j \in 1..5 : l1[j] = "x" \/ l1[j] = "_"
      BY <2>1, <2>2, Zenon
    <3>2. "x" # "r" /\ "_" # "r" /\ 5 # 0
      OBVIOUS
    <3>3. Len(l1) = 5
      BY <2>1, <2>2
    <3> QED BY <3>1, <3>2, <3>3
  <2>4. Line(l1 \o CRLF)
    BY <2>1, <2>3, PlainLine
  <2> QED BY <1>2, <2>4
<1>5. Line(r[2])
  <2>1. l2 \in Seq(Bytes)
    <3>1. "x" \in Bytes /\ "_" \in Bytes
      BY DEF Bytes
    <3>2. \A x, y \in Bytes : <<x, y, x>> \in Seq(Bytes)
      OBVIOUS
    <3> QED BY <3>1, <3>2, Zenon
  <2>2. Len(l2) = 3 /\ l2[1] = "x" /\ l2[2] = "_" /\ l2[3] = "x"
    OBVIOUS
  <2> HIDE DEF l2
  <2>3. \A j \in 1..3 : j = 1 \/ j = 2 \/ j = 3
    OBVIOUS
  <2>4. Len(l2) # 0 /\ \A j \in 1..Len(l2) : l2[j] # "r"
    <3>1. \A j \in 1..3 : l2[j] = "x" \/ l2[j] = "_"
      BY <2>2, <2>3, Zenon
    <3>2. "x" # "r" /\ "_" # "r" /\ 3 # 0
      OBVIOUS
    <3>3. Len(l2) = 3
      BY <2>2, <2>3
    <3> QED BY <3>1, <3>2, <3>3
  <2>5. Line(l2 \o CRLF)
    BY <2>1, <2>4, PlainLine
  <2> QED BY <1>2, <2>5
<1> HIDE DEF r, n, l1, l2
<1>6. ASSUME NEW j \in 1..m PROVE Line(r[j])
  <2>1. j = 1 \/ j = 2 \/ (j - 2 \in 1..n /\ (j - 2) + 2 = j)
    BY <1>3
  <2>2. CASE j - 2 \in 1..n /\ (j - 2) + 2 = j
    <3> DEFINE i == j - 2
    <3>1. i \in 1..n /\ i + 2 = j
      BY <2>2
    <3> HIDE DEF i
    <3>2. Line(lines[i] \o CRLF)
      BY <1>3, <3>1, PlainLine
    <3>3. r[i + 2] = lines[i] \o CRLF
      BY <1>2, <3>1
    <3> QED BY <3>1, <3>2, <3>3
  <2> QED BY <1>4, <1>5, <2>1, <2>2
<1>7. m \in 1..Len(r) - 1 /\ m + 1 = n + 3 /\ m - 1 = n + 1
  BY <1>2, <1>3
<1> HIDE DEF m
<1>8. HeaderLines(FlattenSeq(r)) = n + 1
  <2>1. r[m + 1] = CRLF
    BY <1>2, <1>7
  <2>2. HeaderLines(FlattenSeq(r)) = m - 1
    BY <1>2, <1>6, <1>7, <2>1, LinesCounted
  <2> QED BY <1>7, <2>2
<1>9. OwnClientUnderstood =>
         (request = r /\ outcome # "none" /\ peer = "open"
             => outcome = "parsed" /\ headers = n + 1)
  BY <1>1, <1>8 DEF OwnClientUnderstood, Stream
<1>10. OwnClientUnderstood =>
         (request = sendRequest(lines) /\ outcome # "none" /\ peer = "open"
             => outcome = "parsed" /\ headers = Len(lines) + 1)
  BY <1>9 DEF r, n
<1> QED BY <1>10, OwnClientIsUnderstood, PTL
=============================================================================
