---------------------------- MODULE ChunkingProofs ----------------------------
(***************************************************************************)
(* What becomes of the text of a raw file, for files of every size.        *)
(***************************************************************************)
EXTENDS Chunking, FiniteSetTheorems, SequenceTheorems, WellFoundedInduction, TLAPS

-----------------------------------------------------------------------------
(* Sequences that are joined.  The prover cannot instantiate the theorems on *)
(* induction, so the first place where something fails is looked for.        *)

\* A nonempty set of natural numbers has a least element.
LEMMA LeastNatural ==
  ASSUME NEW S, S \subseteq Nat, S # {}
  PROVE  \E n \in S : \A m \in S : n <= m
<1> DEFINE R == {x \in Nat \X Nat : x[1] < x[2]}
<1>1. IsWellFoundedOn(R, Nat)
  BY NatLessThanWellFounded DEF OpToRel
<1>2. PICK n \in S : \A m \in S : ~(<<m, n>> \in R)
  BY <1>1, WFMin
<1>3. \A m \in S : ~(m < n)
  BY <1>2
<1> QED BY <1>3

\* f[i] is what the first i sequences make together, up to the n-th.
Joins(f, ss, n) ==
  f = [i \in 1..n |-> IF i = 1 THEN ss[i] ELSE f[i - 1] \o ss[i]]

\* One sequence more is joined in each step.
LEMMA JoinsStep ==
  ASSUME NEW ss, NEW n, NEW f, Joins(f, ss, n), NEW i \in 1..n
  PROVE  f[i] = IF i = 1 THEN ss[i] ELSE f[i - 1] \o ss[i]
<1> DEFINE h == [j \in 1..n |-> IF j = 1 THEN ss[j] ELSE f[j - 1] \o ss[j]]
<1>1. f = h
  BY DEF Joins
<1>2. h[i] = IF i = 1 THEN ss[i] ELSE f[i - 1] \o ss[i]
  OBVIOUS
<1> HIDE DEF h
<1>3. f[i] = h[i]
  BY <1>1
<1> QED BY <1>2, <1>3

\* The first n sequences can be joined.
LEMMA JoinsExists ==
  ASSUME NEW ss, NEW n \in Nat
  PROVE  \E f : Joins(f, ss, n)
<1> DEFINE Joinable(k) == \E f : Joins(f, ss, k)
           Failing == {k \in Nat : ~Joinable(k)}
<1>1. Joinable(0)
  <2>1. Joins([i \in 1..0 |-> i], ss, 0)
    BY DEF Joins
  <2> QED BY <2>1
<1>2. ASSUME NEW k \in Nat, Joinable(k) PROVE Joinable(k + 1)
  <2>1. PICK f : Joins(f, ss, k)
    BY <1>2
  <2> DEFINE g == [i \in 1..(k + 1) |-> IF i = 1 THEN ss[i] ELSE f[i - 1] \o ss[i]]
  <2>2. \A i \in 1..k : f[i] = g[i]
    BY <2>1, JoinsStep
  <2>3. \A i \in 1..(k + 1) : i # 1 => i - 1 \in 1..k
    OBVIOUS
  <2>4. Joins(g, ss, k + 1)
    BY <2>2, <2>3 DEF Joins
  <2> QED BY <2>4
<1> HIDE DEF Joinable
<1>3. Failing = {}
  <2> SUFFICES ASSUME Failing # {} PROVE FALSE
    OBVIOUS
  <2>1. PICK k \in Failing : \A m \in Failing : k <= m
    BY LeastNatural
  <2>2. k # 0 /\ k - 1 \in Nat /\ k - 1 \notin Failing
    BY <1>1, <2>1
  <2> QED BY <1>2, <2>1, <2>2
<1> QED BY <1>3 DEF Joinable

\* Joining goes from the first sequence to the last.
LEMMA JoinedIsLast ==
  ASSUME NEW D, NEW ss \in Seq(Seq(D)), ss # <<>>
  PROVE  \E f : Joins(f, ss, Len(ss)) /\ Joined(ss) = f[Len(ss)]
<1> DEFINE F == CHOOSE f : f = [i \in 1..Len(ss) |-> IF i = 1 THEN ss[i] ELSE f[i - 1] \o ss[i]]
<1>1. Joins(F, ss, Len(ss))
  <2>1. \E f : f = [i \in 1..Len(ss) |-> IF i = 1 THEN ss[i] ELSE f[i - 1] \o ss[i]]
    <3>1. Len(ss) \in Nat
      OBVIOUS
    <3>2. PICK f : Joins(f, ss, Len(ss))
      BY <3>1, JoinsExists
    <3> QED BY <3>2, Zenon DEF Joins
  <2> QED BY <2>1, Zenon DEF Joins
<1>2. Joined(ss) = F[Len(ss)]
  BY DEF Joined, FlattenSeq
<1> QED BY <1>1, <1>2

\* A sequence, of whatever elements.
IsSeq(s) == s \in Seq(Range(s))

\* What is a sequence of something is a sequence.
LEMMA SeqIsSeq ==
  ASSUME NEW D, NEW s \in Seq(D)
  PROVE  IsSeq(s) /\ Range(s) \subseteq D
BY SeqOfRange, RangeOfSeq DEF IsSeq

\* The domain of a sequence and of what is made of it element by element.
LEMMA SeqDomain ==
  ASSUME NEW s, IsSeq(s)
  PROVE  /\ Len(s) \in Nat /\ DOMAIN s = 1..Len(s)
         /\ \A i \in DOMAIN s : s[i] \in Range(s)
         /\ s = <<>> <=> Range(s) = {}
<1>1. Len(s) \in Nat /\ DOMAIN s = 1..Len(s)
  BY DEF IsSeq
<1>2. \A i \in DOMAIN s : s[i] \in Range(s)
  BY DEF Range
<1>3. s = <<>> => Range(s) = {}
  BY DEF Range
<1>4. s # <<>> => Range(s) # {}
  <2>1. s # <<>> => 1 \in DOMAIN s
    BY <1>1 DEF IsSeq
  <2> QED BY <1>2, <2>1
<1> QED BY <1>1, <1>2, <1>3, <1>4

\* What the joined sequences hold is what each of them holds.
LEMMA JoinedTyped ==
  ASSUME NEW D, NEW ss \in Seq(Seq(D))
  PROVE  /\ Joined(ss) \in Seq(D)
         /\ Range(Joined(ss)) = UNION {Range(ss[i]) : i \in DOMAIN ss}
<1>1. CASE ss = <<>>
  BY <1>1 DEF Joined, FlattenSeq, Range
<1>2. CASE ss # <<>>
  <2>1. PICK f : Joins(f, ss, Len(ss)) /\ Joined(ss) = f[Len(ss)]
    BY <1>2, JoinedIsLast
  <2> DEFINE Good(i) == f[i] \in Seq(D) /\ Range(f[i]) = UNION {Range(ss[j]) : j \in 1..i}
             Bad == {i \in Nat : i \in 1..Len(ss) /\ ~Good(i)}
  <2>2. ASSUME NEW i \in 1..Len(ss), i # 1 => Good(i - 1) PROVE Good(i)
    <3>1. ss[i] \in Seq(D) /\ f[i] = IF i = 1 THEN ss[i] ELSE f[i - 1] \o ss[i]
      BY <2>1, JoinsStep
    <3>2. CASE i = 1
      BY <3>1, <3>2
    <3>3. CASE i # 1
      <4>1. f[i - 1] \in Seq(D)
        BY <2>2, <3>3
      <4>2. f[i] \in Seq(D) /\ Range(f[i]) = Range(f[i - 1]) \cup Range(ss[i])
        BY <3>1, <3>3, <4>1, RangeConcatenation
      <4>3. 1..i = 1..(i - 1) \cup {i}
        OBVIOUS
      <4> QED BY <2>2, <3>3, <4>2, <4>3
    <3> QED BY <3>2, <3>3
  <2> HIDE DEF Good
  <2>3. Bad = {}
    <3> SUFFICES ASSUME Bad # {} PROVE FALSE
      OBVIOUS
    <3>1. PICK i \in Bad : \A j \in Bad : i <= j
      BY LeastNatural
    <3>2. i # 1 => i - 1 \in 1..Len(ss) /\ Good(i - 1)
      BY <3>1
    <3> QED BY <2>2, <3>1, <3>2
  <2>4. Len(ss) \in 1..Len(ss) /\ DOMAIN ss = 1..Len(ss)
    BY <1>2
  <2>5. Good(Len(ss))
    BY <2>3, <2>4
  <2> QED BY <2>1, <2>4, <2>5 DEF Good
<1> QED BY <1>1, <1>2

\* The same for sequences of whatever elements.
LEMMA JoinedFacts ==
  ASSUME NEW ss, IsSeq(ss), \A s \in Range(ss) : IsSeq(s)
  PROVE  /\ IsSeq(Joined(ss))
         /\ Range(Joined(ss)) = UNION {Range(s) : s \in Range(ss)}
<1> DEFINE D == UNION {Range(s) : s \in Range(ss)}
<1>1. \A s \in Range(ss) : s \in Seq(D)
  <2> SUFFICES ASSUME NEW s \in Range(ss) PROVE s \in Seq(D)
    OBVIOUS
  <2>1. s \in Seq(Range(s)) /\ Range(s) \subseteq D
    BY DEF IsSeq
  <2> QED BY <2>1, SeqMonotonic
<1>2. ss \in Seq(Seq(D))
  <2>1. Range(ss) \subseteq Seq(D)
    BY <1>1
  <2> HIDE DEF D
  <2> QED BY <2>1, SeqMonotonic DEF IsSeq
<1>3. Joined(ss) \in Seq(D) /\ Range(Joined(ss)) = UNION {Range(ss[i]) : i \in DOMAIN ss}
  BY <1>2, JoinedTyped
<1>4. UNION {Range(ss[i]) : i \in DOMAIN ss} = D
  BY DEF Range
<1> QED BY <1>3, <1>4, SeqIsSeq

\* An element of the joined sequences is one of a sequence.
LEMMA JoinedMember ==
  ASSUME NEW ss, IsSeq(ss), \A i \in DOMAIN ss : IsSeq(ss[i])
  PROVE  /\ IsSeq(Joined(ss))
         /\ \A x : x \in Range(Joined(ss)) <=> \E i \in DOMAIN ss : x \in Range(ss[i])
<1>1. \A s \in Range(ss) : IsSeq(s)
  BY DEF Range
<1>2. \A x : (\E s \in Range(ss) : x \in Range(s)) <=> (\E i \in DOMAIN ss : x \in Range(ss[i]))
  BY DEF Range
<1> QED BY <1>1, <1>2, JoinedFacts

\* What is made of a sequence, element by element, is a sequence.
LEMMA MadeOf ==
  ASSUME NEW s, IsSeq(s), NEW t, DOMAIN t = DOMAIN s, t = [i \in DOMAIN t |-> t[i]]
  PROVE  IsSeq(t)
<1>1. PICK n \in Nat : DOMAIN s = 1..n
  BY SeqDomain
<1>2. t \in [1..n -> Range(t)]
  BY <1>1 DEF Range
<1> QED BY <1>2, SeqDef DEF IsSeq

\* Two sequences, one after the other.
LEMMA ConcatFacts ==
  ASSUME NEW s, IsSeq(s), NEW t, IsSeq(t)
  PROVE  IsSeq(s \o t) /\ Range(s \o t) = Range(s) \cup Range(t)
<1> DEFINE D == Range(s) \cup Range(t)
<1>1. s \in Seq(D) /\ t \in Seq(D)
  BY SeqMonotonic DEF IsSeq
<1> HIDE DEF D
<1>2. Range(s \o t) = Range(s) \cup Range(t) /\ s \o t \in Seq(D)
  BY <1>1, RangeConcatenation
<1> QED BY <1>2, SeqIsSeq

\* Sequences of no and of one element.
LEMMA ShortSeqs ==
  /\ IsSeq(<<>>) /\ Range(<<>>) = {}
  /\ \A x : IsSeq(<<x>>) /\ Range(<<x>>) = {x}
<1>1. IsSeq(<<>>) /\ Range(<<>>) = {}
  BY DEF IsSeq, Range
<1>2. ASSUME NEW x PROVE IsSeq(<<x>>) /\ Range(<<x>>) = {x}
  <2>1. Range(<<x>>) = {x}
    BY DEF Range
  <2> QED BY <2>1 DEF IsSeq
<1> QED BY <1>1, <1>2

\* What is left of a sequence without some elements.
LEMMA WithoutFacts ==
  ASSUME NEW s, IsSeq(s), NEW T
  PROVE  IsSeq(Without(s, T)) /\ Range(Without(s, T)) = Range(s) \ T
<1> DEFINE ss == [i \in DOMAIN s |-> IF s[i] \in T THEN <<>> ELSE <<s[i]>>]
<1>1. Without(s, T) = Joined(ss)
  BY DEF Without, Mapped
<1>2. IsSeq(ss)
  BY MadeOf
<1>3. \A i \in DOMAIN ss : IsSeq(ss[i]) /\ Range(ss[i]) = {s[i]} \ T
  BY ShortSeqs
<1> HIDE DEF ss
<1>4. DOMAIN ss = DOMAIN s
  BY DEF ss
<1>5. /\ IsSeq(Joined(ss))
      /\ \A x : x \in Range(Joined(ss)) <=> \E i \in DOMAIN ss : x \in Range(ss[i])
  BY <1>2, <1>3, JoinedMember
<1>6. \A x : x \in Range(s) \ T <=> \E i \in DOMAIN s : x \in {s[i]} \ T
  BY DEF Range
<1> QED BY <1>1, <1>3, <1>4, <1>5, <1>6

\* What is left of a sequence without the elements that have no text.
LEMMA FilledFacts ==
  ASSUME NEW s, IsSeq(s)
  PROVE  IsSeq(Filled(s)) /\ Range(Filled(s)) = {x \in Range(s) : x.text # <<>>}
BY WithoutFacts DEF Filled

\* What a sequence after another one is.
LEMMA ConcatIs ==
  ASSUME NEW D, NEW s \in Seq(D), NEW t \in Seq(D), NEW u \in Seq(D),
         Len(u) = Len(s) + Len(t), \A i \in 1..Len(s) : u[i] = s[i],
         \A i \in 1..Len(t) : u[Len(s) + i] = t[i]
  PROVE  s \o t = u
<1> DEFINE v == s \o t
<1>1. v \in Seq(D) /\ Len(v) = Len(u)
      /\ \A i \in 1..Len(s) + Len(t) : v[i] = IF i <= Len(s) THEN s[i] ELSE t[i - Len(s)]
  BY ConcatProperties
<1> HIDE DEF v
<1>2. \A i \in 1..Len(v) : v[i] = u[i]
  <2> TAKE i \in 1..Len(v)
  <2>1. CASE i <= Len(s)
    BY <1>1, <2>1
  <2>2. CASE i > Len(s)
    <3>1. i - Len(s) \in 1..Len(t) /\ Len(s) + (i - Len(s)) = i
      BY <1>1, <2>2
    <3>2. u[Len(s) + (i - Len(s))] = t[i - Len(s)]
      BY <3>1
    <3> QED BY <1>1, <2>2, <3>1, <3>2
  <2> QED BY <2>1, <2>2, <1>1
<1>3. v = u
  BY <1>1, <1>2, SeqEqual
<1> QED BY <1>3 DEF v

\* Nothing after a sequence.
LEMMA NothingAfter ==
  /\ \A x : <<x>> \o <<>> = <<x>>
  /\ \A x, y, z, w : <<x, y, z, w>> \o <<>> = <<x, y, z, w>>
  /\ \A x, y, z, w, p, q : <<x, y, z, w, p, q>> \o <<>> = <<x, y, z, w, p, q>>
<1>1. ASSUME NEW s, IsSeq(s) PROVE s \o <<>> = s
  BY <1>1, ConcatEmptySeq DEF IsSeq
<1>2. ASSUME NEW x PROVE <<x>> \in Seq({x})
  OBVIOUS
<1>3. ASSUME NEW x, NEW y, NEW z, NEW w PROVE <<x, y, z, w>> \in Seq({x, y, z, w})
  OBVIOUS
<1>4. ASSUME NEW x, NEW y, NEW z, NEW w, NEW p, NEW q
      PROVE <<x, y, z, w, p, q>> \in Seq({x, y, z, w, p, q})
  OBVIOUS
<1> QED BY <1>1, <1>2, <1>3, <1>4, SeqIsSeq

\* One element after one.
LEMMA OneAndOne ==
  ASSUME NEW x, NEW y
  PROVE  <<x>> \o <<y>> = <<x, y>>
<1> DEFINE D == {x, y}
           s == <<x>>
           t == <<y>>
           u == <<x, y>>
<1>1. s \in Seq(D) /\ t \in Seq(D) /\ u \in Seq(D)
  OBVIOUS
<1>2. Len(u) = Len(s) + Len(t)
  OBVIOUS
<1>3. \A i \in 1..Len(s) : u[i] = s[i]
  OBVIOUS
<1>4. \A i \in 1..Len(t) : u[Len(s) + i] = t[i]
  OBVIOUS
<1> HIDE DEF D, s, t, u
<1>5. s \o t = u
  BY <1>1, <1>2, <1>3, <1>4, ConcatIs
<1> QED BY <1>5 DEF s, t, u

\* Two elements after one.
LEMMA OneAndTwo ==
  ASSUME NEW x, NEW y, NEW z
  PROVE  <<x>> \o <<y, z>> = <<x, y, z>>
<1> DEFINE D == {x, y, z}
           s == <<x>>
           t == <<y, z>>
           u == <<x, y, z>>
<1>1. s \in Seq(D) /\ t \in Seq(D) /\ u \in Seq(D)
  OBVIOUS
<1>2. Len(u) = Len(s) + Len(t)
  OBVIOUS
<1>3. \A i \in 1..Len(s) : u[i] = s[i]
  OBVIOUS
<1>4. \A i \in 1..Len(t) : u[Len(s) + i] = t[i]
  OBVIOUS
<1> HIDE DEF D, s, t, u
<1>5. s \o t = u
  BY <1>1, <1>2, <1>3, <1>4, ConcatIs
<1> QED BY <1>5 DEF s, t, u

\* One element after two.
LEMMA TwoAndOne ==
  ASSUME NEW x, NEW y, NEW z
  PROVE  <<x, y>> \o <<z>> = <<x, y, z>>
<1> DEFINE D == {x, y, z}
           s == <<x, y>>
           t == <<z>>
           u == <<x, y, z>>
<1>1. s \in Seq(D) /\ t \in Seq(D) /\ u \in Seq(D)
  OBVIOUS
<1>2. Len(u) = Len(s) + Len(t)
  OBVIOUS
<1>3. \A i \in 1..Len(s) : u[i] = s[i]
  OBVIOUS
<1>4. \A i \in 1..Len(t) : u[Len(s) + i] = t[i]
  OBVIOUS
<1> HIDE DEF D, s, t, u
<1>5. s \o t = u
  BY <1>1, <1>2, <1>3, <1>4, ConcatIs
<1> QED BY <1>5 DEF s, t, u

\* Two elements after two.
LEMMA TwoAndTwo ==
  ASSUME NEW x, NEW y, NEW z, NEW w
  PROVE  <<x, y>> \o <<z, w>> = <<x, y, z, w>>
<1> DEFINE D == {x, y, z, w}
           s == <<x, y>>
           t == <<z, w>>
           u == <<x, y, z, w>>
<1>1. s \in Seq(D) /\ t \in Seq(D) /\ u \in Seq(D)
  OBVIOUS
<1>2. Len(u) = Len(s) + Len(t)
  OBVIOUS
<1>3. \A i \in 1..Len(s) : u[i] = s[i]
  OBVIOUS
<1>4. \A i \in 1..Len(t) : u[Len(s) + i] = t[i]
  OBVIOUS
<1> HIDE DEF D, s, t, u
<1>5. s \o t = u
  BY <1>1, <1>2, <1>3, <1>4, ConcatIs
<1> QED BY <1>5 DEF s, t, u

\* Two elements after four.
LEMMA FourAndTwo ==
  ASSUME NEW x, NEW y, NEW z, NEW w, NEW p, NEW q
  PROVE  <<x, y, z, w>> \o <<p, q>> = <<x, y, z, w, p, q>>
<1> DEFINE D == {x, y, z, w, p, q}
           s == <<x, y, z, w>>
           t == <<p, q>>
           u == <<x, y, z, w, p, q>>
<1>1. s \in Seq(D) /\ t \in Seq(D) /\ u \in Seq(D)
  OBVIOUS
<1>2. Len(u) = Len(s) + Len(t)
  OBVIOUS
<1>3. \A i \in 1..Len(s) : u[i] = s[i]
  OBVIOUS
<1>4. \A i \in 1..Len(t) : u[Len(s) + i] = t[i]
  OBVIOUS
<1> HIDE DEF D, s, t, u
<1>5. s \o t = u
  BY <1>1, <1>2, <1>3, <1>4, ConcatIs
<1> QED BY <1>5 DEF s, t, u

-----------------------------------------------------------------------------
(* What is told of a sequence: a sequence for each of its elements, joined. *)

\* What holds of the empty sequence, and of a sequence with one more element when it holds of the
\* sequence, holds of all sequences: the shortest one for which it fails is looked for.
LEMMA SeqInduct ==
  ASSUME NEW D, NEW S, <<>> \in S, \A s \in Seq(D) : s \in S => \A x \in D : Append(s, x) \in S
  PROVE  Seq(D) \subseteq S
<1> DEFINE Bad == {n \in Nat : \E s \in Seq(D) : s \notin S /\ Len(s) = n}
<1> SUFFICES ASSUME NEW t \in Seq(D), t \notin S PROVE FALSE
  OBVIOUS
<1>1. Len(t) \in Bad
  OBVIOUS
<1>2. PICK n \in Bad : \A m \in Bad : n <= m
  BY <1>1, LeastNatural
<1>3. PICK s \in Seq(D) : s \notin S /\ Len(s) = n
  OBVIOUS
<1>4. s # <<>>
  BY <1>3
<1> DEFINE front == [i \in 1..(Len(s) - 1) |-> s[i]]
           last == s[Len(s)]
<1>5. front \in Seq(D) /\ Len(front) = Len(s) - 1 /\ last \in D /\ Len(front) \in Nat
  BY <1>4
<1>6. s = Append(front, last)
  BY <1>4, <1>5
<1>7. front \in S
  BY <1>2, <1>3, <1>5
<1> QED BY <1>3, <1>5, <1>6, <1>7

\* A sequence more is joined at the end.
LEMMA JoinedAppend ==
  ASSUME NEW D, NEW ss \in Seq(Seq(D)), NEW x \in Seq(D)
  PROVE  Joined(Append(ss, x)) = Joined(ss) \o x
<1> DEFINE tt == Append(ss, x)
           n == Len(ss)
<1>1. tt \in Seq(Seq(D)) /\ tt # <<>> /\ Len(tt) = n + 1 /\ n \in Nat
      /\ tt[n + 1] = x /\ \A i \in 1..n : tt[i] = ss[i]
  OBVIOUS
<1> HIDE DEF tt
<1>2. PICK g : Joins(g, tt, n + 1) /\ Joined(tt) = g[n + 1]
  BY <1>1, JoinedIsLast
<1>3. \A i \in 1..(n + 1) : g[i] = IF i = 1 THEN tt[i] ELSE g[i - 1] \o tt[i]
  BY <1>2, JoinsStep
<1>4. CASE ss = <<>>
  <2>1. n = 0 /\ Joined(ss) = <<>>
    BY <1>4 DEF Joined, FlattenSeq
  <2>2. g[n + 1] = x
    BY <1>1, <1>3, <2>1
  <2> QED BY <1>2, <2>1, <2>2 DEF tt
<1>5. CASE ss # <<>>
  <2>1. PICK f : Joins(f, ss, n) /\ Joined(ss) = f[n]
    BY <1>5, JoinedIsLast
  <2>2. \A i \in 1..n : f[i] = IF i = 1 THEN ss[i] ELSE f[i - 1] \o ss[i]
    BY <2>1, JoinsStep
  <2> DEFINE Bad == {i \in Nat : i \in 1..n /\ f[i] # g[i]}
  <2>3. Bad = {}
    <3> SUFFICES ASSUME Bad # {} PROVE FALSE
      OBVIOUS
    <3>1. PICK i \in Bad : \A j \in Bad : i <= j
      BY LeastNatural
    <3>2. i # 1 => f[i - 1] = g[i - 1]
      BY <3>1
    <3>3. f[i] = g[i]
      BY <1>1, <1>3, <2>2, <3>2
    <3> QED BY <3>3
  <2>4. n \in 1..n /\ n + 1 # 1
    BY <1>1, <1>5
  <2>5. g[n] = f[n]
    BY <2>3, <2>4
  <2>6. g[n + 1] = g[n] \o x
    <3>1. n + 1 \in 1..(n + 1) /\ (n + 1) - 1 = n
      BY <1>1
    <3>2. g[n + 1] = g[(n + 1) - 1] \o tt[n + 1]
      BY <1>3, <2>4, <3>1
    <3> QED BY <1>1, <3>1, <3>2
  <2> QED BY <1>2, <2>1, <2>5, <2>6 DEF tt
<1> QED BY <1>4, <1>5

\* What m tells of each element of s, joined.
Told(m, s) == Joined([i \in DOMAIN s |-> m[s[i]]])

\* What each element tells is a sequence of sequences.
LEMMA Imaged ==
  ASSUME NEW D, NEW E, NEW m \in [D -> Seq(E)], NEW s \in Seq(D)
  PROVE  [i \in DOMAIN s |-> m[s[i]]] \in Seq(Seq(E))
<1>1. [i \in DOMAIN s |-> m[s[i]]] \in [1..Len(s) -> Seq(E)] /\ Len(s) \in Nat
  OBVIOUS
<1> QED BY <1>1, SeqDef

\* Nothing is told of no element.
LEMMA ToldEmpty ==
  ASSUME NEW m
  PROVE  Told(m, <<>>) = <<>>
<1>1. [i \in DOMAIN <<>> |-> m[<<>>[i]]] = <<>>
  OBVIOUS
<1> QED BY <1>1 DEF Told, Joined, FlattenSeq

\* What is told is a sequence of what the elements tell.
LEMMA ToldTyped ==
  ASSUME NEW D, NEW E, NEW m \in [D -> Seq(E)], NEW s \in Seq(D)
  PROVE  Told(m, s) \in Seq(E)
<1> DEFINE ss == [i \in DOMAIN s |-> m[s[i]]]
<1>1. ss \in Seq(Seq(E))
  BY Imaged
<1> HIDE DEF ss
<1>2. Joined(ss) \in Seq(E)
  BY <1>1, JoinedTyped
<1> QED BY <1>2 DEF Told, ss

\* One element more tells its part at the end.
LEMMA ToldAppend ==
  ASSUME NEW D, NEW E, NEW m \in [D -> Seq(E)], NEW s \in Seq(D), NEW x \in D
  PROVE  Told(m, Append(s, x)) = Told(m, s) \o m[x]
<1> DEFINE ss == [i \in DOMAIN s |-> m[s[i]]]
           tt == [i \in DOMAIN Append(s, x) |-> m[Append(s, x)[i]]]
<1>1. ss \in Seq(Seq(E)) /\ m[x] \in Seq(E)
  BY Imaged
<1>2. tt = Append(ss, m[x])
  OBVIOUS
<1>3. Told(m, s) = Joined(ss) /\ Told(m, Append(s, x)) = Joined(tt)
  BY DEF Told
<1> HIDE DEF ss, tt
<1> QED BY <1>1, <1>2, <1>3, JoinedAppend

\* What is told of each element in turn is told of the sequence: of two sequences, one after the other.
LEMMA ToldConcat ==
  ASSUME NEW D, NEW E, NEW m \in [D -> Seq(E)], NEW s \in Seq(D), NEW t \in Seq(D)
  PROVE  Told(m, s \o t) = Told(m, s) \o Told(m, t)
<1> DEFINE S == {u \in Seq(D) : Told(m, s \o u) = Told(m, s) \o Told(m, u)}
<1>1. <<>> \in S
  <2>1. s \o <<>> = s /\ <<>> \in Seq(D)
    OBVIOUS
  <2>2. Told(m, s) \in Seq(E)
    BY ToldTyped
  <2>3. Told(m, s) \o <<>> = Told(m, s)
    BY <2>2
  <2>4. Told(m, <<>>) = <<>>
    BY ToldEmpty
  <2> QED BY <2>1, <2>3, <2>4
<1>2. ASSUME NEW u \in Seq(D), u \in S, NEW x \in D PROVE Append(u, x) \in S
  <2>1. s \o Append(u, x) = Append(s \o u, x) /\ s \o u \in Seq(D) /\ Append(u, x) \in Seq(D)
    OBVIOUS
  <2>2. Told(m, Append(s \o u, x)) = Told(m, s \o u) \o m[x]
    <3> DEFINE su == s \o u
    <3>1. su \in Seq(D)
      BY <2>1
    <3> HIDE DEF su
    <3>2. Told(m, Append(su, x)) = Told(m, su) \o m[x]
      BY <3>1, ToldAppend
    <3> QED BY <3>2 DEF su
  <2>3. Told(m, Append(u, x)) = Told(m, u) \o m[x]
    BY ToldAppend
  <2>4. Told(m, s) \in Seq(E) /\ Told(m, u) \in Seq(E) /\ m[x] \in Seq(E)
    BY ToldTyped
  <2>5. (Told(m, s) \o Told(m, u)) \o m[x] = Told(m, s) \o (Told(m, u) \o m[x])
    BY <2>4, ConcatAssociative
  <2> QED BY <1>2, <2>1, <2>2, <2>3, <2>5
<1>3. Seq(D) \subseteq S
  <2> HIDE DEF S
  <2> QED BY <1>1, <1>2, SeqInduct
<1> QED BY <1>3

\* ... and of sequences that are joined.
LEMMA ToldJoined ==
  ASSUME NEW D, NEW E, NEW m \in [D -> Seq(E)]
  PROVE  \A ss \in Seq(Seq(D)) : Told(m, Joined(ss)) = Joined([i \in DOMAIN ss |-> Told(m, ss[i])])
<1>1. \A s, t \in Seq(D) : Told(m, s \o t) = Told(m, s) \o Told(m, t)
  BY ToldConcat
<1> DEFINE tell == [s \in Seq(D) |-> Told(m, s)]
           S == {u \in Seq(Seq(D)) : Told(m, Joined(u)) = Told(tell, u)}
<1>2. tell \in [Seq(D) -> Seq(E)]
  BY ToldTyped
<1> HIDE DEF tell
<1>3. <<>> \in S
  <2>1. Joined(<<>>) = <<>> /\ <<>> \in Seq(Seq(D))
    BY DEF Joined, FlattenSeq
  <2> QED BY <2>1, ToldEmpty
<1>4. ASSUME NEW u \in Seq(Seq(D)), u \in S, NEW x \in Seq(D) PROVE Append(u, x) \in S
  <2>1. Joined(Append(u, x)) = Joined(u) \o x /\ Joined(u) \in Seq(D) /\ Append(u, x) \in Seq(Seq(D))
    BY JoinedAppend, JoinedTyped
  <2>2. Told(m, Joined(u) \o x) = Told(m, Joined(u)) \o Told(m, x)
    BY <1>1, <2>1
  <2>3. Told(tell, Append(u, x)) = Told(tell, u) \o tell[x]
    <3> DEFINE SD == Seq(D)
    <3>1. tell \in [SD -> Seq(E)] /\ u \in Seq(SD) /\ x \in SD
      BY <1>2
    <3> HIDE DEF SD
    <3> QED BY <3>1, ToldAppend
  <2>4. tell[x] = Told(m, x)
    BY DEF tell
  <2> QED BY <1>4, <2>1, <2>2, <2>3, <2>4
<1>5. Seq(Seq(D)) \subseteq S
  <2> HIDE DEF S
  <2> QED BY <1>3, <1>4, SeqInduct
<1> TAKE ss \in Seq(Seq(D))
<1>6. Told(m, Joined(ss)) = Told(tell, ss)
  BY <1>5
<1>7. [i \in DOMAIN ss |-> tell[ss[i]]] = [i \in DOMAIN ss |-> Told(m, ss[i])]
  BY DEF tell
<1> QED BY <1>6, <1>7 DEF Told

\* m tells a sequence over E of each element of D.
Tells(m, D, E) == m \in [D -> Seq(E)]

\* What is told by m of what k tells of an element of s.
TellsBoth(both, k, m, s) == \A i \in DOMAIN s : both[s[i]] = Told(m, k[s[i]])

\* What is told of what is told is told at once.
LEMMA ToldTold ==
  ASSUME NEW C, NEW D, NEW E, NEW k, Tells(k, C, D), NEW m, Tells(m, D, E), NEW s \in Seq(C),
         NEW both, TellsBoth(both, k, m, s)
  PROVE  Told(m, Told(k, s)) = Told(both, s)
<1> DEFINE ss == [i \in DOMAIN s |-> k[s[i]]]
<1>1. ss \in Seq(Seq(D))
  BY Imaged DEF Tells
<1>2. Told(m, Joined(ss)) = Joined([i \in DOMAIN ss |-> Told(m, ss[i])])
  <2>1. m \in [D -> Seq(E)]
    BY DEF Tells
  <2> HIDE DEF ss
  <2>2. \A u \in Seq(Seq(D)) : Told(m, Joined(u)) = Joined([i \in DOMAIN u |-> Told(m, u[i])])
    BY <2>1, ToldJoined
  <2> QED BY <1>1, <2>2
<1>3. [i \in DOMAIN ss |-> Told(m, ss[i])] = [i \in DOMAIN s |-> both[s[i]]]
  BY DEF TellsBoth
<1> QED BY <1>2, <1>3 DEF Told

\* What tells the same of each element tells the same of the sequence.
LEMMA ToldSame ==
  ASSUME NEW m, NEW k, NEW s, \A i \in DOMAIN s : m[s[i]] = k[s[i]]
  PROVE  Told(m, s) = Told(k, s)
<1>1. [i \in DOMAIN s |-> m[s[i]]] = [i \in DOMAIN s |-> k[s[i]]]
  OBVIOUS
<1> QED BY <1>1 DEF Told

\* Nothing is told of a sequence when nothing is told of its elements, and the sequence itself when
\* each of them is told.
LEMMA ToldPlain ==
  ASSUME NEW D, NEW m, NEW s \in Seq(D)
  PROVE  /\ (\A i \in DOMAIN s : m[s[i]] = <<>>) => Told(m, s) = <<>>
         /\ (\A i \in DOMAIN s : m[s[i]] = <<s[i]>>) => Told(m, s) = s
<1>1. ASSUME \A i \in DOMAIN s : m[s[i]] = <<>> PROVE Told(m, s) = <<>>
  <2> DEFINE ss == [i \in DOMAIN s |-> m[s[i]]]
  <2>1. ss \in Seq(Seq(D))
    <3>1. Len(s) \in Nat /\ DOMAIN s = 1..Len(s) /\ <<>> \in Seq(D)
      OBVIOUS
    <3>2. ss = [i \in 1..Len(s) |-> <<>>]
      BY <1>1, <3>1
    <3>3. ss \in [1..Len(s) -> Seq(D)]
      BY <3>1, <3>2
    <3> QED BY <3>1, <3>3, SeqDef
  <2>2. \A i \in DOMAIN ss : Range(ss[i]) = {}
    BY <1>1, ShortSeqs
  <2> HIDE DEF ss
  <2>3. Joined(ss) \in Seq(D) /\ Range(Joined(ss)) = {}
    BY <2>1, <2>2, JoinedTyped
  <2>4. Joined(ss) = <<>>
    BY <2>3, SeqIsSeq, SeqDomain
  <2> QED BY <2>4 DEF Told, ss
<1>2. ASSUME \A i \in DOMAIN s : m[s[i]] = <<s[i]>> PROVE Told(m, s) = s
  <2> DEFINE one == [x \in D |-> <<x>>]
             S == {u \in Seq(D) : Told(one, u) = u}
  <2>1. one \in [D -> Seq(D)]
    OBVIOUS
  <2>2. <<>> \in S
    BY ToldEmpty
  <2>3. ASSUME NEW u \in Seq(D), u \in S, NEW x \in D PROVE Append(u, x) \in S
    <3>1. Told(one, Append(u, x)) = Told(one, u) \o one[x]
      <4> HIDE DEF one
      <4> QED BY <2>1, ToldAppend
    <3>2. u \o <<x>> = Append(u, x) /\ Append(u, x) \in Seq(D)
      OBVIOUS
    <3> QED BY <2>3, <3>1, <3>2
  <2>4. Seq(D) \subseteq S
    <3> HIDE DEF S
    <3> QED BY <2>2, <2>3, SeqInduct
  <2>5. \A i \in DOMAIN s : m[s[i]] = one[s[i]]
    BY <1>2
  <2>6. Told(m, s) = Told(one, s)
    BY <2>5, ToldSame
  <2> QED BY <2>4, <2>6
<1> QED BY <1>1, <1>2

-----------------------------------------------------------------------------
(* Laws.                                                                   *)

\* The items of a lid, and its text outside them.
LidItems(lid) == Joined(Mapped(LAMBDA p : p.items, lid.parts))
Intro(lid) == Joined(Mapped(LAMBDA p : p.text, lid.parts))

\* The shape of a part of a law.
LEMMA LawShape ==
  /\ \A a \in Articles : /\ IsSeq(a.loose) /\ IsSeq(a.lids) /\ Range(a.lids) \subseteq Lids
                         /\ a.nr \in Numbers
  /\ \A lid \in Lids : IsSeq(lid.parts) /\ Range(lid.parts) \subseteq Parts /\ lid.nr \in Numbers
  /\ \A p \in Parts : IsSeq(p.text) /\ IsSeq(p.items) /\ Range(p.items) \subseteq Items
  /\ \A li \in Items : IsSeq(li.text) /\ li.nr \in Numbers
BY SeqIsSeq DEF Articles, Lids, Parts, Items, Texts

\* The items of a lid are those of its parts, and its introduction is the text of the parts.
LEMMA LidFacts ==
  ASSUME NEW lid \in Lids
  PROVE  /\ IsSeq(LidItems(lid)) /\ IsSeq(Intro(lid))
         /\ \A x : x \in Range(LidItems(lid)) <=> \E p \in Range(lid.parts) : x \in Range(p.items)
         /\ \A x : x \in Range(Intro(lid)) <=> \E p \in Range(lid.parts) : x \in Range(p.text)
<1> DEFINE parts == lid.parts
           items == [i \in DOMAIN parts |-> parts[i].items]
           texts == [i \in DOMAIN parts |-> parts[i].text]
<1>1. /\ IsSeq(parts) /\ \A i \in DOMAIN parts : parts[i] \in Parts /\ parts[i] \in Range(parts)
      /\ \A p \in Range(parts) : \E i \in DOMAIN parts : p = parts[i]
  BY LawShape DEF Range
<1>2. \A i \in DOMAIN parts : IsSeq(parts[i].items) /\ IsSeq(parts[i].text)
  BY <1>1, LawShape
<1>3. IsSeq(items) /\ IsSeq(texts)
  BY <1>1, MadeOf
<1>4. /\ IsSeq(Joined(items))
      /\ \A x : x \in Range(Joined(items)) <=> \E i \in DOMAIN items : x \in Range(items[i])
  BY <1>2, <1>3, JoinedMember
<1>5. /\ IsSeq(Joined(texts))
      /\ \A x : x \in Range(Joined(texts)) <=> \E i \in DOMAIN texts : x \in Range(texts[i])
  BY <1>2, <1>3, JoinedMember
<1>6. LidItems(lid) = Joined(items) /\ Intro(lid) = Joined(texts)
  BY DEF LidItems, Intro, Mapped
<1> QED BY <1>1, <1>4, <1>5, <1>6

\* The text of a lid is that of its parts and of their items (_element_text).
LEMMA LidText ==
  ASSUME NEW lid \in Lids
  PROVE  /\ IsSeq(lid_text(lid))
         /\ \A x : x \in Range(lid_text(lid)) <=>
              \E p \in Range(lid.parts) : x \in Range(p.text) \/ \E li \in Range(p.items) : x \in Range(li.text)
<1> DEFINE parts == lid.parts
           inner(p) == Joined(Mapped(LAMBDA li : li.text, p.items))
           texts == [i \in DOMAIN parts |-> parts[i].text \o inner(parts[i])]
<1>1. ASSUME NEW p \in Parts
      PROVE  /\ IsSeq(inner(p))
             /\ \A x : x \in Range(inner(p)) <=> \E li \in Range(p.items) : x \in Range(li.text)
  <2> DEFINE its == [i \in DOMAIN p.items |-> p.items[i].text]
  <2>1. /\ IsSeq(p.items) /\ \A i \in DOMAIN p.items : p.items[i] \in Items /\ p.items[i] \in Range(p.items)
        /\ \A li \in Range(p.items) : \E i \in DOMAIN p.items : li = p.items[i]
    BY LawShape DEF Range
  <2>2. \A i \in DOMAIN p.items : IsSeq(p.items[i].text)
    BY <2>1, LawShape
  <2>3. IsSeq(its)
    BY <2>1, MadeOf
  <2>4. IsSeq(Joined(its)) /\ \A x : x \in Range(Joined(its)) <=> \E i \in DOMAIN its : x \in Range(its[i])
    BY <2>2, <2>3, JoinedMember
  <2>5. inner(p) = Joined(its)
    BY DEF Mapped
  <2> QED BY <2>1, <2>4, <2>5
<1>2. /\ IsSeq(parts) /\ \A i \in DOMAIN parts : parts[i] \in Parts /\ parts[i] \in Range(parts)
      /\ \A p \in Range(parts) : \E i \in DOMAIN parts : p = parts[i]
      /\ Range(parts) \subseteq Parts
  BY LawShape DEF Range
<1>3. lid_text(lid) = Joined(texts)
  BY DEF lid_text, Mapped
<1>4. \A p \in Parts : IsSeq(p.text)
  BY LawShape
<1> HIDE DEF inner
<1>5. \A i \in DOMAIN parts : /\ IsSeq(parts[i].text \o inner(parts[i]))
                              /\ Range(parts[i].text \o inner(parts[i])) = Range(parts[i].text) \cup Range(inner(parts[i]))
  BY <1>1, <1>2, <1>4, ConcatFacts
<1>6. IsSeq(texts)
  BY <1>2, MadeOf
<1>7. IsSeq(Joined(texts))
      /\ \A x : x \in Range(Joined(texts)) <=> \E i \in DOMAIN texts : x \in Range(texts[i])
  BY <1>5, <1>6, JoinedMember
<1>8. \A x : (\E i \in DOMAIN texts : x \in Range(texts[i])) <=>
             \E p \in Range(parts) : x \in Range(p.text) \/ x \in Range(inner(p))
  BY <1>2, <1>5
<1>9. ASSUME NEW x, NEW p \in Range(parts)
      PROVE  x \in Range(inner(p)) <=> \E li \in Range(p.items) : x \in Range(li.text)
  BY <1>1, <1>2
<1>10. \A x : (\E p \in Range(parts) : x \in Range(p.text) \/ x \in Range(inner(p))) <=>
              \E p \in Range(parts) : x \in Range(p.text) \/ \E li \in Range(p.items) : x \in Range(li.text)
  BY <1>9, Zenon
<1> QED BY <1>3, <1>7, <1>8, <1>10

\* The text of an article is what stands beside its lids, and their text (_article_body).
LEMMA ArticleText ==
  ASSUME NEW a \in Articles
  PROVE  /\ IsSeq(_article_body(a))
         /\ \A x : x \in Range(_article_body(a)) <=>
              x \in Range(a.loose) \/ \E lid \in Range(a.lids) : x \in Range(lid_text(lid))
<1> DEFINE texts == [i \in DOMAIN a.lids |-> lid_text(a.lids[i])]
<1>1. /\ IsSeq(a.lids) /\ \A i \in DOMAIN a.lids : a.lids[i] \in Lids /\ a.lids[i] \in Range(a.lids)
      /\ \A lid \in Range(a.lids) : \E i \in DOMAIN a.lids : lid = a.lids[i]
      /\ IsSeq(a.loose)
  BY LawShape DEF Range
<1>2. \A i \in DOMAIN a.lids : IsSeq(lid_text(a.lids[i]))
  BY <1>1, LidText
<1>3. IsSeq(texts)
  BY <1>1, MadeOf
<1>4. IsSeq(Joined(texts))
      /\ \A x : x \in Range(Joined(texts)) <=> \E i \in DOMAIN texts : x \in Range(texts[i])
  BY <1>2, <1>3, JoinedMember
<1>5. _article_body(a) = a.loose \o Joined(texts)
  BY DEF _article_body, Mapped
<1>6. IsSeq(_article_body(a)) /\ Range(_article_body(a)) = Range(a.loose) \cup Range(Joined(texts))
  BY <1>1, <1>4, <1>5, ConcatFacts
<1> QED BY <1>1, <1>4, <1>6

\* The documents of a law file are those of its articles that have a text (parse_law_file).
LEMMA ParsedLaw ==
  ASSUME NEW file \in Seq(Articles)
  PROVE  /\ IsSeq(parse_law_file(file))
         /\ \A d : d \in Range(parse_law_file(file)) <=>
              \E a \in Range(file) : d = law_document(a) /\ _article_body(a) # <<>>
<1> DEFINE docs == [i \in DOMAIN file |-> law_document(file[i])]
<1>1. IsSeq(file) /\ \A a \in Range(file) : \E i \in DOMAIN file : a = file[i]
  BY SeqIsSeq DEF Range
<1>2. IsSeq(docs)
  BY <1>1, MadeOf
<1>3. parse_law_file(file) = Filled(docs)
  BY DEF parse_law_file, Mapped
<1>4. \A d : d \in Range(docs) <=> \E a \in Range(file) : d = law_document(a)
  BY <1>1 DEF Range
<1> HIDE DEF docs
<1>5. IsSeq(Filled(docs)) /\ Range(Filled(docs)) = {d \in Range(docs) : d.text # <<>>}
  BY <1>2, FilledFacts
<1>6. \A a : law_document(a).text = _article_body(a)
  BY DEF law_document
<1> QED BY <1>3, <1>4, <1>5, <1>6

\* The chunk of an item of a lid, with what introduces it.
ItemChunk(doc, lid, li) ==
  record(build_law_chunk_id(doc, lid.nr, NoneIfEmpty(li.nr)), Intro(lid) \o li.text,
         doc.citation \o (IF li.nr = "" THEN <<lid.nr>> ELSE <<lid.nr, li.nr>>))

\* The chunk of a lid without items.
LidChunk(doc, lid) ==
  record(build_law_chunk_id(doc, NoneIfEmpty(lid.nr), None), Intro(lid),
         doc.citation \o (IF lid.nr = "" THEN <<>> ELSE <<lid.nr>>))

\* The chunks of a lid: one for each item that has a text, one in all when there are no items.
LEMMA LidChunks ==
  ASSUME NEW doc, NEW lid \in Lids
  PROVE  /\ IsSeq(lid_chunks(doc, lid))
         /\ \A c : c \in Range(lid_chunks(doc, lid)) <=>
              \/ \E li \in Range(LidItems(lid)) : li.text # <<>> /\ c = ItemChunk(doc, lid, li)
              \/ LidItems(lid) = <<>> /\ Intro(lid) # <<>> /\ c = LidChunk(doc, lid)
<1>1. IsSeq(LidItems(lid)) /\ IsSeq(Intro(lid))
  BY LidFacts
<1>2. LidItems(lid) = <<>> <=> Range(LidItems(lid)) = {}
  BY <1>1, SeqDomain
<1>3. CASE LidItems(lid) # <<>>
  <2> DEFINE kept == Filled(LidItems(lid))
             cs == [i \in DOMAIN kept |-> ItemChunk(doc, lid, kept[i])]
  <2>1. lid_chunks(doc, lid) = cs
    BY <1>3 DEF lid_chunks, _build_subparagraph_chunks, Mapped, ItemChunk, LidItems, Intro
  <2>2. IsSeq(kept) /\ Range(kept) = {li \in Range(LidItems(lid)) : li.text # <<>>}
    BY <1>1, FilledFacts
  <2> HIDE DEF kept
  <2>3. IsSeq(cs)
    BY <2>2, MadeOf
  <2>4. \A c : c \in Range(cs) <=> \E li \in Range(kept) : c = ItemChunk(doc, lid, li)
    BY DEF Range
  <2> QED BY <1>3, <2>1, <2>2, <2>3, <2>4
<1>4. CASE LidItems(lid) = <<>>
  <2>1. lid_chunks(doc, lid) = IF Intro(lid) = <<>> THEN <<>> ELSE <<LidChunk(doc, lid)>>
    BY <1>4 DEF lid_chunks, paragraph_chunk, LidChunk, LidItems, Intro
  <2> QED BY <1>2, <1>4, <2>1, ShortSeqs
<1> QED BY <1>3, <1>4

\* The chunks of an article of a law: those of its lids, one in all when they have none.
LEMMA LawChunks ==
  ASSUME NEW doc, NEW file \in Seq(Articles)
  PROVE  /\ IsSeq(_article_lids(doc, file)) /\ Range(_article_lids(doc, file)) \subseteq Lids
         /\ IsSeq(chunk_law_document(doc, file))
         /\ \/ /\ chunk_law_document(doc, file) = whole_article(doc)
               /\ \A lid \in Range(_article_lids(doc, file)) : Range(lid_chunks(doc, lid)) = {}
            \/ \A c : c \in Range(chunk_law_document(doc, file)) <=>
                 \E lid \in Range(_article_lids(doc, file)) : c \in Range(lid_chunks(doc, lid))
<1> DEFINE lids == _article_lids(doc, file)
           css == [i \in DOMAIN lids |-> lid_chunks(doc, lids[i])]
           found == Joined(css)
<1>1. IsSeq(lids) /\ Range(lids) \subseteq Lids
  <2> DEFINE at == {i \in DOMAIN file : file[i].nr = doc.article}
  <2>1. CASE at = {}
    BY <2>1, ShortSeqs DEF _article_lids
  <2>2. CASE at # {}
    <3>1. at \subseteq Nat
      OBVIOUS
    <3>2. Min(at) \in at
      <4>1. \E n \in at : \A m \in at : n <= m
        BY <2>2, <3>1, LeastNatural
      <4> QED BY <4>1 DEF Min
    <3>3. file[Min(at)] \in Articles
      BY <3>2
    <3> QED BY <2>2, <3>3, LawShape DEF _article_lids
  <2> QED BY <2>1, <2>2
<1>2. chunk_law_document(doc, file) = IF found = <<>> THEN whole_article(doc) ELSE found
  BY DEF chunk_law_document, Mapped
<1> HIDE DEF lids
<1>3. \A i \in DOMAIN lids : IsSeq(lid_chunks(doc, lids[i]))
  BY <1>1, LidChunks DEF Range
<1>4. IsSeq(css)
  BY <1>1, MadeOf
<1>5. IsSeq(found) /\ \A c : c \in Range(found) <=> \E i \in DOMAIN css : c \in Range(css[i])
  BY <1>3, <1>4, JoinedMember
<1> HIDE DEF found
<1>6. \A c : c \in Range(found) <=> \E lid \in Range(lids) : c \in Range(lid_chunks(doc, lid))
  <2>1. /\ \A i \in DOMAIN lids : lids[i] \in Range(lids)
        /\ \A lid \in Range(lids) : \E i \in DOMAIN lids : lid = lids[i]
    BY DEF Range
  <2>2. \A c : c \in Range(found) <=> \E i \in DOMAIN lids : c \in Range(lid_chunks(doc, lids[i]))
    BY <1>5
  <2> QED BY <2>1, <2>2
<1>7. IsSeq(whole_article(doc))
  BY ShortSeqs DEF whole_article
<1>8. CASE found = <<>>
  <2>1. Range(found) = {}
    BY <1>8, ShortSeqs
  <2>2. \A lid \in Range(lids) : Range(lid_chunks(doc, lid)) = {}
    BY <1>6, <2>1
  <2> QED BY <1>1, <1>2, <1>7, <1>8, <2>2 DEF lids
<1>9. CASE found # <<>>
  BY <1>1, <1>2, <1>5, <1>6, <1>9 DEF lids
<1> QED BY <1>8, <1>9

-----------------------------------------------------------------------------
(* The two scripts.                                                        *)

\* The file is one of its kind; the documents are those of the file that was read when they were
\* parsed, and the chunks are made of them and of the file as it is then.
IInv ==
  /\ stage \in {"raw", "parsed", "failed", "chunked"}
  /\ \/ source_type = "legislation" /\ raw \in Seq(Articles) /\ (stage = "raw" => raw \in LawFiles)
     \/ source_type = "case_law" /\ raw \in CaseFiles
     \/ source_type = "internal_policy" /\ raw \in SupportFiles
  /\ stage \in {"parsed", "chunked"} =>
       /\ Valid(documents)
       /\ IF source_type = "legislation" THEN \E file \in LawFiles : documents = parse_law_file(file)
          ELSE documents = parsed(raw)
  /\ stage = "chunked" => chunks = Joined(Mapped(LAMBDA doc : chunked(doc, raw), documents))

\* IInv is an invariant of the two scripts (parse_raw_data.py, build_chunks.py).
THEOREM Inductive == Spec => []IInv
<1>1. Init => IInv
  BY ChunkingAssumption DEF Init, IInv
<1>2. IInv /\ [Next]_vars => IInv'
  <2> SUFFICES ASSUME IInv, [Next]_vars PROVE IInv'
    OBVIOUS
  <2>1. CASE Parse
    <3>1. stage = "raw" /\ UNCHANGED <<source_type, raw, chunks>> /\ stage' \in {"parsed", "failed"}
      BY <2>1 DEF Parse
    <3>2. stage' = "parsed" => documents' = parsed(raw) /\ Valid(parsed(raw))
      BY <2>1 DEF Parse
    <3>3. source_type = "legislation" => parsed(raw) = parse_law_file(raw)
      BY DEF parsed
    <3>4. parsed(raw)' = parsed(raw)
      BY <3>1 DEF parsed
    <3>5. Valid(parsed(raw)) /\ documents' = parsed(raw) => Valid(documents)'
      BY DEF Valid
    <3> QED BY <3>1, <3>2, <3>3, <3>4, <3>5 DEF IInv
  <2>2. CASE Replace
    <3>1. stage = "parsed" /\ source_type = "legislation" /\ UNCHANGED <<source_type, documents, chunks, stage>>
      BY <2>2 DEF Replace
    <3>2. raw' \in Seq(Articles)
      <4>1. raw \in Seq(Articles) /\ Len(raw) > 1 /\ raw' \in {Tail(raw), Front(raw)}
        BY <2>2, <3>1 DEF Replace, IInv
      <4>2. Tail(raw) \in Seq(Articles)
        BY <4>1
      <4>3. Front(raw) \in Seq(Articles)
        BY <4>1, SubSeqProperties DEF Front
      <4> QED BY <4>1, <4>2, <4>3
    <3>3. Valid(documents)' <=> Valid(documents)
      BY <3>1 DEF Valid
    <3> QED BY <3>1, <3>2, <3>3 DEF IInv
  <2>3. CASE build_chunks
    <3>1. /\ stage = "parsed" /\ stage' = "chunked" /\ UNCHANGED <<source_type, raw, documents>>
          /\ chunks' = Joined(Mapped(LAMBDA doc : chunked(doc, raw), documents))
      BY <2>3 DEF build_chunks
    <3>2. parsed(raw)' = parsed(raw) /\ (Valid(documents)' <=> Valid(documents))
      BY <3>1 DEF parsed, Valid
    <3>3. \A doc : chunked(doc, raw)' = chunked(doc, raw)
      BY <3>1 DEF chunked
    <3>4. Joined(Mapped(LAMBDA doc : chunked(doc, raw), documents))' = chunks'
      BY <3>1, <3>3 DEF Mapped
    <3> QED BY <3>1, <3>2, <3>4 DEF IInv
  <2>4. CASE UNCHANGED vars
    <3>1. UNCHANGED <<source_type, raw, documents, chunks, stage>>
      BY <2>4 DEF vars
    <3>2. parsed(raw)' = parsed(raw) /\ (Valid(documents)' <=> Valid(documents))
      BY <3>1 DEF parsed, Valid
    <3>3. \A doc : chunked(doc, raw)' = chunked(doc, raw)
      BY <3>1 DEF chunked
    <3>4. Joined(Mapped(LAMBDA doc : chunked(doc, raw), documents))'
          = Joined(Mapped(LAMBDA doc : chunked(doc, raw), documents))
      BY <3>1, <3>3 DEF Mapped
    <3> QED BY <3>1, <3>2, <3>4 DEF IInv
  <2> QED BY <2>1, <2>2, <2>3, <2>4 DEF Next
<1> QED BY <1>1, <1>2, PTL DEF Spec

-----------------------------------------------------------------------------
(* Laws in chunks.                                                         *)

\* The documents are those of a law file, and the chunks are those of the documents, each of them
\* a chunk for the whole article or for a lid of an article with its number.
LEMMA LawChunked ==
  ASSUME IInv, Chunked, source_type = "legislation"
  PROVE  /\ raw \in Seq(Articles)
         /\ \E file \in LawFiles : documents = parse_law_file(file)
         /\ IsSeq(documents) /\ \A d \in Range(documents) : d.text # <<>>
         /\ \A c : c \in Range(chunks) <=>
              \E d \in Range(documents) : c \in Range(chunk_law_document(d, raw))
<1> DEFINE css == [i \in DOMAIN documents |-> chunk_law_document(documents[i], raw)]
<1>1. stage = "chunked" /\ raw \in Seq(Articles) /\ Valid(documents)
  BY DEF IInv, Chunked
<1>2. PICK file \in LawFiles : documents = parse_law_file(file)
  BY <1>1 DEF IInv
<1>3. IsSeq(documents)
  BY <1>2, ChunkingAssumption, ParsedLaw
<1>4. \A doc : chunked(doc, raw) = chunk_law_document(doc, raw)
  BY DEF chunked
<1>5. chunks = Joined(css)
  BY <1>1, <1>4 DEF IInv, Mapped
<1>6. \A i \in DOMAIN documents : IsSeq(chunk_law_document(documents[i], raw))
  BY <1>1, LawChunks
<1>7. IsSeq(css)
  BY <1>3, MadeOf
<1>8. \A c : c \in Range(chunks) <=> \E i \in DOMAIN css : c \in Range(css[i])
  BY <1>5, <1>6, <1>7, JoinedMember
<1>9. /\ \A i \in DOMAIN documents : documents[i] \in Range(documents)
      /\ \A d \in Range(documents) : \E i \in DOMAIN documents : d = documents[i]
  BY DEF Range
<1>10. \A c : c \in Range(chunks) <=>
         \E i \in DOMAIN documents : c \in Range(chunk_law_document(documents[i], raw))
  BY <1>8
<1> QED BY <1>1, <1>2, <1>3, <1>9, <1>10 DEF Valid

\* The lids of a document are those of the first article with its number, if there is one.
LEMMA ArticleLids ==
  ASSUME NEW doc, NEW file \in Seq(Articles)
  PROVE  /\ \A lid \in Range(_article_lids(doc, file)) :
              \E a \in Range(file) : a.nr = doc.article /\ lid \in Range(a.lids)
         /\ \A i \in DOMAIN file :
              file[i].nr = doc.article /\ (\A j \in 1..(i - 1) : file[j].nr # doc.article) =>
                _article_lids(doc, file) = file[i].lids
<1> DEFINE at == {i \in DOMAIN file : file[i].nr = doc.article}
<1>1. at \subseteq Nat /\ DOMAIN file = 1..Len(file)
  OBVIOUS
<1>2. at # {} => Min(at) \in at /\ \A m \in at : Min(at) <= m
  <2>1. at # {} => \E n \in at : \A m \in at : n <= m
    BY <1>1, LeastNatural
  <2> QED BY <2>1 DEF Min
<1>3. _article_lids(doc, file) = IF at = {} THEN <<>> ELSE file[Min(at)].lids
  BY DEF _article_lids
<1>4. Range(<<>>) = {}
  BY ShortSeqs
<1>5. ASSUME NEW lid \in Range(_article_lids(doc, file))
      PROVE  \E a \in Range(file) : a.nr = doc.article /\ lid \in Range(a.lids)
  <2>1. at # {}
    BY <1>3, <1>4, <1>5
  <2>2. Min(at) \in DOMAIN file /\ file[Min(at)].nr = doc.article /\ lid \in Range(file[Min(at)].lids)
    BY <1>2, <1>3, <1>5, <2>1
  <2>3. file[Min(at)] \in Range(file)
    BY <2>2 DEF Range
  <2> QED BY <2>2, <2>3
<1>6. ASSUME NEW i \in DOMAIN file, file[i].nr = doc.article, \A j \in 1..(i - 1) : file[j].nr # doc.article
      PROVE  _article_lids(doc, file) = file[i].lids
  <2>1. i \in at
    BY <1>6
  <2>2. Min(at) \in at /\ Min(at) <= i
    BY <1>2, <2>1
  <2>3. Min(at) \notin 1..(i - 1)
    BY <1>6, <2>2
  <2>4. Min(at) = i
    BY <1>1, <2>1, <2>2, <2>3
  <2> QED BY <1>3, <2>1, <2>4
<1> QED BY <1>5, <1>6

\* What a chunk of a law is: one of a whole article, or one of a lid of an article with the number of
\* the document.
LEMMA LawChunkForm ==
  ASSUME NEW doc, NEW file \in Seq(Articles), NEW c \in Range(chunk_law_document(doc, file))
  PROVE  \/ c = record(build_law_chunk_id(doc, None, None), doc.text, doc.citation)
         \/ \E a \in Range(file) : \E lid \in Range(a.lids) :
              /\ a.nr = doc.article
              /\ \/ \E li \in Range(LidItems(lid)) : c = ItemChunk(doc, lid, li)
                 \/ c = LidChunk(doc, lid)
<1>1. CASE chunk_law_document(doc, file) = whole_article(doc)
  <2>1. Range(whole_article(doc)) = {record(build_law_chunk_id(doc, None, None), doc.text, doc.citation)}
    BY ShortSeqs DEF whole_article
  <2> QED BY <1>1, <2>1
<1>2. CASE \E lid \in Range(_article_lids(doc, file)) : c \in Range(lid_chunks(doc, lid))
  <2>1. PICK lid \in Range(_article_lids(doc, file)) : c \in Range(lid_chunks(doc, lid))
    BY <1>2
  <2>2. lid \in Lids
    BY LawChunks
  <2>3. PICK a \in Range(file) : a.nr = doc.article /\ lid \in Range(a.lids)
    BY ArticleLids
  <2> QED BY <2>1, <2>2, <2>3, LidChunks
<1> QED BY <1>1, <1>2, LawChunks

\* What a law file holds at the place of an article ...
LEMMA ArticleCited ==
  ASSUME NEW file, NEW a \in Range(file)
  PROVE  Range(_article_body(a)) \subseteq TextCited(file, <<a.nr>>)
<1>1. TextCited(file, <<a.nr>>) = TokensOf({_article_body(b) : b \in ArticlesCited(file, <<a.nr>>)})
  BY DEF TextCited
<1>2. a \in ArticlesCited(file, <<a.nr>>)
  BY DEF ArticlesCited
<1> QED BY <1>1, <1>2 DEF TokensOf

\* ... of a lid ...
LEMMA LidCited ==
  ASSUME NEW file, NEW a \in Range(file), NEW lid \in Range(a.lids)
  PROVE  Range(lid_text(lid)) \subseteq TextCited(file, <<a.nr, lid.nr>>)
<1> DEFINE citation == <<a.nr, lid.nr>>
<1>1. TextCited(file, citation) = TokensOf({lid_text(m) : m \in LidsCited(file, citation)})
  BY DEF TextCited
<1>2. lid \in LidsCited(file, citation)
  BY DEF LidsCited, ArticlesCited
<1> QED BY <1>1, <1>2 DEF TokensOf

\* ... and of an item.
LEMMA ItemCited ==
  ASSUME NEW file, NEW a \in Range(file), NEW lid \in Range(a.lids),
         NEW p \in Range(lid.parts), NEW li \in Range(p.items)
  PROVE  /\ \A q \in Range(lid.parts) : Range(q.text) \subseteq TextCited(file, <<a.nr, lid.nr, li.nr>>)
         /\ Range(li.text) \subseteq TextCited(file, <<a.nr, lid.nr, li.nr>>)
<1> DEFINE citation == <<a.nr, lid.nr, li.nr>>
<1>1. TextCited(file, citation) = TokensOf({q.text : q \in PartsCited(file, citation)}
                                           \cup {m.text : m \in ItemsCited(file, citation)})
  BY DEF TextCited
<1>2. lid \in LidsCited(file, citation)
  BY DEF LidsCited, ArticlesCited
<1>3. Range(lid.parts) \subseteq PartsCited(file, citation)
  BY <1>2 DEF PartsCited
<1>4. li \in ItemsCited(file, citation)
  BY <1>3 DEF ItemsCited
<1> QED BY <1>1, <1>3, <1>4 DEF TokensOf

\* A chunk of a law holds no text but that of the place it cites, in the file as it is when it is
\* chunked (legal_chunker.py:52, legal_chunker.py:89).
THEOREM CitesItsText == Spec => []CitationCoversText
<1>1. IInv => CitationCoversText
  <2> SUFFICES ASSUME IInv, Chunked, source_type = "legislation", NEW c \in Range(chunks)
               PROVE  \/ Range(c.text) \subseteq TextCited(raw, c.citation)
                      \/ \E d \in Range(documents) : c.text = d.text /\ c.citation = d.citation
    BY DEF CitationCoversText
  <2>1. PICK d \in Range(documents) : c \in Range(chunk_law_document(d, raw))
    BY LawChunked
  <2>2. raw \in Seq(Articles)
    BY LawChunked
  <2>3. d.citation = <<d.article>>
    <3>1. PICK file \in LawFiles : documents = parse_law_file(file)
      BY LawChunked
    <3>2. PICK a \in Range(file) : d = law_document(a)
      BY <3>1, ChunkingAssumption, ParsedLaw
    <3> QED BY <3>2 DEF law_document
  <2>4. CASE c = record(build_law_chunk_id(d, None, None), d.text, d.citation)
    BY <2>4 DEF record
  <2>5. CASE \E a \in Range(raw) : \E lid \in Range(a.lids) :
               /\ a.nr = d.article
               /\ \/ \E li \in Range(LidItems(lid)) : c = ItemChunk(d, lid, li)
                  \/ c = LidChunk(d, lid)
    <3>1. PICK a \in Range(raw) : \E lid \in Range(a.lids) :
            /\ a.nr = d.article
            /\ \/ \E li \in Range(LidItems(lid)) : c = ItemChunk(d, lid, li)
               \/ c = LidChunk(d, lid)
      BY <2>5
    <3>2. PICK lid \in Range(a.lids) : \/ \E li \in Range(LidItems(lid)) : c = ItemChunk(d, lid, li)
                                       \/ c = LidChunk(d, lid)
      BY <3>1
    <3>3. a \in Articles /\ lid \in Lids
      BY <2>2, <3>1, <3>2, SeqIsSeq, LawShape
    <3>4. /\ Range(lid_text(lid)) \subseteq Range(_article_body(a))
          /\ Range(Intro(lid)) \subseteq Range(lid_text(lid))
      BY <3>2, <3>3, ArticleText, LidText, LidFacts
    <3>5. a.nr = d.article
      BY <3>1
    <3>6. CASE c = LidChunk(d, lid) /\ lid.nr = ""
      <4>1. c.text = Intro(lid) /\ c.citation = <<d.article>>
        <5>1. c.citation = d.citation \o <<>> /\ c.text = Intro(lid)
          BY <3>6 DEF LidChunk, record
        <5> QED BY <2>3, <5>1, NothingAfter
      <4>2. Range(_article_body(a)) \subseteq TextCited(raw, c.citation)
        BY <3>5, <4>1, ArticleCited
      <4> QED BY <3>4, <4>1, <4>2
    <3>7. CASE c = LidChunk(d, lid) /\ lid.nr # ""
      <4>1. c.text = Intro(lid) /\ c.citation = <<d.article, lid.nr>>
        BY <2>3, <3>7, OneAndOne DEF LidChunk, record
      <4>2. Range(lid_text(lid)) \subseteq TextCited(raw, c.citation)
        BY <3>2, <3>5, <4>1, LidCited
      <4> QED BY <3>4, <4>1, <4>2
    <3>8. ASSUME NEW li \in Range(LidItems(lid)), c = ItemChunk(d, lid, li)
          PROVE  Range(c.text) \subseteq TextCited(raw, c.citation)
      <4>1. PICK p \in Range(lid.parts) : li \in Range(p.items)
        BY <3>3, LidFacts
      <4>2. p \in Parts /\ li \in Items
        BY <3>3, <4>1, LawShape
      <4>3. c.text = Intro(lid) \o li.text /\ IsSeq(Intro(lid)) /\ IsSeq(li.text)
        BY <3>3, <3>8, <4>2, LidFacts, LawShape DEF ItemChunk, record
      <4>4. Range(c.text) = Range(Intro(lid)) \cup Range(li.text)
        BY <4>3, ConcatFacts
      <4>5. CASE li.nr = ""
        <5>1. c.citation = <<d.article, lid.nr>>
          BY <2>3, <3>8, <4>5, OneAndOne DEF ItemChunk, record
        <5>2. Range(lid_text(lid)) \subseteq TextCited(raw, c.citation)
          BY <3>2, <3>5, <5>1, LidCited
        <5>3. Range(li.text) \subseteq Range(lid_text(lid))
          BY <3>3, <4>1, LidText
        <5> QED BY <3>4, <4>4, <5>2, <5>3
      <4>6. CASE li.nr # ""
        <5>1. c.citation = <<d.article, lid.nr, li.nr>>
          BY <2>3, <3>8, <4>6, OneAndTwo DEF ItemChunk, record
        <5>2. /\ \A q \in Range(lid.parts) : Range(q.text) \subseteq TextCited(raw, c.citation)
              /\ Range(li.text) \subseteq TextCited(raw, c.citation)
          BY <3>2, <3>5, <4>1, <5>1, ItemCited
        <5>3. Range(Intro(lid)) \subseteq TextCited(raw, c.citation)
          BY <3>3, <5>2, LidFacts
        <5> QED BY <4>4, <5>2, <5>3
      <4> QED BY <4>5, <4>6
    <3> QED BY <3>2, <3>6, <3>7, <3>8
  <2> QED BY <2>1, <2>2, <2>4, <2>5, LawChunkForm
<1> QED BY <1>1, Inductive, PTL

\* The identifiers of the chunks of a law.
LEMMA LawChunkIds ==
  ASSUME NEW doc, NEW x, doc.doc_id = <<"law", x>>
  PROVE  /\ build_law_chunk_id(doc, None, None) = <<"law", x, "body">>
         /\ \A n \in Numbers :
              build_law_chunk_id(doc, n, None) = <<"law", x, "paragraph", Slug[n]>>
         /\ \A n, m \in Numbers :
              build_law_chunk_id(doc, n, m) = <<"law", x, "paragraph", Slug[n], "subparagraph", Slug[m]>>
<1>1. None \notin Numbers
  BY ChunkingAssumption
<1>2. build_law_chunk_id(doc, None, None) = <<"law", x, "body">>
  BY TwoAndOne DEF build_law_chunk_id
<1>3. ASSUME NEW n \in Numbers
      PROVE  build_law_chunk_id(doc, n, None) = <<"law", x, "paragraph", Slug[n]>>
  <2>1. n # None
    BY <1>1
  <2>2. <<"law", x>> \o <<"paragraph", Slug[n]>> = <<"law", x, "paragraph", Slug[n]>>
    BY TwoAndTwo
  <2>3. build_law_chunk_id(doc, n, None) = ((<<"law", x>> \o <<"paragraph", Slug[n]>>) \o <<>>) \o <<>>
    BY <2>1 DEF build_law_chunk_id
  <2> QED BY <2>2, <2>3, NothingAfter
<1>4. ASSUME NEW n \in Numbers, NEW m \in Numbers
      PROVE  build_law_chunk_id(doc, n, m) = <<"law", x, "paragraph", Slug[n], "subparagraph", Slug[m]>>
  <2>1. n # None /\ m # None
    BY <1>1
  <2>2. <<"law", x>> \o <<"paragraph", Slug[n]>> = <<"law", x, "paragraph", Slug[n]>>
    BY TwoAndTwo
  <2>3. <<"law", x, "paragraph", Slug[n]>> \o <<"subparagraph", Slug[m]>>
        = <<"law", x, "paragraph", Slug[n], "subparagraph", Slug[m]>>
    BY FourAndTwo
  <2>4. build_law_chunk_id(doc, n, m)
        = ((<<"law", x>> \o <<"paragraph", Slug[n]>>) \o <<"subparagraph", Slug[m]>>) \o <<>>
    BY <2>1 DEF build_law_chunk_id
  <2> QED BY <2>2, <2>3, <2>4, NothingAfter
<1> QED BY <1>2, <1>3, <1>4

\* The identifier and the citation of a chunk of a law: those of an article, of a lid, of an item.
NamesArticle(id, citation, x, nr) == id = <<"law", x, "body">> /\ citation = <<nr>>

NamesLid(id, citation, x, nr) ==
  \E n \in Numbers : id = <<"law", x, "paragraph", Slug[n]>> /\ citation = <<nr, n>>

NamesItem(id, citation, x, nr) ==
  \E n, m \in Numbers : /\ id = <<"law", x, "paragraph", Slug[n], "subparagraph", Slug[m]>>
                        /\ citation = <<nr, n, m>>

Names(id, citation, x, nr) ==
  NamesArticle(id, citation, x, nr) \/ NamesLid(id, citation, x, nr) \/ NamesItem(id, citation, x, nr)

\* The name of an article is its number, and that of no other when it has none.
NameOf(x, nr) == nr \in Numbers /\ (nr # "" => x = nr) /\ (nr = "" => x \notin Numbers \ {""})

\* Articles of one name have one number.
LEMMA OneNumber ==
  ASSUME NEW x, NEW nr, NEW mr, NameOf(x, nr), NameOf(x, mr)
  PROVE  nr = mr
<1>1. CASE nr = "" /\ mr = ""
  BY <1>1
<1>2. CASE nr = "" /\ mr # ""
  BY <1>2 DEF NameOf
<1>3. CASE nr # "" /\ mr = ""
  BY <1>3 DEF NameOf
<1>4. CASE nr # "" /\ mr # ""
  BY <1>4 DEF NameOf
<1> QED BY <1>1, <1>2, <1>3, <1>4

\* Each chunk of a law has an identifier and a citation of one of these forms, with the name and
\* the number of an article.
LEMMA LawChunkNames ==
  ASSUME IInv, Chunked, source_type = "legislation", NEW c \in Range(chunks)
  PROVE  \E x, nr : Names(c.chunk_id, c.citation, x, nr) /\ NameOf(x, nr)
<1>1. PICK d \in Range(documents) : c \in Range(chunk_law_document(d, raw))
  BY LawChunked
<1>2. PICK file \in LawFiles : documents = parse_law_file(file)
  BY LawChunked
<1>3. PICK b \in Range(file) : d = law_document(b)
  BY <1>1, <1>2, ChunkingAssumption, ParsedLaw
<1> DEFINE nr == b.nr
           x == IF nr = "" THEN b.id ELSE nr
<1>4. d.doc_id = <<"law", x>> /\ d.citation = <<nr>>
  BY <1>3 DEF law_document
<1>5. NameOf(x, nr)
  <2>1. b \in Articles
    BY <1>2, <1>3, ChunkingAssumption, SeqIsSeq
  <2>2. nr = "" => b.id \notin Numbers \ {""}
    BY <1>2, <1>3, ChunkingAssumption
  <2> QED BY <2>1, <2>2, LawShape DEF NameOf
<1> HIDE DEF x, nr
<1>6. raw \in Seq(Articles)
  BY LawChunked
<1>7. Names(c.chunk_id, c.citation, x, nr)
  <2>1. CASE c = record(build_law_chunk_id(d, None, None), d.text, d.citation)
    BY <1>4, <2>1, LawChunkIds DEF record, Names, NamesArticle
  <2>2. ASSUME NEW a \in Range(raw), NEW lid \in Range(a.lids), NEW li \in Range(LidItems(lid)),
               c = ItemChunk(d, lid, li)
        PROVE  Names(c.chunk_id, c.citation, x, nr)
    <3>1. lid \in Lids
      BY <1>6, <2>2, SeqIsSeq, LawShape
    <3>2. lid.nr \in Numbers /\ li.nr \in Numbers
      BY <2>2, <3>1, LidFacts, LawShape
    <3>3. c.chunk_id = build_law_chunk_id(d, lid.nr, NoneIfEmpty(li.nr))
      BY <2>2 DEF ItemChunk, record
    <3>4. CASE li.nr = ""
      <4>1. c.citation = <<nr, lid.nr>>
        BY <1>4, <2>2, <3>4, OneAndOne DEF ItemChunk, record
      <4>2. c.chunk_id = <<"law", x, "paragraph", Slug[lid.nr]>>
        <5>1. NoneIfEmpty(li.nr) = None
          BY <3>4 DEF NoneIfEmpty
        <5> QED BY <1>4, <3>2, <3>3, <5>1, LawChunkIds
      <4> QED BY <3>2, <4>1, <4>2 DEF Names, NamesLid
    <3>5. CASE li.nr # ""
      <4>1. c.citation = <<nr, lid.nr, li.nr>>
        BY <1>4, <2>2, <3>5, OneAndTwo DEF ItemChunk, record
      <4>2. c.chunk_id = <<"law", x, "paragraph", Slug[lid.nr], "subparagraph", Slug[li.nr]>>
        <5>1. NoneIfEmpty(li.nr) = li.nr
          BY <3>5 DEF NoneIfEmpty
        <5> QED BY <1>4, <3>2, <3>3, <5>1, LawChunkIds
      <4> QED BY <3>2, <4>1, <4>2 DEF Names, NamesItem
    <3> QED BY <3>4, <3>5
  <2>3. ASSUME NEW a \in Range(raw), NEW lid \in Range(a.lids), c = LidChunk(d, lid)
        PROVE  Names(c.chunk_id, c.citation, x, nr)
    <3>1. lid.nr \in Numbers
      BY <1>6, <2>3, SeqIsSeq, LawShape
    <3>2. c.chunk_id = build_law_chunk_id(d, NoneIfEmpty(lid.nr), None)
      BY <2>3 DEF LidChunk, record
    <3>3. CASE lid.nr = ""
      <4>1. c.citation = <<nr>>
        <5>1. c.citation = d.citation \o <<>>
          BY <2>3, <3>3 DEF LidChunk, record
        <5> QED BY <1>4, <5>1, NothingAfter
      <4>2. c.chunk_id = <<"law", x, "body">>
        <5>1. NoneIfEmpty(lid.nr) = None
          BY <3>3 DEF NoneIfEmpty
        <5> QED BY <1>4, <3>2, <5>1, LawChunkIds
      <4> QED BY <4>1, <4>2 DEF Names, NamesArticle
    <3>4. CASE lid.nr # ""
      <4>1. c.citation = <<nr, lid.nr>>
        BY <1>4, <2>3, <3>4, OneAndOne DEF LidChunk, record
      <4>2. c.chunk_id = <<"law", x, "paragraph", Slug[lid.nr]>>
        <5>1. NoneIfEmpty(lid.nr) = lid.nr
          BY <3>4 DEF NoneIfEmpty
        <5> QED BY <1>4, <3>1, <3>2, <5>1, LawChunkIds
      <4> QED BY <3>1, <4>1, <4>2 DEF Names, NamesLid
    <3> QED BY <3>3, <3>4
  <2> QED BY <1>1, <1>6, <2>1, <2>2, <2>3, LawChunkForm
<1> QED BY <1>5, <1>7

\* The identifier of a law chunk stands for one citation, but for the spelling of the numbers
\* (metadata_builder.py:32).
THEOREM IdsNamePlaces == Spec => []IdNamesPlace
<1> DEFINE Slugs(citation) == Mapped(LAMBDA n : Slug[n], citation)
<1>1. ASSUME NEW id, NEW p, NEW x, NEW nr
      PROVE  /\ NamesArticle(id, p, x, nr) => Len(id) = 3
             /\ NamesLid(id, p, x, nr) => Len(id) = 4
             /\ NamesItem(id, p, x, nr) => Len(id) = 6
  BY DEF NamesArticle, NamesLid, NamesItem
<1>2. ASSUME NEW id, NEW p, NEW q, NEW x, NEW y, NEW nr, NEW mr,
             Names(id, p, x, nr), NameOf(x, nr), Names(id, q, y, mr), NameOf(y, mr)
      PROVE  Slugs(p) = Slugs(q)
  <2>1. CASE NamesArticle(id, p, x, nr)
    <3>1. id = <<"law", x, "body">> /\ p = <<nr>>
      BY <2>1 DEF NamesArticle
    <3>2. Len(id) = 3 /\ id[2] = x
      BY <3>1
    <3>3. NamesArticle(id, q, y, mr)
      BY <1>2, <1>1, <3>2 DEF Names
    <3>4. id[2] = y /\ q = <<mr>>
      BY <3>3 DEF NamesArticle
    <3>5. nr = mr
      BY <1>2, <3>2, <3>4, OneNumber
    <3> QED BY <3>1, <3>4, <3>5
  <2>2. CASE NamesLid(id, p, x, nr)
    <3>1. PICK n \in Numbers : id = <<"law", x, "paragraph", Slug[n]>> /\ p = <<nr, n>>
      BY <2>2 DEF NamesLid
    <3>2. Len(id) = 4 /\ id[2] = x /\ id[4] = Slug[n]
      BY <3>1
    <3>3. NamesLid(id, q, y, mr)
      BY <1>2, <1>1, <3>2 DEF Names
    <3>4. PICK m \in Numbers : id = <<"law", y, "paragraph", Slug[m]>> /\ q = <<mr, m>>
      BY <3>3 DEF NamesLid
    <3>5. id[2] = y /\ id[4] = Slug[m]
      BY <3>4
    <3>6. nr = mr /\ Slug[n] = Slug[m]
      BY <1>2, <3>2, <3>5, OneNumber
    <3> QED BY <3>1, <3>4, <3>6 DEF Mapped
  <2>3. CASE NamesItem(id, p, x, nr)
    <3>1. PICK n \in Numbers, k \in Numbers :
            /\ id = <<"law", x, "paragraph", Slug[n], "subparagraph", Slug[k]>>
            /\ p = <<nr, n, k>>
      BY <2>3 DEF NamesItem
    <3>2. Len(id) = 6 /\ id[2] = x /\ id[4] = Slug[n] /\ id[6] = Slug[k]
      BY <3>1
    <3>3. NamesItem(id, q, y, mr)
      BY <1>2, <1>1, <3>2 DEF Names
    <3>4. PICK m \in Numbers, l \in Numbers :
            /\ id = <<"law", y, "paragraph", Slug[m], "subparagraph", Slug[l]>>
            /\ q = <<mr, m, l>>
      BY <3>3 DEF NamesItem
    <3>5. id[2] = y /\ id[4] = Slug[m] /\ id[6] = Slug[l]
      BY <3>4
    <3>6. nr = mr /\ Slug[n] = Slug[m] /\ Slug[k] = Slug[l]
      BY <1>2, <3>2, <3>5, OneNumber
    <3> QED BY <3>1, <3>4, <3>6 DEF Mapped
  <2> QED BY <1>2, <2>1, <2>2, <2>3 DEF Names
<1> HIDE DEF Slugs
<1>3. ASSUME IInv, Chunked, source_type = "legislation",
             NEW c \in Range(chunks), NEW d \in Range(chunks), c.chunk_id = d.chunk_id
      PROVE  Slugs(c.citation) = Slugs(d.citation)
  <2>1. PICK x, nr : Names(c.chunk_id, c.citation, x, nr) /\ NameOf(x, nr)
    BY <1>3, LawChunkNames
  <2>2. PICK y, mr : Names(d.chunk_id, d.citation, y, mr) /\ NameOf(y, mr)
    BY <1>3, LawChunkNames
  <2>3. Names(c.chunk_id, d.citation, y, mr)
    BY <1>3, <2>2
  <2> QED BY <1>2, <2>1, <2>2, <2>3
<1>4. IInv => IdNamesPlace
  BY <1>3 DEF IdNamesPlace, Slugs
<1> QED BY <1>4, Inductive, PTL

\* An article without lids is one chunk.
LEMMA EmptyArticle ==
  ASSUME NEW doc, NEW file \in Seq(Articles), _article_lids(doc, file) = <<>>
  PROVE  chunk_law_document(doc, file) = whole_article(doc)
<1> DEFINE css == [i \in DOMAIN <<>> |-> lid_chunks(doc, <<>>[i])]
<1>1. css = <<>>
  OBVIOUS
<1>2. Joined(css) = <<>>
  BY <1>1 DEF Joined, FlattenSeq
<1> QED BY <1>2 DEF chunk_law_document, Mapped

\* A lid all of whose items have a text loses nothing in its chunks.
LEMMA LidTextKept ==
  ASSUME NEW doc, NEW lid \in Lids, NEW x \in Range(lid_text(lid)),
         \A p \in Range(lid.parts) : \A li \in Range(p.items) : li.text # <<>>
  PROVE  \E c \in Range(lid_chunks(doc, lid)) : x \in Range(c.text)
<1>1. IsSeq(LidItems(lid)) /\ IsSeq(Intro(lid))
  BY LidFacts
<1>2. ASSUME NEW li \in Range(LidItems(lid)), x \in Range(Intro(lid)) \/ x \in Range(li.text)
      PROVE  \E c \in Range(lid_chunks(doc, lid)) : x \in Range(c.text)
  <2>1. PICK p \in Range(lid.parts) : li \in Range(p.items)
    BY LidFacts
  <2>2. li.text # <<>> /\ IsSeq(li.text)
    BY <2>1, LawShape
  <2>3. ItemChunk(doc, lid, li) \in Range(lid_chunks(doc, lid))
    BY <2>2, LidChunks
  <2>4. ItemChunk(doc, lid, li).text = Intro(lid) \o li.text
    BY DEF ItemChunk, record
  <2>5. Range(Intro(lid) \o li.text) = Range(Intro(lid)) \cup Range(li.text)
    BY <1>1, <2>2, ConcatFacts
  <2> QED BY <1>2, <2>3, <2>4, <2>5
<1>3. CASE \E li \in Range(LidItems(lid)) : x \in Range(Intro(lid)) \/ x \in Range(li.text)
  BY <1>2, <1>3
<1>4. CASE ~ \E li \in Range(LidItems(lid)) : x \in Range(Intro(lid)) \/ x \in Range(li.text)
  <2>1. x \in Range(Intro(lid)) \/ \E li \in Range(LidItems(lid)) : x \in Range(li.text)
    BY LidText, LidFacts
  <2>2. x \in Range(Intro(lid)) /\ Range(LidItems(lid)) = {}
    BY <1>4, <2>1
  <2>3. LidItems(lid) = <<>> /\ Intro(lid) # <<>>
    BY <1>1, <2>2, SeqDomain
  <2>4. LidChunk(doc, lid) \in Range(lid_chunks(doc, lid))
    BY <2>3, LidChunks
  <2>5. LidChunk(doc, lid).text = Intro(lid)
    BY DEF LidChunk, record
  <2> QED BY <2>2, <2>4, <2>5
<1> QED BY <1>3, <1>4

\* The text of an article that is the first with its number is in the chunks of its document, but for
\* what LawTextKept names.
LEMMA ArticleTextKept ==
  ASSUME NEW file \in Seq(Articles), NEW i \in DOMAIN file,
         \A j \in 1..(i - 1) : file[j].nr # file[i].nr,
         NEW x \in Range(_article_body(file[i])),
         file[i].lids # <<>> => x \notin Range(file[i].loose),
         \A lid \in Range(file[i].lids) : x \in Range(lid_text(lid)) =>
           \A p \in Range(lid.parts) : \A li \in Range(p.items) : li.text # <<>>
  PROVE  \E c \in Range(chunk_law_document(law_document(file[i]), file)) : x \in Range(c.text)
<1> DEFINE a == file[i]
           doc == law_document(a)
<1>1. a \in Articles /\ doc.article = a.nr /\ doc.text = _article_body(a)
  BY DEF law_document
<1> HIDE DEF a, doc
<1>2. _article_lids(doc, file) = a.lids
  BY <1>1, ArticleLids DEF a
<1>3. CASE chunk_law_document(doc, file) = whole_article(doc)
  <2>1. \A c : c \in Range(whole_article(doc)) <=>
          c = record(build_law_chunk_id(doc, None, None), doc.text, doc.citation)
    BY ShortSeqs DEF whole_article
  <2>2. record(build_law_chunk_id(doc, None, None), doc.text, doc.citation).text = _article_body(a)
    BY <1>1 DEF record
  <2> QED BY <1>3, <2>1, <2>2 DEF a, doc
<1>4. CASE \A c : c \in Range(chunk_law_document(doc, file)) <=>
             \E lid \in Range(_article_lids(doc, file)) : c \in Range(lid_chunks(doc, lid))
  <2>1. CASE a.lids = <<>>
    <3>1. chunk_law_document(doc, file) = whole_article(doc)
      <4>1. Range(chunk_law_document(doc, file)) = {}
        BY <1>2, <1>4, <2>1, ShortSeqs
      <4>2. Range(whole_article(doc)) # {}
        BY ShortSeqs DEF whole_article
      <4>3. IsSeq(chunk_law_document(doc, file))
        BY LawChunks
      <4> QED BY <1>2, <2>1, <4>1, <4>2, <4>3, EmptyArticle
    <3> QED BY <1>3, <3>1
  <2>2. CASE a.lids # <<>>
    <3>1. PICK lid \in Range(a.lids) : x \in Range(lid_text(lid))
      BY <1>1, <2>2, ArticleText DEF a
    <3>2. lid \in Lids /\ \A p \in Range(lid.parts) : \A li \in Range(p.items) : li.text # <<>>
      BY <1>1, <3>1, LawShape DEF a
    <3>3. \E c \in Range(lid_chunks(doc, lid)) : x \in Range(c.text)
      BY <3>1, <3>2, LidTextKept
    <3> QED BY <1>2, <1>4, <3>1, <3>3 DEF a, doc
  <2> QED BY <2>1, <2>2
<1> QED BY <1>3, <1>4, LawChunks DEF a, doc

\* Laws whose text is unchanged lose no text in chunks but that which stands beside the lids of an
\* article, that of an article whose number an earlier one has, and introductions to empty lists.
THEOREM LawKeepsText == Spec => []LawTextKept
<1>1. IInv => LawTextKept
  <2> SUFFICES ASSUME IInv, Chunked, source_type = "legislation", documents = parse_law_file(raw),
                      NEW i \in DOMAIN raw, NEW x \in Range(_article_body(raw[i])),
                      x \notin ChunkedTokens,
                      raw[i].lids # <<>> => x \notin Range(raw[i].loose),
                      ~ \E j \in 1..(i - 1) : raw[j].nr = raw[i].nr,
                      x \notin TokensOf({lid_text(lid) : lid \in {lid \in Range(raw[i].lids) :
                        \E p \in Range(lid.parts) : \E li \in Range(p.items) : li.text = <<>>}})
               PROVE  FALSE
    BY DEF LawTextKept
  <2>1. raw \in Seq(Articles)
    BY LawChunked
  <2>2. \A lid \in Range(raw[i].lids) : x \in Range(lid_text(lid)) =>
          \A p \in Range(lid.parts) : \A li \in Range(p.items) : li.text # <<>>
    BY DEF TokensOf
  <2>3. PICK c \in Range(chunk_law_document(law_document(raw[i]), raw)) : x \in Range(c.text)
    BY <2>1, <2>2, ArticleTextKept
  <2>4. law_document(raw[i]) \in Range(documents)
    <3>1. raw[i] \in Range(raw) /\ raw[i] \in Articles
      BY <2>1 DEF Range
    <3>2. _article_body(raw[i]) # <<>>
      BY ShortSeqs
    <3> QED BY <2>1, <3>1, <3>2, ParsedLaw
  <2>5. c \in Range(chunks)
    BY <2>3, <2>4, LawChunked
  <2> QED BY <2>3, <2>5 DEF ChunkedTokens, TokensOf
<1> QED BY <1>1, Inductive, PTL

-----------------------------------------------------------------------------
(* Policies and e-learning.                                                *)

\* The numbers of a sequence, each greater than those before it.
Increasing(s) == \A j, k \in 1..Len(s) : j < k => s[j] < s[k]

\* A greater number comes last.
LEMMA IncreasingAppend ==
  ASSUME NEW n \in Nat, NEW s \in Seq(1..n), Increasing(s)
  PROVE  s \o <<n + 1>> \in Seq(1..(n + 1)) /\ Increasing(s \o <<n + 1>>)
<1> DEFINE u == s \o <<n + 1>>
<1>1. u \in Seq(1..(n + 1)) /\ Len(u) = Len(s) + 1 /\ Len(s) \in Nat
  <2>1. s \in Seq(1..(n + 1))
    BY SeqMonotonic
  <2>2. <<n + 1>> \in Seq(1..(n + 1))
    OBVIOUS
  <2> QED BY <2>1, <2>2
<1>2. \A j \in 1..Len(s) : u[j] = s[j] /\ s[j] \in 1..n
  OBVIOUS
<1>4. u[Len(s) + 1] = n + 1
  OBVIOUS
<1> HIDE DEF u
<1>3. Increasing(u)
  <2> SUFFICES ASSUME NEW j \in 1..Len(u), NEW k \in 1..Len(u), j < k PROVE u[j] < u[k]
    BY DEF Increasing
  <2>1. j \in 1..Len(s) /\ u[j] = s[j] /\ s[j] \in 1..n
    BY <1>1, <1>2
  <2>2. CASE k = Len(s) + 1
    BY <1>4, <2>1, <2>2
  <2>3. CASE k # Len(s) + 1
    <3>1. k \in 1..Len(s)
      <4>1. \A m \in Nat : \A i \in 1..(m + 1) : i # m + 1 => i \in 1..m
        OBVIOUS
      <4>2. Len(s) \in Nat /\ k \in 1..(Len(s) + 1)
        BY <1>1
      <4> QED BY <2>3, <4>1, <4>2, Zenon
    <3>2. u[k] = s[k]
      BY <1>2, <3>1
    <3> QED BY <2>1, <3>1, <3>2 DEF Increasing
  <2> QED BY <2>2, <2>3
<1> QED BY <1>1, <1>3 DEF u

\* The numbers of a set, in order, are increasing, and they are those of the set.
LEMMA InOrderFacts ==
  ASSUME NEW n \in Nat, NEW S \in SUBSET (1..n)
  PROVE  /\ InOrder(S, n) \in Seq(1..n) /\ Range(InOrder(S, n)) = S
         /\ Increasing(InOrder(S, n))
<1> DEFINE m == [i \in Nat |-> IF i \in (1..n) \ S THEN <<>> ELSE <<i>>]
           to(k) == [i \in 1..k |-> i]
           Good(k) == Told(m, to(k)) \in Seq(1..k) /\ Increasing(Told(m, to(k)))
           Bad == {k \in Nat : ~Good(k)}
<1>1. m \in [Nat -> Seq(Nat)]
  OBVIOUS
<1>2. ASSUME NEW k \in Nat PROVE to(k) \in Seq(Nat) /\ to(k + 1) = Append(to(k), k + 1)
  OBVIOUS
<1>3. \A k \in Nat : m[k + 1] = <<>> \/ m[k + 1] = <<k + 1>>
  OBVIOUS
<1>4. InOrder(S, n) = Told(m, to(n))
  <2>1. \A i \in 1..n : m[i] = IF i \in (1..n) \ S THEN <<>> ELSE <<i>>
    OBVIOUS
  <2>2. [i \in DOMAIN to(n) |-> m[to(n)[i]]] = [i \in 1..n |-> IF i \in (1..n) \ S THEN <<>> ELSE <<i>>]
    BY <2>1
  <2>3. InOrder(S, n) = Joined([i \in 1..n |-> IF i \in (1..n) \ S THEN <<>> ELSE <<i>>])
    BY DEF InOrder, Without, Mapped
  <2> QED BY <2>2, <2>3 DEF Told
<1>5. to(0) = <<>>
  OBVIOUS
<1> HIDE DEF m, to
<1>6. Good(0)
  <2>1. Told(m, to(0)) = <<>>
    BY <1>5, ToldEmpty
  <2>2. <<>> \in Seq(1..0) /\ Len(<<>>) = 0
    OBVIOUS
  <2>3. Increasing(<<>>)
    BY <2>2 DEF Increasing
  <2> QED BY <2>1, <2>2, <2>3
<1>7. ASSUME NEW k \in Nat, Good(k) PROVE Good(k + 1)
  <2>1. Told(m, to(k + 1)) = Told(m, to(k)) \o m[k + 1]
    <3>1. to(k) \in Seq(Nat) /\ to(k + 1) = Append(to(k), k + 1) /\ k + 1 \in Nat
      <4>1. to(k) \in Seq(Nat) /\ to(k + 1) = Append(to(k), k + 1)
        BY <1>2, Zenon
      <4> QED BY <4>1
    <3> DEFINE s == to(k)  x == k + 1
    <3> HIDE DEF s, x
    <3>2. Told(m, Append(s, x)) = Told(m, s) \o m[x]
      BY <1>1, <3>1, ToldAppend DEF s, x
    <3> QED BY <3>1, <3>2 DEF s, x
  <2> DEFINE told == Told(m, to(k))
  <2>2. told \in Seq(1..k) /\ Increasing(told)
    BY <1>7
  <2> HIDE DEF told
  <2>3. CASE m[k + 1] = <<>>
    <3>1. told \o <<>> = told /\ told \in Seq(1..(k + 1))
      BY <2>2, SeqMonotonic
    <3> QED BY <2>1, <2>2, <2>3, <3>1 DEF told
  <2>4. CASE m[k + 1] = <<k + 1>>
    BY <2>1, <2>2, <2>4, IncreasingAppend DEF told
  <2> QED BY <1>3, <2>3, <2>4
<1> HIDE DEF Good
<1>8. Bad = {}
  <2> SUFFICES ASSUME Bad # {} PROVE FALSE
    OBVIOUS
  <2>1. PICK k \in Bad : \A j \in Bad : k <= j
    BY LeastNatural
  <2>2. k # 0 /\ k - 1 \in Nat /\ k - 1 \notin Bad
    BY <1>6, <2>1
  <2> QED BY <1>7, <2>1, <2>2
<1>9. Good(n)
  BY <1>8
<1>10. Range(InOrder(S, n)) = S
  <2> DEFINE all == [i \in 1..n |-> i]
  <2>1. IsSeq(all) /\ Range(all) = 1..n
    <3>1. all \in Seq(1..n)
      OBVIOUS
    <3> QED BY <3>1, SeqIsSeq DEF Range
  <2> HIDE DEF all
  <2>2. Range(Without(all, (1..n) \ S)) = (1..n) \ ((1..n) \ S)
    BY <2>1, WithoutFacts
  <2> QED BY <2>2 DEF InOrder, all
<1> QED BY <1>4, <1>9, <1>10 DEF Good

\* The text of lines that are not headings, one after the other.
LineText == [l \in Lines |-> IF l.heading THEN <<>> ELSE l.text]

\* The text of lines is a text, and that of lines after one another is that of all.
LEMMA LineTextFacts ==
  /\ LineText \in [Lines -> Seq(STRING)]
  /\ \A lines \in Seq(Lines) : LineTexts(lines) = Told(LineText, lines) /\ LineTexts(lines) \in Texts
  /\ \A s, t \in Seq(Lines) : LineTexts(s \o t) = LineTexts(s) \o LineTexts(t)
<1>1. LineText \in [Lines -> Seq(STRING)]
  <2>1. ASSUME NEW l \in Lines PROVE (IF l.heading THEN <<>> ELSE l.text) \in Seq(STRING)
    <3>1. l.text \in Seq(STRING) /\ <<>> \in Seq(STRING)
      BY DEF Lines, Texts
    <3>2. CASE l.heading
      BY <3>1, <3>2
    <3>3. CASE ~l.heading
      BY <3>1, <3>3
    <3> QED BY <3>2, <3>3
  <2> QED BY <2>1 DEF LineText
<1>2. ASSUME NEW lines \in Seq(Lines)
      PROVE  LineTexts(lines) = Told(LineText, lines) /\ LineTexts(lines) \in Texts
  <2>1. [i \in DOMAIN lines |-> LineText[lines[i]]]
        = [i \in DOMAIN lines |-> IF lines[i].heading THEN <<>> ELSE lines[i].text]
    BY DEF LineText
  <2>2. LineTexts(lines) = Told(LineText, lines)
    BY <2>1 DEF LineTexts, Told, Mapped
  <2> QED BY <1>1, <2>2, ToldTyped DEF Texts
<1>3. \A s, t \in Seq(Lines) : Told(LineText, s \o t) = Told(LineText, s) \o Told(LineText, t)
  BY <1>1, ToldConcat
<1>4. \A s, t \in Seq(Lines) : s \o t \in Seq(Lines)
  OBVIOUS
<1> QED BY <1>1, <1>2, <1>3, <1>4

\* The least number of a set of natural numbers.
LEMMA MinFacts ==
  ASSUME NEW T, T \subseteq Nat, T # {}
  PROVE  /\ Min(T) \in T /\ \A i \in T : Min(T) <= i
         /\ \A i \in T : (\A j \in T : i <= j) => Min(T) = i
<1>1. \E i \in T : \A j \in T : i <= j
  BY LeastNatural
<1>2. Min(T) \in T /\ \A i \in T : Min(T) <= i
  BY <1>1 DEF Min
<1>3. ASSUME NEW i \in T, \A j \in T : i <= j PROVE Min(T) = i
  <2>1. Min(T) <= i /\ i <= Min(T) /\ Min(T) \in Nat /\ i \in Nat
    BY <1>2, <1>3
  <2> QED BY <2>1
<1> QED BY <1>2, <1>3

\* The K numbers of S, in order.
Orders(at, K, S) ==
  /\ \A k \in 1..K : at[k] \in S
  /\ \A i \in S : \E k \in 1..K : i = at[k]
  /\ \A j, k \in 1..K : j < k => at[j] < at[k]

\* The start that follows another one.
NextIs(at, K, S, k) ==
  LET later == {j \in S : j > at[k]}
  IN IF k = K THEN later = {} ELSE later # {} /\ Min(later) = at[k + 1]

\* Each start is followed by the next one, in an increasing sequence of them.
LEMMA NextStart ==
  ASSUME NEW n \in Nat, NEW K \in Nat, K # 0, NEW S \in SUBSET (1..n), NEW at, Orders(at, K, S)
  PROVE  /\ Min(S) = at[1] /\ Min(S) \in S
         /\ \A k \in 1..K : NextIs(at, K, S, k)
<1> USE DEF Orders
<1>1. \A k \in 1..K : at[k] \in 1..n
  OBVIOUS
<1>2. Min(S) = at[1] /\ at[1] \in S
  <2>1. 1 \in 1..K /\ S \subseteq Nat
    OBVIOUS
  <2>2. at[1] \in S
    BY <2>1
  <2>3. ASSUME NEW i \in S PROVE at[1] <= i
    <3>1. PICK k \in 1..K : i = at[k]
      OBVIOUS
    <3>2. k = 1 \/ 1 < k
      OBVIOUS
    <3> QED BY <1>1, <2>1, <3>1, <3>2
  <2> QED BY <2>1, <2>2, <2>3, MinFacts
<1>3. ASSUME NEW k \in 1..K
      PROVE  NextIs(at, K, S, k)
  <2> DEFINE later == {j \in S : j > at[k]}
  <2>1. CASE k = K
    <3>1. ASSUME NEW j \in S PROVE ~(j > at[k])
      <4>1. PICK l \in 1..K : j = at[l]
        OBVIOUS
      <4>2. l = k \/ l < k
        BY <2>1
      <4> QED BY <1>1, <4>1, <4>2
    <3>2. later = {}
      BY <3>1
    <3> QED BY <2>1, <3>2 DEF NextIs
  <2>2. CASE k # K
    <3>1. k + 1 \in 1..K /\ k < k + 1
      BY <2>2
    <3>2. at[k + 1] \in later
      BY <1>1, <3>1
    <3>3. ASSUME NEW j \in later PROVE at[k + 1] <= j
      <4>1. PICK l \in 1..K : j = at[l]
        OBVIOUS
      <4>2. at[l] > at[k]
        BY <4>1
      <4>3. ~(l < k) /\ l # k
        BY <1>1, <4>2
      <4>4. l = k + 1 \/ k + 1 < l
        BY <4>3
      <4> QED BY <1>1, <3>1, <4>1, <4>4
    <3>4. later \subseteq Nat /\ later # {}
      <4>1. later \subseteq S /\ S \subseteq Nat
        OBVIOUS
      <4> HIDE DEF later
      <4> QED BY <3>2, <4>1
    <3> HIDE DEF later
    <3>5. Min(later) = at[k + 1]
      BY <3>2, <3>3, <3>4, MinFacts
    <3> QED BY <2>2, <3>4, <3>5 DEF later, NextIs
  <2> QED BY <2>1, <2>2
<1> QED BY <1>2, <1>3

\* The last line of the k-th of K pieces of n lines that start where at tells.
LastLine(at, K, n, k) == IF k = K THEN n ELSE at[k + 1] - 1

\* The pieces from one start to the next make up the lines from the first start on.
LEMMA PiecesJoined ==
  ASSUME NEW lines \in Seq(Lines), NEW S \in SUBSET (1..Len(lines)), S # {},
         NEW at, at = InOrder(S, Len(lines))
  PROVE  /\ at # <<>> /\ at[1] = Min(S) /\ Min(S) \in S
         /\ \A k \in DOMAIN at : PieceFrom(lines, at[k], S) \in Seq(Lines)
         /\ Joined([k \in DOMAIN at |-> LineTexts(PieceFrom(lines, at[k], S))])
            = LineTexts(SubSeq(lines, Min(S), Len(lines)))
<1> DEFINE n == Len(lines)
           K == Len(at)
           pieces == [k \in DOMAIN at |-> LineTexts(PieceFrom(lines, at[k], S))]
<1>1. n \in Nat /\ S \in SUBSET (1..n)
  OBVIOUS
<1>2. at \in Seq(1..n) /\ Range(at) = S /\ Increasing(at)
  BY <1>1, InOrderFacts
<1>3. K \in Nat /\ DOMAIN at = 1..K /\ K # 0 /\ at # <<>>
  BY <1>2, SeqIsSeq, SeqDomain
<1>4. /\ \A k \in 1..K : at[k] \in S
      /\ \A i \in S : \E k \in 1..K : i = at[k]
      /\ \A j, k \in 1..K : j < k => at[j] < at[k]
  BY <1>2, <1>3 DEF Range, Increasing
<1>5. \A i : PieceFrom(lines, i, S) = LET later == {j \in S : j > i}
                                      IN SubSeq(lines, i, IF later = {} THEN n ELSE Min(later) - 1)
  BY DEF PieceFrom
<1>6. \A a, b, c : a \in 1..n /\ b \in 1..n /\ a < b /\ c \in (b - 1)..n =>
        /\ SubSeq(lines, a, b - 1) \o SubSeq(lines, b, c) = SubSeq(lines, a, c)
        /\ SubSeq(lines, a, b - 1) \in Seq(Lines) /\ SubSeq(lines, b, c) \in Seq(Lines)
  <2> TAKE a, b, c
  <2> HAVE a \in 1..n /\ b \in 1..n /\ a < b /\ c \in (b - 1)..n
  <2>1. a \in 1..(n + 1) /\ b - 1 \in (a - 1)..n /\ c \in (b - 1)..n /\ (b - 1) + 1 = b
    BY <1>1
  <2>2. SubSeq(lines, a, b - 1) \o SubSeq(lines, (b - 1) + 1, c) = SubSeq(lines, a, c)
    BY <2>1, ConcatAdjacentSubSeq
  <2> QED BY <1>1, <2>1, <2>2
<1>7. \A b, c : b \in 1..n /\ c \in 0..n => SubSeq(lines, b, c) \in Seq(Lines)
  OBVIOUS
<1> HIDE DEF n, K
<1>8. Min(S) = at[1] /\ Min(S) \in S /\ \A k \in 1..K : NextIs(at, K, S, k)
  <2>1. n \in Nat /\ K \in Nat /\ K # 0 /\ S \in SUBSET (1..n)
    BY <1>1, <1>3
  <2>2. Orders(at, K, S)
    BY <1>4 DEF Orders
  <2> HIDE DEF pieces
  <2> QED BY <2>1, <2>2, NextStart
<1>9. ASSUME NEW k \in 1..K
      PROVE  /\ PieceFrom(lines, at[k], S) = SubSeq(lines, at[k], LastLine(at, K, n, k))
             /\ at[k] \in 1..n /\ LastLine(at, K, n, k) \in (at[k] - 1)..n
  <2> DEFINE later == {j \in S : j > at[k]}
  <2>1. IF k = K THEN later = {} ELSE later # {} /\ Min(later) = at[k + 1]
    BY <1>8 DEF NextIs
  <2>2. PieceFrom(lines, at[k], S) = SubSeq(lines, at[k], IF later = {} THEN n ELSE Min(later) - 1)
    BY <1>5
  <2>3. at[k] \in 1..n
    BY <1>1, <1>4
  <2>4. k # K => k + 1 \in 1..K /\ k < k + 1
    BY <1>3
  <2>5. k # K => at[k + 1] \in 1..n /\ at[k] < at[k + 1]
    BY <1>1, <1>4, <2>4
  <2> HIDE DEF later
  <2> QED BY <1>1, <2>1, <2>2, <2>3, <2>5 DEF LastLine
<1>19. ASSUME NEW k \in 1..K PROVE PieceFrom(lines, at[k], S) \in Seq(Lines)
  <2>1. LastLine(at, K, n, k) \in 0..n
    BY <1>1, <1>9
  <2>2. SubSeq(lines, at[k], LastLine(at, K, n, k)) \in Seq(Lines)
    BY <1>7, <1>9, <2>1
  <2> QED BY <1>9, <2>2
<1>10. pieces \in Seq(Seq(STRING)) /\ pieces # <<>> /\ Len(pieces) = K
  <2>1. ASSUME NEW k \in 1..K PROVE LineTexts(PieceFrom(lines, at[k], S)) \in Seq(STRING)
    BY <1>19, LineTextFacts DEF Texts
  <2>2. pieces \in [1..K -> Seq(STRING)]
    BY <1>3, <2>1
  <2> HIDE DEF pieces
  <2>3. pieces \in Seq(Seq(STRING))
    BY <1>3, <2>2, SeqDef
  <2>4. DOMAIN pieces = 1..K
    BY <2>2
  <2>5. Len(pieces) = K
    BY <1>3, <2>3, <2>4, LenProperties
  <2>6. pieces # <<>>
    BY <1>3, <2>5
  <2> QED BY <2>3, <2>5, <2>6
<1>11. \A k \in 1..K : pieces[k] = LineTexts(SubSeq(lines, at[k], LastLine(at, K, n, k)))
  BY <1>3, <1>9
<1> HIDE DEF pieces
<1>12. PICK f : Joins(f, pieces, K) /\ Joined(pieces) = f[K]
  BY <1>10, JoinedIsLast
<1>13. \A k \in 1..K : f[k] = IF k = 1 THEN pieces[k] ELSE f[k - 1] \o pieces[k]
  BY <1>12, JoinsStep
<1> DEFINE Good(k) == f[k] = LineTexts(SubSeq(lines, at[1], LastLine(at, K, n, k)))
           Bad == {k \in Nat : k \in 1..K /\ ~Good(k)}
<1>14. ASSUME NEW k \in 1..K, k # 1, Good(k - 1) PROVE Good(k)
  <2>1. k - 1 \in 1..K /\ (k - 1) + 1 = k /\ k - 1 # K /\ 1 \in 1..K /\ 1 < k
    BY <1>3, <1>14
  <2> DEFINE a == at[1]
             b == at[k]
             c == LastLine(at, K, n, k)
             s == SubSeq(lines, a, b - 1)
             t == SubSeq(lines, b, c)
  <2>2. LastLine(at, K, n, k - 1) = b - 1
    BY <2>1 DEF LastLine
  <2>3. a \in 1..n /\ b \in 1..n /\ a < b /\ c \in (b - 1)..n
    BY <1>4, <1>9, <2>1
  <2>4. s \o t = SubSeq(lines, a, c) /\ s \in Seq(Lines) /\ t \in Seq(Lines)
    <3> HIDE DEF a, b, c
    <3> QED BY <1>6, <2>3
  <2>5. LineTexts(s \o t) = LineTexts(s) \o LineTexts(t)
    <3> HIDE DEF s, t
    <3> QED BY <2>4, LineTextFacts
  <2>6. f[k] = f[k - 1] \o pieces[k]
    BY <1>13, <1>14
  <2>7. f[k - 1] = LineTexts(s)
    BY <1>14, <2>2
  <2>8. pieces[k] = LineTexts(t)
    BY <1>11
  <2> QED BY <2>4, <2>5, <2>6, <2>7, <2>8
<1>15. Good(1)
  BY <1>3, <1>11, <1>13
<1> HIDE DEF Good
<1>16. Bad = {}
  <2> SUFFICES ASSUME Bad # {} PROVE FALSE
    OBVIOUS
  <2>1. PICK k \in Bad : \A j \in Bad : k <= j
    BY LeastNatural
  <2>2. k # 1 /\ k - 1 \in 1..K /\ k - 1 \notin Bad
    BY <1>3, <1>15, <2>1
  <2> QED BY <1>14, <2>1, <2>2
<1>17. Good(K)
  BY <1>3, <1>16
<1>18. LastLine(at, K, n, K) = n
  BY DEF LastLine
<1> QED BY <1>3, <1>8, <1>12, <1>17, <1>18, <1>19 DEF Good, pieces, n

\* One sequence alone, joined.
LEMMA JoinedOne ==
  ASSUME NEW D, NEW s \in Seq(D)
  PROVE  Joined(<<s>>) = s
<1> DEFINE ss == <<s>>
<1>1. ss \in Seq(Seq(D)) /\ ss # <<>> /\ Len(ss) = 1 /\ ss[1] = s
  OBVIOUS
<1> HIDE DEF ss
<1>2. PICK f : Joins(f, ss, 1) /\ Joined(ss) = f[1]
  BY <1>1, JoinedIsLast
<1>3. f[1] = ss[1]
  BY <1>2, JoinsStep
<1> QED BY <1>1, <1>2, <1>3 DEF ss

\* What follows the first element.
LEMMA TailAfterOne ==
  ASSUME NEW D, NEW x, NEW s \in Seq(D)
  PROVE  Tail(<<x>> \o s) = s
<1> DEFINE E == D \cup {x}
           u == <<x>> \o s
<1>1. <<x>> \in Seq(E) /\ s \in Seq(E) /\ Len(<<x>>) = 1
  BY SeqMonotonic
<1> HIDE DEF E
<1>2. u \in Seq(E) /\ Len(u) = 1 + Len(s) /\ Len(s) \in Nat /\ \A i \in 1..Len(s) : u[i + 1] = s[i]
  <2>1. u \in Seq(E) /\ Len(u) = 1 + Len(s) /\ Len(s) \in Nat
    BY <1>1, ConcatProperties
  <2>2. \A i \in 1..(Len(<<x>>) + Len(s)) : u[i] = IF i <= Len(<<x>>) THEN <<x>>[i] ELSE s[i - Len(<<x>>)]
    BY <1>1, ConcatProperties
  <2>3. ASSUME NEW i \in 1..Len(s) PROVE u[i + 1] = s[i]
    <3>1. i + 1 \in 1..(1 + Len(s)) /\ ~(i + 1 <= 1) /\ (i + 1) - 1 = i
      BY <2>1
    <3>2. u[i + 1] = s[(i + 1) - 1]
      BY <1>1, <2>2, <3>1
    <3> QED BY <3>1, <3>2
  <2> QED BY <2>1, <2>3
<1> HIDE DEF u
<1>3. u # <<>>
  BY <1>2
<1>4. Tail(u) \in Seq(E) /\ Len(Tail(u)) = Len(u) - 1 /\ \A i \in 1..(Len(u) - 1) : Tail(u)[i] = u[i + 1]
  BY <1>2, <1>3, HeadTailProperties
<1>5. Tail(u) = s
  BY <1>1, <1>2, <1>4, SeqEqual
<1> QED BY <1>5 DEF u

\* Three elements after one.
LEMMA OneAndThree ==
  ASSUME NEW x, NEW y, NEW z, NEW w
  PROVE  <<x>> \o <<y, z, w>> = <<x, y, z, w>>
<1> DEFINE D == {x, y, z, w}
           s == <<x>>
           t == <<y, z, w>>
           u == <<x, y, z, w>>
<1>1. s \in Seq(D) /\ t \in Seq(D) /\ u \in Seq(D)
  OBVIOUS
<1>2. Len(u) = Len(s) + Len(t)
  OBVIOUS
<1>3. \A i \in 1..Len(s) : u[i] = s[i]
  OBVIOUS
<1>4. \A i \in 1..Len(t) : u[Len(s) + i] = t[i]
  OBVIOUS
<1> HIDE DEF D, s, t, u
<1>5. s \o t = u
  BY <1>1, <1>2, <1>3, <1>4, ConcatIs
<1> QED BY <1>5 DEF s, t, u

\* A sequence begins with what it is put after.
LEMMA BeginsWith ==
  ASSUME NEW s, IsSeq(s), NEW t, IsSeq(t)
  PROVE  IsPrefix(s, s \o t)
<1> DEFINE D == Range(s) \cup Range(t)
           u == s \o t
<1>1. s \in Seq(D) /\ t \in Seq(D)
  BY SeqMonotonic DEF IsSeq
<1> HIDE DEF D
<1>2. u \in Seq(D) /\ Len(s) \in Nat /\ Len(u) \in Nat /\ Len(s) <= Len(u) /\ \A i \in 1..Len(s) : u[i] = s[i]
  BY <1>1, ConcatProperties
<1> HIDE DEF u
<1>3. SubSeq(s, 1, Len(s)) = SubSeq(u, 1, Len(s))
  <2>1. /\ SubSeq(s, 1, Len(s)) = [i \in 1..Len(s) |-> s[i]]
        /\ SubSeq(u, 1, Len(s)) = [i \in 1..Len(s) |-> u[i]]
    BY <1>1, <1>2
  <2> QED BY <1>2, <2>1
<1> QED BY <1>2, <1>3 DEF IsPrefix, u

\* The document of a policy.
Policy(file) == [doc_id |-> <<"policy">>, article |-> "", text |-> file, citation |-> <<"policy">>]

\* The chunks of a policy are those of its lines, of which one has text.
LEMMA PolicyChunked ==
  ASSUME IInv, Chunked, source_type = "internal_policy"
  PROVE  /\ raw \in Seq(Lines) /\ \A l \in Range(raw) : l.heading => l.text # <<>>
         /\ NonBlank(raw) # {}
         /\ documents = <<Policy(raw)>>
         /\ chunks = Joined(<<chunk_support_document(Policy(raw))>>)
<1>1. stage = "chunked" /\ raw \in SupportFiles /\ documents = parsed(raw) /\ Valid(documents)
      /\ chunks = Joined(Mapped(LAMBDA doc : chunked(doc, raw), documents))
  BY DEF IInv, Chunked
<1>2. raw \in Seq(Lines) /\ \A l \in Range(raw) : l.heading => l.text # <<>>
  BY <1>1, ChunkingAssumption
<1>3. documents = <<Policy(IF NonBlank(raw) = {} THEN <<>> ELSE raw)>>
  BY <1>1 DEF parsed, Policy
<1>4. NonBlank(raw) # {}
  <2> SUFFICES ASSUME NonBlank(raw) = {} PROVE FALSE
    OBVIOUS
  <2>1. Policy(<<>>) \in Range(documents)
    BY <1>3, ShortSeqs
  <2>2. Policy(<<>>).text = <<>>
    BY DEF Policy
  <2> QED BY <1>1, <2>1, <2>2 DEF Valid
<1>5. documents = <<Policy(raw)>>
  BY <1>3, <1>4
<1>6. Mapped(LAMBDA doc : chunked(doc, raw), documents) = <<chunk_support_document(Policy(raw))>>
  <2>1. chunked(Policy(raw), raw) = chunk_support_document(Policy(raw))
    BY DEF chunked
  <2> DEFINE d == Policy(raw)
  <2> HIDE DEF d
  <2>2. Mapped(LAMBDA doc : chunked(doc, raw), <<d>>) = <<chunked(d, raw)>>
    BY DEF Mapped
  <2> QED BY <1>5, <2>1, <2>2 DEF d
<1> QED BY <1>1, <1>2, <1>4, <1>5, <1>6

\* Sections made of the pieces of a file from one start to the next hold its text from the first
\* start on; each of their chunks has an identifier of its own, of the policy.
LEMMA SectionsKept ==
  ASSUME NEW lines \in Seq(Lines), NEW S \in SUBSET (1..Len(lines)), S # {},
         NEW at, at = InOrder(S, Len(lines)),
         NEW sections, DOMAIN sections = DOMAIN at,
         \A k \in DOMAIN at : sections[k].body = LineTexts(PieceFrom(lines, at[k], S)),
         NEW cs, cs = support_chunks(Policy(lines), sections)
  PROVE  /\ IsSeq(cs) /\ cs # <<>>
         /\ Joined(Mapped(LAMBDA c : Tail(c.text), cs)) = LineTexts(SubSeq(lines, Min(S), Len(lines)))
         /\ IsInjective(Mapped(LAMBDA c : c.chunk_id, cs))
         /\ \A c \in Range(cs) : IsPrefix(<<"policy">>, c.chunk_id)
<1>1. at # <<>> /\ Joined([k \in DOMAIN at |-> LineTexts(PieceFrom(lines, at[k], S))])
                   = LineTexts(SubSeq(lines, Min(S), Len(lines)))
  BY PiecesJoined
<1>2. at \in Seq(1..Len(lines))
  <2> DEFINE n == Len(lines)
  <2>1. n \in Nat /\ S \in SUBSET (1..n) /\ at = InOrder(S, n)
    OBVIOUS
  <2> HIDE DEF n
  <2>2. at \in Seq(1..n)
    BY <2>1, InOrderFacts
  <2> QED BY <2>2 DEF n
<1>3. DOMAIN cs = DOMAIN at /\ \A k \in DOMAIN at :
        /\ cs[k].chunk_id = <<"policy">> \o <<"section", Slug[sections[k].title], k>>
        /\ cs[k].text = <<sections[k].title>> \o sections[k].body
  BY DEF support_chunks, record, Policy
<1>4. IsSeq(cs) /\ cs # <<>>
  <2>1. IsSeq(at) /\ Range(at) # {}
    BY <1>1, <1>2, SeqIsSeq, SeqDomain
  <2>2. cs = [k \in DOMAIN cs |-> cs[k]]
    BY DEF support_chunks
  <2>3. DOMAIN cs # {}
    BY <1>3, <2>1 DEF Range
  <2>4. DOMAIN <<>> = {}
    OBVIOUS
  <2> QED BY <1>3, <2>1, <2>2, <2>3, <2>4, MadeOf
<1>5. ASSUME NEW k \in DOMAIN at PROVE Tail(cs[k].text) = LineTexts(PieceFrom(lines, at[k], S))
  <2> DEFINE piece == PieceFrom(lines, at[k], S)
  <2>1. piece \in Seq(Lines)
    BY PiecesJoined
  <2>2. LineTexts(piece) \in Seq(STRING)
    <3> HIDE DEF piece
    <3> QED BY <2>1, LineTextFacts DEF Texts
  <2>3. Tail(<<sections[k].title>> \o LineTexts(piece)) = LineTexts(piece)
    <3> DEFINE x == sections[k].title
               s == LineTexts(piece)
    <3> HIDE DEF x, s
    <3>1. Tail(<<x>> \o s) = s
      BY <2>2, TailAfterOne DEF s
    <3> QED BY <3>1 DEF x, s
  <2> QED BY <1>3, <2>3
<1>6. Joined(Mapped(LAMBDA c : Tail(c.text), cs)) = LineTexts(SubSeq(lines, Min(S), Len(lines)))
  <2>1. Mapped(LAMBDA c : Tail(c.text), cs) = [k \in DOMAIN at |-> LineTexts(PieceFrom(lines, at[k], S))]
    BY <1>3, <1>5 DEF Mapped
  <2> QED BY <1>1, <2>1
<1>7. \A k \in DOMAIN at : cs[k].chunk_id = <<"policy", "section", Slug[sections[k].title], k>>
  <2>1. \A y, z, w : <<"policy">> \o <<y, z, w>> = <<"policy", y, z, w>>
    BY OneAndThree
  <2>2. ASSUME NEW k \in DOMAIN at
        PROVE  cs[k].chunk_id = <<"policy", "section", Slug[sections[k].title], k>>
    <3> DEFINE a == Slug[sections[k].title]
    <3> HIDE DEF a
    <3>1. <<"policy">> \o <<"section", a, k>> = <<"policy", "section", a, k>>
      BY <2>1
    <3> QED BY <1>3, <3>1 DEF a
  <2> QED BY <2>2
<1>8. IsInjective(Mapped(LAMBDA c : c.chunk_id, cs))
  <2>1. \A i, k \in DOMAIN at : cs[i].chunk_id = cs[k].chunk_id => i = k
    BY <1>7
  <2>2. Mapped(LAMBDA c : c.chunk_id, cs) = [k \in DOMAIN at |-> cs[k].chunk_id]
    BY <1>3 DEF Mapped
  <2> QED BY <2>1, <2>2 DEF IsInjective
<1>9. ASSUME NEW c \in Range(cs) PROVE IsPrefix(<<"policy">>, c.chunk_id)
  <2>1. PICK k \in DOMAIN at : c = cs[k]
    BY <1>3 DEF Range
  <2>2. IsSeq(<<"policy">>)
    BY ShortSeqs
  <2>3. IsSeq(<<"section", Slug[sections[k].title], k>>)
    <3> DEFINE a == Slug[sections[k].title]
    <3> HIDE DEF a
    <3>1. <<"section", a, k>> \in Seq({"section", a, k})
      OBVIOUS
    <3> QED BY <3>1, SeqIsSeq DEF a
  <2> QED BY <1>3, <2>1, <2>2, <2>3, BeginsWith
<1> QED BY <1>4, <1>6, <1>8, <1>9

\* The chunks of a policy hold its text from the first heading on, and without a heading all of it.
LEMMA PolicyKept ==
  ASSUME NEW file \in Seq(Lines), NonBlank(file) # {}, NEW cs, cs = chunk_support_document(Policy(file)),
         NEW first, first = IF Headings(file) = {} THEN 1 ELSE Min(Headings(file))
  PROVE  /\ IsSeq(cs) /\ cs # <<>>
         /\ Joined(Mapped(LAMBDA c : Tail(c.text), cs)) = LineTexts(SubSeq(file, first, Len(file)))
         /\ IsInjective(Mapped(LAMBDA c : c.chunk_id, cs))
         /\ \A c \in Range(cs) : IsPrefix(<<"policy">>, c.chunk_id)
<1> DEFINE n == Len(file)
           split == _split_sections(file)
           fallback == _fallback_sections(file)
<1>1. n \in Nat /\ DOMAIN file = 1..n /\ Policy(file).text = file
  <2>1. n \in Nat /\ DOMAIN file = 1..n
    OBVIOUS
  <2>2. Policy(file).text = file
    BY Zenon DEF Policy
  <2> QED BY <2>1, <2>2
<1>2. cs = support_chunks(Policy(file), IF split = <<>> THEN fallback ELSE split)
  BY <1>1 DEF chunk_support_document
<1>3. CASE Headings(file) # {}
  <2> DEFINE S == Headings(file)
             at == InOrder(S, n)
  <2>1. S \in SUBSET (1..Len(file))
    BY <1>1 DEF Headings
  <2>2. /\ DOMAIN split = DOMAIN at
        /\ \A k \in DOMAIN at : split[k].body = LineTexts(PieceFrom(file, at[k], S))
    BY DEF _split_sections
  <2>3. split # <<>>
    <3> HIDE DEF S
    <3>1. at # <<>>
      BY <1>3, <2>1, PiecesJoined DEF S
    <3>2. at \in Seq(1..n)
      BY <1>1, <2>1, InOrderFacts
    <3> HIDE DEF at
    <3>3. DOMAIN at # {}
      BY <3>1, <3>2, SeqIsSeq, SeqDomain DEF Range
    <3> HIDE DEF split
    <3>4. DOMAIN <<>> = {}
      OBVIOUS
    <3> QED BY <2>2, <3>3, <3>4
  <2>4. cs = support_chunks(Policy(file), split) /\ first = Min(S) /\ S # {}
    BY <1>2, <1>3, <2>3
  <2> HIDE DEF S, split
  <2> QED BY <2>1, <2>2, <2>4, SectionsKept
<1>4. CASE Headings(file) = {}
  <2> DEFINE S == {i \in NonBlank(file) : i - 1 \notin NonBlank(file)}
             at == InOrder(S, n)
  <2>1. split = <<>>
    <3> DEFINE none == InOrder({}, n)
    <3>1. none = <<>>
      <4>1. none \in Seq(1..n) /\ Range(none) = {}
        BY <1>1, InOrderFacts
      <4> HIDE DEF none
      <4> QED BY <4>1, SeqIsSeq, SeqDomain
    <3>2. split = [k \in DOMAIN none |-> [title |-> file[none[k]].text[1],
                     body |-> LineTexts(PieceFrom(file, none[k], Headings(file)))]]
      BY <1>4 DEF _split_sections
    <3> HIDE DEF none
    <3> QED BY <3>1, <3>2
  <2>2. NonBlank(file) \subseteq 1..n /\ NonBlank(file) \subseteq Nat
    BY <1>1 DEF NonBlank
  <2>3. PICK m \in NonBlank(file) : \A j \in NonBlank(file) : m <= j
    BY <2>2, LeastNatural
  <2>4. m \in S /\ S \subseteq 1..n /\ \A j \in S : m <= j
    <3>1. m - 1 \notin NonBlank(file)
      BY <2>2, <2>3
    <3> QED BY <2>2, <2>3, <3>1
  <2>5. Min(S) = m
    <3>1. S \subseteq Nat /\ S # {}
      BY <2>4
    <3> HIDE DEF S
    <3> QED BY <2>4, <3>1, MinFacts
  <2>6. /\ DOMAIN fallback = DOMAIN at
        /\ \A k \in DOMAIN at : fallback[k].body = LineTexts(PieceFrom(file, at[k], S))
    BY DEF _fallback_sections
  <2>7. cs = support_chunks(Policy(file), fallback) /\ S # {} /\ S \in SUBSET (1..Len(file))
    BY <1>2, <2>1, <2>4
  <2>8. /\ IsSeq(cs) /\ cs # <<>>
        /\ Joined(Mapped(LAMBDA c : Tail(c.text), cs)) = LineTexts(SubSeq(file, Min(S), Len(file)))
        /\ IsInjective(Mapped(LAMBDA c : c.chunk_id, cs))
        /\ \A c \in Range(cs) : IsPrefix(<<"policy">>, c.chunk_id)
    <3> HIDE DEF S, fallback
    <3> QED BY <2>6, <2>7, SectionsKept
  <2>9. LineTexts(SubSeq(file, m, n)) = LineTexts(SubSeq(file, 1, n))
    <3> DEFINE blank == SubSeq(file, 1, m - 1)
               rest == SubSeq(file, m, n)
    <3>1. m \in 1..n /\ (m - 1) + 1 = m /\ m - 1 \in 0..n
      BY <2>2
    <3>2. blank \o rest = SubSeq(file, 1, n)
      <4>1. 1 \in 1..(n + 1) /\ m - 1 \in (1 - 1)..n /\ n \in (m - 1)..n
        BY <1>1, <3>1
      <4>2. SubSeq(file, 1, m - 1) \o SubSeq(file, (m - 1) + 1, n) = SubSeq(file, 1, n)
        BY <4>1, ConcatAdjacentSubSeq
      <4> QED BY <3>1, <4>2
    <3>3. blank \in Seq(Lines) /\ rest \in Seq(Lines)
          /\ \A i \in DOMAIN blank : blank[i] = file[i] /\ i \in 1..(m - 1)
      BY <3>1
    <3>4. ASSUME NEW i \in DOMAIN blank PROVE LineText[blank[i]] = <<>>
      <4>1. i \in 1..n /\ i < m /\ file[i] \in Lines
        BY <3>1, <3>3
      <4>2. file[i].text = <<>>
        BY <1>1, <2>3, <4>1 DEF NonBlank
      <4> QED BY <3>3, <4>1, <4>2 DEF LineText
    <3> HIDE DEF blank, rest
    <3>5. Told(LineText, blank) = <<>>
      BY <3>3, <3>4, ToldPlain
    <3>6. LineTexts(blank \o rest) = LineTexts(blank) \o LineTexts(rest)
      BY <3>3, LineTextFacts
    <3>7. LineTexts(blank) = <<>> /\ LineTexts(rest) \in Seq(STRING)
      BY <3>3, <3>5, LineTextFacts DEF Texts
    <3>8. <<>> \o LineTexts(rest) = LineTexts(rest)
      BY <3>7
    <3> QED BY <3>2, <3>6, <3>7, <3>8 DEF rest
  <2> QED BY <1>4, <2>5, <2>8, <2>9
<1> QED BY <1>3, <1>4

\* The sections of a policy are its text from the first heading on, in order; without a heading they
\* are all of it.  No two of them have one identifier.
THEOREM PolicyKeepsText == Spec => []SupportTextKept
<1>1. IInv => SupportTextKept
  <2> SUFFICES ASSUME IInv, Chunked, source_type = "internal_policy" PROVE SupportTextKept
    BY DEF SupportTextKept
  <2> DEFINE cs == chunk_support_document(Policy(raw))
             first == IF Headings(raw) = {} THEN 1 ELSE Min(Headings(raw))
  <2>1. raw \in Seq(Lines) /\ NonBlank(raw) # {} /\ chunks = Joined(<<cs>>)
    BY PolicyChunked
  <2>2. /\ IsSeq(cs)
        /\ Joined(Mapped(LAMBDA c : Tail(c.text), cs)) = LineTexts(SubSeq(raw, first, Len(raw)))
        /\ IsInjective(Mapped(LAMBDA c : c.chunk_id, cs))
    BY <2>1, PolicyKept
  <2> HIDE DEF cs
  <2>3. chunks = cs
    BY <2>1, <2>2, JoinedOne DEF IsSeq
  <2> QED BY <2>2, <2>3 DEF SupportTextKept
<1> QED BY <1>1, Inductive, PTL

-----------------------------------------------------------------------------
(* Cases.                                                                  *)

\* The function that tells each element but those of T.
Telling(D, T) == [x \in D |-> IF x \in T THEN <<>> ELSE <<x>>]

\* What is left without the elements of T is told by it.
LEMMA WithoutTold ==
  ASSUME NEW D, NEW s \in Seq(D), NEW T
  PROVE  Telling(D, T) \in [D -> Seq(D)] /\ Without(s, T) = Told(Telling(D, T), s)
<1>1. ASSUME NEW x \in D PROVE (IF x \in T THEN <<>> ELSE <<x>>) \in Seq(D)
  OBVIOUS
<1>2. Telling(D, T) \in [D -> Seq(D)]
  BY <1>1 DEF Telling
<1>3. \A i \in DOMAIN s : s[i] \in D
  OBVIOUS
<1>4. [i \in DOMAIN s |-> Telling(D, T)[s[i]]] = [i \in DOMAIN s |-> IF s[i] \in T THEN <<>> ELSE <<s[i]>>]
  BY <1>3 DEF Telling
<1> QED BY <1>2, <1>4 DEF Without, Mapped, Told

\* The text of a group.
GroupText == [g \in Groups |-> g.text]

\* The groups that hold others, and those of which another one is a part at any depth.
Inner(section) == {g \in Range(section.groups) : \E h \in Range(section.groups) : Front(h.path) = g.path}
Outer(section) ==
  {g \in Range(section.groups) : \E h \in Range(section.groups) : IsStrictPrefix(g.path, h.path)}

\* What is kept of a section: its text outside the groups when it has none, and the text of the groups
\* that hold no others.
KeptOf(section) == [g \in Groups |-> IF g \in Inner(section) THEN <<>> ELSE g.text]
Kept(section) ==
  IF section.groups = <<>> THEN section.loose ELSE Told(KeptOf(section), section.groups)

\* The shape of a section.
LEMMA SectionShape ==
  ASSUME NEW section \in Sections
  PROVE  /\ section.loose \in Seq(STRING) /\ section.groups \in Seq(Groups)
         /\ \A g \in Range(section.groups) : g \in Groups
         /\ \A g \in Groups : g.path \in Seq(Nat) /\ g.text \in Seq(STRING)
         /\ GroupText \in [Groups -> Seq(STRING)] /\ KeptOf(section) \in [Groups -> Seq(STRING)]
<1>1. section.loose \in Seq(STRING) /\ section.groups \in Seq(Groups)
  BY DEF Sections, Texts
<1>2. \A g \in Groups : g.path \in Seq(Nat) /\ g.text \in Seq(STRING)
  BY DEF Groups, Texts
<1>3. GroupText \in [Groups -> Seq(STRING)]
  BY <1>2 DEF GroupText
<1>4. KeptOf(section) \in [Groups -> Seq(STRING)]
  <2>1. ASSUME NEW g \in Groups PROVE (IF g \in Inner(section) THEN <<>> ELSE g.text) \in Seq(STRING)
    <3>1. g.text \in Seq(STRING) /\ <<>> \in Seq(STRING)
      BY <1>2
    <3> QED BY <3>1
  <2> QED BY <2>1 DEF KeptOf
<1> QED BY <1>1, <1>2, <1>3, <1>4, RangeOfSeq

\* The front of a path is a part of it, and a part of it that is one shorter is its front.
LEMMA FrontFacts ==
  ASSUME NEW p \in Seq(Nat), NEW q \in Seq(Nat), p # <<>>
  PROVE  /\ Front(p) \in Seq(Nat) /\ Len(Front(p)) = Len(p) - 1
         /\ IsStrictPrefix(Front(p), p)
         /\ IsStrictPrefix(q, p) => Len(q) < Len(p)
         /\ IsStrictPrefix(q, p) /\ Len(q) = Len(p) - 1 => q = Front(p)
         /\ IsStrictPrefix(q, p) /\ Len(q) # Len(p) - 1 => IsStrictPrefix(q, Front(p))
<1> DEFINE n == Len(p)
           m == Len(q)
           f == Front(p)
<1>1. n \in Nat /\ m \in Nat /\ n # 0
  OBVIOUS
<1>2. f \in Seq(Nat) /\ Len(f) = n - 1 /\ \A i \in 1..(n - 1) : f[i] = p[i]
  <2>1. 1 \in 1..(n + 1) /\ n - 1 \in (1 - 1)..n
    BY <1>1
  <2>2. f = SubSeq(p, 1, n - 1)
    BY DEF Front
  <2> DEFINE k == n - 1
             u == SubSeq(p, 1, k)
  <2>3. k \in Nat /\ k <= Len(p)
    BY <1>1
  <2> HIDE DEF k
  <2>4. u \in Seq(Nat)
    BY <2>3
  <2>5. Len(u) = k
    BY <2>3
  <2>6. \A i \in 1..k : u[i] = p[i]
    BY <2>3
  <2> HIDE DEF u, f
  <2>7. f = u
    BY <2>2 DEF u, k
  <2> QED BY <2>4, <2>5, <2>6, <2>7 DEF k
<1>3. ASSUME NEW s \in Seq(Nat), NEW t \in Seq(Nat)
      PROVE  IsPrefix(s, t) <=> Len(s) <= Len(t) /\ \A i \in 1..Len(s) : s[i] = t[i]
  <2>1. ASSUME Len(s) <= Len(t)
        PROVE  /\ SubSeq(s, 1, Len(s)) = [i \in 1..Len(s) |-> s[i]]
               /\ SubSeq(t, 1, Len(s)) = [i \in 1..Len(s) |-> t[i]]
    BY <2>1
  <2>2. [i \in 1..Len(s) |-> s[i]] = [i \in 1..Len(s) |-> t[i]] <=> \A i \in 1..Len(s) : s[i] = t[i]
    <3> DEFINE a == [i \in 1..Len(s) |-> s[i]]
               b == [i \in 1..Len(s) |-> t[i]]
    <3>1. ASSUME a = b, NEW i \in 1..Len(s) PROVE s[i] = t[i]
      <4>1. a[i] = s[i] /\ b[i] = t[i]
        OBVIOUS
      <4> HIDE DEF a, b
      <4> QED BY <3>1, <4>1
    <3>2. (\A i \in 1..Len(s) : s[i] = t[i]) => a = b
      OBVIOUS
    <3> QED BY <3>1, <3>2
  <2> QED BY <2>1, <2>2 DEF IsPrefix
<1> HIDE DEF f, n, m
<1>4. IsPrefix(f, p) /\ f # p
  <2>1. Len(f) # Len(p) /\ Len(f) <= Len(p) /\ \A i \in 1..Len(f) : f[i] = p[i]
    BY <1>1, <1>2 DEF n
  <2>2. IsPrefix(f, p) <=> Len(f) <= Len(p) /\ \A i \in 1..Len(f) : f[i] = p[i]
    BY <1>2, <1>3
  <2> QED BY <2>1, <2>2
<1>5. IsPrefix(q, p) => m <= n /\ \A i \in 1..m : q[i] = p[i]
  BY <1>3 DEF n, m
<1>6. IsPrefix(q, p) /\ m = n => q = p
  BY <1>1, <1>5, SeqEqual DEF n, m
<1>7. IsPrefix(q, p) /\ m = n - 1 => q = f
  <2> SUFFICES ASSUME IsPrefix(q, p), m = n - 1 PROVE q = f
    OBVIOUS
  <2>1. Len(q) = Len(f) /\ \A i \in 1..Len(q) : q[i] = f[i]
    BY <1>2, <1>5 DEF m
  <2> QED BY <1>2, <2>1, SeqEqual
<1>8. IsPrefix(q, p) /\ m # n /\ m # n - 1 => IsPrefix(q, f) /\ q # f
  <2> SUFFICES ASSUME IsPrefix(q, p), m # n, m # n - 1 PROVE IsPrefix(q, f) /\ q # f
    OBVIOUS
  <2>1. m <= n - 1 /\ \A i \in 1..m : i \in 1..(n - 1)
    BY <1>1, <1>5
  <2>2. Len(q) <= Len(f) /\ \A i \in 1..Len(q) : q[i] = f[i]
    BY <1>2, <1>5, <2>1 DEF m
  <2>3. IsPrefix(q, f)
    BY <1>2, <1>3, <2>2
  <2> QED BY <1>2, <2>3 DEF m
<1>9. IsStrictPrefix(q, p) => m < n
  BY <1>1, <1>5, <1>6 DEF IsStrictPrefix
<1>10. IsStrictPrefix(q, p) => IsPrefix(q, p) /\ m # n
  BY <1>1, <1>9 DEF IsStrictPrefix
<1> QED BY <1>2, <1>4, <1>7, <1>8, <1>9, <1>10 DEF IsStrictPrefix, f, n, m

\* A group that has another one at any depth has one right under it.
LEMMA InnerIsOuter ==
  ASSUME NEW section \in Sections, Nested(section)
  PROVE  Inner(section) = Outer(section)
<1>1. \A g \in Range(section.groups) : g.path \in Seq(Nat) /\ g.path # <<>>
  BY SectionShape DEF Nested
<1>2. \A h \in Range(section.groups) :
        Len(h.path) > 1 => \E g \in Range(section.groups) : g.path = Front(h.path)
  BY DEF Nested
<1>3. Inner(section) \subseteq Outer(section)
  BY <1>1, FrontFacts DEF Inner, Outer
<1>4. ASSUME NEW g \in Outer(section) PROVE g \in Inner(section)
  <2> DEFINE Under == {h \in Range(section.groups) : IsStrictPrefix(g.path, h.path)}
             Lengths == {Len(h.path) : h \in Under}
  <2>1. g \in Range(section.groups) /\ Under # {}
    BY DEF Outer
  <2>2. Lengths \subseteq Nat /\ Lengths # {}
    <3>1. \A h \in Under : Len(h.path) \in Nat
      BY <1>1
    <3> HIDE DEF Under
    <3> QED BY <2>1, <3>1
  <2>3. PICK n \in Lengths : \A m \in Lengths : n <= m
    BY <2>2, LeastNatural
  <2>4. PICK h \in Under : n = Len(h.path)
    OBVIOUS
  <2> DEFINE p == h.path
             q == g.path
  <2>5. p \in Seq(Nat) /\ p # <<>> /\ q \in Seq(Nat) /\ q # <<>> /\ IsStrictPrefix(q, p)
    BY <1>1, <2>1
  <2>6. CASE Len(q) = Len(p) - 1
    <3>1. q = Front(p)
      <4> HIDE DEF p, q
      <4> QED BY <2>5, <2>6, FrontFacts
    <3> QED BY <2>1, <3>1 DEF Inner
  <2>7. CASE Len(q) # Len(p) - 1
    <3>1. IsStrictPrefix(q, Front(p)) /\ Len(q) < Len(p) /\ Len(Front(p)) = Len(p) - 1
      <4> HIDE DEF p, q
      <4> QED BY <2>5, <2>7, FrontFacts
    <3>2. Len(p) > 1 /\ Len(p) \in Nat
      <4> HIDE DEF p, q
      <4> QED BY <2>5, <3>1
    <3>3. PICK k \in Range(section.groups) : k.path = Front(p)
      BY <1>2, <3>2
    <3>4. k \in Under
      BY <3>1, <3>3
    <3>5. Len(k.path) \in Lengths
      BY <3>4
    <3>6. n = Len(p) /\ Len(k.path) = Len(p) - 1
      BY <2>4, <3>1, <3>3
    <3> HIDE DEF p, Lengths
    <3>7. Len(p) <= Len(p) - 1
      BY <2>3, <3>5, <3>6
    <3> QED BY <3>2, <3>7
  <2> QED BY <2>6, <2>7
<1> QED BY <1>3, <1>4

\* Numbers of a sequence are not greater than some number.
LEMMA Bounded ==
  ASSUME NEW s \in Seq(Nat)
  PROVE  \E n \in Nat : \A i \in DOMAIN s : s[i] <= n
<1> DEFINE S == {u \in Seq(Nat) : \E n \in Nat : \A i \in DOMAIN u : u[i] <= n}
<1>1. <<>> \in S
  OBVIOUS
<1>2. ASSUME NEW u \in Seq(Nat), u \in S, NEW x \in Nat PROVE Append(u, x) \in S
  <2>1. PICK n \in Nat : \A i \in DOMAIN u : u[i] <= n
    BY <1>2
  <2> DEFINE v == Append(u, x)
  <2>2. v \in Seq(Nat) /\ DOMAIN v = 1..(Len(u) + 1) /\ Len(u) \in Nat /\ DOMAIN u = 1..Len(u)
        /\ v[Len(u) + 1] = x /\ \A i \in 1..Len(u) : v[i] = u[i] /\ u[i] \in Nat
    OBVIOUS
  <2> HIDE DEF v
  <2>3. ASSUME NEW i \in DOMAIN v PROVE v[i] <= n + x
    <3>1. CASE i = Len(u) + 1
      BY <2>2, <3>1
    <3>2. CASE i # Len(u) + 1
      <4>1. i \in 1..Len(u)
        BY <2>2, <3>2
      <4>2. v[i] = u[i] /\ u[i] <= n /\ u[i] \in Nat
        BY <2>1, <2>2, <4>1
      <4> QED BY <4>2
    <3> QED BY <3>1, <3>2
  <2>4. n + x \in Nat
    OBVIOUS
  <2>5. v \in S
    BY <2>2, <2>3, <2>4
  <2> QED BY <2>5 DEF v
<1> HIDE DEF S
<1>3. Seq(Nat) \subseteq S
  BY <1>1, <1>2, SeqInduct
<1> QED BY <1>3 DEF S

\* Among groups is one that holds no others: one whose path is longest.
LEMMA SomeLeaf ==
  ASSUME NEW section \in Sections, section.groups # <<>>, Nested(section)
  PROVE  Range(section.groups) \ Outer(section) # {}
<1> DEFINE gs == section.groups
           lengths == [i \in DOMAIN gs |-> Len(gs[i].path)]
<1>1. gs \in Seq(Groups) /\ Len(gs) \in Nat /\ DOMAIN gs = 1..Len(gs) /\ Range(gs) # {}
  BY SectionShape, SeqIsSeq, SeqDomain
<1>2. \A g \in Range(gs) : g.path \in Seq(Nat) /\ g.path # <<>> /\ Len(g.path) \in Nat
  BY SectionShape DEF Nested
<1>3. \A i \in DOMAIN gs : gs[i] \in Range(gs)
  BY DEF Range
<1>4. lengths \in Seq(Nat)
  <2>1. lengths \in [1..Len(gs) -> Nat]
    BY <1>1, <1>2, <1>3
  <2> QED BY <1>1, <2>1, SeqDef
<1>5. DOMAIN lengths = DOMAIN gs /\ \A i \in DOMAIN gs : lengths[i] = Len(gs[i].path)
  OBVIOUS
<1> HIDE DEF lengths
<1>6. PICK n \in Nat : \A i \in DOMAIN lengths : lengths[i] <= n
  BY <1>4, Bounded
<1>7. \A g \in Range(gs) : Len(g.path) <= n
  BY <1>5, <1>6 DEF Range
<1> DEFINE Rest == {n - Len(g.path) : g \in Range(gs)}
<1>8. Rest \subseteq Nat /\ Rest # {}
  BY <1>1, <1>2, <1>7
<1>9. PICK m \in Rest : \A k \in Rest : m <= k
  BY <1>8, LeastNatural
<1>10. PICK g \in Range(gs) : m = n - Len(g.path)
  OBVIOUS
<1>11. ASSUME NEW h \in Range(gs) PROVE Len(h.path) <= Len(g.path)
  <2>1. n - Len(h.path) \in Rest
    OBVIOUS
  <2>2. n - Len(g.path) <= n - Len(h.path)
    BY <1>9, <1>10, <2>1
  <2>3. Len(g.path) \in Nat /\ Len(h.path) \in Nat
    BY <1>2
  <2> HIDE DEF Rest
  <2> QED BY <2>2, <2>3
<1>12. g \notin Outer(section)
  <2> SUFFICES ASSUME NEW h \in Range(gs), IsStrictPrefix(g.path, h.path) PROVE FALSE
    BY DEF Outer
  <2>1. Len(g.path) < Len(h.path)
    BY <1>2, FrontFacts
  <2>2. Len(g.path) \in Nat /\ Len(h.path) \in Nat /\ Len(h.path) <= Len(g.path)
    BY <1>2, <1>11
  <2> QED BY <2>1, <2>2
<1> QED BY <1>12

\* The groups of a section that are not empty and hold no others hold what is kept of it.
LEMMA LeavesKept ==
  ASSUME NEW section \in Sections, Nested(section), section.groups # <<>>,
         NEW leaves, leaves = _leaf_paragroups(section)
  PROVE  /\ leaves \in Seq(Groups) /\ leaves # <<>>
         /\ Filled(leaves) \in Seq(Groups)
         /\ Told(GroupText, Filled(leaves)) = Kept(section)
<1> DEFINE gs == section.groups
           tell == Telling(Groups, Outer(section))
           blank == {g \in Range(leaves) : g.text = <<>>}
           fill == Telling(Groups, blank)
<1>1. gs \in Seq(Groups) /\ GroupText \in [Groups -> Seq(STRING)] /\ KeptOf(section) \in [Groups -> Seq(STRING)]
      /\ \A g \in Groups : g.text \in Seq(STRING)
  BY SectionShape
<1>2. leaves = Without(gs, Outer(section))
  BY DEF _leaf_paragroups, Outer
<1>3. tell \in [Groups -> Seq(Groups)] /\ leaves = Told(tell, gs)
  BY <1>1, <1>2, WithoutTold
<1>4. IsSeq(leaves) /\ Range(leaves) = Range(gs) \ Outer(section)
  BY <1>1, <1>2, WithoutFacts, SeqIsSeq
<1> HIDE DEF tell
<1>5. leaves \in Seq(Groups)
  <2>1. gs \in Seq(Groups)
    BY <1>1
  <2>2. tell \in [Groups -> Seq(Groups)]
    BY <1>3
  <2> HIDE DEF gs
  <2>3. Told(tell, gs) \in Seq(Groups)
    BY <2>1, <2>2, ToldTyped
  <2> QED BY <1>3, <2>3
<1>6. leaves # <<>>
  <2>1. Range(leaves) # {}
    BY <1>4, SomeLeaf
  <2> QED BY <2>1, ShortSeqs
<1>7. fill \in [Groups -> Seq(Groups)] /\ Filled(leaves) = Told(fill, leaves)
  BY <1>5, WithoutTold DEF Filled
<1>8. \A T : Telling(Groups, T) \in [Groups -> Seq(Groups)] /\ \A g \in Groups :
        Told(GroupText, Telling(Groups, T)[g]) = IF g \in T THEN <<>> ELSE g.text
  <2> TAKE T
  <2>1. Telling(Groups, T) \in [Groups -> Seq(Groups)]
    <3>1. <<>> \in Seq(Groups)
      OBVIOUS
    <3> QED BY <3>1, WithoutTold
  <2>2. ASSUME NEW g \in Groups
        PROVE  Told(GroupText, Telling(Groups, T)[g]) = IF g \in T THEN <<>> ELSE g.text
    <3>1. CASE g \in T
      BY <3>1, ToldEmpty DEF Telling
    <3>2. CASE g \notin T
      <4>1. Telling(Groups, T)[g] = <<g>>
        BY <3>2 DEF Telling
      <4>2. [i \in DOMAIN <<g>> |-> GroupText[<<g>>[i]]] = <<g.text>>
        BY DEF GroupText
      <4>3. g.text \in Seq(STRING)
        BY <1>1
      <4> DEFINE x == g.text
      <4> HIDE DEF x
      <4>4. Joined(<<x>>) = x
        BY <4>3, JoinedOne DEF x
      <4> QED BY <3>2, <4>1, <4>2, <4>4 DEF Told, x
    <3> QED BY <3>1, <3>2
  <2> QED BY <2>1, <2>2
<1> HIDE DEF fill, blank
<1>9. Told(GroupText, Filled(leaves)) = Told(GroupText, leaves)
  <2>1. TellsBoth(GroupText, fill, GroupText, leaves)
    <3> SUFFICES ASSUME NEW i \in DOMAIN leaves PROVE GroupText[leaves[i]] = Told(GroupText, fill[leaves[i]])
      BY DEF TellsBoth
    <3>1. leaves[i] \in Groups /\ leaves[i] \in Range(leaves)
      BY <1>5 DEF Range
    <3>2. Told(GroupText, fill[leaves[i]]) = IF leaves[i] \in blank THEN <<>> ELSE leaves[i].text
      BY <1>8, <3>1 DEF fill
    <3> QED BY <3>1, <3>2 DEF GroupText, blank
  <2>2. Tells(GroupText, Groups, STRING)
    BY <1>1 DEF Tells
  <2>3. Tells(fill, Groups, Groups)
    BY <1>7 DEF Tells
  <2>4. Told(GroupText, Told(fill, leaves)) = Told(GroupText, leaves)
    BY <1>5, <2>1, <2>2, <2>3, ToldTold
  <2> QED BY <1>7, <2>4
<1>10. Told(GroupText, leaves) = Told(KeptOf(section), gs)
  <2>1. TellsBoth(KeptOf(section), tell, GroupText, gs)
    <3> SUFFICES ASSUME NEW i \in DOMAIN gs PROVE KeptOf(section)[gs[i]] = Told(GroupText, tell[gs[i]])
      BY DEF TellsBoth
    <3>1. gs[i] \in Groups
      BY <1>1
    <3>2. Told(GroupText, tell[gs[i]]) = IF gs[i] \in Outer(section) THEN <<>> ELSE gs[i].text
      BY <1>8, <3>1 DEF tell
    <3> QED BY <3>1, <3>2, InnerIsOuter DEF KeptOf
  <2>2. Tells(GroupText, Groups, STRING)
    BY <1>1 DEF Tells
  <2>3. Tells(tell, Groups, Groups)
    BY <1>3 DEF Tells
  <2>4. gs \in Seq(Groups)
    BY <1>1
  <2> HIDE DEF gs
  <2>5. Told(GroupText, Told(tell, gs)) = Told(KeptOf(section), gs)
    BY <2>1, <2>2, <2>3, <2>4, ToldTold
  <2> QED BY <1>3, <2>5
<1>11. Filled(leaves) \in Seq(Groups)
  BY <1>5, <1>7, ToldTyped
<1> QED BY <1>5, <1>6, <1>9, <1>10, <1>11 DEF Kept

\* Without text in the groups, or without groups, no group is a leaf.
LEMMA NoLeaf ==
  ASSUME NEW section, section.groups = <<>>
  PROVE  _leaf_paragroups(section) = <<>>
<1> DEFINE T == {g \in Range(section.groups) : \E h \in Range(section.groups) : IsStrictPrefix(g.path, h.path)}
<1>1. _leaf_paragroups(section) = Without(<<>>, T)
  BY DEF _leaf_paragroups
<1> HIDE DEF T
<1>2. IsSeq(Without(<<>>, T)) /\ Range(Without(<<>>, T)) = Range(<<>>) \ T
  BY ShortSeqs, WithoutFacts
<1>3. Without(<<>>, T) = <<>>
  BY <1>2, ShortSeqs, SeqDomain
<1> QED BY <1>1, <1>3

\* The chunks of a section hold what is kept of it; their identifiers begin with that of the document.
LEMMA SectionChunks ==
  ASSUME NEW section \in Sections, Nested(section), NEW doc, NEW index, IsSeq(doc.doc_id),
         NEW cs, cs = section_chunks(doc, section, index)
  PROVE  /\ IsSeq(cs) /\ \A c \in Range(cs) : c.text \in Seq(STRING) /\ IsPrefix(doc.doc_id, c.chunk_id)
         /\ Joined(Mapped(LAMBDA c : c.text, cs)) = Kept(section)
<1> DEFINE leaves == _leaf_paragroups(section)
           id(ordinal) == build_case_chunk_id(doc, _canonical_section_type(section), ordinal)
<1>1. section.loose \in Seq(STRING) /\ section.groups \in Seq(Groups)
      /\ \A g \in Groups : g.text \in Seq(STRING)
  BY SectionShape
<1>2. \A ordinal : IsPrefix(doc.doc_id, id(ordinal))
  <2> TAKE ordinal
  <2> DEFINE a == Slug[_canonical_section_type(section)]
             b == Slug[ordinal]
  <2>1. id(ordinal) = doc.doc_id \o <<"section", a, b>>
    BY DEF build_case_chunk_id
  <2> HIDE DEF a, b
  <2>2. IsSeq(<<"section", a, b>>)
    <3>1. <<"section", a, b>> \in Seq({"section", a, b})
      OBVIOUS
    <3> QED BY <3>1, SeqIsSeq
  <2> QED BY <2>1, <2>2, BeginsWith
<1>3. CASE section.groups # <<>>
  <2> DEFINE fs == Filled(leaves)
  <2>1. leaves # <<>> /\ fs \in Seq(Groups) /\ Told(GroupText, fs) = Kept(section)
    BY <1>3, LeavesKept
  <2>2. /\ DOMAIN cs = DOMAIN fs /\ cs = [i \in DOMAIN cs |-> cs[i]]
        /\ \A i \in DOMAIN fs : cs[i].text = fs[i].text /\ \E ordinal : cs[i].chunk_id = id(ordinal)
    BY <2>1 DEF section_chunks, Mapped, record
  <2> HIDE DEF fs, id
  <2>3. IsSeq(cs)
    BY <2>1, <2>2, SeqIsSeq, MadeOf
  <2>4. \A c \in Range(cs) : c.text \in Seq(STRING) /\ IsPrefix(doc.doc_id, c.chunk_id)
    BY <1>1, <1>2, <2>1, <2>2 DEF Range
  <2>5. Mapped(LAMBDA c : c.text, cs) = [i \in DOMAIN fs |-> GroupText[fs[i]]]
    BY <2>1, <2>2 DEF Mapped, GroupText
  <2> QED BY <2>1, <2>3, <2>4, <2>5 DEF Told
<1>4. CASE section.groups = <<>> /\ section.loose = <<>>
  <2>1. cs = <<>>
    BY <1>4, NoLeaf DEF section_chunks
  <2>2. Mapped(LAMBDA c : c.text, <<>>) = <<>>
    BY DEF Mapped
  <2>3. Joined(<<>>) = <<>>
    BY DEF Joined, FlattenSeq
  <2> QED BY <1>4, <2>1, <2>2, <2>3, ShortSeqs DEF Kept
<1>5. CASE section.groups = <<>> /\ section.loose # <<>>
  <2> DEFINE c == record(id(ToString(index)), section.loose, doc.citation \o <<_section_title(section)>>)
  <2>1. cs = <<c>>
    BY <1>5, NoLeaf DEF section_chunks
  <2>2. c.text = section.loose /\ c.chunk_id = id(ToString(index))
    BY DEF record
  <2> HIDE DEF c, id
  <2>3. Mapped(LAMBDA e : e.text, <<c>>) = <<section.loose>>
    BY <2>2 DEF Mapped
  <2>4. Joined(<<section.loose>>) = section.loose
    <3> DEFINE x == section.loose
    <3> HIDE DEF x
    <3>1. Joined(<<x>>) = x
      BY <1>1, JoinedOne DEF x
    <3> QED BY <3>1 DEF x
  <2>5. IsSeq(cs) /\ Range(cs) = {c}
    BY <2>1, ShortSeqs
  <2> QED BY <1>1, <1>2, <1>5, <2>1, <2>2, <2>3, <2>4, <2>5 DEF Kept
<1> QED BY <1>3, <1>4, <1>5

\* The text of a ruling that stands beside what holds it.
Beside(sections) ==
  UNION {TokensOf({IF s.groups = <<>> THEN <<>> ELSE s.loose} \cup {g.text : g \in Inner(s)})
         : s \in Range(sections)}

\* A piece of text of a section stands beside what holds it in that section only.
LEMMA BesideFacts ==
  ASSUME NEW sections \in Seq(Sections), Apart(sections), NEW s \in Range(sections)
  PROVE  /\ \A x \in Range(s.loose) : x \in Beside(sections) <=> s.groups # <<>>
         /\ \A g \in Range(s.groups) : \A x \in Range(g.text) : x \in Beside(sections) <=> g \in Inner(s)
<1>1. \A x : x \in Beside(sections) <=>
        \E t \in Range(sections) : \/ t.groups # <<>> /\ x \in Range(t.loose)
                                   \/ \E g \in Inner(t) : x \in Range(g.text)
  <2> SUFFICES ASSUME NEW x, NEW t \in Range(sections)
               PROVE  x \in TokensOf({IF t.groups = <<>> THEN <<>> ELSE t.loose} \cup {g.text : g \in Inner(t)})
                      <=> \/ t.groups # <<>> /\ x \in Range(t.loose)
                          \/ \E g \in Inner(t) : x \in Range(g.text)
    BY DEF Beside
  <2>1. x \in TokensOf({IF t.groups = <<>> THEN <<>> ELSE t.loose} \cup {g.text : g \in Inner(t)})
        <=> \/ x \in Range(IF t.groups = <<>> THEN <<>> ELSE t.loose)
            \/ \E g \in Inner(t) : x \in Range(g.text)
    BY DEF TokensOf
  <2> QED BY <2>1, ShortSeqs
<1>2. \A t : \A g \in Inner(t) : g \in Range(t.groups)
  BY DEF Inner
<1>3. \A t \in Range(sections) :
        /\ \A x : x \in Range(s.loose) /\ x \in Range(t.loose) => s = t
        /\ \A g \in Range(s.groups) : \A x : ~(x \in Range(g.text) /\ x \in Range(t.loose))
        /\ \A g \in Range(t.groups) : \A x : ~(x \in Range(g.text) /\ x \in Range(s.loose))
        /\ \A g \in Range(s.groups), h \in Range(t.groups) : \A x :
             x \in Range(g.text) /\ x \in Range(h.text) => s = t /\ g = h
  BY DEF Apart
<1>4. ASSUME NEW x \in Range(s.loose) PROVE x \in Beside(sections) <=> s.groups # <<>>
  BY <1>1, <1>2, <1>3
<1>5. ASSUME NEW g \in Range(s.groups), NEW x \in Range(g.text)
      PROVE  x \in Beside(sections) <=> g \in Inner(s)
  <2>1. ASSUME NEW t \in Range(sections), x \in Range(t.loose) PROVE FALSE
    BY <1>3, <2>1
  <2>2. ASSUME NEW t \in Range(sections), NEW h \in Inner(t), x \in Range(h.text)
        PROVE  s = t /\ g = h
    <3>1. h \in Range(t.groups)
      BY <1>2
    <3> QED BY <1>3, <2>2, <3>1
  <2>3. x \in Beside(sections) => g \in Inner(s)
    BY <1>1, <2>1, <2>2
  <2>4. g \in Inner(s) => x \in Beside(sections)
    BY <1>1
  <2> QED BY <2>3, <2>4
<1> QED BY <1>4, <1>5

\* What is left of the text of a section without what stands beside is what is kept of it.
LEMMA SectionKept ==
  ASSUME NEW sections \in Seq(Sections), Apart(sections), NEW s \in Range(sections),
         NEW w, w = Telling(STRING, Beside(sections))
  PROVE  s.loose \o group_texts(s) \in Seq(STRING) /\ Told(w, s.loose \o group_texts(s)) = Kept(s)
<1> DEFINE gs == s.groups
<1>1. s \in Sections
  BY RangeOfSeq
<1>2. s.loose \in Seq(STRING) /\ gs \in Seq(Groups) /\ GroupText \in [Groups -> Seq(STRING)]
      /\ \A g \in Groups : g.text \in Seq(STRING)
  BY <1>1, SectionShape
<1>3. w \in [STRING -> Seq(STRING)]
      /\ \A x \in STRING : w[x] = IF x \in Beside(sections) THEN <<>> ELSE <<x>>
  <2>1. <<>> \in Seq(STRING)
    OBVIOUS
  <2> QED BY <2>1, WithoutTold DEF Telling
<1>4. group_texts(s) = Told(GroupText, gs)
  <2>1. [i \in DOMAIN gs |-> GroupText[gs[i]]] = [i \in DOMAIN gs |-> gs[i].text]
    BY <1>2 DEF GroupText
  <2> QED BY <2>1 DEF group_texts, Mapped, Told
<1>5. group_texts(s) \in Seq(STRING)
  BY <1>2, <1>4, ToldTyped
<1>6. Told(w, s.loose \o group_texts(s)) = Told(w, s.loose) \o Told(w, group_texts(s))
  <2> DEFINE a == s.loose
             b == group_texts(s)
  <2> HIDE DEF a, b
  <2>1. Told(w, a \o b) = Told(w, a) \o Told(w, b)
    <3>1. a \in Seq(STRING)
      BY <1>2 DEF a
    <3>2. b \in Seq(STRING)
      BY <1>5 DEF b
    <3>3. w \in [STRING -> Seq(STRING)]
      BY <1>3
    <3> QED BY <3>1, <3>2, <3>3, ToldConcat
  <2> QED BY <2>1 DEF a, b
<1>7. Told(w, s.loose) = IF gs = <<>> THEN s.loose ELSE <<>>
  <2> DEFINE a == s.loose
  <2>1. \A i \in DOMAIN a : a[i] \in Range(a) /\ a[i] \in STRING
    BY <1>2 DEF Range
  <2>2. \A i \in DOMAIN a : w[a[i]] = IF gs = <<>> THEN <<a[i]>> ELSE <<>>
    BY <1>3, <2>1, BesideFacts
  <2>3. a \in Seq(STRING)
    BY <1>2
  <2> HIDE DEF a
  <2>4. (\A i \in DOMAIN a : w[a[i]] = <<>>) => Told(w, a) = <<>>
    BY <2>3, ToldPlain
  <2>5. (\A i \in DOMAIN a : w[a[i]] = <<a[i]>>) => Told(w, a) = a
    BY <2>3, ToldPlain
  <2>6. CASE gs = <<>>
    BY <2>2, <2>5, <2>6 DEF a
  <2>7. CASE gs # <<>>
    BY <2>2, <2>4, <2>7 DEF a
  <2> QED BY <2>6, <2>7
<1>8. Told(w, group_texts(s)) = Told(KeptOf(s), gs)
  <2>1. ASSUME NEW g \in Range(gs) PROVE KeptOf(s)[g] = Told(w, GroupText[g])
    <3> DEFINE a == g.text
    <3>1. g \in Groups /\ a \in Seq(STRING)
      BY <1>2, RangeOfSeq
    <3>2. \A i \in DOMAIN a : a[i] \in Range(a) /\ a[i] \in STRING
      BY <3>1 DEF Range
    <3>3. \A i \in DOMAIN a : w[a[i]] = IF g \in Inner(s) THEN <<>> ELSE <<a[i]>>
      BY <1>3, <3>2, BesideFacts
    <3>4. GroupText[g] = a
      BY <3>1 DEF GroupText
    <3>5. KeptOf(s)[g] = IF g \in Inner(s) THEN <<>> ELSE a
      BY <3>1 DEF KeptOf
    <3> HIDE DEF a
    <3>6. (\A i \in DOMAIN a : w[a[i]] = <<>>) => Told(w, a) = <<>>
      BY <3>1, ToldPlain
    <3>7. (\A i \in DOMAIN a : w[a[i]] = <<a[i]>>) => Told(w, a) = a
      BY <3>1, ToldPlain
    <3>8. CASE g \in Inner(s)
      BY <3>3, <3>4, <3>5, <3>6, <3>8
    <3>9. CASE g \notin Inner(s)
      BY <3>3, <3>4, <3>5, <3>7, <3>9
    <3> QED BY <3>8, <3>9
  <2>2. TellsBoth(KeptOf(s), GroupText, w, gs)
    BY <2>1 DEF Range, TellsBoth
  <2>3. Tells(GroupText, Groups, STRING)
    BY <1>2 DEF Tells
  <2>4. Tells(w, STRING, STRING)
    BY <1>3 DEF Tells
  <2>5. gs \in Seq(Groups)
    BY <1>2
  <2> HIDE DEF gs
  <2>6. Told(w, Told(GroupText, gs)) = Told(KeptOf(s), gs)
    BY <2>2, <2>3, <2>4, <2>5, ToldTold
  <2> QED BY <1>4, <2>6
<1>9. s.loose \o group_texts(s) \in Seq(STRING)
  BY <1>2, <1>5
<1>10. CASE gs = <<>>
  <2>1. Told(KeptOf(s), <<>>) = <<>> /\ s.loose \o <<>> = s.loose
    BY <1>2, ToldEmpty
  <2> QED BY <1>6, <1>7, <1>8, <1>9, <1>10, <2>1 DEF Kept
<1>11. CASE gs # <<>>
  <2>1. Told(KeptOf(s), gs) \in Seq(STRING)
    BY <1>1, <1>2, SectionShape, ToldTyped
  <2>2. <<>> \o Told(KeptOf(s), gs) = Told(KeptOf(s), gs)
    BY <2>1
  <2> QED BY <1>6, <1>7, <1>8, <1>9, <1>11, <2>2 DEF Kept
<1> QED BY <1>10, <1>11

\* The document of a ruling.
CaseOf(file) ==
  [doc_id |-> <<"case">>, article |-> "", text |-> _build_case_text(file), citation |-> <<"ECLI">>]

\* The chunks of a ruling are those of its sections.
LEMMA CaseChunked ==
  ASSUME IInv, Chunked, source_type = "case_law"
  PROVE  /\ raw \in Rulings /\ Apart(raw.sections) /\ \A s \in Range(raw.sections) : Nested(s)
         /\ documents = <<CaseOf(raw)>>
         /\ chunks = Joined(<<chunk_case_document(CaseOf(raw), raw)>>)
<1>1. stage = "chunked" /\ raw \in CaseFiles /\ documents = parsed(raw)
      /\ chunks = Joined(Mapped(LAMBDA doc : chunked(doc, raw), documents))
  BY DEF IInv, Chunked
<1>2. raw \in Rulings /\ Apart(raw.sections) /\ \A s \in Range(raw.sections) : Nested(s)
  BY <1>1, ChunkingAssumption
<1>3. documents = <<CaseOf(raw)>>
  BY <1>1 DEF parsed, CaseOf
<1>4. Mapped(LAMBDA doc : chunked(doc, raw), documents) = <<chunk_case_document(CaseOf(raw), raw)>>
  <2>1. chunked(CaseOf(raw), raw) = chunk_case_document(CaseOf(raw), raw)
    BY DEF chunked
  <2> DEFINE d == CaseOf(raw)
  <2> HIDE DEF d
  <2>2. Mapped(LAMBDA doc : chunked(doc, raw), <<d>>) = <<chunked(d, raw)>>
    BY DEF Mapped
  <2> QED BY <1>3, <2>1, <2>2 DEF d
<1> QED BY <1>1, <1>2, <1>3, <1>4

\* The text of a section, and that of all sections.
SectionText(s) == s.loose \o group_texts(s)
AllText(sections) == Joined(Mapped(LAMBDA s : s.loose \o group_texts(s), sections))

\* The text of the sections without what stands beside is what is kept of each of them.
LEMMA SectionsWithout ==
  ASSUME NEW sections \in Seq(Sections), Apart(sections)
  PROVE  /\ AllText(sections) \in Seq(STRING)
         /\ Without(AllText(sections), Beside(sections)) = Joined([i \in DOMAIN sections |-> Kept(sections[i])])
<1> DEFINE tt == [i \in DOMAIN sections |-> SectionText(sections[i])]
           w == Telling(STRING, Beside(sections))
<1>1. \A i \in DOMAIN sections : sections[i] \in Range(sections)
  BY DEF Range
<1>2. ASSUME NEW i \in DOMAIN sections
      PROVE  SectionText(sections[i]) \in Seq(STRING) /\ Told(w, SectionText(sections[i])) = Kept(sections[i])
  BY <1>1, SectionKept DEF SectionText
<1>3. tt \in Seq(Seq(STRING))
  <2>1. DOMAIN sections = 1..Len(sections) /\ Len(sections) \in Nat
    OBVIOUS
  <2>2. tt \in [1..Len(sections) -> Seq(STRING)]
    BY <1>2, <2>1
  <2> QED BY <2>1, <2>2, SeqDef
<1>4. AllText(sections) = Joined(tt)
  BY DEF AllText, Mapped, SectionText
<1>5. \A i \in DOMAIN sections : Told(w, tt[i]) = Kept(sections[i])
  BY <1>2
<1>6. DOMAIN tt = DOMAIN sections
  OBVIOUS
<1> HIDE DEF tt, w
<1>7. Joined(tt) \in Seq(STRING)
  BY <1>3, JoinedTyped
<1>8. w \in [STRING -> Seq(STRING)] /\ Without(Joined(tt), Beside(sections)) = Told(w, Joined(tt))
  <2> DEFINE u == Joined(tt)
             T == Beside(sections)
  <2>1. u \in Seq(STRING)
    BY <1>7
  <2> HIDE DEF u, T
  <2>2. Telling(STRING, T) \in [STRING -> Seq(STRING)] /\ Without(u, T) = Told(Telling(STRING, T), u)
    BY <2>1, WithoutTold
  <2> QED BY <2>2 DEF u, T, w
<1>9. Told(w, Joined(tt)) = Joined([i \in DOMAIN tt |-> Told(w, tt[i])])
  <2>1. \A u \in Seq(Seq(STRING)) : Told(w, Joined(u)) = Joined([i \in DOMAIN u |-> Told(w, u[i])])
    <3> DEFINE D == STRING
               E == STRING
    <3>1. w \in [D -> Seq(E)]
      BY <1>8
    <3> HIDE DEF D, E
    <3>2. \A u \in Seq(Seq(D)) : Told(w, Joined(u)) = Joined([i \in DOMAIN u |-> Told(w, u[i])])
      BY <3>1, ToldJoined
    <3> QED BY <3>2 DEF D
  <2> QED BY <1>3, <2>1
<1>10. [i \in DOMAIN tt |-> Told(w, tt[i])] = [i \in DOMAIN sections |-> Kept(sections[i])]
  BY <1>5, <1>6
<1> QED BY <1>4, <1>7, <1>8, <1>9, <1>10

\* The chunks of the sections hold what is kept of each of them.
LEMMA SectionsChunked ==
  ASSUME NEW sections \in Seq(Sections), \A s \in Range(sections) : Nested(s), NEW doc, IsSeq(doc.doc_id),
         NEW cs, cs = Joined([i \in DOMAIN sections |-> section_chunks(doc, sections[i], i)])
  PROVE  /\ IsSeq(cs) /\ \A c \in Range(cs) : IsPrefix(doc.doc_id, c.chunk_id)
         /\ Joined(Mapped(LAMBDA c : c.text, cs)) = Joined([i \in DOMAIN sections |-> Kept(sections[i])])
<1> DEFINE css == [i \in DOMAIN sections |-> section_chunks(doc, sections[i], i)]
           D == UNION {Range(css[i]) : i \in DOMAIN sections}
           m == [c \in D |-> c.text]
<1>1. ASSUME NEW i \in DOMAIN sections
      PROVE  /\ IsSeq(css[i])
             /\ \A c \in Range(css[i]) : c.text \in Seq(STRING) /\ IsPrefix(doc.doc_id, c.chunk_id)
             /\ Joined(Mapped(LAMBDA c : c.text, css[i])) = Kept(sections[i])
  <2> DEFINE section == sections[i]
             ks == section_chunks(doc, section, i)
  <2>1. section \in Sections /\ section \in Range(sections)
    BY DEF Range
  <2>2. Nested(section)
    BY <2>1
  <2> HIDE DEF section
  <2>3. /\ IsSeq(ks) /\ \A c \in Range(ks) : c.text \in Seq(STRING) /\ IsPrefix(doc.doc_id, c.chunk_id)
        /\ Joined(Mapped(LAMBDA c : c.text, ks)) = Kept(section)
    BY <2>1, <2>2, SectionChunks
  <2>4. css[i] = ks
    BY DEF section
  <2> HIDE DEF ks, css
  <2> QED BY <2>3, <2>4 DEF section
<1>2. DOMAIN css = DOMAIN sections /\ DOMAIN sections = 1..Len(sections) /\ Len(sections) \in Nat
      /\ css = [i \in DOMAIN css |-> css[i]]
  OBVIOUS
<1> HIDE DEF css
<1>3. \A i \in DOMAIN sections : css[i] \in Seq(D)
  <2> TAKE i \in DOMAIN sections
  <2>1. css[i] \in Seq(Range(css[i])) /\ Range(css[i]) \subseteq D
    BY <1>1 DEF IsSeq
  <2> HIDE DEF D
  <2> QED BY <2>1, SeqMonotonic
<1>4. css \in Seq(Seq(D))
  <2>1. css \in [1..Len(sections) -> Seq(D)]
    <3> HIDE DEF D
    <3> QED BY <1>2, <1>3
  <2> HIDE DEF D
  <2> QED BY <1>2, <2>1, SeqDef
<1>5. \A c \in D : c.text \in Seq(STRING) /\ IsPrefix(doc.doc_id, c.chunk_id)
  BY <1>1
<1>6. m \in [D -> Seq(STRING)] /\ \A c \in D : m[c] = c.text
  <2> HIDE DEF D
  <2> QED BY <1>5
<1> HIDE DEF D, m
<1>7. cs = Joined(css)
  BY DEF css
<1>8. cs \in Seq(D)
  BY <1>4, <1>7, JoinedTyped
<1>9. \A u \in Seq(D) : Told(m, u) = Joined(Mapped(LAMBDA c : c.text, u))
  <2> TAKE u \in Seq(D)
  <2>1. [i \in DOMAIN u |-> m[u[i]]] = [i \in DOMAIN u |-> u[i].text]
    BY <1>6
  <2> QED BY <2>1 DEF Told, Mapped
<1>10. Told(m, Joined(css)) = Joined([i \in DOMAIN css |-> Told(m, css[i])])
  <2>1. m \in [D -> Seq(STRING)]
    BY <1>6
  <2>2. \A u \in Seq(Seq(D)) : Told(m, Joined(u)) = Joined([i \in DOMAIN u |-> Told(m, u[i])])
    BY <2>1, ToldJoined
  <2> QED BY <1>4, <2>2
<1>11. [i \in DOMAIN css |-> Told(m, css[i])] = [i \in DOMAIN sections |-> Kept(sections[i])]
  <2>1. ASSUME NEW i \in DOMAIN sections PROVE Told(m, css[i]) = Kept(sections[i])
    <3>1. Told(m, css[i]) = Joined(Mapped(LAMBDA c : c.text, css[i]))
      BY <1>3, <1>9
    <3> QED BY <1>1, <3>1
  <2> QED BY <1>2, <2>1
<1>12. Joined(Mapped(LAMBDA c : c.text, cs)) = Told(m, cs)
  BY <1>8, <1>9
<1>13. IsSeq(cs) /\ Range(cs) \subseteq D
  BY <1>8, SeqIsSeq
<1> QED BY <1>5, <1>7, <1>10, <1>11, <1>12, <1>13

\* A ruling is told by its chunks whole, or without what stands beside; there is a chunk.
LEMMA CaseKept ==
  ASSUME NEW file \in Rulings, Apart(file.sections), \A s \in Range(file.sections) : Nested(s),
         NEW cs, cs = chunk_case_document(CaseOf(file), file)
  PROVE  /\ IsSeq(cs) /\ cs # <<>> /\ \A c \in Range(cs) : IsPrefix(<<"case">>, c.chunk_id)
         /\ \/ Joined(Mapped(LAMBDA c : c.text, cs)) = _build_case_text(file)
            \/ Joined(Mapped(LAMBDA c : c.text, cs))
               = Without(AllText(file.sections), Beside(file.sections))
<1> DEFINE doc == CaseOf(file)
           sections == file.sections
           found == Joined([i \in DOMAIN sections |-> section_chunks(doc, sections[i], i)])
<1>1. sections \in Seq(Sections) /\ file.summary \in Seq(STRING) /\ file.info \in Seq(STRING)
  BY DEF Rulings, Texts
<1>2. doc.doc_id = <<"case">> /\ doc.text = _build_case_text(file)
  BY DEF CaseOf
<1>3. cs = IF ~file.body \/ found = <<>> THEN whole_case(doc) ELSE found
  BY DEF chunk_case_document
<1>4. AllText(sections) \in Seq(STRING)
      /\ Without(AllText(sections), Beside(sections)) = Joined([i \in DOMAIN sections |-> Kept(sections[i])])
  <2> HIDE DEF sections
  <2> QED BY <1>1, SectionsWithout DEF sections
<1>5. _build_case_text(file) \in Seq(STRING)
  <2> DEFINE body == AllText(sections)
  <2>1. body \in Seq(STRING)
    BY <1>4
  <2>2. _build_case_text(file) = file.summary \o (IF file.body THEN file.info \o body ELSE <<>>)
    BY DEF _build_case_text, AllText
  <2> HIDE DEF body
  <2>3. file.info \o body \in Seq(STRING) /\ <<>> \in Seq(STRING)
    BY <1>1, <2>1
  <2>4. (IF file.body THEN file.info \o body ELSE <<>>) \in Seq(STRING)
    BY <2>3
  <2> QED BY <1>1, <2>2, <2>4
<1>6. IsSeq(doc.doc_id)
  BY <1>2, ShortSeqs
<1>7. CASE cs = found /\ found # <<>>
  <2> HIDE DEF doc, sections, found
  <2>1. /\ IsSeq(found) /\ \A c \in Range(found) : IsPrefix(doc.doc_id, c.chunk_id)
        /\ Joined(Mapped(LAMBDA c : c.text, found)) = Joined([i \in DOMAIN sections |-> Kept(sections[i])])
    <3>1. \A s \in Range(sections) : Nested(s)
      BY DEF sections
    <3> QED BY <1>1, <1>6, <3>1, SectionsChunked DEF found
  <2>2. Joined(Mapped(LAMBDA c : c.text, cs)) = Without(AllText(sections), Beside(sections))
    BY <1>4, <1>7, <2>1
  <2> QED BY <1>2, <1>7, <2>1, <2>2 DEF sections
<1>8. CASE cs = whole_case(doc)
  <2> DEFINE x == _build_case_text(file)
             c == record(doc.doc_id \o <<"section", "document", "body">>, doc.text, doc.citation)
  <2>1. cs = <<c>> /\ c.text = x /\ c.chunk_id = <<"case">> \o <<"section", "document", "body">>
    BY <1>2, <1>8 DEF whole_case, record
  <2> HIDE DEF x, c
  <2>2. Mapped(LAMBDA e : e.text, <<c>>) = <<x>>
    BY <2>1 DEF Mapped
  <2>3. Joined(<<x>>) = x
    BY <1>5, JoinedOne DEF x
  <2>4. IsSeq(cs) /\ Range(cs) = {c} /\ cs # <<>>
    BY <2>1, ShortSeqs
  <2>5. IsPrefix(<<"case">>, c.chunk_id)
    <3>1. IsSeq(<<"case">>)
      BY ShortSeqs
    <3>2. <<"section", "document", "body">> \in Seq({"section", "document", "body"})
      OBVIOUS
    <3>3. IsSeq(<<"section", "document", "body">>)
      BY <3>2, SeqIsSeq
    <3> QED BY <2>1, <3>1, <3>3, BeginsWith
  <2> QED BY <2>1, <2>2, <2>3, <2>4, <2>5 DEF x
<1> QED BY <1>3, <1>7, <1>8

\* A ruling loses no text in chunks but its summary and head note, and text beside the paragroups of
\* the section or paragroup that holds them; what is kept is kept once and in order.
THEOREM CaseKeepsText == Spec => []CaseTextKept
<1>1. IInv => CaseTextKept
  <2> SUFFICES ASSUME IInv, Chunked, source_type = "case_law" PROVE CaseTextKept
    BY DEF CaseTextKept
  <2> DEFINE cs == chunk_case_document(CaseOf(raw), raw)
  <2>1. raw \in Rulings /\ Apart(raw.sections) /\ (\A s \in Range(raw.sections) : Nested(s))
        /\ documents = <<CaseOf(raw)>> /\ chunks = Joined(<<cs>>)
    BY CaseChunked
  <2>2. /\ IsSeq(cs)
        /\ \/ Joined(Mapped(LAMBDA c : c.text, cs)) = _build_case_text(raw)
           \/ Joined(Mapped(LAMBDA c : c.text, cs)) = Without(AllText(raw.sections), Beside(raw.sections))
    BY <2>1, CaseKept
  <2> HIDE DEF cs
  <2>3. chunks = cs
    BY <2>1, <2>2, JoinedOne DEF IsSeq
  <2>4. documents[1].text = _build_case_text(raw)
    BY <2>1 DEF CaseOf
  <2> QED BY <2>2, <2>3, <2>4 DEF CaseTextKept, AllText, Beside, Inner
<1> QED BY <1>1, Inductive, PTL

-----------------------------------------------------------------------------
(* Every document.                                                         *)

\* The identifier of a chunk of a law begins with that of the document.
LEMMA LawIdBegins ==
  ASSUME NEW doc, IsSeq(doc.doc_id), NEW paragraph, NEW subparagraph
  PROVE  IsPrefix(doc.doc_id, build_law_chunk_id(doc, paragraph, subparagraph))
<1> DEFINE s == doc.doc_id
           a == IF paragraph = None THEN <<>> ELSE <<"paragraph", Slug[paragraph]>>
           b == IF subparagraph = None THEN <<>> ELSE <<"subparagraph", Slug[subparagraph]>>
           c == IF paragraph = None /\ subparagraph = None THEN <<"body">> ELSE <<>>
           D == ((Range(s) \cup Range(a)) \cup Range(b)) \cup Range(c)
<1>1. ASSUME NEW x, NEW y PROVE IsSeq(<<x, y>>)
  <2>1. <<x, y>> \in Seq({x, y})
    OBVIOUS
  <2> QED BY <2>1, SeqIsSeq
<1>2. IsSeq(s) /\ IsSeq(a) /\ IsSeq(b) /\ IsSeq(c)
  BY <1>1, ShortSeqs
<1>3. build_law_chunk_id(doc, paragraph, subparagraph) = ((s \o a) \o b) \o c
  BY DEF build_law_chunk_id
<1> HIDE DEF s, a, b, c
<1>4. s \in Seq(D) /\ a \in Seq(D) /\ b \in Seq(D) /\ c \in Seq(D)
  BY <1>2, SeqMonotonic DEF IsSeq
<1> HIDE DEF D
<1>5. ((s \o a) \o b) \o c = s \o (a \o (b \o c)) /\ a \o (b \o c) \in Seq(D)
  <2>1. s \o a \in Seq(D) /\ b \o c \in Seq(D)
    BY <1>4
  <2>2. ((s \o a) \o b) \o c = (s \o a) \o (b \o c)
    BY <1>4, <2>1, ConcatAssociative
  <2>3. (s \o a) \o (b \o c) = s \o (a \o (b \o c))
    BY <1>4, <2>1, ConcatAssociative
  <2> QED BY <1>4, <2>1, <2>2, <2>3
<1> DEFINE t == a \o (b \o c)
<1>6. IsSeq(t)
  BY <1>5, SeqIsSeq
<1> HIDE DEF t
<1>7. IsPrefix(s, s \o t)
  BY <1>2, <1>6, BeginsWith
<1> QED BY <1>3, <1>5, <1>7 DEF t, s

\* Every document of a law has a chunk whose identifier begins with its own.
LEMMA LawDocumentChunked ==
  ASSUME NEW doc, IsSeq(doc.doc_id), NEW file \in Seq(Articles)
  PROVE  \E c \in Range(chunk_law_document(doc, file)) : IsPrefix(doc.doc_id, c.chunk_id)
<1>1. IsSeq(chunk_law_document(doc, file))
  BY LawChunks
<1>2. chunk_law_document(doc, file) # <<>>
  <2>1. whole_article(doc) # <<>>
    <3>1. Range(whole_article(doc)) # {}
      BY ShortSeqs DEF whole_article
    <3> QED BY <3>1, ShortSeqs
  <2> QED BY <2>1 DEF chunk_law_document
<1>3. PICK c : c \in Range(chunk_law_document(doc, file))
  BY <1>1, <1>2, SeqDomain
<1>4. \E p, s : c.chunk_id = build_law_chunk_id(doc, p, s)
  <2>1. \A p, s, text, citation :
          record(build_law_chunk_id(doc, p, s), text, citation).chunk_id = build_law_chunk_id(doc, p, s)
    BY DEF record
  <2>2. CASE c = record(build_law_chunk_id(doc, None, None), doc.text, doc.citation)
    BY <2>1, <2>2
  <2>3. ASSUME NEW lid, c = LidChunk(doc, lid)
        PROVE  c.chunk_id = build_law_chunk_id(doc, NoneIfEmpty(lid.nr), None)
    BY <2>1, <2>3 DEF LidChunk
  <2>4. ASSUME NEW lid, NEW li, c = ItemChunk(doc, lid, li)
        PROVE  c.chunk_id = build_law_chunk_id(doc, lid.nr, NoneIfEmpty(li.nr))
    BY <2>1, <2>4 DEF ItemChunk
  <2> QED BY <1>3, <2>2, <2>3, <2>4, LawChunkForm
<1> QED BY <1>3, <1>4, LawIdBegins

\* No document is without a chunk whose identifier begins with its own.
LEMMA DocumentsChunked ==
  ASSUME IInv, Chunked, NEW d \in Range(documents)
  PROVE  \E c \in Range(chunks) : IsPrefix(d.doc_id, c.chunk_id)
<1>1. CASE source_type = "legislation"
  <2>1. /\ raw \in Seq(Articles) /\ \E file \in LawFiles : documents = parse_law_file(file)
        /\ \A c : c \in Range(chunks) <=> \E e \in Range(documents) : c \in Range(chunk_law_document(e, raw))
    BY <1>1, LawChunked
  <2>2. PICK a : d = law_document(a)
    <3>1. PICK file \in LawFiles : documents = parse_law_file(file)
      BY <2>1
    <3>2. file \in Seq(Articles)
      BY ChunkingAssumption
    <3>3. \A e : e \in Range(parse_law_file(file)) => \E a \in Range(file) : e = law_document(a)
      BY <3>2, ParsedLaw
    <3> QED BY <3>1, <3>3
  <2>3. IsSeq(d.doc_id)
    <3> DEFINE x == IF a.nr = "" THEN a.id ELSE a.nr
    <3>1. d.doc_id = <<"law", x>>
      BY <2>2 DEF law_document
    <3> HIDE DEF x
    <3>2. <<"law", x>> \in Seq({"law", x})
      OBVIOUS
    <3> QED BY <3>1, <3>2, SeqIsSeq
  <2> QED BY <2>1, <2>3, LawDocumentChunked
<1>2. CASE source_type = "case_law"
  <2> DEFINE cs == chunk_case_document(CaseOf(raw), raw)
  <2>1. raw \in Rulings /\ Apart(raw.sections) /\ (\A s \in Range(raw.sections) : Nested(s))
        /\ documents = <<CaseOf(raw)>> /\ chunks = Joined(<<cs>>)
    BY <1>2, CaseChunked
  <2>2. IsSeq(cs) /\ cs # <<>> /\ \A c \in Range(cs) : IsPrefix(<<"case">>, c.chunk_id)
    BY <2>1, CaseKept
  <2> HIDE DEF cs
  <2>3. chunks = cs /\ Range(cs) # {}
    BY <2>1, <2>2, JoinedOne, SeqDomain DEF IsSeq
  <2>4. d.doc_id = <<"case">>
    <3> DEFINE doc == CaseOf(raw)
    <3>1. doc.doc_id = <<"case">>
      BY DEF CaseOf
    <3>2. documents = <<doc>>
      BY <2>1
    <3> HIDE DEF doc
    <3>3. d = doc
      BY <3>2, ShortSeqs
    <3> QED BY <3>1, <3>3
  <2> QED BY <2>2, <2>3, <2>4
<1>3. CASE source_type = "internal_policy"
  <2> DEFINE cs == chunk_support_document(Policy(raw))
  <2>1. raw \in Seq(Lines) /\ NonBlank(raw) # {} /\ documents = <<Policy(raw)>> /\ chunks = Joined(<<cs>>)
    BY <1>3, PolicyChunked
  <2>2. IsSeq(cs) /\ cs # <<>> /\ \A c \in Range(cs) : IsPrefix(<<"policy">>, c.chunk_id)
    BY <2>1, PolicyKept
  <2> HIDE DEF cs
  <2>3. chunks = cs /\ Range(cs) # {}
    BY <2>1, <2>2, JoinedOne, SeqDomain DEF IsSeq
  <2>4. d.doc_id = <<"policy">>
    <3> DEFINE doc == Policy(raw)
    <3>1. doc.doc_id = <<"policy">>
      BY DEF Policy
    <3>2. documents = <<doc>>
      BY <2>1
    <3> HIDE DEF doc
    <3>3. d = doc
      BY <3>2, ShortSeqs
    <3> QED BY <3>1, <3>3
  <2> QED BY <2>2, <2>3, <2>4
<1> QED BY <1>1, <1>2, <1>3 DEF IInv

\* No text of a document is lost on the way to its chunks, but for what LawTextKept and
\* CaseTextKept name, and no document is without a chunk.
THEOREM TextIsAccountedFor == Spec => []TextAccountedFor
<1>1. IInv => \A d \in Range(documents) :
                Chunked => \E c \in Range(chunks) : IsPrefix(d.doc_id, c.chunk_id)
  BY DocumentsChunked
<1>2. IInv /\ LawTextKept /\ CaseTextKept /\ SupportTextKept => TextAccountedFor
  BY <1>1 DEF TextAccountedFor
<1> QED BY <1>2, Inductive, LawKeepsText, CaseKeepsText, PolicyKeepsText, PTL

=============================================================================
