------------------------- MODULE DocumentTextProofs -------------------------
(***************************************************************************)
(* Machine-checked proofs about the text of a document, for pages of any   *)
(* content, any number of pages and any vocabulary: what the passes over   *)
(* the entries keep, how the blocks relate, which words the removal of     *)
(* running matter may take, and that no pass over the lines loses a text.  *)
(***************************************************************************)
EXTENDS DocumentReader, FiniteSetTheorems, SequenceTheorems, WellFoundedInduction, TLAPS

-----------------------------------------------------------------------------
(* Induction over data, by the least counterexample. *)

\* A set of naturals that is not empty has a least element.
LEMMA Minimum ==
    ASSUME NEW T, T \subseteq Nat, T # {}
    PROVE  \E m \in T : \A k \in T : m <= k
<1> DEFINE R == OpToRel(<, Nat)
<1>1. IsWellFoundedOn(R, Nat)
  BY NatLessThanWellFounded, Zenon
<1>2. \A k, m \in Nat : k < m => <<k, m>> \in R
  BY DEF OpToRel
<1> HIDE DEF R
<1>3. PICK m \in T : \A k \in T : ~(<<k, m>> \in R)
  BY <1>1, WFMin
<1>4. ASSUME NEW k \in T PROVE m <= k
  <2>1. k \in Nat /\ m \in Nat /\ ~(k < m) BY <1>2, <1>3
  <2> QED BY <2>1
<1> QED BY <1>4

\* Numbers with a property that 0 has and that each hands to the next.
LEMMA Counting ==
    ASSUME NEW N \in Nat, NEW Good, 0 \in Good,
           \A n \in 1 .. N : n - 1 \in Good => n \in Good
    PROVE  N \in Good /\ \A n \in 0 .. N : n \in Good
<1> DEFINE Bad == (0 .. N) \ Good
<1>1. SUFFICES ASSUME Bad # {} PROVE FALSE
  <2>1. N \in 0 .. N OBVIOUS
  <2> QED BY <2>1
<1>2. PICK m \in Bad : \A k \in Bad : m <= k
  <2>1. Bad \subseteq Nat OBVIOUS
  <2> HIDE DEF Bad
  <2> QED BY <1>1, <2>1, Minimum
<1>3. m \in 1 .. N /\ m \notin Good
  BY <1>2
<1>4. m - 1 \in 0 .. N /\ m - 1 < m
  BY <1>3
<1>5. m - 1 \in Good
  BY <1>2, <1>4
<1> QED BY <1>3, <1>5

\* A function that is computed step by step is one: its equations have a solution.
LEMMA Recursion ==
    ASSUME NEW S, NEW base \in S, NEW N \in Nat, NEW G \in [1 .. N -> [S -> S]]
    PROVE  \E f : Solves(f, N, S, base, G)
<1> DEFINE Good == {m \in 0 .. N : \E f : Solves(f, m, S, base, G)}
<1>1. 0 \in Good
  <2>1. Solves([n \in 0 .. 0 |-> base], 0, S, base, G) BY DEF Solves
  <2> QED BY <2>1
<1>2. ASSUME NEW m \in 1 .. N, m - 1 \in Good PROVE m \in Good
  <2>1. PICK f : Solves(f, m - 1, S, base, G) BY <1>2
  <2> DEFINE g == [n \in 0 .. m |-> IF n = m THEN G[m][f[m - 1]] ELSE f[n]]
  <2>2. f[m - 1] \in S /\ G[m][f[m - 1]] \in S BY <2>1 DEF Solves
  <2>3. g \in [0 .. m -> S] /\ g[0] = base BY <2>1, <2>2 DEF Solves
  <2>4. ASSUME NEW n \in 1 .. m PROVE g[n] = G[n][g[n - 1]] BY <2>1 DEF Solves
  <2>5. Solves(g, m, S, base, G) BY <2>3, <2>4 DEF Solves
  <2> QED BY <2>5
<1> QED
  <2> HIDE DEF Good
  <2>1. N \in Good BY <1>1, <1>2, Counting
  <2> QED BY <2>1 DEF Good

-----------------------------------------------------------------------------
(* Sequences and what is in them. *)

LEMMA InSequence ==
    ASSUME NEW T, NEW s \in Seq(T)
    PROVE  /\ Len(s) \in Nat /\ DOMAIN s = 1 .. Len(s) /\ s \in [1 .. Len(s) -> T]
           /\ \A i \in 1 .. Len(s) : s[i] \in T
           /\ ToSet(s) \subseteq T
           /\ s \in Seq(ToSet(s))
<1>1. Len(s) \in Nat /\ DOMAIN s = 1 .. Len(s) /\ s \in [1 .. Len(s) -> T]
  BY LenProperties
<1>2. s \in [1 .. Len(s) -> ToSet(s)]
  BY <1>1 DEF ToSet
<1>3. s \in Seq(ToSet(s))
  BY <1>1, <1>2, SeqDef
<1> QED BY <1>1, <1>3 DEF ToSet

LEMMA Concatenated ==
    ASSUME NEW T, NEW s \in Seq(T), NEW t \in Seq(T)
    PROVE  /\ s \o t \in Seq(T)
           /\ ToSet(s \o t) = ToSet(s) \cup ToSet(t)
<1>1. /\ s \o t \in Seq(T) /\ Len(s \o t) = Len(s) + Len(t)
      /\ \A i \in 1 .. Len(s) + Len(t) : (s \o t)[i] =
                     IF i <= Len(s) THEN s[i] ELSE t[i - Len(s)]
  BY ConcatProperties
<1>2. /\ Len(s) \in Nat /\ DOMAIN s = 1 .. Len(s) /\ Len(t) \in Nat /\ DOMAIN t = 1 .. Len(t)
      /\ DOMAIN (s \o t) = 1 .. Len(s) + Len(t)
  BY <1>1, InSequence
<1>3. ToSet(s \o t) \subseteq ToSet(s) \cup ToSet(t)
  <2> SUFFICES ASSUME NEW x \in ToSet(s \o t) PROVE x \in ToSet(s) \cup ToSet(t) OBVIOUS
  <2>1. PICK i \in 1 .. Len(s) + Len(t) : x = (s \o t)[i] BY <1>2 DEF ToSet
  <2>2. CASE i <= Len(s) BY <1>1, <1>2, <2>1, <2>2 DEF ToSet
  <2>3. CASE i > Len(s)
    <3>1. i - Len(s) \in 1 .. Len(t) /\ x = t[i - Len(s)] BY <1>1, <1>2, <2>1, <2>3
    <3> QED BY <1>2, <3>1 DEF ToSet
  <2> QED BY <1>2, <2>2, <2>3
<1>4. ToSet(s) \subseteq ToSet(s \o t)
  <2> SUFFICES ASSUME NEW x \in ToSet(s) PROVE x \in ToSet(s \o t) OBVIOUS
  <2>1. PICK i \in 1 .. Len(s) : x = s[i] BY <1>2 DEF ToSet
  <2>2. i \in 1 .. Len(s) + Len(t) /\ x = (s \o t)[i] BY <1>1, <1>2, <2>1
  <2> QED BY <1>2, <2>2 DEF ToSet
<1>5. ToSet(t) \subseteq ToSet(s \o t)
  <2> SUFFICES ASSUME NEW x \in ToSet(t) PROVE x \in ToSet(s \o t) OBVIOUS
  <2>1. PICK i \in 1 .. Len(t) : x = t[i] BY <1>2 DEF ToSet
  <2>2. Len(s) + i \in 1 .. Len(s) + Len(t) /\ x = (s \o t)[Len(s) + i] BY <1>1, <1>2, <2>1
  <2> QED BY <1>2, <2>2 DEF ToSet
<1> QED BY <1>1, <1>3, <1>4, <1>5

LEMMA Added ==
    ASSUME NEW T, NEW s \in Seq(T), NEW x \in T
    PROVE  /\ Append(s, x) \in Seq(T)
           /\ ToSet(Append(s, x)) = ToSet(s) \cup {x}
<1>1. /\ Append(s, x) \in Seq(T)
      /\ Len(Append(s, x)) = Len(s) + 1
      /\ \A i \in 1 .. Len(s) : Append(s, x)[i] = s[i]
      /\ Append(s, x)[Len(s) + 1] = x
  BY AppendProperties
<1>2. /\ Len(s) \in Nat /\ DOMAIN s = 1 .. Len(s)
      /\ DOMAIN Append(s, x) = 1 .. Len(s) + 1
  BY <1>1, InSequence
<1> QED BY <1>1, <1>2 DEF ToSet

\* A part of a sequence.
LEMMA Part ==
    ASSUME NEW T, NEW s \in Seq(T), NEW a \in 1 .. Len(s) + 1, NEW b \in 0 .. Len(s)
    PROVE  /\ SubSeq(s, a, b) \in Seq(T)
           /\ ToSet(SubSeq(s, a, b)) = {s[i] : i \in a .. b}
           /\ Len(SubSeq(s, a, b)) = IF a <= b THEN b - a + 1 ELSE 0
           /\ \A i \in 1 .. b - a + 1 : SubSeq(s, a, b)[i] = s[a + i - 1]
<1>1. Len(s) \in Nat /\ DOMAIN s = 1 .. Len(s) /\ \A i \in 1 .. Len(s) : s[i] \in T
  BY InSequence
<1>2. SubSeq(s, a, b) = [i \in 1 .. b - a + 1 |-> s[a + i - 1]]
  BY <1>1
<1>3. \A i \in 1 .. b - a + 1 : a + i - 1 \in 1 .. Len(s) /\ s[a + i - 1] \in T
  BY <1>1
<1>4. SubSeq(s, a, b) \in Seq(T) /\ Len(SubSeq(s, a, b)) = IF a <= b THEN b - a + 1 ELSE 0
  BY <1>1, SubSeqProperties
<1>5. DOMAIN SubSeq(s, a, b) = 1 .. b - a + 1
  BY <1>2
<1>6. {s[i] : i \in a .. b} \subseteq ToSet(SubSeq(s, a, b))
  <2> SUFFICES ASSUME NEW i \in a .. b PROVE s[i] \in ToSet(SubSeq(s, a, b)) OBVIOUS
  <2>2. i - a + 1 \in 1 .. b - a + 1 /\ a + (i - a + 1) - 1 = i BY <1>1
  <2> QED BY <1>2, <1>5, <2>2 DEF ToSet
<1>7. ToSet(SubSeq(s, a, b)) \subseteq {s[i] : i \in a .. b}
  <2> SUFFICES ASSUME NEW x \in ToSet(SubSeq(s, a, b)) PROVE x \in {s[i] : i \in a .. b} OBVIOUS
  <2>1. PICK i \in 1 .. b - a + 1 : x = SubSeq(s, a, b)[i] BY <1>5 DEF ToSet
  <2>2. a + i - 1 \in a .. b /\ x = s[a + i - 1] BY <1>1, <1>2, <2>1
  <2> QED BY <2>2
<1> QED BY <1>2, <1>4, <1>6, <1>7

-----------------------------------------------------------------------------
(* What comes before what in a sequence. *)

LEMMA LeadsOnce ==
    ASSUME NEW T, NEW s \in Seq(T), Distinct(s), NEW m \in DOMAIN s, NEW n \in DOMAIN s,
           Leads(s, s[m], s[n])
    PROVE  m < n
BY DEF Leads, Distinct

\* What is in the first part comes before what is in the second.
LEMMA ConcatOrder ==
    ASSUME NEW T, NEW s \in Seq(T), NEW t \in Seq(T)
    PROVE  /\ \A x, y : Leads(s, x, y) \/ Leads(t, x, y) => Leads(s \o t, x, y)
           /\ \A x \in ToSet(s), y \in ToSet(t) : Leads(s \o t, x, y)
           /\ Distinct(s) /\ Distinct(t) /\ ToSet(s) \cap ToSet(t) = {} => Distinct(s \o t)
<1> DEFINE u == s \o t  L == Len(s)  M == Len(t)
<1>1. /\ u \in Seq(T) /\ Len(u) = L + M
      /\ \A i \in 1 .. L + M : u[i] = IF i <= L THEN s[i] ELSE t[i - L]
  BY ConcatProperties
<1>2. L \in Nat /\ DOMAIN s = 1 .. L /\ M \in Nat /\ DOMAIN t = 1 .. M /\ DOMAIN u = 1 .. L + M
  BY <1>1, InSequence
<1> HIDE DEF u, L, M
<1>3. \A i \in 1 .. L : i \in 1 .. L + M /\ u[i] = s[i]
  BY <1>1, <1>2
<1>4. \A i \in 1 .. M : L + i \in 1 .. L + M /\ u[L + i] = t[i]
  <2> SUFFICES ASSUME NEW i \in 1 .. M PROVE L + i \in 1 .. L + M /\ u[L + i] = t[i] OBVIOUS
  <2>1. L + i \in 1 .. L + M /\ ~(L + i <= L) /\ (L + i) - L = i BY <1>2
  <2> QED BY <1>1, <2>1
<1>5. ASSUME NEW x, NEW y, Leads(s, x, y) PROVE Leads(u, x, y)
  <2>1. PICK m \in 1 .. L, n \in 1 .. L : m < n /\ s[m] = x /\ s[n] = y BY <1>2, <1>5 DEF Leads
  <2>2. m \in DOMAIN u /\ n \in DOMAIN u /\ u[m] = x /\ u[n] = y BY <1>2, <1>3, <2>1
  <2> QED BY <2>1, <2>2 DEF Leads
<1>6. ASSUME NEW x, NEW y, Leads(t, x, y) PROVE Leads(u, x, y)
  <2>1. PICK m \in 1 .. M, n \in 1 .. M : m < n /\ t[m] = x /\ t[n] = y BY <1>2, <1>6 DEF Leads
  <2>2. L + m \in DOMAIN u /\ L + n \in DOMAIN u /\ u[L + m] = x /\ u[L + n] = y BY <1>2, <1>4, <2>1
  <2>3. L + m < L + n BY <1>2, <2>1
  <2> QED BY <2>2, <2>3 DEF Leads
<1>7. ASSUME NEW x \in ToSet(s), NEW y \in ToSet(t) PROVE Leads(u, x, y)
  <2>1. PICK m \in 1 .. L : s[m] = x BY <1>2 DEF ToSet
  <2>2. PICK n \in 1 .. M : t[n] = y BY <1>2 DEF ToSet
  <2>3. m \in DOMAIN u /\ L + n \in DOMAIN u /\ u[m] = x /\ u[L + n] = y
    BY <1>2, <1>3, <1>4, <2>1, <2>2
  <2>4. m < L + n BY <1>2
  <2> QED BY <2>3, <2>4 DEF Leads
<1>8. ASSUME Distinct(s), Distinct(t), ToSet(s) \cap ToSet(t) = {}, NEW m \in 1 .. L + M,
             NEW n \in 1 .. L + M, u[m] = u[n]
      PROVE  m = n
  <2>1. \A i \in 1 .. L, j \in 1 .. M : s[i] # t[j] BY <1>2, <1>8 DEF ToSet
  <2>2. \A i \in 1 .. L + M : i <= L \/ i - L \in 1 .. M BY <1>2
  <2>3. \A i \in 1 .. L + M : i <= L => i \in 1 .. L BY <1>2
  <2>4. m <= L <=> n <= L BY <1>1, <1>8, <2>1, <2>2, <2>3
  <2>5. CASE m <= L BY <1>1, <1>2, <1>8, <2>3, <2>4, <2>5 DEF Distinct
  <2>6. CASE ~(m <= L)
    <3>1. m - L \in 1 .. M /\ n - L \in 1 .. M /\ t[m - L] = t[n - L]
      BY <1>1, <1>8, <2>2, <2>4, <2>6
    <3>2. m - L = n - L BY <1>2, <1>8, <3>1 DEF Distinct
    <3> QED BY <1>2, <3>2
  <2> QED BY <2>5, <2>6
<1>9. Distinct(s) /\ Distinct(t) /\ ToSet(s) \cap ToSet(t) = {} => Distinct(u)
  BY <1>2, <1>8 DEF Distinct
<1> QED BY <1>5, <1>6, <1>7, <1>9 DEF u

LEMMA AppendOrder ==
    ASSUME NEW T, NEW s \in Seq(T), NEW z \in T
    PROVE  /\ \A x, y : Leads(s, x, y) => Leads(Append(s, z), x, y)
           /\ Distinct(s) /\ z \notin ToSet(s) => Distinct(Append(s, z))
<1>1. Append(s, z) = s \o <<z>> /\ <<z>> \in Seq(T)
  BY AppendIsConcat
<1>2. ToSet(<<z>>) = {z} /\ Distinct(<<z>>)
  BY DEF ToSet, Distinct
<1>3. z \notin ToSet(s) => ToSet(s) \cap {z} = {} OBVIOUS
<1> QED BY <1>1, <1>2, <1>3, ConcatOrder, Zenon

LEMMA Flattening ==
    ASSUME NEW T, NEW seqs \in Seq(Seq(T))
    PROVE  \E h : Joins(h, seqs, T)
<1> DEFINE N == Len(seqs)
           G == [n \in 1 .. N |-> [x \in Seq(T) |-> x \o seqs[n]]]
           Eq(f) == f = [i \in 1 .. N |-> IF i = 1 THEN seqs[i] ELSE f[i - 1] \o seqs[i]]
           F == CHOOSE f : Eq(f)
<1>1. N \in Nat /\ DOMAIN seqs = 1 .. N /\ \A n \in 1 .. N : seqs[n] \in Seq(T)
  BY InSequence
<1>2. CASE N = 0
  <2>1. seqs = <<>> /\ FlattenSeq(seqs) = seqs
    BY <1>2, Zenon, EmptySeq, LenProperties DEF FlattenSeq
  <2> DEFINE h == [n \in 0 .. 0 |-> <<>>]
  <2>2. h \in [0 .. 0 -> Seq(T)] /\ h[0] = <<>> OBVIOUS
  <2> HIDE DEF h
  <2>3. Joins(h, seqs, T) BY <1>2, <2>1, <2>2 DEF Joins
  <2> QED BY <2>3
<1>3. CASE N # 0
  <2>1. G \in [1 .. N -> [Seq(T) -> Seq(T)]] /\ <<>> \in Seq(T) BY <1>1, Concatenated
  <2>2. PICK g : Solves(g, N, Seq(T), <<>>, G)
    <3> HIDE DEF G, N
    <3> QED BY <1>1, <2>1, Recursion
  <2>3. g \in [0 .. N -> Seq(T)] /\ g[0] = <<>> BY <2>2 DEF Solves
  <2>4. ASSUME NEW n \in 1 .. N
        PROVE  g[n - 1] \in Seq(T) /\ seqs[n] \in Seq(T) /\ g[n] = g[n - 1] \o seqs[n]
    <3>1. n - 1 \in 0 .. N BY <1>1
    <3>2. g[n - 1] \in Seq(T) /\ seqs[n] \in Seq(T) BY <1>1, <2>3, <3>1
    <3>3. g[n] = G[n][g[n - 1]] BY <2>2 DEF Solves
    <3> QED BY <3>2, <3>3
  <2> HIDE DEF N
  <2> DEFINE f == [i \in 1 .. N |-> g[i]]
  <2>5. ASSUME NEW i \in 1 .. N
        PROVE  g[i] = IF i = 1 THEN seqs[i] ELSE f[i - 1] \o seqs[i]
    <3>1. CASE i = 1
      <4>1. g[1] = <<>> \o seqs[1] /\ seqs[1] \in Seq(T)
        <5>1. i - 1 = 0 BY <3>1
        <5> QED BY <2>3, <2>4, <3>1, <5>1
      <4> QED BY <3>1, <4>1
    <3>2. CASE i # 1
      <4>1. i - 1 \in 1 .. N BY <1>1, <3>2
      <4> QED BY <2>4, <3>2, <4>1
    <3> QED BY <3>1, <3>2
  <2>6. Eq(f) BY <2>5
  <2>7. Eq(F)
    <3> HIDE DEF Eq
    <3> QED BY <2>6, Zenon
  <2>8. FlattenSeq(seqs) = F[N] BY <1>3, Zenon DEF FlattenSeq, N
  <2>9. \A i \in 1 .. N : F[i] = IF i = 1 THEN seqs[i] ELSE F[i - 1] \o seqs[i]
    <3> HIDE DEF F
    <3> QED BY <2>7, Zenon
  <2> HIDE DEF F
  <2> DEFINE Good == {n \in 0 .. N : n > 0 => F[n] \in Seq(T)}
  <2>10. ASSUME NEW n \in 1 .. N, n - 1 \in Good PROVE n \in Good
    <3> SUFFICES F[n] \in Seq(T) OBVIOUS
    <3>1. CASE n = 1 BY <1>1, <2>9, <3>1
    <3>2. CASE n # 1
      <4>1. n - 1 > 0 /\ seqs[n] \in Seq(T) BY <1>1, <3>2
      <4>2. F[n - 1] \in Seq(T) BY <2>10, <4>1
      <4>3. F[n] = F[n - 1] \o seqs[n] BY <2>9, <3>2
      <4> QED BY <4>1, <4>2, <4>3, Concatenated
    <3> QED BY <3>1, <3>2
  <2>11. \A n \in 0 .. N : n \in Good
    <3>1. 0 \in Good BY <1>1
    <3> HIDE DEF Good
    <3> QED BY <1>1, <2>10, <3>1, Counting
  <2>12. \A n \in 1 .. N : F[n] \in Seq(T) BY <2>11
  <2> HIDE DEF Good
  <2> DEFINE h == [n \in 0 .. N |-> IF n = 0 THEN <<>> ELSE F[n]]
  <2>13. h \in [0 .. N -> Seq(T)] /\ h[0] = <<>> BY <1>1, <2>12
  <2>14. ASSUME NEW n \in 1 .. N PROVE seqs[n] \in Seq(T) /\ h[n] = h[n - 1] \o seqs[n]
    <3>1. seqs[n] \in Seq(T) /\ h[n] = F[n] BY <1>1
    <3>2. CASE n = 1
      <4>1. F[n] = seqs[n] /\ h[n - 1] = <<>> BY <2>9, <2>13, <3>2
      <4>2. <<>> \o seqs[n] = seqs[n] BY <3>1, ConcatEmptySeq
      <4> QED BY <3>1, <4>1, <4>2
    <3>3. CASE n # 1
      <4>1. n - 1 \in 1 .. N BY <1>1, <3>3
      <4>2. h[n - 1] = F[n - 1] BY <4>1
      <4> QED BY <2>9, <3>1, <3>3, <4>2
    <3> QED BY <3>2, <3>3
  <2>15. h[N] = FlattenSeq(seqs) BY <1>1, <1>3, <2>8
  <2> HIDE DEF h
  <2>16. Joins(h, seqs, T) BY <2>13, <2>14, <2>15 DEF Joins, N
  <2> QED BY <2>16
<1> QED BY <1>2, <1>3

\* What is in a sequence of sequences, and what comes before what in it.
LEMMA FlatOrder ==
    ASSUME NEW T, NEW seqs \in Seq(Seq(T))
    PROVE  /\ FlattenSeq(seqs) \in Seq(T)
           /\ ToSet(FlattenSeq(seqs)) = UNION {ToSet(seqs[k]) : k \in DOMAIN seqs}
           /\ \A k \in DOMAIN seqs : \A x, y : Leads(seqs[k], x, y) => Leads(FlattenSeq(seqs), x, y)
           /\ \A k, l \in DOMAIN seqs : k < l =>
                 \A x \in ToSet(seqs[k]), y \in ToSet(seqs[l]) : Leads(FlattenSeq(seqs), x, y)
           /\ (/\ \A k \in DOMAIN seqs : Distinct(seqs[k])
               /\ \A k, l \in DOMAIN seqs : k < l => ToSet(seqs[k]) \cap ToSet(seqs[l]) = {})
              => Distinct(FlattenSeq(seqs))
<1> DEFINE N == Len(seqs)
           Upto(n) == UNION {ToSet(seqs[k]) : k \in 1 .. n}
           Inner(n, s) == \A k \in 1 .. n : \A x, y : Leads(seqs[k], x, y) => Leads(s, x, y)
           Outer(n, s) == \A k, l \in 1 .. n : k < l =>
                             \A x \in ToSet(seqs[k]), y \in ToSet(seqs[l]) : Leads(s, x, y)
           Apart1 == /\ \A k \in 1 .. N : Distinct(seqs[k])
                     /\ \A k, l \in 1 .. N : k < l => ToSet(seqs[k]) \cap ToSet(seqs[l]) = {}
           Flat(n, s) == ToSet(s) = Upto(n) /\ Inner(n, s) /\ Outer(n, s) /\ (Apart1 => Distinct(s))
<1>1. N \in Nat /\ DOMAIN seqs = 1 .. N
  BY InSequence
<1>2. PICK h : Joins(h, seqs, T)
  BY Flattening
<1>3. /\ h \in [0 .. N -> Seq(T)] /\ h[0] = <<>> /\ h[N] = FlattenSeq(seqs)
      /\ \A n \in 1 .. N : seqs[n] \in Seq(T) /\ h[n] = h[n - 1] \o seqs[n]
  BY <1>2 DEF Joins
<1> HIDE DEF N
<1> DEFINE Good == {n \in 0 .. N : Flat(n, h[n])}
<1>4. 0 \in Good
  <2>1. 1 .. 0 = {} /\ ToSet(<<>>) = {} /\ Distinct(<<>>) BY DEF ToSet, Distinct
  <2>2. Upto(0) = {} BY <2>1
  <2>3. Flat(0, <<>>) BY <2>1, <2>2
  <2> HIDE DEF Flat
  <2> QED BY <1>1, <1>3, <2>3
<1>5. ASSUME NEW n \in 1 .. N, n - 1 \in Good PROVE n \in Good
  <2> DEFINE s == h[n - 1]  t == seqs[n]  u == h[n]
  <2>1. s \in Seq(T) /\ t \in Seq(T) /\ u = s \o t
    <3>1. n - 1 \in 0 .. N BY <1>1
    <3>2. h[n - 1] \in Seq(T) BY <1>3, <3>1
    <3> QED BY <1>3, <3>2
  <2>2. Flat(n - 1, s) BY <1>5
  <2> HIDE DEF s, u
  <2>3. /\ ToSet(u) = ToSet(s) \cup ToSet(t)
        /\ \A x, y : Leads(s, x, y) \/ Leads(t, x, y) => Leads(u, x, y)
        /\ \A x \in ToSet(s), y \in ToSet(t) : Leads(u, x, y)
        /\ Distinct(s) /\ Distinct(t) /\ ToSet(s) \cap ToSet(t) = {} => Distinct(u)
    <3> HIDE DEF t
    <3>1. ToSet(s \o t) = ToSet(s) \cup ToSet(t) BY <2>1, Concatenated
    <3>2. /\ \A x, y : Leads(s, x, y) \/ Leads(t, x, y) => Leads(s \o t, x, y)
          /\ \A x \in ToSet(s), y \in ToSet(t) : Leads(s \o t, x, y)
          /\ Distinct(s) /\ Distinct(t) /\ ToSet(s) \cap ToSet(t) = {} => Distinct(s \o t)
      BY <2>1, ConcatOrder
    <3> QED BY <2>1, <3>1, <3>2
  <2>4. \A k \in 1 .. n : k \in 1 .. n - 1 \/ k = n BY <1>1
  <2>5. \A k \in 1 .. n - 1 : k \in 1 .. n /\ k < n /\ k \in 1 .. N BY <1>1
  <2>6. Upto(n) = ToSet(u)
    <3>1. Upto(n) = Upto(n - 1) \cup ToSet(t) BY <2>4, <2>5
    <3> HIDE DEF Upto
    <3> QED BY <2>2, <2>3, <3>1
  <2>7. Inner(n, u) BY <2>2, <2>3, <2>4
  <2>8. Outer(n, u)
    <3> SUFFICES ASSUME NEW k \in 1 .. n, NEW l \in 1 .. n, k < l,
                        NEW x \in ToSet(seqs[k]), NEW y \in ToSet(seqs[l])
                 PROVE  Leads(u, x, y)
      OBVIOUS
    <3>1. k \in 1 .. n - 1 BY <1>1
    <3>2. CASE l \in 1 .. n - 1 BY <2>2, <2>3, <3>1, <3>2
    <3>3. CASE l = n
      <4>1. x \in ToSet(s) /\ y \in ToSet(t) BY <2>2, <3>1, <3>3
      <4> QED BY <2>3, <4>1
    <3> QED BY <2>4, <3>2, <3>3
  <2>9. ASSUME Apart1 PROVE Distinct(u)
    <3>1. Distinct(s) /\ Distinct(t) BY <2>2, <2>9
    <3>2. ToSet(s) \cap ToSet(t) = {} BY <2>2, <2>5, <2>9
    <3> QED BY <2>3, <3>1, <3>2
  <2> HIDE DEF Upto, Inner, Outer, Apart1
  <2> QED BY <1>1, <2>6, <2>7, <2>8, <2>9 DEF u
<1>6. N \in Good
  <2> HIDE DEF Good
  <2> QED BY <1>1, <1>4, <1>5, Counting
<1>7. Flat(N, FlattenSeq(seqs)) /\ FlattenSeq(seqs) \in Seq(T)
  <2>1. N \in 0 .. N BY <1>1
  <2> HIDE DEF Flat
  <2> QED BY <1>3, <1>6, <2>1
<1> QED BY <1>1, <1>7

LEMMA Flattened ==
    ASSUME NEW T, NEW seqs \in Seq(Seq(T))
    PROVE  /\ FlattenSeq(seqs) \in Seq(T)
           /\ ToSet(FlattenSeq(seqs)) = UNION {ToSet(seqs[k]) : k \in DOMAIN seqs}
BY FlatOrder

-----------------------------------------------------------------------------
(* A finite set in an order that tells all its elements apart. *)

\* Every element is there, and earlier elements precede later ones.
LEMMA EnumeratedAll ==
    ASSUME NEW S, IsFiniteSet(S), NEW R, Orders(R, S)
    PROVE  LET E == Enumerated(S, R)
           IN  /\ E \in Seq(S) /\ Len(E) = Cardinality(S) /\ Len(E) \in Nat
               /\ DOMAIN E = 1 .. Len(E) /\ ToSet(E) = S
               /\ \A n \in 1 .. Len(E) : E[n] \in S
               /\ \A i \in S : \E n \in 1 .. Len(E) : E[n] = i
               /\ \A m, n \in 1 .. Len(E) : m < n => <<E[m], E[n]>> \in R
               /\ \A m, n \in 1 .. Len(E) : E[m] = E[n] => m = n
<1> DEFINE N == Cardinality(S)
           Below(i) == {j \in S : <<j, i>> \in R}
           Rank == [i \in S |-> Cardinality(Below(i)) + 1]
           E == Enumerated(S, R)
<1>1. N \in Nat /\ \A i \in S : IsFiniteSet(Below(i)) /\ Cardinality(Below(i)) \in Nat
  BY FS_CardinalityType, FS_Subset
<1>2. ASSUME NEW i \in S, NEW j \in S, <<i, j>> \in R PROVE Rank[i] < Rank[j]
  <2>1. Below(i) \subseteq Below(j) /\ i \in Below(j) /\ i \notin Below(i) BY <1>2 DEF Orders
  <2>2. Cardinality(Below(i)) <= Cardinality(Below(j)) /\ Cardinality(Below(i)) # Cardinality(Below(j))
    <3>1. Below(i) \in SUBSET Below(j) /\ Below(i) # Below(j) BY <2>1
    <3> HIDE DEF Below
    <3> QED BY <1>1, <3>1, FS_Subset
  <2>3. Cardinality(Below(i)) < Cardinality(Below(j))
    <3> HIDE DEF Below
    <3> QED BY <1>1, <2>2
  <2> HIDE DEF Below
  <2> QED BY <1>1, <2>3
<1>3. ASSUME NEW i \in S PROVE Rank[i] \in 1 .. N
  <2>1. Below(i) \in SUBSET S /\ Below(i) # S BY DEF Orders
  <2>2. Cardinality(Below(i)) <= N /\ Cardinality(Below(i)) # N
    <3> HIDE DEF Below
    <3> QED BY <2>1, FS_Subset
  <2> QED BY <1>1, <2>2
<1>4. Rank \in [S -> 1 .. N]
  BY <1>3
<1>5. \A i, j \in S : Rank[i] = Rank[j] => i = j
  <2> SUFFICES ASSUME NEW i \in S, NEW j \in S, Rank[i] = Rank[j], i # j PROVE FALSE OBVIOUS
  <2>1. Rank[i] \in 1 .. N /\ Rank[j] \in 1 .. N BY <1>3
  <2>2. <<i, j>> \in R \/ <<j, i>> \in R BY DEF Orders
  <2>3. Rank[i] < Rank[j] \/ Rank[j] < Rank[i]
    <3> HIDE DEF Rank
    <3> QED BY <1>2, <2>2
  <2> HIDE DEF Rank
  <2> QED BY <2>1, <2>3
<1>6. \A n \in 1 .. N : \E i \in S : Rank[i] = n
  <2> HIDE DEF Rank, N
  <2>1. Rank \in Injection(S, 1 .. N) BY <1>4, <1>5 DEF Injection, IsInjective
  <2>2. IsFiniteSet(1 .. N) /\ Cardinality(1 .. N) = N BY <1>1, FS_Interval
  <2>3. Rank \in Surjection(S, 1 .. N) BY <2>1, <2>2, FS_Injection DEF N
  <2> QED BY <2>3 DEF Surjection
<1>7. ASSUME NEW n \in 1 .. N PROVE E[n] \in S /\ Rank[E[n]] = n
  <2>1. PICK i \in S : Rank[i] = n BY <1>6
  <2>2. Cardinality(Below(i)) = n - 1 BY <1>1, <2>1
  <2> DEFINE k == CHOOSE k \in S : Cardinality(Below(k)) = n - 1
  <2>3. E[n] = k BY DEF Enumerated
  <2>4. k \in S /\ Cardinality(Below(k)) = n - 1
    <3> HIDE DEF Below
    <3> QED BY <2>2
  <2> QED BY <1>1, <2>3, <2>4
<1>8. DOMAIN E = 1 .. N
  BY DEF Enumerated
<1>9. E \in Seq(S) /\ Len(E) = N
  <2> DEFINE Place(n) == CHOOSE i \in S : Cardinality(Below(i)) = n - 1
  <2>1. E = [n \in 1 .. N |-> Place(n)] BY DEF Enumerated
  <2> HIDE DEF E, Rank, Place
  <2>2. \A n \in 1 .. N : Place(n) \in S BY <1>7, <2>1
  <2> QED BY <1>1, <2>1, <2>2
<1> HIDE DEF E, Rank
<1>10. ASSUME NEW i \in S PROVE \E n \in 1 .. N : E[n] = i
  BY <1>3, <1>5, <1>7
<1>11. ASSUME NEW m \in 1 .. N, NEW n \in 1 .. N, E[m] = E[n] PROVE m = n
  BY <1>7, <1>11
<1>12. ASSUME NEW m \in 1 .. N, NEW n \in 1 .. N, m < n PROVE <<E[m], E[n]>> \in R
  <2>1. E[m] \in S /\ E[n] \in S /\ Rank[E[m]] = m /\ Rank[E[n]] = n BY <1>7
  <2>2. E[m] # E[n] /\ ~(Rank[E[n]] < Rank[E[m]]) BY <1>1, <1>12, <2>1
  <2> QED BY <1>2, <2>1, <2>2 DEF Orders
<1>13. ToSet(E) = S
  BY <1>7, <1>8, <1>10 DEF ToSet
<1> QED BY <1>1, <1>7, <1>8, <1>9, <1>10, <1>11, <1>12, <1>13 DEF E

\* What is enumerated comes once, and before what it precedes.
LEMMA EnumeratedOrder ==
    ASSUME NEW S, IsFiniteSet(S), NEW R, Orders(R, S)
    PROVE  /\ Distinct(Enumerated(S, R))
           /\ \A x, y \in S : <<x, y>> \in R => Leads(Enumerated(S, R), x, y)
<1> DEFINE E == Enumerated(S, R)
<1>1. /\ Len(E) \in Nat /\ DOMAIN E = 1 .. Len(E)
      /\ \A i \in S : \E n \in 1 .. Len(E) : E[n] = i
      /\ \A m, n \in 1 .. Len(E) : m < n => <<E[m], E[n]>> \in R
      /\ \A m, n \in 1 .. Len(E) : E[m] = E[n] => m = n
  BY EnumeratedAll, Zenon
<1> HIDE DEF E
<1>2. ASSUME NEW x \in S, NEW y \in S, <<x, y>> \in R PROVE Leads(E, x, y)
  <2>1. PICK m \in 1 .. Len(E) : E[m] = x BY <1>1
  <2>2. PICK n \in 1 .. Len(E) : E[n] = y BY <1>1
  <2>3. m # n BY <1>2, <2>1, <2>2 DEF Orders
  <2>4. ~(n < m)
    <3> SUFFICES ASSUME n < m PROVE FALSE OBVIOUS
    <3>1. <<y, x>> \in R BY <1>1, <2>1, <2>2
    <3> QED BY <1>2, <3>1 DEF Orders
  <2>5. m < n BY <1>1, <2>3, <2>4
  <2> QED BY <1>1, <2>1, <2>2, <2>5 DEF Leads
<1> QED BY <1>1, <1>2 DEF E, Distinct

\* A finite set of numbers in its order.
LEMMA AscendsOrders ==
    ASSUME NEW S, S \subseteq Int
    PROVE  Orders(Ascends(S), S)
<1>1. \A i, j \in S : <<i, j>> \in Ascends(S) <=> i < j
  BY DEF Ascends
<1> QED BY <1>1 DEF Orders

LEMMA InOrderAll ==
    ASSUME NEW S, IsFiniteSet(S), S \subseteq Int
    PROVE  LET E == InOrder(S)
           IN  /\ E \in Seq(S) /\ Len(E) = Cardinality(S) /\ Len(E) \in Nat
               /\ DOMAIN E = 1 .. Len(E) /\ ToSet(E) = S
               /\ \A n \in 1 .. Len(E) : E[n] \in S
               /\ \A i \in S : \E n \in 1 .. Len(E) : E[n] = i
               /\ \A m, n \in 1 .. Len(E) : m < n => E[m] < E[n]
               /\ \A m, n \in 1 .. Len(E) : E[m] = E[n] => m = n
<1> DEFINE E == InOrder(S)
<1>1. /\ E \in Seq(S) /\ Len(E) = Cardinality(S) /\ Len(E) \in Nat
      /\ DOMAIN E = 1 .. Len(E) /\ ToSet(E) = S
      /\ \A n \in 1 .. Len(E) : E[n] \in S
      /\ \A i \in S : \E n \in 1 .. Len(E) : E[n] = i
      /\ \A m, n \in 1 .. Len(E) : m < n => <<E[m], E[n]>> \in Ascends(S)
      /\ \A m, n \in 1 .. Len(E) : E[m] = E[n] => m = n
  <2> HIDE DEF E
  <2> QED BY AscendsOrders, EnumeratedAll, Zenon DEF E, InOrder
<1>2. \A i, j : <<i, j>> \in Ascends(S) => i < j
  BY DEF Ascends
<1>3. \A m, n \in 1 .. Len(E) : m < n => E[m] < E[n]
  <2> HIDE DEF E
  <2> QED BY <1>1, <1>2, Zenon
<1> QED BY <1>1, <1>3, Zenon

\* What is kept of a sequence.
LEMMA KeptPlaces ==
    ASSUME NEW T, NEW s \in Seq(T), NEW P \in SUBSET (DOMAIN s)
    PROVE  /\ Kept(s, P) \in Seq(T)
           /\ ToSet(Kept(s, P)) = {s[i] : i \in P}
           /\ \E order \in [DOMAIN Kept(s, P) -> P] :
                 /\ \A n \in DOMAIN Kept(s, P) : Kept(s, P)[n] = s[order[n]]
                 /\ \A m, n \in DOMAIN Kept(s, P) : order[m] = order[n] => m = n
                 /\ \A i \in P : \E n \in DOMAIN Kept(s, P) : order[n] = i
<1> DEFINE E == InOrder(P)
<1>1. Len(s) \in Nat /\ DOMAIN s = 1 .. Len(s) /\ \A i \in 1 .. Len(s) : s[i] \in T
  BY InSequence
<1>2. IsFiniteSet(P) /\ P \subseteq Int
  <2>1. IsFiniteSet(1 .. Len(s)) /\ P \in SUBSET (1 .. Len(s)) BY <1>1, FS_Interval
  <2> QED BY <1>1, <2>1, FS_Subset
<1>3. /\ E \in Seq(P) /\ Len(E) \in Nat
      /\ DOMAIN E = 1 .. Len(E)
      /\ \A n \in 1 .. Len(E) : E[n] \in P
      /\ \A i \in P : \E n \in 1 .. Len(E) : E[n] = i
      /\ \A m, n \in 1 .. Len(E) : E[m] = E[n] => m = n
  BY <1>2, InOrderAll
<1>4. Kept(s, P) = [n \in DOMAIN E |-> s[E[n]]]
  BY DEF Kept
<1> HIDE DEF E
<1>5. Kept(s, P) \in Seq(T) /\ DOMAIN Kept(s, P) = 1 .. Len(E)
  BY <1>1, <1>3, <1>4
<1>6. ToSet(Kept(s, P)) = {s[i] : i \in P}
  <2>1. \A n \in 1 .. Len(E) : Kept(s, P)[n] = s[E[n]] /\ E[n] \in P BY <1>3, <1>4
  <2>2. ASSUME NEW x \in ToSet(Kept(s, P)) PROVE \E i \in P : x = s[i]
    <3>1. PICK n \in 1 .. Len(E) : x = Kept(s, P)[n] BY <1>5, Zenon DEF ToSet
    <3> QED BY <2>1, <3>1, Zenon
  <2>3. ASSUME NEW i \in P PROVE s[i] \in ToSet(Kept(s, P))
    <3>1. PICK n \in 1 .. Len(E) : E[n] = i BY <1>3
    <3> QED BY <1>5, <2>1, <3>1, Zenon DEF ToSet
  <2> QED BY <2>2, <2>3
<1>7. E \in [DOMAIN Kept(s, P) -> P]
  BY <1>3, <1>5, LenProperties
<1> QED BY <1>3, <1>4, <1>5, <1>6, <1>7, ZenonT(60)

LEMMA KeptPicked ==
    ASSUME NEW T, NEW s \in Seq(T), NEW P \in SUBSET (DOMAIN s)
    PROVE  Kept(s, P) \in Seq(T) /\ Picked(Kept(s, P), s, P)
BY KeptPlaces DEF Picked

-----------------------------------------------------------------------------
(* What a line says and where it can be read. *)

LEMMA WordsOfLine ==
    ASSUME NEW line \in Seq(Tokens)
    PROVE  /\ Words(line) \in Seq(STRING) /\ Len(Words(line)) = Len(line)
           /\ DOMAIN Words(line) = 1 .. Len(line)
           /\ \A k \in 1 .. Len(line) : Words(line)[k] = line[k].word
<1>1. Len(line) \in Nat /\ DOMAIN line = 1 .. Len(line) /\ \A i \in 1 .. Len(line) : line[i] \in Tokens
  BY InSequence
<1>2. \A i \in 1 .. Len(line) : line[i].word \in STRING
  BY <1>1 DEF Tokens
<1>3. Words(line) = [i \in 1 .. Len(line) |-> line[i].word]
  BY <1>1 DEF Words
<1> QED BY <1>1, <1>2, <1>3

\* A line can be read in any line that says the same.
LEMMA SameIsRead ==
    ASSUME NEW line \in Seq(Tokens), NEW other \in Seq(Tokens), Words(line) = Words(other)
    PROVE  Reads(Words(line), other)
<1>1. /\ Len(other) \in Nat /\ Len(Words(line)) = Len(other) /\ DOMAIN Words(line) = 1 .. Len(other)
      /\ \A k \in 1 .. Len(other) : Words(line)[k] = other[k].word
  BY WordsOfLine, InSequence
<1>2. Follows(Words(line), other, 0)
  BY <1>1 DEF Follows
<1> QED BY <1>1, <1>2 DEF Reads

\* What can be read in a line can be read where the line can.
LEMMA ReadThrough ==
    ASSUME NEW ws \in Seq(STRING), NEW line \in Seq(Tokens), NEW other \in Seq(Tokens),
           Reads(ws, line), Reads(Words(line), other)
    PROVE  Reads(ws, other)
<1>1. /\ Len(ws) \in Nat /\ DOMAIN ws = 1 .. Len(ws) /\ Len(line) \in Nat /\ Len(other) \in Nat
      /\ Len(Words(line)) = Len(line) /\ DOMAIN Words(line) = 1 .. Len(line)
      /\ \A k \in 1 .. Len(line) : Words(line)[k] = line[k].word
  BY WordsOfLine, InSequence
<1>2. PICK n \in 0 .. Len(line) : Follows(ws, line, n)
  BY DEF Reads
<1>3. PICK m \in 0 .. Len(other) : Follows(Words(line), other, m)
  BY DEF Reads
<1>4. n + Len(ws) <= Len(line) /\ m + Len(line) <= Len(other)
  BY <1>1, <1>2, <1>3 DEF Follows
<1>5. ASSUME NEW k \in 1 .. Len(ws) PROVE other[(m + n) + k].word = ws[k]
  <2>1. n + k \in 1 .. Len(line) /\ line[n + k].word = ws[k] BY <1>1, <1>2, <1>4 DEF Follows
  <2>2. other[m + (n + k)].word = line[n + k].word BY <1>1, <1>3, <2>1 DEF Follows
  <2>3. m + (n + k) = (m + n) + k BY <1>1
  <2> QED BY <2>1, <2>2, <2>3
<1>6. m + n \in 0 .. Len(other) /\ (m + n) + Len(ws) <= Len(other)
  BY <1>1, <1>4
<1>7. Follows(ws, other, m + n)
  BY <1>1, <1>5, <1>6 DEF Follows
<1> QED BY <1>6, <1>7 DEF Reads

\* Two lines that are put together can be read in the result.
LEMMA ReadTogether ==
    ASSUME NEW a \in Seq(Tokens), NEW b \in Seq(Tokens)
    PROVE  /\ a \o b \in Seq(Tokens)
           /\ Reads(Words(a), a \o b) /\ Reads(Words(b), a \o b)
<1>1. /\ a \o b \in Seq(Tokens) /\ Len(a \o b) = Len(a) + Len(b)
      /\ \A i \in 1 .. Len(a) + Len(b) : (a \o b)[i] = IF i <= Len(a) THEN a[i] ELSE b[i - Len(a)]
  BY ConcatProperties
<1>2. /\ Len(a) \in Nat /\ Len(b) \in Nat
      /\ Len(Words(a)) = Len(a) /\ DOMAIN Words(a) = 1 .. Len(a)
      /\ Len(Words(b)) = Len(b) /\ DOMAIN Words(b) = 1 .. Len(b)
      /\ \A k \in 1 .. Len(a) : Words(a)[k] = a[k].word
      /\ \A k \in 1 .. Len(b) : Words(b)[k] = b[k].word
  BY WordsOfLine, InSequence
<1>3. Follows(Words(a), a \o b, 0)
  BY <1>1, <1>2 DEF Follows
<1>4. Follows(Words(b), a \o b, Len(a))
  <2>1. ASSUME NEW k \in 1 .. Len(b) PROVE (a \o b)[Len(a) + k].word = Words(b)[k]
    <3>1. Len(a) + k \in 1 .. Len(a) + Len(b) /\ ~(Len(a) + k <= Len(a)) /\ Len(a) + k - Len(a) = k
      BY <1>2
    <3> QED BY <1>1, <1>2, <3>1
  <2> QED BY <1>1, <1>2, <2>1 DEF Follows
<1> QED BY <1>1, <1>2, <1>3, <1>4 DEF Reads

-----------------------------------------------------------------------------
(* Entries that carry the lines of others. *)

LEMMA ProperEntry ==
    ASSUME NEW es \in Seq(Entries), NEW e \in ToSet(es)
    PROVE  /\ e \in Entries /\ e.lines \in Seq(Seq(Tokens))
           /\ \A line \in ToSet(e.lines) : line \in Seq(Tokens)
<1>1. e \in Entries
  BY InSequence
<1>2. e.lines \in Seq(Seq(Tokens))
  BY <1>1 DEF Entries, TokenLines
<1> QED BY <1>1, <1>2, InSequence

\* A text entry's line.
LEMMA TextLine ==
    ASSUME NEW home, NEW es, Proper(es, home), NEW e \in ToSet(es), IsText(e)
    PROVE  e \in Entries /\ e.lines[1] \in Seq(Tokens) /\ ToSet(e.lines) = {e.lines[1]}
<1>1. e \in Entries /\ e.lines \in Seq(Seq(Tokens)) /\ Len(e.lines) = 1
  BY ProperEntry DEF Proper, Fine
<1>2. DOMAIN e.lines = {1} /\ e.lines[1] \in Seq(Tokens)
  <2> DEFINE ls == e.lines
  <2>1. ls \in Seq(Seq(Tokens)) /\ Len(ls) = 1 BY <1>1
  <2> HIDE DEF ls
  <2>2. DOMAIN ls = 1 .. 1 /\ \A i \in 1 .. 1 : ls[i] \in Seq(Tokens) BY <2>1, InSequence, Zenon
  <2>3. 1 .. 1 = {1} OBVIOUS
  <2> QED BY <2>2, <2>3 DEF ls
<1> QED BY <1>1, <1>2 DEF ToSet

\* Entries that are all there carry their lines.
LEMMA ThereIsCarried ==
    ASSUME NEW es \in Seq(Entries), NEW fs, ToSet(es) \subseteq ToSet(fs)
    PROVE  Carried(es, fs)
<1> SUFFICES ASSUME NEW e \in ToSet(es), NEW line \in ToSet(e.lines) PROVE StillRead(line, fs)
  BY DEF Carried
<1>1. line \in Seq(Tokens)
  BY ProperEntry
<1>2. Reads(Words(line), line)
  BY <1>1, SameIsRead
<1> QED BY <1>2 DEF StillRead

LEMMA CarriedOn ==
    ASSUME NEW es \in Seq(Entries), NEW fs \in Seq(Entries), NEW gs \in Seq(Entries),
           Carried(es, fs), Carried(fs, gs)
    PROVE  Carried(es, gs)
<1> SUFFICES ASSUME NEW e \in ToSet(es), NEW line \in ToSet(e.lines) PROVE StillRead(line, gs)
  BY DEF Carried
<1>1. PICK f \in ToSet(fs) : \E l \in ToSet(f.lines) : Reads(Words(line), l)
  BY DEF Carried, StillRead
<1>2. PICK l \in ToSet(f.lines) : Reads(Words(line), l)
  BY <1>1
<1>3. PICK g \in ToSet(gs) : \E m \in ToSet(g.lines) : Reads(Words(l), m)
  BY DEF Carried, StillRead
<1>4. PICK m \in ToSet(g.lines) : Reads(Words(l), m)
  BY <1>3
<1>5. line \in Seq(Tokens) /\ l \in Seq(Tokens) /\ m \in Seq(Tokens)
  BY ProperEntry
<1>6. Words(line) \in Seq(STRING)
  BY <1>5, WordsOfLine
<1>7. Reads(Words(line), m)
  BY <1>2, <1>4, <1>5, <1>6, ReadThrough
<1> QED BY <1>7 DEF StillRead

-----------------------------------------------------------------------------
(* orderPageEntries. *)

LEMMA EntryFields ==
    ASSUME NEW es \in Seq(Entries), NEW i \in DOMAIN es
    PROVE  /\ es[i] \in Entries /\ es[i] \in ToSet(es)
           /\ es[i].y \in Int /\ es[i].h \in Nat /\ es[i].level \in 0 .. 6
           /\ es[i].lines \in Seq(Seq(Tokens))
<1>1. es[i] \in Entries
  BY InSequence
<1> QED BY <1>1 DEF Entries, ToSet, TokenLines

LEMMA SortedByHeight ==
    ASSUME NEW es \in Seq(Entries), NEW P \in SUBSET (DOMAIN es)
    PROVE  /\ Sorted(es, P, ByHeight) \in Seq(P) /\ ToSet(Sorted(es, P, ByHeight)) = P
           /\ Distinct(Sorted(es, P, ByHeight))
           /\ \A i, j \in P : ByHeight(es[i], es[j]) => Leads(Sorted(es, P, ByHeight), i, j)
<1> DEFINE R == Precedence(es, P, ByHeight)
<1>1. \A i \in P : es[i].y \in Int /\ Across(es[i].col) \in {0, 1}
  BY EntryFields DEF Across
<1>2. \A i, j \in P : <<i, j>> \in R <=>
          ByHeight(es[i], es[j]) \/ (~ByHeight(es[j], es[i]) /\ i < j)
  BY DEF Precedence
<1>3. \A i, j \in P : ByHeight(es[i], es[j]) <=>
          \/ es[i].y < es[j].y
          \/ es[i].y = es[j].y /\ Across(es[i].col) < Across(es[j].col)
  BY DEF ByHeight
<1>4. IsFiniteSet(P) /\ P \subseteq Int
  <2>1. DOMAIN es = 1 .. Len(es) /\ Len(es) \in Nat BY InSequence
  <2>2. P \in SUBSET (1 .. Len(es)) /\ IsFiniteSet(1 .. Len(es)) BY <2>1, FS_Interval
  <2> QED BY <2>1, <2>2, FS_Subset
<1>5. Orders(R, P)
  <2> DEFINE y(i) == es[i].y
             side(i) == Across(es[i].col)
  <2>1. \A i \in P : y(i) \in Int /\ side(i) \in {0, 1} /\ i \in Int BY <1>1, <1>4
  <2>2. \A i, j \in P : <<i, j>> \in R <=>
          \/ y(i) < y(j)
          \/ y(i) = y(j) /\ side(i) < side(j)
          \/ y(i) = y(j) /\ side(i) = side(j) /\ i < j
    <3> SUFFICES ASSUME NEW i \in P, NEW j \in P
                 PROVE  <<i, j>> \in R <=>
                          \/ y(i) < y(j)
                          \/ y(i) = y(j) /\ side(i) < side(j)
                          \/ y(i) = y(j) /\ side(i) = side(j) /\ i < j
      BY Zenon
    <3>1. <<i, j>> \in R <=> ByHeight(es[i], es[j]) \/ (~ByHeight(es[j], es[i]) /\ i < j) BY <1>2
    <3>2. ByHeight(es[i], es[j]) <=> y(i) < y(j) \/ (y(i) = y(j) /\ side(i) < side(j)) BY <1>3
    <3>3. ByHeight(es[j], es[i]) <=> y(j) < y(i) \/ (y(j) = y(i) /\ side(j) < side(i)) BY <1>3
    <3> HIDE DEF R, y, side
    <3> QED BY <2>1, <3>1, <3>2, <3>3
  <2> HIDE DEF R, y, side
  <2>3. \A i \in P : <<i, i>> \notin R BY <2>1, <2>2
  <2>4. \A i, j \in P : i # j => <<i, j>> \in R \/ <<j, i>> \in R BY <2>1, <2>2
  <2>5. \A i, j, k \in P : <<i, j>> \in R /\ <<j, k>> \in R => <<i, k>> \in R BY <2>1, <2>2
  <2> QED BY <2>3, <2>4, <2>5 DEF Orders
<1>6. Sorted(es, P, ByHeight) = Enumerated(P, R)
  BY DEF Sorted
<1>7. \A i, j \in P : ByHeight(es[i], es[j]) => <<i, j>> \in R
  BY <1>2
<1> HIDE DEF R
<1>8. /\ Enumerated(P, R) \in Seq(P) /\ ToSet(Enumerated(P, R)) = P
      /\ Distinct(Enumerated(P, R))
      /\ \A i, j \in P : <<i, j>> \in R => Leads(Enumerated(P, R), i, j)
  BY <1>4, <1>5, EnumeratedAll, EnumeratedOrder
<1> QED BY <1>6, <1>7, <1>8

LEMMA SortedByColumn ==
    ASSUME NEW es \in Seq(Entries), NEW P \in SUBSET (DOMAIN es)
    PROVE  /\ Sorted(es, P, ByColumn) \in Seq(P) /\ ToSet(Sorted(es, P, ByColumn)) = P
           /\ Distinct(Sorted(es, P, ByColumn))
           /\ \A i, j \in P : ByColumn(es[i], es[j]) => Leads(Sorted(es, P, ByColumn), i, j)
<1> DEFINE R == Precedence(es, P, ByColumn)
<1>1. \A i \in P : es[i].y \in Int /\ Across(es[i].col) \in {0, 1}
  BY EntryFields DEF Across
<1>2. \A i, j \in P : <<i, j>> \in R <=>
          ByColumn(es[i], es[j]) \/ (~ByColumn(es[j], es[i]) /\ i < j)
  BY DEF Precedence
<1>3. \A i, j \in P : ByColumn(es[i], es[j]) <=>
          \/ Across(es[i].col) < Across(es[j].col)
          \/ Across(es[i].col) = Across(es[j].col) /\ es[i].y < es[j].y
  BY DEF ByColumn
<1>4. IsFiniteSet(P) /\ P \subseteq Int
  <2>1. DOMAIN es = 1 .. Len(es) /\ Len(es) \in Nat BY InSequence
  <2>2. P \in SUBSET (1 .. Len(es)) /\ IsFiniteSet(1 .. Len(es)) BY <2>1, FS_Interval
  <2> QED BY <2>1, <2>2, FS_Subset
<1>5. Orders(R, P)
  <2> DEFINE y(i) == es[i].y
             side(i) == Across(es[i].col)
  <2>1. \A i \in P : y(i) \in Int /\ side(i) \in {0, 1} /\ i \in Int BY <1>1, <1>4
  <2>2. \A i, j \in P : <<i, j>> \in R <=>
          \/ side(i) < side(j)
          \/ side(i) = side(j) /\ y(i) < y(j)
          \/ side(i) = side(j) /\ y(i) = y(j) /\ i < j
    <3> SUFFICES ASSUME NEW i \in P, NEW j \in P
                 PROVE  <<i, j>> \in R <=>
                          \/ side(i) < side(j)
                          \/ side(i) = side(j) /\ y(i) < y(j)
                          \/ side(i) = side(j) /\ y(i) = y(j) /\ i < j
      BY Zenon
    <3>1. <<i, j>> \in R <=> ByColumn(es[i], es[j]) \/ (~ByColumn(es[j], es[i]) /\ i < j) BY <1>2
    <3>2. ByColumn(es[i], es[j]) <=> side(i) < side(j) \/ (side(i) = side(j) /\ y(i) < y(j)) BY <1>3
    <3>3. ByColumn(es[j], es[i]) <=> side(j) < side(i) \/ (side(j) = side(i) /\ y(j) < y(i)) BY <1>3
    <3> HIDE DEF R, y, side
    <3> QED BY <2>1, <3>1, <3>2, <3>3
  <2> HIDE DEF R, y, side
  <2>3. \A i \in P : <<i, i>> \notin R BY <2>1, <2>2
  <2>4. \A i, j \in P : i # j => <<i, j>> \in R \/ <<j, i>> \in R BY <2>1, <2>2
  <2>5. \A i, j, k \in P : <<i, j>> \in R /\ <<j, k>> \in R => <<i, k>> \in R BY <2>1, <2>2
  <2> QED BY <2>3, <2>4, <2>5 DEF Orders
<1>6. Sorted(es, P, ByColumn) = Enumerated(P, R)
  BY DEF Sorted
<1>7. \A i, j \in P : ByColumn(es[i], es[j]) => <<i, j>> \in R
  BY <1>2
<1> HIDE DEF R
<1>8. /\ Enumerated(P, R) \in Seq(P) /\ ToSet(Enumerated(P, R)) = P
      /\ Distinct(Enumerated(P, R))
      /\ \A i, j \in P : <<i, j>> \in R => Leads(Enumerated(P, R), i, j)
  BY <1>4, <1>5, EnumeratedAll, EnumeratedOrder
<1> QED BY <1>6, <1>7, <1>8

LEMMA Places ==
    ASSUME NEW S, NEW P \in SUBSET S, NEW s \in Seq(P)
    PROVE  s \in Seq(S)
BY SeqMonotonic

-----------------------------------------------------------------------------
(* The order of a page: wide entries, what stands between them, and the rest. *)

LEMMA GeometryParts ==
    ASSUME NEW es
    PROVE  OrderedByGeometry(es) = Body(es) \o Pictures(es)
<1>1. \A s : Range(s) = ToSet(s)
  BY DEF Range, ToSet
<1>2. Anchors(es) = Sorted(es, {i \in Content(es) : es[i].col = "wide"}, ByHeight)
  BY DEF Anchors, WideEntries
<1> QED BY <1>1, <1>2 DEF OrderedByGeometry, Body, Pictures, Beside, Banded, Bands, Above, Content

\* The wide entries, from the top of the page to its bottom.
LEMMA AnchorsAscend ==
    ASSUME NEW es \in Seq(Entries)
    PROVE  LET A == Anchors(es)
           IN  /\ A \in Seq(DOMAIN es) /\ Len(A) \in Nat /\ DOMAIN A = 1 .. Len(A)
               /\ ToSet(A) = WideEntries(es) /\ Distinct(A)
               /\ \A k \in 1 .. Len(A) : A[k] \in WideEntries(es)
               /\ \A w \in WideEntries(es) : \E k \in 1 .. Len(A) : A[k] = w
               /\ \A k, l \in 1 .. Len(A) : k <= l => es[A[k]].y <= es[A[l]].y
<1> DEFINE A == Anchors(es)  W == WideEntries(es)
<1>1. W \in SUBSET (DOMAIN es)
  BY DEF WideEntries, Content
<1>2. A = Sorted(es, W, ByHeight)
  BY DEF Anchors
<1> HIDE DEF A, W
<1>3. /\ A \in Seq(W) /\ ToSet(A) = W /\ Distinct(A)
      /\ \A i, j \in W : ByHeight(es[i], es[j]) => Leads(A, i, j)
  BY <1>1, <1>2, SortedByHeight
<1>4. /\ Len(A) \in Nat /\ DOMAIN A = 1 .. Len(A) /\ A \in Seq(DOMAIN es)
      /\ \A k \in 1 .. Len(A) : A[k] \in W
  BY <1>1, <1>3, InSequence, Places
<1>5. \A w \in W : \E k \in 1 .. Len(A) : A[k] = w
  BY <1>3, <1>4 DEF ToSet
<1>6. \A i \in W : es[i].y \in Int
  BY <1>1, EntryFields
<1>7. ASSUME NEW k \in 1 .. Len(A), NEW l \in 1 .. Len(A), k <= l, ~(es[A[k]].y <= es[A[l]].y)
      PROVE  FALSE
  <2>1. es[A[l]].y < es[A[k]].y BY <1>4, <1>6, <1>7
  <2>2. Leads(A, A[l], A[k]) BY <1>3, <1>4, <2>1 DEF ByHeight
  <2>3. l < k BY <1>3, <1>4, <2>2, LeadsOnce
  <2> QED BY <1>4, <1>7, <2>3
<1> QED BY <1>3, <1>4, <1>5, <1>7 DEF A, W

\* What stands above one wide entry and below the one before is above no other.
LEMMA AboveApart ==
    ASSUME NEW es \in Seq(Entries), NEW k \in DOMAIN Anchors(es)
    PROVE  /\ Above(es, k) \in SUBSET (DOMAIN es)
           /\ Above(es, k) \subseteq Content(es) \cap Narrow(es)
           /\ \A l \in DOMAIN Anchors(es) : k < l => Above(es, k) \cap Above(es, l) = {}
<1>1. Above(es, k) \in SUBSET (DOMAIN es) /\ Above(es, k) \subseteq Content(es) \cap Narrow(es)
  BY DEF Above, Content
<1>2. ASSUME NEW l \in DOMAIN Anchors(es), k < l, NEW i \in Above(es, k), i \in Above(es, l)
      PROVE  FALSE
  <2> DEFINE A == Anchors(es)
  <2>1. /\ Len(A) \in Nat /\ DOMAIN A = 1 .. Len(A)
        /\ \A m \in 1 .. Len(A) : A[m] \in DOMAIN es
        /\ \A m, n \in 1 .. Len(A) : m <= n => es[A[m]].y <= es[A[n]].y
    BY AnchorsAscend, InSequence
  <2>2. i \in DOMAIN es /\ es[i].y < es[A[k]].y BY <1>1, <1>2 DEF Above
  <2>3. l = 1 \/ es[i].y >= es[A[l - 1]].y + es[A[l - 1]].h BY <1>2 DEF Above
  <2> HIDE DEF A
  <2>4. l - 1 \in 1 .. Len(A) /\ k <= l - 1 /\ l # 1 BY <1>2, <2>1 DEF A
  <2>5. es[A[k]].y <= es[A[l - 1]].y BY <2>1, <2>4 DEF A
  <2>6. /\ A[k] \in DOMAIN es /\ A[l - 1] \in DOMAIN es
        /\ es[i].y \in Int /\ es[A[k]].y \in Int
        /\ es[A[l - 1]].y \in Int /\ es[A[l - 1]].h \in Nat
    BY <2>1, <2>2, <2>4, EntryFields DEF A
  <2> QED BY <2>2, <2>3, <2>4, <2>5, <2>6, SMTT(30)
<1> QED BY <1>1, <1>2

LEMMA BandParts ==
    ASSUME NEW es \in Seq(Entries), NEW k \in DOMAIN Anchors(es)
    PROVE  LET B == Bands(es)[k]
           IN  /\ B \in Seq(DOMAIN es) /\ Distinct(B)
               /\ ToSet(B) = Above(es, k) \cup {Anchors(es)[k]}
               /\ ToSet(B) \subseteq Content(es)
               /\ \A i, j \in Above(es, k) : ByColumn(es[i], es[j]) => Leads(B, i, j)
<1> DEFINE D == DOMAIN es  P == Above(es, k)  s == Sorted(es, P, ByColumn)  z == Anchors(es)[k]
<1>1. P \in SUBSET D /\ P \subseteq Content(es) \cap Narrow(es)
  BY AboveApart
<1>2. z \in WideEntries(es) /\ z \in D /\ z \in Content(es) /\ z \notin P
  <2>1. z \in WideEntries(es) BY AnchorsAscend
  <2> QED BY <1>1, <2>1 DEF WideEntries, Content, Narrow
<1>3. Bands(es)[k] = Append(s, z)
  BY DEF Bands
<1> HIDE DEF P, z
<1>4. /\ s \in Seq(P) /\ ToSet(s) = P /\ Distinct(s)
      /\ \A i, j \in P : ByColumn(es[i], es[j]) => Leads(s, i, j)
  <2>1. P \in SUBSET (DOMAIN es) BY <1>1
  <2> QED BY <2>1, SortedByColumn
<1> HIDE DEF s, D
<1>5. s \in Seq(D)
  BY <1>1, <1>4, Places
<1>6. Append(s, z) \in Seq(D) /\ ToSet(Append(s, z)) = P \cup {z}
  BY <1>2, <1>4, <1>5, Added
<1>7. /\ \A x, y : Leads(s, x, y) => Leads(Append(s, z), x, y)
      /\ Distinct(Append(s, z))
  BY <1>2, <1>4, <1>5, AppendOrder
<1> QED BY <1>1, <1>2, <1>3, <1>4, <1>6, <1>7 DEF P, z, D

\* What stands above an earlier wide entry comes first, and between the same ones
\* column by column.
LEMMA BandedOrder ==
    ASSUME NEW es \in Seq(Entries)
    PROVE  /\ Banded(es) \in Seq(DOMAIN es) /\ Distinct(Banded(es))
           /\ ToSet(Banded(es)) \subseteq Content(es)
           /\ \A x \in ToSet(Banded(es)) : x \in WideEntries(es) \/ \E k \in DOMAIN Anchors(es) : x \in Above(es, k)
           /\ \A k \in DOMAIN Anchors(es) : Above(es, k) \subseteq ToSet(Banded(es))
           /\ \A k \in DOMAIN Anchors(es) : \A i, j \in Above(es, k) :
                 ByColumn(es[i], es[j]) => Leads(Banded(es), i, j)
           /\ \A k, l \in DOMAIN Anchors(es) : k < l =>
                 \A i \in Above(es, k), j \in Above(es, l) : Leads(Banded(es), i, j)
<1> DEFINE D == DOMAIN es  A == Anchors(es)  B == Bands(es)
<1>1. /\ Len(A) \in Nat /\ DOMAIN A = 1 .. Len(A) /\ Distinct(A)
      /\ \A k \in 1 .. Len(A) : A[k] \in WideEntries(es)
  BY AnchorsAscend
<1>2. DOMAIN B = DOMAIN A /\ B = [k \in DOMAIN A |-> B[k]]
  BY DEF Bands
<1>3. \A k \in DOMAIN A :
         /\ B[k] \in Seq(D) /\ Distinct(B[k]) /\ ToSet(B[k]) = Above(es, k) \cup {A[k]}
         /\ ToSet(B[k]) \subseteq Content(es)
         /\ \A i, j \in Above(es, k) : ByColumn(es[i], es[j]) => Leads(B[k], i, j)
  BY BandParts
<1>4. \A k, l \in DOMAIN A : k < l => Above(es, k) \cap Above(es, l) = {}
  BY AboveApart
<1>5. \A k \in DOMAIN A : Above(es, k) \subseteq Narrow(es)
  BY AboveApart
<1>6. \A k, l \in DOMAIN A : A[k] \notin Above(es, l)
  BY <1>1, <1>5 DEF WideEntries, Narrow
<1> HIDE DEF A, B, D
<1>7. B \in Seq(Seq(D))
  BY <1>1, <1>2, <1>3
<1>8. \A k, l \in DOMAIN B : k < l => ToSet(B[k]) \cap ToSet(B[l]) = {}
  <2> SUFFICES ASSUME NEW k \in DOMAIN A, NEW l \in DOMAIN A, k < l
               PROVE  ToSet(B[k]) \cap ToSet(B[l]) = {}
    BY <1>2
  <2>1. A[k] # A[l] BY <1>1 DEF Distinct
  <2>2. ToSet(B[k]) = Above(es, k) \cup {A[k]} /\ ToSet(B[l]) = Above(es, l) \cup {A[l]} BY <1>3
  <2>3. /\ A[k] \notin Above(es, l) /\ A[l] \notin Above(es, k)
        /\ Above(es, k) \cap Above(es, l) = {}
    BY <1>4, <1>6
  <2> QED BY <2>1, <2>2, <2>3
<1>9. Banded(es) = FlattenSeq(B)
  BY DEF Banded, B
<1> DEFINE F == FlattenSeq(B)
<1>10. /\ F \in Seq(D) /\ ToSet(F) = UNION {ToSet(B[k]) : k \in DOMAIN B}
       /\ \A k \in DOMAIN B : \A x, y : Leads(B[k], x, y) => Leads(F, x, y)
       /\ \A k, l \in DOMAIN B : k < l =>
             \A x \in ToSet(B[k]), y \in ToSet(B[l]) : Leads(F, x, y)
  BY <1>7, FlatOrder
<1>11. Distinct(F)
  <2>1. \A k \in DOMAIN B : Distinct(B[k]) BY <1>2, <1>3
  <2> QED BY <1>7, <1>8, <2>1, FlatOrder
<1> HIDE DEF F
<1>12. ToSet(F) \subseteq Content(es)
  BY <1>2, <1>3, <1>10
<1>13. \A x \in ToSet(F) : x \in WideEntries(es) \/ \E k \in DOMAIN A : x \in Above(es, k)
  BY <1>1, <1>2, <1>3, <1>10
<1>14. \A k \in DOMAIN A : Above(es, k) \subseteq ToSet(F)
  BY <1>2, <1>3, <1>10
<1>15. \A k \in DOMAIN A : \A i, j \in Above(es, k) : ByColumn(es[i], es[j]) => Leads(F, i, j)
  BY <1>2, <1>3, <1>10
<1>16. \A k, l \in DOMAIN A : k < l => \A i \in Above(es, k), j \in Above(es, l) : Leads(F, i, j)
  BY <1>2, <1>3, <1>10
<1> QED BY <1>9, <1>10, <1>11, <1>12, <1>13, <1>14, <1>15, <1>16 DEF A, D, F

\* An entry that is beside no wide one stands above the first wide one below it, or
\* below them all.
LEMMA Located ==
    ASSUME NEW es \in Seq(Entries), NEW i \in Between(es)
    PROVE  \/ i \in Beside(es) /\ Band(es, i) = WideEntries(es)
           \/ \E k \in DOMAIN Anchors(es) :
                 i \in Above(es, k) /\ Band(es, i) = {Anchors(es)[m] : m \in 1 .. k - 1}
<1> DEFINE A == Anchors(es)  W == WideEntries(es)  Below == {k \in 1 .. Len(A) : es[i].y < es[A[k]].y}
<1>1. /\ Len(A) \in Nat /\ DOMAIN A = 1 .. Len(A)
      /\ \A k \in 1 .. Len(A) : A[k] \in W
      /\ \A w \in W : \E k \in 1 .. Len(A) : A[k] = w
      /\ \A k, l \in 1 .. Len(A) : k <= l => es[A[k]].y <= es[A[l]].y
  BY AnchorsAscend
<1>2. /\ i \in Content(es) /\ i \in Narrow(es) /\ i \in DOMAIN es
      /\ \A w \in W : es[i].y < es[w].y \/ es[i].y >= es[w].y + es[w].h
  BY DEF Between, Content
<1>3. es[i].y \in Int /\ \A w \in W : es[w].y \in Int
  <2>1. W \subseteq DOMAIN es BY DEF WideEntries, Content
  <2> QED BY <1>2, <2>1, EntryFields
<1>4. Band(es, i) = {w \in W : es[w].y <= es[i].y}
  BY DEF Band
<1>5. A = Anchors(es) /\ W = WideEntries(es) OBVIOUS
<1> HIDE DEF A, W
<1>6. CASE Below = {}
  <2>1. ASSUME NEW w \in W PROVE es[w].y <= es[i].y
    <3>1. PICK k \in 1 .. Len(A) : A[k] = w BY <1>1
    <3> QED BY <1>3, <1>6, <3>1
  <2>2. Band(es, i) = W BY <1>4, <2>1
  <2>3. i \notin ToSet(Banded(es))
    <3> SUFFICES ASSUME i \in ToSet(Banded(es)) PROVE FALSE OBVIOUS
    <3>1. i \notin WideEntries(es) BY <1>2 DEF WideEntries, Narrow
    <3>2. PICK k \in DOMAIN Anchors(es) : i \in Above(es, k) BY <3>1, BandedOrder
    <3>3. k \in 1 .. Len(A) /\ es[i].y < es[A[k]].y BY <1>1, <1>5, <3>2 DEF Above
    <3> QED BY <1>6, <3>3
  <2> QED BY <1>2, <1>5, <2>2, <2>3 DEF Beside
<1>7. CASE Below # {}
  <2>1. Below \subseteq Nat BY <1>1
  <2>2. PICK k \in Below : \A l \in Below : k <= l
    <3> HIDE DEF Below
    <3> QED BY <1>7, <2>1, Minimum
  <2>3. k \in 1 .. Len(A) /\ es[i].y < es[A[k]].y OBVIOUS
  <2>4. \A m \in 1 .. Len(A) : m < k <=> es[A[m]].y <= es[i].y
    <3> SUFFICES ASSUME NEW m \in 1 .. Len(A) PROVE m < k <=> es[A[m]].y <= es[i].y OBVIOUS
    <3>1. es[A[m]].y \in Int /\ es[A[k]].y \in Int BY <1>1, <1>3, <2>3
    <3>2. CASE m < k
      <4>1. m \notin Below BY <1>1, <2>2, <3>2
      <4> QED BY <1>3, <3>1, <3>2, <4>1
    <3>3. CASE ~(m < k)
      <4>1. k <= m BY <1>1, <3>3
      <4>2. es[A[k]].y <= es[A[m]].y BY <1>1, <2>3, <4>1
      <4> QED BY <1>3, <2>3, <3>1, <3>3, <4>2
    <3> QED BY <3>2, <3>3
  <2> HIDE DEF Below
  <2>5. Band(es, i) = {A[m] : m \in 1 .. k - 1}
    <3>1. \A m \in 1 .. k - 1 : m \in 1 .. Len(A) /\ m < k BY <1>1, <2>3
    <3>2. \A m \in 1 .. Len(A) : m < k => m \in 1 .. k - 1 BY <1>1, <2>3
    <3>3. ASSUME NEW w \in Band(es, i) PROVE w \in {A[m] : m \in 1 .. k - 1}
      <4>1. w \in W /\ es[w].y <= es[i].y BY <1>4
      <4>2. PICK m \in 1 .. Len(A) : A[m] = w BY <1>1, <4>1
      <4>3. m \in 1 .. k - 1 BY <2>4, <3>2, <4>1, <4>2
      <4> QED BY <4>2, <4>3
    <3>4. ASSUME NEW m \in 1 .. k - 1 PROVE A[m] \in Band(es, i) BY <1>1, <1>4, <2>4, <3>1
    <3> QED BY <3>3, <3>4
  <2>6. i \in Above(es, k)
    <3>1. ASSUME k # 1 PROVE es[i].y >= es[A[k - 1]].y + es[A[k - 1]].h
      <4>1. k - 1 \in 1 .. Len(A) /\ k - 1 < k BY <1>1, <2>3, <3>1
      <4>2. A[k - 1] \in W /\ es[A[k - 1]].y <= es[i].y BY <1>1, <2>4, <4>1
      <4>3. ~(es[i].y < es[A[k - 1]].y) BY <1>3, <4>2
      <4> QED BY <1>2, <4>2, <4>3
    <3> QED BY <1>2, <1>5, <2>3, <3>1 DEF Above
  <2>7. k \in DOMAIN Anchors(es) /\ Band(es, i) = {Anchors(es)[m] : m \in 1 .. k - 1}
    BY <1>1, <1>5, <2>3, <2>5
  <2> QED BY <2>6, <2>7
<1> QED BY <1>6, <1>7

\* On a page of two columns the order is the one that is read down.
LEMMA BodyOrder ==
    ASSUME NEW es \in Seq(Entries)
    PROVE  /\ Body(es) \in Seq(DOMAIN es) /\ Distinct(Body(es)) /\ ToSet(Body(es)) = Content(es)
           /\ TwoColumns(es) =>
                 \A i, j \in Between(es) : Sooner(es, i, j) => Leads(Body(es), i, j)
<1> DEFINE D == DOMAIN es  C == Content(es)  A == Anchors(es)
           B == Banded(es)  P == Beside(es)  S == Sorted(es, P, ByColumn)
<1>1. C \in SUBSET D /\ P \in SUBSET D /\ P \subseteq C
  BY DEF Content, Beside
<1>2. /\ B \in Seq(D) /\ Distinct(B) /\ ToSet(B) \subseteq C
      /\ \A k \in DOMAIN A : Above(es, k) \subseteq ToSet(B)
      /\ \A k \in DOMAIN A : \A i, j \in Above(es, k) : ByColumn(es[i], es[j]) => Leads(B, i, j)
      /\ \A k, l \in DOMAIN A : k < l => \A i \in Above(es, k), j \in Above(es, l) : Leads(B, i, j)
  BY BandedOrder
<1>3. P = C \ ToSet(B)
  BY DEF Beside
<1>4. /\ S \in Seq(P) /\ ToSet(S) = P /\ Distinct(S)
      /\ \A i, j \in P : ByColumn(es[i], es[j]) => Leads(S, i, j)
  <2> HIDE DEF P
  <2>1. P \in SUBSET (DOMAIN es) BY <1>1
  <2> QED BY <2>1, SortedByColumn
<1>5. S \in Seq(D)
  <2> HIDE DEF S, P
  <2> QED BY <1>1, <1>4, Places
<1>6. Body(es) = IF TwoColumns(es) THEN B \o S ELSE Sorted(es, C, ByHeight)
  BY DEF Body
<1>7. CASE ~TwoColumns(es)
  <2>1. C \in SUBSET (DOMAIN es) BY <1>1
  <2> HIDE DEF C, D
  <2>2. Sorted(es, C, ByHeight) \in Seq(C) /\ ToSet(Sorted(es, C, ByHeight)) = C
        /\ Distinct(Sorted(es, C, ByHeight))
    BY <2>1, SortedByHeight
  <2>3. Sorted(es, C, ByHeight) \in Seq(DOMAIN es) BY <2>1, <2>2, Places
  <2> QED BY <1>6, <1>7, <2>2, <2>3 DEF C
<1>8. CASE TwoColumns(es)
  <2> DEFINE u == B \o S
  <2> HIDE DEF B, S, P, C, D
  <2>1. u \in Seq(D) /\ ToSet(u) = ToSet(B) \cup ToSet(S) BY <1>2, <1>5, Concatenated
  <2>2. /\ \A x, y : Leads(B, x, y) \/ Leads(S, x, y) => Leads(u, x, y)
        /\ \A x \in ToSet(B), y \in ToSet(S) : Leads(u, x, y)
        /\ Distinct(B) /\ Distinct(S) /\ ToSet(B) \cap ToSet(S) = {} => Distinct(u)
    BY <1>2, <1>5, ConcatOrder
  <2> HIDE DEF u
  <2>3. Distinct(u) /\ ToSet(u) = C
    <3>1. ToSet(B) \cap ToSet(S) = {} /\ ToSet(B) \cup ToSet(S) = C BY <1>2, <1>3, <1>4
    <3> QED BY <1>2, <1>4, <2>1, <2>2, <3>1
  <2>4. ASSUME NEW i \in Between(es), NEW j \in Between(es), Sooner(es, i, j)
        PROVE  Leads(u, i, j)
    <3> DEFINE U(k) == {A[m] : m \in 1 .. k - 1}
               In(x, k) == x \in Above(es, k) /\ Band(es, x) = U(k)
               Out(x) == x \in P /\ Band(es, x) = WideEntries(es)
    <3>1. \A x \in Between(es) : Out(x) \/ \E k \in DOMAIN A : In(x, k) BY Located DEF P
    <3>2. /\ Len(A) \in Nat /\ DOMAIN A = 1 .. Len(A) /\ Distinct(A)
          /\ \A k \in 1 .. Len(A) : A[k] \in WideEntries(es)
      BY AnchorsAscend
    <3> HIDE DEF A
    <3>3. \A k, l \in DOMAIN A : k < l => U(k) \subseteq U(l) /\ A[k] \in U(l) /\ A[k] \notin U(k)
      <4> SUFFICES ASSUME NEW k \in DOMAIN A, NEW l \in DOMAIN A, k < l
                   PROVE  U(k) \subseteq U(l) /\ A[k] \in U(l) /\ A[k] \notin U(k)
        OBVIOUS
      <4>1. k \in 1 .. l - 1 /\ \A m \in 1 .. k - 1 : m \in 1 .. l - 1 /\ m \in DOMAIN A /\ m # k
        BY <3>2
      <4> QED BY <3>2, <4>1 DEF Distinct
    <3>4. \A k \in DOMAIN A : U(k) \subseteq WideEntries(es) /\ A[k] \in WideEntries(es) /\ A[k] \notin U(k)
      <4> SUFFICES ASSUME NEW k \in DOMAIN A
                   PROVE  U(k) \subseteq WideEntries(es) /\ A[k] \in WideEntries(es) /\ A[k] \notin U(k)
        OBVIOUS
      <4>1. \A m \in 1 .. k - 1 : m \in DOMAIN A /\ m # k BY <3>2
      <4> QED BY <3>2, <4>1 DEF Distinct
    <3> HIDE DEF U
    <3>5. \/ Band(es, i) = Band(es, j) /\ ByColumn(es[i], es[j])
          \/ Band(es, i) # Band(es, j) /\ Band(es, i) \subseteq Band(es, j)
      <4>1. es[i].col = "left" /\ es[j].col = "right" => ByColumn(es[i], es[j])
        BY DEF ByColumn, Across
      <4>2. es[i].col = es[j].col /\ es[i].y < es[j].y => ByColumn(es[i], es[j]) BY DEF ByColumn
      <4> QED BY <2>4, <4>1, <4>2 DEF Sooner
    <3>6. CASE Out(i) /\ Out(j)
      <4>1. ByColumn(es[i], es[j]) BY <3>5, <3>6
      <4> QED BY <1>4, <2>2, <3>6, <4>1
    <3>7. ASSUME NEW k \in DOMAIN A, In(i, k), Out(j) PROVE Leads(u, i, j) BY <1>2, <1>4, <2>2, <3>7
    <3>8. ASSUME NEW l \in DOMAIN A, Out(i), In(j, l) PROVE FALSE BY <3>4, <3>5, <3>8
    <3>9. ASSUME NEW k \in DOMAIN A, NEW l \in DOMAIN A, In(i, k), In(j, l)
          PROVE  Leads(u, i, j)
      <4>1. ~(l < k)
        <5> SUFFICES ASSUME l < k PROVE FALSE OBVIOUS
        <5>1. U(l) \subseteq U(k) /\ A[l] \in U(k) /\ A[l] \notin U(l) BY <3>3
        <5> QED BY <3>5, <3>9, <5>1
      <4>2. CASE k = l
        <5>1. ByColumn(es[i], es[j]) BY <3>5, <3>9, <4>2
        <5>2. Leads(B, i, j) BY <1>2, <3>9, <4>2, <5>1
        <5> QED BY <2>2, <5>2
      <4>3. CASE k < l
        <5>1. Leads(B, i, j) BY <1>2, <3>9, <4>3
        <5> QED BY <2>2, <5>1
      <4> QED BY <3>2, <4>1, <4>2, <4>3
    <3> QED BY <3>1, <3>6, <3>7, <3>8, <3>9
  <2> QED BY <1>6, <1>8, <2>1, <2>3, <2>4 DEF u, C, D
<1> QED BY <1>7, <1>8

\* Every place is in the order of the page, once.
LEMMA AllInGeometry ==
    ASSUME NEW es \in Seq(Entries)
    PROVE  /\ OrderedByGeometry(es) \in Seq(DOMAIN es)
           /\ ToSet(OrderedByGeometry(es)) = DOMAIN es
           /\ Distinct(OrderedByGeometry(es)) /\ Len(OrderedByGeometry(es)) = Len(es)
           /\ TwoColumns(es) => \A i, j \in Between(es) :
                 Sooner(es, i, j) => Leads(OrderedByGeometry(es), i, j)
<1> DEFINE D == DOMAIN es  C == Content(es)  b == Body(es)  q == Pictures(es)  u == b \o q
<1>1. D = 1 .. Len(es) /\ Len(es) \in Nat /\ C \subseteq D
  BY InSequence DEF Content
<1>2. /\ b \in Seq(D) /\ Distinct(b) /\ ToSet(b) = C
      /\ TwoColumns(es) => \A i, j \in Between(es) : Sooner(es, i, j) => Leads(b, i, j)
  BY BodyOrder
<1>3. q \in Seq(D) /\ Distinct(q) /\ ToSet(q) = D \ C
  <2> DEFINE others == D \ C
  <2>1. IsFiniteSet(others) /\ others \subseteq Int /\ others \in SUBSET D
    <3>1. IsFiniteSet(1 .. Len(es)) BY <1>1, FS_Interval
    <3>2. others \in SUBSET (1 .. Len(es)) BY <1>1
    <3>3. others \subseteq Int /\ others \in SUBSET D BY <1>1
    <3> HIDE DEF others
    <3>4. IsFiniteSet(others) BY <3>1, <3>2, FS_Subset
    <3> QED BY <3>3, <3>4
  <2>2. q = InOrder(others) BY DEF Pictures
  <2> HIDE DEF others, q
  <2>3. q \in Seq(others) /\ ToSet(q) = others /\ Distinct(q)
    <3>1. /\ InOrder(others) \in Seq(others) /\ ToSet(InOrder(others)) = others
          /\ DOMAIN InOrder(others) = 1 .. Len(InOrder(others))
          /\ \A m, n \in 1 .. Len(InOrder(others)) : InOrder(others)[m] = InOrder(others)[n] => m = n
      BY <2>1, InOrderAll, Zenon
    <3> QED BY <2>2, <3>1 DEF Distinct
  <2>4. q \in Seq(D) BY <2>1, <2>3, Places
  <2> QED BY <2>3, <2>4 DEF others
<1>4. OrderedByGeometry(es) = u
  BY GeometryParts
<1> HIDE DEF D, C, b, q
<1>5. u \in Seq(D) /\ ToSet(u) = ToSet(b) \cup ToSet(q)
  BY <1>2, <1>3, Concatenated
<1>6. /\ \A x, y : Leads(b, x, y) => Leads(u, x, y)
      /\ Distinct(b) /\ Distinct(q) /\ ToSet(b) \cap ToSet(q) = {} => Distinct(u)
  BY <1>2, <1>3, ConcatOrder
<1> HIDE DEF u
<1>7. ToSet(u) = D /\ Distinct(u)
  <2>1. ToSet(b) \cap ToSet(q) = {} /\ ToSet(b) \cup ToSet(q) = D BY <1>1, <1>2, <1>3
  <2> QED BY <1>2, <1>3, <1>5, <1>6, <2>1
<1>8. Len(u) = Len(es)
  <2>1. Len(u) \in Nat /\ DOMAIN u = 1 .. Len(u) /\ u \in [1 .. Len(u) -> D] BY <1>5, InSequence
  <2>2. u \in Bijection(1 .. Len(u), 1 .. Len(es))
    <3>1. u \in Injection(1 .. Len(u), 1 .. Len(es))
      BY <1>1, <1>7, <2>1 DEF Injection, IsInjective, Distinct
    <3>2. u \in Surjection(1 .. Len(u), 1 .. Len(es)) BY <1>1, <1>7, <2>1 DEF Surjection, ToSet
    <3> QED BY <3>1, <3>2 DEF Bijection
  <2>3. IsFiniteSet(1 .. Len(u)) /\ Cardinality(1 .. Len(u)) = Len(u) /\ Cardinality(1 .. Len(es)) = Len(es)
    <3>1. \A k \in Nat : IsFiniteSet(1 .. k) /\ Cardinality(1 .. k) = k
      <4> SUFFICES ASSUME NEW k \in Nat PROVE IsFiniteSet(1 .. k) /\ Cardinality(1 .. k) = k OBVIOUS
      <4>1. IsFiniteSet(1 .. k) /\ Cardinality(1 .. k) = IF 1 > k THEN 0 ELSE k - 1 + 1
        BY FS_Interval
      <4> QED BY <4>1
    <3> QED BY <1>1, <2>1, <3>1
  <2>4. Cardinality(1 .. Len(es)) = Cardinality(1 .. Len(u))
    BY <2>2, <2>3, FS_Bijection DEF ExistsBijection
  <2> QED BY <2>3, <2>4
<1> QED BY <1>2, <1>4, <1>5, <1>6, <1>7, <1>8 DEF D

\* Entries put in an order that follows this one are read down.
LEMMA PutInOrder ==
    ASSUME NEW es \in Seq(Entries), NEW u \in Seq(DOMAIN es), Distinct(u), ToSet(u) = DOMAIN es,
           TwoColumns(es) => \A i, j \in Between(es) : Sooner(es, i, j) => Leads(u, i, j),
           NEW r, r = [n \in DOMAIN u |-> es[u[n]]]
    PROVE  TwoColumns(r) => ReadDown(r)
<1>1. /\ Len(u) \in Nat /\ DOMAIN u = 1 .. Len(u) /\ DOMAIN r = DOMAIN u
      /\ \A n \in DOMAIN u : u[n] \in DOMAIN es /\ r[n] = es[u[n]]
  BY InSequence
<1>2. IsFiniteSet(DOMAIN es) /\ IsFiniteSet(DOMAIN u)
  <2>1. DOMAIN es = 1 .. Len(es) /\ Len(es) \in Nat BY InSequence
  <2> QED BY <1>1, <2>1, FS_Interval
<1>3. \A i \in DOMAIN es : \E n \in DOMAIN u : u[n] = i
  BY DEF ToSet
<1>4. ASSUME NEW P \in SUBSET (DOMAIN u), NEW Q \in SUBSET (DOMAIN es), \A n \in P : u[n] \in Q
      PROVE  Cardinality(P) <= Cardinality(Q)
  <2> DEFINE f == [n \in P |-> u[n]]
  <2>1. IsFiniteSet(Q) BY <1>2, FS_Subset
  <2>2. f \in Injection(P, Q) BY <1>4 DEF Injection, IsInjective, Distinct
  <2> HIDE DEF f
  <2> QED BY <2>1, <2>2, FS_Injection
<1>5. ASSUME NEW c PROVE InColumn(es, c) \in SUBSET (DOMAIN es) /\ InColumn(r, c) \in SUBSET (DOMAIN u)
                         /\ \A n \in InColumn(r, c) : u[n] \in InColumn(es, c)
  BY <1>1 DEF InColumn
<1>6. /\ Narrow(es) \in SUBSET (DOMAIN es) /\ Narrow(r) \in SUBSET (DOMAIN u)
      /\ \A n \in Narrow(r) : u[n] \in Narrow(es)
  BY <1>1 DEF Narrow
<1>7. \A P \in SUBSET (DOMAIN u), Q \in SUBSET (DOMAIN es) :
         Cardinality(P) \in Nat /\ Cardinality(Q) \in Nat
  <2> SUFFICES ASSUME NEW P \in SUBSET (DOMAIN u), NEW Q \in SUBSET (DOMAIN es)
               PROVE  Cardinality(P) \in Nat /\ Cardinality(Q) \in Nat
    OBVIOUS
  <2>1. IsFiniteSet(P) /\ IsFiniteSet(Q) BY <1>2, FS_Subset
  <2> QED BY <2>1, FS_CardinalityType
<1>8. TwoColumns(r) => TwoColumns(es)
  <2> SUFFICES ASSUME TwoColumns(r) PROVE TwoColumns(es) OBVIOUS
  <2>1. Cardinality(Narrow(es)) >= 4
    <3>1. Cardinality(Narrow(r)) >= 4 /\ Cardinality(Narrow(r)) <= Cardinality(Narrow(es))
      BY <1>4, <1>6 DEF TwoColumns
    <3> QED BY <1>6, <1>7, <3>1
  <2>2. ASSUME NEW c \in {"left", "right"} PROVE Cardinality(InColumn(es, c)) >= 2
    <3>1. Cardinality(InColumn(r, c)) >= 2 /\ Cardinality(InColumn(r, c)) <= Cardinality(InColumn(es, c))
      BY <1>4, <1>5 DEF TwoColumns
    <3> QED BY <1>5, <1>7, <3>1
  <2> QED BY <2>1, <2>2 DEF TwoColumns
<1>9. \A n \in DOMAIN u : n \in WideEntries(r) <=> u[n] \in WideEntries(es)
  BY <1>1 DEF WideEntries, Content
<1>10. WideEntries(r) \subseteq DOMAIN u /\ WideEntries(es) \subseteq DOMAIN es
  BY <1>1 DEF WideEntries, Content
<1>11. \A m, n \in DOMAIN u : m \in Band(r, n) <=> u[m] \in Band(es, u[n])
  BY <1>1, <1>9, <1>10 DEF Band
<1>12. \A n \in DOMAIN u : Band(r, n) \subseteq DOMAIN u /\ Band(es, u[n]) \subseteq DOMAIN es
  BY <1>10 DEF Band
<1>13. ASSUME NEW m \in DOMAIN u, NEW n \in DOMAIN u
       PROVE  Band(r, m) \subseteq Band(r, n) <=> Band(es, u[m]) \subseteq Band(es, u[n])
  <2>1. ASSUME Band(r, m) \subseteq Band(r, n), NEW w \in Band(es, u[m]) PROVE w \in Band(es, u[n])
    <3>1. PICK k \in DOMAIN u : u[k] = w BY <1>3, <1>12
    <3> QED BY <1>11, <2>1, <3>1
  <2>2. ASSUME Band(es, u[m]) \subseteq Band(es, u[n]), NEW k \in Band(r, m) PROVE k \in Band(r, n)
    BY <1>11, <1>12, <2>2
  <2> QED BY <2>1, <2>2
<1>14. ASSUME NEW m \in DOMAIN u, NEW n \in DOMAIN u, Sooner(r, m, n) PROVE Sooner(es, u[m], u[n])
  <2>1. Band(r, m) = Band(r, n) <=> Band(es, u[m]) = Band(es, u[n])
    <3>1. Band(r, m) = Band(r, n) <=> Band(r, m) \subseteq Band(r, n) /\ Band(r, n) \subseteq Band(r, m)
      OBVIOUS
    <3>2. Band(es, u[m]) = Band(es, u[n])
             <=> Band(es, u[m]) \subseteq Band(es, u[n]) /\ Band(es, u[n]) \subseteq Band(es, u[m])
      OBVIOUS
    <3> QED BY <1>13, <3>1, <3>2
  <2>2. r[m] = es[u[m]] /\ r[n] = es[u[n]] BY <1>1
  <2> QED BY <1>13, <1>14, <2>1, <2>2 DEF Sooner
<1>15. ASSUME NEW n \in Between(r) PROVE n \in DOMAIN u /\ u[n] \in Between(es)
  <2>1. n \in DOMAIN u /\ r[n] = es[u[n]] /\ u[n] \in Content(es) \cap Narrow(es)
    BY <1>1, <1>6 DEF Between, Content
  <2>2. ASSUME NEW w \in WideEntries(es) PROVE es[u[n]].y < es[w].y \/ es[u[n]].y >= es[w].y + es[w].h
    <3>1. PICK k \in DOMAIN u : u[k] = w BY <1>3, <1>10
    <3>2. k \in WideEntries(r) /\ r[k] = es[w] BY <1>1, <1>9, <3>1
    <3> QED BY <2>1, <3>2 DEF Between
  <2> QED BY <2>1, <2>2 DEF Between
<1>16. ASSUME TwoColumns(r), NEW m \in Between(r), NEW n \in Between(r), Sooner(r, m, n) PROVE m < n
  <2>1. /\ m \in DOMAIN u /\ n \in DOMAIN u /\ u[m] \in Between(es) /\ u[n] \in Between(es)
        /\ Sooner(es, u[m], u[n])
    BY <1>14, <1>15, <1>16
  <2>2. Leads(u, u[m], u[n]) BY <1>8, <1>16, <2>1
  <2> QED BY <2>1, <2>2, LeadsOnce
<1> QED BY <1>16 DEF ReadDown

LEMMA OrderReadsDown ==
    ASSUME NEW es \in Seq(Entries), TwoColumns(OrderEntries(es, TRUE))
    PROVE  ReadDown(OrderEntries(es, TRUE))
<1> DEFINE u == OrderedByGeometry(es)
<1>1. OrderEntries(es, TRUE) = [n \in DOMAIN u |-> es[u[n]]]
  BY AllInGeometry DEF OrderEntries
<1>2. /\ u \in Seq(DOMAIN es) /\ ToSet(u) = DOMAIN es /\ Distinct(u)
      /\ TwoColumns(es) => \A i, j \in Between(es) : Sooner(es, i, j) => Leads(u, i, j)
  BY AllInGeometry
<1> HIDE DEF u
<1> QED BY <1>1, <1>2, PutInOrder

-----------------------------------------------------------------------------
(* orderPageEntries keeps what it orders. *)

LEMMA OrderKeeps ==
    ASSUME NEW home, NEW es, Proper(es, home), NEW flows \in BOOLEAN
    PROVE  Proper(OrderEntries(es, flows), home) /\ Carried(es, OrderEntries(es, flows))
<1> DEFINE D == DOMAIN es
           places == IF flows /\ Len(OrderedByGeometry(es)) = Len(es)
                     THEN OrderedByGeometry(es) ELSE Sorted(es, D, ByHeight)
           made == [n \in DOMAIN places |-> es[places[n]]]
<1>1. es \in Seq(Entries) /\ \A e \in ToSet(es) : Fine(e, home)
  BY DEF Proper
<1>2. places \in Seq(D) /\ ToSet(places) = D
  <2>1. D \in SUBSET (DOMAIN es) OBVIOUS
  <2>2. Sorted(es, D, ByHeight) \in Seq(D) /\ ToSet(Sorted(es, D, ByHeight)) = D
    BY <1>1, <2>1, SortedByHeight
  <2> QED BY <1>1, <2>2, AllInGeometry
<1>3. OrderEntries(es, flows) = made
  BY DEF OrderEntries
<1> HIDE DEF places
<1>4. /\ Len(places) \in Nat /\ DOMAIN places = 1 .. Len(places)
      /\ \A n \in 1 .. Len(places) : places[n] \in D /\ es[places[n]] \in Entries
  BY <1>1, <1>2, InSequence
<1>5. made \in Seq(Entries) /\ DOMAIN made = 1 .. Len(places)
  BY <1>4
<1>6. ToSet(made) = ToSet(es)
  <2>1. ToSet(made) \subseteq ToSet(es) BY <1>4, <1>5 DEF ToSet
  <2>2. ASSUME NEW i \in D PROVE es[i] \in ToSet(made)
    <3>1. PICK n \in DOMAIN places : places[n] = i BY <1>2 DEF ToSet
    <3> QED BY <1>4, <3>1 DEF ToSet
  <2> QED BY <2>1, <2>2 DEF ToSet
<1> HIDE DEF made
<1> QED BY <1>1, <1>3, <1>5, <1>6, ThereIsCarried DEF Proper

-----------------------------------------------------------------------------
(* mergeWrappedHeadingEntries. *)

LEMMA ReadStill ==
    ASSUME NEW fs \in Seq(Entries), NEW gs \in Seq(Entries), Carried(fs, gs),
           NEW line \in Seq(Tokens), StillRead(line, fs)
    PROVE  StillRead(line, gs)
<1>1. PICK f \in ToSet(fs) : \E l \in ToSet(f.lines) : Reads(Words(line), l)
  BY DEF StillRead
<1>2. PICK l \in ToSet(f.lines) : Reads(Words(line), l)
  BY <1>1
<1>3. PICK g \in ToSet(gs) : \E m \in ToSet(g.lines) : Reads(Words(l), m)
  BY DEF Carried, StillRead
<1>4. PICK m \in ToSet(g.lines) : Reads(Words(l), m)
  BY <1>3
<1>5. l \in Seq(Tokens) /\ m \in Seq(Tokens)
  BY ProperEntry
<1>6. Words(line) \in Seq(STRING)
  BY <1>5, WordsOfLine
<1>7. Reads(Words(line), m)
  BY <1>2, <1>4, <1>5, <1>6, ReadThrough
<1> QED BY <1>7 DEF StillRead

LEMMA MergedReads ==
    ASSUME NEW home, NEW p \in Entries, NEW e \in Entries, IsText(p),
           p.lines[1] \in Seq(Tokens), e.lines[1] \in Seq(Tokens),
           \A t \in ToSet(p.lines[1]) \cup ToSet(e.lines[1]) : t.page = home
    PROVE  /\ Merged(p, e) \in Entries /\ Fine(Merged(p, e), home)
           /\ \E l \in ToSet(Merged(p, e).lines) :
                 Reads(Words(p.lines[1]), l) /\ Reads(Words(e.lines[1]), l)
<1> DEFINE l == p.lines[1] \o e.lines[1]
<1>1. l \in Seq(Tokens) /\ Reads(Words(p.lines[1]), l) /\ Reads(Words(e.lines[1]), l)
  BY ReadTogether
<1>2. Smaller(LevelOf(p), LevelOf(e)) \in 0 .. 6
  BY DEF Entries, Smaller, LevelOf
<1>5. \A t \in ToSet(l) : t.page = home
  BY Concatenated
<1> HIDE DEF l
<1>3. <<l>> \in Seq(Seq(Tokens)) /\ Len(<<l>>) = 1 /\ ToSet(<<l>>) = {l}
  BY <1>1 DEF ToSet
<1>4. Merged(p, e) \in Entries /\ Merged(p, e).lines = <<l>> /\ Merged(p, e).kind = "text"
  BY <1>2, <1>3 DEF Merged, Entries, TokenLines, IsText, l
<1> QED BY <1>1, <1>3, <1>4, <1>5 DEF Fine, OnPage

LEMMA JoiningKeeps ==
    ASSUME NEW home, NEW done, Proper(done, home), NEW e \in Entries, Fine(e, home)
    PROVE  /\ Proper(Joining(done, e), home) /\ Carried(done, Joining(done, e))
           /\ \A line \in ToSet(e.lines) : StillRead(line, Joining(done, e))
<1> DEFINE made == Joining(done, e)
<1>1. /\ done \in Seq(Entries) /\ (\A d \in ToSet(done) : Fine(d, home))
      /\ Len(done) \in Nat /\ DOMAIN done = 1 .. Len(done)
  BY InSequence DEF Proper
<1>2. CASE done # <<>> /\ CanMerge(Last(done), e)
  <2> DEFINE p == Last(done)
             m == Merged(p, e)
             front == Front(done)
  <2>1. made = Append(front, m) BY <1>2 DEF Joining
  <2>2. Len(done) \in 1 .. Len(done) BY <1>1, <1>2, EmptySeq
  <2>3. p \in ToSet(done) /\ IsText(p) /\ IsText(e) BY <1>1, <1>2, <2>2 DEF ToSet, Last, CanMerge
  <2>4. front \in Seq(Entries) /\ ToSet(front) = {done[i] : i \in 1 .. Len(done) - 1}
    <3>1. 1 \in 1 .. Len(done) + 1 /\ Len(done) - 1 \in 0 .. Len(done) BY <1>1, <2>2
    <3> QED BY <1>1, <3>1, Part DEF Front
  <2>5. ToSet(done) = ToSet(front) \cup {p}
    <3> DEFINE M == Len(done)
    <3>1. M \in Nat BY <1>1
    <3> HIDE DEF M
    <3>2. \A i \in 1 .. M : i \in 1 .. M - 1 \/ i = M BY <3>1
    <3>3. \A i \in 1 .. M - 1 : i \in 1 .. M BY <3>1
    <3> HIDE DEF front
    <3> USE DEF M
    <3> QED BY <1>1, <2>2, <2>4, <3>2, <3>3 DEF ToSet, Last
  <2>6. p \in Entries /\ p.lines[1] \in Seq(Tokens) /\ ToSet(p.lines) = {p.lines[1]}
    BY <2>3, TextLine
  <2>7. e.lines[1] \in Seq(Tokens) /\ ToSet(e.lines) = {e.lines[1]}
    <3>1. <<e>> \in Seq(Entries) /\ ToSet(<<e>>) = {e} BY DEF ToSet
    <3>2. Proper(<<e>>, home) /\ e \in ToSet(<<e>>) BY <3>1 DEF Proper
    <3> QED BY <2>3, <3>2, TextLine
  <2>15. \A t \in ToSet(p.lines[1]) \cup ToSet(e.lines[1]) : t.page = home
    <3>1. Fine(p, home) BY <1>1, <2>3
    <3> HIDE DEF p
    <3> QED BY <2>6, <2>7, <3>1 DEF Fine, OnPage
  <2>8. /\ m \in Entries /\ Fine(m, home)
        /\ \E l \in ToSet(m.lines) : Reads(Words(p.lines[1]), l) /\ Reads(Words(e.lines[1]), l)
    <3> HIDE DEF p
    <3> QED BY <2>3, <2>6, <2>7, <2>15, MergedReads
  <2> HIDE DEF p, m, front
  <2>9. Append(front, m) \in Seq(Entries) /\ ToSet(Append(front, m)) = ToSet(front) \cup {m}
    BY <2>4, <2>8, Added
  <2>10. made \in Seq(Entries) /\ ToSet(made) = ToSet(front) \cup {m} BY <2>1, <2>9
  <2> HIDE DEF made
  <2>11. Proper(made, home) BY <1>1, <2>5, <2>8, <2>10 DEF Proper
  <2>12. StillRead(p.lines[1], made) /\ StillRead(e.lines[1], made) BY <2>8, <2>10 DEF StillRead
  <2>13. Carried(done, made)
    <3> SUFFICES ASSUME NEW d \in ToSet(done), NEW line \in ToSet(d.lines) PROVE StillRead(line, made)
      BY DEF Carried
    <3>1. CASE d = p BY <2>6, <2>12, <3>1
    <3>2. CASE d \in ToSet(front)
      <4>1. ToSet(front) \subseteq ToSet(made) BY <2>10
      <4>2. Carried(front, made) BY <2>4, <4>1, ThereIsCarried
      <4> QED BY <3>2, <4>2 DEF Carried
    <3> QED BY <2>5, <3>1, <3>2
  <2>14. \A line \in ToSet(e.lines) : StillRead(line, made) BY <2>7, <2>12
  <2> QED BY <2>11, <2>13, <2>14 DEF made
<1>3. CASE ~(done # <<>> /\ CanMerge(Last(done), e))
  <2>1. made = Append(done, e) BY <1>3 DEF Joining
  <2>2. made \in Seq(Entries) /\ ToSet(made) = ToSet(done) \cup {e} BY <1>1, <2>1, Added
  <2> HIDE DEF made
  <2>3. Proper(made, home) BY <1>1, <2>2 DEF Proper
  <2>4. Carried(done, made) BY <1>1, <2>2, ThereIsCarried
  <2>5. Carried(made, made) BY <2>2, ThereIsCarried
  <2>6. \A line \in ToSet(e.lines) : StillRead(line, made) BY <2>2, <2>5 DEF Carried
  <2> QED BY <2>3, <2>4, <2>6 DEF made
<1> QED BY <1>2, <1>3

LEMMA JoinKeeps ==
    ASSUME NEW home, NEW es, Proper(es, home)
    PROVE  Proper(JoinWrapped(es), home) /\ Carried(es, JoinWrapped(es))
<1> DEFINE N == Len(es)
           S == {ds \in Seq(Entries) : Proper(ds, home)}
           G == [n \in 1 .. N |-> [x \in S |-> Joining(x, es[n])]]
           Eq(f) == f = [n \in 0 .. N |-> IF n = 0 THEN <<>> ELSE Joining(f[n - 1], es[n])]
           F == CHOOSE f : Eq(f)
<1>1. /\ es \in Seq(Entries) /\ N \in Nat /\ DOMAIN es = 1 .. N
      /\ \A n \in 1 .. N : es[n] \in Entries /\ es[n] \in ToSet(es) /\ Fine(es[n], home)
  BY InSequence DEF Proper, ToSet
<1>2. \A x \in S, n \in 1 .. N : Joining(x, es[n]) \in S
  BY <1>1, JoiningKeeps DEF Proper
<1>3. <<>> \in S
  <2>1. <<>> \in Seq(Entries) /\ ToSet(<<>>) = {} BY DEF ToSet
  <2> QED BY <2>1 DEF Proper
<1>4. G \in [1 .. N -> [S -> S]]
  <2> HIDE DEF S, N
  <2> QED BY <1>2
<1>5. PICK f : Solves(f, N, S, <<>>, G)
  <2> HIDE DEF S, G, N
  <2> QED BY <1>1, <1>3, <1>4, Recursion
<1>6. f \in [0 .. N -> S] /\ f[0] = <<>>
  BY <1>5 DEF Solves
<1> HIDE DEF N, S
<1>7. ASSUME NEW n \in 1 .. N PROVE n - 1 \in 0 .. N /\ f[n - 1] \in S /\ f[n] = Joining(f[n - 1], es[n])
  <2>1. n - 1 \in 0 .. N /\ f[n - 1] \in S BY <1>1, <1>6
  <2> QED BY <1>5, <2>1 DEF Solves
<1>8. Eq(f)
  <2>1. \A n \in 0 .. N : f[n] = IF n = 0 THEN <<>> ELSE Joining(f[n - 1], es[n])
    BY <1>1, <1>6, <1>7
  <2> QED BY <1>6, <2>1
<1>9. Eq(F)
  <2> HIDE DEF Eq
  <2> QED BY <1>8, Zenon
<1>10. JoinWrapped(es) = F[N]
  BY Zenon DEF JoinWrapped, N
<1>11. F[0] = <<>> /\ \A n \in 1 .. N : F[n] = Joining(F[n - 1], es[n])
  <2>1. \A n \in 0 .. N : F[n] = IF n = 0 THEN <<>> ELSE Joining(F[n - 1], es[n])
    <3> HIDE DEF F
    <3> QED BY <1>9, Zenon
  <2> HIDE DEF F
  <2> QED BY <1>1, <2>1
<1> HIDE DEF F
<1> DEFINE Taken(n) == /\ Proper(F[n], home)
                      /\ \A i \in 1 .. n : \A line \in ToSet(es[i].lines) : StillRead(line, F[n])
           Good == {n \in 0 .. N : Taken(n)}
<1>12. 0 \in Good
  <2>1. Proper(F[0], home) /\ \A i \in 1 .. 0 : FALSE BY <1>3, <1>11 DEF S
  <2> QED BY <1>1, <2>1
<1>13. ASSUME NEW n \in 1 .. N, n - 1 \in Good PROVE n \in Good
  <2> SUFFICES Taken(n) BY <1>1
  <2>1. Proper(F[n - 1], home) /\ es[n] \in Entries /\ Fine(es[n], home) /\ F[n] = Joining(F[n - 1], es[n])
    BY <1>1, <1>11, <1>13
  <2>2. /\ Proper(F[n], home) /\ Carried(F[n - 1], F[n])
        /\ \A line \in ToSet(es[n].lines) : StillRead(line, F[n])
    BY <2>1, JoiningKeeps
  <2>3. ASSUME NEW i \in 1 .. n, NEW line \in ToSet(es[i].lines) PROVE StillRead(line, F[n])
    <3>1. CASE i = n BY <2>2, <3>1
    <3>2. CASE i # n
      <4>1. i \in 1 .. n - 1 /\ i \in 1 .. N BY <1>1, <3>2
      <4>2. StillRead(line, F[n - 1]) BY <1>13, <4>1
      <4>3. line \in Seq(Tokens) BY <1>1, <4>1, ProperEntry
      <4>4. F[n - 1] \in Seq(Entries) /\ F[n] \in Seq(Entries) BY <2>1, <2>2 DEF Proper
      <4> QED BY <2>2, <4>2, <4>3, <4>4, ReadStill
    <3> QED BY <3>1, <3>2
  <2> QED BY <2>2, <2>3
<1>14. Taken(N)
  <2>1. N \in Good
    <3> HIDE DEF Good
    <3> QED BY <1>1, <1>12, <1>13, Counting
  <2> QED BY <2>1
<1>15. Carried(es, F[N])
  <2> SUFFICES ASSUME NEW e \in ToSet(es), NEW line \in ToSet(e.lines) PROVE StillRead(line, F[N])
    BY DEF Carried
  <2>1. PICK i \in 1 .. N : e = es[i] BY <1>1 DEF ToSet
  <2> QED BY <1>14, <2>1
<1> QED BY <1>10, <1>14, <1>15

LEMMA SaidIsRead ==
    ASSUME NEW e \in Entries, NEW f \in Entries, Says(e) = Says(f), NEW line \in ToSet(e.lines)
    PROVE  \E l \in ToSet(f.lines) : Reads(Words(line), l)
<1> DEFINE es == e.lines
           fs == f.lines
<1>1. es \in Seq(Seq(Tokens)) /\ fs \in Seq(Seq(Tokens))
  BY DEF Entries, TokenLines
<1>2. [i \in DOMAIN es |-> Words(es[i])] = [i \in DOMAIN fs |-> Words(fs[i])]
  BY DEF Says
<1>3. PICK i \in DOMAIN es : line = es[i]
  BY DEF ToSet
<1> HIDE DEF es, fs
<1>4. DOMAIN es = DOMAIN fs /\ Words(es[i]) = Words(fs[i])
  BY <1>2, <1>3
<1>5. es[i] \in Seq(Tokens) /\ fs[i] \in Seq(Tokens)
  BY <1>1, <1>3, <1>4, InSequence
<1>6. Reads(Words(es[i]), fs[i])
  BY <1>4, <1>5, SameIsRead
<1> QED BY <1>3, <1>4, <1>6 DEF ToSet, fs

LEMMA SmallestOf ==
    ASSUME NEW S, S \subseteq Nat, S # {}
    PROVE  Min(S) \in S /\ \A k \in S : Min(S) <= k
BY Minimum DEF Min

\* The smallest place of some entries.
LEMMA FirstPlace ==
    ASSUME NEW es \in Seq(Entries), NEW P \in SUBSET (DOMAIN es), P # {}
    PROVE  Min(P) \in P
<1>1. DOMAIN es \subseteq Nat
  BY InSequence
<1>2. P \subseteq Nat
  BY <1>1
<1> QED BY <1>2, SmallestOf

LEMMA DropTitleKeeps ==
    ASSUME NEW home, NEW es, Proper(es, home)
    PROVE  Proper(DropTitle(es), home) /\ Carried(es, DropTitle(es))
<1> DEFINE r == Min(RepeatedTitles(es))
           made == Kept(es, DOMAIN es \ {r})
<1>1. es \in Seq(Entries) /\ \A e \in ToSet(es) : Fine(e, home)
  BY DEF Proper
<1>2. CASE RepeatedTitles(es) = {}
  BY <1>1, <1>2, ThereIsCarried DEF DropTitle
<1>3. CASE RepeatedTitles(es) # {}
  <2>1. DropTitle(es) = made BY <1>3 DEF DropTitle
  <2>2. r \in RepeatedTitles(es) /\ RepeatedTitles(es) \subseteq DOMAIN es
    <3>1. RepeatedTitles(es) \in SUBSET (DOMAIN es) BY DEF RepeatedTitles
    <3> QED BY <1>1, <1>3, <3>1, FirstPlace
  <2> HIDE DEF r
  <2>3. PICK j \in DOMAIN es : j > r /\ Says(es[j]) = Says(es[r]) BY <2>2 DEF RepeatedTitles
  <2>4. made \in Seq(Entries) /\ ToSet(made) = {es[i] : i \in DOMAIN es \ {r}}
    <3>1. DOMAIN es \ {r} \in SUBSET (DOMAIN es) OBVIOUS
    <3> QED BY <1>1, <3>1, KeptPlaces
  <2> HIDE DEF made
  <2>5. ToSet(made) \subseteq ToSet(es) BY <2>4 DEF ToSet
  <2>6. Proper(made, home) BY <1>1, <2>4, <2>5 DEF Proper
  <2>7. j # r BY <1>1, <2>2, <2>3, InSequence
  <2>8. \A i \in DOMAIN es : es[i] \in Entries BY <1>1, InSequence
  <2>9. ASSUME NEW i \in DOMAIN es, NEW line \in ToSet(es[i].lines) PROVE StillRead(line, made)
    <3>1. CASE i = r
      <4>1. \E l \in ToSet(es[j].lines) : Reads(Words(line), l) BY <2>3, <2>8, <3>1, SaidIsRead
      <4>2. es[j] \in ToSet(made) BY <2>4, <2>7
      <4> QED BY <4>1, <4>2 DEF StillRead
    <3>2. CASE i # r
      <4>1. es[i] \in ToSet(made) BY <2>4, <3>2
      <4>2. Carried(made, made) BY <2>4, ThereIsCarried
      <4> QED BY <4>1, <4>2 DEF Carried
    <3> QED BY <3>1, <3>2
  <2>10. Carried(es, made) BY <2>9 DEF Carried, ToSet
  <2> QED BY <2>1, <2>6, <2>10
<1> QED BY <1>2, <1>3

LEMMA HeadingsKeep ==
    ASSUME NEW home, NEW es, Proper(es, home)
    PROVE  /\ Proper(MergeWrappedHeadingEntries(es), home)
           /\ Carried(es, MergeWrappedHeadingEntries(es))
<1> DEFINE js == JoinWrapped(es)
           ds == DropTitle(js)
<1>1. Proper(js, home) /\ Carried(es, js)
  BY JoinKeeps
<1>2. Proper(ds, home) /\ Carried(js, ds)
  BY <1>1, DropTitleKeeps
<1>3. MergeWrappedHeadingEntries(es) = ds
  BY DEF MergeWrappedHeadingEntries
<1> HIDE DEF js, ds
<1> QED BY <1>1, <1>2, <1>3, CarriedOn DEF Proper

-----------------------------------------------------------------------------
(* mergeDiagramEntries and mergeCodeEntries. *)

LEMMA FencedKeeps ==
    ASSUME NEW home, NEW run, Proper(run, home), NEW kind \in Kinds, kind # "text",
           \E e \in ToSet(run) : e.lines # <<>>
    PROVE  Proper(<<Fenced(run, kind)>>, home) /\ Carried(run, <<Fenced(run, kind)>>)
<1> DEFINE ls == [k \in DOMAIN run |-> run[k].lines]
           f == Fenced(run, kind)
<1>14. run \in Seq(Entries) /\ (\A e \in ToSet(run) : Fine(e, home))
  BY DEF Proper
<1>1. /\ Len(run) \in Nat /\ DOMAIN run = 1 .. Len(run)
      /\ \A k \in 1 .. Len(run) : run[k] \in Entries /\ run[k].lines \in Seq(Seq(Tokens))
  BY <1>14, InSequence, EntryFields
<1>15. PICK full \in 1 .. Len(run) : run[full].lines # <<>>
  BY <1>1 DEF ToSet
<1>2. 1 \in 1 .. Len(run)
  BY <1>1, <1>15
<1>3. ls \in Seq(Seq(Seq(Tokens))) /\ DOMAIN ls = 1 .. Len(run)
  BY <1>1
<1>4. FlattenSeq(ls) \in Seq(Seq(Tokens)) /\ ToSet(FlattenSeq(ls)) = UNION {ToSet(ls[k]) : k \in DOMAIN ls}
  BY <1>3, Flattened
<1>5. \A k \in 1 .. Len(run) : ls[k] = run[k].lines
  BY <1>1
<1> DEFINE all == FlattenSeq(ls)
<1>6. f = [run[1] EXCEPT !.kind = kind, !.level = 0, !.lines = all]
  BY DEF Fenced
<1> HIDE DEF f, ls
<1>7. f \in Entries /\ f.lines = all /\ f.kind = kind
  <2>1. all \in Seq(Seq(Tokens)) /\ run[1] \in Entries /\ 0 \in 0 .. 6 BY <1>1, <1>2, <1>4
  <2> HIDE DEF all
  <2> DEFINE range == 0 .. 6
  <2>2. range = 0 .. 6 OBVIOUS
  <2> HIDE DEF range
  <2> QED BY <1>6, <2>1, <2>2 DEF Entries, TokenLines
<1> HIDE DEF all
<1>8. \A k \in 1 .. Len(run) : \A line \in ToSet(run[k].lines) : line \in ToSet(all)
  BY <1>3, <1>4, <1>5 DEF all
<1>9. <<f>> \in Seq(Entries) /\ ToSet(<<f>>) = {f}
  BY <1>7 DEF ToSet
<1>16. all # <<>>
  <2>1. run[full].lines[1] \in ToSet(run[full].lines) BY <1>1, <1>15, EmptySeq, InSequence DEF ToSet
  <2>2. ToSet(all) # {} BY <1>8, <1>15, <2>1
  <2>3. ToSet(<<>>) = {} BY DEF ToSet
  <2> QED BY <2>2, <2>3
<1>17. OnPage(all, home)
  <2> SUFFICES ASSUME NEW line \in ToSet(all), NEW t \in ToSet(line) PROVE t.page = home
    BY DEF OnPage
  <2>1. PICK n \in 1 .. Len(run) : line \in ToSet(run[n].lines) BY <1>3, <1>4, <1>5 DEF all
  <2>2. Fine(run[n], home) BY <1>1, <1>14 DEF ToSet
  <2> QED BY <2>1, <2>2 DEF Fine, OnPage
<1>10. Proper(<<f>>, home)
  BY <1>7, <1>9, <1>16, <1>17 DEF Proper, Fine, IsText
<1>11. Carried(<<f>>, <<f>>)
  BY <1>9, ThereIsCarried
<1>12. \A line \in ToSet(all) : StillRead(line, <<f>>)
  BY <1>7, <1>9, <1>11 DEF Carried
<1>13. Carried(run, <<f>>)
  BY <1>1, <1>8, <1>12 DEF Carried, ToSet
<1> QED BY <1>10, <1>13 DEF f

LEMMA GatherKeeps ==
    ASSUME NEW home, NEW es, Proper(es, home), NEW fits \in SUBSET (DOMAIN es), NEW anchors \in SUBSET (DOMAIN es),
           NEW gap, NEW kind \in Kinds, kind # "text", \A k \in anchors : es[k].lines # <<>>
    PROVE  /\ Proper(GatherRuns(es, fits, anchors, gap, kind), home)
           /\ Carried(es, GatherRuns(es, fits, anchors, gap, kind))
<1> DEFINE GoesOn(k) == k - 1 \in fits /\ k \in fits /\ es[k].y - es[k - 1].y <= gap
           first == {k \in DOMAIN es : ~GoesOn(k)}
           starts == InOrder(first)
           End(n) == IF n = Len(starts) THEN Len(es) ELSE starts[n + 1] - 1
           Gathered(run, signs) == IF Cardinality(signs) >= 2 THEN <<Fenced(run, kind)>> ELSE run
           Run(n) == SubSeq(es, starts[n], End(n))
           parts == [n \in DOMAIN starts |-> Gathered(Run(n), anchors \cap (starts[n] .. End(n)))]
           made == FlattenSeq(parts)
<1>1. /\ es \in Seq(Entries) /\ (\A e \in ToSet(es) : Fine(e, home))
      /\ Len(es) \in Nat /\ DOMAIN es = 1 .. Len(es)
      /\ \A i \in 1 .. Len(es) : es[i] \in Entries
  BY InSequence DEF Proper
<1>2. GatherRuns(es, fits, anchors, gap, kind) = made
  BY DEF GatherRuns
<1>3. first \subseteq 1 .. Len(es) /\ (es # <<>> => 1 \in first)
  <2>1. 1 - 1 \notin fits BY <1>1
  <2>2. es # <<>> => 1 \in DOMAIN es BY <1>1, EmptySeq
  <2> QED BY <1>1, <2>1, <2>2
<1> HIDE DEF first
<1>4. /\ starts \in Seq(first) /\ Len(starts) \in Nat
      /\ DOMAIN starts = 1 .. Len(starts)
      /\ \A n \in 1 .. Len(starts) : starts[n] \in first /\ starts[n] \in 1 .. Len(es)
      /\ \A i \in first : \E n \in 1 .. Len(starts) : starts[n] = i
      /\ \A m, n \in 1 .. Len(starts) : m < n => starts[m] < starts[n]
  <2>1. IsFiniteSet(first) /\ first \subseteq Int
    <3>1. IsFiniteSet(1 .. Len(es)) BY <1>1, FS_Interval
    <3>2. IsFiniteSet(first) BY <1>3, <3>1, FS_Subset
    <3> QED BY <1>1, <1>3, <3>2
  <2>2. /\ starts \in Seq(first) /\ Len(starts) \in Nat
        /\ DOMAIN starts = 1 .. Len(starts)
        /\ \A n \in 1 .. Len(starts) : starts[n] \in first
        /\ \A i \in first : \E n \in 1 .. Len(starts) : starts[n] = i
        /\ \A m, n \in 1 .. Len(starts) : m < n => starts[m] < starts[n]
    BY <2>1, InOrderAll
  <2> QED BY <1>3, <2>2
<1> HIDE DEF starts
<1>5. ASSUME NEW n \in 1 .. Len(starts) PROVE starts[n] \in 1 .. Len(es) /\ End(n) \in starts[n] .. Len(es)
  <2>1. CASE n = Len(starts) BY <1>1, <1>4, <2>1
  <2>2. CASE n # Len(starts)
    <3>1. n + 1 \in 1 .. Len(starts) /\ n < n + 1
      <4>1. Len(starts) \in Nat BY <1>4
      <4> QED BY <2>2, <4>1
    <3>2. starts[n] < starts[n + 1] /\ starts[n] \in 1 .. Len(es) /\ starts[n + 1] \in 1 .. Len(es)
      BY <1>4, <3>1
    <3> QED BY <1>1, <2>2, <3>2
  <2> QED BY <2>1, <2>2
<1>6. ASSUME NEW n \in 1 .. Len(starts)
      PROVE  /\ Run(n) \in Seq(Entries) /\ Run(n) # <<>> /\ Proper(Run(n), home)
             /\ ToSet(Run(n)) = {es[i] : i \in starts[n] .. End(n)}
  <2>1. starts[n] \in 1 .. Len(es) + 1 /\ End(n) \in 0 .. Len(es) /\ starts[n] <= End(n)
    BY <1>1, <1>5
  <2> HIDE DEF End
  <2>2. Run(n) \in Seq(Entries) /\ ToSet(Run(n)) = {es[i] : i \in starts[n] .. End(n)}
    BY <1>1, <2>1, Part, SMTT(30)
  <2>3. starts[n] \in starts[n] .. End(n) BY <1>1, <1>5 DEF End
  <2>4. Run(n) # <<>>
    <3>1. ToSet(Run(n)) # {} BY <2>2, <2>3
    <3>2. ToSet(<<>>) = {} BY DEF ToSet
    <3> HIDE DEF Run
    <3> QED BY <3>1, <3>2
  <2>5. ToSet(Run(n)) \subseteq ToSet(es)
    <3>1. starts[n] .. End(n) \subseteq 1 .. Len(es) BY <1>1, <2>1, <1>5
    <3> QED BY <1>1, <2>2, <3>1 DEF ToSet
  <2>6. Proper(Run(n), home)
    <3> HIDE DEF Run
    <3> QED BY <1>1, <2>2, <2>5 DEF Proper
  <2> QED BY <2>2, <2>4, <2>6 DEF End
<1>7. ASSUME NEW n \in 1 .. Len(starts)
      PROVE  Proper(parts[n], home) /\ Carried(Run(n), parts[n])
  <2> DEFINE signs == anchors \cap (starts[n] .. End(n))
  <2>1. parts[n] = Gathered(Run(n), signs) BY <1>4
  <2>2. Run(n) \in Seq(Entries) /\ Run(n) # <<>> /\ Proper(Run(n), home) BY <1>6
  <2>3. ASSUME Cardinality(signs) >= 2
        PROVE  Proper(<<Fenced(Run(n), kind)>>, home) /\ Carried(Run(n), <<Fenced(Run(n), kind)>>)
    <3>1. signs # {}
      <4> HIDE DEF signs
      <4> QED BY <2>3, FS_EmptySet
    <3>3. ToSet(Run(n)) = {es[i] : i \in starts[n] .. End(n)}
      <4> HIDE DEF Run, End
      <4> QED BY <1>6
    <3>2. PICK k \in signs : es[k] \in ToSet(Run(n)) /\ es[k].lines # <<>>
      <4> HIDE DEF Run, End
      <4> QED BY <3>1, <3>3
    <3> HIDE DEF Run
    <3> QED BY <2>2, <3>2, FencedKeeps
  <2>4. Carried(Run(n), Run(n))
    <3> HIDE DEF Run
    <3> QED BY <2>2, ThereIsCarried
  <2> HIDE DEF Run, signs, parts
  <2> QED BY <2>1, <2>2, <2>3, <2>4
<1>8. DOMAIN parts = 1 .. Len(starts)
  BY <1>4
<1>9. parts \in Seq(Seq(Entries))
  <2>1. parts = [n \in 1 .. Len(starts) |-> parts[n]] BY <1>4
  <2>2. \A n \in 1 .. Len(starts) : parts[n] \in Seq(Entries) BY <1>7 DEF Proper
  <2> HIDE DEF parts
  <2> QED BY <1>4, <2>1, <2>2
<1> HIDE DEF parts
<1>10. made \in Seq(Entries) /\ ToSet(made) = UNION {ToSet(parts[n]) : n \in DOMAIN parts}
  BY <1>9, Flattened
<1> HIDE DEF made
<1>11. Proper(made, home)
  <2>1. ASSUME NEW e \in ToSet(made) PROVE Fine(e, home)
    <3>1. PICK n \in 1 .. Len(starts) : e \in ToSet(parts[n]) BY <1>8, <1>10
    <3> QED BY <1>7, <3>1 DEF Proper
  <2> QED BY <1>10, <2>1 DEF Proper
<1>12. ASSUME NEW i \in 1 .. Len(es) PROVE \E n \in 1 .. Len(starts) : i \in starts[n] .. End(n)
  <2> DEFINE later == {n \in 1 .. Len(starts) : i < starts[n]}
  <2>1. 1 \in first BY <1>1, <1>3, EmptySeq
  <2>2. PICK k \in 1 .. Len(starts) : starts[k] = 1 BY <1>4, <2>1
  <2>3. CASE later = {}
    <3>1. Len(starts) \in 1 .. Len(starts) /\ starts[Len(starts)] <= i BY <1>1, <1>4, <2>2, <2>3
    <3>2. i \in starts[Len(starts)] .. End(Len(starts)) BY <1>1, <1>4, <3>1
    <3> QED BY <3>1, <3>2
  <2>4. CASE later # {}
    <3>1. PICK m \in later : \A n \in later : m <= n
      <4>1. later \subseteq Nat BY <1>4
      <4> HIDE DEF later
      <4> QED BY <2>4, <4>1, Minimum
    <3>2. m \in 1 .. Len(starts) /\ i < starts[m] /\ m # 1
      <4>1. CASE m = 1
        <5>1. k = 1 \/ 1 < k BY <1>4, <2>2
        <5>2. starts[1] <= starts[k] /\ starts[1] \in 1 .. Len(es)
          BY <1>1, <1>4, <2>2, <3>1, <4>1, <5>1
        <5> QED BY <1>1, <2>2, <3>1, <4>1, <5>2
      <4> QED BY <3>1, <4>1
    <3>3. m - 1 \in 1 .. Len(starts) /\ m - 1 < m /\ m - 1 # Len(starts) BY <1>4, <3>2
    <3>4. m - 1 \notin later
      <4>1. m \in Nat BY <1>4, <3>2
      <4> QED BY <3>1, <3>3, <4>1
    <3>5. starts[m - 1] <= i BY <1>1, <1>4, <3>3, <3>4
    <3>6. End(m - 1) = starts[m] - 1
      <4>1. m \in Int /\ (m - 1) + 1 = m BY <1>4, <3>2
      <4> QED BY <3>3, <4>1
    <3>7. starts[m - 1] \in Int /\ starts[m] \in Int BY <1>4, <3>2, <3>3
    <3>8. i \in starts[m - 1] .. End(m - 1) BY <1>1, <3>2, <3>5, <3>6, <3>7
    <3> QED BY <3>3, <3>8
  <2> QED BY <2>3, <2>4
<1>13. Carried(es, made)
  <2> SUFFICES ASSUME NEW e \in ToSet(es), NEW line \in ToSet(e.lines) PROVE StillRead(line, made)
    BY DEF Carried
  <2>1. PICK i \in 1 .. Len(es) : e = es[i] BY <1>1 DEF ToSet
  <2>2. PICK n \in 1 .. Len(starts) : i \in starts[n] .. End(n) BY <1>12
  <2>3. e \in ToSet(Run(n)) BY <1>6, <2>1, <2>2
  <2>4. StillRead(line, parts[n]) /\ line \in Seq(Tokens)
    BY <1>1, <1>7, <2>3, ProperEntry DEF Carried
  <2>5. ToSet(parts[n]) \subseteq ToSet(made) BY <1>8, <1>10
  <2>6. parts[n] \in Seq(Entries) BY <1>7 DEF Proper
  <2>7. Carried(parts[n], made) BY <2>5, <2>6, ThereIsCarried
  <2> QED BY <1>10, <2>4, <2>6, <2>7, ReadStill
<1> QED BY <1>2, <1>11, <1>13

LEMMA DiagramsKeep ==
    ASSUME NEW home, NEW es, Proper(es, home)
    PROVE  Proper(MergeDiagramEntries(es), home) /\ Carried(es, MergeDiagramEntries(es))
<1> DEFINE fits == {i \in DOMAIN es : MayBeDrawn(es[i])}
           anchors == {i \in DOMAIN es : IsDrawn(es[i])}
<1>1. fits \in SUBSET (DOMAIN es) /\ anchors \in SUBSET (DOMAIN es) OBVIOUS
<1>4. \A k \in anchors : es[k].lines # <<>>
  <2>1. \A k \in anchors : IsText(es[k]) /\ es[k] \in ToSet(es) BY DEF IsDrawn, ToSet
  <2>2. \A k \in anchors : Len(es[k].lines) = 1 BY <2>1 DEF Proper, Fine
  <2>3. Len(<<>>) = 0 OBVIOUS
  <2> QED BY <2>2, <2>3
<1>2. "diagram" \in Kinds /\ "diagram" # "text"
  BY DEF Kinds
<1>3. MergeDiagramEntries(es) = GatherRuns(es, fits, anchors, DiagramGap, "diagram")
  BY DEF MergeDiagramEntries
<1> HIDE DEF fits, anchors
<1> QED BY <1>1, <1>2, <1>3, <1>4, GatherKeeps, Zenon

LEMMA CodeKeeps ==
    ASSUME NEW home, NEW es, Proper(es, home)
    PROVE  Proper(MergeCodeEntries(es), home) /\ Carried(es, MergeCodeEntries(es))
<1> DEFINE fits == {i \in DOMAIN es : MayBeCode(es[i])}
           anchors == {i \in DOMAIN es : IsCode(es[i])}
<1>1. fits \in SUBSET (DOMAIN es) /\ anchors \in SUBSET (DOMAIN es) OBVIOUS
<1>4. \A k \in anchors : es[k].lines # <<>>
  <2>1. \A k \in anchors : IsText(es[k]) /\ es[k] \in ToSet(es) BY DEF IsCode, ToSet
  <2>2. \A k \in anchors : Len(es[k].lines) = 1 BY <2>1 DEF Proper, Fine
  <2>3. Len(<<>>) = 0 OBVIOUS
  <2> QED BY <2>2, <2>3
<1>2. "code" \in Kinds /\ "code" # "text"
  BY DEF Kinds
<1>3. MergeCodeEntries(es) = GatherRuns(es, fits, anchors, CodeGap, "code")
  BY DEF MergeCodeEntries
<1> HIDE DEF fits, anchors
<1> QED BY <1>1, <1>2, <1>3, <1>4, GatherKeeps, Zenon

-----------------------------------------------------------------------------
(* dedupeNearbyEquationEntries. *)

LEMMA DedupingKeeps ==
    ASSUME NEW home, NEW done, Proper(done, home), NEW e \in Entries, Fine(e, home)
    PROVE  /\ Proper(Deduping(done, e), home) /\ Carried(done, Deduping(done, e))
           /\ \A line \in ToSet(e.lines) : StillRead(line, Deduping(done, e))
<1> DEFINE made == Deduping(done, e)
<1>1. /\ done \in Seq(Entries) /\ (\A d \in ToSet(done) : Fine(d, home))
      /\ Len(done) \in Nat /\ DOMAIN done = 1 .. Len(done)
  BY InSequence DEF Proper
<1>2. CASE Repeats(done, e)
  <2>1. made = done BY <1>2 DEF Deduping
  <2>2. PICK k \in DOMAIN done : Says(done[k]) = Says(e) BY <1>2 DEF Repeats, Earlier
  <2>3. done[k] \in Entries /\ done[k] \in ToSet(done) BY <1>1, EntryFields
  <2>4. ASSUME NEW line \in ToSet(e.lines) PROVE StillRead(line, done)
    <3>1. \E l \in ToSet(done[k].lines) : Reads(Words(line), l) BY <2>2, <2>3, SaidIsRead
    <3> QED BY <2>3, <3>1 DEF StillRead
  <2>5. Carried(done, done) BY <1>1, ThereIsCarried
  <2> QED BY <2>1, <2>4, <2>5
<1>3. CASE ~Repeats(done, e)
  <2>1. made = Append(done, e) BY <1>3 DEF Deduping
  <2>2. made \in Seq(Entries) /\ ToSet(made) = ToSet(done) \cup {e} BY <1>1, <2>1, Added
  <2> HIDE DEF made
  <2>3. Proper(made, home) BY <1>1, <2>2 DEF Proper
  <2>4. Carried(done, made) BY <1>1, <2>2, ThereIsCarried
  <2>5. Carried(made, made) BY <2>2, ThereIsCarried
  <2>6. \A line \in ToSet(e.lines) : StillRead(line, made) BY <2>2, <2>5 DEF Carried
  <2> QED BY <2>3, <2>4, <2>6 DEF made
<1> QED BY <1>2, <1>3

LEMMA DedupeKeeps ==
    ASSUME NEW home, NEW es, Proper(es, home)
    PROVE  Proper(DedupeNearbyEquationEntries(es), home) /\ Carried(es, DedupeNearbyEquationEntries(es))
<1> DEFINE N == Len(es)
           S == {ds \in Seq(Entries) : Proper(ds, home)}
           G == [n \in 1 .. N |-> [x \in S |-> Deduping(x, es[n])]]
           Eq(f) == f = [n \in 0 .. N |-> IF n = 0 THEN <<>> ELSE Deduping(f[n - 1], es[n])]
           F == CHOOSE f : Eq(f)
<1>1. /\ es \in Seq(Entries) /\ N \in Nat /\ DOMAIN es = 1 .. N
      /\ \A n \in 1 .. N : es[n] \in Entries /\ es[n] \in ToSet(es) /\ Fine(es[n], home)
  BY InSequence DEF Proper, ToSet
<1>2. \A x \in S, n \in 1 .. N : Deduping(x, es[n]) \in S
  BY <1>1, DedupingKeeps DEF Proper
<1>3. <<>> \in S
  <2>1. <<>> \in Seq(Entries) /\ ToSet(<<>>) = {} BY DEF ToSet
  <2> QED BY <2>1 DEF Proper
<1>4. G \in [1 .. N -> [S -> S]]
  <2> HIDE DEF S, N
  <2> QED BY <1>2
<1>5. PICK f : Solves(f, N, S, <<>>, G)
  <2> HIDE DEF S, G, N
  <2> QED BY <1>1, <1>3, <1>4, Recursion
<1>6. f \in [0 .. N -> S] /\ f[0] = <<>>
  BY <1>5 DEF Solves
<1> HIDE DEF N, S
<1>7. ASSUME NEW n \in 1 .. N PROVE n - 1 \in 0 .. N /\ f[n - 1] \in S /\ f[n] = Deduping(f[n - 1], es[n])
  <2>1. n - 1 \in 0 .. N /\ f[n - 1] \in S BY <1>1, <1>6
  <2> QED BY <1>5, <2>1 DEF Solves
<1>8. Eq(f)
  <2>1. \A n \in 0 .. N : f[n] = IF n = 0 THEN <<>> ELSE Deduping(f[n - 1], es[n])
    BY <1>1, <1>6, <1>7
  <2> QED BY <1>6, <2>1
<1>9. Eq(F)
  <2> HIDE DEF Eq
  <2> QED BY <1>8, Zenon
<1>10. DedupeNearbyEquationEntries(es) = F[N]
  BY Zenon DEF DedupeNearbyEquationEntries, N
<1>11. F[0] = <<>> /\ \A n \in 1 .. N : F[n] = Deduping(F[n - 1], es[n])
  <2>1. \A n \in 0 .. N : F[n] = IF n = 0 THEN <<>> ELSE Deduping(F[n - 1], es[n])
    <3> HIDE DEF F
    <3> QED BY <1>9, Zenon
  <2> HIDE DEF F
  <2> QED BY <1>1, <2>1
<1> HIDE DEF F
<1> DEFINE Taken(n) == /\ Proper(F[n], home)
                      /\ \A i \in 1 .. n : \A line \in ToSet(es[i].lines) : StillRead(line, F[n])
           Good == {n \in 0 .. N : Taken(n)}
<1>12. 0 \in Good
  <2>1. Proper(F[0], home) /\ \A i \in 1 .. 0 : FALSE BY <1>3, <1>11 DEF S
  <2> QED BY <1>1, <2>1
<1>13. ASSUME NEW n \in 1 .. N, n - 1 \in Good PROVE n \in Good
  <2> SUFFICES Taken(n) BY <1>1
  <2>1. Proper(F[n - 1], home) /\ es[n] \in Entries /\ Fine(es[n], home) /\ F[n] = Deduping(F[n - 1], es[n])
    BY <1>1, <1>11, <1>13
  <2>2. /\ Proper(F[n], home) /\ Carried(F[n - 1], F[n])
        /\ \A line \in ToSet(es[n].lines) : StillRead(line, F[n])
    BY <2>1, DedupingKeeps
  <2>3. ASSUME NEW i \in 1 .. n, NEW line \in ToSet(es[i].lines) PROVE StillRead(line, F[n])
    <3>1. CASE i = n BY <2>2, <3>1
    <3>2. CASE i # n
      <4>1. i \in 1 .. n - 1 /\ i \in 1 .. N BY <1>1, <3>2
      <4>2. StillRead(line, F[n - 1]) BY <1>13, <4>1
      <4>3. line \in Seq(Tokens) BY <1>1, <4>1, ProperEntry
      <4>4. F[n - 1] \in Seq(Entries) /\ F[n] \in Seq(Entries) BY <2>1, <2>2 DEF Proper
      <4> QED BY <2>2, <4>2, <4>3, <4>4, ReadStill
    <3> QED BY <3>1, <3>2
  <2> QED BY <2>2, <2>3
<1>14. Taken(N)
  <2>1. N \in Good
    <3> HIDE DEF Good
    <3> QED BY <1>1, <1>12, <1>13, Counting
  <2> QED BY <2>1
<1>15. Carried(es, F[N])
  <2> SUFFICES ASSUME NEW e \in ToSet(es), NEW line \in ToSet(e.lines) PROVE StillRead(line, F[N])
    BY DEF Carried
  <2>1. PICK i \in 1 .. N : e = es[i] BY <1>1 DEF ToSet
  <2> QED BY <1>14, <2>1
<1> QED BY <1>10, <1>14, <1>15

-----------------------------------------------------------------------------
(* Pages and what is decided about their edges. *)

LEMMA PageFields ==
    ASSUME NEW ps \in Seq(PageIRs), NEW i \in DOMAIN ps
    PROVE  /\ ps[i] \in PageIRs /\ ps[i].page \in Pages
           /\ ps[i].blocks \in Seq(Blocks) /\ ps[i].quality \in Qualities
           /\ ps[i].relations \subseteq [from : Nat, to : Nat]
           /\ ps[i].edges.headers \in Seq(Seq(Tokens)) /\ ps[i].edges.footers \in Seq(Seq(Tokens))
<1>1. ps[i] \in PageIRs
  BY InSequence
<1> QED BY <1>1 DEF PageIRs, TokenLines

LEMMA BlockFields ==
    ASSUME NEW bs \in Seq(Blocks), NEW i \in DOMAIN bs
    PROVE  /\ bs[i] \in Blocks /\ bs[i].lines \in Seq(Seq(Tokens))
           /\ bs[i].id \in Nat /\ bs[i].level \in 0 .. 6
<1>1. bs[i] \in Blocks
  BY InSequence
<1> QED BY <1>1 DEF Blocks, TokenLines

LEMMA SelectedTypes ==
    ASSUME NEW page \in PageIRs, NEW o \in Options, NEW side \in {"header", "footer"}
    PROVE  /\ SelectedEdges(page, o)[side] \in Seq(Seq(Tokens))
           /\ ToSet(SelectedEdges(page, o)[side]) \subseteq EdgesOf(page)
           /\ SelectedEdges(page, o)[side] # <<>> => Removes(o, side)
<1>1. page.edges.headers \in Seq(Seq(Tokens)) /\ page.edges.footers \in Seq(Seq(Tokens))
  BY DEF PageIRs, TokenLines
<1>2. ToSet(<<>>) = {}
  BY DEF ToSet
<1>3. CASE side = "header"
  BY <1>1, <1>2, <1>3 DEF SelectedEdges, EdgesOf, Removes
<1>4. CASE side = "footer"
  BY <1>1, <1>2, <1>4 DEF SelectedEdges, EdgesOf, Removes
<1> QED BY <1>3, <1>4

LEMMA SignatureWords ==
    ASSUME NEW line \in Seq(Tokens)
    PROVE  /\ ToSet(Signature(line)) \subseteq WordSet(line)
           /\ \A t \in ToSet(line) : t.word \in Numbers \/ t.word \in ToSet(Signature(line))
<1> DEFINE w == Words(line)
           led == IF Len(w) > 1 /\ Head(w) \in Numbers THEN Tail(w) ELSE w
           sig == IF Len(led) > 1 /\ Last(led) \in Numbers THEN Front(led) ELSE led
<1>1. Signature(line) = sig
  BY DEF Signature
<1>2. /\ w \in Seq(STRING) /\ Len(w) \in Nat /\ Len(w) = Len(line) /\ DOMAIN w = 1 .. Len(w)
      /\ \A k \in 1 .. Len(w) : w[k] = line[k].word
      /\ DOMAIN line = 1 .. Len(line)
  BY WordsOfLine, InSequence
<1>3. ToSet(w) = WordSet(line)
  BY <1>2 DEF WordSet, ToSet
<1>4. \A t \in ToSet(line) : t.word \in ToSet(w)
  BY <1>2 DEF ToSet
<1> HIDE DEF w
<1>5. led \in Seq(STRING) /\ ToSet(led) \subseteq ToSet(w) /\ ToSet(w) \subseteq ToSet(led) \cup Numbers
  <2>1. CASE Len(w) > 1 /\ Head(w) \in Numbers
    <3>1. led = Tail(w) /\ w # <<>> BY <1>2, <2>1, EmptySeq
    <3>2. /\ Tail(w) \in Seq(STRING) /\ Len(Tail(w)) = Len(w) - 1
          /\ \A i \in 1 .. Len(Tail(w)) : Tail(w)[i] = w[i + 1]
          /\ Head(w) = w[1]
      <4>1. /\ Tail(w) \in Seq(STRING) /\ Len(Tail(w)) = Len(w) - 1
            /\ \A i \in 1 .. Len(Tail(w)) : Tail(w)[i] = w[i + 1]
        BY <1>2, <3>1, HeadTailProperties, Zenon
      <4>2. Head(w) = w[1] BY DEF Head
      <4> QED BY <4>1, <4>2
    <3>3. DOMAIN Tail(w) = 1 .. Len(w) - 1 BY <3>2, InSequence
    <3>4. \A i \in 1 .. Len(w) - 1 : i + 1 \in 1 .. Len(w) /\ Tail(w)[i] = w[i + 1] BY <1>2, <3>2
    <3>5. ToSet(Tail(w)) \subseteq ToSet(w) BY <1>2, <3>3, <3>4 DEF ToSet
    <3>6. ASSUME NEW i \in 1 .. Len(w) PROVE w[i] \in ToSet(Tail(w)) \cup Numbers
      <4>1. CASE i = 1 BY <2>1, <3>2, <4>1
      <4>2. CASE i # 1
        <5>1. i - 1 \in 1 .. Len(w) - 1 /\ (i - 1) + 1 = i BY <1>2, <4>2
        <5>2. Tail(w)[i - 1] = w[i] BY <3>4, <5>1
        <5> QED BY <3>3, <5>1, <5>2 DEF ToSet
      <4> QED BY <4>1, <4>2
    <3>7. ToSet(w) \subseteq ToSet(Tail(w)) \cup Numbers BY <1>2, <3>6 DEF ToSet
    <3> HIDE DEF led
    <3> QED BY <3>1, <3>2, <3>5, <3>7
  <2>2. CASE ~(Len(w) > 1 /\ Head(w) \in Numbers) BY <1>2, <2>2
  <2> QED BY <2>1, <2>2
<1> HIDE DEF led
<1>6. ToSet(sig) \subseteq ToSet(led) /\ ToSet(led) \subseteq ToSet(sig) \cup Numbers
  <2>1. CASE Len(led) > 1 /\ Last(led) \in Numbers
    <3>1. Len(led) \in Nat /\ DOMAIN led = 1 .. Len(led) BY <1>5, InSequence
    <3>2. 1 \in 1 .. Len(led) + 1 /\ Len(led) - 1 \in 0 .. Len(led) BY <2>1, <3>1
    <3>3. ToSet(Front(led)) = {led[i] : i \in 1 .. Len(led) - 1} BY <1>5, <3>2, Part DEF Front
    <3>4. ASSUME NEW i \in 1 .. Len(led) PROVE led[i] \in ToSet(Front(led)) \cup Numbers
      <4>1. CASE i = Len(led) BY <2>1, <4>1 DEF Last
      <4>2. CASE i # Len(led)
        <5>1. i \in 1 .. Len(led) - 1
          <6> DEFINE M == Len(led)
          <6>1. M \in Nat /\ i \in 1 .. M /\ i # M BY <3>1, <4>2
          <6> HIDE DEF M
          <6>2. i \in 1 .. M - 1 BY <6>1
          <6> QED BY <6>2 DEF M
        <5> QED BY <3>3, <5>1
      <4> QED BY <4>1, <4>2
    <3>5. 1 .. Len(led) - 1 \subseteq 1 .. Len(led) BY <3>1
    <3>6. ToSet(Front(led)) \subseteq ToSet(led) BY <3>1, <3>3, <3>5 DEF ToSet
    <3> QED BY <2>1, <3>1, <3>4, <3>6 DEF ToSet
  <2>2. CASE ~(Len(led) > 1 /\ Last(led) \in Numbers) BY <2>2
  <2> QED BY <2>1, <2>2
<1> HIDE DEF sig
<1> QED BY <1>1, <1>3, <1>4, <1>5, <1>6

\* A signature that is repeated is one of another page's edges too.
LEMMA RepeatedByOther ==
    ASSUME pages \in Seq(PageIRs), NEW o \in Options, NEW i \in DOMAIN pages,
           NEW edge, Signature(edge) \in RepeatedEdgeSignatures(pages, o)
    PROVE  Repeated(edge, i)
<1> DEFINE key == Signature(edge)
           having == {j \in DOMAIN pages : key \in EdgeSignatures(pages[j], o)}
<1>1. Len(pages) \in Nat /\ DOMAIN pages = 1 .. Len(pages)
  BY InSequence
<1>2. Cardinality(having) >= RepeatThreshold(Len(pages)) /\ RepeatThreshold(Len(pages)) >= 2
  BY <1>1 DEF RepeatedEdgeSignatures, RepeatThreshold
<1>3. IsFiniteSet(having) /\ Cardinality(having) \in Nat
  <2>1. IsFiniteSet(1 .. Len(pages)) /\ having \in SUBSET (1 .. Len(pages)) BY <1>1, FS_Interval
  <2> HIDE DEF having
  <2> QED BY <2>1, FS_Subset, FS_CardinalityType
<1>4. RepeatThreshold(Len(pages)) \in Int
  BY DEF RepeatThreshold
<1>5. \E j \in having : j # i
  <2> SUFFICES ASSUME \A j \in having : j = i PROVE FALSE OBVIOUS
  <2> HIDE DEF having
  <2>1. having \in SUBSET {i} OBVIOUS
  <2>2. IsFiniteSet({i}) /\ Cardinality({i}) = 1 BY FS_Singleton
  <2>3. Cardinality(having) <= 1 BY <2>1, <2>2, FS_Subset
  <2> QED BY <1>2, <1>3, <1>4, <2>3
<1>6. PICK j \in DOMAIN pages \ {i} : key \in EdgeSignatures(pages[j], o)
  BY <1>5
<1> DEFINE hs == SelectedEdges(pages[j], o).header
           fs == SelectedEdges(pages[j], o).footer
<1>7. PICK e \in ToSet(hs \o fs) : key = Signature(e)
  BY <1>6 DEF EdgeSignatures
<1>8. /\ hs \in Seq(Seq(Tokens)) /\ ToSet(hs) \subseteq EdgesOf(pages[j])
      /\ fs \in Seq(Seq(Tokens)) /\ ToSet(fs) \subseteq EdgesOf(pages[j])
  <2>1. pages[j] \in PageIRs BY <1>6, PageFields
  <2>2. "header" \in {"header", "footer"} /\ "footer" \in {"header", "footer"} OBVIOUS
  <2>3. hs = SelectedEdges(pages[j], o)["header"] /\ fs = SelectedEdges(pages[j], o)["footer"]
    OBVIOUS
  <2> HIDE DEF hs, fs
  <2> QED BY <2>1, <2>2, <2>3, SelectedTypes
<1> HIDE DEF hs, fs
<1>9. e \in EdgesOf(pages[j])
  <2>1. ToSet(hs \o fs) = ToSet(hs) \cup ToSet(fs) BY <1>8, Concatenated
  <2> QED BY <1>7, <1>8, <2>1
<1> QED BY <1>6, <1>7, <1>9 DEF Repeated

LEMMA LinesOfPage ==
    ASSUME NEW page \in PageIRs
    PROVE  PageLines(page) \in Seq(Seq(Tokens))
<1> DEFINE bs == page.blocks
           ls == [i \in DOMAIN bs |-> bs[i].lines]
<1>1. bs \in Seq(Blocks)
  BY DEF PageIRs
<1>2. /\ Len(bs) \in Nat /\ DOMAIN bs = 1 .. Len(bs)
      /\ \A i \in 1 .. Len(bs) : bs[i].lines \in Seq(Seq(Tokens))
  BY <1>1, InSequence, BlockFields
<1>3. ls \in Seq(Seq(Seq(Tokens)))
  <2> HIDE DEF bs
  <2> QED BY <1>2
<1>4. PageLines(page) = FlattenSeq(ls)
  BY DEF PageLines
<1> HIDE DEF ls
<1> QED BY <1>3, <1>4, Flattened

\* Where the line at the edge of a page comes from.
LEMMA EdgeLineOf ==
    ASSUME NEW page \in PageIRs, NEW o \in Options, NEW side \in {"header", "footer"}
    PROVE  /\ EdgeLine(page, o, side) \in Seq(Tokens)
           /\ \/ EdgeLine(page, o, side) = <<>>
              \/ EdgeLine(page, o, side) \in EdgesOf(page)
              \/ Len(PageLines(page)) = 1 /\ EdgeLine(page, o, side) = PageLines(page)[1]
<1> DEFINE edges == SelectedEdges(page, o)[side]
           ls == PageLines(page)
<1>1. edges \in Seq(Seq(Tokens)) /\ ToSet(edges) \subseteq EdgesOf(page)
  BY SelectedTypes
<1>2. EdgeLine(page, o, side) = IF edges # <<>> THEN (IF side = "header" THEN Head(edges) ELSE Last(edges))
                                ELSE IF Len(ls) = 1 THEN ls[1] ELSE <<>>
  BY DEF EdgeLine
<1>3. ls \in Seq(Seq(Tokens))
  BY LinesOfPage
<1> HIDE DEF edges, ls
<1>4. CASE edges # <<>>
  <2>1. Len(edges) \in Nat /\ DOMAIN edges = 1 .. Len(edges) /\ Len(edges) # 0
    BY <1>1, <1>4, InSequence, EmptySeq
  <2>2. 1 \in DOMAIN edges /\ Len(edges) \in DOMAIN edges BY <2>1
  <2>3. Head(edges) = edges[1] /\ Last(edges) = edges[Len(edges)] BY DEF Head, Last
  <2>4. Head(edges) \in ToSet(edges) /\ Last(edges) \in ToSet(edges) BY <2>2, <2>3 DEF ToSet
  <2>5. Head(edges) \in Seq(Tokens) /\ Last(edges) \in Seq(Tokens) BY <1>1, <2>4, InSequence
  <2> QED BY <1>1, <1>2, <1>4, <2>4, <2>5
<1>5. CASE edges = <<>> /\ Len(ls) = 1
  <2>1. ls[1] \in Seq(Tokens)
    <3>1. 1 \in 1 .. Len(ls) BY <1>5
    <3> QED BY <1>3, <3>1, InSequence
  <2> QED BY <1>2, <1>5, <2>1 DEF ls
<1>6. CASE edges = <<>> /\ Len(ls) # 1
  BY <1>2, <1>6
<1> QED BY <1>4, <1>5, <1>6

LEMMA LargestOf ==
    ASSUME NEW N \in Int, NEW S, S \subseteq Int, \A k \in S : k <= N, S # {}
    PROVE  Max(S) \in S /\ \A k \in S : Max(S) >= k
<1> DEFINE T == {N - k : k \in S}
<1>1. T \subseteq Nat /\ T # {}
  <2>1. \A k \in S : N - k \in Nat OBVIOUS
  <2> QED BY <2>1
<1>2. PICK m \in T : \A t \in T : m <= t
  <2> HIDE DEF T
  <2> QED BY <1>1, Minimum
<1>3. PICK x \in S : m = N - x
  BY <1>2
<1>4. \A y \in S : x >= y
  <2> SUFFICES ASSUME NEW y \in S PROVE x >= y OBVIOUS
  <2>1. N - x <= N - y BY <1>2, <1>3
  <2> QED BY <2>1
<1> QED BY <1>3, <1>4 DEF Max

\* The common words of the edges are the outer words of the edge line of every page.
LEMMA CommonToAll ==
    ASSUME NEW ps \in Seq(PageIRs), NEW o \in Options, NEW side \in {"header", "footer"},
           CommonEdgeTokens(ps, o, side) # <<>>
    PROVE  LET common == CommonEdgeTokens(ps, o, side)
               line(j) == EdgeLine(ps[j], o, side)
           IN  /\ DOMAIN common = 1 .. Len(common)
               /\ Len(ps) >= 2 /\ Len(common) \in Nat /\ Len(common) >= 2
               /\ \A j \in DOMAIN ps : Len(line(j)) >= Len(common)
               /\ \A j \in DOMAIN ps : \A k \in 1 .. Len(common) :
                     Token(line(j), side, k) = Token(line(1), side, k)
               /\ \A k \in 1 .. Len(common) :
                     common[k] = line(1)[IF side = "header" THEN k
                                         ELSE Len(line(1)) - Len(common) + k].word
<1> DEFINE ls == [i \in DOMAIN ps |-> EdgeLine(ps[i], o, side)]
           Shared(n) == \A i \in DOMAIN ls : /\ Len(ls[i]) >= n
                          /\ \A k \in 1 .. n : Token(ls[i], side, k) = Token(ls[1], side, k)
           Sample(n) == [k \in 1 .. n |->
               ls[1][IF side = "header" THEN k ELSE Len(ls[1]) - n + k].word]
           usable == {n \in 2 .. 12 : Shared(n) /\ RunningFragment(Sample(n))}
           common == CommonEdgeTokens(ps, o, side)
           m == Max(usable)
<1>1. common = IF Len(ps) < 2 \/ usable = {} THEN <<>> ELSE Sample(m)
  BY DEF CommonEdgeTokens
<1>2. ~(Len(ps) < 2) /\ usable # {} /\ common = Sample(m)
  BY <1>1
<1>3. m \in 2 .. 12 /\ Shared(m)
  <2>1. 12 \in Int /\ usable \subseteq Int /\ \A k \in usable : k <= 12 OBVIOUS
  <2>2. m \in usable
    <3> HIDE DEF usable
    <3> QED BY <1>2, <2>1, LargestOf, Zenon
  <2> HIDE DEF m
  <2> QED BY <2>2
<1>4. Len(ps) \in Nat /\ DOMAIN ps = 1 .. Len(ps) /\ 1 \in DOMAIN ps
  <2>1. Len(ps) \in Nat /\ DOMAIN ps = 1 .. Len(ps) BY InSequence
  <2> HIDE DEF usable, m
  <2> QED BY <1>2, <2>1
<1> HIDE DEF m, usable
<1>5. Len(common) = m /\ DOMAIN common = 1 .. m
  BY <1>2, <1>3
<1>6. \A j \in DOMAIN ps : ls[j] = EdgeLine(ps[j], o, side) OBVIOUS
<1>7. \A k \in 1 .. m :
         common[k] = ls[1][IF side = "header" THEN k ELSE Len(ls[1]) - m + k].word
  BY <1>2
<1>8. \A j \in DOMAIN ps : /\ Len(ls[j]) >= m
                           /\ \A k \in 1 .. m : Token(ls[j], side, k) = Token(ls[1], side, k)
  BY <1>3
<1> HIDE DEF ls, common
<1>9. \A j \in DOMAIN ps : \A k \in 1 .. m :
         Token(EdgeLine(ps[j], o, side), side, k) = Token(EdgeLine(ps[1], o, side), side, k)
  BY <1>4, <1>6, <1>8
<1>10. \A k \in 1 .. m :
         common[k] = EdgeLine(ps[1], o, side)[IF side = "header" THEN k
                              ELSE Len(EdgeLine(ps[1], o, side)) - m + k].word
  BY <1>4, <1>6, <1>7
<1>11. \A j \in DOMAIN ps : Len(EdgeLine(ps[j], o, side)) >= m
  BY <1>6, <1>8
<1>12. Len(ps) >= 2 /\ m \in Nat /\ m >= 2
  BY <1>2, <1>3, <1>4
<1>13. /\ DOMAIN common = 1 .. Len(common)
       /\ Len(ps) >= 2 /\ Len(common) \in Nat /\ Len(common) >= 2
       /\ \A j \in DOMAIN ps : Len(EdgeLine(ps[j], o, side)) >= Len(common)
       /\ \A j \in DOMAIN ps : \A k \in 1 .. Len(common) :
             Token(EdgeLine(ps[j], o, side), side, k) = Token(EdgeLine(ps[1], o, side), side, k)
       /\ \A k \in 1 .. Len(common) :
             common[k] = EdgeLine(ps[1], o, side)[IF side = "header" THEN k
                                  ELSE Len(EdgeLine(ps[1], o, side)) - Len(common) + k].word
  BY <1>5, <1>9, <1>10, <1>11, <1>12, Zenon
<1> QED BY <1>13, Zenon DEF common

\* An edge that has the common words shares an end with the edge line of another page.
LEMMA MergedIsRepeated ==
    ASSUME pages \in Seq(PageIRs), NEW o \in Options, NEW side \in {"header", "footer"},
           NEW i \in DOMAIN pages, NEW edge \in Seq(Tokens),
           EdgeCommonMatch(edge, CommonEdgeTokens(pages, o, side), side)
    PROVE  Repeated(edge, i)
<1> DEFINE common == CommonEdgeTokens(pages, o, side)
           line(j) == EdgeLine(pages[j], o, side)
           n == Len(common)
           m == Len(edge)
<1>1. common # <<>> /\ m >= n
      /\ \A k \in DOMAIN common :
            EdgeToken(edge[IF side = "header" THEN k ELSE m - n + k].word) = EdgeToken(common[k])
  BY DEF EdgeCommonMatch
<1>2. /\ Len(pages) >= 2 /\ n \in Nat /\ n >= 2
      /\ \A j \in DOMAIN pages : Len(line(j)) >= n
      /\ \A j \in DOMAIN pages : \A k \in 1 .. n : Token(line(j), side, k) = Token(line(1), side, k)
      /\ \A k \in 1 .. n :
            common[k] = line(1)[IF side = "header" THEN k ELSE Len(line(1)) - n + k].word
  BY <1>1, CommonToAll
<1>3. Len(pages) \in Nat /\ DOMAIN pages = 1 .. Len(pages)
  BY InSequence
<1>4. PICK j \in DOMAIN pages \ {i} : TRUE
  <2>1. 1 \in DOMAIN pages /\ 2 \in DOMAIN pages BY <1>2, <1>3
  <2> QED BY <2>1
<1>5. DOMAIN common = 1 .. n
  BY <1>1, CommonToAll
<1>6. j \in DOMAIN pages /\ pages[j] \in PageIRs /\ pages[1] \in PageIRs
  BY <1>2, <1>3, <1>4, InSequence
<1>7. /\ line(j) \in Seq(Tokens)
      /\ \/ line(j) = <<>>
         \/ line(j) \in EdgesOf(pages[j])
         \/ Len(PageLines(pages[j])) = 1 /\ line(j) = PageLines(pages[j])[1]
  BY <1>6, EdgeLineOf
<1>8. Len(line(j)) \in Nat /\ m \in Nat /\ Len(line(1)) \in Nat /\ Len(line(j)) >= n
  BY <1>2, <1>6, <1>7, EdgeLineOf, InSequence
<1>9. line(j) # <<>>
  BY <1>2, <1>8
<1> HIDE DEF common, line, n, m
<1>10. CASE side = "header"
  <2>1. \A k \in {1, 2} : k \in 1 .. n BY <1>2
  <2>2. \A k \in {1, 2} : EdgeToken(edge[k].word) = EdgeToken(line(1)[k].word)
    BY <1>1, <1>2, <1>5, <1>10, <2>1
  <2>3. \A k \in {1, 2} : EdgeToken(line(j)[k].word) = EdgeToken(line(1)[k].word)
    BY <1>2, <1>4, <1>10, <2>1 DEF Token
  <2>4. SharesEnds(edge, line(j)) BY <1>1, <1>2, <1>8, <2>2, <2>3, SMTT(30) DEF SharesEnds, m
  <2> QED BY <1>4, <1>7, <1>9, <2>4 DEF Repeated
<1>11. CASE side = "footer"
  <2>1. \A k \in {0, 1} : n - k \in 1 .. n /\ m - n + (n - k) = m - k
                          /\ Len(line(1)) - n + (n - k) = Len(line(1)) - k
    <3> DEFINE l == Len(line(1))
    <3>1. n \in Nat /\ n >= 2 /\ m \in Nat /\ l \in Nat BY <1>2, <1>8
    <3> HIDE DEF l
    <3>2. \A k \in {0, 1} : n - k \in 1 .. n /\ m - n + (n - k) = m - k /\ l - n + (n - k) = l - k
      BY <3>1
    <3> QED BY <3>2 DEF l
  <2>2. \A k \in {0, 1} : EdgeToken(edge[m - k].word) = EdgeToken(line(1)[Len(line(1)) - k].word)
    <3> SUFFICES ASSUME NEW k \in {0, 1}
                 PROVE  EdgeToken(edge[m - k].word) = EdgeToken(line(1)[Len(line(1)) - k].word)
      OBVIOUS
    <3>1. EdgeToken(edge[m - n + (n - k)].word) = EdgeToken(common[n - k])
      BY <1>1, <1>5, <1>11, <2>1
    <3>2. common[n - k] = line(1)[Len(line(1)) - n + (n - k)].word BY <1>2, <1>11, <2>1
    <3> QED BY <2>1, <3>1, <3>2
  <2>3. \A k \in {0, 1} : k + 1 \in 1 .. n /\ Len(line(j)) + 1 - (k + 1) = Len(line(j)) - k
                          /\ Len(line(1)) + 1 - (k + 1) = Len(line(1)) - k
    BY <1>2, <1>8
  <2>4. \A k \in {0, 1} : EdgeToken(line(j)[Len(line(j)) - k].word)
                            = EdgeToken(line(1)[Len(line(1)) - k].word)
    <3> SUFFICES ASSUME NEW k \in {0, 1}
                 PROVE  EdgeToken(line(j)[Len(line(j)) - k].word)
                            = EdgeToken(line(1)[Len(line(1)) - k].word)
      OBVIOUS
    <3>1. Token(line(j), side, k + 1) = Token(line(1), side, k + 1) BY <1>2, <1>4, <2>3
    <3>2. /\ Token(line(j), side, k + 1) = EdgeToken(line(j)[Len(line(j)) + 1 - (k + 1)].word)
          /\ Token(line(1), side, k + 1) = EdgeToken(line(1)[Len(line(1)) + 1 - (k + 1)].word)
      BY <1>11 DEF Token
    <3> QED BY <2>3, <3>1, <3>2
  <2>5. SharesEnds(edge, line(j)) BY <1>1, <1>2, <1>8, <2>2, <2>4, SMTT(30) DEF SharesEnds, m
  <2> QED BY <1>4, <1>7, <1>9, <2>5 DEF Repeated
<1> QED BY <1>10, <1>11

LEMMA SignatureType ==
    ASSUME NEW line \in Seq(Tokens)
    PROVE  Signature(line) \in Seq(STRING)
<1> DEFINE w == Words(line)
           led == IF Len(w) > 1 /\ Head(w) \in Numbers THEN Tail(w) ELSE w
<1>1. Signature(line) = IF Len(led) > 1 /\ Last(led) \in Numbers THEN Front(led) ELSE led
  BY DEF Signature
<1>2. w \in Seq(STRING)
  BY WordsOfLine
<1> HIDE DEF w
<1>3. led \in Seq(STRING)
  <2>1. CASE Len(w) > 1 /\ Head(w) \in Numbers
    <3>1. w # <<>> BY <1>2, <2>1, EmptySeq
    <3> QED BY <1>2, <2>1, <3>1, HeadTailProperties
  <2>2. CASE ~(Len(w) > 1 /\ Head(w) \in Numbers) BY <1>2, <2>2
  <2> QED BY <2>1, <2>2
<1> HIDE DEF led
<1>4. CASE Len(led) > 1
  <2>1. Len(led) \in Nat BY <1>3, InSequence
  <2>2. 1 \in 1 .. Len(led) + 1 /\ Len(led) - 1 \in 0 .. Len(led) BY <1>4, <2>1
  <2>3. Front(led) \in Seq(STRING) BY <1>3, <2>2, Part DEF Front
  <2> QED BY <1>1, <1>3, <2>3
<1>5. CASE ~(Len(led) > 1)
  BY <1>1, <1>3, <1>5
<1> QED BY <1>4, <1>5

LEMMA ClassifiedEdge ==
    ASSUME pages \in Seq(PageIRs), NEW o \in Options, NEW side \in {"header", "footer"},
           NEW i \in DOMAIN pages, NEW edge \in Seq(Tokens), edge \in EdgesOf(pages[i]),
           NEW common, common # <<>> => common = CommonEdgeTokens(pages, o, side)
    PROVE  ClassifyEdge(edge, side, RepeatedEdgeSignatures(pages, o), common) \in Decisions(i)
<1> DEFINE repeated == RepeatedEdgeSignatures(pages, o)
           d == ClassifyEdge(edge, side, repeated, common)
<1>1. d = [side |-> side, text |-> edge, key |-> Signature(edge), label |-> Label(edge),
           action |-> IF Structural(edge) THEN "KEEP"
                      ELSE IF Label(edge) \/ Signature(edge) \in repeated THEN "REMOVE"
                      ELSE IF EdgeCommonMatch(edge, common, side) THEN "MERGE" ELSE "KEEP"]
  BY DEF ClassifyEdge
<1>2. Signature(edge) \in Seq(STRING) /\ Label(edge) \in BOOLEAN
  BY SignatureType DEF Label
<1>3. Signature(edge) \in repeated => Repeated(edge, i)
  BY RepeatedByOther
<1>4. EdgeCommonMatch(edge, common, side) => Repeated(edge, i)
  <2> SUFFICES ASSUME EdgeCommonMatch(edge, common, side) PROVE Repeated(edge, i) OBVIOUS
  <2>1. common = CommonEdgeTokens(pages, o, side) BY DEF EdgeCommonMatch
  <2>2. EdgeCommonMatch(edge, CommonEdgeTokens(pages, o, side), side) BY <2>1
  <2> QED BY <2>2, MergedIsRepeated
<1> HIDE DEF d, repeated
<1>5. /\ d.side = side /\ d.text = edge /\ d.key = Signature(edge) /\ d.label = Label(edge)
      /\ d.action \in {"KEEP", "REMOVE", "MERGE"}
      /\ d.action = "REMOVE" => Label(edge) \/ Signature(edge) \in repeated
      /\ d.action = "MERGE" => EdgeCommonMatch(edge, common, side)
  BY <1>1
<1>6. SoundDecision(d, i)
  BY <1>3, <1>4, <1>5 DEF SoundDecision
<1>7. d \in [side : {"header", "footer"}, text : Seq(Tokens), key : Seq(STRING), label : BOOLEAN,
             action : {"KEEP", "REMOVE", "MERGE"}]
  BY <1>1, <1>2
<1> QED BY <1>6, <1>7 DEF Decisions, d, repeated

LEMMA OnceKeeps ==
    ASSUME NEW T, NEW ds \in Seq(T)
    PROVE  Once(ds) \in Seq(T)
<1> DEFINE N == Len(ds)
           S == Seq(T)
           G == [n \in 1 .. N |-> [x \in S |-> Deciding(x, ds[n])]]
           Eq(f) == f = [n \in 0 .. N |-> IF n = 0 THEN <<>> ELSE Deciding(f[n - 1], ds[n])]
           F == CHOOSE f : Eq(f)
<1>1. N \in Nat /\ DOMAIN ds = 1 .. N /\ \A n \in 1 .. N : ds[n] \in T
  BY InSequence
<1>2. ASSUME NEW x \in S, NEW n \in 1 .. N PROVE Deciding(x, ds[n]) \in S
  BY <1>1, Added DEF Deciding
<1>3. G \in [1 .. N -> [S -> S]] /\ <<>> \in S
  <2>1. <<>> \in S OBVIOUS
  <2> HIDE DEF S, N
  <2> QED BY <1>2, <2>1
<1>4. PICK f : Solves(f, N, S, <<>>, G)
  <2> HIDE DEF S, G, N
  <2> QED BY <1>1, <1>3, Recursion
<1>5. f \in [0 .. N -> S] /\ f[0] = <<>>
  BY <1>4 DEF Solves
<1> HIDE DEF N, S
<1>6. ASSUME NEW n \in 1 .. N PROVE n - 1 \in 0 .. N /\ f[n - 1] \in S /\ f[n] = Deciding(f[n - 1], ds[n])
  <2>1. n - 1 \in 0 .. N /\ f[n - 1] \in S BY <1>1, <1>5
  <2> QED BY <1>4, <2>1 DEF Solves
<1>7. Eq(f)
  <2>1. \A n \in 0 .. N : f[n] = IF n = 0 THEN <<>> ELSE Deciding(f[n - 1], ds[n])
    BY <1>1, <1>5, <1>6
  <2> QED BY <1>5, <2>1
<1>8. Eq(F)
  <2> HIDE DEF Eq
  <2> QED BY <1>7, Zenon
<1>9. Once(ds) = F[N]
  BY Zenon DEF Once, N
<1>10. F[0] = <<>> /\ \A n \in 1 .. N : F[n] = Deciding(F[n - 1], ds[n])
  <2>1. \A n \in 0 .. N : F[n] = IF n = 0 THEN <<>> ELSE Deciding(F[n - 1], ds[n])
    <3> HIDE DEF F
    <3> QED BY <1>8, Zenon
  <2> HIDE DEF F
  <2> QED BY <1>1, <2>1
<1> HIDE DEF F
<1> DEFINE Good == {n \in 0 .. N : F[n] \in S}
<1>11. 0 \in Good
  BY <1>1, <1>3, <1>10
<1>12. ASSUME NEW n \in 1 .. N, n - 1 \in Good PROVE n \in Good
  <2>1. F[n] = Deciding(F[n - 1], ds[n]) /\ F[n - 1] \in S BY <1>10, <1>12
  <2>2. F[n] \in S BY <1>2, <2>1
  <2> QED BY <1>1, <2>2
<1>13. N \in Good
  <2> HIDE DEF Good
  <2> QED BY <1>1, <1>11, <1>12, Counting
<1> QED BY <1>9, <1>13 DEF S

\* What is decided about a page is sound.
LEMMA ClassifiedPages ==
    ASSUME pages \in Seq(PageIRs), NEW o \in Options, NEW i \in DOMAIN pages
    PROVE  ClassifyRunningMatter(pages, o)[i] \in Seq(Decisions(i))
<1>1. pages[i] \in PageIRs
  BY InSequence
<1>2. ASSUME NEW side \in {"header", "footer"}
      PROVE  ClassifySide(pages, i, o, side) \in Seq(Decisions(i))
  <2> DEFINE edges == SelectedEdges(pages[i], o)[side]
             common == IF Removes(o, side) THEN CommonEdgeTokens(pages, o, side) ELSE <<>>
             repeated == RepeatedEdgeSignatures(pages, o)
             made == [k \in DOMAIN edges |-> ClassifyEdge(edges[k], side, repeated, common)]
  <2>1. edges \in Seq(Seq(Tokens)) /\ ToSet(edges) \subseteq EdgesOf(pages[i])
    BY <1>1, SelectedTypes
  <2>2. ClassifySide(pages, i, o, side) = made BY DEF ClassifySide
  <2>3. common # <<>> => common = CommonEdgeTokens(pages, o, side) OBVIOUS
  <2> HIDE DEF edges, common
  <2>4. Len(edges) \in Nat /\ DOMAIN edges = 1 .. Len(edges) BY <2>1, InSequence
  <2>5. ASSUME NEW k \in DOMAIN edges PROVE ClassifyEdge(edges[k], side, repeated, common) \in Decisions(i)
    <3>1. edges[k] \in Seq(Tokens) /\ edges[k] \in EdgesOf(pages[i]) BY <2>1, InSequence DEF ToSet
    <3> QED BY <2>3, <3>1, ClassifiedEdge
  <2>6. made \in Seq(Decisions(i))
    <3> HIDE DEF repeated
    <3> QED BY <2>4, <2>5
  <2> QED BY <2>2, <2>6
<1>3. /\ ClassifySide(pages, i, o, "header") \in Seq(Decisions(i))
      /\ ClassifySide(pages, i, o, "footer") \in Seq(Decisions(i))
  BY <1>2
<1>4. ClassifySide(pages, i, o, "header") \o ClassifySide(pages, i, o, "footer") \in Seq(Decisions(i))
  BY <1>3, Concatenated
<1>5. ClassifyRunningMatter(pages, o)[i]
        = Once(ClassifySide(pages, i, o, "header") \o ClassifySide(pages, i, o, "footer"))
  BY DEF ClassifyRunningMatter
<1> QED BY <1>4, <1>5, OnceKeeps

-----------------------------------------------------------------------------
(* cleanBlockRunningMatter: what may be missing of a line. *)

LEMMA CleanedLine ==
    ASSUME pages \in Seq(PageIRs), NEW i \in DOMAIN pages, NEW d \in Decisions(i),
           d.action # "KEEP", NEW line \in Seq(Tokens)
    PROVE  /\ CleanLine(line, d) \in Seq(Tokens)
           /\ Explained(line, CleanLine(line, d), i)
           /\ Structural(line) => CleanLine(line, d) = line
           /\ line = <<>> => CleanLine(line, d) = <<>>
           /\ ToSet(CleanLine(line, d)) \subseteq ToSet(line)
<1> DEFINE rest == CleanLine(line, d)
           n == Len(d.text)
           m == Len(line)
<1>1. /\ d.text \in Seq(Tokens) /\ d.text \in EdgesOf(pages[i])
      /\ d.key = Signature(d.text) /\ d.label = Label(d.text)
      /\ d.side \in {"header", "footer"} /\ d.action \in {"REMOVE", "MERGE"}
      /\ Label(d.text) \/ Repeated(d.text, i)
      /\ d.action = "MERGE" => Repeated(d.text, i)
  BY DEF Decisions, SoundDecision
<1>2. n \in Nat /\ m \in Nat /\ DOMAIN d.text = 1 .. n /\ DOMAIN line = 1 .. m
  BY <1>1, InSequence
<1>3. CASE Structural(line)
  <2>1. rest = line BY <1>3 DEF CleanLine
  <2> QED BY <2>1 DEF Explained
<1>4. CASE ~Structural(line) /\ d.action = "REMOVE" /\ (Signature(line) = d.key \/ (d.label /\ Label(line)))
  <2>1. rest = <<>> BY <1>4 DEF CleanLine
  <2>2. ASSUME NEW t \in ToSet(line)
        PROVE  t.word \in Numbers \/ (Repeated(d.text, i) /\ t.word \in WordSet(d.text))
    <3>1. CASE Label(line)
      <4>1. m = 1 /\ line[1].word \in Numbers BY <3>1 DEF Label
      <4>2. t = line[1] BY <1>2, <4>1 DEF ToSet
      <4> QED BY <4>1, <4>2
    <3>2. CASE Signature(line) = Signature(d.text)
      <4>1. t.word \in Numbers \/ t.word \in WordSet(d.text) BY <1>1, <3>2, SignatureWords
      <4>2. Label(d.text) => WordSet(d.text) \subseteq Numbers BY <1>2 DEF Label, WordSet
      <4> QED BY <1>1, <4>1, <4>2
    <3> QED BY <1>1, <1>4, <3>1, <3>2
  <2>3. Explained(line, <<>>, i) BY <1>1, <2>2 DEF Explained
  <2>4. ~Structural(line) /\ ToSet(<<>>) = {} BY <1>4 DEF ToSet
  <2> QED BY <2>1, <2>3, <2>4
<1>5. CASE ~Structural(line) /\ ~(d.action = "REMOVE" /\ (Signature(line) = d.key \/ (d.label /\ Label(line))))
  <2> DEFINE here == IF d.side = "header" THEN SubSeq(line, 1, n) ELSE SubSeq(line, m - n + 1, m)
             left == IF d.side = "header" THEN SubSeq(line, n + 1, m) ELSE SubSeq(line, 1, m - n)
  <2>1. rest = StripEdgeFragment(line, d) BY <1>5 DEF CleanLine
  <2>2. rest = IF d.label \/ n > m \/ n = 0 THEN line
               ELSE IF Words(here) # Words(d.text) THEN line ELSE left
    BY <2>1 DEF StripEdgeFragment
  <2>3. CASE rest = line BY <1>5, <2>3 DEF Explained
  <2>4. CASE rest # line
    <3>1. ~d.label /\ n <= m /\ n # 0 /\ Words(here) = Words(d.text) /\ rest = left
      <4> HIDE DEF here, left, rest, n, m
      <4> QED BY <1>2, <2>2, <2>4
    <3>2. Repeated(d.text, i) BY <1>1, <3>1
    <3>3. /\ here \in Seq(Tokens) /\ left \in Seq(Tokens)
          /\ ToSet(line) \subseteq ToSet(here) \cup ToSet(left) /\ ToSet(left) \subseteq ToSet(line)
      <4>1. CASE d.side = "header"
        <5>1. here = SubSeq(line, 1, n) /\ left = SubSeq(line, n + 1, m) BY <4>1
        <5> HIDE DEF here, left, n
        <5>2. 1 \in 1 .. m + 1 /\ n \in 0 .. m /\ n + 1 \in 1 .. m + 1 /\ m \in 0 .. m BY <1>2, <3>1
        <5>3. /\ here \in Seq(Tokens) /\ ToSet(here) = {line[k] : k \in 1 .. n}
              /\ left \in Seq(Tokens) /\ ToSet(left) = {line[k] : k \in n + 1 .. m}
          <6>1. SubSeq(line, 1, n) \in Seq(Tokens) /\ ToSet(SubSeq(line, 1, n)) = {line[k] : k \in 1 .. n}
            BY <5>2, Part, ZenonT(60)
          <6>2. SubSeq(line, n + 1, m) \in Seq(Tokens) /\ ToSet(SubSeq(line, n + 1, m)) = {line[k] : k \in n + 1 .. m}
            BY <5>2, Part, ZenonT(60)
          <6> QED BY <5>1, <6>1, <6>2
        <5>4. \A k \in 1 .. m : k \in 1 .. n \/ k \in n + 1 .. m BY <1>2
        <5>5. \A k \in n + 1 .. m : k \in 1 .. m BY <1>2, <5>2
        <5> QED BY <1>2, <5>3, <5>4, <5>5 DEF ToSet
      <4>2. CASE d.side # "header"
        <5>1. here = SubSeq(line, m - n + 1, m) /\ left = SubSeq(line, 1, m - n) BY <4>2
        <5> HIDE DEF here, left, n
        <5>2. m - n + 1 \in 1 .. m + 1 /\ m \in 0 .. m /\ 1 \in 1 .. m + 1 /\ m - n \in 0 .. m
          <6> HIDE DEF m
          <6> QED BY <1>2, <3>1
        <5>3. /\ here \in Seq(Tokens) /\ ToSet(here) = {line[k] : k \in m - n + 1 .. m}
              /\ left \in Seq(Tokens) /\ ToSet(left) = {line[k] : k \in 1 .. m - n}
          <6>1. SubSeq(line, m - n + 1, m) \in Seq(Tokens) /\ ToSet(SubSeq(line, m - n + 1, m)) = {line[k] : k \in m - n + 1 .. m}
            BY <5>2, Part, ZenonT(60)
          <6>2. SubSeq(line, 1, m - n) \in Seq(Tokens) /\ ToSet(SubSeq(line, 1, m - n)) = {line[k] : k \in 1 .. m - n}
            BY <5>2, Part, ZenonT(60)
          <6> QED BY <5>1, <6>1, <6>2
        <5>4. \A k \in 1 .. m : k \in m - n + 1 .. m \/ k \in 1 .. m - n BY <1>2
        <5>5. \A k \in 1 .. m - n : k \in 1 .. m BY <1>2, <5>2
        <5> QED BY <1>2, <5>3, <5>4, <5>5 DEF ToSet
      <4> QED BY <4>1, <4>2
    <3> HIDE DEF here, left
    <3>4. \A t \in ToSet(here) : t.word \in WordSet(d.text)
      <4>1. /\ DOMAIN here = 1 .. Len(here) /\ DOMAIN Words(here) = 1 .. Len(here)
            /\ DOMAIN Words(d.text) = 1 .. n
            /\ \A k \in 1 .. Len(here) : Words(here)[k] = here[k].word
            /\ \A k \in 1 .. n : Words(d.text)[k] = d.text[k].word
        BY <1>1, <3>3, WordsOfLine, InSequence
      <4>2. \A k \in 1 .. Len(here) : k \in 1 .. n /\ here[k].word = d.text[k].word BY <3>1, <4>1
      <4> QED BY <1>2, <4>1, <4>2 DEF ToSet, WordSet
    <3>5. Explained(line, left, i) BY <1>1, <3>2, <3>3, <3>4 DEF Explained
    <3>6. line # <<>> BY <1>2, <3>1
    <3> QED BY <1>5, <3>1, <3>3, <3>5, <3>6
  <2> QED BY <2>3, <2>4
<1> QED BY <1>3, <1>4, <1>5

LEMMA ExplainedOn ==
    ASSUME NEW i, NEW a, NEW b, NEW c, Explained(a, b, i), Explained(b, c, i), b = <<>> => c = <<>>
    PROVE  Explained(a, c, i)
BY DEF Explained

LEMMA CleanedLines ==
    ASSUME pages \in Seq(PageIRs), NEW i \in DOMAIN pages, NEW d \in Decisions(i),
           NEW ls \in Seq(Seq(Tokens))
    PROVE  Leaves(ls, CleanLines(ls, d), i)
<1> DEFINE ms == CleanLines(ls, d)
<1>1. Len(ls) \in Nat /\ DOMAIN ls = 1 .. Len(ls) /\ \A k \in 1 .. Len(ls) : ls[k] \in Seq(Tokens)
  BY InSequence
<1>2. \A k \in 1 .. Len(ls) : Explained(ls[k], ls[k], i)
  BY DEF Explained
<1>3. CASE d.action = "KEEP"
  <2>1. ms = ls BY <1>3 DEF CleanLines
  <2> QED BY <1>1, <1>2, <2>1 DEF Leaves
<1>4. CASE d.action # "KEEP"
  <2> DEFINE near == NearEdge(ls, d.side)
  <2>1. ms = [k \in DOMAIN ls |-> IF k \in near THEN CleanLine(ls[k], d) ELSE ls[k]]
    BY <1>4 DEF CleanLines
  <2> HIDE DEF near
  <2>2. ASSUME NEW k \in 1 .. Len(ls)
        PROVE  /\ ms[k] \in Seq(Tokens) /\ Explained(ls[k], ms[k], i)
               /\ Structural(ls[k]) => ms[k] = ls[k]
               /\ ls[k] = <<>> => ms[k] = <<>>
               /\ ToSet(ms[k]) \subseteq ToSet(ls[k])
    <3>1. ms[k] = ls[k] \/ ms[k] = CleanLine(ls[k], d) BY <1>1, <2>1
    <3>2. CASE ms[k] = ls[k] BY <1>1, <1>2, <3>2
    <3>3. CASE ms[k] = CleanLine(ls[k], d)
      <4>1. /\ CleanLine(ls[k], d) \in Seq(Tokens)
            /\ Explained(ls[k], CleanLine(ls[k], d), i)
            /\ Structural(ls[k]) => CleanLine(ls[k], d) = ls[k]
            /\ ls[k] = <<>> => CleanLine(ls[k], d) = <<>>
            /\ ToSet(CleanLine(ls[k], d)) \subseteq ToSet(ls[k])
        BY <1>1, <1>4, CleanedLine
      <4> HIDE DEF ms
      <4> QED BY <3>3, <4>1
    <3> QED BY <3>1, <3>2, <3>3
  <2>3. ms \in Seq(Seq(Tokens)) /\ Len(ms) = Len(ls)
    <3>1. ms = [k \in 1 .. Len(ls) |-> ms[k]] BY <1>1, <2>1
    <3>2. \A k \in 1 .. Len(ls) : ms[k] \in Seq(Tokens) BY <2>2
    <3> HIDE DEF ms
    <3> QED BY <1>1, <3>1, <3>2
  <2> HIDE DEF ms
  <2>4. Leaves(ls, ms, i) BY <2>2, <2>3 DEF Leaves
  <2> QED BY <2>4 DEF ms
<1> QED BY <1>3, <1>4

LEMMA LeavesOn ==
    ASSUME NEW i, NEW ls \in Seq(Seq(Tokens)), NEW ms, NEW ns, Leaves(ls, ms, i), Leaves(ms, ns, i)
    PROVE  Leaves(ls, ns, i)
<1>1. ns \in Seq(Seq(Tokens)) /\ Len(ns) = Len(ls) /\ Len(ms) = Len(ls)
  BY DEF Leaves
<1>2. ASSUME NEW k \in 1 .. Len(ls)
      PROVE  /\ Explained(ls[k], ns[k], i)
             /\ Structural(ls[k]) => ns[k] = ls[k]
             /\ ls[k] = <<>> => ns[k] = <<>>
             /\ ToSet(ns[k]) \subseteq ToSet(ls[k])
  <2>1. /\ Explained(ls[k], ms[k], i) /\ Explained(ms[k], ns[k], i)
        /\ Structural(ls[k]) => ms[k] = ls[k]
        /\ Structural(ms[k]) => ns[k] = ms[k]
        /\ ls[k] = <<>> => ms[k] = <<>>
        /\ ms[k] = <<>> => ns[k] = <<>>
        /\ ToSet(ms[k]) \subseteq ToSet(ls[k]) /\ ToSet(ns[k]) \subseteq ToSet(ms[k])
    BY <1>1 DEF Leaves
  <2> QED BY <2>1, ExplainedOn
<1> QED BY <1>1, <1>2 DEF Leaves

\* The lines of a block after all decisions, and which of them are left.
LEMMA CleanedBlock ==
    ASSUME pages \in Seq(PageIRs), NEW i \in DOMAIN pages, NEW ds \in Seq(Decisions(i)),
           NEW ls \in Seq(Seq(Tokens))
    PROVE  LET made == CleanBlockRunningMatter(ls, ds)
           IN  /\ made \in Seq(Seq(Tokens))
               /\ \A line \in ToSet(ls) :
                     /\ Explained(line, <<>>, i) \/ \E rest \in ToSet(made) : Explained(line, rest, i)
                     /\ Structural(line) => line \in ToSet(made)
               /\ \A rest \in ToSet(made) : \E line \in ToSet(ls) : ToSet(rest) \subseteq ToSet(line)
               /\ Len(ls) = 1 /\ made # <<>> => Len(made) = 1
<1> DEFINE N == Len(ds)
           S == {ms \in Seq(Seq(Tokens)) : Leaves(ls, ms, i)}
           G == [n \in 1 .. N |-> [x \in S |-> CleanLines(x, ds[n])]]
           Eq(f) == f = [n \in 0 .. N |-> IF n = 0 THEN ls ELSE CleanLines(f[n - 1], ds[n])]
           F == CHOOSE f : Eq(f)
<1>1. N \in Nat /\ DOMAIN ds = 1 .. N /\ \A n \in 1 .. N : ds[n] \in Decisions(i)
  BY InSequence
<1>2. ASSUME NEW x \in S, NEW n \in 1 .. N PROVE CleanLines(x, ds[n]) \in S
  <2>1. Leaves(ls, x, i) /\ x \in Seq(Seq(Tokens)) /\ ds[n] \in Decisions(i) BY <1>1
  <2>2. Leaves(x, CleanLines(x, ds[n]), i) BY <2>1, CleanedLines
  <2>3. Leaves(ls, CleanLines(x, ds[n]), i) BY <2>1, <2>2, LeavesOn
  <2>4. CleanLines(x, ds[n]) \in Seq(Seq(Tokens)) BY <2>2 DEF Leaves
  <2> QED BY <2>3, <2>4
<1>3. ls \in S
  <2>1. Leaves(ls, ls, i) BY DEF Leaves, Explained
  <2> QED BY <2>1
<1>4. G \in [1 .. N -> [S -> S]]
  <2> HIDE DEF S, N
  <2> QED BY <1>2
<1>5. PICK f : Solves(f, N, S, ls, G)
  <2> HIDE DEF S, G, N
  <2> QED BY <1>1, <1>3, <1>4, Recursion
<1>6. f \in [0 .. N -> S] /\ f[0] = ls
  BY <1>5 DEF Solves
<1> HIDE DEF N, S
<1>7. ASSUME NEW n \in 1 .. N PROVE n - 1 \in 0 .. N /\ f[n - 1] \in S /\ f[n] = CleanLines(f[n - 1], ds[n])
  <2>1. n - 1 \in 0 .. N /\ f[n - 1] \in S BY <1>1, <1>6
  <2> QED BY <1>5, <2>1 DEF Solves
<1>8. Eq(f)
  <2>1. \A n \in 0 .. N : f[n] = IF n = 0 THEN ls ELSE CleanLines(f[n - 1], ds[n])
    BY <1>1, <1>6, <1>7
  <2> QED BY <1>6, <2>1
<1>9. Eq(F)
  <2> HIDE DEF Eq
  <2> QED BY <1>8, Zenon
<1> DEFINE cleaned == F[N]
<1>10. CleanBlockRunningMatter(ls, ds) = Kept(cleaned, Filled(cleaned))
  BY Zenon DEF CleanBlockRunningMatter, N
<1>11. F[0] = ls /\ \A n \in 1 .. N : F[n] = CleanLines(F[n - 1], ds[n])
  <2>1. \A n \in 0 .. N : F[n] = IF n = 0 THEN ls ELSE CleanLines(F[n - 1], ds[n])
    <3> HIDE DEF F
    <3> QED BY <1>9, Zenon
  <2> HIDE DEF F
  <2> QED BY <1>1, <2>1
<1> HIDE DEF F
<1> DEFINE Good == {n \in 0 .. N : F[n] \in S}
<1>12. 0 \in Good
  BY <1>1, <1>3, <1>11
<1>13. ASSUME NEW n \in 1 .. N, n - 1 \in Good PROVE n \in Good
  <2>1. F[n] = CleanLines(F[n - 1], ds[n]) /\ F[n - 1] \in S BY <1>11, <1>13
  <2>2. F[n] \in S BY <1>2, <2>1
  <2> QED BY <1>1, <2>2
<1>14. cleaned \in S
  <2>1. N \in Good
    <3> HIDE DEF Good
    <3> QED BY <1>1, <1>12, <1>13, Counting
  <2> QED BY <2>1
<1> HIDE DEF cleaned
<1>15. cleaned \in Seq(Seq(Tokens)) /\ Leaves(ls, cleaned, i)
  BY <1>14 DEF S
<1> DEFINE made == Kept(cleaned, Filled(cleaned))
<1>16. /\ made \in Seq(Seq(Tokens)) /\ ToSet(made) = {cleaned[k] : k \in Filled(cleaned)}
       /\ \E order \in [DOMAIN made -> Filled(cleaned)] :
             \A m, n \in DOMAIN made : order[m] = order[n] => m = n
  <2>1. Filled(cleaned) \in SUBSET (DOMAIN cleaned) BY DEF Filled
  <2>2. Kept(cleaned, Filled(cleaned)) \in Seq(Seq(Tokens)) /\ Picked(made, cleaned, Filled(cleaned))
    BY <1>15, <2>1, KeptPicked
  <2> HIDE DEF made
  <2>3. made \in Seq(Seq(Tokens)) BY <2>2 DEF made
  <2> QED BY <2>2, <2>3, Zenon DEF Picked
<1>17. DOMAIN ls = 1 .. Len(ls) /\ DOMAIN cleaned = 1 .. Len(ls)
  BY <1>15, InSequence DEF Leaves
<1> HIDE DEF made
<1>18. ASSUME NEW line \in ToSet(ls)
       PROVE  /\ Explained(line, <<>>, i) \/ \E rest \in ToSet(made) : Explained(line, rest, i)
              /\ Structural(line) => line \in ToSet(made)
  <2>1. PICK k \in 1 .. Len(ls) : line = ls[k] BY <1>17 DEF ToSet
  <2>2. /\ Explained(line, cleaned[k], i)
        /\ Structural(line) => cleaned[k] = line
    BY <1>15, <2>1 DEF Leaves
  <2>3. CASE cleaned[k] = <<>> BY <2>2, <2>3 DEF Structural
  <2>4. CASE cleaned[k] # <<>>
    <3>1. k \in Filled(cleaned) BY <1>17, <2>4 DEF Filled
    <3>2. cleaned[k] \in ToSet(made) BY <1>16, <3>1
    <3> QED BY <2>2, <3>2
  <2> QED BY <2>3, <2>4
<1>19. ASSUME NEW rest \in ToSet(made) PROVE \E line \in ToSet(ls) : ToSet(rest) \subseteq ToSet(line)
  <2>1. PICK k \in Filled(cleaned) : rest = cleaned[k] BY <1>16
  <2>2. k \in 1 .. Len(ls) /\ ls[k] \in ToSet(ls) BY <1>17 DEF Filled, ToSet
  <2> QED BY <1>15, <2>1, <2>2 DEF Leaves
<1>20. ASSUME Len(ls) = 1, made # <<>> PROVE Len(made) = 1
  <2>1. Len(made) \in Nat /\ DOMAIN made = 1 .. Len(made) /\ Len(made) # 0
    BY <1>16, <1>20, InSequence, EmptySeq
  <2>2. PICK order \in [DOMAIN made -> Filled(cleaned)] :
             \A m, n \in DOMAIN made : order[m] = order[n] => m = n
    BY <1>16
  <2>3. Filled(cleaned) \subseteq {1} BY <1>17, <1>20 DEF Filled
  <2>6. \A m \in 1 .. Len(made) : order[m] = 1 BY <2>1, <2>2, <2>3
  <2>4. \A m, n \in 1 .. Len(made) : m = n BY <2>1, <2>2, <2>6
  <2>5. 1 \in 1 .. Len(made) /\ Len(made) \in 1 .. Len(made) BY <2>1
  <2> QED BY <2>1, <2>4, <2>5
<1> QED BY <1>10, <1>16, <1>18, <1>19, <1>20 DEF made

\* What applyRunningMatterToDocumentIR makes of a page.
LEMMA AppliedPage ==
    ASSUME pages \in Seq(PageIRs), NEW i \in DOMAIN pages, NEW ds \in Seq(Decisions(i))
    PROVE  LET page == pages[i]
               made == ApplyToPage(page, ds)
           IN  /\ made \in PageIRs /\ Cleared(page, made, i)
               /\ (\A j, k \in DOMAIN page.blocks : page.blocks[j].id = page.blocks[k].id => j = k)
                     => \A j, k \in DOMAIN made.blocks : made.blocks[j].id = made.blocks[k].id => j = k
               /\ made.relations \subseteq page.relations
               /\ (\A r \in page.relations : \E b, c \in ToSet(page.blocks) : r.from = b.id /\ r.to = c.id)
                     => \A r \in made.relations : \E b, c \in ToSet(made.blocks) : r.from = b.id /\ r.to = c.id
<1> DEFINE page == pages[i]
           bs == page.blocks
           cleaned == [k \in DOMAIN bs |->
                          IF Editable(bs[k])
                          THEN [bs[k] EXCEPT !.lines = CleanBlockRunningMatter(@, ds)]
                          ELSE bs[k]]
           filled == {k \in DOMAIN cleaned : cleaned[k].lines # <<>>}
           kept == Kept(cleaned, filled)
           ids == {kept[k].id : k \in DOMAIN kept}
           rs == {r \in page.relations : r.from \in ids /\ r.to \in ids}
           made == ApplyToPage(page, ds)
<1>1. page \in PageIRs /\ bs \in Seq(Blocks)
  BY PageFields
<1>2. made = IF ds = <<>> THEN page ELSE [page EXCEPT !.blocks = kept, !.relations = rs]
  BY DEF ApplyToPage
<1> HIDE DEF page
<1>3. /\ Len(bs) \in Nat /\ DOMAIN bs = 1 .. Len(bs)
      /\ \A k \in 1 .. Len(bs) : bs[k] \in Blocks /\ bs[k].lines \in Seq(Seq(Tokens))
  BY <1>1, InSequence, BlockFields
<1>4. ASSUME NEW k \in 1 .. Len(bs)
      PROVE  /\ cleaned[k] \in Blocks /\ cleaned[k].id = bs[k].id
             /\ \A line \in ToSet(bs[k].lines) :
                   /\ \/ Explained(line, <<>>, i)
                      \/ \E rest \in ToSet(cleaned[k].lines) : Explained(line, rest, i)
                   /\ Structural(line) => line \in ToSet(cleaned[k].lines)
             /\ cleaned[k].lines # <<>> => LeftOf(bs[k], cleaned[k])
             /\ ~Editable(bs[k]) => cleaned[k] = bs[k]
  <2> DEFINE b == bs[k]
             cl == CleanBlockRunningMatter(b.lines, ds)
  <2>1. b \in Blocks /\ b.lines \in Seq(Seq(Tokens)) BY <1>3
  <2>2. cleaned[k] = IF Editable(b) THEN [b EXCEPT !.lines = cl] ELSE b BY <1>3
  <2>3. /\ cl \in Seq(Seq(Tokens))
        /\ \A line \in ToSet(b.lines) :
              /\ Explained(line, <<>>, i) \/ \E rest \in ToSet(cl) : Explained(line, rest, i)
              /\ Structural(line) => line \in ToSet(cl)
        /\ \A rest \in ToSet(cl) : \E line \in ToSet(b.lines) : ToSet(rest) \subseteq ToSet(line)
        /\ Len(b.lines) = 1 /\ cl # <<>> => Len(cl) = 1
    <3> HIDE DEF b
    <3> QED BY <2>1, CleanedBlock
  <2> HIDE DEF b, cl, cleaned
  <2>4. CASE Editable(b)
    <3>1. /\ cleaned[k] \in Blocks /\ cleaned[k].id = b.id /\ cleaned[k].lines = cl
          /\ cleaned[k].kind = b.kind /\ cleaned[k].level = b.level
      BY <2>1, <2>2, <2>3, <2>4 DEF Blocks, TokenLines
    <3>2. cl # <<>> => LeftOf(b, cleaned[k]) BY <2>3, <3>1 DEF LeftOf
    <3> QED BY <2>3, <2>4, <3>1, <3>2 DEF b
  <2>5. CASE ~Editable(b)
    <3>1. cleaned[k] = b BY <2>2, <2>5
    <3>2. \A line : Explained(line, line, i) BY DEF Explained
    <3>3. LeftOf(b, b) BY DEF LeftOf
    <3> QED BY <2>1, <2>5, <3>1, <3>2, <3>3 DEF b
  <2> QED BY <2>4, <2>5
<1>5. DOMAIN cleaned = 1 .. Len(bs) /\ cleaned \in Seq(Blocks)
  <2>1. DOMAIN cleaned = 1 .. Len(bs) /\ cleaned = [k \in 1 .. Len(bs) |-> cleaned[k]] BY <1>3
  <2>2. \A k \in 1 .. Len(bs) : cleaned[k] \in Blocks BY <1>4
  <2> HIDE DEF cleaned, bs
  <2>3. cleaned \in [1 .. Len(bs) -> Blocks] BY <2>1, <2>2
  <2> QED BY <1>3, <2>1, <2>3 DEF Seq
<1> HIDE DEF cleaned, bs
<1>6. kept \in Seq(Blocks) /\ Picked(kept, cleaned, filled)
  <2>1. filled \in SUBSET (DOMAIN cleaned) OBVIOUS
  <2>2. cleaned \in Seq(Blocks) BY <1>5
  <2> HIDE DEF filled, cleaned
  <2> QED BY <2>1, <2>2, KeptPicked
<1>7. filled \subseteq 1 .. Len(bs) /\ \A k \in 1 .. Len(bs) : k \in filled <=> cleaned[k].lines # <<>>
  BY <1>5
<1> HIDE DEF filled, kept
<1>10. /\ kept \in Seq(Blocks) /\ ToSet(kept) = {cleaned[k] : k \in filled}
       /\ \E order \in [DOMAIN kept -> filled] :
             /\ \A n \in DOMAIN kept : kept[n] = cleaned[order[n]]
             /\ \A m, n \in DOMAIN kept : order[m] = order[n] => m = n
             /\ \A k \in filled : \E n \in DOMAIN kept : order[n] = k
  BY <1>6 DEF Picked
<1>8. CASE ds = <<>>
  <2>1. made = page BY <1>2, <1>8
  <2>2. \A line : Explained(line, line, i) BY DEF Explained
  <2>3. \A b : LeftOf(b, b) BY DEF LeftOf
  <2> QED BY <1>1, <2>1, <2>2, <2>3 DEF page, Cleared
<1>9. CASE ds # <<>>
  <2>1. made = [page EXCEPT !.blocks = kept, !.relations = rs] BY <1>2, <1>9
  <2>2. rs \subseteq page.relations OBVIOUS
  <2> HIDE DEF made, rs
  <2>3. /\ made \in PageIRs /\ made.page = page.page /\ made.edges = page.edges
        /\ made.quality = page.quality /\ made.blocks = kept /\ made.relations = rs
    BY <1>1, <1>10, <2>1, <2>2 DEF PageIRs
  <2>4. ASSUME NEW b \in ToSet(bs), NEW line \in ToSet(b.lines)
        PROVE  /\ \/ Explained(line, <<>>, i)
                  \/ \E c \in ToSet(kept) :
                        c.id = b.id /\ \E rest \in ToSet(c.lines) : Explained(line, rest, i)
               /\ Structural(line) => \E c \in ToSet(kept) : line \in ToSet(c.lines)
    <3>1. PICK k \in 1 .. Len(bs) : b = bs[k] BY <1>3 DEF ToSet
    <3>2. /\ cleaned[k] \in Blocks /\ cleaned[k].id = b.id
          /\ \/ Explained(line, <<>>, i)
             \/ \E rest \in ToSet(cleaned[k].lines) : Explained(line, rest, i)
          /\ Structural(line) => line \in ToSet(cleaned[k].lines)
      BY <1>4, <3>1
    <3>3. CASE k \in filled
      <4>1. cleaned[k] \in ToSet(kept) BY <1>10, <3>3
      <4> QED BY <3>2, <4>1
    <3>4. CASE k \notin filled
      <4>1. ToSet(cleaned[k].lines) = {} BY <1>7, <3>4 DEF ToSet
      <4> QED BY <3>2, <4>1
    <3> QED BY <3>3, <3>4
  <2>6. ASSUME \A j, k \in DOMAIN bs : bs[j].id = bs[k].id => j = k,
               NEW j \in DOMAIN kept, NEW k \in DOMAIN kept, kept[j].id = kept[k].id
        PROVE  j = k
    <3>1. PICK order \in [DOMAIN kept -> filled] :
            /\ \A n \in DOMAIN kept : kept[n] = cleaned[order[n]]
            /\ \A m, n \in DOMAIN kept : order[m] = order[n] => m = n
      BY <1>10
    <3>2. order[j] \in 1 .. Len(bs) /\ order[k] \in 1 .. Len(bs) BY <1>7, <3>1
    <3>3. bs[order[j]].id = bs[order[k]].id BY <1>4, <2>6, <3>1, <3>2
    <3> QED BY <1>3, <2>6, <3>1, <3>2, <3>3
  <2>7. ASSUME NEW r \in rs PROVE \E b, c \in ToSet(kept) : r.from = b.id /\ r.to = c.id
    <3>1. r.from \in ids /\ r.to \in ids BY DEF rs
    <3> QED BY <3>1 DEF ToSet
  <2>8. ASSUME NEW c \in ToSet(kept) PROVE \E b \in ToSet(bs) : LeftOf(b, c)
    <3>1. PICK k \in filled : c = cleaned[k] BY <1>10
    <3>2. k \in 1 .. Len(bs) /\ bs[k] \in ToSet(bs) /\ cleaned[k].lines # <<>>
      BY <1>3, <1>7, <3>1 DEF ToSet
    <3> QED BY <1>4, <3>1, <3>2
  <2>9. ASSUME NEW b \in ToSet(bs), ~Editable(b), b.lines # <<>> PROVE b \in ToSet(kept)
    <3>1. PICK k \in 1 .. Len(bs) : b = bs[k] BY <1>3 DEF ToSet
    <3>2. cleaned[k] = b /\ k \in filled BY <1>4, <1>7, <2>9, <3>1
    <3> QED BY <1>10, <3>2
  <2> HIDE DEF ids
  <2>10. Cleared(page, made, i) BY <2>3, <2>4, <2>8, <2>9 DEF Cleared, bs
  <2> QED BY <2>2, <2>3, <2>6, <2>7, <2>10 DEF made, bs, page
<1> QED BY <1>8, <1>9

-----------------------------------------------------------------------------
(* The pages before the first pass *)

LEMMA TaggedWords ==
    ASSUME NEW ws \in Seq(STRING), NEW p \in Int, NEW i \in Int, NEW k \in Int
    PROVE  /\ Tagged(ws, p, i, k) \in Seq(Tokens) /\ Words(Tagged(ws, p, i, k)) = ws
           /\ \A t \in ToSet(Tagged(ws, p, i, k)) : t.page = p
<1> DEFINE made == Tagged(ws, p, i, k)
<1>1. /\ Len(ws) \in Nat /\ DOMAIN ws = 1 .. Len(ws) /\ ws \in [1 .. Len(ws) -> STRING]
      /\ \A n \in 1 .. Len(ws) : ws[n] \in STRING
  BY InSequence
<1>2. made = [n \in 1 .. Len(ws) |-> [word |-> ws[n], page |-> p, entry |-> i, at |-> <<k, n>>]]
  BY <1>1 DEF Tagged
<1> HIDE DEF made
<1>3. made \in [1 .. Len(ws) -> Tokens]
  BY <1>1, <1>2 DEF Tokens
<1>4. Words(made) = [n \in 1 .. Len(ws) |-> made[n].word]
  BY <1>3 DEF Words
<1>5. \A n \in 1 .. Len(ws) : made[n].word = ws[n]
  BY <1>2
<1>6. Words(made) = ws
  BY <1>1, <1>4, <1>5
<1>7. made \in Seq(Tokens)
  BY <1>1, <1>3 DEF Seq
<1>8. \A t \in ToSet(made) : t.page = p
  BY <1>2 DEF ToSet
<1> QED BY <1>6, <1>7, <1>8 DEF made

LEMMA TaggedTexts ==
    ASSUME NEW ts \in Texts, NEW p \in Int, NEW i \in Int
    PROVE  /\ TaggedLines(ts, p, i) \in Seq(Seq(Tokens)) /\ Len(TaggedLines(ts, p, i)) = Len(ts)
           /\ DOMAIN TaggedLines(ts, p, i) = DOMAIN ts
           /\ \A k \in DOMAIN ts : Words(TaggedLines(ts, p, i)[k]) = ts[k]
           /\ OnPage(TaggedLines(ts, p, i), p)
<1> DEFINE made == TaggedLines(ts, p, i)
<1>1. /\ Len(ts) \in Nat /\ DOMAIN ts = 1 .. Len(ts)
      /\ \A k \in 1 .. Len(ts) : ts[k] \in Seq(STRING)
  <2>1. ts \in Seq(Seq(STRING)) BY DEF Texts
  <2> QED BY <2>1, InSequence
<1>2. /\ DOMAIN made = 1 .. Len(ts)
      /\ \A k \in 1 .. Len(ts) : made[k] = Tagged(ts[k], p, i, k)
      /\ made = [k \in 1 .. Len(ts) |-> made[k]]
  BY <1>1 DEF TaggedLines
<1> HIDE DEF made
<1>3. \A k \in 1 .. Len(ts) : /\ made[k] \in Seq(Tokens) /\ Words(made[k]) = ts[k]
                              /\ \A t \in ToSet(made[k]) : t.page = p
  <2> SUFFICES ASSUME NEW k \in 1 .. Len(ts)
               PROVE  /\ made[k] \in Seq(Tokens) /\ Words(made[k]) = ts[k]
                      /\ \A t \in ToSet(made[k]) : t.page = p
    OBVIOUS
  <2>1. ts[k] \in Seq(STRING) /\ k \in Int BY <1>1
  <2> DEFINE ws == ts[k]
  <2>2. ws \in Seq(STRING) /\ k \in Int /\ made[k] = Tagged(ws, p, i, k) BY <1>2, <2>1
  <2> HIDE DEF ws
  <2>3. /\ Tagged(ws, p, i, k) \in Seq(Tokens) /\ Words(Tagged(ws, p, i, k)) = ws
        /\ \A t \in ToSet(Tagged(ws, p, i, k)) : t.page = p
    BY <2>2, TaggedWords, ZenonT(60)
  <2> QED BY <2>2, <2>3 DEF ws
<1>4. made \in Seq(Seq(Tokens)) /\ Len(made) = Len(ts)
  BY <1>1, <1>2, <1>3
<1>5. OnPage(made, p)
  BY <1>2, <1>3 DEF OnPage, ToSet
<1> QED BY <1>1, <1>2, <1>3, <1>4, <1>5 DEF made

LEMMA TaggedPage ==
    ASSUME NEW s \in Readings, NEW p \in Int
    PROVE  /\ TaggedEntries(s, p) \in Seq(Entries)
           /\ DOMAIN TaggedEntries(s, p) = DOMAIN s.entries
           /\ TaggedEdges(s, p) \in [headers : TokenLines, footers : TokenLines]
           /\ \A i \in DOMAIN s.entries :
                 /\ TaggedEntries(s, p)[i].kind = s.entries[i].kind
                 /\ TaggedEntries(s, p)[i].level = s.entries[i].level
                 /\ s.entries[i].lines \in Texts
                 /\ TaggedEntries(s, p)[i].lines = TaggedLines(s.entries[i].lines, p, i)
<1> DEFINE es == s.entries
           made == TaggedEntries(s, p)
<1>1. /\ Len(es) \in Nat /\ DOMAIN es = 1 .. Len(es)
      /\ \A i \in 1 .. Len(es) : es[i] \in ReadEntries
  <2>1. es \in Seq(ReadEntries) BY DEF Readings
  <2> QED BY <2>1, InSequence
<1>2. /\ DOMAIN made = 1 .. Len(es) /\ made = [i \in 1 .. Len(es) |-> made[i]]
      /\ \A i \in 1 .. Len(es) :
            made[i] = [es[i] EXCEPT !.lines = TaggedLines(es[i].lines, p, i)]
  BY <1>1 DEF TaggedEntries, TaggedLines
<1>3. /\ s.headers \in Texts /\ s.footers \in Texts
      /\ TaggedEdges(s, p) = [headers |-> TaggedLines(s.headers, p, 0),
                              footers |-> TaggedLines(s.footers, p, 0)]
  BY DEF Readings, TaggedEdges, TaggedLines
<1>4. TaggedLines(s.headers, p, 0) \in TokenLines /\ TaggedLines(s.footers, p, 0) \in TokenLines
  BY <1>3, TaggedTexts DEF TokenLines
<1>5. TaggedEdges(s, p) \in [headers : TokenLines, footers : TokenLines]
  BY <1>3, <1>4
<1> HIDE DEF es, made
<1>6. ASSUME NEW i \in 1 .. Len(es)
      PROVE  /\ made[i] \in Entries /\ made[i].kind = es[i].kind /\ es[i].lines \in Texts
             /\ made[i].level = es[i].level
             /\ made[i].lines = TaggedLines(es[i].lines, p, i)
  <2>1. es[i] \in ReadEntries /\ es[i].lines \in Texts /\ i \in Int BY <1>1 DEF ReadEntries
  <2>2. TaggedLines(es[i].lines, p, i) \in TokenLines BY <2>1, TaggedTexts DEF TokenLines
  <2>3. made[i] = [es[i] EXCEPT !.lines = TaggedLines(es[i].lines, p, i)] BY <1>2
  <2> QED BY <2>1, <2>2, <2>3 DEF ReadEntries, Entries
<1>7. made \in Seq(Entries)
  BY <1>1, <1>2, <1>6
<1> QED BY <1>1, <1>2, <1>5, <1>6, <1>7 DEF es, made

\* What was read is there at first.
LEMMA ReadAtFirst ==
    ASSUME NEW s \in Readings, NEW p \in Int
    PROVE  \A i \in DOMAIN s.entries : \A k \in DOMAIN s.entries[i].lines :
              /\ s.entries[i].lines[k] \in Seq(STRING)
              /\ \E e \in ToSet(TaggedEntries(s, p)) : \E line \in ToSet(e.lines) :
                    Reads(s.entries[i].lines[k], line)
<1> SUFFICES ASSUME NEW i \in DOMAIN s.entries, NEW k \in DOMAIN s.entries[i].lines
             PROVE  /\ s.entries[i].lines[k] \in Seq(STRING)
                    /\ \E e \in ToSet(TaggedEntries(s, p)) : \E line \in ToSet(e.lines) :
                          Reads(s.entries[i].lines[k], line)
  OBVIOUS
<1> DEFINE made == TaggedEntries(s, p)
           ts == s.entries[i].lines
           line == TaggedLines(ts, p, i)[k]
<1>1. /\ made \in Seq(Entries) /\ i \in DOMAIN made
      /\ made[i].lines = TaggedLines(ts, p, i) /\ ts \in Texts
  BY TaggedPage
<1>2. i \in Int /\ made[i] \in ToSet(made)
  BY <1>1, InSequence, EntryFields
<1> HIDE DEF made
<1>3. ts \in Seq(Seq(STRING)) /\ k \in DOMAIN ts
  BY <1>1 DEF Texts
<1> HIDE DEF ts
<1>4. /\ TaggedLines(ts, p, i) \in Seq(Seq(Tokens))
      /\ DOMAIN TaggedLines(ts, p, i) = DOMAIN ts /\ Words(line) = ts[k]
  BY <1>1, <1>2, <1>3, TaggedTexts
<1>5. ts[k] \in Seq(STRING)
  BY <1>3, InSequence
<1>6. line \in Seq(Tokens) /\ line \in ToSet(made[i].lines)
  BY <1>1, <1>3, <1>4, InSequence DEF ToSet
<1>7. Reads(ts[k], line)
  BY <1>4, <1>6, SameIsRead
<1> QED BY <1>2, <1>5, <1>6, <1>7 DEF ts, made

\* A page's entries are its own, and a worker's page is proper.
LEMMA ProperAtFirst ==
    ASSUME NEW s \in Readings, NEW p \in Int,
           \A i \in DOMAIN s.entries :
              LET e == s.entries[i]
              IN  /\ IsText(e) /\ (s.from = "worker" \/ IsHeading(e)) => Len(e.lines) = 1
                  /\ s.from = "worker" => e.kind \notin {"diagram", "code"}
    PROVE  /\ \A e \in ToSet(TaggedEntries(s, p)) : Read(e, p)
           /\ s.from = "worker" => Proper(TaggedEntries(s, p), p)
<1> DEFINE made == TaggedEntries(s, p)
<1>1. /\ made \in Seq(Entries) /\ DOMAIN made = DOMAIN s.entries
      /\ \A i \in DOMAIN s.entries :
            /\ made[i].kind = s.entries[i].kind /\ s.entries[i].lines \in Texts
            /\ made[i].level = s.entries[i].level
            /\ made[i].lines = TaggedLines(s.entries[i].lines, p, i)
  BY TaggedPage
<1>2. DOMAIN made = 1 .. Len(made) /\ Len(made) \in Nat
  BY <1>1, InSequence
<1> HIDE DEF made
<1>3. ASSUME NEW i \in DOMAIN made
      PROVE  Read(made[i], p) /\ (s.from = "worker" => Fine(made[i], p))
  <2>1. i \in Int BY <1>2, <1>3
  <2>2. s.entries[i].lines \in Texts /\ made[i].lines = TaggedLines(s.entries[i].lines, p, i)
    BY <1>1, <1>3
  <2>3. Len(made[i].lines) = Len(s.entries[i].lines) /\ OnPage(made[i].lines, p)
    BY <2>1, <2>2, TaggedTexts
  <2> QED BY <1>1, <1>3, <2>3 DEF Fine, Read, IsText, IsHeading
<1> QED BY <1>1, <1>3 DEF Proper, ToSet, made

\* What is carried is still read.
LEMMA ReadOn ==
    ASSUME NEW es \in Seq(Entries), NEW fs \in Seq(Entries), Carried(es, fs),
           NEW ws \in Seq(STRING),
           \E e \in ToSet(es) : \E line \in ToSet(e.lines) : Reads(ws, line)
    PROVE  \E e \in ToSet(fs) : \E line \in ToSet(e.lines) : Reads(ws, line)
<1>1. PICK e \in ToSet(es) : \E line \in ToSet(e.lines) : Reads(ws, line) OBVIOUS
<1>2. PICK line \in ToSet(e.lines) : Reads(ws, line)
  BY <1>1
<1>3. PICK f \in ToSet(fs) : \E l \in ToSet(f.lines) : Reads(Words(line), l)
  BY DEF Carried, StillRead
<1>4. PICK l \in ToSet(f.lines) : Reads(Words(line), l)
  BY <1>3
<1>5. line \in Seq(Tokens) /\ l \in Seq(Tokens)
  BY ProperEntry
<1>6. Reads(ws, l)
  BY <1>2, <1>4, <1>5, ReadThrough
<1> QED BY <1>6

-----------------------------------------------------------------------------
(* The pages as blocks *)

LEMMA Inferred ==
    ASSUME NEW e \in Entries
    PROVE  InferredType(e) \in Types
<1> DEFINE plain == {"heading", "paragraph", "table", "equation", "caption", "footnote"}
<1>1. CASE e.layout \in plain
  BY <1>1 DEF InferredType, Types
<1>2. CASE e.layout \notin plain
  BY <1>2 DEF InferredType, Types
<1> QED BY <1>1, <1>2

\* Of two blocks only one is nearer to a caption.
LEMMA NearerOnce ==
    ASSUME NEW es \in Seq(Entries), NEW c \in DOMAIN es, NEW i \in DOMAIN es, NEW j \in DOMAIN es,
           Nearer(es, c, i, j), Nearer(es, c, j, i)
    PROVE  FALSE
<1> DEFINE far(k) == IF Overlap(es[c], es[k]) THEN 0 ELSE 1
<1>1. far(i) \in Int /\ far(j) \in Int OBVIOUS
<1>2. Distance(es[c], es[i]) \in Int /\ Distance(es[c], es[j]) \in Int
  <2>1. \A k \in {c, i, j} : es[k].y \in Int /\ es[k].h \in Nat BY EntryFields
  <2>2. ASSUME NEW a, NEW b, a.y \in Int, a.h \in Nat, b.y \in Int, b.h \in Nat
        PROVE  Distance(a, b) \in Int
    BY <2>2 DEF Distance
  <2> QED BY <2>1, <2>2
<1>3. i \in Int /\ j \in Int
  BY InSequence
<1>4. /\ \/ far(i) < far(j)
         \/ /\ far(i) = far(j)
            /\ \/ Distance(es[c], es[i]) < Distance(es[c], es[j])
               \/ Distance(es[c], es[i]) = Distance(es[c], es[j]) /\ i < j
      /\ \/ far(j) < far(i)
         \/ /\ far(j) = far(i)
            /\ \/ Distance(es[c], es[j]) < Distance(es[c], es[i])
               \/ Distance(es[c], es[j]) = Distance(es[c], es[i]) /\ j < i
  BY DEF Nearer
<1> HIDE DEF far
<1> QED BY <1>1, <1>2, <1>3, <1>4

\* A caption is linked to another block, and to one only.
LEMMA Linked ==
    ASSUME NEW es \in Seq(Entries)
    PROVE  LET rs == LinkCaptionRelationships(es)
           IN  /\ rs \subseteq [from : DOMAIN es, to : DOMAIN es]
               /\ \A r \in rs : r.from # r.to
               /\ \A r, s \in rs : s.to = r.to => s = r
<1> DEFINE rs == LinkCaptionRelationships(es)
<1>1. /\ rs \subseteq [from : DOMAIN es, to : DOMAIN es]
      /\ \A r \in rs : /\ r.from \in CaptionTargets(es, r.to)
                       /\ \A i \in CaptionTargets(es, r.to) \ {r.from} : Nearer(es, r.to, r.from, i)
  BY DEF LinkCaptionRelationships
<1> HIDE DEF rs
<1>2. \A r \in rs : r.from # r.to
  BY <1>1 DEF CaptionTargets
<1>3. ASSUME NEW r \in rs, NEW s \in rs, s.to = r.to PROVE s = r
  <2>1. /\ r \in [from : DOMAIN es, to : DOMAIN es] /\ s \in [from : DOMAIN es, to : DOMAIN es]
        /\ r.from \in CaptionTargets(es, r.to) /\ s.from \in CaptionTargets(es, r.to)
    BY <1>1, <1>3
  <2>2. CASE s.from # r.from
    <3>1. Nearer(es, r.to, r.from, s.from) /\ Nearer(es, r.to, s.from, r.from)
      BY <1>1, <1>3, <2>1, <2>2
    <3>2. r.to \in DOMAIN es /\ r.from \in DOMAIN es /\ s.from \in DOMAIN es BY <2>1
    <3> QED BY <3>1, <3>2, NearerOnce
  <2>3. CASE s.from = r.from BY <1>3, <2>1, <2>3
  <2> QED BY <2>2, <2>3
<1> QED BY <1>1, <1>2, <1>3 DEF rs

LEMMA MadePage ==
    ASSUME given \in [Pages -> Sources], entries \in [Pages -> Seq(Entries)], NEW p \in Pages
    PROVE  /\ PageIR(p) \in PageIRs /\ PageIR(p).page = p /\ PageIR(p).quality = given[p].quality
           /\ LinkedPage(PageIR(p))
           /\ \A b \in ToSet(PageIR(p).blocks) : \E e \in ToSet(entries[p]) : SameText(b, e)
           /\ \A e \in ToSet(entries[p]) : \E b \in ToSet(PageIR(p).blocks) : SameText(b, e)
<1> DEFINE es == entries[p]
           Block(i) == [id |-> i, kind |-> es[i].kind, level |-> es[i].level,
                        type |-> InferredType(es[i]), lines |-> es[i].lines]
           bs == [i \in DOMAIN es |-> Block(i)]
           rs == IF given[p].from = "worker" THEN LinkCaptionRelationships(es) ELSE {}
           made == PageIR(p)
<1>1. made = [page |-> p, blocks |-> bs, relations |-> rs,
              edges |-> TaggedEdges(given[p], p), quality |-> given[p].quality]
  BY DEF PageIR
<1>2. es \in Seq(Entries) /\ given[p] \in Readings /\ p \in Int
  BY DocumentAssumption DEF Pages
<1>3. TaggedEdges(given[p], p) \in [headers : TokenLines, footers : TokenLines]
  BY <1>2, TaggedPage
<1>4. given[p].quality \in Qualities
  BY <1>2 DEF Readings
<1> HIDE DEF es
<1>5. /\ Len(es) \in Nat /\ DOMAIN es = 1 .. Len(es)
      /\ \A i \in 1 .. Len(es) : es[i] \in Entries
  BY <1>2, InSequence
<1>6. ASSUME NEW i \in 1 .. Len(es) PROVE Block(i) \in Blocks /\ Block(i).id = i
  <2>1. InferredType(es[i]) \in Types /\ es[i] \in Entries BY <1>5, Inferred
  <2> QED BY <2>1, <1>5 DEF Blocks, Entries
<1>7. DOMAIN bs = 1 .. Len(es) /\ \A i \in 1 .. Len(es) : bs[i] = Block(i)
  BY <1>5
<1>8. bs \in Seq(Blocks) /\ \A i \in 1 .. Len(es) : bs[i].id = i /\ bs[i] \in ToSet(bs)
  <2>1. bs = [i \in 1 .. Len(es) |-> bs[i]] BY <1>5
  <2> HIDE DEF bs, Block
  <2>2. \A i \in 1 .. Len(es) : bs[i] \in Blocks /\ bs[i].id = i BY <1>6, <1>7
  <2>3. bs \in Seq(Blocks) BY <1>5, <2>1, <2>2
  <2> QED BY <1>7, <2>2, <2>3 DEF ToSet
<1>9. /\ rs \subseteq [from : 1 .. Len(es), to : 1 .. Len(es)]
      /\ \A r \in rs : r.from # r.to
      /\ \A r, s \in rs : s.to = r.to => s = r
  BY <1>2, <1>5, Linked
<1>10. rs \subseteq [from : Nat, to : Nat]
  BY <1>5, <1>9
<1> HIDE DEF bs, rs, made
<1>11. /\ made.page = p /\ made.blocks = bs /\ made.relations = rs
       /\ made.quality = given[p].quality
  BY <1>1
<1>12. made \in PageIRs
  BY <1>1, <1>3, <1>4, <1>8, <1>10 DEF PageIRs
<1>13. LinkedPage(made)
  BY <1>7, <1>8, <1>9, <1>11 DEF LinkedPage
<1>14. \A i \in 1 .. Len(es) : SameText(bs[i], es[i]) /\ bs[i] \in ToSet(bs) /\ es[i] \in ToSet(es)
  BY <1>5, <1>7, <1>8 DEF SameText, ToSet
<1>15. \A b \in ToSet(bs) : \E e \in ToSet(es) : SameText(b, e)
  BY <1>7, <1>14 DEF ToSet
<1>16. \A e \in ToSet(es) : \E b \in ToSet(bs) : SameText(b, e)
  BY <1>5, <1>14 DEF ToSet
<1> QED BY <1>11, <1>12, <1>13, <1>15, <1>16 DEF made, es

\* The document has the pages that are there, each once.
LEMMA MadeDocument ==
    ASSUME given \in [Pages -> Sources], entries \in [Pages -> Seq(Entries)]
    PROVE  LET order == InOrder(Present)
               made == [i \in DOMAIN order |-> PageIR(order[i])]
           IN  /\ made \in Seq(PageIRs) /\ Len(made) = Cardinality(Present)
               /\ \A i \in DOMAIN made :
                     /\ made[i].page \in Present /\ LinkedPage(made[i])
                     /\ \A b \in ToSet(made[i].blocks) :
                           \E e \in ToSet(entries[made[i].page]) : SameText(b, e)
                     /\ \A j \in DOMAIN made : i < j => made[i].page < made[j].page
               /\ \A p \in Present : \E i \in DOMAIN made :
                     /\ made[i].page = p /\ made[i].quality = given[p].quality
                     /\ \A e \in ToSet(entries[p]) : \E b \in ToSet(made[i].blocks) : SameText(b, e)
<1> DEFINE order == InOrder(Present)
           made == [i \in DOMAIN order |-> PageIR(order[i])]
<1>1. Present \subseteq Pages /\ PageCount \in Nat /\ Pages = 1 .. PageCount
  BY DocumentAssumption DEF Present, From, Pages
<1>2. IsFiniteSet(Present) /\ Present \subseteq Int
  <2>1. IsFiniteSet(1 .. PageCount) /\ Present \in SUBSET (1 .. PageCount) BY <1>1, FS_Interval
  <2>2. IsFiniteSet(Present) BY <2>1, FS_Subset
  <2> QED BY <2>1, <2>2
<1>3. /\ Len(order) = Cardinality(Present) /\ Len(order) \in Nat /\ DOMAIN order = 1 .. Len(order)
      /\ \A i \in 1 .. Len(order) : order[i] \in Present
      /\ \A p \in Present : \E i \in 1 .. Len(order) : order[i] = p
      /\ \A i, j \in 1 .. Len(order) : i < j => order[i] < order[j]
  BY <1>2, InOrderAll
<1> HIDE DEF order
<1>4. ASSUME NEW i \in 1 .. Len(order)
      PROVE  /\ made[i] \in PageIRs /\ made[i].page = order[i]
             /\ made[i].quality = given[order[i]].quality /\ LinkedPage(made[i])
             /\ \A b \in ToSet(made[i].blocks) : \E e \in ToSet(entries[order[i]]) : SameText(b, e)
             /\ \A e \in ToSet(entries[order[i]]) : \E b \in ToSet(made[i].blocks) : SameText(b, e)
  <2>1. order[i] \in Pages /\ made[i] = PageIR(order[i]) BY <1>1, <1>3
  <2> HIDE DEF made
  <2> QED BY <2>1, MadePage
<1>5. DOMAIN made = 1 .. Len(order) /\ made = [i \in 1 .. Len(order) |-> made[i]]
  BY <1>3
<1> HIDE DEF made
<1>6. made \in Seq(PageIRs) /\ Len(made) = Len(order)
  BY <1>3, <1>4, <1>5, SMTT(30)
<1>7. ASSUME NEW i \in 1 .. Len(order)
      PROVE  /\ made[i].page \in Present /\ LinkedPage(made[i])
             /\ \A b \in ToSet(made[i].blocks) : \E e \in ToSet(entries[made[i].page]) : SameText(b, e)
             /\ \A j \in 1 .. Len(order) : i < j => made[i].page < made[j].page
  BY <1>3, <1>4
<1>8. ASSUME NEW p \in Present
      PROVE  \E i \in 1 .. Len(order) :
                /\ made[i].page = p /\ made[i].quality = given[p].quality
                /\ \A e \in ToSet(entries[p]) : \E b \in ToSet(made[i].blocks) : SameText(b, e)
  <2>1. PICK i \in 1 .. Len(order) : order[i] = p BY <1>3
  <2> QED BY <1>4, <2>1
<1>9. Len(made) = Cardinality(Present)
  BY <1>3, <1>6
<1> QED BY <1>5, <1>6, <1>7, <1>8, <1>9, Zenon DEF made, order

-----------------------------------------------------------------------------
(* Reading a document line by line. What a reader knows after some lines is   *)
(* a state: every pass of the cleanup is shown to leave a document that takes *)
(* the reader from the same beginning to the same end.                        *)

LEMMA TakesNothing ==
    ASSUME NEW m, NEW q \in Readers
    PROVE  Takes(m, <<>>, q, q)
<1> DEFINE w == [i \in 0 .. 0 |-> q]
<1>1. Len(<<>>) = 0 /\ 1 .. 0 = {} OBVIOUS
<1>2. w \in [0 .. 0 -> Readers] /\ w[0] = q OBVIOUS
<1> HIDE DEF w
<1>3. Walk(m, <<>>, w)
  BY <1>1, <1>2 DEF Walk
<1> QED BY <1>1, <1>2, <1>3 DEF Takes

LEMMA TakesBoth ==
    ASSUME NEW m, NEW x \in Seq(Lines), NEW y \in Seq(Lines), NEW q, NEW r, NEW e,
           Takes(m, x, q, r), Takes(m, y, r, e)
    PROVE  Takes(m, x \o y, q, e)
<1> DEFINE L == Len(x)  M == Len(y)
<1>1. PICK v : Walk(m, x, v) /\ v[0] = q /\ v[Len(x)] = r
  BY DEF Takes
<1>2. PICK w : Walk(m, y, w) /\ w[0] = r /\ w[Len(y)] = e
  BY DEF Takes
<1>3. /\ Len(x \o y) = L + M
      /\ \A i \in 1 .. L + M : (x \o y)[i] = IF i <= L THEN x[i] ELSE y[i - L]
  BY ConcatProperties
<1>4. L \in Nat /\ M \in Nat
  BY InSequence
<1>5. /\ v \in [0 .. L -> Readers] /\ \A i \in 1 .. L : Moves(m, v[i - 1], x[i], v[i])
      /\ w \in [0 .. M -> Readers] /\ \A i \in 1 .. M : Moves(m, w[i - 1], y[i], w[i])
  BY <1>1, <1>2 DEF Walk
<1> DEFINE u == [i \in 0 .. L + M |-> IF i <= L THEN v[i] ELSE w[i - L]]
<1> HIDE DEF L, M
<1>6. u \in [0 .. L + M -> Readers]
  <2>1. \A i \in 0 .. L + M : i <= L \/ i - L \in 0 .. M BY <1>4
  <2>2. \A i \in 0 .. L + M : i <= L => i \in 0 .. L BY <1>4
  <2> QED BY <1>5, <2>1, <2>2
<1>11. \A i \in 0 .. L + M : u[i] = IF i <= L THEN v[i] ELSE w[i - L] OBVIOUS
<1> HIDE DEF u
<1>7. ASSUME NEW i \in 1 .. L + M PROVE Moves(m, u[i - 1], (x \o y)[i], u[i])
  <2>1. i - 1 \in 0 .. L + M /\ i \in 0 .. L + M BY <1>4
  <2>2. CASE i <= L
    <3>2. i - 1 <= L /\ i \in 1 .. L BY <1>4, <2>2
    <3>1. u[i - 1] = v[i - 1] /\ u[i] = v[i] /\ (x \o y)[i] = x[i] /\ i \in 1 .. L
      BY <1>3, <1>11, <2>1, <2>2, <3>2
    <3> QED BY <1>5, <3>1
  <2>3. CASE i = L + 1
    <3>1. i - 1 = L /\ i - L = 1 /\ ~(i <= L) /\ 1 \in 1 .. M /\ i - 1 <= L BY <1>4, <2>3
    <3>3. u[i - 1] = v[L] /\ u[i] = w[1] /\ (x \o y)[i] = y[1] BY <1>3, <1>11, <2>1, <3>1
    <3>2. v[L] = w[0] /\ 1 - 1 = 0 BY <1>1, <1>2 DEF L
    <3> QED BY <1>5, <3>1, <3>2, <3>3
  <2>4. CASE i > L + 1
    <3>1. /\ ~(i - 1 <= L) /\ ~(i <= L)
          /\ i - L \in 1 .. M /\ (i - 1) - L = (i - L) - 1
      BY <1>4, <2>4
    <3>2. u[i - 1] = w[(i - L) - 1] /\ u[i] = w[i - L] /\ (x \o y)[i] = y[i - L]
      BY <1>3, <1>11, <2>1, <3>1
    <3> QED BY <1>5, <3>1, <3>2
  <2>5. i <= L \/ i = L + 1 \/ i > L + 1 BY <1>4
  <2> QED BY <2>2, <2>3, <2>4, <2>5
<1>8. Walk(m, x \o y, u)
  BY <1>3, <1>6, <1>7 DEF Walk, L, M
<1>9. u[0] = q
  BY <1>1, <1>4, <1>11
<1>10. u[L + M] = e
  <2>1. CASE M = 0 BY <1>1, <1>2, <1>4, <1>11, <2>1 DEF L, M
  <2>2. CASE M # 0
    <3>1. ~(L + M <= L) /\ (L + M) - L = M BY <1>4, <2>2
    <3> QED BY <1>2, <1>4, <1>11, <3>1 DEF M
  <2> QED BY <2>1, <2>2
<1> QED BY <1>3, <1>8, <1>9, <1>10 DEF Takes, L, M

\* A part of what is read.
LEMMA TakesPart ==
    ASSUME NEW m, NEW ls \in Seq(Lines), NEW w \in [0 .. Len(ls) -> Readers],
           NEW a \in 1 .. Len(ls) + 1, NEW b \in 0 .. Len(ls), a <= b + 1,
           \A i \in a .. b : Moves(m, w[i - 1], ls[i], w[i])
    PROVE  Takes(m, SubSeq(ls, a, b), w[a - 1], w[b])
<1> DEFINE part == SubSeq(ls, a, b)  v == [i \in 0 .. b - a + 1 |-> w[(a - 1) + i]]
<1>1. Len(ls) \in Nat /\ Len(part) = b - a + 1 /\ \A i \in 1 .. b - a + 1 : part[i] = ls[a + i - 1]
  <2>1. Len(ls) \in Nat BY InSequence
  <2>2. Len(part) = IF a <= b THEN b - a + 1 ELSE 0 BY Part
  <2>3. \A i \in 1 .. b - a + 1 : part[i] = ls[a + i - 1] BY Part
  <2> QED BY <2>1, <2>2, <2>3
<1> HIDE DEF part
<1>3. \A i \in 0 .. b - a + 1 : (a - 1) + i \in 0 .. Len(ls)
  BY <1>1
<1>4. v \in [0 .. b - a + 1 -> Readers]
  BY <1>3
<1>5. ASSUME NEW i \in 1 .. b - a + 1 PROVE Moves(m, v[i - 1], part[i], v[i])
  <2>1. /\ a + i - 1 \in a .. b /\ (a - 1) + (i - 1) = (a + i - 1) - 1 /\ (a - 1) + i = a + i - 1
        /\ i - 1 \in 0 .. b - a + 1 /\ i \in 0 .. b - a + 1
    BY <1>1
  <2>2. v[i - 1] = w[(a + i - 1) - 1] /\ v[i] = w[a + i - 1] /\ part[i] = ls[a + i - 1]
    BY <1>1, <2>1
  <2> HIDE DEF v
  <2> QED BY <2>1, <2>2
<1>6. v[0] = w[a - 1] /\ v[b - a + 1] = w[b]
  BY <1>1
<1> HIDE DEF v
<1>7. Walk(m, part, v)
  BY <1>1, <1>4, <1>5 DEF Walk
<1> QED BY <1>1, <1>6, <1>7 DEF Takes, part

LEMMA TakesLine ==
    ASSUME NEW m, NEW l \in Lines, NEW q \in Readers, NEW r \in Readers, Moves(m, q, l, r)
    PROVE  Takes(m, <<l>>, q, r)
<1> DEFINE w == [i \in 0 .. 1 |-> IF i = 0 THEN q ELSE r]
<1>1. Len(<<l>>) = 1 /\ <<l>>[1] = l /\ \A i \in 1 .. 1 : i = 1 OBVIOUS
<1>2. w \in [0 .. 1 -> Readers] /\ w[0] = q /\ w[1] = r OBVIOUS
<1> HIDE DEF w
<1>3. Walk(m, <<l>>, w)
  <2>1. Moves(m, w[1 - 1], <<l>>[1], w[1]) BY <1>1, <1>2
  <2> QED BY <1>1, <1>2, <2>1 DEF Walk
<1> QED BY <1>1, <1>2, <1>3 DEF Takes

\* The first line that is read.
LEMMA TakesFirst ==
    ASSUME NEW m, NEW ls \in Seq(Lines), ls # <<>>, NEW q, NEW e, Takes(m, ls, q, e)
    PROVE  /\ q \in Readers /\ ls[1] \in Lines /\ Tail(ls) \in Seq(Lines)
           /\ \E r \in Readers : Moves(m, q, ls[1], r) /\ Takes(m, Tail(ls), r, e)
<1>1. PICK w : Walk(m, ls, w) /\ w[0] = q /\ w[Len(ls)] = e
  BY DEF Takes
<1>2. Len(ls) \in Nat /\ Len(ls) # 0 /\ \A i \in 1 .. Len(ls) : ls[i] \in Lines
  BY InSequence, EmptySeq
<1>3. w \in [0 .. Len(ls) -> Readers] /\ \A i \in 1 .. Len(ls) : Moves(m, w[i - 1], ls[i], w[i])
  BY <1>1 DEF Walk
<1>4. w[1] \in Readers /\ w[0] \in Readers /\ Moves(m, w[1 - 1], ls[1], w[1])
  BY <1>2, <1>3
<1>5. Tail(ls) = SubSeq(ls, 2, Len(ls))
  BY <1>2
<1>6. Takes(m, SubSeq(ls, 2, Len(ls)), w[2 - 1], w[Len(ls)])
  <2>1. 2 \in 1 .. Len(ls) + 1 /\ Len(ls) \in 0 .. Len(ls) /\ 2 <= Len(ls) + 1 BY <1>2
  <2>2. \A i \in 2 .. Len(ls) : Moves(m, w[i - 1], ls[i], w[i]) BY <1>3
  <2> QED BY <1>3, <2>1, <2>2, TakesPart
<1>7. SubSeq(ls, 2, Len(ls)) \in Seq(Lines)
  BY <1>2, Part
<1>8. 2 - 1 = 1 /\ 1 - 1 = 0 OBVIOUS
<1>9. ls[1] \in Lines
  BY <1>2
<1>10. Moves(m, q, ls[1], w[1]) /\ Takes(m, Tail(ls), w[1], e) /\ q \in Readers
  BY <1>1, <1>4, <1>5, <1>6, <1>8
<1>11. Tail(ls) \in Seq(Lines)
  BY <1>5, <1>7
<1> QED BY <1>4, <1>9, <1>10, <1>11

-----------------------------------------------------------------------------
(* Passes that work their way through the lines: what they make of the lines   *)
(* from i on is what they make of the first of them, before what they make of   *)
(* the rest.                                                                    *)

LEMMA CountingDown ==
    ASSUME NEW N \in Nat, NEW Good, N + 1 \in Good,
           \A i \in 1 .. N : (\A j \in i + 1 .. N + 1 : j \in Good) => i \in Good
    PROVE  \A i \in 1 .. N + 1 : i \in Good
<1> DEFINE Sure == {n \in 0 .. N : \A j \in N + 1 - n .. N + 1 : j \in Good}
<1>1. 0 \in Sure
  <2>1. \A j \in N + 1 - 0 .. N + 1 : j = N + 1 OBVIOUS
  <2> QED BY <2>1
<1>2. ASSUME NEW n \in 1 .. N, n - 1 \in Sure PROVE n \in Sure
  <2>1. N + 1 - n \in 1 .. N /\ N + 1 - (n - 1) = (N + 1 - n) + 1 OBVIOUS
  <2>2. \A j \in (N + 1 - n) + 1 .. N + 1 : j \in Good BY <1>2, <2>1
  <2>3. N + 1 - n \in Good BY <2>1, <2>2
  <2>4. \A j \in N + 1 - n .. N + 1 : j = N + 1 - n \/ j \in (N + 1 - n) + 1 .. N + 1 OBVIOUS
  <2> QED BY <2>2, <2>3, <2>4
<1>3. \A n \in 0 .. N : n \in Sure
  <2> HIDE DEF Sure
  <2> QED BY <1>1, <1>2, Counting
<1>4. ASSUME NEW i \in 1 .. N PROVE i \in Good
  <2>1. N + 1 - i \in 0 .. N /\ N + 1 - (N + 1 - i) = i /\ i \in i .. N + 1 OBVIOUS
  <2> QED BY <1>3, <2>1
<1> QED BY <1>4

\* A function that is computed from a later value of itself is one.
LEMMA BackwardRecursion ==
    ASSUME NEW S, NEW base \in S, NEW N \in Nat, NEW Jump \in [1 .. N -> 1 .. N + 1],
           \A i \in 1 .. N : Jump[i] > i, NEW G \in [1 .. N -> [S -> S]]
    PROVE  \E f : SolvesBack(f, N, S, base, Jump, G)
<1> DEFINE Made(n, f) == /\ f \in [N + 1 - n .. N + 1 -> S] /\ f[N + 1] = base
                         /\ \A i \in N + 1 - n .. N : f[i] = G[i][f[Jump[i]]]
           Good == {n \in 0 .. N : \E f : Made(n, f)}
<1>1. 0 \in Good
  <2> DEFINE g == [i \in N + 1 - 0 .. N + 1 |-> base]
  <2>1. Made(0, g)
    <3>1. N + 1 - 0 .. N = {} /\ N + 1 \in N + 1 - 0 .. N + 1 OBVIOUS
    <3> QED BY <3>1
  <2> HIDE DEF g, Made
  <2> QED BY <2>1
<1>2. ASSUME NEW n \in 1 .. N, n - 1 \in Good PROVE n \in Good
  <2>1. PICK f : Made(n - 1, f) BY <1>2
  <2> DEFINE a == N + 1 - n
             g == [i \in a .. N + 1 |-> IF i = a THEN G[a][f[Jump[a]]] ELSE f[i]]
  <2>2. a \in 1 .. N /\ N + 1 - (n - 1) = a + 1 OBVIOUS
  <2>3. f \in [a + 1 .. N + 1 -> S] /\ f[N + 1] = base /\ \A i \in a + 1 .. N : f[i] = G[i][f[Jump[i]]]
    BY <2>1, <2>2
  <2> HIDE DEF a, Made
  <2>4. Jump[a] \in a + 1 .. N + 1 BY <2>2
  <2>5. G[a][f[Jump[a]]] \in S BY <2>2, <2>3, <2>4
  <2>6. \A i \in a .. N + 1 : i = a \/ i \in a + 1 .. N + 1 BY <2>2
  <2>7. g \in [a .. N + 1 -> S] BY <2>3, <2>5, <2>6
  <2>8. \A i \in a + 1 .. N + 1 : g[i] = f[i] BY <2>2
  <2>9. g[a] = G[a][f[Jump[a]]] /\ N + 1 \in a + 1 .. N + 1 BY <2>2
  <2> HIDE DEF g
  <2>10. ASSUME NEW i \in a .. N PROVE g[i] = G[i][g[Jump[i]]]
    <3>1. CASE i = a BY <2>4, <2>8, <2>9, <3>1
    <3>2. CASE i # a
      <4>1. i \in a + 1 .. N /\ i \in 1 .. N BY <2>2, <3>2
      <4>2. Jump[i] \in a + 1 .. N + 1 BY <2>2, <4>1
      <4>3. i \in a + 1 .. N + 1 BY <2>2, <4>1
      <4> QED BY <2>3, <2>8, <4>1, <4>2, <4>3
    <3> QED BY <3>1, <3>2
  <2>11. g[N + 1] = base BY <2>3, <2>8, <2>9
  <2>12. Made(n, g) BY <2>7, <2>10, <2>11 DEF Made, a
  <2> QED BY <2>12
<1>3. N \in Good
  <2> HIDE DEF Good
  <2> QED BY <1>1, <1>2, Counting
<1>4. PICK f : Made(N, f)
  BY <1>3
<1>5. N + 1 - N = 1 OBVIOUS
<1> QED BY <1>4, <1>5 DEF SolvesBack

LEMMA ThereAreChunks ==
    ASSUME NEW T, NEW N \in Nat, NEW Jump \in [1 .. N -> 1 .. N + 1],
           \A i \in 1 .. N : Jump[i] > i, NEW chunk \in [1 .. N -> Seq(T)]
    PROVE  \E f : /\ f \in [1 .. N + 1 -> Seq(T)] /\ Chunks(f, N, Jump, chunk)
<1> DEFINE G == [i \in 1 .. N |-> [rest \in Seq(T) |-> chunk[i] \o rest]]
<1>1. G \in [1 .. N -> [Seq(T) -> Seq(T)]] /\ <<>> \in Seq(T)
  BY Concatenated
<1>2. \A i \in 1 .. N : \A rest \in Seq(T) : G[i][rest] = chunk[i] \o rest OBVIOUS
<1> HIDE DEF G
<1>3. PICK f \in [1 .. N + 1 -> Seq(T)] :
         f[N + 1] = <<>> /\ \A i \in 1 .. N : f[i] = G[i][f[Jump[i]]]
  <2>1. PICK f : SolvesBack(f, N, Seq(T), <<>>, Jump, G) BY <1>1, BackwardRecursion
  <2> QED BY <2>1 DEF SolvesBack
<1>4. ASSUME NEW i \in 1 .. N PROVE f[i] = chunk[i] \o f[Jump[i]]
  <2>1. f[Jump[i]] \in Seq(T) BY <1>3
  <2> QED BY <1>2, <1>3, <2>1
<1> QED BY <1>3, <1>4 DEF Chunks

-----------------------------------------------------------------------------
(* What one line does to a reader. *)

LEMMA ReaderFields ==
    ASSUME NEW q \in Readers
    PROVE  /\ q.at \in {"text", "fence", "math"} /\ q.page \in Int /\ q.level \in Nat
           /\ q.title \in Seq(STRING) /\ q.body \in Seq(Tokens) /\ q.fence \in Seq(Lines)
           /\ q.said \subseteq Tokens /\ q.titles \subseteq Seq(STRING) \cup Seq(Tokens)
           /\ q.marked \subseteq Int /\ q.fences \subseteq Seq(Lines)
BY DEF Readers

LEMMA LineFields ==
    ASSUME NEW l \in Lines
    PROVE  /\ l.kind \in LineKinds /\ l.level \in 0 .. PageCount + 6 /\ l.level \in Nat
           /\ l.words \in Seq(Tokens) /\ Words(l.words) \in Seq(STRING)
           /\ ToSet(l.words) \subseteq Tokens
<1>1. l.kind \in LineKinds /\ l.level \in 0 .. PageCount + 6 /\ l.words \in Seq(Tokens)
  BY DEF Lines
<1>2. PageCount \in Nat
  BY DocumentAssumption
<1> QED BY <1>1, <1>2, WordsOfLine, InSequence

LEMMA ReadingType ==
    ASSUME NEW m, NEW q \in Readers, NEW l \in Lines, NEW p \in Int
    PROVE  Reading(m, q, l, p) \in Readers /\ Rested(Reading(m, q, l, p))
<1> DEFINE r == Reading(m, q, l, p)
<1>1. /\ q.at \in {"text", "fence", "math"} /\ q.page \in Int /\ q.level \in Nat
      /\ q.title \in Seq(STRING) /\ q.body \in Seq(Tokens) /\ q.fence \in Seq(Lines)
      /\ q.said \subseteq Tokens /\ q.titles \subseteq Seq(STRING) \cup Seq(Tokens)
      /\ q.marked \subseteq Int /\ q.fences \subseteq Seq(Lines)
  BY ReaderFields
<1>2. /\ l.level \in Nat /\ l.words \in Seq(Tokens) /\ Words(l.words) \in Seq(STRING)
      /\ ToSet(l.words) \subseteq Tokens
  BY LineFields
<1>3. /\ <<>> \in Seq(Tokens) /\ <<>> \in Seq(Lines) /\ q.body \o l.words \in Seq(Tokens)
      /\ FenceLine(q.fence, l, m.detect) \in Seq(Lines)
  BY <1>1, <1>2, Concatenated, Added DEF FenceLine
<1>4. r.at \in {"text", "fence", "math"} /\ r.page \in Int /\ r.level \in Nat
  BY <1>1, <1>2 DEF Reading, GoesTo
<1>5. r.title \in Seq(STRING) /\ r.body \in Seq(Tokens) /\ r.fence \in Seq(Lines)
  BY <1>1, <1>2, <1>3 DEF Reading
<1>6. r.said \subseteq Tokens /\ r.marked \subseteq Int
  BY <1>1, <1>2 DEF Reading
<1>7. r.titles \subseteq Seq(STRING) \cup Seq(Tokens)
  <2>1. Title(m, l) \in Seq(STRING) \cup Seq(Tokens) BY <1>2 DEF Title
  <2> QED BY <1>1, <2>1 DEF Reading
<1>8. r.fences \subseteq Seq(Lines)
  BY <1>1 DEF Reading
<1>9. r = [at |-> r.at, page |-> r.page, level |-> r.level, title |-> r.title, body |-> r.body,
           fence |-> r.fence, said |-> r.said, titles |-> r.titles, marked |-> r.marked,
           fences |-> r.fences]
  BY DEF Reading
<1>10. Rested(r)
  BY DEF Reading, Rested, GoesTo
<1> HIDE DEF r
<1>11. r \in Readers
  BY <1>4, <1>5, <1>6, <1>7, <1>8, <1>9 DEF Readers
<1> QED BY <1>10, <1>11 DEF r

LEMMA MoveFacts ==
    ASSUME NEW m, NEW q \in Readers, NEW l \in Lines, NEW r \in Readers, Moves(m, q, l, r)
    PROVE  /\ r = Reading(m, q, l, r.page) /\ Rested(r) /\ Grows(q, r)
           /\ TitleKnown(m, q) => TitleKnown(m, r)
           /\ l.kind \notin {"blank", "marker"} => r.page = q.page
<1>1. q.page \in Int /\ r.page \in Int /\ r = Reading(m, q, l, r.page) /\ TurnsTo(q, l, r.page)
  BY ReaderFields DEF Moves
<1>2. Rested(r)
  BY <1>1, ReadingType
<1>3. Grows(q, r)
  <2>1. q.page <= r.page BY <1>1 DEF TurnsTo
  <2>2. q.said \subseteq r.said /\ q.titles \subseteq r.titles /\ q.marked \subseteq r.marked
        /\ q.fences \subseteq r.fences
    <3> DEFINE p == r.page
    <3> HIDE DEF p
    <3>1. r = Reading(m, q, l, p) BY <1>1 DEF p
    <3> QED BY <3>1 DEF Reading
  <2> QED BY <2>1, <2>2 DEF Grows
<1>4. TitleKnown(m, q) => TitleKnown(m, r)
  <2> DEFINE p == r.page
  <2> HIDE DEF p
  <2>1. r = Reading(m, q, l, p) BY <1>1 DEF p
  <2> QED BY <2>1 DEF Reading, TitleKnown, Title
<1>5. l.kind \notin {"blank", "marker"} => r.page = q.page
  BY <1>1 DEF TurnsTo
<1> QED BY <1>1, <1>2, <1>3, <1>4, <1>5

LEMMA GrowsOn ==
    ASSUME NEW q \in Readers, NEW r \in Readers, NEW e \in Readers, Grows(q, r), Grows(r, e)
    PROVE  Grows(q, e)
<1>1. q.page \in Int /\ r.page \in Int /\ e.page \in Int
  BY ReaderFields
<1> QED BY <1>1 DEF Grows

LEMMA GrowsNot ==
    ASSUME NEW q \in Readers
    PROVE  Grows(q, q)
BY ReaderFields DEF Grows

LEMMA WalkFacts ==
    ASSUME NEW m, NEW ls \in Seq(Lines), NEW w, Walk(m, ls, w)
    PROVE  /\ Len(ls) \in Nat /\ DOMAIN ls = 1 .. Len(ls) /\ (\A n \in 1 .. Len(ls) : ls[n] \in Lines)
           /\ \A n \in 0 .. Len(ls) : /\ w[n] \in Readers
                                      /\ Rested(w[0]) => Rested(w[n])
                                      /\ TitleKnown(m, w[0]) => TitleKnown(m, w[n])
           /\ \A n \in 1 .. Len(ls) : /\ n - 1 \in 0 .. Len(ls) /\ n \in 0 .. Len(ls)
                                      /\ Moves(m, w[n - 1], ls[n], w[n]) /\ Rested(w[n])
           /\ \A a, b \in 0 .. Len(ls) : a <= b => Grows(w[a], w[b])
<1> DEFINE N == Len(ls)
<1>1. N \in Nat /\ DOMAIN ls = 1 .. N /\ \A n \in 1 .. N : ls[n] \in Lines
  BY InSequence
<1>2. w \in [0 .. N -> Readers] /\ \A n \in 1 .. N : Moves(m, w[n - 1], ls[n], w[n])
  BY DEF Walk
<1> HIDE DEF N
<1>3. \A n \in 1 .. N : n - 1 \in 0 .. N /\ n \in 0 .. N /\ w[n - 1] \in Readers /\ w[n] \in Readers
  <2>1. \A n \in 1 .. N : n - 1 \in 0 .. N /\ n \in 0 .. N BY <1>1
  <2> QED BY <1>2, <2>1
<1>4. ASSUME NEW n \in 1 .. N
      PROVE  /\ Rested(w[n]) /\ Grows(w[n - 1], w[n])
             /\ TitleKnown(m, w[n - 1]) => TitleKnown(m, w[n])
  BY <1>1, <1>2, <1>3, MoveFacts
<1> DEFINE Good == {b \in 0 .. N : /\ \A a \in 0 .. b : Grows(w[a], w[b])
                                   /\ TitleKnown(m, w[0]) => TitleKnown(m, w[b])}
<1>5. 0 \in Good
  <2>1. 0 \in 0 .. N /\ w[0] \in Readers /\ \A a \in 0 .. 0 : a = 0 BY <1>1, <1>2
  <2> QED BY <2>1, GrowsNot
<1>6. ASSUME NEW n \in 1 .. N, n - 1 \in Good PROVE n \in Good
  <2>1. ASSUME NEW a \in 0 .. n PROVE Grows(w[a], w[n])
    <3>1. CASE a = n BY <1>3, <3>1, GrowsNot
    <3>2. CASE a # n
      <4>1. a \in 0 .. n - 1 /\ a \in 0 .. N BY <1>1, <3>2
      <4>2. Grows(w[a], w[n - 1]) /\ w[a] \in Readers BY <1>2, <1>6, <4>1
      <4> QED BY <1>3, <1>4, <4>2, GrowsOn
    <3> QED BY <3>1, <3>2
  <2> QED BY <1>3, <1>4, <1>6, <2>1
<1>7. \A n \in 0 .. N : n \in Good
  <2> HIDE DEF Good
  <2> QED BY <1>1, <1>5, <1>6, Counting
<1>8. ASSUME NEW n \in 0 .. N, Rested(w[0]) PROVE Rested(w[n])
  <2>1. n = 0 \/ n \in 1 .. N BY <1>1
  <2> QED BY <1>4, <1>8, <2>1
<1>9. \A a, b \in 0 .. N : a <= b => Grows(w[a], w[b])
  <2> SUFFICES ASSUME NEW a \in 0 .. N, NEW b \in 0 .. N, a <= b PROVE Grows(w[a], w[b]) OBVIOUS
  <2>1. a \in 0 .. b BY <1>1
  <2> QED BY <1>7, <2>1
<1>10. \A n \in 0 .. N : w[n] \in Readers /\ (TitleKnown(m, w[0]) => TitleKnown(m, w[n]))
  BY <1>2, <1>7
<1> HIDE DEF Good
<1> QED BY <1>1, <1>2, <1>3, <1>4, <1>8, <1>9, <1>10 DEF N

LEMMA TakesFacts ==
    ASSUME NEW m, NEW ls \in Seq(Lines), NEW q, NEW e, Takes(m, ls, q, e)
    PROVE  /\ q \in Readers /\ e \in Readers /\ Grows(q, e)
           /\ Rested(q) => Rested(e)
<1>1. PICK w : Walk(m, ls, w) /\ w[0] = q /\ w[Len(ls)] = e
  BY DEF Takes
<1>2. Len(ls) \in Nat /\ 0 \in 0 .. Len(ls) /\ Len(ls) \in 0 .. Len(ls) /\ 0 <= Len(ls)
  BY InSequence
<1>3. w[0] \in Readers /\ w[Len(ls)] \in Readers /\ Grows(w[0], w[Len(ls)])
      /\ (Rested(w[0]) => Rested(w[Len(ls)]))
  BY <1>1, <1>2, WalkFacts
<1> QED BY <1>1, <1>3

-----------------------------------------------------------------------------
(* Lines with words, one after the other. *)

LEMMA TextedLines ==
    ASSUME NEW ls \in Seq(Lines)
    PROVE  Texted(ls) \in Seq(Seq(Tokens)) /\ Len(Texted(ls)) = Len(ls) /\ DOMAIN Texted(ls) = 1 .. Len(ls)
           /\ \A n \in 1 .. Len(ls) : Texted(ls)[n] = ls[n].words
<1>1. Len(ls) \in Nat /\ DOMAIN ls = 1 .. Len(ls) /\ \A n \in 1 .. Len(ls) : ls[n] \in Lines
  BY InSequence
<1>2. \A n \in 1 .. Len(ls) : ls[n].words \in Seq(Tokens)
  BY <1>1, LineFields
<1>3. Texted(ls) = [k \in 1 .. Len(ls) |-> ls[k].words]
  BY <1>1 DEF Texted
<1> QED BY <1>1, <1>2, <1>3

LEMMA AfterNothing ==
    ASSUME NEW m, NEW q \in Readers
    PROVE  After(m, q, <<>>, <<>>) = q
<1>1. q.body \in Seq(Tokens) /\ q.fence \in Seq(Lines)
  BY ReaderFields
<1>2. q.body \o <<>> = q.body /\ q.fence \o <<>> = q.fence /\ ToSet(<<>>) = {}
  BY <1>1, ConcatEmptySeq DEF ToSet
<1>3. q = [at |-> q.at, page |-> q.page, level |-> q.level, title |-> q.title, body |-> q.body,
           fence |-> q.fence, said |-> q.said, titles |-> q.titles, marked |-> q.marked,
           fences |-> q.fences]
  BY DEF Readers
<1> QED BY <1>2, <1>3 DEF After

LEMMA AfterLine ==
    ASSUME NEW m, NEW q \in Readers, Rested(q), NEW words \in Seq(Tokens), NEW ls \in Seq(Lines),
           NEW l \in Lines, l.kind \in {"text", "picture", "row"}
    PROVE  Reading(m, After(m, q, words, ls), l, q.page) = After(m, q, words \o l.words, Append(ls, l))
<1>1. /\ q.body \in Seq(Tokens) /\ q.fence \in Seq(Lines) /\ q.at \in {"text", "math", "fence"}
      /\ l.words \in Seq(Tokens)
  BY ReaderFields, LineFields
<1>2. (q.body \o words) \o l.words = q.body \o (words \o l.words)
  <2> DEFINE a == q.body  b == l.words
  <2>1. a \in Seq(Tokens) /\ b \in Seq(Tokens) BY <1>1
  <2> HIDE DEF a, b
  <2>2. (a \o words) \o b = a \o (words \o b) BY <2>1, ConcatAssociative
  <2> QED BY <2>2 DEF a, b
<1>3. Append(q.fence \o ls, l) = q.fence \o Append(ls, l)
  <2>1. q.fence \o ls \in Seq(Lines) /\ <<l>> \in Seq(Lines) BY <1>1, Concatenated
  <2>2. Append(q.fence \o ls, l) = (q.fence \o ls) \o <<l>> /\ Append(ls, l) = ls \o <<l>>
    BY <2>1, AppendIsConcat
  <2> QED
    <3>1. (q.fence \o ls) \o <<l>> = q.fence \o (ls \o <<l>>)
      <4> DEFINE a == q.fence  b == <<l>>
      <4>1. a \in Seq(Lines) /\ b \in Seq(Lines) BY <1>1, <2>1
      <4> HIDE DEF a, b
      <4>2. (a \o ls) \o b = a \o (ls \o b) BY <4>1, ConcatAssociative, SMTT(30)
      <4> QED BY <4>2 DEF a, b
    <3> QED BY <2>2, <3>1
<1>4. ToSet(words \o l.words) = ToSet(words) \cup ToSet(l.words)
  BY <1>1, Concatenated
<1> DEFINE r == After(m, q, words, ls)
<1>5. /\ r.at = q.at /\ r.page = q.page /\ r.level = q.level /\ r.title = q.title
      /\ r.titles = q.titles /\ r.marked = q.marked /\ r.fences = q.fences
      /\ r.said = IF q.at = "math" /\ ~m.formulas THEN q.said ELSE q.said \cup ToSet(words)
      /\ r.body = IF q.at = "math" THEN q.body \o words ELSE q.body
      /\ r.fence = IF q.at = "fence" THEN q.fence \o ls ELSE q.fence
  BY DEF After, Readers
<1>6. q = [at |-> q.at, page |-> q.page, level |-> q.level, title |-> q.title, body |-> q.body,
           fence |-> q.fence, said |-> q.said, titles |-> q.titles, marked |-> q.marked,
           fences |-> q.fences]
  BY DEF Readers
<1> HIDE DEF r
<1> DEFINE e == Reading(m, r, l, q.page)
<1>7. /\ e.at = q.at /\ e.page = q.page /\ e.level = q.level /\ e.title = q.title
      /\ e.titles = q.titles /\ e.marked = q.marked /\ e.fences = q.fences
  BY <1>1, <1>5 DEF Reading, GoesTo
<1>8. e.said = IF q.at = "math" /\ ~m.formulas THEN q.said ELSE q.said \cup ToSet(words \o l.words)
  BY <1>4, <1>5 DEF Reading
<1>9. e.body = IF q.at = "math" THEN q.body \o (words \o l.words) ELSE q.body
  BY <1>2, <1>5 DEF Reading, Rested
<1>10. e.fence = IF q.at = "fence" THEN q.fence \o Append(ls, l) ELSE q.fence
  BY <1>3, <1>5 DEF Reading, Rested, FenceLine
<1>11. e = [at |-> e.at, page |-> e.page, level |-> e.level, title |-> e.title, body |-> e.body,
           fence |-> e.fence, said |-> e.said, titles |-> e.titles, marked |-> e.marked,
           fences |-> e.fences]
  BY DEF Reading
<1> HIDE DEF e
<1>12. e = After(m, q, words \o l.words, Append(ls, l))
  BY <1>6, <1>7, <1>8, <1>9, <1>10, <1>11, ZenonT(60) DEF After
<1> QED BY <1>12 DEF e, r

\* A reader who reads such lines on one page has read their words.
LEMMA RunEnds ==
    ASSUME NEW m, NEW q \in Readers, Rested(q), NEW ls \in Seq(Lines), Worded(ls),
           NEW f, Runs(m, q, ls, f)
    PROVE  /\ f[Len(ls)] = After(m, q, FlattenSeq(Texted(ls)), ls)
           /\ \A n \in 0 .. Len(ls) : Stays(q, f[n])
<1>0. /\ f \in [0 .. Len(ls) -> Readers] /\ f[0] = q
      /\ \A n \in 1 .. Len(ls) : f[n] = Reading(m, f[n - 1], ls[n], q.page)
  BY DEF Runs
<1> DEFINE N == Len(ls)
<1>1. N \in Nat /\ DOMAIN ls = 1 .. N /\ \A n \in 1 .. N : ls[n] \in Lines
  BY InSequence
<1>2. /\ Texted(ls) \in Seq(Seq(Tokens)) /\ Len(Texted(ls)) = N
      /\ \A n \in 1 .. N : Texted(ls)[n] = ls[n].words
  BY TextedLines
<1>3. PICK h : Joins(h, Texted(ls), Tokens)
  BY <1>2, Flattening
<1>4. /\ h \in [0 .. N -> Seq(Tokens)] /\ h[0] = <<>> /\ h[N] = FlattenSeq(Texted(ls))
      /\ \A n \in 1 .. N : h[n] = h[n - 1] \o ls[n].words
  BY <1>2, <1>3 DEF Joins
<1> HIDE DEF N
<1> DEFINE Good == {n \in 0 .. N : f[n] = After(m, q, h[n], SubSeq(ls, 1, n))}
<1>5. 0 \in Good
  <2>1. SubSeq(ls, 1, 0) = <<>> BY SubSeqEmpty
  <2>2. After(m, q, <<>>, <<>>) = q BY AfterNothing, Zenon
  <2> QED
    <3>1. f[0] = After(m, q, h[0], SubSeq(ls, 1, 0)) BY <1>0, <1>4, <2>1, <2>2, Zenon
    <3> QED BY <1>1, <3>1
<1>6. ASSUME NEW n \in 1 .. N, n - 1 \in Good PROVE n \in Good
  <2>1. n - 1 \in 0 .. N /\ n \in 0 .. N /\ n - 1 \in 0 .. Len(ls) /\ 1 \in 1 .. Len(ls) + 1
    BY <1>1 DEF N
  <2>2. SubSeq(ls, 1, n - 1) \in Seq(Lines) BY <2>1, Part
  <2>3. SubSeq(ls, 1, n) = Append(SubSeq(ls, 1, n - 1), ls[n])
    <3>1. 1 \in 1 .. Len(ls) /\ n \in 1 .. Len(ls) BY <1>1 DEF N
    <3>2. SubSeq(ls, 1, n) = SubSeq(ls, 1, n - 1) \o <<ls[n]>> BY <3>1, SubSeqRecursiveSecond
    <3> QED BY <1>1, <2>2, <3>2, AppendIsConcat
  <2>4. ls[n] \in Lines /\ ls[n].kind \in {"text", "picture", "row"} /\ h[n - 1] \in Seq(Tokens)
    BY <1>1, <1>4, <2>1 DEF Worded
  <2>5. f[n] = Reading(m, After(m, q, h[n - 1], SubSeq(ls, 1, n - 1)), ls[n], q.page)
    BY <1>0, <1>6 DEF N
  <2>6. f[n] = After(m, q, h[n - 1] \o ls[n].words, Append(SubSeq(ls, 1, n - 1), ls[n]))
    <3> DEFINE l == ls[n]  words == h[n - 1]  before == SubSeq(ls, 1, n - 1)
    <3>1. before \in Seq(Lines) /\ l \in Lines /\ l.kind \in {"text", "picture", "row"} /\ words \in Seq(Tokens)
      BY <2>2, <2>4
    <3> HIDE DEF l, words, before
    <3>2. Reading(m, After(m, q, words, before), l, q.page) = After(m, q, words \o l.words, Append(before, l))
      BY <3>1, AfterLine
    <3> QED BY <2>5, <3>2 DEF l, words, before
  <2> QED BY <1>4, <2>1, <2>3, <2>6
<1>7. \A n \in 0 .. N : n \in Good
  <2> HIDE DEF Good
  <2> QED BY <1>1, <1>5, <1>6, Counting
<1>8. ASSUME NEW n \in 0 .. N
      PROVE  Stays(q, f[n])
  <2>1. f[n] = After(m, q, h[n], SubSeq(ls, 1, n)) BY <1>7
  <2> QED BY <2>1 DEF After, Readers, Stays
<1>9. f[N] = After(m, q, h[N], ls)
  <2>1. N \in 0 .. N /\ SubSeq(ls, 1, N) = ls BY <1>1, SubSeqFull DEF N
  <2> QED BY <1>7, <2>1
<1> QED BY <1>4, <1>8, <1>9 DEF N

\* And such lines can be read, in the text or, where they are text, between marks.
LEMMA TakesRun ==
    ASSUME NEW m, NEW q \in Readers, Rested(q), NEW ls \in Seq(Lines), Worded(ls),
           \A k \in DOMAIN ls : /\ q.at = "text" \/ ls[k].kind = "text"
                                /\ \A t \in ToSet(ls[k].words) : t.page = q.page
    PROVE  Takes(m, ls, q, After(m, q, FlattenSeq(Texted(ls)), ls))
<1> DEFINE N == Len(ls)
           G == [n \in 1 .. N |-> [r \in Readers |-> Reading(m, r, ls[n], q.page)]]
<1>1. N \in Nat /\ DOMAIN ls = 1 .. N /\ \A n \in 1 .. N : ls[n] \in Lines
  BY InSequence
<1>2. G \in [1 .. N -> [Readers -> Readers]]
  BY <1>1, ReaderFields, ReadingType
<1>3. \A n \in 1 .. N : \A r \in Readers : G[n][r] = Reading(m, r, ls[n], q.page) OBVIOUS
<1> HIDE DEF N, G
<1>4. PICK f : Solves(f, N, Readers, q, G)
  BY <1>1, <1>2, Recursion
<1>5. f \in [0 .. N -> Readers] /\ f[0] = q /\ \A n \in 1 .. N : f[n] = G[n][f[n - 1]]
  BY <1>4 DEF Solves
<1>6. \A n \in 1 .. N : n - 1 \in 0 .. N /\ n \in 0 .. N
  BY <1>1
<1>7. \A n \in 1 .. N : f[n] = Reading(m, f[n - 1], ls[n], q.page)
  BY <1>3, <1>5, <1>6
<1>8. /\ f[N] = After(m, q, FlattenSeq(Texted(ls)), ls)
      /\ \A n \in 0 .. N : Stays(q, f[n])
  <2>1. Runs(m, q, ls, f) BY <1>5, <1>7 DEF N, Runs
  <2> QED BY <2>1, RunEnds DEF N
<1>9. ASSUME NEW n \in 1 .. N PROVE Moves(m, f[n - 1], ls[n], f[n])
  <2> DEFINE r == f[n - 1]  l == ls[n]
  <2>1. /\ r.at = q.at /\ r.page = q.page /\ f[n].page = q.page
        /\ f[n] = Reading(m, r, l, q.page)
    BY <1>6, <1>7, <1>8 DEF Stays
  <2>2. /\ l.kind \in {"text", "picture", "row"} /\ (q.at = "text" \/ l.kind = "text")
        /\ \A t \in ToSet(l.words) : t.page = q.page
    BY <1>1 DEF Worded
  <2> HIDE DEF r, l
  <2>3. Fits(m, r, l) BY <2>1, <2>2 DEF Fits
  <2>4. TurnsTo(r, l, q.page) BY <2>1, <2>2 DEF TurnsTo
  <2>5. Moves(m, r, l, f[n]) BY <2>1, <2>3, <2>4 DEF Moves
  <2> QED BY <2>5 DEF r, l
<1>10. Walk(m, ls, f)
  BY <1>5, <1>9 DEF Walk, N
<1> QED BY <1>5, <1>8, <1>10 DEF Takes, N

-----------------------------------------------------------------------------
(* Writing the pages. *)

LEMMA TakesOne ==
    ASSUME NEW m, NEW q \in Readers, NEW l \in Lines, NEW p \in Int, Fits(m, q, l), TurnsTo(q, l, p)
    PROVE  Takes(m, <<l>>, q, Reading(m, q, l, p)) /\ Reading(m, q, l, p) \in Readers
           /\ Rested(Reading(m, q, l, p))
<1> DEFINE r == Reading(m, q, l, p)
<1>1. r \in Readers /\ r.page = p /\ Rested(r)
  <2>1. r \in Readers /\ Rested(r) BY ReadingType
  <2>2. r.page = p BY DEF Reading
  <2> QED BY <2>1, <2>2
<1>2. Moves(m, q, l, r)
  BY <1>1 DEF Moves
<1> HIDE DEF r
<1>3. Takes(m, <<l>>, q, r)
  BY <1>1, <1>2, TakesLine
<1> QED BY <1>1, <1>3 DEF r

LEMMA MarkLines ==
    /\ Blank \in Lines /\ Fence \in Lines /\ MathFence \in Lines
    /\ \A p \in Pages : Marker(p) \in Lines
    /\ \A n \in 0 .. 6 : \A ws \in Seq(Tokens) : \A k \in LineKinds : Written(k, n, ws) \in Lines
<1>1. PageCount \in Nat
  BY DocumentAssumption
<1>2. 0 \in 0 .. PageCount + 6 /\ 0 .. 6 \subseteq 0 .. PageCount + 6 /\ Pages \subseteq 0 .. PageCount + 6
  BY <1>1 DEF Pages
<1>3. <<>> \in Seq(Tokens) OBVIOUS
<1>4. \A n \in 0 .. PageCount + 6 : \A ws \in Seq(Tokens) : \A k \in LineKinds : Written(k, n, ws) \in Lines
  BY DEF Written, Lines
<1>5. {"blank", "marker", "fence", "math"} \subseteq LineKinds
  BY DEF LineKinds
<1> QED BY <1>2, <1>3, <1>4, <1>5 DEF Blank, Fence, MathFence, Marker

LEMMA LinesOfKind ==
    ASSUME NEW ls \in Seq(Seq(Tokens)), NEW kind \in {"text", "picture", "row"}
    PROVE  /\ OfKind(kind, ls) \in Seq(Lines) /\ Worded(OfKind(kind, ls)) /\ Texted(OfKind(kind, ls)) = ls
           /\ DOMAIN OfKind(kind, ls) = DOMAIN ls
           /\ \A k \in DOMAIN ls : OfKind(kind, ls)[k].kind = kind /\ OfKind(kind, ls)[k].words = ls[k]
           /\ ToSet(FlattenSeq(ls)) = TokensOf(ls)
<1>1. Len(ls) \in Nat /\ DOMAIN ls = 1 .. Len(ls) /\ \A i \in 1 .. Len(ls) : ls[i] \in Seq(Tokens)
  BY InSequence
<1> DEFINE L == OfKind(kind, ls)
<1>2. DOMAIN L = 1 .. Len(ls) /\ \A i \in 1 .. Len(ls) : L[i] = Written(kind, 0, ls[i])
  BY <1>1 DEF OfKind
<1>3. \A i \in 1 .. Len(ls) : L[i] \in Lines
  <2>1. kind \in LineKinds /\ 0 \in 0 .. 6 BY DEF LineKinds
  <2> QED BY <1>1, <1>2, <2>1, MarkLines
<1>4. L \in Seq(Lines)
  <2>1. L = [i \in 1 .. Len(ls) |-> L[i]] BY <1>1 DEF OfKind
  <2> HIDE DEF L
  <2> QED BY <1>1, <1>3, <2>1
<1>5. \A k \in 1 .. Len(ls) : L[k].kind = kind /\ L[k].words = ls[k]
  BY <1>2 DEF Written
<1>6. Worded(L)
  BY <1>2, <1>5 DEF Worded
<1>7. Texted(L) = ls
  <2>1. Texted(L) = [k \in 1 .. Len(ls) |-> L[k].words] BY <1>2 DEF Texted
  <2>2. ls = [k \in 1 .. Len(ls) |-> ls[k]] BY <1>1
  <2> HIDE DEF L
  <2> QED BY <1>5, <2>1, <2>2
<1>8. ToSet(FlattenSeq(ls)) = TokensOf(ls)
  BY Flattened DEF TokensOf
<1> HIDE DEF L
<1>9. L \in Seq(Lines) /\ Worded(L) /\ Texted(L) = ls /\ DOMAIN L = DOMAIN ls
      /\ \A k \in DOMAIN ls : L[k].kind = kind /\ L[k].words = ls[k]
  BY <1>1, <1>2, <1>4, <1>5, <1>6, <1>7
<1> QED BY <1>8, <1>9 DEF L

LEMMA HeldOn ==
    ASSUME NEW m, NEW q, NEW e, NEW b, Held(m, q, b),
           q.said \subseteq e.said, q.titles \subseteq e.titles, q.fences \subseteq e.fences
    PROVE  Held(m, e, b)
BY DEF Held, ListingRead

\* Lines of a page's words in the open text.
LEMMA TakesWords ==
    ASSUME NEW m, NEW q, Free(q), NEW ls \in Seq(Seq(Tokens)), OnPage(ls, q.page),
           NEW kind \in {"text", "picture", "row"}
    PROVE  \E e : /\ Takes(m, OfKind(kind, ls), q, e) /\ Free(e) /\ e.page = q.page /\ e.marked = q.marked
                  /\ TokensOf(ls) \subseteq e.said
<1> DEFINE L == OfKind(kind, ls)  e == After(m, q, FlattenSeq(Texted(L)), L)
<1>1. q \in Readers /\ q.at = "text" /\ Rested(q)
  BY DEF Free
<1>2. /\ L \in Seq(Lines) /\ Worded(L) /\ Texted(L) = ls /\ DOMAIN L = DOMAIN ls
      /\ \A k \in DOMAIN ls : L[k].kind = kind /\ L[k].words = ls[k]
      /\ ToSet(FlattenSeq(ls)) = TokensOf(ls)
  BY LinesOfKind
<1> HIDE DEF L
<1>3. \A k \in DOMAIN L : \A t \in ToSet(L[k].words) : t.page = q.page
  <2>1. \A k \in DOMAIN ls : ls[k] \in ToSet(ls) BY DEF ToSet
  <2> QED BY <1>2, <2>1 DEF OnPage
<1>4. Takes(m, L, q, e)
  BY <1>1, <1>2, <1>3, TakesRun
<1>5. e \in Readers
  BY <1>2, <1>4, TakesFacts
<1>6. e.at = "text" /\ e.page = q.page /\ e.marked = q.marked /\ e.body = q.body /\ e.fence = q.fence
      /\ e.said = q.said \cup TokensOf(ls)
  BY <1>1, <1>2 DEF After, Readers
<1> HIDE DEF e
<1>7. Free(e)
  BY <1>1, <1>5, <1>6 DEF Free, Rested
<1> QED BY <1>4, <1>6, <1>7 DEF L

\* A formula's lines.
LEMMA TakesFormula ==
    ASSUME NEW m, Raw(m), NEW q, Free(q), NEW ls \in Seq(Seq(Tokens)), OnPage(ls, q.page)
    PROVE  \E e : FormulaEnd(m, ls, q, e)
<1> DEFINE p == q.page  L == Plain(ls)  mark == MathFence
           r == Reading(m, q, mark, p)
           s == After(m, r, FlattenSeq(Texted(L)), L)
           e == Reading(m, s, mark, p)
<1>1. q \in Readers /\ q.at = "text" /\ Rested(q) /\ q.page \in Int /\ p = q.page
  BY ReaderFields DEF Free
<1>2. /\ L \in Seq(Lines) /\ Worded(L) /\ Texted(L) = ls /\ DOMAIN L = DOMAIN ls
      /\ \A k \in DOMAIN ls : L[k].kind = "text" /\ L[k].words = ls[k]
      /\ ToSet(FlattenSeq(ls)) = TokensOf(ls)
  <2>1. L = OfKind("text", ls) BY DEF Plain, OfKind
  <2> QED BY <2>1, LinesOfKind
<1>3. mark \in Lines /\ mark.words = <<>> /\ mark.kind = "math"
  BY MarkLines DEF MathFence, Written
<1>4. ~m.ordered /\ ~m.repaired
  BY DEF Raw
<1>10. ToSet(<<>>) = {}
  BY DEF ToSet
<1> HIDE DEF L, p, mark
<1>5. Takes(m, <<mark>>, q, r) /\ r \in Readers /\ Rested(r)
  <2>1. Fits(m, q, mark) /\ TurnsTo(q, mark, p) BY <1>1, <1>3, <1>4, <1>10 DEF Fits, TurnsTo
  <2> QED BY <1>1, <1>3, <2>1, TakesOne
<1>6. r.at = "math" /\ r.page = p /\ r.marked = q.marked
  BY <1>1, <1>3 DEF Reading, GoesTo
<1> HIDE DEF r
<1>7. Takes(m, L, r, s)
  <2>1. \A k \in DOMAIN L : L[k].kind = "text" /\ \A t \in ToSet(L[k].words) : t.page = r.page
    <3>1. \A k \in DOMAIN ls : ls[k] \in ToSet(ls) BY DEF ToSet
    <3> QED BY <1>1, <1>2, <1>6, <3>1 DEF OnPage
  <2> QED BY <1>2, <1>5, <2>1, TakesRun
<1>8. s.at = "math" /\ s.page = p /\ s.marked = q.marked /\ (m.formulas => TokensOf(ls) \subseteq s.said)
  BY <1>2, <1>5, <1>6 DEF After, Readers
<1>9. s \in Readers
  BY <1>2, <1>7, TakesFacts
<1> HIDE DEF s
<1>11. Takes(m, <<mark>>, s, e) /\ e \in Readers /\ Rested(e)
  <2>1. Fits(m, s, mark) /\ TurnsTo(s, mark, p) BY <1>3, <1>4, <1>8, <1>10 DEF Fits, TurnsTo
  <2> QED BY <1>1, <1>3, <1>9, <2>1, TakesOne
<1>12. /\ e.at = "text" /\ e.page = p /\ e.marked = q.marked
       /\ m.formulas => TokensOf(ls) \subseteq e.said
  BY <1>3, <1>8 DEF Reading, GoesTo
<1> HIDE DEF e
<1>13. <<mark>> \in Seq(Lines)
  BY <1>3
<1>14. <<mark>> \o L \in Seq(Lines) /\ Takes(m, <<mark>> \o L, q, s)
  BY <1>2, <1>5, <1>7, <1>13, TakesBoth, Concatenated
<1>15. (<<mark>> \o L) \o <<mark>> \in Seq(Lines) /\ Takes(m, (<<mark>> \o L) \o <<mark>>, q, e)
  BY <1>11, <1>13, <1>14, TakesBoth, Concatenated
<1> QED BY <1>1, <1>11, <1>12, <1>15 DEF L, mark, FormulaEnd, Free

\* The text between fences, line by line: any function that adds them up is it.
LEMMA FenceTextIs ==
    ASSUME NEW ls \in Seq(Lines), NEW d, NEW f \in [0 .. Len(ls) -> Seq(Lines)], f[0] = <<>>,
           \A n \in 1 .. Len(ls) : f[n] = FenceLine(f[n - 1], ls[n], d)
    PROVE  FenceText(ls, d) = f[Len(ls)]
<1> DEFINE N == Len(ls)
           Eq(g) == g = [n \in 0 .. N |-> IF n = 0 THEN <<>> ELSE FenceLine(g[n - 1], ls[n], d)]
           F == CHOOSE g : Eq(g)
<1>1. N \in Nat
  BY InSequence
<1>2. FenceText(ls, d) = F[N]
  BY Zenon DEF FenceText
<1>3. f \in [0 .. N -> Seq(Lines)] /\ f[0] = <<>> /\ \A n \in 1 .. N : f[n] = FenceLine(f[n - 1], ls[n], d)
  OBVIOUS
<1> HIDE DEF N
<1>4. Eq(f)
  <2>1. \A n \in 0 .. N : n = 0 \/ n \in 1 .. N BY <1>1
  <2> QED BY <1>3, <2>1
<1>5. Eq(F)
  <2> HIDE DEF Eq
  <2> QED BY <1>4, Zenon
<1>6. \A n \in 0 .. N : F[n] = IF n = 0 THEN <<>> ELSE FenceLine(F[n - 1], ls[n], d)
  <2> HIDE DEF F
  <2> QED BY <1>5, Zenon
<1> HIDE DEF F
<1> DEFINE Good == {n \in 0 .. N : F[n] = f[n]}
<1>7. 0 \in Good
  BY <1>1, <1>3, <1>6
<1>8. ASSUME NEW n \in 1 .. N, n - 1 \in Good PROVE n \in Good
  <2>1. n \in 0 .. N /\ n # 0 BY <1>1
  <2> QED BY <1>3, <1>6, <1>8, <2>1
<1>9. N \in Good
  <2> HIDE DEF Good
  <2> QED BY <1>1, <1>7, <1>8, Counting
<1> QED BY <1>2, <1>9 DEF N

LEMMA NoFenceText ==
    ASSUME NEW d
    PROVE  FenceText(<<>>, d) = <<>>
<1> DEFINE f == [n \in 0 .. 0 |-> <<>>]
<1>1. <<>> \in Seq(Lines) /\ Len(<<>>) = 0 /\ f \in [0 .. 0 -> Seq(Lines)] /\ f[0] = <<>> OBVIOUS
<1> HIDE DEF f
<1>2. \A n \in 1 .. 0 : FALSE OBVIOUS
<1> QED BY <1>1, <1>2, FenceTextIs

\* One line more.
LEMMA FenceTextOn ==
    ASSUME NEW ls \in Seq(Lines), NEW l \in Lines, NEW d
    PROVE  /\ FenceText(ls, d) \in Seq(Lines)
           /\ FenceText(Append(ls, l), d) = FenceLine(FenceText(ls, d), l, d)
<1> DEFINE N == Len(ls)  more == Append(ls, l)
           G == [n \in 1 .. N |-> [x \in Seq(Lines) |-> FenceLine(x, ls[n], d)]]
<1>1. N \in Nat /\ \A n \in 1 .. N : ls[n] \in Lines
  BY InSequence
<1>2. \A x \in Seq(Lines) : \A k \in Lines : FenceLine(x, k, d) \in Seq(Lines)
  BY Added DEF FenceLine
<1>3. G \in [1 .. N -> [Seq(Lines) -> Seq(Lines)]] /\ <<>> \in Seq(Lines)
  <2>1. ASSUME NEW n \in 1 .. N PROVE [x \in Seq(Lines) |-> FenceLine(x, ls[n], d)] \in [Seq(Lines) -> Seq(Lines)]
    BY <1>1, <1>2
  <2>2. <<>> \in Seq(Lines) OBVIOUS
  <2> QED BY <2>1, <2>2
<1>4. \A n \in 1 .. N : \A x \in Seq(Lines) : G[n][x] = FenceLine(x, ls[n], d) OBVIOUS
<1>5. /\ more \in Seq(Lines) /\ Len(more) = N + 1 /\ more[N + 1] = l
      /\ \A n \in 1 .. N : more[n] = ls[n]
  BY AppendProperties
<1>6. N = Len(ls) OBVIOUS
<1> HIDE DEF N, G, more
<1>7. PICK f : Solves(f, N, Seq(Lines), <<>>, G)
  BY <1>1, <1>3, Recursion
<1>8. /\ f \in [0 .. N -> Seq(Lines)] /\ f[0] = <<>>
      /\ \A n \in 1 .. N : n - 1 \in 0 .. N /\ f[n] = FenceLine(f[n - 1], ls[n], d)
  <2>1. \A n \in 1 .. N : n - 1 \in 0 .. N BY <1>1
  <2> QED BY <1>4, <1>7, <2>1 DEF Solves
<1>9. FenceText(ls, d) = f[N]
  BY <1>6, <1>8, FenceTextIs
<1> DEFINE g == [n \in 0 .. N + 1 |-> IF n = N + 1 THEN FenceLine(f[N], l, d) ELSE f[n]]
<1>10. f[N] \in Seq(Lines) /\ FenceLine(f[N], l, d) \in Seq(Lines)
  BY <1>1, <1>2, <1>8
<1>11. /\ g \in [0 .. N + 1 -> Seq(Lines)] /\ g[0] = <<>> /\ g[N + 1] = FenceLine(f[N], l, d)
       /\ \A n \in 0 .. N : g[n] = f[n]
  BY <1>1, <1>8, <1>10
<1> HIDE DEF g
<1>12. ASSUME NEW n \in 1 .. N + 1 PROVE g[n] = FenceLine(g[n - 1], more[n], d)
  <2>1. n - 1 \in 0 .. N /\ (n = N + 1 \/ n \in 1 .. N) /\ (N + 1) - 1 = N BY <1>1
  <2>2. g[n - 1] = f[n - 1] BY <1>11, <2>1
  <2>3. CASE n = N + 1 BY <1>5, <1>11, <2>1, <2>2, <2>3
  <2>4. CASE n \in 1 .. N
    <3>1. g[n] = f[n] /\ more[n] = ls[n] BY <1>1, <1>5, <1>11, <2>4
    <3> QED BY <1>8, <2>2, <2>4, <3>1
  <2> QED BY <2>1, <2>3, <2>4
<1>13. FenceText(more, d) = g[N + 1]
  <2>1. /\ g \in [0 .. Len(more) -> Seq(Lines)]
        /\ \A n \in 1 .. Len(more) : g[n] = FenceLine(g[n - 1], more[n], d)
    BY <1>5, <1>11, <1>12
  <2>2. FenceText(more, d) = g[Len(more)]
    BY <1>5, <1>11, <2>1, FenceTextIs
  <2> QED BY <1>5, <2>2
<1> QED BY <1>9, <1>10, <1>11, <1>13 DEF more

\* A line between fences, read as a heading or not.
LEMMA ListedLine ==
    ASSUME NEW words \in Seq(Tokens)
    PROVE  /\ Listed(words) \in Lines /\ ToSet(Listed(words).words) \subseteq ToSet(words)
           /\ Listed(words).kind \in {"text", "heading"}
           /\ Listed(words).kind = "text" => Listed(words).words = words
           /\ Listed(words).kind = "heading" =>
                 /\ Listed(words).level > 0 /\ Listed(words).words = Tail(words)
                 /\ Tail(words) # <<>> /\ Words(Tail(words)) # <<>>
<1>1. CASE Len(words) > 1 /\ words[1].word \in DOMAIN Hashes
  <2> DEFINE t == Tail(words)
  <2>1. Hashes[words[1].word] \in 1 .. 6 BY <1>1, WordsAssumption
  <2>2. /\ Len(words) \in Nat /\ DOMAIN words = 1 .. Len(words)
        /\ t \in Seq(Tokens) /\ Len(t) = Len(words) - 1 /\ \A i \in 1 .. Len(t) : t[i] = words[i + 1]
    <3>1. Len(words) \in Nat /\ DOMAIN words = 1 .. Len(words) BY InSequence
    <3>2. words # <<>> BY <1>1
    <3> QED BY <3>1, <3>2, HeadTailProperties
  <2> HIDE DEF t
  <2>3. DOMAIN t = 1 .. Len(t) /\ Len(Words(t)) = Len(t) /\ Len(t) > 0
    <3>1. DOMAIN t = 1 .. Len(t) BY <2>2, InSequence
    <3>2. Len(Words(t)) = Len(t) BY <2>2, WordsOfLine
    <3> QED BY <1>1, <2>2, <3>1, <3>2
  <2>4. ToSet(t) \subseteq ToSet(words)
    <3>1. \A i \in 1 .. Len(t) : i + 1 \in 1 .. Len(words) BY <2>2
    <3> QED BY <2>2, <2>3, <3>1 DEF ToSet
  <2>5. t # <<>> /\ Words(t) # <<>> BY <2>3
  <2>6. Listed(words) = Written("heading", Hashes[words[1].word], t) BY <1>1 DEF Listed, t
  <2>7. Listed(words) \in Lines BY <2>1, <2>2, <2>6, MarkLines DEF LineKinds
  <2>8. Listed(words).kind = "heading" /\ Listed(words).level = Hashes[words[1].word] /\ Listed(words).words = t
    BY <2>6 DEF Written
  <2> QED BY <2>1, <2>4, <2>5, <2>7, <2>8 DEF t
<1>2. CASE ~(Len(words) > 1 /\ words[1].word \in DOMAIN Hashes)
  <2>1. Listed(words) = Written("text", 0, words) BY <1>2 DEF Listed
  <2>2. Listed(words) \in Lines BY <2>1, MarkLines DEF LineKinds
  <2>3. Listed(words).kind = "text" /\ Listed(words).words = words BY <2>1 DEF Written
  <2> QED BY <2>2, <2>3
<1> QED BY <1>1, <1>2

\* What stands between fences is read line by line.
LEMMA TakesListing ==
    ASSUME NEW m, Raw(m), NEW r \in Readers, r.at = "fence", r.fence = <<>>,
           NEW ls \in Seq(Seq(Tokens)), OnPage(ls, r.page)
    PROVE  /\ Listing(ls) \in Seq(Lines)
           /\ \E s \in Readers :
                 /\ Takes(m, Listing(ls), r, s) /\ s.at = "fence" /\ s.page = r.page /\ s.marked = r.marked
                 /\ ListingRead(m, s, ls) /\ s.fence = FenceText(Listing(ls), m.detect)
<1> DEFINE N == Len(ls)  L == Listing(ls)
           Told(s, k) == \/ ToSet(ls[k]) \subseteq s.said
                         \/ Listed(ls[k]).kind = "heading" /\ Title(m, Listed(ls[k])) \in s.titles
           Reached(s, n) == /\ Takes(m, SubSeq(L, 1, n), r, s) /\ s.at = "fence" /\ s.page = r.page
                            /\ s.marked = r.marked /\ s.fence = FenceText(SubSeq(L, 1, n), m.detect)
                            /\ \A k \in 1 .. n : Told(s, k)
           Good == {n \in 0 .. N : \E s \in Readers : Reached(s, n)}
<1>1. /\ N \in Nat /\ DOMAIN ls = 1 .. N /\ \A n \in 1 .. N : ls[n] \in Seq(Tokens) /\ ls[n] \in ToSet(ls)
      /\ ~m.ordered /\ r.page \in Int
  BY InSequence, ReaderFields DEF ToSet, Raw
<1>2. L = [n \in 1 .. N |-> Listed(ls[n])]
  BY <1>1 DEF Listing
<1>3. L \in Seq(Lines) /\ Len(L) = N /\ \A n \in 1 .. N : L[n] = Listed(ls[n]) /\ L[n] \in Lines
  <2>1. \A n \in 1 .. N : Listed(ls[n]) \in Lines BY <1>1, ListedLine
  <2> QED BY <1>1, <1>2, <2>1
<1> HIDE DEF N, L
<1>4. 0 \in Good
  <2>1. SubSeq(L, 1, 0) = <<>> BY SubSeqEmpty
  <2>2. Takes(m, SubSeq(L, 1, 0), r, r) /\ r.fence = FenceText(SubSeq(L, 1, 0), m.detect) /\ 1 .. 0 = {}
    <3>1. FenceText(<<>>, m.detect) = <<>> BY NoFenceText
    <3>2. Takes(m, <<>>, r, r) BY TakesNothing
    <3>3. FenceText(SubSeq(L, 1, 0), m.detect) = <<>> /\ Takes(m, SubSeq(L, 1, 0), r, r)
      BY <2>1, <3>1, <3>2, Zenon
    <3> QED BY <3>3
  <2>3. Reached(r, 0) BY <2>2
  <2> QED BY <1>1, <2>3
<1>5. ASSUME NEW n \in 1 .. N, n - 1 \in Good PROVE n \in Good
  <2> DEFINE l == L[n]  before == SubSeq(L, 1, n - 1)
  <2>1. PICK s \in Readers : Reached(s, n - 1) BY <1>5
  <2>2. /\ before \in Seq(Lines) /\ SubSeq(L, 1, n) = Append(before, l) /\ l \in Lines
        /\ SubSeq(L, 1, n) = before \o <<l>>
    <3>1. 1 \in 1 .. Len(L) /\ n \in 1 .. Len(L) /\ 1 \in 1 .. Len(L) + 1 /\ n - 1 \in 0 .. Len(L)
      BY <1>1, <1>3
    <3>2. before \in Seq(Lines) BY <1>3, <3>1, Part
    <3>3. SubSeq(L, 1, n) = before \o <<l>> BY <1>3, <3>1, SubSeqRecursiveSecond
    <3> QED BY <1>3, <3>2, <3>3, AppendIsConcat
  <2>3. /\ ToSet(l.words) \subseteq ToSet(ls[n]) /\ l.kind \in {"text", "heading"} /\ l = Listed(ls[n])
        /\ l.kind = "text" => l.words = ls[n]
        /\ l.kind = "heading" => l.level > 0
        /\ \A t \in ToSet(ls[n]) : t.page = r.page
    BY <1>1, <1>3, ListedLine DEF OnPage
  <2>4. /\ Takes(m, before, r, s) /\ s.at = "fence" /\ s.page = r.page /\ s.marked = r.marked
        /\ s.fence = FenceText(before, m.detect) /\ \A k \in 1 .. n - 1 : Told(s, k)
    BY <2>1
  <2> HIDE DEF l, before
  <2>5. Fits(m, s, l) /\ TurnsTo(s, l, r.page) BY <1>1, <2>3, <2>4 DEF Fits, TurnsTo
  <2> DEFINE e == Reading(m, s, l, r.page)
  <2>6. Takes(m, <<l>>, s, e) /\ e \in Readers /\ <<l>> \in Seq(Lines) BY <1>1, <2>2, <2>5, TakesOne
  <2>7. Takes(m, before \o <<l>>, r, e) BY <2>2, <2>4, <2>6, TakesBoth
  <2>8. /\ e.at = "fence" /\ e.page = r.page /\ e.marked = r.marked
        /\ e.fence = FenceLine(s.fence, l, m.detect)
        /\ s.said \subseteq e.said /\ s.titles \subseteq e.titles
        /\ l.kind = "text" => ToSet(l.words) \subseteq e.said
        /\ l.kind = "heading" => Title(m, l) \in e.titles
    BY <2>3, <2>4 DEF Reading, GoesTo
  <2> HIDE DEF e
  <2>9. Told(e, n) BY <2>3, <2>8
  <2>10. \A k \in 1 .. n : Told(e, k)
    <3>1. \A k \in 1 .. n : k = n \/ k \in 1 .. n - 1 BY <1>1
    <3> QED BY <2>4, <2>8, <2>9, <3>1
  <2>11. e.fence = FenceText(SubSeq(L, 1, n), m.detect) BY <2>2, <2>4, <2>8, FenceTextOn
  <2> HIDE DEF Told
  <2>12. Reached(e, n) BY <2>2, <2>7, <2>8, <2>10, <2>11
  <2> QED BY <1>1, <2>6, <2>12
<1>6. N \in Good
  <2> HIDE DEF Good
  <2> QED BY <1>1, <1>4, <1>5, Counting
<1>7. PICK s \in Readers : Reached(s, N)
  BY <1>6
<1>8. SubSeq(L, 1, N) = L
  BY <1>3, SubSeqFull
<1>9. ListingRead(m, s, ls)
  BY <1>1, <1>7 DEF ListingRead, ToSet
<1> QED BY <1>3, <1>7, <1>8, <1>9 DEF L

LEMMA TakesFenced ==
    ASSUME NEW m, Raw(m), NEW q, Free(q), NEW ls \in Seq(Seq(Tokens)), OnPage(ls, q.page)
    PROVE  \E e : FencedEnd(m, ls, q, e)
<1> DEFINE p == q.page  L == Listing(ls)  r == Reading(m, q, Fence, p)
<1>1. q \in Readers /\ q.at = "text" /\ q.page \in Int /\ p = q.page /\ ~m.ordered
  BY ReaderFields DEF Free, Raw
<1>2. Fence \in Lines /\ Fence.words = <<>> /\ Fence.kind = "fence" /\ ToSet(<<>>) = {}
  BY MarkLines DEF Fence, Written, ToSet
<1> HIDE DEF p
<1>3. Takes(m, <<Fence>>, q, r) /\ r \in Readers
  <2>1. Fits(m, q, Fence) /\ TurnsTo(q, Fence, p) BY <1>1, <1>2 DEF Fits, TurnsTo
  <2> QED BY <1>1, <1>2, <2>1, TakesOne
<1>4. r.at = "fence" /\ r.page = p /\ r.marked = q.marked /\ r.fence = <<>>
  BY <1>1, <1>2 DEF Reading, GoesTo
<1> HIDE DEF r
<1>5. /\ L \in Seq(Lines)
      /\ \E s \in Readers :
            /\ Takes(m, L, r, s) /\ s.at = "fence" /\ s.page = p /\ s.marked = q.marked
            /\ ListingRead(m, s, ls) /\ s.fence = FenceText(L, m.detect)
  BY <1>1, <1>3, <1>4, TakesListing
<1> HIDE DEF L
<1>6. PICK s \in Readers : /\ Takes(m, L, r, s) /\ s.at = "fence" /\ s.page = p /\ s.marked = q.marked
                           /\ ListingRead(m, s, ls) /\ s.fence = FenceText(L, m.detect)
  BY <1>5
<1> DEFINE e == Reading(m, s, Fence, p)
<1>7. Takes(m, <<Fence>>, s, e) /\ e \in Readers /\ Rested(e)
  <2>1. Fits(m, s, Fence) /\ TurnsTo(s, Fence, p) BY <1>2, <1>6 DEF Fits, TurnsTo
  <2> QED BY <1>1, <1>2, <2>1, TakesOne
<1>8. /\ e.at = "text" /\ e.page = p /\ e.marked = q.marked /\ FenceText(L, m.detect) \in e.fences
      /\ s.said \subseteq e.said /\ s.titles \subseteq e.titles
  BY <1>2, <1>6 DEF Reading, GoesTo
<1> HIDE DEF e
<1>9. ListingRead(m, e, ls)
  BY <1>6, <1>8 DEF ListingRead
<1>10. <<Fence>> \in Seq(Lines)
  BY <1>2
<1>11. <<Fence>> \o L \in Seq(Lines) /\ Takes(m, <<Fence>> \o L, q, s)
  BY <1>3, <1>5, <1>6, <1>10, TakesBoth, Concatenated
<1>12. (<<Fence>> \o L) \o <<Fence>> \in Seq(Lines) /\ Takes(m, (<<Fence>> \o L) \o <<Fence>>, q, e)
  BY <1>7, <1>10, <1>11, TakesBoth, Concatenated
<1> QED BY <1>1, <1>7, <1>8, <1>9, <1>12 DEF L, FencedEnd, Free

LEMMA BlockTakes ==
    ASSUME NEW m, Raw(m), NEW q, Free(q), NEW b \in Blocks, Read(b, q.page)
    PROVE  /\ BlockLines(b) \in Seq(Lines)
           /\ \E e : /\ Takes(m, BlockLines(b), q, e) /\ Free(e) /\ e.page = q.page
                     /\ e.marked = q.marked /\ Held(m, e, b)
<1> DEFINE ls == b.lines
<1>1. /\ ls \in Seq(Seq(Tokens)) /\ OnPage(ls, q.page) /\ b.level \in 0 .. 6
      /\ b.kind \in Kinds /\ (b.kind = "text" /\ b.level > 0 => Len(ls) = 1)
  BY DEF Blocks, TokenLines, Read, IsText, IsHeading
<1>6. ls = b.lines OBVIOUS
<1> HIDE DEF ls
<1>2. CASE b.kind \in {"diagram", "code"}
  <2>1. BlockLines(b) = <<Fence>> \o Listing(ls) \o <<Fence>> BY <1>2, <1>6 DEF BlockLines
  <2>2. PICK e : FencedEnd(m, ls, q, e) BY <1>1, TakesFenced
  <2>3. Held(m, e, b) BY <1>2, <1>6, <2>2 DEF Held, FencedEnd
  <2> QED BY <2>1, <2>2, <2>3 DEF FencedEnd
<1>3. CASE b.kind = "equation"
  <2>1. BlockLines(b) = <<MathFence>> \o Plain(ls) \o <<MathFence>> BY <1>3, <1>6 DEF BlockLines
  <2>2. PICK e : FormulaEnd(m, ls, q, e) BY <1>1, TakesFormula
  <2>3. Held(m, e, b) BY <1>6, <1>3, <2>2 DEF Held, FormulaEnd
  <2> QED BY <2>1, <2>2, <2>3 DEF FormulaEnd
<1>4. CASE b.kind = "text" /\ b.level > 0
  <2> DEFINE l == Written("heading", b.level, ls[1])
             e == Reading(m, q, l, q.page)
  <2>1. BlockLines(b) = <<l>> BY <1>4, <1>6 DEF BlockLines, IsHeading
  <2>2. ls[1] \in Seq(Tokens) /\ ls[1] \in ToSet(ls)
    <3>1. DOMAIN ls = 1 .. Len(ls) /\ \A i \in 1 .. Len(ls) : ls[i] \in Seq(Tokens)
      BY <1>1, InSequence, Zenon
    <3>3. Len(ls) = 1 BY <1>1, <1>4
    <3>2. 1 \in 1 .. Len(ls) BY <3>3
    <3> QED BY <3>1, <3>2 DEF ToSet
  <2>3. l \in Lines
    <3>1. "heading" \in LineKinds BY DEF LineKinds
    <3> QED BY <1>1, <2>2, <3>1, MarkLines
  <2>4. l.kind = "heading" /\ l.level = b.level /\ l.words = ls[1] BY DEF Written
  <2> HIDE DEF l
  <2>5. q \in Readers /\ q.at = "text" /\ q.page \in Int /\ ~m.ordered BY ReaderFields DEF Free, Raw
  <2>6. Fits(m, q, l) /\ TurnsTo(q, l, q.page)
    <3>1. \A t \in ToSet(l.words) : t.page = q.page BY <1>1, <2>2, <2>4 DEF OnPage
    <3> QED BY <1>4, <2>4, <2>5, <3>1 DEF Fits, TurnsTo
  <2>7. Takes(m, <<l>>, q, e) /\ e \in Readers /\ Rested(e) BY <2>3, <2>5, <2>6, TakesOne
  <2>8. /\ e.at = "text" /\ e.page = q.page /\ e.marked = q.marked
        /\ Title(m, l) \in e.titles
    BY <2>4, <2>5 DEF Reading, GoesTo
  <2> HIDE DEF e
  <2>9. Held(m, e, b) BY <1>6, <1>4, <2>4, <2>8 DEF Held, Title
  <2>10. <<l>> \in Seq(Lines) BY <2>3
  <2> QED BY <2>1, <2>7, <2>8, <2>9, <2>10 DEF Free
<1>5. CASE ~(b.kind \in {"diagram", "code", "equation"}) /\ ~(b.kind = "text" /\ b.level > 0)
  <2>1. PICK kind \in {"text", "picture", "row"} : BlockLines(b) = OfKind(kind, ls)
    <3>1. CASE b.kind \in {"visual", "equation-fallback", "source-page"}
      BY <1>6, <3>1 DEF BlockLines, OfKind
    <3>2. CASE b.kind = "table" BY <1>6, <3>2 DEF BlockLines, OfKind
    <3>3. CASE b.kind = "text" BY <1>5, <1>6, <3>3 DEF BlockLines, OfKind, Plain, IsHeading
    <3> QED BY <1>1, <1>5, <3>1, <3>2, <3>3 DEF Kinds
  <2>2. PICK e : /\ Takes(m, OfKind(kind, ls), q, e) /\ Free(e) /\ e.page = q.page
                 /\ e.marked = q.marked /\ TokensOf(ls) \subseteq e.said
    BY <1>1, TakesWords
  <2>3. OfKind(kind, ls) \in Seq(Lines) BY <1>1, LinesOfKind
  <2>4. Held(m, e, b) BY <1>6, <1>5, <2>2 DEF Held
  <2> QED BY <2>1, <2>2, <2>3, <2>4
<1> QED BY <1>2, <1>3, <1>4, <1>5

LEMMA BeneathType ==
    ASSUME NEW done \in Seq(Lines), NEW part \in Seq(Lines)
    PROVE  Beneath(done, part) \in Seq(Lines)
<1>1. <<Blank>> \in Seq(Lines)
  BY MarkLines
<1>2. done \o <<Blank>> \in Seq(Lines)
  BY <1>1, Concatenated
<1>3. (done \o <<Blank>>) \o part \in Seq(Lines)
  BY <1>2, Concatenated
<1> QED BY <1>3 DEF Beneath

LEMMA Separating ==
    ASSUME NEW parts \in Seq(Seq(Lines))
    PROVE  \E U : Separates(U, parts)
<1> DEFINE N == Len(parts)  S == Seq(Lines)
           G == [n \in 1 .. N |-> [x \in S |-> Beneath(x, parts[n])]]
           Eq(f) == f = [n \in 0 .. N |-> IF n = 0 THEN <<>> ELSE Beneath(f[n - 1], parts[n])]
           F == CHOOSE f : Eq(f)
<1>1. N \in Nat /\ DOMAIN parts = 1 .. N /\ \A n \in 1 .. N : parts[n] \in S
  BY InSequence
<1>2. G \in [1 .. N -> [S -> S]] /\ <<>> \in S
  <2>1. <<>> \in S OBVIOUS
  <2>2. \A n \in 1 .. N : \A x \in S : Beneath(x, parts[n]) \in S BY <1>1, BeneathType
  <2> QED BY <2>1, <2>2
<1>3. \A n \in 1 .. N : \A x \in S : G[n][x] = Beneath(x, parts[n]) OBVIOUS
<1> HIDE DEF G, S, N
<1>4. PICK f : Solves(f, N, S, <<>>, G)
  BY <1>1, <1>2, Recursion
<1>5. f \in [0 .. N -> S] /\ f[0] = <<>>
  BY <1>4 DEF Solves
<1>6. \A n \in 1 .. N : n - 1 \in 0 .. N /\ f[n] = Beneath(f[n - 1], parts[n])
  <2>1. \A n \in 1 .. N : n - 1 \in 0 .. N /\ n \in 0 .. N BY <1>1
  <2> QED BY <1>3, <1>4, <1>5, <2>1 DEF Solves
<1>7. Eq(f)
  <2>1. \A n \in 0 .. N : f[n] = IF n = 0 THEN <<>> ELSE Beneath(f[n - 1], parts[n])
    <3>1. \A n \in 0 .. N : n = 0 \/ n \in 1 .. N BY <1>1
    <3> QED BY <1>5, <1>6, <3>1
  <2> QED BY <1>5, <2>1
<1>8. Eq(F)
  <2> HIDE DEF Eq
  <2> QED BY <1>7, Zenon
<1>9. Separated(parts) = F[N]
  BY Zenon DEF Separated, N
<1>10. \A n \in 0 .. N : F[n] = IF n = 0 THEN <<>> ELSE Beneath(F[n - 1], parts[n])
  <2> HIDE DEF F
  <2> QED BY <1>8, Zenon
<1> HIDE DEF F
<1>11. F[0] = <<>> /\ \A n \in 1 .. N : F[n] = Beneath(F[n - 1], parts[n])
  <2>1. \A n \in 1 .. N : n \in 0 .. N /\ n # 0 BY <1>1
  <2> QED BY <1>1, <1>10, <2>1
<1> DEFINE Good == {n \in 0 .. N : F[n] = f[n]}
<1>12. 0 \in Good
  BY <1>1, <1>5, <1>11
<1>13. ASSUME NEW n \in 1 .. N, n - 1 \in Good PROVE n \in Good
  <2>1. F[n] = f[n] BY <1>6, <1>11, <1>13
  <2> QED BY <1>1, <2>1
<1>14. F[N] = f[N]
  <2> HIDE DEF Good
  <2>1. N \in Good BY <1>1, <1>12, <1>13, Counting
  <2> QED BY <2>1 DEF Good
<1>15. Separates(f, parts)
  BY <1>5, <1>6, <1>9, <1>14 DEF Separates, S, N
<1> QED BY <1>15

LEMMA TakesNone ==
    ASSUME NEW m, NEW q, NEW e, Takes(m, <<>>, q, e)
    PROVE  e = q
<1>1. PICK w : Walk(m, <<>>, w) /\ w[0] = q /\ w[Len(<<>>)] = e
  BY DEF Takes
<1>2. Len(<<>>) = 0 OBVIOUS
<1> QED BY <1>1, <1>2

LEMMA TakesBlank ==
    ASSUME NEW m, NEW q, Free(q), NEW p \in Int, q.page <= p
    PROVE  \E r : BlankEnd(m, q, p, r)
<1> DEFINE r == Reading(m, q, Blank, p)
<1>1. q \in Readers /\ q.at = "text" /\ q.page \in Int
  BY ReaderFields DEF Free
<1>2. Blank \in Lines /\ Blank.kind = "blank" /\ Blank.words = <<>> /\ ToSet(<<>>) = {}
  BY MarkLines DEF Blank, Written, ToSet
<1>3. Fits(m, q, Blank) /\ TurnsTo(q, Blank, p)
  BY <1>1, <1>2 DEF Fits, TurnsTo
<1>4. Takes(m, <<Blank>>, q, r) /\ r \in Readers /\ Rested(r)
  BY <1>1, <1>2, <1>3, TakesOne
<1>5. /\ r.at = "text" /\ r.page = p /\ r.marked = q.marked
      /\ r.said = q.said /\ r.titles = q.titles /\ r.fences = q.fences
  BY <1>1, <1>2 DEF Reading, GoesTo
<1> HIDE DEF r
<1>6. Free(r)
  BY <1>4, <1>5 DEF Free
<1> QED BY <1>4, <1>5, <1>6 DEF BlankEnd

LEMMA TakesMarker ==
    ASSUME NEW m, NEW q, Free(q), NEW p \in Pages, q.page < p
    PROVE  \E r : MarkerEnd(m, q, p, r)
<1> DEFINE l == Marker(p)  r == Reading(m, q, l, p)
<1>1. q \in Readers /\ q.at = "text" /\ q.page \in Int /\ p \in Int
  BY ReaderFields DEF Free, Pages
<1>2. l \in Lines /\ l.kind = "marker" /\ l.words = <<>> /\ l.level = p /\ ToSet(<<>>) = {}
  BY MarkLines DEF Marker, Written, ToSet
<1> HIDE DEF l
<1>3. Fits(m, q, l) /\ TurnsTo(q, l, p)
  BY <1>1, <1>2 DEF Fits, TurnsTo
<1>4. Takes(m, <<l>>, q, r) /\ r \in Readers /\ Rested(r)
  BY <1>1, <1>2, <1>3, TakesOne
<1>5. r.at = "text" /\ r.page = p /\ r.marked = q.marked \cup {p}
  BY <1>1, <1>2 DEF Reading, GoesTo
<1> HIDE DEF r
<1>6. Free(r)
  BY <1>4, <1>5 DEF Free
<1> QED BY <1>4, <1>5, <1>6 DEF l, MarkerEnd

\* What is put beneath is read where what is above it ends.
LEMMA TakesBeneath ==
    ASSUME NEW m, NEW done \in Seq(Lines), NEW part \in Seq(Lines), done # <<>>, part # <<>>,
           NEW q, NEW e, NEW r, NEW t,
           Takes(m, done, q, e), Takes(m, <<Blank>>, e, r), Takes(m, part, r, t)
    PROVE  Takes(m, Beneath(done, part), q, t)
<1>1. <<Blank>> \in Seq(Lines)
  BY MarkLines
<1>2. Takes(m, done \o <<Blank>>, q, r) /\ done \o <<Blank>> \in Seq(Lines)
  BY <1>1, TakesBoth, Concatenated
<1>3. Takes(m, (done \o <<Blank>>) \o part, q, t)
  BY <1>2, TakesBoth
<1> QED BY <1>3 DEF Beneath

LEMMA PartsOfPage ==
    ASSUME NEW page \in PageIRs, NEW preserve \in BOOLEAN,
           \A b \in ToSet(page.blocks) : BlockLines(b) \in Seq(Lines)
    PROVE  /\ PageParts(page, preserve) \in Seq(Seq(Lines))
           /\ Len(page.blocks) \in Nat /\ DOMAIN page.blocks = 1 .. Len(page.blocks)
           /\ Len(PageParts(page, preserve)) = Ahead(preserve) + Len(page.blocks)
           /\ preserve => PageParts(page, preserve)[1] = <<Marker(page.page)>>
           /\ \A k \in 1 .. Len(page.blocks) :
                 PageParts(page, preserve)[Ahead(preserve) + k] = BlockLines(page.blocks[k])
<1> DEFINE bs == page.blocks  texts == [i \in DOMAIN bs |-> BlockLines(bs[i])]
           T == Seq(Lines)
           lead == IF preserve THEN <<<<Marker(page.page)>>>> ELSE <<>>
<1>1. bs \in Seq(Blocks) /\ page.page \in Pages
  BY DEF PageIRs
<1>2. Len(bs) \in Nat /\ DOMAIN bs = 1 .. Len(bs) /\ \A k \in 1 .. Len(bs) : bs[k] \in ToSet(bs)
  <2>1. Len(bs) \in Nat /\ DOMAIN bs = 1 .. Len(bs) BY <1>1, InSequence
  <2> QED BY <2>1 DEF ToSet
<1>3. \A k \in 1 .. Len(bs) : BlockLines(bs[k]) \in T
  BY <1>2
<1>4. PageParts(page, preserve) = lead \o texts
  BY DEF PageParts
<1> HIDE DEF bs
<1>5. texts \in Seq(T) /\ Len(texts) = Len(bs) /\ \A k \in 1 .. Len(bs) : texts[k] = BlockLines(bs[k])
  <2>1. texts = [k \in 1 .. Len(bs) |-> BlockLines(bs[k])] BY <1>2
  <2> HIDE DEF texts, T
  <2> QED BY <1>2, <1>3, <2>1
<1>6. lead \in Seq(T) /\ Len(lead) = Ahead(preserve) /\ (preserve => lead[1] = <<Marker(page.page)>>)
  <2>1. <<Marker(page.page)>> \in T BY <1>1, MarkLines
  <2> HIDE DEF T
  <2> QED BY <2>1 DEF Ahead
<1> HIDE DEF texts, lead, T
<1>7. /\ lead \o texts \in Seq(T) /\ Len(lead \o texts) = Len(lead) + Len(texts)
      /\ \A i \in 1 .. Len(lead) + Len(texts) :
            (lead \o texts)[i] = IF i <= Len(lead) THEN lead[i] ELSE texts[i - Len(lead)]
  <2>1. lead \in Seq(T) /\ texts \in Seq(T) BY <1>5, <1>6
  <2> QED BY <2>1, ConcatProperties
<1>8. preserve => (lead \o texts)[1] = <<Marker(page.page)>>
  BY <1>2, <1>5, <1>6, <1>7 DEF Ahead
<1>9. ASSUME NEW k \in 1 .. Len(bs) PROVE (lead \o texts)[Ahead(preserve) + k] = BlockLines(bs[k])
  <2>1. Ahead(preserve) \in Nat BY DEF Ahead
  <2>2. /\ Ahead(preserve) + k \in 1 .. Len(lead) + Len(texts) /\ ~(Ahead(preserve) + k <= Len(lead))
        /\ (Ahead(preserve) + k) - Len(lead) = k
    BY <1>2, <1>5, <1>6, <2>1
  <2> QED BY <1>5, <1>7, <2>2
<1> QED BY <1>2, <1>4, <1>5, <1>6, <1>7, <1>8, <1>9 DEF bs, T

LEMMA AtStart ==
    ASSUME NEW p \in Int
    PROVE  Free(Start(p)) /\ Start(p).page = p
<1>1. <<>> \in Seq(STRING) /\ <<>> \in Seq(Tokens) /\ <<>> \in Seq(Lines) OBVIOUS
<1>2. {<<>>} \in SUBSET (Seq(STRING) \cup Seq(Tokens))
  BY <1>1
<1>3. Start(p) \in Readers
  BY <1>1, <1>2 DEF Start, Readers
<1> QED BY <1>3 DEF Free, Rested, Start

LEMMA PageTakes ==
    ASSUME NEW m, Raw(m), NEW page \in PageIRs, NEW preserve \in BOOLEAN,
           \A b \in ToSet(page.blocks) : Read(b, page.page),
           NEW q, Free(q), IF preserve THEN q.page < page.page ELSE q.page = page.page
    PROVE  \E e : ReadsPage(m, page, preserve, q, e)
<1> DEFINE p == page.page  bs == page.blocks  parts == PageParts(page, preserve)  J == Ahead(preserve)
           N == Len(parts)
<1>1. bs \in Seq(Blocks) /\ p \in Pages /\ p \in Int
  BY DEF PageIRs, Pages
<1>2. \A b \in ToSet(bs) : b \in Blocks /\ Read(b, p)
  BY <1>1, InSequence
<1>3. \A b \in ToSet(bs) : BlockLines(b) \in Seq(Lines)
  <2> SUFFICES ASSUME NEW b \in ToSet(bs) PROVE BlockLines(b) \in Seq(Lines) OBVIOUS
  <2>1. Free(Start(p)) /\ Start(p).page = p BY <1>1, AtStart
  <2> QED BY <1>2, <2>1, BlockTakes
<1>4. /\ parts \in Seq(Seq(Lines)) /\ Len(bs) \in Nat /\ DOMAIN bs = 1 .. Len(bs)
      /\ N = J + Len(bs) /\ (preserve => parts[1] = <<Marker(p)>>)
      /\ \A k \in 1 .. Len(bs) : parts[J + k] = BlockLines(bs[k])
  BY <1>3, PartsOfPage
<1>5. J = IF preserve THEN 1 ELSE 0
  BY DEF Ahead
<1>6. PICK U : Separates(U, parts)
  BY <1>4, Separating
<1>7. /\ U \in [0 .. N -> Seq(Lines)] /\ U[0] = <<>> /\ U[N] = Separated(parts)
      /\ \A n \in 1 .. N : U[n] = Beneath(U[n - 1], parts[n])
  BY <1>6 DEF Separates
<1>8. N \in Nat /\ \A n \in 1 .. N : parts[n] \in Seq(Lines) /\ n - 1 \in 0 .. N /\ n \in 0 .. N
  <2>1. N \in Nat /\ \A n \in 1 .. N : parts[n] \in Seq(Lines) BY <1>4, InSequence
  <2> QED BY <2>1
<1> HIDE DEF p, bs, parts, J, N
<1> DEFINE Reached(n, e) ==
               /\ Takes(m, U[n], q, e) /\ Free(e)
               /\ e.page = IF n = 0 THEN q.page ELSE p
               /\ e.marked = q.marked \cup IF preserve /\ n > 0 THEN {p} ELSE {}
               /\ \A k \in 1 .. n - J : Held(m, e, bs[k])
           Good == {n \in 0 .. N : \E e : Reached(n, e)}
<1>9. 0 \in Good
  <2>1. Takes(m, U[0], q, q) BY <1>7, TakesNothing DEF Free
  <2>2. 1 .. 0 - J = {} BY <1>5
  <2>3. Reached(0, q) BY <2>1, <2>2
  <2> QED BY <1>8, <2>3
<1>10. ASSUME NEW n \in 1 .. N, n - 1 \in Good PROVE n \in Good
  <2>1. PICK e : Reached(n - 1, e) BY <1>10
  <2> HIDE DEF Good
  <2>2. /\ Takes(m, U[n - 1], q, e) /\ Free(e) /\ U[n - 1] \in Seq(Lines) /\ n \in Nat
        /\ U[n] = Beneath(U[n - 1], parts[n]) /\ parts[n] \in Seq(Lines)
        /\ e.page = IF n - 1 = 0 THEN q.page ELSE p
        /\ e.marked = q.marked \cup IF preserve /\ n - 1 > 0 THEN {p} ELSE {}
        /\ \A k \in 1 .. (n - 1) - J : Held(m, e, bs[k])
    <3>1. /\ U[n - 1] \in Seq(Lines) /\ n \in Nat /\ U[n] = Beneath(U[n - 1], parts[n])
          /\ parts[n] \in Seq(Lines)
      BY <1>7, <1>8
    <3> QED BY <2>1, <3>1, Zenon
  <2> HIDE DEF Reached
  <2>3. CASE n <= J
    <3>1. n = 1 /\ preserve /\ n - 1 = 0 BY <1>5, <1>8, <2>3
    <3>2. U[1] = <<Marker(p)>> BY <1>4, <1>7, <2>2, <3>1 DEF Beneath
    <3>3. PICK r : MarkerEnd(m, q, p, r)
      <4>1. q.page < p BY <3>1 DEF p
      <4> QED BY <1>1, <4>1, TakesMarker
    <3>4. 1 .. 1 - J = {} BY <1>5, <3>1
    <3>5. Reached(1, r) BY <3>1, <3>2, <3>3, <3>4 DEF Reached, MarkerEnd
    <3> QED BY <1>8, <3>1, <3>5 DEF Good
  <2>4. CASE n > J
    <3> DEFINE k == n - J
    <3>1. k \in 1 .. Len(bs) /\ n = J + k /\ J \in Nat
      <4>1. n \in Int /\ N \in Int /\ n <= N BY <1>8
      <4>2. J \in Nat BY <1>5
      <4> QED BY <1>4, <2>4, <4>1, <4>2
    <3>2. parts[n] = BlockLines(bs[k]) /\ bs[k] \in ToSet(bs) BY <1>4, <3>1 DEF ToSet
    <3> DEFINE b == bs[k]
    <3>3. b \in Blocks /\ Read(b, p) BY <1>2, <3>2
    <3>4. e.page = p
      <4>1. n - 1 = 0 => ~preserve /\ q.page = p BY <1>5, <2>4, <3>1 DEF p
      <4> QED BY <2>2, <4>1
    <3>5. q.marked \cup (IF preserve /\ n > 0 THEN {p} ELSE {}) = e.marked
      <4>1. preserve => n - 1 > 0 BY <1>5, <2>2, <2>4
      <4> QED BY <2>2, <4>1
    <3>6. \A i \in 1 .. k : i \in 1 .. (n - 1) - J \/ i = k BY <3>1
    <3> HIDE DEF b, k
    <3>7. ASSUME NEW r, Free(r), r.page = p, r.marked = e.marked, NEW t,
                 r.said = e.said, r.titles = e.titles, r.fences = e.fences,
                 Takes(m, parts[n], r, t), Free(t), t.page = p, t.marked = r.marked, Held(m, t, b),
                 Takes(m, U[n], q, t)
          PROVE  n \in Good
      <4>1. Grows(r, t) BY <2>2, <3>7, TakesFacts
      <4>2. \A i \in 1 .. k : Held(m, t, bs[i])
        <5> SUFFICES ASSUME NEW i \in 1 .. k PROVE Held(m, t, bs[i]) OBVIOUS
        <5>1. CASE i = k BY <3>7, <5>1 DEF b
        <5>2. CASE i # k
          <6>1. Held(m, e, bs[i]) BY <2>2, <3>6, <5>2
          <6>2. e.said \subseteq t.said /\ e.titles \subseteq t.titles /\ e.fences \subseteq t.fences
            BY <3>7, <4>1 DEF Grows
          <6> QED BY <6>1, <6>2, HeldOn
        <5> QED BY <5>1, <5>2
      <4>3. n # 0 /\ n - J = k BY <2>2, <2>4, <3>1 DEF k
      <4>4. Reached(n, t) BY <3>5, <3>7, <4>2, <4>3 DEF Reached
      <4> QED BY <1>8, <4>4 DEF Good
    <3>8. CASE U[n - 1] = <<>>
      <4>1. PICK t : /\ Takes(m, BlockLines(b), e, t) /\ Free(t) /\ t.page = e.page
                     /\ t.marked = e.marked /\ Held(m, t, b)
        BY <2>2, <3>3, <3>4, BlockTakes
      <4>2. U[n] = parts[n] /\ e = q
        <5>1. e = q BY <2>2, <3>8, TakesNone
        <5> QED BY <2>2, <3>8, <5>1 DEF Beneath
      <4>3. Takes(m, parts[n], e, t) /\ Takes(m, U[n], q, t) BY <3>2, <4>1, <4>2 DEF b
      <4> QED BY <2>2, <3>4, <3>7, <4>1, <4>3
    <3>9. CASE parts[n] = <<>>
      <4>1. PICK t : /\ Takes(m, BlockLines(b), e, t) /\ Free(t) /\ t.page = e.page
                     /\ t.marked = e.marked /\ Held(m, t, b)
        BY <2>2, <3>3, <3>4, BlockTakes
      <4>2. Takes(m, parts[n], e, t) /\ t = e
        <5>1. Takes(m, parts[n], e, t) BY <3>2, <4>1 DEF b
        <5> QED BY <3>9, <5>1, TakesNone
      <4>3. U[n] = U[n - 1] BY <2>2, <3>9 DEF Beneath
      <4>4. Takes(m, U[n], q, t) BY <2>2, <4>2, <4>3
      <4> QED BY <2>2, <3>4, <3>7, <4>1, <4>2, <4>4
    <3>10. CASE U[n - 1] # <<>> /\ parts[n] # <<>>
      <4>5. PICK r : BlankEnd(m, e, p, r)
        <5>1. e.page <= p BY <1>1, <3>4
        <5> QED BY <1>1, <2>2, <5>1, TakesBlank
      <4>1. /\ Takes(m, <<Blank>>, e, r) /\ Free(r) /\ r.page = p /\ r.marked = e.marked
            /\ r.said = e.said /\ r.titles = e.titles /\ r.fences = e.fences
        BY <4>5 DEF BlankEnd
      <4>2. PICK t : /\ Takes(m, BlockLines(b), r, t) /\ Free(t) /\ t.page = r.page
                     /\ t.marked = r.marked /\ Held(m, t, b)
        BY <3>3, <4>1, BlockTakes
      <4>3. Takes(m, parts[n], r, t) BY <3>2, <4>2 DEF b
      <4>4. Takes(m, U[n], q, t) BY <2>2, <3>10, <4>1, <4>3, TakesBeneath
      <4> QED BY <3>7, <4>1, <4>2, <4>3, <4>4
    <3> QED BY <3>8, <3>9, <3>10
  <2>5. n \in Int /\ J \in Int BY <1>5, <2>2
  <2> QED BY <2>3, <2>4, <2>5
<1> HIDE DEF Good
<1>11. N \in Good
  BY <1>8, <1>9, <1>10, Counting
<1>12. PICK e : Reached(N, e)
  BY <1>11 DEF Good
<1>13. e.page = p /\ e.marked = q.marked \cup IF preserve THEN {p} ELSE {}
  <2>1. CASE N = 0
    <3>1. ~preserve BY <1>4, <1>5, <2>1
    <3>2. q.page = p BY <3>1 DEF p
    <3> QED BY <1>12, <2>1, <3>1, <3>2
  <2>2. CASE N # 0
    <3>1. N > 0 BY <1>8, <2>2
    <3> QED BY <1>12, <2>2, <3>1
  <2> QED BY <2>1, <2>2
<1>14. Holds(m, e, bs)
  <2>1. N - J = Len(bs) BY <1>4, <1>5
  <2>2. \A k \in 1 .. Len(bs) : Held(m, e, bs[k]) BY <1>12, <2>1
  <2> QED BY <1>4, <2>2 DEF Holds, ToSet
<1>15. Takes(m, U[N], q, e) /\ Free(e) /\ U[N] \in Seq(Lines)
  <2>1. N \in 0 .. N BY <1>8
  <2> QED BY <1>7, <1>12, <2>1
<1> QED BY <1>7, <1>13, <1>14, <1>15 DEF ReadsPage, p, bs, parts

LEMMA DocumentTakes ==
    ASSUME NEW m, Raw(m), NEW ps \in Seq(PageIRs), NEW preserve \in BOOLEAN,
           \A k \in DOMAIN ps : /\ \A b \in ToSet(ps[k].blocks) : Read(b, ps[k].page)
                                /\ \A j \in DOMAIN ps : k < j => ps[k].page < ps[j].page
    PROVE  \E e : ReadsAll(m, ps, preserve, ToMarkdown(ps, preserve), e)
<1> DEFINE N == Len(ps)
           texts == [i \in DOMAIN ps |-> Separated(PageParts(ps[i], preserve))]
<1>1. N \in Nat /\ DOMAIN ps = 1 .. N /\ \A n \in 1 .. N : ps[n] \in PageIRs /\ ps[n].page \in Pages
  <2>1. N \in Nat /\ DOMAIN ps = 1 .. N /\ \A n \in 1 .. N : ps[n] \in PageIRs BY InSequence
  <2> QED BY <2>1 DEF PageIRs
<1>2. Pages \subseteq Int /\ \A p \in Pages : 0 < p
  BY DEF Pages
<1>3. ASSUME NEW n \in 1 .. N, NEW q, Free(q),
             IF preserve THEN q.page < ps[n].page ELSE q.page = ps[n].page
      PROVE  \E t : ReadsPage(m, ps[n], preserve, q, t)
  BY <1>1, <1>3, PageTakes
<1>4. \A n \in 1 .. N : texts[n] \in Seq(Lines)
  <2> SUFFICES ASSUME NEW n \in 1 .. N PROVE texts[n] \in Seq(Lines) OBVIOUS
  <2> DEFINE p == IF preserve THEN ps[n].page - 1 ELSE ps[n].page
  <2>1. p \in Int /\ IF preserve THEN p < ps[n].page ELSE p = ps[n].page
    <3>1. ps[n].page \in Int BY <1>1, <1>2
    <3> QED BY <3>1
  <2>2. Free(Start(p)) /\ Start(p).page = p BY <2>1, AtStart
  <2>3. \E t : ReadsPage(m, ps[n], preserve, Start(p), t) BY <1>3, <2>1, <2>2
  <2> QED BY <1>1, <2>3 DEF ReadsPage
<1>5. texts \in Seq(Seq(Lines)) /\ Len(texts) = N /\ \A n \in 1 .. N : texts[n] = Separated(PageParts(ps[n], preserve))
  <2> DEFINE T == Seq(Lines)
  <2>1. texts = [n \in 1 .. N |-> texts[n]] BY <1>1
  <2>2. \A n \in 1 .. N : texts[n] = Separated(PageParts(ps[n], preserve)) BY <1>1
  <2> HIDE DEF texts, T, N
  <2>3. texts \in Seq(T) /\ Len(texts) = N BY <1>1, <1>4, <2>1 DEF T
  <2> QED BY <2>2, <2>3 DEF T
<1>6. ToMarkdown(ps, preserve) = Separated(texts)
  BY DEF ToMarkdown
<1> HIDE DEF texts
<1>7. PICK V : Separates(V, texts)
  BY <1>5, Separating
<1>8. /\ V \in [0 .. N -> Seq(Lines)] /\ V[0] = <<>> /\ V[N] = Separated(texts)
      /\ \A n \in 1 .. N : V[n] = Beneath(V[n - 1], texts[n])
  BY <1>5, <1>7 DEF Separates
<1> HIDE DEF N
<1>9. \A n \in 1 .. N : n - 1 \in 0 .. N /\ n \in 0 .. N
  BY <1>1
<1> DEFINE Markers(n) == IF preserve THEN {ps[k].page : k \in 1 .. n} ELSE {}
           Reached(n, s, e) ==
               /\ Takes(m, V[n], Start(s), e) /\ Free(e)
               /\ \A k \in n + 1 .. N : e.page < ps[k].page
               /\ e.marked = Markers(n)
               /\ \A k \in 1 .. n : Holds(m, e, ps[k].blocks)
           Good == {n \in 0 .. N : \E s \in Int : \E e : Reached(n, s, e)}
<1>10. 0 \in Good
  <2> DEFINE e == Start(0)
  <2>1. Free(e) /\ e.page = 0 /\ e.marked = {}
    <3>1. Free(e) /\ e.page = 0 BY AtStart
    <3>2. e.marked = {} BY DEF Start
    <3> QED BY <3>1, <3>2
  <2>2. Takes(m, V[0], e, e) BY <1>8, <2>1, TakesNothing DEF Free
  <2>3. Markers(0) = {} /\ 1 .. 0 = {} /\ \A k \in 0 + 1 .. N : 0 < ps[k].page
    <3>1. 1 .. 0 = {} /\ 0 + 1 = 1 OBVIOUS
    <3>2. \A k \in 1 .. N : 0 < ps[k].page BY <1>1, <1>2
    <3>3. Markers(0) = {} BY <3>1
    <3> QED BY <3>1, <3>2, <3>3
  <2> HIDE DEF e, Markers
  <2>4. Reached(0, 0, e) BY <2>1, <2>2, <2>3 DEF e
  <2> QED BY <1>1, <2>4
<1>11. ASSUME NEW n \in 1 .. N, n - 1 \in Good PROVE n \in Good
  <2>1. PICK s, e : s \in Int /\ Reached(n - 1, s, e) BY <1>11
  <2> HIDE DEF Good
  <2> DEFINE p == ps[n].page  T == texts[n]  L == V[n - 1]  pp == IF preserve THEN p - 1 ELSE p
  <2>2. /\ Takes(m, L, Start(s), e) /\ Free(e) /\ L \in Seq(Lines) /\ n \in Nat /\ n - 1 + 1 = n
        /\ V[n] = Beneath(L, T) /\ T \in Seq(Lines) /\ p \in Int /\ p \in Pages
        /\ \A k \in n .. N : e.page < ps[k].page
        /\ e.marked = Markers(n - 1)
        /\ \A k \in 1 .. n - 1 : Holds(m, e, ps[k].blocks)
    <3>1. n \in Nat /\ n - 1 + 1 = n OBVIOUS
    <3>2. L \in Seq(Lines) /\ V[n] = Beneath(L, T) /\ T \in Seq(Lines) BY <1>4, <1>8, <1>9
    <3>3. p \in Int /\ p \in Pages BY <1>1, <1>2
    <3>4. /\ Takes(m, L, Start(s), e) /\ Free(e)
          /\ \A k \in n .. N : e.page < ps[k].page
          /\ e.marked = Markers(n - 1)
          /\ \A k \in 1 .. n - 1 : Holds(m, e, ps[k].blocks)
      BY <2>1, <3>1
    <3> QED BY <3>1, <3>2, <3>3, <3>4
  <2>3. e \in Readers /\ e.page < p /\ pp \in Int /\ e.page <= pp
    BY <1>1, <2>2, ReaderFields DEF Free
  <2>4. Markers(n) = Markers(n - 1) \cup IF preserve THEN {p} ELSE {}
    <3>1. \A k \in 1 .. n : k \in 1 .. n - 1 \/ k = n OBVIOUS
    <3>2. \A k \in 1 .. n - 1 : k \in 1 .. n OBVIOUS
    <3> QED BY <3>1, <3>2
  <2>5. \A k \in n + 1 .. N : p < ps[k].page BY <1>1
  <2>6. ASSUME NEW q, Free(q), q.page = pp
        PROVE  \E t : ReadsPage(m, ps[n], preserve, q, t)
    <3>1. IF preserve THEN q.page < ps[n].page ELSE q.page = ps[n].page BY <2>2, <2>6
    <3> QED BY <1>3, <2>6, <3>1
  <2> HIDE DEF Markers, Reached, pp
  <2>7. ASSUME NEW q, Free(q), q.marked = e.marked, e.said \subseteq q.said, e.titles \subseteq q.titles,
               e.fences \subseteq q.fences, NEW t, ReadsPage(m, ps[n], preserve, q, t),
               NEW z \in Int, Takes(m, V[n], Start(z), t)
        PROVE  n \in Good
    <3>1. /\ Takes(m, T, q, t) /\ Free(t) /\ t.page = p /\ Holds(m, t, ps[n].blocks)
          /\ t.marked = q.marked \cup IF preserve THEN {p} ELSE {}
      BY <1>5, <2>7 DEF ReadsPage
    <3>2. Grows(q, t) BY <2>2, <3>1, TakesFacts
    <3>3. ASSUME NEW k \in 1 .. n PROVE Holds(m, t, ps[k].blocks)
      <4>1. CASE k = n BY <3>1, <4>1
      <4>2. CASE k # n
        <5>1. Holds(m, e, ps[k].blocks)
          <6>1. k \in 1 .. n - 1 BY <4>2
          <6> QED BY <2>2, <6>1
        <5>2. e.said \subseteq t.said /\ e.titles \subseteq t.titles /\ e.fences \subseteq t.fences
          BY <2>7, <3>2 DEF Grows
        <5> QED BY <5>1, <5>2, HeldOn DEF Holds
      <4> QED BY <4>1, <4>2
    <3>4. t.marked = Markers(n) BY <2>2, <2>4, <2>7, <3>1
    <3>5. Reached(n, z, t) BY <2>5, <2>7, <3>1, <3>3, <3>4 DEF Reached
    <3> QED BY <1>9, <3>5 DEF Good
  <2>8. CASE T = <<>>
    <3> DEFINE q == [e EXCEPT !.page = pp]
    <3>1. q \in Readers /\ q.at = "text" /\ Rested(q) /\ q.page = pp /\ q.marked = e.marked
          /\ q.said = e.said /\ q.titles = e.titles /\ q.fences = e.fences
      BY <2>2, <2>3 DEF Free, Readers, Rested
    <3> HIDE DEF q
    <3>2. PICK t : ReadsPage(m, ps[n], preserve, q, t) BY <2>6, <3>1 DEF Free
    <3>3. t = q BY <1>5, <2>8, <3>2, TakesNone DEF ReadsPage
    <3>4. Holds(m, e, ps[n].blocks) /\ e.marked = e.marked \cup IF preserve THEN {p} ELSE {}
      <4>1. Holds(m, t, ps[n].blocks) /\ t.marked = q.marked \cup IF preserve THEN {p} ELSE {}
        BY <3>2 DEF ReadsPage
      <4>2. t.said \subseteq e.said /\ t.titles \subseteq e.titles /\ t.fences \subseteq e.fences
        BY <3>1, <3>3
      <4> QED BY <3>1, <3>3, <4>1, <4>2, HeldOn DEF Holds
    <3>5. \A k \in 1 .. n : Holds(m, e, ps[k].blocks)
      <4>1. \A k \in 1 .. n : k \in 1 .. n - 1 \/ k = n OBVIOUS
      <4> QED BY <2>2, <3>4, <4>1
    <3>6. V[n] = L BY <2>2, <2>8 DEF Beneath
    <3>7. \A k \in n + 1 .. N : e.page < ps[k].page BY <2>2
    <3>8. e.marked = Markers(n) BY <2>2, <2>4, <3>4
    <3>9. Reached(n, s, e) BY <2>2, <3>5, <3>6, <3>7, <3>8 DEF Reached
    <3> QED BY <1>9, <2>1, <3>9 DEF Good
  <2>9. CASE L = <<>>
    <3> DEFINE q == Start(pp)
    <3>1. e = Start(s) BY <2>2, <2>9, TakesNone
    <3>3. Free(q) /\ q.page = pp BY <2>3, AtStart
    <3>4. q.marked = e.marked /\ q.said = e.said /\ q.titles = e.titles /\ q.fences = e.fences
      BY <3>1 DEF Start
    <3> HIDE DEF q
    <3>5. PICK t : ReadsPage(m, ps[n], preserve, q, t) BY <2>6, <3>3
    <3>6. V[n] = T BY <2>2, <2>9 DEF Beneath
    <3>7. Takes(m, V[n], Start(pp), t) BY <1>5, <3>5, <3>6 DEF ReadsPage, q
    <3> QED BY <2>3, <2>7, <3>3, <3>4, <3>5, <3>7
  <2>10. CASE T # <<>> /\ L # <<>>
    <3>2. PICK q : BlankEnd(m, e, pp, q) BY <2>2, <2>3, TakesBlank
    <3>3. /\ Takes(m, <<Blank>>, e, q) /\ Free(q) /\ q.page = pp /\ q.marked = e.marked
          /\ q.said = e.said /\ q.titles = e.titles /\ q.fences = e.fences
      BY <3>2 DEF BlankEnd
    <3>4. PICK t : ReadsPage(m, ps[n], preserve, q, t) BY <2>6, <3>3
    <3>5. Takes(m, T, q, t) BY <1>5, <3>4 DEF ReadsPage
    <3>6. Takes(m, Beneath(L, T), Start(s), t)
      <4> HIDE DEF L, T
      <4> QED BY <2>2, <2>10, <3>3, <3>5, TakesBeneath
    <3> QED BY <2>1, <2>2, <2>7, <3>3, <3>4, <3>6
  <2> QED BY <2>8, <2>9, <2>10
<1> HIDE DEF Good
<1>12. N \in Good
  BY <1>1, <1>10, <1>11, Counting
<1>13. PICK s, e : s \in Int /\ Reached(N, s, e)
  BY <1>12 DEF Good
<1>14. V[N] \in Seq(Lines)
  BY <1>1, <1>8
<1>15. ReadsAll(m, ps, preserve, V[N], e)
  BY <1>1, <1>13, <1>14 DEF ReadsAll
<1> QED BY <1>6, <1>8, <1>15

-----------------------------------------------------------------------------
(* Headings under one another. *)

LEMMA ReaderRecord ==
    ASSUME NEW q \in Readers
    PROVE  q = [at |-> q.at, page |-> q.page, level |-> q.level, title |-> q.title, body |-> q.body,
                fence |-> q.fence, said |-> q.said, titles |-> q.titles, marked |-> q.marked,
                fences |-> q.fences]
BY DEF Readers

\* Readers are equal when all they know is.
LEMMA SameReader ==
    ASSUME NEW a \in Readers, NEW b \in Readers, a.at = b.at, a.page = b.page, a.level = b.level,
           a.title = b.title, a.body = b.body, a.fence = b.fence, a.said = b.said,
           a.titles = b.titles, a.marked = b.marked, a.fences = b.fences
    PROVE  a = b
BY ReaderRecord

LEMMA OnlySaid ==
    ASSUME NEW a \in Readers, NEW b \in Readers, a.at = b.at, a.page = b.page, a.level = b.level,
           a.title = b.title, a.body = b.body, a.fence = b.fence,
           a.titles = b.titles, a.marked = b.marked, a.fences = b.fences
    PROVE  a = [b EXCEPT !.said = a.said]
BY DEF Readers

LEMMA LeveledReader ==
    ASSUME NEW r \in Readers, NEW k \in Nat
    PROVE  /\ Leveled(r, k) \in Readers /\ Alike(Leveled(r, k), r, k)
           /\ \A m, q, l, p : Alike(Reading(m, q, l, p), r, k) => Reading(m, q, l, p) = Leveled(r, k)
<1>1. Leveled(r, k) \in Readers /\ Alike(Leveled(r, k), r, k)
  BY DEF Leveled, Readers, Alike
<1> DEFINE a == Leveled(r, k)
<1>4. a = [r EXCEPT !.level = k]
  BY DEF Leveled
<1> HIDE DEF a
<1>2. a = [at |-> r.at, page |-> r.page, level |-> k, title |-> r.title, body |-> r.body,
           fence |-> r.fence, said |-> r.said, titles |-> r.titles, marked |-> r.marked, fences |-> r.fences]
  BY <1>4 DEF Readers
<1>3. ASSUME NEW m, NEW q, NEW l, NEW p, Alike(Reading(m, q, l, p), r, k)
      PROVE  Reading(m, q, l, p) = Leveled(r, k)
  <2> DEFINE e == Reading(m, q, l, p)
  <2>1. e = [at |-> e.at, page |-> e.page, level |-> e.level, title |-> e.title, body |-> e.body,
             fence |-> e.fence, said |-> e.said, titles |-> e.titles, marked |-> e.marked,
             fences |-> e.fences]
    BY DEF Reading
  <2> HIDE DEF e
  <2>2. Alike(e, r, k) BY <1>3 DEF e
  <2>3. e = a BY <1>2, <2>1, <2>2 DEF Alike
  <2> QED BY <2>3 DEF e, a
<1> QED BY <1>1, <1>3

LEMMA OrderedManner ==
    ASSUME NEW m \in Manners
    PROVE  /\ InOrdered(m) \in Manners /\ InOrdered(m).ordered /\ InOrdered(m).formulas = m.formulas
           /\ InOrdered(m).detect = m.detect /\ InOrdered(m).repaired = m.repaired
BY DEF InOrdered, Manners

LEMMA OrdinaryLine ==
    ASSUME NEW m \in Manners, NEW q \in Readers, NEW l \in Lines, NEW r \in Readers, Moves(m, q, l, r),
           l.kind # "heading", NEW k \in Nat
    PROVE  Moves(InOrdered(m), Leveled(q, k), l, Leveled(r, k))
<1> DEFINE m2 == InOrdered(m)  q2 == Leveled(q, k)  r2 == Leveled(r, k)  p == r.page
<1>1. /\ m2.formulas = m.formulas /\ m2.detect = m.detect /\ m2.repaired = m.repaired
  BY OrderedManner
<1>2. Alike(q2, q, k) /\ Alike(r2, r, k)
  BY LeveledReader
<1>3. Fits(m, q, l) /\ TurnsTo(q, l, p) /\ r = Reading(m, q, l, p) /\ r2.page = p
  BY <1>2 DEF Moves, Alike
<1> HIDE DEF m2, q2, p
<1>5. Fits(m2, q2, l) /\ TurnsTo(q2, l, p)
  BY <1>1, <1>2, <1>3 DEF Fits, TurnsTo, Alike
<1>6. Title(m2, l) = Title(m, l) /\ GoesTo(q2, l) = GoesTo(q, l)
  BY <1>1, <1>2 DEF Title, GoesTo, Alike
<1>7. r2 = Reading(m2, q2, l, p)
  <2> DEFINE e == Reading(m2, q2, l, p)
  <2>1. e.at = r.at /\ e.page = r.page /\ e.level = k /\ e.title = r.title /\ e.body = r.body
        /\ e.fence = r.fence
    BY <1>1, <1>2, <1>3, <1>6 DEF Reading, Alike
  <2>2. e.said = r.said /\ e.titles = r.titles /\ e.marked = r.marked /\ e.fences = r.fences
    BY <1>1, <1>2, <1>3, <1>6 DEF Reading, Alike
  <2> QED BY <2>1, <2>2, LeveledReader DEF Alike
<1> HIDE DEF r2
<1> QED BY <1>3, <1>5, <1>7 DEF Moves, m2, q2, r2

LEMMA KeptHeading ==
    ASSUME NEW m \in Manners, m.detect, NEW q \in Readers, NEW l \in Lines, NEW r \in Readers, Moves(m, q, l, r),
           l.kind = "heading", Words(l.words) # q.title, NEW k \in Nat, NEW lev \in Nat, lev > 0,
           k > 0 => lev <= k + 1
    PROVE  Moves(InOrdered(m), Leveled(q, k), Written("heading", lev, l.words), Leveled(r, lev))
<1> DEFINE m2 == InOrdered(m)  q2 == Leveled(q, k)  r2 == Leveled(r, lev)  p == r.page
           l2 == Written("heading", lev, l.words)
<1>1. /\ m2.formulas = m.formulas /\ m2.detect = m.detect /\ m2.repaired = m.repaired
  BY OrderedManner
<1>2. Alike(q2, q, k) /\ Alike(r2, r, lev)
  BY LeveledReader
<1>3. Fits(m, q, l) /\ TurnsTo(q, l, p) /\ r = Reading(m, q, l, p) /\ r2.page = p
  BY <1>2 DEF Moves, Alike
<1>8. l2.kind = "heading" /\ l2.level = lev /\ l2.words = l.words
  BY DEF Written
<1> HIDE DEF m2, q2, p, l2
<1>5. Fits(m2, q2, l2) /\ TurnsTo(q2, l2, p)
  BY <1>1, <1>2, <1>3, <1>8 DEF Fits, TurnsTo, Alike
<1>6. Title(m2, l2) = Title(m, l) /\ GoesTo(q2, l2) = GoesTo(q, l)
  BY <1>1, <1>2, <1>8 DEF Title, GoesTo, Alike
<1>7. r2 = Reading(m2, q2, l2, p)
  <2> DEFINE e == Reading(m2, q2, l2, p)
  <2>1. e.at = r.at /\ e.page = r.page /\ e.level = lev
    BY <1>1, <1>2, <1>3, <1>6, <1>8 DEF Reading, Alike
  <2>2. e.title = r.title BY <1>1, <1>2, <1>3, <1>6, <1>8 DEF Reading, Alike
  <2>3. e.body = r.body BY <1>1, <1>2, <1>3, <1>6, <1>8 DEF Reading, Alike
  <2>4. e.fence = r.fence BY <1>1, <1>2, <1>3, <1>8 DEF Reading, FenceLine, Alike
  <2>5. e.said = r.said /\ e.titles = r.titles /\ e.marked = r.marked /\ e.fences = r.fences
    BY <1>1, <1>2, <1>3, <1>6, <1>8 DEF Reading, Alike
  <2> QED BY <2>1, <2>2, <2>3, <2>4, <2>5, LeveledReader DEF Alike
<1> HIDE DEF r2
<1> QED BY <1>3, <1>5, <1>7 DEF Moves, m2, q2, r2, l2

LEMMA RepeatedHeading ==
    ASSUME NEW m \in Manners, m.detect, NEW q \in Readers, NEW l \in Lines, NEW r \in Readers, Moves(m, q, l, r),
           l.kind = "heading", Words(l.words) = q.title, TitleKnown(m, q), Rested(q), NEW k \in Nat
    PROVE  Leveled(r, k) = Leveled(q, k)
<1>1. Fits(m, q, l) /\ TurnsTo(q, l, r.page) /\ r = Reading(m, q, l, r.page)
  BY DEF Moves
<1>2. q.at \in {"text", "fence"} /\ r.page = q.page
  BY <1>1, ReaderFields DEF Fits, TurnsTo
<1>3. /\ r.at = q.at /\ r.page = q.page /\ r.title = q.title /\ r.body = q.body /\ r.fence = q.fence
      /\ r.said = q.said /\ r.titles = q.titles /\ r.marked = q.marked /\ r.fences = q.fences
  <2> DEFINE p == r.page
  <2> HIDE DEF p
  <2>1. r = Reading(m, q, l, p) /\ p = q.page BY <1>1, <1>2 DEF p
  <2>2. q.titles \cup {Title(m, l)} = q.titles BY DEF TitleKnown, Title
  <2> QED BY <1>2, <2>1, <2>2 DEF Reading, GoesTo, Rested, FenceLine
<1>4. Leveled(r, k) \in Readers /\ Leveled(q, k) \in Readers
  BY LeveledReader
<1>5. /\ Leveled(r, k).at = Leveled(q, k).at /\ Leveled(r, k).page = Leveled(q, k).page
      /\ Leveled(r, k).title = Leveled(q, k).title /\ Leveled(r, k).body = Leveled(q, k).body
      /\ Leveled(r, k).fence = Leveled(q, k).fence /\ Leveled(r, k).said = Leveled(q, k).said
      /\ Leveled(r, k).titles = Leveled(q, k).titles /\ Leveled(r, k).marked = Leveled(q, k).marked
      /\ Leveled(r, k).fences = Leveled(q, k).fences /\ Leveled(r, k).level = Leveled(q, k).level
  BY <1>3, LeveledReader DEF Alike
<1> DEFINE a == Leveled(r, k)  b == Leveled(q, k)
<1> HIDE DEF a, b
<1>6. a = b
  BY <1>4, <1>5, SameReader DEF a, b
<1> QED BY <1>6 DEF a, b

LEMMA LevelFits ==
    ASSUME NEW done \in Dones, NEW l \in Lines
    PROVE  /\ LevelUnder(done, l) \in 0 .. PageCount + 6
           /\ done.level > 0 => LevelUnder(done, l) <= done.level + 1
           /\ l.level > 0 => LevelUnder(done, l) > 0
<1>1. PageCount \in Nat /\ done.level \in 0 .. PageCount + 6 /\ l.level \in 0 .. PageCount + 6
  BY DocumentAssumption, LineFields DEF Dones
<1>2. NumberedLevel(l.words) \in {0, 1}
  BY DEF NumberedLevel
<1> DEFINE n == NumberedLevel(l.words)
<1> HIDE DEF n
<1>3. LevelUnder(done, l) = IF n > 0 THEN n
                            ELSE IF done.level > 0 THEN Smaller(l.level, done.level + 1) ELSE l.level
  BY DEF LevelUnder, n
<1>4. n \in {0, 1}
  BY <1>2 DEF n
<1> QED BY <1>1, <1>3, <1>4 DEF Smaller

LEMMA HeadingType ==
    ASSUME NEW done \in Dones, NEW l \in Lines
    PROVE  Heading(done, l) \in Dones
<1>1. /\ done.out \in Seq(Lines) /\ done.level \in 0 .. PageCount + 6 /\ done.text \in Seq(STRING)
      /\ l.words \in Seq(Tokens) /\ Words(l.words) \in Seq(STRING)
  BY LineFields DEF Dones
<1>2. LevelUnder(done, l) \in 0 .. PageCount + 6
  BY LevelFits
<1>3. Written("heading", LevelUnder(done, l), l.words) \in Lines
  BY <1>1, <1>2 DEF Written, Lines, LineKinds
<1>4. CASE l.kind # "heading"
  <2>1. Append(done.out, l) \in Seq(Lines) BY <1>1, Added
  <2> QED BY <1>1, <1>4, <2>1 DEF Heading, Dones
<1>5. CASE l.kind = "heading" /\ Words(l.words) = done.text
  BY <1>5 DEF Heading
<1>6. CASE l.kind = "heading" /\ Words(l.words) # done.text
  <2>1. Append(done.out, Written("heading", LevelUnder(done, l), l.words)) \in Seq(Lines)
    BY <1>1, <1>3
  <2> QED BY <1>1, <1>2, <1>6, <2>1 DEF Heading, Dones
<1> QED BY <1>4, <1>5, <1>6

LEMMA Outlining ==
    ASSUME NEW ls \in Seq(Lines)
    PROVE  \E h : Outlines(h, ls)
<1> DEFINE N == Len(ls)
           base == [out |-> <<>>, level |-> 0, text |-> <<>>]
           G == [n \in 1 .. N |-> [x \in Dones |-> Heading(x, ls[n])]]
           Eq(f) == f = [n \in 0 .. N |-> IF n = 0 THEN base ELSE Heading(f[n - 1], ls[n])]
           F == CHOOSE f : Eq(f)
<1>1. N \in Nat /\ DOMAIN ls = 1 .. N /\ \A n \in 1 .. N : ls[n] \in Lines
  BY InSequence
<1>2. G \in [1 .. N -> [Dones -> Dones]] /\ base \in Dones
  <2>1. base \in Dones
    <3>1. PageCount \in Nat BY DocumentAssumption
    <3>2. 0 \in 0 .. PageCount + 6 BY <3>1
    <3> QED BY <3>2 DEF Dones
  <2>2. \A n \in 1 .. N : \A x \in Dones : Heading(x, ls[n]) \in Dones BY <1>1, HeadingType
  <2> QED BY <2>1, <2>2
<1>3. \A n \in 1 .. N : \A x \in Dones : G[n][x] = Heading(x, ls[n]) OBVIOUS
<1> HIDE DEF G, N, base
<1>4. PICK f : Solves(f, N, Dones, base, G)
  BY <1>1, <1>2, Recursion
<1>5. f \in [0 .. N -> Dones] /\ f[0] = base
  BY <1>4 DEF Solves
<1>6. \A n \in 1 .. N : n - 1 \in 0 .. N /\ f[n] = Heading(f[n - 1], ls[n])
  <2>1. \A n \in 1 .. N : n - 1 \in 0 .. N /\ n \in 0 .. N BY <1>1
  <2> QED BY <1>3, <1>4, <1>5, <2>1 DEF Solves
<1>7. Eq(f)
  <2>1. \A n \in 0 .. N : f[n] = IF n = 0 THEN base ELSE Heading(f[n - 1], ls[n])
    <3>1. \A n \in 0 .. N : n = 0 \/ n \in 1 .. N BY <1>1
    <3> QED BY <1>5, <1>6, <3>1
  <2> QED BY <1>5, <2>1
<1>8. Eq(F)
  <2> HIDE DEF Eq
  <2> QED BY <1>7, Zenon
<1>9. NormalizeHeadingHierarchy(ls) = F[N].out
  BY Zenon DEF NormalizeHeadingHierarchy, N, base
<1>10. \A n \in 0 .. N : F[n] = IF n = 0 THEN base ELSE Heading(F[n - 1], ls[n])
  <2> HIDE DEF F
  <2> QED BY <1>8, Zenon
<1> HIDE DEF F
<1>11. F[0] = base /\ \A n \in 1 .. N : F[n] = Heading(F[n - 1], ls[n])
  <2>1. \A n \in 1 .. N : n \in 0 .. N /\ n # 0 BY <1>1
  <2> QED BY <1>1, <1>10, <2>1
<1> DEFINE Good == {n \in 0 .. N : F[n] = f[n]}
<1>12. 0 \in Good
  BY <1>1, <1>5, <1>11
<1>13. ASSUME NEW n \in 1 .. N, n - 1 \in Good PROVE n \in Good
  <2>1. F[n] = f[n] BY <1>6, <1>11, <1>13
  <2> QED BY <1>1, <2>1
<1>14. F[N] = f[N]
  <2> HIDE DEF Good
  <2>1. N \in Good BY <1>1, <1>12, <1>13, Counting
  <2> QED BY <2>1 DEF Good
<1>15. Outlines(f, ls)
  BY <1>5, <1>6, <1>9, <1>14 DEF Outlines, N, base
<1> QED BY <1>15

LEMMA HierarchyTakes ==
    ASSUME NEW m \in Manners, m.detect, NEW ls \in Seq(Lines), NEW s \in Int, NEW e,
           Takes(m, ls, Start(s), e)
    PROVE  \E k \in Nat : HierarchyEnd(m, ls, s, e, k)
<1> DEFINE N == Len(ls)  m2 == InOrdered(m)  q == Start(s)
<1>1. PICK w : Walk(m, ls, w) /\ w[0] = q /\ w[N] = e
  BY DEF Takes
<1>2. PICK h : Outlines(h, ls)
  BY Outlining
<1>3. q \in Readers /\ Rested(q) /\ q.title = <<>> /\ q.titles = {<<>>} /\ q.level = 0
  BY AtStart DEF Free, Start
<1>4. TitleKnown(m, q)
  BY <1>3 DEF TitleKnown
<1>5. /\ N \in Nat /\ \A n \in 1 .. N : ls[n] \in Lines
      /\ \A n \in 0 .. N : w[n] \in Readers /\ Rested(w[n]) /\ TitleKnown(m, w[n])
      /\ \A n \in 1 .. N : n - 1 \in 0 .. N /\ n \in 0 .. N /\ Moves(m, w[n - 1], ls[n], w[n])
  BY <1>1, <1>3, <1>4, WalkFacts, ZenonT(60)
<1>6. /\ h \in [0 .. N -> Dones] /\ h[0] = [out |-> <<>>, level |-> 0, text |-> <<>>]
      /\ \A n \in 1 .. N : h[n] = Heading(h[n - 1], ls[n])
      /\ h[N].out = NormalizeHeadingHierarchy(ls)
  BY <1>2 DEF Outlines
<1>7. \A d \in Dones : d.out \in Seq(Lines) /\ d.level \in Nat /\ d.text \in Seq(STRING)
  <2>1. PageCount \in Nat BY DocumentAssumption
  <2> QED BY <2>1 DEF Dones
<1> HIDE DEF N, m2, q
<1> DEFINE Reached(n) == /\ h[n].text = w[n].title
                         /\ Takes(m2, h[n].out, q, Leveled(w[n], h[n].level))
           Good == {n \in 0 .. N : Reached(n)}
<1>8. 0 \in Good
  <2>1. h[0].text = <<>> /\ h[0].out = <<>> /\ h[0].level = 0 BY <1>6
  <2>2. Leveled(q, 0) = q BY <1>3, ReaderRecord DEF Leveled
  <2>3. Takes(m2, <<>>, q, q) BY <1>3, TakesNothing
  <2> QED BY <1>1, <1>3, <1>5, <2>1, <2>2, <2>3
<1>9. ASSUME NEW n \in 1 .. N, n - 1 \in Good PROVE n \in Good
  <2> DEFINE d == h[n - 1]  l == ls[n]  r == w[n - 1]  t == w[n]  k == d.level
  <2>1. /\ d \in Dones /\ l \in Lines /\ r \in Readers /\ t \in Readers /\ Moves(m, r, l, t)
        /\ Rested(r) /\ TitleKnown(m, r) /\ h[n] = Heading(d, l) /\ k \in Nat /\ d.out \in Seq(Lines)
        /\ d.text \in Seq(STRING)
    BY <1>5, <1>6, <1>7
  <2>2. d.text = r.title /\ Takes(m2, d.out, q, Leveled(r, k)) /\ k = d.level BY <1>9
  <2>3. Reached(n) <=> h[n].text = t.title /\ Takes(m2, h[n].out, q, Leveled(t, h[n].level)) OBVIOUS
  <2> HIDE DEF d, l, r, t, Reached, k
  <2>4. t.title = IF l.kind = "heading" THEN Words(l.words) ELSE r.title
    <3> DEFINE p == t.page
    <3> HIDE DEF p
    <3>1. t = Reading(m, r, l, p) BY <2>1 DEF Moves, p
    <3> QED BY <3>1 DEF Reading
  <2>5. CASE l.kind # "heading"
    <3>1. Moves(m2, Leveled(r, k), l, Leveled(t, k)) BY <2>1, <2>5, OrdinaryLine DEF m2
    <3>2. Leveled(r, k) \in Readers /\ Leveled(t, k) \in Readers BY <2>1, LeveledReader
    <3>3. Takes(m2, <<l>>, Leveled(r, k), Leveled(t, k)) /\ <<l>> \in Seq(Lines)
      BY <2>1, <3>1, <3>2, TakesLine
    <3> DEFINE out == d.out
    <3>6. out \in Seq(Lines) /\ out = d.out BY <2>1
    <3> HIDE DEF out
    <3>4. Takes(m2, out \o <<l>>, q, Leveled(t, k)) BY <2>2, <3>3, <3>6, TakesBoth
    <3>5. h[n] = [d EXCEPT !.out = Append(@, l)] BY <2>1, <2>5 DEF Heading
    <3>7. h[n].out = out \o <<l>> /\ h[n].level = k /\ h[n].text = d.text
      <4>1. h[n].out = Append(out, l) /\ h[n].level = k /\ h[n].text = d.text
        BY <2>1, <2>2, <3>5, <3>6 DEF Dones
      <4> QED BY <2>1, <3>6, <4>1, AppendIsConcat
    <3> QED BY <1>5, <2>2, <2>3, <2>4, <2>5, <3>4, <3>7
  <2>6. CASE l.kind = "heading" /\ Words(l.words) = d.text
    <3>1. h[n] = d BY <2>1, <2>6 DEF Heading
    <3>2. Leveled(t, k) = Leveled(r, k) BY <2>1, <2>2, <2>6, RepeatedHeading
    <3> QED BY <1>5, <2>2, <2>3, <2>4, <2>6, <3>1, <3>2
  <2>7. CASE l.kind = "heading" /\ Words(l.words) # d.text
    <3> DEFINE lev == LevelUnder(d, l)  l2 == Written("heading", lev, l.words)
    <3>1. /\ lev \in 0 .. PageCount + 6 /\ (k > 0 => lev <= k + 1) /\ (l.level > 0 => lev > 0)
      BY <2>1, <2>2, LevelFits
    <3>2. l.level > 0 BY <2>1, <2>7 DEF Moves, Fits
    <3>3. lev \in Nat /\ lev > 0
      <4>1. PageCount \in Nat BY DocumentAssumption
      <4> QED BY <3>1, <3>2, <4>1
    <3>4. l2 \in Lines
      <4>1. l.words \in Seq(Tokens) BY <2>1, LineFields
      <4> QED BY <3>1, <4>1 DEF Written, Lines, LineKinds
    <3>5. h[n] = [out |-> Append(d.out, l2), level |-> lev, text |-> Words(l.words)]
      BY <2>1, <2>7 DEF Heading
    <3>11. l2 = Written("heading", lev, l.words) OBVIOUS
    <3> HIDE DEF lev, l2
    <3>6. Moves(m2, Leveled(r, k), l2, Leveled(t, lev))
      BY <2>1, <2>2, <2>7, <3>1, <3>3, <3>11, KeptHeading DEF m2
    <3>7. Leveled(r, k) \in Readers /\ Leveled(t, lev) \in Readers BY <2>1, <3>3, LeveledReader
    <3>8. Takes(m2, <<l2>>, Leveled(r, k), Leveled(t, lev)) /\ <<l2>> \in Seq(Lines)
      BY <3>4, <3>6, <3>7, TakesLine
    <3> DEFINE out == d.out
    <3>9. out \in Seq(Lines) /\ out = d.out BY <2>1
    <3> HIDE DEF out
    <3>10. Takes(m2, out \o <<l2>>, q, Leveled(t, lev)) BY <2>2, <3>8, <3>9, TakesBoth
    <3>12. h[n].out = out \o <<l2>> /\ h[n].level = lev /\ h[n].text = Words(l.words)
      <4>1. h[n].out = Append(out, l2) /\ h[n].level = lev /\ h[n].text = Words(l.words)
        BY <3>5, <3>9
      <4> QED BY <3>4, <3>9, <4>1, AppendIsConcat
    <3> QED BY <1>5, <2>3, <2>4, <2>7, <3>10, <3>12
  <2> QED BY <2>5, <2>6, <2>7
<1>10. N \in 0 .. N /\ \A n \in 0 .. N : n \in Good
  <2> HIDE DEF Good
  <2>1. \A n \in 0 .. N : n \in Good BY <1>5, <1>8, <1>9, Counting
  <2> QED BY <1>5, <2>1
<1>11. Takes(m2, NormalizeHeadingHierarchy(ls), q, Leveled(e, h[N].level))
  BY <1>1, <1>6, <1>10
<1>12. h[N].level \in Nat /\ NormalizeHeadingHierarchy(ls) \in Seq(Lines)
  BY <1>6, <1>7, <1>10
<1> QED BY <1>11, <1>12 DEF HierarchyEnd, m2, q

-----------------------------------------------------------------------------
(* Paragraphs. *)

LEMMA NoMarkers ==
    ASSUME NEW m, NEW ls \in Seq(Lines), NEW q, NEW e, Takes(m, ls, q, e), e.marked = {}
    PROVE  \A i \in 1 .. Len(ls) : ls[i].kind # "marker"
<1>1. PICK w : Walk(m, ls, w) /\ w[0] = q /\ w[Len(ls)] = e
  BY DEF Takes
<1> SUFFICES ASSUME NEW i \in 1 .. Len(ls), ls[i].kind = "marker" PROVE FALSE OBVIOUS
<1>2. /\ Len(ls) \in Nat /\ i \in 0 .. Len(ls) /\ Moves(m, w[i - 1], ls[i], w[i])
      /\ \A a, b \in 0 .. Len(ls) : a <= b => Grows(w[a], w[b])
  BY <1>1, WalkFacts
<1>3. Grows(w[i], w[Len(ls)])
  <2>1. Len(ls) \in 0 .. Len(ls) /\ i <= Len(ls) BY <1>2
  <2> QED BY <1>2, <2>1
<1>4. w[i].marked = w[i - 1].marked \cup {ls[i].level}
  <2> DEFINE p == w[i].page
  <2> HIDE DEF p
  <2>1. w[i] = Reading(m, w[i - 1], ls[i], p) BY <1>2 DEF Moves, p
  <2> QED BY <2>1 DEF Reading
<1> QED BY <1>1, <1>3, <1>4 DEF Grows

\* Without a marker between them, no paragraphs are joined.
LEMMA JoinsNothing ==
    ASSUME NEW ls \in Seq(Lines), \A i \in 1 .. Len(ls) : ls[i].kind # "marker"
    PROVE  JoinedAcrossMarkers(ls) = ls
<1> DEFINE N == Len(ls)
           joined(i) == Written("text", 0, ls[i].words \o ls[i + 4].words)
           Eq(f) == f = [i \in 1 .. N + 1 |->
                          IF i > N THEN <<>>
                          ELSE IF Splits(ls, i) THEN <<joined(i)>> \o f[i + 5]
                          ELSE <<ls[i]>> \o f[i + 1]]
           F == CHOOSE f : Eq(f)
           rest == [i \in 1 .. N + 1 |-> SubSeq(ls, i, N)]
<1>1. N \in Nat /\ \A i \in 1 .. N : ls[i] \in Lines
  BY InSequence
<1>2. \A i \in 1 .. N : ~Splits(ls, i)
  <2> SUFFICES ASSUME NEW i \in 1 .. N, i + 4 <= N PROVE ls[i + 2].kind # "marker" BY DEF Splits
  <2>1. i + 2 \in 1 .. N BY <1>1
  <2> QED BY <2>1
<1>3. \A i \in 1 .. N : SubSeq(ls, i, N) = <<ls[i]>> \o SubSeq(ls, i + 1, N)
  <2> SUFFICES ASSUME NEW i \in 1 .. N PROVE SubSeq(ls, i, N) = <<ls[i]>> \o SubSeq(ls, i + 1, N)
    OBVIOUS
  <2>1. i \in 1 .. Len(ls) /\ N \in 1 .. Len(ls) /\ i <= N BY <1>1
  <2> QED BY <2>1, SubSeqRecursiveFirst
<1>4. SubSeq(ls, N + 1, N) = <<>> /\ SubSeq(ls, 1, N) = ls
  BY <1>1, SubSeqEmpty, SubSeqFull
<1> HIDE DEF N, joined
<1>5. Eq(rest)
  <2>1. \A i \in 1 .. N + 1 : rest[i] = IF i > N THEN <<>>
                                        ELSE IF Splits(ls, i) THEN <<joined(i)>> \o rest[i + 5]
                                        ELSE <<ls[i]>> \o rest[i + 1]
    <3> SUFFICES ASSUME NEW i \in 1 .. N + 1
                 PROVE rest[i] = IF i > N THEN <<>>
                                 ELSE IF Splits(ls, i) THEN <<joined(i)>> \o rest[i + 5]
                                 ELSE <<ls[i]>> \o rest[i + 1]
      OBVIOUS
    <3>1. CASE i > N
      <4>1. i = N + 1 BY <1>1, <3>1
      <4>2. rest[i] = <<>> BY <1>4, <4>1
      <4> HIDE DEF rest
      <4> QED BY <3>1, <4>2
    <3>2. CASE ~(i > N)
      <4>1. i \in 1 .. N /\ i + 1 \in 1 .. N + 1 BY <1>1, <3>2
      <4>2. rest[i] = SubSeq(ls, i, N) /\ rest[i + 1] = SubSeq(ls, i + 1, N) BY <4>1
      <4> HIDE DEF rest
      <4> QED BY <1>2, <1>3, <3>2, <4>1, <4>2
    <3> QED BY <3>1, <3>2
  <2> QED BY <2>1
<1>6. Eq(F)
  <2> HIDE DEF Eq
  <2> QED BY <1>5, Zenon
<1>7. JoinedAcrossMarkers(ls) = F[1]
  BY Zenon DEF JoinedAcrossMarkers, N, joined
<1>8. \A i \in 1 .. N + 1 : F[i] = IF i > N THEN <<>>
                                   ELSE IF Splits(ls, i) THEN <<joined(i)>> \o F[i + 5]
                                   ELSE <<ls[i]>> \o F[i + 1]
  <2> HIDE DEF F
  <2> QED BY <1>6, Zenon
<1> HIDE DEF F, rest
<1> DEFINE Good == {i \in 1 .. N + 1 : F[i] = SubSeq(ls, i, N)}
<1>9. N + 1 \in Good
  <2>1. N + 1 \in 1 .. N + 1 /\ N + 1 > N BY <1>1
  <2> QED BY <1>4, <1>8, <2>1
<1>10. ASSUME NEW i \in 1 .. N, \A j \in i + 1 .. N + 1 : j \in Good PROVE i \in Good
  <2>1. i \in 1 .. N + 1 /\ ~(i > N) /\ i + 1 \in i + 1 .. N + 1 BY <1>1
  <2>2. F[i + 1] = SubSeq(ls, i + 1, N) BY <1>10, <2>1
  <2> QED BY <1>2, <1>3, <1>8, <2>1, <2>2
<1>11. \A i \in 1 .. N + 1 : i \in Good
  <2> HIDE DEF Good
  <2> QED BY <1>1, <1>9, <1>10, CountingDown
<1>12. 1 \in 1 .. N + 1
  BY <1>1
<1> QED BY <1>4, <1>7, <1>11, <1>12

-----------------------------------------------------------------------------
(* Hyphens. *)

\* A reader is between two marks of a kind after an odd number of them.
LEMMA MarkParity ==
    ASSUME NEW m, NEW ls \in Seq(Lines), NEW w, Walk(m, ls, w), w[0].at = "text",
           NEW mark \in {"fence", "math"}
    PROVE  \A n \in 0 .. Len(ls) : /\ IsFiniteSet({j \in 1 .. n : ls[j].kind = mark})
                                   /\ Cardinality({j \in 1 .. n : ls[j].kind = mark}) % 2 = 1 <=> w[n].at = mark
<1> DEFINE N == Len(ls)
           Marks(n) == {j \in 1 .. n : ls[j].kind = mark}
           Good == {n \in 0 .. N : /\ IsFiniteSet(Marks(n))
                                   /\ Cardinality(Marks(n)) % 2 = 1 <=> w[n].at = mark}
<1>1. /\ N \in Nat /\ \A n \in 1 .. N : ls[n] \in Lines
      /\ \A n \in 0 .. N : w[n] \in Readers
      /\ \A n \in 1 .. N : n - 1 \in 0 .. N /\ n \in 0 .. N /\ Moves(m, w[n - 1], ls[n], w[n])
  BY WalkFacts
<1> HIDE DEF N
<1>2. 0 \in Good
  <2>1. Marks(0) = {} OBVIOUS
  <2>2. IsFiniteSet({}) /\ Cardinality({}) = 0 /\ 0 % 2 = 0 /\ 0 \in 0 .. N BY <1>1, FS_EmptySet
  <2> HIDE DEF Marks
  <2>3. Cardinality(Marks(0)) % 2 = 0 /\ IsFiniteSet(Marks(0)) BY <2>1, <2>2
  <2>4. Cardinality(Marks(0)) % 2 = 1 <=> w[0].at = mark BY <2>3
  <2> QED BY <2>2, <2>3, <2>4
<1>3. ASSUME NEW n \in 1 .. N, n - 1 \in Good PROVE n \in Good
  <2> DEFINE a == Marks(n - 1)  c == Cardinality(a)  q == w[n - 1]  l == ls[n]  r == w[n]
  <2>1. IsFiniteSet(a) /\ (c % 2 = 1 <=> q.at = mark) BY <1>3
  <2>2. c \in Nat /\ n \notin a BY <2>1, FS_CardinalityType
  <2>3. Marks(n) = IF l.kind = mark THEN a \cup {n} ELSE a
    <3>1. \A j \in 1 .. n : j = n \/ j \in 1 .. n - 1 OBVIOUS
    <3> QED BY <3>1
  <2>4. IsFiniteSet(a \cup {n}) /\ Cardinality(a \cup {n}) = c + 1 BY <2>1, <2>2, FS_AddElement
  <2>5. Fits(m, q, l) /\ r.at = GoesTo(q, l) /\ q.at \in {"text", "fence", "math"}
    <3> DEFINE p == r.page
    <3> HIDE DEF p
    <3>1. r = Reading(m, q, l, p) /\ Fits(m, q, l) BY <1>1 DEF Moves, p
    <3> QED BY <1>1, <3>1, ReaderFields DEF Reading
  <2>6. (c + 1) % 2 = 1 <=> ~(c % 2 = 1)
    <3> HIDE DEF c
    <3> QED BY <2>2
  <2>8. r = w[n] /\ n \in 0 .. N BY <1>1
  <2> HIDE DEF a, c, q, l, r, Marks
  <2>7. r.at = mark <=> IF l.kind = mark THEN ~(q.at = mark) ELSE q.at = mark
    BY <2>5 DEF GoesTo, Fits
  <2>9. CASE l.kind = mark BY <2>1, <2>3, <2>4, <2>6, <2>7, <2>8, <2>9
  <2>10. CASE l.kind # mark BY <2>1, <2>3, <2>7, <2>8, <2>10 DEF c
  <2> QED BY <2>9, <2>10
<1>4. \A n \in 0 .. N : n \in Good
  <2> HIDE DEF Good
  <2> QED BY <1>1, <1>2, <1>3, Counting
<1> QED BY <1>4 DEF N

\* What is between fences for the program is so for the reader.
LEMMA FenceParity ==
    ASSUME NEW m, NEW ls \in Seq(Lines), NEW w, Walk(m, ls, w), w[0].at = "text"
    PROVE  \A i \in 1 .. Len(ls) + 1 : InFence(ls, i) <=> w[i - 1].at = "fence"
<1> SUFFICES ASSUME NEW i \in 1 .. Len(ls) + 1 PROVE InFence(ls, i) <=> w[i - 1].at = "fence"
  OBVIOUS
<1>1. i - 1 \in 0 .. Len(ls)
  BY InSequence
<1>2. \A n \in 0 .. Len(ls) : Cardinality({j \in 1 .. n : ls[j].kind = "fence"}) % 2 = 1 <=> w[n].at = "fence"
  BY MarkParity
<1> QED BY <1>1, <1>2 DEF InFence

\* Two lines of a paragraph can be read as one.
LEMMA MergedLine ==
    ASSUME NEW m, NEW q \in Readers, NEW r \in Readers, NEW t \in Readers, NEW k \in Lines, NEW l \in Lines,
           Moves(m, q, k, r), Moves(m, r, l, t), k.kind = "text", l.kind = "text", q.at # "fence"
    PROVE  /\ Written("text", 0, k.words \o l.words) \in Lines
           /\ Moves(m, q, Written("text", 0, k.words \o l.words), t)
<1> DEFINE x == k.words  y == l.words  z == Written("text", 0, x \o y)  p == q.page
<1>1. x \in Seq(Tokens) /\ y \in Seq(Tokens) /\ x = k.words /\ y = l.words /\ p = q.page
  BY LineFields
<1>2. z.kind = "text" /\ z.words = x \o y
  BY DEF Written
<1>3. z \in Lines
  <2>1. x \o y \in Seq(Tokens) /\ 0 \in 0 .. 6 /\ "text" \in LineKinds
    BY <1>1, Concatenated DEF LineKinds
  <2> HIDE DEF x, y
  <2> QED BY <2>1, MarkLines
<1>4. ToSet(x \o y) = ToSet(x) \cup ToSet(y)
  BY <1>1, Concatenated
<1>5. q.at \in {"text", "math"} /\ q.body \in Seq(Tokens)
  BY ReaderFields
<1>6. (q.body \o x) \o y = q.body \o (x \o y)
  <2> DEFINE a == q.body
  <2>1. a \in Seq(Tokens) /\ x \in Seq(Tokens) /\ y \in Seq(Tokens) BY <1>1, <1>5
  <2> HIDE DEF a, x, y
  <2>2. (a \o x) \o y = a \o (x \o y) BY <2>1, ConcatAssociative
  <2> QED BY <2>2 DEF a
<1>7. Fits(m, q, k) /\ Fits(m, r, l) /\ r.page = p /\ t.page = p
  BY MoveFacts DEF Moves
<1>8. r = Reading(m, q, k, p) /\ t = Reading(m, r, l, p)
  BY <1>7 DEF Moves
<1> HIDE DEF x, y, z, p
<1>9. /\ r.at = q.at /\ r.level = q.level /\ r.title = q.title /\ r.titles = q.titles
      /\ r.marked = q.marked /\ r.fences = q.fences
      /\ r.body = (IF q.at = "math" THEN q.body \o x ELSE <<>>) /\ r.fence = <<>>
      /\ r.said = IF q.at = "math" /\ ~m.formulas THEN q.said ELSE q.said \cup ToSet(x)
  BY <1>1, <1>5, <1>8 DEF Reading, GoesTo
<1>10. /\ t.at = r.at /\ t.level = r.level /\ t.title = r.title /\ t.titles = r.titles
       /\ t.marked = r.marked /\ t.fences = r.fences
       /\ t.body = (IF r.at = "math" THEN r.body \o y ELSE <<>>) /\ t.fence = <<>>
       /\ t.said = IF r.at = "math" /\ ~m.formulas THEN r.said ELSE r.said \cup ToSet(y)
  BY <1>1, <1>5, <1>8, <1>9, SMTT(30) DEF Reading, GoesTo
<1>11. Fits(m, q, z)
  <2>1. \A u \in ToSet(z.words) : u.page = q.page BY <1>1, <1>2, <1>4, <1>7 DEF Fits
  <2> QED BY <1>2, <1>5, <2>1 DEF Fits
<1>12. TurnsTo(q, z, p)
  BY <1>1, <1>2 DEF TurnsTo
<1>13. t = Reading(m, q, z, p)
  <2> DEFINE e == Reading(m, q, z, p)
  <2>1. /\ e.at = q.at /\ e.page = p /\ e.level = q.level /\ e.title = q.title /\ e.titles = q.titles
        /\ e.marked = q.marked /\ e.fences = q.fences
        /\ e.body = (IF q.at = "math" THEN q.body \o (x \o y) ELSE <<>>) /\ e.fence = <<>>
        /\ e.said = IF q.at = "math" /\ ~m.formulas THEN q.said ELSE q.said \cup ToSet(x \o y)
    BY <1>2, <1>5 DEF Reading, GoesTo
  <2>2. e \in Readers
    <3>1. p \in Int BY <1>1, ReaderFields
    <3> QED BY <1>3, <3>1, ReadingType
  <2> HIDE DEF e
  <2>3. e.body = t.body BY <1>6, <1>9, <1>10, <2>1, ZenonT(60)
  <2>4. e.said = t.said BY <1>4, <1>9, <1>10, <2>1
  <2>5. e = t BY <1>7, <1>9, <1>10, <2>1, <2>2, <2>3, <2>4, SameReader
  <2> QED BY <2>5 DEF e
<1>14. Moves(m, q, z, t)
  BY <1>7, <1>11, <1>12, <1>13 DEF Moves
<1> QED BY <1>1, <1>3, <1>14 DEF z

LEMMA TogetherLines ==
    ASSUME NEW l \in Lines, NEW rest \in Seq(Lines), rest # <<>>
    PROVE  /\ Together(l, rest) \in Seq(Lines) /\ Together(l, rest) # <<>>
           /\ Written("text", 0, l.words \o rest[1].words) \in Lines
<1> DEFINE z == Written("text", 0, l.words \o rest[1].words)
<1>1. rest[1] \in Lines /\ Tail(rest) \in Seq(Lines)
  BY InSequence, EmptySeq
<1>2. l.words \o rest[1].words \in Seq(Tokens)
  BY <1>1, LineFields, Concatenated
<1>3. z \in Lines
  <2>1. 0 \in 0 .. 6 /\ "text" \in LineKinds BY DEF LineKinds
  <2> QED BY <1>2, <2>1, MarkLines
<1> HIDE DEF z
<1>4. <<z>> \in Seq(Lines) /\ <<z>> \o Tail(rest) \in Seq(Lines)
  BY <1>1, <1>3, Concatenated
<1>5. <<z>> \o Tail(rest) # <<>>
  <2>1. Len(<<z>> \o Tail(rest)) = 1 + Len(Tail(rest)) /\ Len(Tail(rest)) \in Nat
    BY <1>1, <1>4, ConcatProperties
  <2> QED BY <2>1
<1> QED BY <1>3, <1>4, <1>5 DEF z, Together

LEMMA Unwrapping ==
    ASSUME NEW ls \in Seq(Lines)
    PROVE  \E F : Unwraps(F, ls)
<1> DEFINE N == Len(ls)  S == Seq(Lines)
           Jump == [i \in 1 .. N |-> i + 1]
           G == [i \in 1 .. N |-> [rest \in S |-> IF Wraps(ls, i) /\ rest # <<>>
                                                  THEN Together(ls[i], rest) ELSE <<ls[i]>> \o rest]]
           Eq(f) == f = [i \in 1 .. N + 1 |->
                          IF i > N THEN <<>>
                          ELSE LET rest == f[i + 1]
                               IN  IF /\ ~InFence(ls, i) /\ Broken(ls[i])
                                      /\ i < N /\ StartsLower(ls[i + 1])
                                   THEN <<Written("text", 0, ls[i].words \o rest[1].words)>> \o Tail(rest)
                                   ELSE <<ls[i]>> \o rest]
           F == CHOOSE f : Eq(f)
<1>1. N \in Nat /\ \A i \in 1 .. N : ls[i] \in Lines
  BY InSequence
<1>2. \A i \in 1 .. N : Wraps(ls, i) <=> /\ ~InFence(ls, i) /\ Broken(ls[i])
                                         /\ i < N /\ StartsLower(ls[i + 1])
  BY DEF Wraps
<1>3. Jump \in [1 .. N -> 1 .. N + 1] /\ \A i \in 1 .. N : Jump[i] > i /\ Jump[i] = i + 1
  BY <1>1
<1>4. G \in [1 .. N -> [S -> S]] /\ <<>> \in S
  <2>1. \A i \in 1 .. N : \A rest \in S : rest # <<>> => Together(ls[i], rest) \in S
    BY <1>1, TogetherLines
  <2>2. \A i \in 1 .. N : \A rest \in S : <<ls[i]>> \o rest \in S BY <1>1, Concatenated
  <2>3. <<>> \in S OBVIOUS
  <2> HIDE DEF S, N
  <2> QED BY <2>1, <2>2, <2>3
<1>5. \A i \in 1 .. N : \A rest \in S : G[i][rest] = IF Wraps(ls, i) /\ rest # <<>>
                                                     THEN Together(ls[i], rest) ELSE <<ls[i]>> \o rest
  OBVIOUS
<1> HIDE DEF G, N, S, Jump
<1>6. PICK f : SolvesBack(f, N, S, <<>>, Jump, G)
  BY <1>1, <1>3, <1>4, BackwardRecursion
<1>7. f \in [1 .. N + 1 -> S] /\ f[N + 1] = <<>>
  BY <1>6 DEF SolvesBack
<1>8. \A i \in 1 .. N : /\ i + 1 \in 1 .. N + 1 /\ i \in 1 .. N + 1 /\ f[i + 1] \in S
                        /\ f[i] = IF Wraps(ls, i) /\ f[i + 1] # <<>>
                                  THEN Together(ls[i], f[i + 1]) ELSE <<ls[i]>> \o f[i + 1]
  <2>1. \A i \in 1 .. N : i + 1 \in 1 .. N + 1 /\ i \in 1 .. N + 1 BY <1>1
  <2>2. \A i \in 1 .. N : f[i] = G[i][f[i + 1]] BY <1>3, <1>6 DEF SolvesBack
  <2> QED BY <1>5, <1>7, <2>1, <2>2
<1>9. \A i \in 1 .. N : f[i] # <<>>
  <2> SUFFICES ASSUME NEW i \in 1 .. N PROVE f[i] # <<>> OBVIOUS
  <2> DEFINE rest == f[i + 1]
  <2>1. rest \in Seq(Lines) /\ ls[i] \in Lines BY <1>1, <1>8 DEF S
  <2>2. f[i] = IF Wraps(ls, i) /\ rest # <<>> THEN Together(ls[i], rest) ELSE <<ls[i]>> \o rest
    BY <1>8
  <2> HIDE DEF rest
  <2>3. rest # <<>> => Together(ls[i], rest) # <<>> BY <2>1, TogetherLines
  <2>4. <<ls[i]>> \o rest # <<>>
    <3>1. Len(<<ls[i]>> \o rest) = 1 + Len(rest) /\ Len(rest) \in Nat BY <2>1, ConcatProperties
    <3> QED BY <3>1
  <2> QED BY <2>2, <2>3, <2>4
<1>10. \A i \in 1 .. N : f[i] = IF Wraps(ls, i) THEN Together(ls[i], f[i + 1]) ELSE <<ls[i]>> \o f[i + 1]
  <2> SUFFICES ASSUME NEW i \in 1 .. N, Wraps(ls, i) PROVE f[i + 1] # <<>> BY <1>8
  <2>1. i + 1 \in 1 .. N BY <1>1 DEF Wraps, N
  <2> QED BY <1>9, <2>1
<1>11. Eq(f)
  <2>1. \A i \in 1 .. N + 1 : f[i] = IF i > N THEN <<>>
                                     ELSE IF Wraps(ls, i) THEN Together(ls[i], f[i + 1])
                                     ELSE <<ls[i]>> \o f[i + 1]
    <3>1. \A i \in 1 .. N + 1 : (i = N + 1 /\ i > N) \/ (i \in 1 .. N /\ ~(i > N)) BY <1>1
    <3> QED BY <1>7, <1>10, <3>1
  <2>2. \A i \in 1 .. N + 1 : ~(i > N) => i \in 1 .. N BY <1>1
  <2> QED BY <1>2, <1>7, <2>1, <2>2 DEF Together
<1>12. Eq(F)
  <2> HIDE DEF Eq
  <2> QED BY <1>11, Zenon
<1>13. RepairLineWrapHyphens(ls) = F[1]
  BY Zenon DEF RepairLineWrapHyphens, N
<1>14. \A i \in 1 .. N + 1 :
          F[i] = IF i > N THEN <<>>
                 ELSE LET rest == F[i + 1]
                      IN  IF /\ ~InFence(ls, i) /\ Broken(ls[i])
                             /\ i < N /\ StartsLower(ls[i + 1])
                          THEN <<Written("text", 0, ls[i].words \o rest[1].words)>> \o Tail(rest)
                          ELSE <<ls[i]>> \o rest
  <2> HIDE DEF F
  <2> QED BY <1>12, Zenon
<1> HIDE DEF F
<1>15. F[N + 1] = <<>>
  <2>1. N + 1 \in 1 .. N + 1 /\ N + 1 > N BY <1>1
  <2> QED BY <1>14, <2>1
<1>16. \A i \in 1 .. N : F[i] = IF Wraps(ls, i) THEN Together(ls[i], F[i + 1]) ELSE <<ls[i]>> \o F[i + 1]
  <2>1. \A i \in 1 .. N : i \in 1 .. N + 1 /\ ~(i > N) BY <1>1
  <2> QED BY <1>2, <1>14, <2>1 DEF Together
<1> QED BY <1>13, <1>15, <1>16 DEF Unwraps, N

LEMMA HyphensTake ==
    ASSUME NEW m, NEW ls \in Seq(Lines), NEW q, Free(q), NEW e, Takes(m, ls, q, e)
    PROVE  RepairLineWrapHyphens(ls) \in Seq(Lines) /\ Takes(m, RepairLineWrapHyphens(ls), q, e)
<1> DEFINE N == Len(ls)
<1>1. PICK w : Walk(m, ls, w) /\ w[0] = q /\ w[N] = e
  BY DEF Takes
<1>2. PICK F : Unwraps(F, ls)
  BY Unwrapping
<1>3. /\ N \in Nat /\ \A n \in 1 .. N : ls[n] \in Lines
      /\ \A n \in 0 .. N : w[n] \in Readers
      /\ \A n \in 1 .. N : n - 1 \in 0 .. N /\ n \in 0 .. N /\ Moves(m, w[n - 1], ls[n], w[n])
  BY <1>1, WalkFacts
<1>4. \A i \in 1 .. N + 1 : InFence(ls, i) <=> w[i - 1].at = "fence"
  BY <1>1, FenceParity DEF Free
<1>5. F[N + 1] = <<>> /\ F[1] = RepairLineWrapHyphens(ls)
  BY <1>2 DEF Unwraps
<1>6. \A i \in 1 .. N : /\ Wraps(ls, i) => F[i] = Together(ls[i], F[i + 1])
                        /\ ~Wraps(ls, i) => F[i] = <<ls[i]>> \o F[i + 1]
  BY <1>2 DEF Unwraps
<1>7. \A i \in 1 .. N : Wraps(ls, i) => /\ w[i - 1].at # "fence" /\ i < N /\ ls[i].kind = "text"
                                        /\ ls[i + 1].kind = "text"
  <2>1. \A i \in 1 .. N : i \in 1 .. N + 1 BY <1>3
  <2> QED BY <1>4, <2>1 DEF Wraps, Broken, IsProse, StartsLower
<1> HIDE DEF N
<1> DEFINE Sure(i) == /\ F[i] \in Seq(Lines) /\ Takes(m, F[i], w[i - 1], w[N])
                      /\ i <= N => F[i] # <<>> /\ (ls[i].kind = "text" => F[i][1].kind = "text")
           Good == {i \in 1 .. N + 1 : Sure(i)}
<1>8. N + 1 \in Good
  <2>1. N + 1 \in 1 .. N + 1 /\ (N + 1) - 1 = N /\ ~(N + 1 <= N) /\ w[N] \in Readers BY <1>3
  <2>2. Takes(m, <<>>, w[N], w[N]) /\ <<>> \in Seq(Lines) BY <2>1, TakesNothing
  <2> QED BY <1>5, <2>1, <2>2
<1>9. ASSUME NEW i \in 1 .. N, \A j \in i + 1 .. N + 1 : j \in Good PROVE i \in Good
  <2> DEFINE rest == F[i + 1]  k == ls[i]  r == w[i]  b == w[i - 1]
  <2>1. i + 1 \in i + 1 .. N + 1 /\ (i + 1) - 1 = i /\ i \in 1 .. N + 1 BY <1>3
  <2>2. rest \in Seq(Lines) /\ Takes(m, rest, r, w[N]) BY <1>9, <2>1
  <2>3. i + 1 <= N => rest # <<>> /\ (ls[i + 1].kind = "text" => rest[1].kind = "text")
    BY <1>9, <2>1
  <2>4. k \in Lines /\ r \in Readers /\ b \in Readers /\ Moves(m, b, k, r) BY <1>3
  <2>5. Sure(i) <=> /\ F[i] \in Seq(Lines) /\ Takes(m, F[i], b, w[N])
                    /\ i <= N => F[i] # <<>> /\ (k.kind = "text" => F[i][1].kind = "text")
    OBVIOUS
  <2>6. CASE ~Wraps(ls, i)
    <3>1. F[i] = <<k>> \o rest BY <1>6, <2>6
    <3> HIDE DEF rest, k, r, b, Sure
    <3>2. Takes(m, <<k>>, b, r) /\ <<k>> \in Seq(Lines) BY <2>4, TakesLine
    <3>3. F[i] \in Seq(Lines) /\ Takes(m, F[i], b, w[N])
      <4>1. <<k>> \o rest \in Seq(Lines) BY <2>2, <3>2, Concatenated
      <4>2. Takes(m, <<k>> \o rest, b, w[N]) BY <2>2, <3>2, TakesBoth
      <4> QED BY <3>1, <4>1, <4>2
    <3>4. F[i] # <<>> /\ F[i][1] = k
      <4>1. Len(F[i]) = 1 + Len(rest) /\ Len(rest) \in Nat /\ F[i][1] = k
        BY <2>2, <3>1, <3>2, ConcatProperties
      <4> QED BY <4>1
    <3> QED BY <2>1, <2>5, <3>3, <3>4
  <2>7. CASE Wraps(ls, i)
    <3>1. F[i] = Together(k, rest) /\ k.kind = "text" /\ b.at # "fence" /\ rest # <<>> /\ rest[1].kind = "text"
      <4>1. i + 1 <= N BY <1>3, <1>7, <2>7
      <4> QED BY <1>6, <1>7, <2>3, <2>7, <4>1
    <3> HIDE DEF rest, k, r, b, Sure
    <3>2. rest[1] \in Lines /\ Tail(rest) \in Seq(Lines) BY <2>2, <3>1, TakesFirst
    <3>3. PICK t \in Readers : Moves(m, r, rest[1], t) /\ Takes(m, Tail(rest), t, w[N])
      BY <2>2, <3>1, TakesFirst
    <3> DEFINE l == rest[1]  z == Written("text", 0, k.words \o l.words)
    <3>4. l \in Lines /\ l.kind = "text" /\ Moves(m, r, l, t) /\ l = rest[1] BY <3>1, <3>2, <3>3
    <3> HIDE DEF l
    <3>5. z \in Lines /\ Moves(m, b, z, t) /\ z.kind = "text"
      <4>1. z \in Lines /\ Moves(m, b, z, t) BY <2>4, <3>1, <3>3, <3>4, MergedLine
      <4> QED BY <4>1 DEF Written
    <3>6. F[i] = <<z>> \o Tail(rest) BY <3>1, <3>4 DEF Together
    <3> HIDE DEF z
    <3>7. Takes(m, <<z>>, b, t) /\ <<z>> \in Seq(Lines) BY <2>4, <3>3, <3>5, TakesLine
    <3>8. F[i] \in Seq(Lines) /\ Takes(m, F[i], b, w[N])
      <4>1. <<z>> \o Tail(rest) \in Seq(Lines) BY <3>2, <3>7, Concatenated
      <4>2. Takes(m, <<z>> \o Tail(rest), b, w[N]) BY <3>2, <3>3, <3>7, TakesBoth
      <4> QED BY <3>6, <4>1, <4>2
    <3>9. F[i] # <<>> /\ F[i][1] = z
      <4>1. Len(F[i]) = 1 + Len(Tail(rest)) /\ Len(Tail(rest)) \in Nat /\ F[i][1] = z
        BY <3>2, <3>6, <3>7, ConcatProperties
      <4> QED BY <4>1
    <3> QED BY <2>1, <2>5, <3>5, <3>8, <3>9
  <2> QED BY <2>6, <2>7
<1>10. \A i \in 1 .. N + 1 : i \in Good
  <2> HIDE DEF Good
  <2> QED BY <1>3, <1>8, <1>9, CountingDown
<1>11. 1 \in 1 .. N + 1 /\ 1 - 1 = 0
  BY <1>3
<1>12. F[1] \in Seq(Lines) /\ Takes(m, F[1], w[0], w[N])
  BY <1>10, <1>11
<1> QED BY <1>1, <1>5, <1>12 DEF N

-----------------------------------------------------------------------------
(* Formulas. *)

\* Where a reader goes.
LEMMA MovesTo ==
    ASSUME NEW m, NEW q \in Readers, NEW l \in Lines, NEW r \in Readers, Moves(m, q, l, r)
    PROVE  Fits(m, q, l) /\ r.at = GoesTo(q, l) /\ q.at \in {"text", "fence", "math"}
<1> DEFINE p == r.page
<1> HIDE DEF p
<1>1. r = Reading(m, q, l, p) /\ Fits(m, q, l)
  BY DEF Moves, p
<1> QED BY <1>1, ReaderFields DEF Reading

LEMMA SamePage ==
    ASSUME NEW m, NEW q \in Readers, NEW l \in Lines, NEW r \in Readers, Moves(m, q, l, r),
           l.kind \in {"text", "math", "fence"}
    PROVE  r.page = q.page
BY DEF Moves, TurnsTo

LEMMA FormulaCloses ==
    ASSUME NEW m, NEW ls \in Seq(Lines), NEW w, Walk(m, ls, w), w[Len(ls)].at = "text",
           NEW i \in 1 .. Len(ls), ls[i].kind = "math", w[i - 1].at = "text"
    PROVE  Closed(ls, w, i)
<1> DEFINE N == Len(ls)  M == {j \in i + 1 .. N : ls[j].kind = "math"}  c == Close(ls, i)
<1>1. /\ N \in Nat /\ \A n \in 1 .. N : ls[n] \in Lines
      /\ \A n \in 0 .. N : w[n] \in Readers
      /\ \A n \in 1 .. N : n - 1 \in 0 .. N /\ n \in 0 .. N /\ Moves(m, w[n - 1], ls[n], w[n])
  BY WalkFacts
<1>2. \A n \in 1 .. N : Fits(m, w[n - 1], ls[n]) /\ w[n].at = GoesTo(w[n - 1], ls[n])
  BY <1>1, MovesTo
<1>3. i \in 1 .. N /\ c = Min(M \cup {N + 1})
  BY DEF Close
<1> HIDE DEF N, c, M
<1> DEFINE Good == {n \in 0 .. N : n >= i /\ (\A j \in i + 1 .. n : ls[j].kind # "math") => w[n].at = "math"}
<1>4. 0 \in Good
  <2>1. ~(0 >= i) /\ 0 \in 0 .. N BY <1>1, <1>3
  <2> QED BY <2>1
<1>5. ASSUME NEW n \in 1 .. N, n - 1 \in Good PROVE n \in Good
  <2> SUFFICES ASSUME n >= i, \A j \in i + 1 .. n : ls[j].kind # "math" PROVE w[n].at = "math"
    BY <1>1
  <2>1. CASE n = i BY <1>2, <2>1 DEF GoesTo
  <2>2. CASE n # i
    <3>1. n - 1 >= i /\ n \in i + 1 .. n /\ i + 1 .. n - 1 \subseteq i + 1 .. n BY <1>1, <1>3, <2>2
    <3>2. w[n - 1].at = "math" /\ ls[n].kind # "math" BY <1>5, <3>1
    <3> QED BY <1>2, <3>2 DEF GoesTo
  <2> QED BY <2>1, <2>2
<1>6. \A n \in 0 .. N : n \in Good
  <2> HIDE DEF Good
  <2> QED BY <1>1, <1>4, <1>5, Counting
<1>7. \A n \in i .. N : (\A j \in i + 1 .. n : ls[j].kind # "math") => w[n].at = "math"
  <2>1. \A n \in i .. N : n \in 0 .. N /\ n >= i BY <1>1, <1>3
  <2> QED BY <1>6, <2>1
<1>8. c \in M \cup {N + 1} /\ \A k \in M \cup {N + 1} : c <= k
  <2>1. M \cup {N + 1} \subseteq Nat /\ M \cup {N + 1} # {} BY <1>1, <1>3 DEF M
  <2> QED BY <1>3, <2>1, SmallestOf
<1>9. c \in M
  <2> SUFFICES ASSUME c = N + 1 PROVE FALSE BY <1>8
  <2>1. \A j \in i + 1 .. N : ls[j].kind # "math"
    <3> SUFFICES ASSUME NEW j \in i + 1 .. N, ls[j].kind = "math" PROVE FALSE OBVIOUS
    <3>1. j \in M BY DEF M
    <3> QED BY <1>1, <1>3, <1>8, <3>1
  <2>2. N \in i .. N BY <1>1, <1>3
  <2>3. w[N].at = "math" BY <1>7, <2>1, <2>2
  <2> QED BY <2>3 DEF N
<1>10. c \in i + 1 .. N /\ ls[c].kind = "math"
  BY <1>9 DEF M
<1>11. \A j \in i + 1 .. c - 1 : ls[j].kind # "math"
  <2> SUFFICES ASSUME NEW j \in i + 1 .. c - 1, ls[j].kind = "math" PROVE FALSE OBVIOUS
  <2>1. j \in M /\ ~(c <= j) BY <1>1, <1>3, <1>10 DEF M
  <2> QED BY <1>8, <2>1
<1>12. ASSUME NEW j \in i .. c - 1 PROVE w[j].at = "math"
  <2>1. j \in i .. N /\ \A k \in i + 1 .. j : k \in i + 1 .. c - 1 BY <1>1, <1>3, <1>10
  <2> QED BY <1>7, <1>11, <2>1
<1>13. ASSUME NEW j \in i + 1 .. c - 1 PROVE ls[j].kind = "text"
  <2>1. j \in 1 .. N /\ j - 1 \in i .. c - 1 BY <1>1, <1>3, <1>10
  <2>2. w[j - 1].at = "math" /\ Fits(m, w[j - 1], ls[j]) BY <1>2, <1>12, <2>1
  <2> QED BY <1>11, <2>2 DEF Fits
<1> QED BY <1>10, <1>12, <1>13 DEF Closed, N, c

LEMMA InsideLines ==
    ASSUME NEW ls \in Seq(Lines), NEW w, NEW i \in 1 .. Len(ls), Closed(ls, w, i)
    PROVE  /\ Inside(ls, i) \in Seq(Lines) /\ Worded(Inside(ls, i))
           /\ Len(Inside(ls, i)) = Close(ls, i) - i - 1
           /\ \A k \in 1 .. Close(ls, i) - i - 1 : /\ Inside(ls, i)[k] = ls[i + k]
                                                   /\ i + k \in i + 1 .. Close(ls, i) - 1
                                                   /\ Inside(ls, i)[k].kind = "text"
           /\ Enclosed(ls, i) = FlattenSeq(Texted(Inside(ls, i)))
           /\ Enclosed(ls, i) \in Seq(Tokens)
           /\ ToSet(Enclosed(ls, i)) = UNION {ToSet(Inside(ls, i)[k].words) : k \in DOMAIN Inside(ls, i)}
<1> DEFINE N == Len(ls)  c == Close(ls, i)  L == Inside(ls, i)
<1>1. N \in Nat /\ c \in i + 1 .. N /\ \A j \in i + 1 .. c - 1 : ls[j].kind = "text"
  BY InSequence DEF Closed
<1> HIDE DEF c
<1>2. /\ L \in Seq(Lines) /\ Len(L) = c - i - 1
      /\ \A k \in 1 .. c - i - 1 : L[k] = ls[i + k] /\ i + k \in i + 1 .. c - 1
  <2>1. i + 1 \in 1 .. Len(ls) + 1 /\ c - 1 \in 0 .. Len(ls) BY <1>1
  <2> DEFINE a == i + 1  b == c - 1
  <2>2. L = SubSeq(ls, a, b) BY DEF Inside, c
  <2>3. a \in 1 .. Len(ls) + 1 /\ b \in 0 .. Len(ls) BY <2>1
  <2> HIDE DEF a, b, L
  <2>4. L \in Seq(Lines) /\ Len(L) = (IF a <= b THEN b - a + 1 ELSE 0)
        /\ \A k \in 1 .. b - a + 1 : L[k] = ls[a + k - 1]
    BY <2>2, <2>3, Part
  <2>5. (IF a <= b THEN b - a + 1 ELSE 0) = c - i - 1 /\ b - a + 1 = c - i - 1
        /\ \A k \in 1 .. c - i - 1 : a + k - 1 = i + k /\ i + k \in i + 1 .. c - 1
    BY <1>1 DEF a, b
  <2> QED BY <2>4, <2>5
<1>3. DOMAIN L = 1 .. c - i - 1 /\ \A k \in 1 .. c - i - 1 : L[k].kind = "text"
  BY <1>1, <1>2, InSequence
<1> HIDE DEF L
<1>4. Worded(L)
  BY <1>3 DEF Worded
<1>5. Enclosed(ls, i) = FlattenSeq(Texted(L))
  <2>1. Enclosed(ls, i) = FlattenSeq([k \in 1 .. c - i - 1 |-> ls[i + k].words]) BY DEF Enclosed, c
  <2>2. Texted(L) = [k \in 1 .. c - i - 1 |-> ls[i + k].words] BY <1>2, <1>3 DEF Texted
  <2> QED BY <2>1, <2>2
<1>6. /\ FlattenSeq(Texted(L)) \in Seq(Tokens)
      /\ ToSet(FlattenSeq(Texted(L))) = UNION {ToSet(L[k].words) : k \in DOMAIN L}
  <2>1. Texted(L) \in Seq(Seq(Tokens)) /\ DOMAIN Texted(L) = DOMAIN L
        /\ \A k \in DOMAIN L : Texted(L)[k] = L[k].words
    BY <1>2, <1>3, TextedLines
  <2>2. UNION {ToSet(Texted(L)[k]) : k \in DOMAIN Texted(L)} = UNION {ToSet(L[k].words) : k \in DOMAIN L}
    BY <2>1
  <2> QED BY <2>1, <2>2, Flattened
<1> QED BY <1>2, <1>3, <1>4, <1>5, <1>6 DEF c, L

LEMMA FormulaRead ==
    ASSUME NEW m, NEW ls \in Seq(Lines), NEW w, Walk(m, ls, w), Rested(w[0]),
           NEW i \in 1 .. Len(ls), ls[i].kind = "math", w[i - 1].at = "text", Closed(ls, w, i)
    PROVE  Anatomy(m, ls, w, i)
<1> DEFINE N == Len(ls)  c == Close(ls, i)  L == Inside(ls, i)  body == Enclosed(ls, i)
           n == c - i - 1  b == w[i - 1]  q == w[i]  p == b.page
<1>1. /\ N \in Nat /\ \A j \in 1 .. N : ls[j] \in Lines
      /\ \A j \in 0 .. N : w[j] \in Readers /\ Rested(w[j])
      /\ \A j \in 1 .. N : j - 1 \in 0 .. N /\ j \in 0 .. N /\ Moves(m, w[j - 1], ls[j], w[j])
  BY WalkFacts
<1>2. /\ c \in i + 1 .. N /\ ls[c].kind = "math" /\ (\A j \in i .. c - 1 : w[j].at = "math")
      /\ \A j \in i + 1 .. c - 1 : ls[j].kind = "text"
  BY DEF Closed
<1>3. /\ L \in Seq(Lines) /\ Worded(L) /\ Len(L) = n
      /\ \A k \in 1 .. n : L[k] = ls[i + k] /\ i + k \in i + 1 .. c - 1 /\ L[k].kind = "text"
      /\ body = FlattenSeq(Texted(L)) /\ body \in Seq(Tokens)
  BY InsideLines
<1> HIDE DEF c, L, body, N, n
<1>12. n = c - i - 1 /\ i \in 1 .. N
  BY DEF n, N
<1>4. b \in Readers /\ q \in Readers /\ Rested(b) /\ Rested(q) /\ Moves(m, b, ls[i], q) /\ b.at = "text"
  BY <1>1, <1>12
<1>5. \A j \in i .. c - 1 : w[j].page = p
  <2> DEFINE Good == {j \in 0 .. N : i <= j /\ j <= c - 1 => w[j].page = p}
  <2>1. 0 \in Good
    <3>1. ~(i <= 0) /\ 0 \in 0 .. N BY <1>1, <1>12
    <3> QED BY <3>1
  <2>2. ASSUME NEW j \in 1 .. N, j - 1 \in Good PROVE j \in Good
    <3> SUFFICES ASSUME i <= j, j <= c - 1 PROVE w[j].page = p BY <1>1
    <3>1. ls[j].kind \in {"text", "math"}
      <4>1. j = i \/ j \in i + 1 .. c - 1 BY <1>1, <1>12
      <4> QED BY <1>2, <4>1
    <3>2. w[j].page = w[j - 1].page
      <4> DEFINE x == w[j - 1]  y == w[j]  l == ls[j]
      <4>1. x \in Readers /\ y \in Readers /\ l \in Lines /\ Moves(m, x, l, y)
            /\ l.kind \in {"text", "math", "fence"}
        BY <1>1, <3>1
      <4> HIDE DEF x, y, l
      <4>2. y.page = x.page BY <4>1, SamePage
      <4> QED BY <4>2 DEF x, y
    <3>3. CASE j = i BY <3>2, <3>3
    <3>4. CASE j # i
      <4>1. i <= j - 1 /\ j - 1 <= c - 1 BY <1>1, <1>2, <1>12, <3>4
      <4> QED BY <2>2, <3>2, <4>1
    <3> QED BY <3>3, <3>4
  <2>3. \A j \in 0 .. N : j \in Good
    <3> HIDE DEF Good
    <3> QED BY <1>1, <2>1, <2>2, Counting
  <2>4. \A j \in i .. c - 1 : j \in 0 .. N /\ i <= j /\ j <= c - 1 BY <1>1, <1>2, <1>12
  <2> QED BY <2>3, <2>4
<1>6. q.at = "math" /\ q.page = p
  <2>1. i \in i .. c - 1 BY <1>2, <1>12
  <2> QED BY <1>2, <1>5, <2>1
<1>7. \A k \in 1 .. n : \A t \in ToSet(L[k].words) : t.page = p
  <2> SUFFICES ASSUME NEW k \in 1 .. n PROVE \A t \in ToSet(L[k].words) : t.page = p OBVIOUS
  <2>1. i + k \in 1 .. N /\ (i + k) - 1 \in i .. c - 1 BY <1>1, <1>2, <1>12, SMTT(30)
  <2>2. Fits(m, w[(i + k) - 1], ls[i + k]) BY <1>1, <2>1 DEF Moves
  <2> QED BY <1>3, <1>5, <2>1, <2>2 DEF Fits
<1> DEFINE f == [k \in 0 .. n |-> w[i + k]]
<1>8. Runs(m, q, L, f)
  <2>1. \A k \in 0 .. n : i + k \in 0 .. N BY <1>1, <1>2, <1>12, SMTT(30)
  <2>2. f \in [0 .. n -> Readers] /\ f[0] = q
    <3>1. n \in Nat /\ 0 \in 0 .. n /\ i + 0 = i BY <1>2, <1>12
    <3> QED BY <1>1, <2>1, <3>1
  <2>3. ASSUME NEW k \in 1 .. n PROVE f[k] = Reading(m, f[k - 1], L[k], q.page)
    <3>1. i + k \in 1 .. N /\ (i + k) - 1 = i + (k - 1) /\ k \in 0 .. n /\ k - 1 \in 0 .. n
          /\ i + k \in i .. c - 1
      BY <1>1, <1>2, <1>12
    <3>2. w[i + k] = Reading(m, w[(i + k) - 1], ls[i + k], w[i + k].page) BY <1>1, <3>1 DEF Moves
    <3>3. w[i + k].page = q.page BY <1>5, <1>6, <3>1
    <3>4. f[k] = w[i + k] /\ f[k - 1] = w[i + (k - 1)] /\ L[k] = ls[i + k] BY <1>3, <3>1
    <3> HIDE DEF f, q
    <3> QED BY <3>1, <3>2, <3>3, <3>4
  <2> HIDE DEF f
  <2> QED BY <1>3, <2>2, <2>3 DEF Runs
<1>9. w[c - 1] = After(m, q, body, L)
  <2>1. f[n] = After(m, q, body, L) BY <1>3, <1>4, <1>8, RunEnds
  <2>2. n \in 0 .. n /\ i + n = c - 1 BY <1>2, <1>12
  <2> QED BY <2>1, <2>2
<1> DEFINE s == w[c - 1]  e == w[c]
<1>10. /\ s \in Readers /\ e \in Readers /\ Moves(m, s, ls[c], e) /\ ls[i] \in Lines /\ ls[c] \in Lines
       /\ e.page = p
  <2>1. c \in 1 .. N /\ c - 1 \in i .. c - 1 BY <1>1, <1>2, <1>12
  <2> DEFINE l == ls[c]
  <2>2. s \in Readers /\ e \in Readers /\ Moves(m, s, l, e) /\ ls[i] \in Lines /\ l \in Lines
        /\ l.kind \in {"text", "math", "fence"}
    BY <1>1, <1>2, <1>12, <2>1
  <2>3. s.page = p /\ l = ls[c] BY <1>5, <2>1
  <2> HIDE DEF s, e, p, l
  <2>4. e.page = s.page BY <2>2, SamePage
  <2> QED BY <2>2, <2>3, <2>4
<1>11. q = Reading(m, b, ls[i], p) /\ e = Reading(m, s, ls[c], p) /\ ls[i].words = <<>> /\ ls[c].words = <<>>
  <2> HIDE DEF s, e, p, q, b
  <2> QED BY <1>2, <1>4, <1>6, <1>10 DEF Moves, Fits
<1>18. p = b.page OBVIOUS
<1> HIDE DEF s, e, q, b, p, f
<1>13. ToSet(<<>>) = {}
  BY DEF ToSet
<1>14. /\ q.body = <<>> /\ q.fence = <<>> /\ q.said = b.said /\ q.level = b.level /\ q.title = b.title
       /\ q.titles = b.titles /\ q.marked = b.marked /\ q.fences = b.fences
  BY <1>4, <1>11, <1>13 DEF Reading
<1>15. /\ s.at = "math" /\ s.page = p /\ s.level = b.level /\ s.title = b.title
       /\ s.titles = b.titles /\ s.marked = b.marked /\ s.fences = b.fences
       /\ s.body = body /\ s.fence = <<>>
       /\ s.said = IF m.formulas THEN b.said \cup ToSet(body) ELSE b.said
  <2>1. s = After(m, q, body, L) BY <1>9 DEF s
  <2>2. <<>> \o body = body BY <1>3, ConcatEmptySeq
  <2> QED BY <1>4, <1>6, <1>14, <2>1, <2>2 DEF After, Readers
<1>16. e = Said(m, b, body)
  <2>1. /\ e.at = "text" /\ e.page = p /\ e.level = b.level /\ e.title = b.title
        /\ e.titles = b.titles /\ e.marked = b.marked /\ e.fences = b.fences
        /\ e.body = <<>> /\ e.fence = <<>>
        /\ e.said = IF m.formulas THEN b.said \cup ToSet(body) ELSE b.said
    BY <1>2, <1>11, <1>13, <1>15 DEF Reading, GoesTo
  <2>2. b.body = <<>> /\ b.fence = <<>> BY <1>4 DEF Rested
  <2>3. e = [b EXCEPT !.said = e.said] BY <1>4, <1>10, <1>18, <2>1, <2>2, OnlySaid
  <2> QED BY <2>1, <2>3 DEF Said
<1>17. DOMAIN L = 1 .. n
  BY <1>3, InSequence
<1> QED BY <1>7, <1>15, <1>16, <1>17, <1>18 DEF Anatomy, s, e, b, c, L, body

LEMMA RepairingManner ==
    ASSUME NEW m \in Manners
    PROVE  /\ Repairing(m) \in Manners /\ Repairing(m).repaired /\ Repairing(m).formulas = m.formulas
           /\ Repairing(m).detect = m.detect /\ Repairing(m).ordered = m.ordered
BY DEF Repairing, Manners

\* Only a mark that closes a formula is read otherwise.
LEMMA RepairedLine ==
    ASSUME NEW m \in Manners, NEW q \in Readers, NEW l \in Lines, NEW r \in Readers, Moves(m, q, l, r),
           l.kind = "math" /\ q.at = "math" => GoodFormula(q.body)
    PROVE  Moves(Repairing(m), q, l, r)
<1> DEFINE n == Repairing(m)  p == r.page
<1>1. n.formulas = m.formulas /\ n.detect = m.detect /\ n.ordered = m.ordered
  BY RepairingManner
<1>2. Fits(m, q, l) /\ TurnsTo(q, l, p) /\ r = Reading(m, q, l, p) /\ p = r.page
  BY DEF Moves
<1> HIDE DEF n, p
<1>3. Fits(n, q, l)
  BY <1>1, <1>2 DEF Fits
<1>4. Title(n, l) = Title(m, l)
  BY <1>1 DEF Title
<1>5. Reading(n, q, l, p) = Reading(m, q, l, p)
  BY <1>1, <1>4 DEF Reading
<1> QED BY <1>2, <1>3, <1>5 DEF Moves, n

\* A formula that is kept.
LEMMA KeptFormula ==
    ASSUME NEW m \in Manners, NEW ls \in Seq(Lines), NEW w, Walk(m, ls, w), NEW i \in 1 .. Len(ls),
           w[i - 1].at = "text", Closed(ls, w, i), Anatomy(m, ls, w, i), GoodFormula(Enclosed(ls, i))
    PROVE  /\ SubSeq(ls, i, Close(ls, i)) \in Seq(Lines)
           /\ Takes(Repairing(m), SubSeq(ls, i, Close(ls, i)), w[i - 1], w[Close(ls, i)])
<1> DEFINE N == Len(ls)  c == Close(ls, i)  n == Repairing(m)
<1>1. /\ N \in Nat /\ \A j \in 1 .. N : ls[j] \in Lines
      /\ w \in [0 .. N -> Readers] /\ \A j \in 0 .. N : w[j] \in Readers
      /\ \A j \in 1 .. N : j - 1 \in 0 .. N /\ j \in 0 .. N /\ Moves(m, w[j - 1], ls[j], w[j])
  <2>1. w \in [0 .. N -> Readers] BY DEF Walk
  <2> QED BY <2>1, WalkFacts
<1>2. c \in i + 1 .. N /\ \A j \in i + 1 .. c - 1 : ls[j].kind = "text"
  BY DEF Closed
<1>3. w[c - 1].body = Enclosed(ls, i)
  BY DEF Anatomy
<1> HIDE DEF c, N
<1>4. ASSUME NEW j \in i .. c PROVE Moves(n, w[j - 1], ls[j], w[j])
  <2> DEFINE q == w[j - 1]  l == ls[j]  r == w[j]
  <2>1. j \in 1 .. N /\ (j = i \/ j = c \/ j \in i + 1 .. c - 1) BY <1>1, <1>2
  <2>2. q \in Readers /\ l \in Lines /\ r \in Readers /\ Moves(m, q, l, r) BY <1>1, <2>1
  <2>3. l.kind = "math" /\ q.at = "math" => GoodFormula(q.body) BY <1>2, <1>3, <2>1
  <2> HIDE DEF q, l, r
  <2>4. Moves(n, q, l, r) BY <2>2, <2>3, RepairedLine
  <2> QED BY <2>4 DEF q, l, r
<1>5. i \in 1 .. Len(ls) + 1 /\ c \in 0 .. Len(ls) /\ i <= c + 1
  BY <1>1, <1>2 DEF N
<1>6. SubSeq(ls, i, c) \in Seq(Lines)
  BY <1>5, Part
<1>7. Takes(n, SubSeq(ls, i, c), w[i - 1], w[c])
  <2> HIDE DEF n
  <2> QED BY <1>1, <1>4, <1>5, TakesPart DEF N
<1> QED BY <1>6, <1>7 DEF c

\* A sentence between marks loses them.
LEMMA FalseFormula ==
    ASSUME NEW m \in Manners, m.formulas, NEW ls \in Seq(Lines), NEW w, NEW i \in 1 .. Len(ls),
           w[i - 1] \in Readers, w[i - 1].at = "text", Rested(w[i - 1]), Closed(ls, w, i), Anatomy(m, ls, w, i)
    PROVE  Takes(Repairing(m), Inside(ls, i), w[i - 1], w[Close(ls, i)])
<1> DEFINE q == w[i - 1]  L == Inside(ls, i)  body == Enclosed(ls, i)  n == Repairing(m)
<1>1. /\ L \in Seq(Lines) /\ Worded(L) /\ body = FlattenSeq(Texted(L)) /\ q \in Readers /\ q.at = "text" /\ Rested(q)
  BY InsideLines
<1>2. \A k \in DOMAIN L : \A t \in ToSet(L[k].words) : t.page = q.page
  BY DEF Anatomy
<1>3. w[Close(ls, i)] = Said(m, q, body)
  BY DEF Anatomy
<1>4. n.formulas = m.formulas
  BY RepairingManner
<1> HIDE DEF q, L, body, n
<1>5. Takes(n, L, q, After(n, q, body, L))
  BY <1>1, <1>2, TakesRun
<1>6. After(n, q, body, L) = Said(m, q, body)
  <2>1. q = [at |-> q.at, page |-> q.page, level |-> q.level, title |-> q.title, body |-> q.body,
             fence |-> q.fence, said |-> q.said, titles |-> q.titles, marked |-> q.marked,
             fences |-> q.fences]
    BY <1>1, ReaderRecord
  <2> QED BY <1>1, <1>4, <2>1 DEF After, Said
<1> QED BY <1>3, <1>5, <1>6 DEF q, L, n

LEMMA MovesOne ==
    ASSUME NEW m, NEW q \in Readers, NEW l \in Lines, NEW p \in Int, Fits(m, q, l), TurnsTo(q, l, p)
    PROVE  Moves(m, q, l, Reading(m, q, l, p)) /\ Reading(m, q, l, p) \in Readers
<1>1. Reading(m, q, l, p) \in Readers
  BY ReadingType
<1>2. Reading(m, q, l, p).page = p
  BY DEF Reading
<1> DEFINE r == Reading(m, q, l, p)
<1>3. r.page = p /\ r = Reading(m, q, l, p)
  BY <1>2
<1> HIDE DEF r
<1>4. Moves(m, q, l, r)
  BY <1>3 DEF Moves
<1> QED BY <1>1, <1>4 DEF r

LEMMA FiveLines ==
    ASSUME NEW m, NEW q \in Readers, NEW r \in Readers, NEW s \in Readers, NEW t \in Readers,
           NEW u \in Readers, NEW e \in Readers, NEW a \in Lines, NEW b \in Lines, NEW c \in Lines,
           NEW d \in Lines, NEW f \in Lines, Moves(m, q, a, r), Moves(m, r, b, s), Moves(m, s, c, t),
           Moves(m, t, d, u), Moves(m, u, f, e)
    PROVE  <<a, b, c, d, f>> \in Seq(Lines) /\ Takes(m, <<a, b, c, d, f>>, q, e)
<1> DEFINE ls == <<a, b, c, d, f>>
           w == [i \in 0 .. 5 |-> IF i = 0 THEN q ELSE IF i = 1 THEN r ELSE IF i = 2 THEN s
                                  ELSE IF i = 3 THEN t ELSE IF i = 4 THEN u ELSE e]
<1>1. /\ Len(ls) = 5 /\ ls[1] = a /\ ls[2] = b /\ ls[3] = c /\ ls[4] = d /\ ls[5] = f
      /\ ls \in Seq(Lines)
  OBVIOUS
<1>2. w \in [0 .. 5 -> Readers] OBVIOUS
<1>3. w[0] = q /\ w[1] = r /\ w[2] = s /\ w[3] = t /\ w[4] = u /\ w[5] = e OBVIOUS
<1> HIDE DEF ls, w
<1>4. ASSUME NEW i \in 1 .. 5 PROVE Moves(m, w[i - 1], ls[i], w[i])
  <2>1. /\ i = 1 \/ i = 2 \/ i = 3 \/ i = 4 \/ i = 5
        /\ 1 - 1 = 0 /\ 2 - 1 = 1 /\ 3 - 1 = 2 /\ 4 - 1 = 3 /\ 5 - 1 = 4
    OBVIOUS
  <2> QED BY <1>1, <1>3, <2>1
<1>5. Walk(m, ls, w)
  BY <1>1, <1>2, <1>4 DEF Walk
<1> QED BY <1>1, <1>3, <1>5 DEF Takes, ls

\* A formula that a sentence follows keeps its marks, the sentence goes behind them.
LEMMA RepairedFormula ==
    ASSUME NEW m \in Manners, m.formulas, NEW q, Free(q), NEW body \in Seq(Tokens), ProseAfter(body) # {},
           \A t \in ToSet(body) : t.page = q.page
    PROVE  Repair(body) \in Seq(Lines) /\ Takes(m, Repair(body), q, Said(m, q, body))
<1> DEFINE cut == Min(ProseAfter(body))  x == SubSeq(body, 1, cut)  y == SubSeq(body, cut + 1, Len(body))
           f == Written("text", 0, x)  g == Written("text", 0, y)  p == q.page
           r == Reading(m, q, MathFence, p)
           s == Reading(m, r, f, p)
           t == Reading(m, s, MathFence, p)
           u == Reading(m, t, Blank, p)
           e == Reading(m, u, g, p)
<1>1. /\ cut \in ProseAfter(body) /\ Len(body) \in Nat
      /\ cut \in 1 .. Len(body) - 2 /\ WordSet(SubSeq(body, 1, cut)) \cap Signs # {}
  <2>1. ProseAfter(body) \subseteq Nat /\ Len(body) \in Nat BY InSequence DEF ProseAfter
  <2>2. cut \in ProseAfter(body) BY <2>1, SmallestOf
  <2> HIDE DEF cut
  <2> QED BY <2>1, <2>2 DEF ProseAfter
<1> HIDE DEF cut
<1>2. /\ x \in Seq(Tokens) /\ y \in Seq(Tokens) /\ ToSet(x) \cup ToSet(y) = ToSet(body) /\ GoodFormula(x)
  <2>1. cut \in 0 .. Len(body) /\ 1 \in 1 .. Len(body) + 1 /\ cut + 1 \in 1 .. Len(body) + 1
        /\ Len(body) \in 0 .. Len(body)
    BY <1>1
  <2>2. x \in Seq(Tokens) /\ ToSet(x) = {body[i] : i \in 1 .. cut} BY <2>1, Part
  <2>3. y \in Seq(Tokens) /\ ToSet(y) = {body[i] : i \in cut + 1 .. Len(body)} BY <2>1, Part
  <2>4. ToSet(body) = {body[i] : i \in 1 .. Len(body)} BY InSequence DEF ToSet
  <2>5. 1 .. Len(body) = (1 .. cut) \cup (cut + 1 .. Len(body)) BY <1>1
  <2>6. GoodFormula(x) BY <1>1 DEF GoodFormula
  <2> HIDE DEF x, y
  <2>7. ToSet(x) \cup ToSet(y) = ToSet(body) BY <2>2, <2>3, <2>4, <2>5
  <2> QED BY <2>2, <2>3, <2>6, <2>7
<1> HIDE DEF x, y
<1>3. /\ f \in Lines /\ f.kind = "text" /\ f.words = x /\ g \in Lines /\ g.kind = "text" /\ g.words = y
  <2>1. 0 \in 0 .. 6 /\ "text" \in LineKinds BY DEF LineKinds
  <2> QED BY <1>2, <2>1, MarkLines DEF Written
<1> DEFINE mf == MathFence  bl == Blank
<1>4. /\ mf \in Lines /\ mf.kind = "math" /\ mf.words = <<>>
      /\ bl \in Lines /\ bl.kind = "blank" /\ bl.words = <<>> /\ ToSet(<<>>) = {}
  BY MarkLines DEF MathFence, Blank, Written, ToSet
<1>5. q \in Readers /\ q.at = "text" /\ Rested(q) /\ p \in Int /\ p = q.page
  BY ReaderFields DEF Free
<1>6. Repair(body) = <<mf, f, mf, bl, g>>
  BY DEF Repair, cut, x, y
<1>17. /\ r = Reading(m, q, mf, p) /\ s = Reading(m, r, f, p) /\ t = Reading(m, s, mf, p)
       /\ u = Reading(m, t, bl, p) /\ e = Reading(m, u, g, p)
  OBVIOUS
<1>18. \A z \in ToSet(x) \cup ToSet(y) : z.page = p
  BY <1>2
<1> HIDE DEF f, g, p, r, s, t, u, e, mf, bl
<1>7. /\ Moves(m, q, mf, r) /\ r \in Readers
      /\ r.at = "math" /\ r.page = p /\ r.level = q.level /\ r.title = q.title /\ r.body = <<>> /\ r.fence = <<>>
      /\ r.said = q.said /\ r.titles = q.titles /\ r.marked = q.marked /\ r.fences = q.fences
  <2>1. Fits(m, q, mf) /\ TurnsTo(q, mf, p) BY <1>4, <1>5 DEF Fits, TurnsTo
  <2>2. Moves(m, q, mf, r) /\ r \in Readers BY <1>4, <1>5, <1>17, <2>1, MovesOne
  <2>3. r.at = "math" /\ r.page = p /\ r.level = q.level /\ r.title = q.title
    <3>1. GoesTo(q, mf) = "math" BY <1>4, <1>5 DEF GoesTo
    <3>2. r.at = GoesTo(q, mf) /\ r.page = p BY <1>17, ZenonT(60) DEF Reading
    <3>3. r.level = q.level BY <1>4, <1>17, ZenonT(60) DEF Reading
    <3>4. r.title = q.title BY <1>4, <1>17, ZenonT(60) DEF Reading
    <3> QED BY <3>1, <3>2, <3>3, <3>4
  <2>4. r.said = q.said /\ r.titles = q.titles /\ r.marked = q.marked /\ r.fences = q.fences
    BY <1>4, <1>5, <1>17, ZenonT(60) DEF Reading
  <2>5. r.body = <<>> /\ r.fence = <<>> BY <1>4, <1>5, <1>17, ZenonT(60) DEF Reading
  <2> QED BY <2>2, <2>3, <2>4, <2>5
<1>8. /\ Moves(m, r, f, s) /\ s \in Readers
      /\ s.at = "math" /\ s.page = p /\ s.level = q.level /\ s.title = q.title /\ s.body = x /\ s.fence = <<>>
      /\ s.said = q.said \cup ToSet(x) /\ s.titles = q.titles /\ s.marked = q.marked /\ s.fences = q.fences
  <2>1. Fits(m, r, f) /\ TurnsTo(r, f, p) BY <1>3, <1>7, <1>18 DEF Fits, TurnsTo
  <2>2. Moves(m, r, f, s) /\ s \in Readers BY <1>3, <1>5, <1>7, <1>17, <2>1, MovesOne
  <2>3. <<>> \o x = x BY <1>2, ConcatEmptySeq
  <2> QED BY <1>3, <1>7, <1>17, <2>2, <2>3 DEF Reading, GoesTo
<1>9. /\ Moves(m, s, mf, t) /\ t \in Readers
      /\ t.at = "text" /\ t.page = p /\ t.level = q.level /\ t.title = q.title /\ t.body = <<>> /\ t.fence = <<>>
      /\ t.said = q.said \cup ToSet(x) /\ t.titles = q.titles /\ t.marked = q.marked /\ t.fences = q.fences
  <2>1. Fits(m, s, mf) /\ TurnsTo(s, mf, p) BY <1>2, <1>4, <1>8 DEF Fits, TurnsTo
  <2>2. Moves(m, s, mf, t) /\ t \in Readers BY <1>4, <1>5, <1>8, <1>17, <2>1, MovesOne
  <2> QED BY <1>4, <1>8, <1>17, <2>2 DEF Reading, GoesTo
<1>10. /\ Moves(m, t, bl, u) /\ u \in Readers
       /\ u.at = "text" /\ u.page = p /\ u.level = q.level /\ u.title = q.title /\ u.body = <<>> /\ u.fence = <<>>
       /\ u.said = q.said \cup ToSet(x) /\ u.titles = q.titles /\ u.marked = q.marked /\ u.fences = q.fences
  <2>1. Fits(m, t, bl) /\ TurnsTo(t, bl, p) BY <1>4, <1>5, <1>9 DEF Fits, TurnsTo
  <2>2. Moves(m, t, bl, u) /\ u \in Readers BY <1>4, <1>5, <1>9, <1>17, <2>1, MovesOne
  <2> QED BY <1>4, <1>9, <1>17, <2>2 DEF Reading, GoesTo
<1>11. /\ Moves(m, u, g, e) /\ e \in Readers
       /\ e.at = "text" /\ e.page = p /\ e.level = q.level /\ e.title = q.title /\ e.body = <<>> /\ e.fence = <<>>
       /\ e.said = (q.said \cup ToSet(x)) \cup ToSet(y)
       /\ e.titles = q.titles /\ e.marked = q.marked /\ e.fences = q.fences
  <2>1. Fits(m, u, g) /\ TurnsTo(u, g, p) BY <1>3, <1>10, <1>18 DEF Fits, TurnsTo
  <2>2. Moves(m, u, g, e) /\ e \in Readers BY <1>3, <1>5, <1>10, <1>17, <2>1, MovesOne
  <2> QED BY <1>3, <1>10, <1>17, <2>2 DEF Reading, GoesTo
<1>12. e = Said(m, q, body)
  <2>1. q.body = <<>> /\ q.fence = <<>> BY <1>5 DEF Rested
  <2>2. e.said = q.said \cup ToSet(body) BY <1>2, <1>11
  <2>3. e = [q EXCEPT !.said = e.said] BY <1>5, <1>11, <2>1, OnlySaid
  <2> QED BY <1>5, <2>2, <2>3 DEF Said
<1>13. <<mf, f, mf, bl, g>> \in Seq(Lines) /\ Takes(m, <<mf, f, mf, bl, g>>, q, e)
  BY <1>3, <1>4, <1>5, <1>7, <1>8, <1>9, <1>10, <1>11, FiveLines
<1> QED BY <1>6, <1>12, <1>13

\* The mark that closes a formula, wherever the first one is.
LEMMA ClosingMark ==
    ASSUME NEW ls \in Seq(Lines), NEW i \in 1 .. Len(ls), Close(ls, i) <= Len(ls)
    PROVE  /\ Close(ls, i) \in i + 1 .. Len(ls) /\ Inside(ls, i) \in Seq(Lines)
           /\ SubSeq(ls, i, Close(ls, i)) \in Seq(Lines) /\ Enclosed(ls, i) \in Seq(Tokens)
<1> DEFINE N == Len(ls)  c == Close(ls, i)  S == {j \in i + 1 .. N : ls[j].kind = "math"} \cup {N + 1}
<1>1. N \in Nat /\ \A j \in 1 .. N : ls[j] \in Lines
  BY InSequence
<1>2. c \in S
  <2>1. S \subseteq Nat /\ S # {} /\ c = Min(S) BY <1>1 DEF Close
  <2> HIDE DEF S, c
  <2> QED BY <2>1, SmallestOf
<1>3. c \in i + 1 .. N
  BY <1>1, <1>2
<1> HIDE DEF c
<1>4. Inside(ls, i) \in Seq(Lines) /\ SubSeq(ls, i, c) \in Seq(Lines)
  <2>1. i + 1 \in 1 .. Len(ls) + 1 /\ c - 1 \in 0 .. Len(ls) /\ i \in 1 .. Len(ls) + 1 /\ c \in 0 .. Len(ls)
    BY <1>1, <1>3
  <2>2. SubSeq(ls, i + 1, c - 1) \in Seq(Lines) /\ SubSeq(ls, i, c) \in Seq(Lines) BY <2>1, Part
  <2> QED BY <2>2 DEF Inside, c
<1>5. Enclosed(ls, i) \in Seq(Tokens)
  <2> DEFINE n == c - i - 1  ws == [k \in 1 .. n |-> ls[i + k].words]
  <2>1. n \in Nat /\ \A k \in 1 .. n : i + k \in 1 .. N BY <1>1, <1>3
  <2>2. \A k \in 1 .. n : ls[i + k].words \in Seq(Tokens) BY <1>1, <2>1, LineFields
  <2> HIDE DEF n
  <2>3. ws \in Seq(Seq(Tokens)) BY <2>1, <2>2
  <2>4. FlattenSeq(ws) \in Seq(Tokens) BY <2>3, Flattened
  <2> QED BY <2>4 DEF Enclosed, c, n
<1> QED BY <1>3, <1>4, <1>5 DEF c

LEMMA RepairLines ==
    ASSUME NEW body \in Seq(Tokens), ProseAfter(body) # {}
    PROVE  Repair(body) \in Seq(Lines)
<1> DEFINE cut == Min(ProseAfter(body))  x == SubSeq(body, 1, cut)  y == SubSeq(body, cut + 1, Len(body))
           f == Written("text", 0, x)  g == Written("text", 0, y)
<1>1. cut \in 1 .. Len(body) - 2 /\ Len(body) \in Nat
  <2>1. ProseAfter(body) \subseteq 1 .. Len(body) - 2 /\ Len(body) \in Nat
    BY InSequence DEF ProseAfter
  <2>2. ProseAfter(body) \subseteq Nat BY <2>1
  <2>3. cut \in ProseAfter(body) BY <2>2, SmallestOf
  <2> HIDE DEF cut
  <2> QED BY <2>1, <2>3
<1> HIDE DEF cut
<1>2. x \in Seq(Tokens) /\ y \in Seq(Tokens)
  <2>1. cut \in 0 .. Len(body) /\ 1 \in 1 .. Len(body) + 1 /\ cut + 1 \in 1 .. Len(body) + 1
        /\ Len(body) \in 0 .. Len(body)
    BY <1>1
  <2> QED BY <2>1, Part
<1> HIDE DEF x, y
<1>3. f \in Lines /\ g \in Lines
  <2>1. 0 \in 0 .. 6 /\ "text" \in LineKinds BY DEF LineKinds
  <2> QED BY <1>2, <2>1, MarkLines
<1>4. Repair(body) = <<MathFence, f, MathFence, Blank, g>>
  BY DEF Repair, cut, x, y
<1> HIDE DEF f, g
<1>5. MathFence \in Lines /\ Blank \in Lines
  BY MarkLines
<1> DEFINE mf == MathFence  bl == Blank
<1>6. mf \in Lines /\ bl \in Lines
  BY <1>5
<1> HIDE DEF mf, bl
<1>7. <<mf, f, mf, bl, g>> \in Seq(Lines)
  BY <1>3, <1>6
<1> QED BY <1>4, <1>7 DEF mf, bl

\* Past each formula that is taken up, and on by one line from the rest.
LEMMA Passing ==
    ASSUME NEW ls \in Seq(Lines), NEW S, \A i \in 1 .. Len(ls) : i \in S => Close(ls, i) <= Len(ls),
           NEW J, J = [i \in 1 .. Len(ls) |-> IF i \in S THEN Close(ls, i) + 1 ELSE i + 1]
    PROVE  /\ Len(ls) \in Nat /\ J \in [1 .. Len(ls) -> 1 .. Len(ls) + 1]
           /\ \A i \in 1 .. Len(ls) : J[i] > i
<1> DEFINE N == Len(ls)
<1>1. N \in Nat
  BY InSequence
<1>2. \A i \in 1 .. N : i \in S => Close(ls, i) \in i + 1 .. N
  BY ClosingMark
<1>3. \A i \in 1 .. N : J[i] \in i + 1 .. N + 1
  BY <1>1, <1>2
<1>4. \A i \in 1 .. N : J[i] \in 1 .. N + 1 /\ J[i] > i
  BY <1>1, <1>3
<1> QED BY <1>1, <1>4

LEMMA MendingTypes ==
    ASSUME NEW ls \in Seq(Lines)
    PROVE  /\ Len(ls) \in Nat /\ Past(ls) \in [1 .. Len(ls) -> 1 .. Len(ls) + 1]
           /\ \A i \in 1 .. Len(ls) : Past(ls)[i] > i
           /\ Mendings(ls) \in [1 .. Len(ls) -> Seq(Lines)]
<1> DEFINE N == Len(ls)  S == {i \in 1 .. N : Opens(ls, i)}
<1>1. \A i \in 1 .. N : i \in S => Close(ls, i) <= N
  BY DEF Opens
<1>2. Past(ls) = [i \in 1 .. N |-> IF i \in S THEN Close(ls, i) + 1 ELSE i + 1]
  BY DEF Past
<1> HIDE DEF S
<1>3. N \in Nat /\ Past(ls) \in [1 .. N -> 1 .. N + 1] /\ \A i \in 1 .. N : Past(ls)[i] > i
  BY <1>1, <1>2, Passing
<1>4. ASSUME NEW i \in 1 .. N, Opens(ls, i) PROVE Mended(ls, i) \in Seq(Lines)
  <2>1. Inside(ls, i) \in Seq(Lines) /\ SubSeq(ls, i, Close(ls, i)) \in Seq(Lines)
        /\ Enclosed(ls, i) \in Seq(Tokens)
    BY <1>4, ClosingMark DEF Opens
  <2>2. ProseAfter(Enclosed(ls, i)) # {} => Repair(Enclosed(ls, i)) \in Seq(Lines)
    BY <2>1, RepairLines
  <2> QED BY <2>1, <2>2 DEF Mended
<1>5. \A i \in 1 .. N : <<ls[i]>> \in Seq(Lines)
  BY InSequence
<1>6. Mendings(ls) \in [1 .. N -> Seq(Lines)]
  BY <1>4, <1>5 DEF Mendings
<1> QED BY <1>3, <1>6

LEMMA Mending ==
    ASSUME NEW ls \in Seq(Lines)
    PROVE  \E F : Chunks(F, Len(ls), Past(ls), Mendings(ls)) /\ F[1] = RepairDisplayMathProse(ls)
<1> DEFINE N == Len(ls)  J == Past(ls)  C == Mendings(ls)
           Eq(f) == f = [i \in 1 .. N + 1 |->
                IF i > N THEN <<>>
                ELSE IF ls[i].kind # "math" \/ InFence(ls, i) \/ Close(ls, i) > N
                     THEN <<ls[i]>> \o f[i + 1]
                ELSE (IF FalseDisplayMath(Enclosed(ls, i)) THEN SubSeq(ls, i + 1, Close(ls, i) - 1)
                      ELSE IF ProseAfter(Enclosed(ls, i)) # {} THEN Repair(Enclosed(ls, i))
                      ELSE SubSeq(ls, i, Close(ls, i))) \o f[Close(ls, i) + 1]]
           F == CHOOSE f : Eq(f)
<1>1. /\ N \in Nat /\ J \in [1 .. N -> 1 .. N + 1] /\ (\A i \in 1 .. N : J[i] > i)
      /\ C \in [1 .. N -> Seq(Lines)]
  BY MendingTypes
<1>2. \A i \in 1 .. N : /\ J[i] = IF Opens(ls, i) THEN Close(ls, i) + 1 ELSE i + 1
                        /\ C[i] = IF Opens(ls, i) THEN Mended(ls, i) ELSE <<ls[i]>>
  BY DEF Past, Mendings
<1>3. PICK f : f \in [1 .. N + 1 -> Seq(Lines)] /\ Chunks(f, N, J, C)
  <2> HIDE DEF N, J, C
  <2> QED BY <1>1, ThereAreChunks
<1> DEFINE Meets(g, i) == g[i] =
                IF i > N THEN <<>>
                ELSE IF ls[i].kind # "math" \/ InFence(ls, i) \/ Close(ls, i) > N
                     THEN <<ls[i]>> \o g[i + 1]
                ELSE (IF FalseDisplayMath(Enclosed(ls, i)) THEN SubSeq(ls, i + 1, Close(ls, i) - 1)
                      ELSE IF ProseAfter(Enclosed(ls, i)) # {} THEN Repair(Enclosed(ls, i))
                      ELSE SubSeq(ls, i, Close(ls, i))) \o g[Close(ls, i) + 1]
<1>10. \A g : Meets(g, N + 1) <=> g[N + 1] = <<>>
  BY <1>1
<1>11. ASSUME NEW g, NEW i \in 1 .. N PROVE Meets(g, i) <=> g[i] = C[i] \o g[J[i]]
  <2>1. ~(i > N) BY <1>1
  <2>2. Opens(ls, i) <=> ~(ls[i].kind # "math" \/ InFence(ls, i) \/ Close(ls, i) > N)
    <3>1. Close(ls, i) <= N <=> ~(Close(ls, i) > N)
      <4> DEFINE S == {j \in i + 1 .. N : ls[j].kind = "math"} \cup {N + 1}
      <4>1. S \subseteq Nat /\ S # {} /\ Close(ls, i) = Min(S) BY <1>1 DEF Close
      <4> HIDE DEF S
      <4>2. Close(ls, i) \in Nat BY <4>1, SmallestOf
      <4> QED BY <1>1, <4>2
    <3> QED BY <3>1 DEF Opens
  <2>3. CASE Opens(ls, i)
    <3>1. C[i] = Mended(ls, i) /\ J[i] = Close(ls, i) + 1 BY <1>2, <2>3
    <3>2. Mended(ls, i) = IF FalseDisplayMath(Enclosed(ls, i)) THEN SubSeq(ls, i + 1, Close(ls, i) - 1)
                          ELSE IF ProseAfter(Enclosed(ls, i)) # {} THEN Repair(Enclosed(ls, i))
                          ELSE SubSeq(ls, i, Close(ls, i))
      BY DEF Mended, Inside
    <3> QED BY <2>1, <2>2, <2>3, <3>1, <3>2, Zenon
  <2>4. CASE ~Opens(ls, i)
    <3>1. C[i] = <<ls[i]>> /\ J[i] = i + 1 BY <1>2, <2>4
    <3> QED BY <2>1, <2>2, <2>4, <3>1, Zenon
  <2> QED BY <2>3, <2>4
<1>4. Eq(f)
  <2>1. \A i \in 1 .. N + 1 : Meets(f, i)
    <3> HIDE DEF Meets, C, J
    <3>1. \A i \in 1 .. N + 1 : i = N + 1 \/ i \in 1 .. N BY <1>1
    <3>2. f[N + 1] = <<>> /\ \A i \in 1 .. N : f[i] = C[i] \o f[J[i]] BY <1>3 DEF Chunks
    <3> QED BY <1>10, <1>11, <3>1, <3>2
  <2> QED BY <1>3, <2>1
<1>5. Eq(F)
  <2> HIDE DEF Eq
  <2> QED BY <1>4, Zenon
<1>6. RepairDisplayMathProse(ls) = F[1]
  BY Zenon DEF RepairDisplayMathProse, N
<1>7. \A i \in 1 .. N + 1 : Meets(F, i)
  <2> HIDE DEF F
  <2> QED BY <1>5, Zenon
<1>8. Chunks(F, N, J, C)
  <2> HIDE DEF F, Meets, C, J
  <2>1. N + 1 \in 1 .. N + 1 /\ \A i \in 1 .. N : i \in 1 .. N + 1 BY <1>1
  <2> QED BY <1>7, <1>10, <1>11, <2>1 DEF Chunks
<1> QED BY <1>6, <1>8

\* A pass that writes the document in chunks, each from a place outside formulas to one.
LEMMA ChunkByChunk ==
    ASSUME NEW m, NEW n, NEW ls \in Seq(Lines), NEW w, Walk(m, ls, w), w[0].at # "math", w[Len(ls)].at # "math",
           NEW J \in [1 .. Len(ls) -> 1 .. Len(ls) + 1], \A i \in 1 .. Len(ls) : J[i] > i,
           NEW C \in [1 .. Len(ls) -> Seq(Lines)], NEW F, Chunks(F, Len(ls), J, C),
           \A i \in 1 .. Len(ls) : w[i - 1].at # "math" => /\ w[J[i] - 1].at # "math"
                                                            /\ Takes(n, C[i], w[i - 1], w[J[i] - 1])
    PROVE  F[1] \in Seq(Lines) /\ Takes(n, F[1], w[0], w[Len(ls)])
<1> DEFINE N == Len(ls)
           Sure(i) == F[i] \in Seq(Lines) /\ (w[i - 1].at # "math" => Takes(n, F[i], w[i - 1], w[N]))
           Good == {i \in 1 .. N + 1 : Sure(i)}
<1>1. N \in Nat /\ w[N] \in Readers /\ (N + 1) - 1 = N /\ 1 - 1 = 0
  BY WalkFacts
<1> HIDE DEF N
<1>2. Takes(n, <<>>, w[N], w[N]) /\ <<>> \in Seq(Lines) /\ F[N + 1] = <<>>
  BY <1>1, TakesNothing DEF Chunks, N
<1>3. N + 1 \in Good
  <2>1. N + 1 \in 1 .. N + 1 /\ w[(N + 1) - 1] = w[N] BY <1>1
  <2> QED BY <1>2, <2>1
<1>4. ASSUME NEW i \in 1 .. N, \A j \in i + 1 .. N + 1 : j \in Good PROVE i \in Good
  <2> DEFINE k == J[i]  x == C[i]  y == F[k]
  <2>1. k \in i + 1 .. N + 1 /\ i \in 1 .. N + 1 BY <1>1 DEF N
  <2>2. /\ F[i] = x \o y /\ x \in Seq(Lines) /\ y \in Seq(Lines)
        /\ w[k - 1].at # "math" => Takes(n, y, w[k - 1], w[N])
    BY <1>4, <2>1 DEF Chunks, N
  <2>3. w[i - 1].at # "math" => w[k - 1].at # "math" /\ Takes(n, x, w[i - 1], w[k - 1]) BY DEF N
  <2> HIDE DEF x, y, k
  <2>4. x \o y \in Seq(Lines) BY <2>2, Concatenated
  <2>5. w[i - 1].at # "math" => Takes(n, x \o y, w[i - 1], w[N]) BY <2>2, <2>3, TakesBoth
  <2> QED BY <2>1, <2>2, <2>4, <2>5
<1> HIDE DEF Good
<1>5. \A i \in 1 .. N + 1 : i \in Good
  BY <1>1, <1>3, <1>4, CountingDown
<1>6. 1 \in 1 .. N + 1
  BY <1>1
<1> QED BY <1>1, <1>5, <1>6 DEF Good, N

LEMMA FormulasTake ==
    ASSUME NEW m \in Manners, m.formulas, NEW ls \in Seq(Lines), NEW q, Free(q), NEW e, Free(e),
           Takes(m, ls, q, e)
    PROVE  /\ RepairDisplayMathProse(ls) \in Seq(Lines)
           /\ Takes(Repairing(m), RepairDisplayMathProse(ls), q, e)
<1> DEFINE N == Len(ls)  J == Past(ls)  C == Mendings(ls)  n == Repairing(m)
<1>1. PICK w : Walk(m, ls, w) /\ w[0] = q /\ w[N] = e
  BY DEF Takes
<1>2. PICK F : Chunks(F, N, J, C) /\ F[1] = RepairDisplayMathProse(ls)
  BY Mending
<1>3. /\ N \in Nat /\ J \in [1 .. N -> 1 .. N + 1] /\ (\A i \in 1 .. N : J[i] > i)
      /\ C \in [1 .. N -> Seq(Lines)]
  BY MendingTypes
<1>4. q \in Readers /\ q.at = "text" /\ Rested(q) /\ e.at = "text"
  BY DEF Free
<1>5. /\ \A j \in 1 .. N : ls[j] \in Lines
      /\ \A j \in 0 .. N : w[j] \in Readers /\ Rested(w[j])
      /\ \A j \in 1 .. N : j - 1 \in 0 .. N /\ j \in 0 .. N /\ Moves(m, w[j - 1], ls[j], w[j])
  BY <1>1, <1>4, WalkFacts
<1>6. \A i \in 1 .. N + 1 : InFence(ls, i) <=> w[i - 1].at = "fence"
  BY <1>1, <1>4, FenceParity
<1>7. \A i \in 1 .. N : /\ Fits(m, w[i - 1], ls[i]) /\ w[i].at = GoesTo(w[i - 1], ls[i])
                        /\ w[i - 1].at \in {"text", "fence", "math"}
  BY <1>5, MovesTo
<1>8. ASSUME NEW i \in 1 .. N, w[i - 1].at # "math"
      PROVE  w[J[i] - 1].at # "math" /\ Takes(n, C[i], w[i - 1], w[J[i] - 1])
  <2> DEFINE b == w[i - 1]  l == ls[i]  r == w[i]  c == Close(ls, i)
  <2>1. /\ i \in 1 .. N + 1 /\ b.at # "math" /\ b \in Readers /\ Rested(b)
        /\ l \in Lines /\ r \in Readers /\ Moves(m, b, l, r)
    BY <1>3, <1>5, <1>8
  <2>2. CASE Opens(ls, i)
    <3>1. b.at = "text" /\ l.kind = "math" /\ ls[i].kind = "math"
      BY <1>6, <1>7, <2>1, <2>2 DEF Opens
    <3>2. Closed(ls, w, i) BY <1>1, <1>4, <3>1, FormulaCloses
    <3>3. Anatomy(m, ls, w, i) BY <1>1, <1>4, <3>1, <3>2, FormulaRead
    <3>4. /\ c \in i + 1 .. N /\ w[c] = Said(m, b, Enclosed(ls, i)) /\ Enclosed(ls, i) \in Seq(Tokens)
          /\ ToSet(Enclosed(ls, i)) = UNION {ToSet(Inside(ls, i)[k].words) : k \in DOMAIN Inside(ls, i)}
      BY <3>2, <3>3, InsideLines DEF Closed, Anatomy
    <3>5. J[i] = c + 1 /\ C[i] = Mended(ls, i) BY <2>2 DEF Past, Mendings
    <3>6. w[J[i] - 1].at # "math" /\ w[J[i] - 1] = w[c]
      <4>1. w[c].at = b.at BY <2>1, <3>4 DEF Said, Readers
      <4>2. (c + 1) - 1 = c BY <1>3, <3>4
      <4> HIDE DEF c, b
      <4> QED BY <3>1, <3>5, <4>1, <4>2
    <3>7. CASE FalseDisplayMath(Enclosed(ls, i))
      <4>1. C[i] = Inside(ls, i) BY <3>5, <3>7 DEF Mended
      <4>2. Takes(n, Inside(ls, i), w[i - 1], w[Close(ls, i)])
        BY <2>1, <3>1, <3>2, <3>3, FalseFormula
      <4> QED BY <2>1, <3>6, <4>1, <4>2
    <3>8. CASE ~FalseDisplayMath(Enclosed(ls, i)) /\ ProseAfter(Enclosed(ls, i)) # {}
      <4> DEFINE body == Enclosed(ls, i)
      <4>1. C[i] = Repair(body) BY <3>5, <3>8 DEF Mended
      <4>2. \A t \in ToSet(body) : t.page = b.page BY <3>3, <3>4 DEF Anatomy
      <4>3. n \in Manners /\ n.formulas /\ n.formulas = m.formulas BY RepairingManner
      <4>4. Free(b) BY <2>1, <3>1 DEF Free
      <4>5. body \in Seq(Tokens) /\ ProseAfter(body) # {} BY <3>4, <3>8
      <4>7. w[c] = Said(m, b, body) BY <3>4
      <4> HIDE DEF b, n, body
      <4>6. Takes(n, Repair(body), b, Said(n, b, body)) BY <4>2, <4>3, <4>4, <4>5, RepairedFormula
      <4>8. Said(n, b, body) = Said(m, b, body) BY <4>3 DEF Said
      <4> QED BY <3>6, <4>1, <4>6, <4>7, <4>8 DEF b
    <3>9. CASE ~FalseDisplayMath(Enclosed(ls, i)) /\ ProseAfter(Enclosed(ls, i)) = {}
      <4>1. C[i] = SubSeq(ls, i, c) BY <3>5, <3>9 DEF Mended
      <4>2. GoodFormula(Enclosed(ls, i))
        <5>1. Len(Enclosed(ls, i)) \in Nat BY <3>4, InSequence
        <5> QED BY <3>9, <5>1 DEF FalseDisplayMath, GoodFormula
      <4>3. Takes(n, SubSeq(ls, i, c), b, w[c]) BY <1>1, <3>1, <3>2, <3>3, <4>2, KeptFormula
      <4> QED BY <2>1, <3>6, <4>1, <4>3
    <3> QED BY <3>7, <3>8, <3>9
  <2>3. CASE ~Opens(ls, i)
    <3>1. J[i] = i + 1 /\ C[i] = <<l>> BY <2>3 DEF Past, Mendings
    <3>2. l.kind # "math"
      <4> SUFFICES ASSUME l.kind = "math" PROVE FALSE OBVIOUS
      <4>1. b.at = "text" BY <1>7, <2>1 DEF Fits
      <4>2. Closed(ls, w, i) BY <1>1, <1>4, <4>1, FormulaCloses
      <4>3. Close(ls, i) <= N /\ ~InFence(ls, i) BY <1>3, <1>6, <2>1, <4>1, <4>2 DEF Closed
      <4> QED BY <2>3, <4>3 DEF Opens
    <3>3. w[J[i] - 1].at # "math" /\ w[J[i] - 1] = r
      <4>1. r.at # "math" BY <1>7, <2>1, <3>2 DEF GoesTo
      <4>2. (i + 1) - 1 = i BY <1>3
      <4> QED BY <3>1, <4>1, <4>2
    <3>4. Moves(n, b, l, r)
      <4> HIDE DEF b, l, r, n
      <4> QED BY <2>1, <3>2, RepairedLine DEF n
    <3>5. Takes(n, <<l>>, b, r) BY <2>1, <3>4, TakesLine
    <3> QED BY <2>1, <3>1, <3>3, <3>5
  <2> QED BY <2>2, <2>3
<1>9. F[1] \in Seq(Lines) /\ Takes(n, F[1], w[0], w[N])
  <2>1. w[0].at # "math" /\ w[N].at # "math" BY <1>1, <1>4
  <2>2. \A i \in 1 .. N : w[i - 1].at # "math" => w[J[i] - 1].at # "math" /\ Takes(n, C[i], w[i - 1], w[J[i] - 1])
    BY <1>8
  <2> HIDE DEF J, C, n
  <2> QED BY <1>1, <1>2, <1>3, <2>1, <2>2, ChunkByChunk
<1> QED BY <1>1, <1>2, <1>9

-----------------------------------------------------------------------------
(* Formulas that are left out. *)

LEMMA LeavingTypes ==
    ASSUME NEW ls \in Seq(Lines)
    PROVE  /\ Len(ls) \in Nat /\ Beyond(ls) \in [1 .. Len(ls) -> 1 .. Len(ls) + 1]
           /\ \A i \in 1 .. Len(ls) : Beyond(ls)[i] > i
           /\ Leavings(ls) \in [1 .. Len(ls) -> Seq(Lines)]
<1> DEFINE N == Len(ls)  S == {i \in 1 .. N : Drops(ls, i)}
<1>1. \A i \in 1 .. N : i \in S => Close(ls, i) <= N
  BY DEF Drops
<1>2. Beyond(ls) = [i \in 1 .. N |-> IF i \in S THEN Close(ls, i) + 1 ELSE i + 1]
  BY DEF Beyond
<1> HIDE DEF S
<1>3. N \in Nat /\ Beyond(ls) \in [1 .. N -> 1 .. N + 1] /\ \A i \in 1 .. N : Beyond(ls)[i] > i
  BY <1>1, <1>2, Passing
<1>4. \A i \in 1 .. N : <<ls[i]>> \in Seq(Lines)
  BY InSequence
<1>5. Leavings(ls) \in [1 .. N -> Seq(Lines)]
  BY <1>4 DEF Leavings
<1> QED BY <1>3, <1>5

LEMMA Leaving ==
    ASSUME NEW ls \in Seq(Lines)
    PROVE  \E F : Chunks(F, Len(ls), Beyond(ls), Leavings(ls)) /\ F[1] = WithoutFormulas(ls)
<1> DEFINE N == Len(ls)  J == Beyond(ls)  C == Leavings(ls)
           Eq(f) == f = [i \in 1 .. N + 1 |->
                IF i > N THEN <<>>
                ELSE IF ls[i].kind = "math" /\ Close(ls, i) <= N THEN f[Close(ls, i) + 1]
                ELSE <<ls[i]>> \o f[i + 1]]
           F == CHOOSE f : Eq(f)
<1>1. /\ N \in Nat /\ J \in [1 .. N -> 1 .. N + 1] /\ (\A i \in 1 .. N : J[i] > i)
      /\ C \in [1 .. N -> Seq(Lines)]
  BY LeavingTypes
<1>2. \A i \in 1 .. N : /\ J[i] = IF Drops(ls, i) THEN Close(ls, i) + 1 ELSE i + 1
                        /\ C[i] = IF Drops(ls, i) THEN <<>> ELSE <<ls[i]>>
  BY DEF Beyond, Leavings
<1>3. PICK f : f \in [1 .. N + 1 -> Seq(Lines)] /\ Chunks(f, N, J, C)
  <2> HIDE DEF N, J, C
  <2> QED BY <1>1, ThereAreChunks
<1> DEFINE Meets(g, i) == g[i] =
                IF i > N THEN <<>>
                ELSE IF ls[i].kind = "math" /\ Close(ls, i) <= N THEN g[Close(ls, i) + 1]
                ELSE <<ls[i]>> \o g[i + 1]
<1>10. \A g : Meets(g, N + 1) <=> g[N + 1] = <<>>
  BY <1>1
<1>12. \A g, i : i \in 1 .. N => (Meets(g, i) <=> g[i] = IF Drops(ls, i) THEN g[Close(ls, i) + 1]
                                                         ELSE <<ls[i]>> \o g[i + 1])
  <2>1. \A i \in 1 .. N : ~(i > N) BY <1>1
  <2> QED BY <2>1 DEF Drops
<1>13. \A i \in 1 .. N : f[J[i]] \in Seq(Lines)
  BY <1>1, <1>3
<1>14. ASSUME NEW i \in 1 .. N PROVE f[i] = IF Drops(ls, i) THEN f[Close(ls, i) + 1] ELSE <<ls[i]>> \o f[i + 1]
  <2>1. f[i] = C[i] \o f[J[i]] BY <1>3 DEF Chunks
  <2>2. CASE Drops(ls, i)
    <3> DEFINE x == f[J[i]]
    <3>1. x \in Seq(Lines) /\ C[i] = <<>> /\ x = f[Close(ls, i) + 1] /\ f[i] = C[i] \o x
      BY <1>2, <1>13, <2>1, <2>2
    <3> HIDE DEF x
    <3>2. <<>> \o x = x BY <3>1, ConcatEmptySeq
    <3> QED BY <2>2, <3>1, <3>2
  <2>3. CASE ~Drops(ls, i) BY <1>2, <2>1, <2>3
  <2> QED BY <2>2, <2>3
<1>4. Eq(f)
  <2>1. \A i \in 1 .. N + 1 : Meets(f, i)
    <3> HIDE DEF Meets, C, J
    <3>1. \A i \in 1 .. N + 1 : i = N + 1 \/ i \in 1 .. N BY <1>1
    <3>2. f[N + 1] = <<>> BY <1>3 DEF Chunks
    <3> QED BY <1>10, <1>12, <1>14, <3>1, <3>2
  <2> QED BY <1>3, <2>1
<1>5. Eq(F)
  <2> HIDE DEF Eq
  <2> QED BY <1>4, Zenon
<1>6. WithoutFormulas(ls) = F[1]
  BY Zenon DEF WithoutFormulas, N
<1>7. \A i \in 1 .. N + 1 : Meets(F, i)
  <2> HIDE DEF F
  <2> QED BY <1>5, Zenon
<1> HIDE DEF F
<1>15. F[N + 1] = <<>>
  <2> HIDE DEF Meets
  <2>1. N + 1 \in 1 .. N + 1 BY <1>1
  <2> QED BY <1>7, <1>10, <2>1
<1>16. \A i \in 1 .. N : F[i] = IF Drops(ls, i) THEN F[Close(ls, i) + 1] ELSE <<ls[i]>> \o F[i + 1]
  <2> HIDE DEF Meets
  <2>1. \A i \in 1 .. N : i \in 1 .. N + 1 BY <1>1
  <2> QED BY <1>7, <1>12, <2>1
<1>17. \A i \in 1 .. N + 1 : F[i] = f[i]
  <2> DEFINE Good == {i \in 1 .. N + 1 : F[i] = f[i]}
  <2>1. N + 1 \in Good
    <3>1. N + 1 \in 1 .. N + 1 /\ f[N + 1] = <<>> BY <1>1, <1>3 DEF Chunks
    <3> QED BY <1>15, <3>1
  <2>2. ASSUME NEW i \in 1 .. N, \A j \in i + 1 .. N + 1 : j \in Good PROVE i \in Good
    <3>1. i \in 1 .. N + 1 /\ i + 1 \in i + 1 .. N + 1 BY <1>1
    <3>2. Drops(ls, i) => Close(ls, i) + 1 \in i + 1 .. N + 1
      <4>1. Drops(ls, i) => Close(ls, i) \in i + 1 .. N BY ClosingMark DEF Drops
      <4> QED BY <1>1, <4>1
    <3> QED BY <1>14, <1>16, <2>2, <3>1, <3>2
  <2> HIDE DEF Good
  <2>3. \A i \in 1 .. N + 1 : i \in Good BY <1>1, <2>1, <2>2, CountingDown
  <2> QED BY <2>3 DEF Good
<1>8. Chunks(F, N, J, C)
  <2> HIDE DEF C, J, N
  <2>1. N + 1 \in 1 .. N + 1 /\ \A i \in 1 .. N : i \in 1 .. N + 1 /\ J[i] \in 1 .. N + 1 BY <1>1
  <2>2. f[N + 1] = <<>> /\ \A i \in 1 .. N : f[i] = C[i] \o f[J[i]] BY <1>3 DEF Chunks
  <2> QED BY <1>17, <2>1, <2>2 DEF Chunks
<1> QED BY <1>6, <1>8

LEMMA WithoutTakes ==
    ASSUME NEW m \in Manners, ~m.formulas, NEW ls \in Seq(Lines), NEW q, Free(q), NEW e, Free(e),
           Takes(m, ls, q, e)
    PROVE  WithoutFormulas(ls) \in Seq(Lines) /\ Takes(m, WithoutFormulas(ls), q, e)
<1> DEFINE N == Len(ls)  J == Beyond(ls)  C == Leavings(ls)
<1>1. PICK w : Walk(m, ls, w) /\ w[0] = q /\ w[N] = e
  BY DEF Takes
<1>2. PICK F : Chunks(F, N, J, C) /\ F[1] = WithoutFormulas(ls)
  BY Leaving
<1>3. /\ N \in Nat /\ J \in [1 .. N -> 1 .. N + 1] /\ (\A i \in 1 .. N : J[i] > i)
      /\ C \in [1 .. N -> Seq(Lines)]
  BY LeavingTypes
<1>4. q \in Readers /\ q.at = "text" /\ Rested(q) /\ e.at = "text"
  BY DEF Free
<1>5. /\ \A j \in 1 .. N : ls[j] \in Lines
      /\ \A j \in 0 .. N : w[j] \in Readers /\ Rested(w[j])
      /\ \A j \in 1 .. N : j - 1 \in 0 .. N /\ j \in 0 .. N /\ Moves(m, w[j - 1], ls[j], w[j])
  BY <1>1, <1>4, WalkFacts
<1>7. \A i \in 1 .. N : /\ Fits(m, w[i - 1], ls[i]) /\ w[i].at = GoesTo(w[i - 1], ls[i])
                        /\ w[i - 1].at \in {"text", "fence", "math"}
  BY <1>5, MovesTo
<1>8. ASSUME NEW i \in 1 .. N, w[i - 1].at # "math"
      PROVE  w[J[i] - 1].at # "math" /\ Takes(m, C[i], w[i - 1], w[J[i] - 1])
  <2> DEFINE b == w[i - 1]  l == ls[i]  r == w[i]  c == Close(ls, i)
  <2>1. /\ i \in 1 .. N + 1 /\ b.at # "math" /\ b \in Readers /\ Rested(b)
        /\ l \in Lines /\ r \in Readers /\ Moves(m, b, l, r)
    BY <1>3, <1>5, <1>8
  <2>2. l.kind = "math" => b.at = "text" /\ Closed(ls, w, i)
    <3> SUFFICES ASSUME l.kind = "math" PROVE b.at = "text" /\ Closed(ls, w, i) OBVIOUS
    <3>1. b.at = "text" BY <1>7, <2>1 DEF Fits
    <3> QED BY <1>1, <1>4, <3>1, FormulaCloses
  <2>3. CASE Drops(ls, i)
    <3>1. b.at = "text" /\ Closed(ls, w, i) /\ ls[i].kind = "math" BY <2>2, <2>3 DEF Drops
    <3>2. Anatomy(m, ls, w, i) BY <1>1, <1>4, <3>1, FormulaRead
    <3>3. c \in i + 1 .. N /\ w[c] = Said(m, b, Enclosed(ls, i)) BY <3>1, <3>2 DEF Closed, Anatomy
    <3>4. J[i] = c + 1 /\ C[i] = <<>> BY <2>3 DEF Beyond, Leavings
    <3>5. w[c] = b
      <4>1. b = [b EXCEPT !.said = b.said] BY <2>1 DEF Readers
      <4> HIDE DEF b, c
      <4> QED BY <3>3, <4>1 DEF Said
    <3>6. w[J[i] - 1].at # "math" /\ w[J[i] - 1] = b
      <4>1. (c + 1) - 1 = c BY <1>3, <3>3
      <4> HIDE DEF c, b
      <4> QED BY <3>1, <3>4, <3>5, <4>1
    <3>7. Takes(m, <<>>, b, b) BY <2>1, TakesNothing
    <3> QED BY <2>1, <3>4, <3>6, <3>7
  <2>4. CASE ~Drops(ls, i)
    <3>1. J[i] = i + 1 /\ C[i] = <<l>> BY <2>4 DEF Beyond, Leavings
    <3>2. l.kind # "math"
      <4> SUFFICES ASSUME l.kind = "math" PROVE FALSE OBVIOUS
      <4>1. Close(ls, i) <= N BY <1>3, <2>2 DEF Closed
      <4> QED BY <2>4, <4>1 DEF Drops
    <3>3. w[J[i] - 1].at # "math" /\ w[J[i] - 1] = r
      <4>1. r.at # "math" BY <1>7, <2>1, <3>2 DEF GoesTo
      <4>2. (i + 1) - 1 = i BY <1>3
      <4> QED BY <3>1, <4>1, <4>2
    <3>5. Takes(m, <<l>>, b, r) BY <2>1, TakesLine
    <3> QED BY <2>1, <3>1, <3>3, <3>5
  <2> QED BY <2>3, <2>4
<1>9. F[1] \in Seq(Lines) /\ Takes(m, F[1], w[0], w[N])
  <2>1. w[0].at # "math" /\ w[N].at # "math" BY <1>1, <1>4
  <2> HIDE DEF J, C
  <2> QED BY <1>1, <1>2, <1>3, <1>8, <2>1, ChunkByChunk
<1> QED BY <1>1, <1>2, <1>9

-----------------------------------------------------------------------------
(* The inductive invariant *)

LEMMA SourceOf ==
    ASSUME given \in [Pages -> Sources], NEW p \in Pages
    PROVE  /\ given[p] \in Readings /\ p \in Int
           /\ \A i \in DOMAIN given[p].entries :
                 LET e == given[p].entries[i]
                 IN  /\ IsText(e) /\ (given[p].from = "worker" \/ IsHeading(e)) => Len(e.lines) = 1
                     /\ given[p].from = "worker" => e.kind \notin {"diagram", "code"}
<1>1. given[p] \in Sources /\ given[p] \in Readings /\ p \in Int
  BY DocumentAssumption DEF Pages
<1>2. ASSUME NEW i \in DOMAIN given[p].entries
      PROVE  /\ IsText(given[p].entries[i]) /\ (given[p].from = "worker" \/ IsHeading(given[p].entries[i]))
                   => Len(given[p].entries[i].lines) = 1
             /\ given[p].from = "worker" => given[p].entries[i].kind \notin {"diagram", "code"}
  <2>1. given[p].entries[i] \in ToSet(given[p].entries) BY DEF ToSet
  <2> QED BY <1>1, <2>1, DocumentAssumption
<1> QED BY <1>1, <1>2

LEMMA PresentPages == From("worker") \subseteq Present /\ Present \subseteq Pages
BY DEF From, Present

LEMMA TextInit == Init => TextInv
<1> SUFFICES ASSUME Init PROVE TextInv OBVIOUS
<1>1. /\ given \in [Pages -> Sources] /\ opts \in Settings
      /\ todo = From("worker") /\ stage = IF todo = {} THEN "ir" ELSE "order"
      /\ entries = [p \in Pages |-> TaggedEntries(given[p], p)] /\ pages = <<>>
  BY DEF Init
<1>2. ASSUME NEW p \in Pages
      PROVE  /\ entries[p] = TaggedEntries(given[p], p) /\ entries[p] \in Seq(Entries)
             /\ given[p].from = "worker" => Proper(entries[p], p)
             /\ \A e \in ToSet(entries[p]) : Read(e, p)
             /\ \A i \in DOMAIN given[p].entries : \A k \in DOMAIN given[p].entries[i].lines :
                   \E e \in ToSet(entries[p]) : \E line \in ToSet(e.lines) :
                      Reads(given[p].entries[i].lines[k], line)
  <2>1. entries[p] = TaggedEntries(given[p], p) BY <1>1
  <2>2. given[p] \in Readings /\ p \in Int BY <1>1, SourceOf
  <2>3. TaggedEntries(given[p], p) \in Seq(Entries) BY <2>2, TaggedPage
  <2>4. /\ given[p].from = "worker" => Proper(TaggedEntries(given[p], p), p)
        /\ \A e \in ToSet(TaggedEntries(given[p], p)) : Read(e, p)
    BY <1>1, <2>2, SourceOf, ProperAtFirst
  <2>5. \A i \in DOMAIN given[p].entries : \A k \in DOMAIN given[p].entries[i].lines :
           \E e \in ToSet(TaggedEntries(given[p], p)) : \E line \in ToSet(e.lines) :
              Reads(given[p].entries[i].lines[k], line)
    BY <2>2, ReadAtFirst
  <2> QED BY <2>1, <2>3, <2>4, <2>5
<1>3. TypesHold
  <2>1. entries \in [Pages -> Seq(Entries)] BY <1>1, <1>2
  <2>2. pages \in Seq(PageIRs) /\ stage \in Stages BY <1>1 DEF Stages
  <2> QED BY <1>1, <2>1, <2>2 DEF TypesHold
<1>4. PassesCanRun
  <2>1. \A p \in From("worker") : p \in Pages /\ given[p].from = "worker" BY DEF From
  <2> QED BY <1>1, <1>2, <2>1 DEF PassesCanRun, EntryStages
<1>5. PagesAreThere
  BY <1>1 DEF PagesAreThere, EntryStages
<1>6. LinesAreStillRead
  BY <1>2, PresentPages DEF LinesAreStillRead
<1>7. NothingMissingPasses
  BY <1>1 DEF NothingMissingPasses
<1> QED BY <1>3, <1>4, <1>5, <1>6, <1>7 DEF TextInv

\* What a pass over the entries of a page must keep.
LEMMA EntryPass ==
    ASSUME TextInv, stage \in EntryStages, stage' \in EntryStages \cup {"ir"},
           UNCHANGED <<given, opts, pages>>, todo' \subseteq todo,
           stage' \in EntryStages => todo' # {},
           NEW made, entries' = [entries EXCEPT ![Turn] = made],
           Proper(entries[Turn], Turn) => Proper(made, Turn) /\ Carried(entries[Turn], made)
    PROVE  TextInv'
<1>1. /\ given' = given /\ opts' = opts /\ pages' = pages
      /\ Present' = Present /\ From("worker")' = From("worker")
  BY DEF Present, From
<1>2. /\ TypesHold /\ PassesCanRun /\ PagesAreThere /\ LinesAreStillRead
  BY DEF TextInv
<1>3. Turn \in todo /\ Turn \in From("worker") /\ Turn \in Pages
  <2>1. todo # {} /\ todo \subseteq From("worker") /\ From("worker") \subseteq Pages
    BY <1>2, PresentPages DEF PassesCanRun
  <2>2. todo \subseteq Nat BY <2>1 DEF Pages
  <2> QED BY <2>1, <2>2, SmallestOf DEF Turn
<1>4. Proper(entries[Turn], Turn) /\ Proper(made, Turn) /\ Carried(entries[Turn], made)
  BY <1>2, <1>3 DEF PassesCanRun
<1>5. made \in Seq(Entries) /\ entries[Turn] \in Seq(Entries)
  BY <1>4 DEF Proper
<1> HIDE DEF Turn
<1>6. /\ entries \in [Pages -> Seq(Entries)] /\ entries' \in [Pages -> Seq(Entries)]
      /\ \A p \in Pages : entries'[p] = IF p = Turn THEN made ELSE entries[p]
  BY <1>2, <1>3, <1>5 DEF TypesHold
<1>7. TypesHold'
  <2>1. stage' \in Stages BY DEF EntryStages, Stages
  <2> QED BY <1>1, <1>2, <1>6, <2>1 DEF TypesHold, Pages
<1>8. PassesCanRun'
  <2>1. \A p \in From("worker") : Proper(entries'[p], p)
    <3>1. From("worker") \subseteq Pages BY PresentPages
    <3>2. \A p \in From("worker") : Proper(entries[p], p) BY <1>2 DEF PassesCanRun
    <3> QED BY <1>4, <1>6, <3>1, <3>2
  <2>2. stage' # "apply" BY DEF EntryStages
  <2>3. todo' \subseteq From("worker") BY <1>2 DEF PassesCanRun
  <2>4. \A p \in From("worker")' : Proper(entries[p], p)' BY <1>1, <2>1 DEF Proper, Fine, OnPage
  <2>5. \A e \in ToSet(made) : Read(e, Turn) BY <1>4 DEF Proper, Fine, Read
  <2>6. \A p \in Pages : \A e \in ToSet(entries'[p]) : Read(e, p)
    BY <1>2, <1>6, <2>5 DEF PassesCanRun
  <2>7. \A p \in Pages' : \A e \in ToSet(entries'[p]) : Read(e, p) BY <2>6 DEF Pages
  <2> QED BY <1>1, <2>2, <2>3, <2>4, <2>7 DEF PassesCanRun, EntryStages, Read, OnPage
<1>9. PagesAreThere'
  BY <1>1, <1>2 DEF PagesAreThere, EntryStages, Read, OnPage
<1>10. LinesAreStillRead'
  <2> SUFFICES ASSUME NEW p \in Present, NEW i \in DOMAIN given[p].entries,
                      NEW k \in DOMAIN given[p].entries[i].lines
               PROVE  \E e \in ToSet(entries'[p]) : \E line \in ToSet(e.lines) :
                         Reads(given[p].entries[i].lines[k], line)
    BY <1>1 DEF LinesAreStillRead
  <2>1. /\ p \in Pages
        /\ \E e \in ToSet(entries[p]) : \E line \in ToSet(e.lines) :
              Reads(given[p].entries[i].lines[k], line)
    BY <1>2, PresentPages DEF LinesAreStillRead
  <2>2. given[p].entries[i].lines[k] \in Seq(STRING)
    <3>1. given[p] \in Readings /\ p \in Int BY <1>2, <2>1, SourceOf DEF TypesHold
    <3> QED BY <3>1, ReadAtFirst
  <2>3. CASE p = Turn
    <3>1. \E e \in ToSet(made) : \E line \in ToSet(e.lines) : Reads(given[p].entries[i].lines[k], line)
      BY <1>4, <1>5, <2>1, <2>2, <2>3, ReadOn
    <3> QED BY <1>6, <2>1, <2>3, <3>1
  <2>4. CASE p # Turn BY <1>6, <2>1, <2>4
  <2> QED BY <2>3, <2>4
<1>11. NothingMissingPasses'
  BY DEF NothingMissingPasses, EntryStages
<1> QED BY <1>7, <1>8, <1>9, <1>10, <1>11 DEF TextInv

\* The passes that do not touch what the invariant speaks of.
LEMMA LaterPass ==
    ASSUME TextInv, stage \notin EntryStages \cup {"ir"},
           stage' \in Stages \ (EntryStages \cup {"ir", "apply", "done"}),
           UNCHANGED <<given, opts, todo, entries, pages>>
    PROVE  TextInv'
<1>1. /\ given' = given /\ opts' = opts /\ todo' = todo /\ entries' = entries /\ pages' = pages
      /\ Present' = Present /\ From("worker")' = From("worker")
  BY DEF Present, From
<1>2. TypesHold /\ PassesCanRun /\ PagesAreThere /\ LinesAreStillRead
  BY DEF TextInv
<1>3. TypesHold'
  BY <1>1, <1>2 DEF TypesHold, Pages
<1>4. PassesCanRun'
  BY <1>1, <1>2 DEF PassesCanRun, Pages
<1>5. PagesAreThere'
  BY <1>1, <1>2 DEF PagesAreThere
<1>6. LinesAreStillRead'
  BY <1>1, <1>2 DEF LinesAreStillRead
<1>7. NothingMissingPasses'
  BY DEF NothingMissingPasses
<1> QED BY <1>3, <1>4, <1>5, <1>6, <1>7 DEF TextInv

LEMMA IRStep ==
    ASSUME TextInv, DocumentIRFromPages
    PROVE  TextInv'
<1> DEFINE order == InOrder(Present)
           made == [i \in DOMAIN order |-> PageIR(order[i])]
<1>1. /\ given' = given /\ opts' = opts /\ todo' = todo /\ entries' = entries
      /\ stage' = "classify" /\ pages' = made
      /\ Present' = Present /\ From("worker")' = From("worker")
  BY DEF DocumentIRFromPages, Present, From
<1>2. TypesHold /\ PassesCanRun /\ LinesAreStillRead
  BY DEF TextInv
<1>3. /\ made \in Seq(PageIRs) /\ Len(made) = Cardinality(Present)
      /\ \A i \in DOMAIN made :
            /\ made[i].page \in Present /\ LinkedPage(made[i])
            /\ \A b \in ToSet(made[i].blocks) : \E e \in ToSet(entries[made[i].page]) : SameText(b, e)
            /\ \A j \in DOMAIN made : i < j => made[i].page < made[j].page
      /\ \A p \in Present : \E i \in DOMAIN made :
            /\ made[i].page = p /\ made[i].quality = given[p].quality
            /\ \A e \in ToSet(entries[p]) : \E b \in ToSet(made[i].blocks) : SameText(b, e)
  BY <1>2, MadeDocument DEF TypesHold
<1> HIDE DEF made
<1>9. ASSUME NEW i \in DOMAIN made, NEW b \in ToSet(made[i].blocks) PROVE Read(b, made[i].page)
  <2>1. PICK e \in ToSet(entries[made[i].page]) : SameText(b, e) BY <1>3
  <2>2. made[i].page \in Pages BY <1>3, PresentPages
  <2>3. Read(e, made[i].page) BY <1>2, <2>2 DEF PassesCanRun
  <2> QED BY <2>1, <2>3 DEF SameText, Read, IsText, IsHeading
<1>10. ASSUME NEW p \in Present
       PROVE  \E i \in DOMAIN made :
                 /\ made[i].page = p /\ made[i].quality = given[p].quality
                 /\ \A e \in ToSet(entries[p]) : InBlocks(e, made[i].blocks)
  BY <1>3 DEF SameText, InBlocks
<1>4. TypesHold'
  BY <1>1, <1>2, <1>3 DEF TypesHold, Pages, Stages
<1>5. PassesCanRun'
  BY <1>1, <1>2 DEF PassesCanRun, EntryStages, Pages
<1>6. PagesAreThere'
  BY <1>1, <1>3, <1>9, <1>10 DEF PagesAreThere
<1>7. LinesAreStillRead'
  BY <1>1, <1>2 DEF LinesAreStillRead
<1>8. NothingMissingPasses'
  BY <1>1 DEF NothingMissingPasses
<1> QED BY <1>4, <1>5, <1>6, <1>7, <1>8 DEF TextInv

LEMMA ClassifyStep ==
    ASSUME TextInv, Classify
    PROVE  TextInv'
<1>1. /\ given' = given /\ opts' = opts /\ todo' = todo /\ entries' = entries /\ pages' = pages
      /\ stage = "classify" /\ stage' = "apply"
      /\ decisions' = ClassifyRunningMatter(pages, opts)
      /\ Present' = Present /\ From("worker")' = From("worker")
  BY DEF Classify, Present, From
<1>2. TypesHold /\ PassesCanRun /\ PagesAreThere /\ LinesAreStillRead
  BY DEF TextInv
<1>3. TypesHold'
  BY <1>1, <1>2 DEF TypesHold, Pages, Stages
<1>4. PassesCanRun'
  BY <1>1, <1>2 DEF PassesCanRun, EntryStages, Pages
<1>5. PagesAreThere'
  BY <1>1, <1>2 DEF PagesAreThere, EntryStages
<1>6. LinesAreStillRead'
  BY <1>1, <1>2 DEF LinesAreStillRead
<1>7. NothingMissingPasses'
  BY <1>1 DEF NothingMissingPasses
<1> QED BY <1>3, <1>4, <1>5, <1>6, <1>7 DEF TextInv

\* What the decisions about the pages' edges do to each page.
LEMMA AppliedDocument ==
    ASSUME TextInv, Apply
    PROVE  /\ pages' \in Seq(PageIRs) /\ Len(pages') = Len(pages) /\ DOMAIN pages' = DOMAIN pages
           /\ \A i \in DOMAIN pages : Cleared(pages[i], pages'[i], i) /\ LinkedPage(pages'[i])
<1>1. pages \in Seq(PageIRs) /\ opts \in Options
  BY DocumentAssumption DEF TextInv, TypesHold
<1>2. Len(pages) \in Nat /\ DOMAIN pages = 1 .. Len(pages)
  BY <1>1, InSequence
<1>3. /\ decisions = ClassifyRunningMatter(pages, opts)
      /\ pages' = [i \in DOMAIN pages |-> ApplyToPage(pages[i], decisions[i])]
  BY DEF TextInv, PassesCanRun, Apply, ApplyRunningMatter
<1>4. ASSUME NEW i \in DOMAIN pages
      PROVE  pages'[i] \in PageIRs /\ Cleared(pages[i], pages'[i], i) /\ LinkedPage(pages'[i])
  <2> DEFINE page == pages[i]
             ds == decisions[i]
             made == ApplyToPage(page, ds)
  <2>1. ds \in Seq(Decisions(i)) BY <1>1, <1>3, ClassifiedPages
  <2>2. pages'[i] = made BY <1>3
  <2> HIDE DEF ds
  <2>3. /\ made \in PageIRs /\ Cleared(page, made, i)
        /\ (\A j, k \in DOMAIN page.blocks : page.blocks[j].id = page.blocks[k].id => j = k)
              => \A j, k \in DOMAIN made.blocks : made.blocks[j].id = made.blocks[k].id => j = k
        /\ made.relations \subseteq page.relations
        /\ (\A r \in page.relations : \E b, c \in ToSet(page.blocks) : r.from = b.id /\ r.to = c.id)
              => \A r \in made.relations : \E b, c \in ToSet(made.blocks) : r.from = b.id /\ r.to = c.id
    BY <1>1, <2>1, AppliedPage
  <2> HIDE DEF made
  <2>4. LinkedPage(page) BY DEF TextInv, PagesAreThere
  <2> HIDE DEF page
  <2>5. LinkedPage(made) BY <2>3, <2>4 DEF LinkedPage
  <2> QED BY <2>2, <2>3, <2>5 DEF page
<1> DEFINE now == pages'
<1>5. DOMAIN now = 1 .. Len(pages) /\ now = [i \in 1 .. Len(pages) |-> now[i]]
  BY <1>2, <1>3
<1>6. \A i \in 1 .. Len(pages) : now[i] \in PageIRs
  BY <1>2, <1>4
<1> HIDE DEF now
<1>7. now \in Seq(PageIRs) /\ Len(now) = Len(pages)
  BY <1>2, <1>5, <1>6
<1> QED BY <1>2, <1>4, <1>5, <1>7 DEF now

LEMMA ApplyStep ==
    ASSUME TextInv, Apply
    PROVE  TextInv'
<1>1. /\ given' = given /\ opts' = opts /\ todo' = todo /\ entries' = entries
      /\ stage = "apply" /\ stage' = "write"
      /\ Present' = Present /\ From("worker")' = From("worker")
  BY DEF Apply, Present, From
<1>2. TypesHold /\ PassesCanRun /\ PagesAreThere /\ LinesAreStillRead
  BY DEF TextInv
<1>3. /\ pages' \in Seq(PageIRs) /\ Len(pages') = Len(pages) /\ DOMAIN pages' = DOMAIN pages
      /\ \A i \in DOMAIN pages :
            /\ pages'[i].page = pages[i].page /\ pages'[i].quality = pages[i].quality
            /\ LinkedPage(pages'[i])
            /\ \A c \in ToSet(pages'[i].blocks) : \E b \in ToSet(pages[i].blocks) : LeftOf(b, c)
            /\ \A b \in ToSet(pages[i].blocks) :
                  ~Editable(b) /\ b.lines # <<>> => b \in ToSet(pages'[i].blocks)
  BY AppliedDocument DEF Cleared
<1>4. TypesHold'
  BY <1>1, <1>2, <1>3 DEF TypesHold, Pages, Stages
<1>5. PassesCanRun'
  BY <1>1, <1>2 DEF PassesCanRun, EntryStages, Pages
<1>6. PagesAreThere'
  <2>1. /\ \A i \in DOMAIN pages :
              /\ pages[i].page \in Present
              /\ \A b \in ToSet(pages[i].blocks) : Read(b, pages[i].page)
              /\ \A j \in DOMAIN pages : i < j => pages[i].page < pages[j].page
        /\ Len(pages) = Cardinality(Present)
        /\ \A p \in Present : \E i \in DOMAIN pages :
              /\ pages[i].page = p /\ pages[i].quality = given[p].quality
              /\ given[p].from = "worker" => \A e \in ToSet(entries[p]) : InBlocks(e, pages[i].blocks)
    BY <1>1, <1>2 DEF PagesAreThere, EntryStages
  <2>2. \A i \in DOMAIN pages' : pages'[i].page \in Present /\ LinkedPage(pages'[i]) BY <1>3, <2>1
  <2>3. Len(pages') = Cardinality(Present) BY <1>3, <2>1
  <2>6. ASSUME NEW p \in Present, given[p].from = "worker", NEW e \in ToSet(entries[p]),
               NEW i \in DOMAIN pages, InBlocks(e, pages[i].blocks)
        PROVE  InBlocks(e, pages'[i].blocks)
    <3> SUFFICES ASSUME e.kind \in {"diagram", "code"}
                 PROVE  \E b \in ToSet(pages'[i].blocks) : b.kind = e.kind /\ b.lines = e.lines
      BY DEF InBlocks
    <3>1. PICK b \in ToSet(pages[i].blocks) : b.kind = e.kind /\ b.lines = e.lines
      BY <2>6 DEF InBlocks
    <3>2. p \in From("worker") BY <2>6, PresentPages DEF From
    <3>3. Proper(entries[p], p) BY <1>2, <3>2 DEF PassesCanRun
    <3>4. e.lines # <<>> BY <3>3 DEF Proper, Fine
    <3>5. ~Editable(b) BY <3>1 DEF Editable
    <3> QED BY <1>3, <3>1, <3>4, <3>5
  <2>4. \A p \in Present : \E i \in DOMAIN pages' :
              /\ pages'[i].page = p /\ pages'[i].quality = given[p].quality
              /\ given[p].from = "worker" => \A e \in ToSet(entries[p]) : InBlocks(e, pages'[i].blocks)
    <3> SUFFICES ASSUME NEW p \in Present
                 PROVE  \E i \in DOMAIN pages' :
                           /\ pages'[i].page = p /\ pages'[i].quality = given[p].quality
                           /\ given[p].from = "worker" =>
                                 \A e \in ToSet(entries[p]) : InBlocks(e, pages'[i].blocks)
      OBVIOUS
    <3>1. PICK i \in DOMAIN pages :
             /\ pages[i].page = p /\ pages[i].quality = given[p].quality
             /\ given[p].from = "worker" => \A e \in ToSet(entries[p]) : InBlocks(e, pages[i].blocks)
      BY <2>1
    <3>2. given[p].from = "worker" => \A e \in ToSet(entries[p]) : InBlocks(e, pages'[i].blocks)
      BY <2>6, <3>1
    <3> QED BY <1>3, <3>1, <3>2
  <2>5. \A i \in DOMAIN pages' : LinkedPage(pages[i])' BY <2>2 DEF LinkedPage
  <2>7. ASSUME NEW i \in DOMAIN pages, NEW c \in ToSet(pages'[i].blocks) PROVE Read(c, pages'[i].page)
    <3>1. PICK b \in ToSet(pages[i].blocks) : LeftOf(b, c) BY <1>3
    <3>2. Read(b, pages[i].page) BY <2>1
    <3>3. pages'[i].page = pages[i].page BY <1>3
    <3> QED BY <3>1, <3>2, <3>3 DEF LeftOf, Read, OnPage, IsText, IsHeading
  <2>8. \A i \in DOMAIN pages' :
           /\ \A b \in ToSet(pages'[i].blocks) : Read(b, pages'[i].page)
           /\ \A j \in DOMAIN pages' : i < j => pages'[i].page < pages'[j].page
    BY <1>3, <2>1, <2>7
  <2> QED BY <1>1, <2>2, <2>3, <2>4, <2>5, <2>8 DEF PagesAreThere
<1>7. LinesAreStillRead'
  BY <1>1, <1>2 DEF LinesAreStillRead
<1>8. NothingMissingPasses'
  BY <1>1 DEF NothingMissingPasses
<1> QED BY <1>4, <1>5, <1>6, <1>7, <1>8 DEF TextInv

\* The audit has an error for every document that is not whole.
LEMMA AuditTells ==
    ASSUME TextInv, stage = "audit", NEW failed, NEW source,
           Present # Pages \/ \E p \in Present : given[p].quality.unsaved
    PROVE  AuditStatus(QualityAudit(pages, failed, PageCount, source)) = "needs-review"
<1> DEFINE found == QualityAudit(pages, failed, PageCount, source)
<1> SUFFICES \E i \in found : i.severity = "error"
  BY DEF AuditStatus
<1>1. /\ Len(pages) = Cardinality(Present)
      /\ \A p \in Present : \E i \in DOMAIN pages :
            pages[i].page = p /\ pages[i].quality = given[p].quality
  BY DEF TextInv, PagesAreThere, EntryStages
<1>2. CASE \E p \in Present : given[p].quality.unsaved
  <2>1. \E i \in DOMAIN pages : pages[i].quality.unsaved BY <1>1, <1>2
  <2>2. Issue("SOURCE_EVIDENCE_MISSING", "error") \in found BY <2>1 DEF QualityAudit, When
  <2> QED BY <2>2 DEF Issue
<1>3. CASE Present # Pages
  <2>1. PageCount \in Nat /\ Pages = 1 .. PageCount /\ Present \in SUBSET Pages
    BY DocumentAssumption, PresentPages DEF Pages
  <2>2. IsFiniteSet(Pages) /\ Cardinality(Pages) = PageCount BY <2>1, FS_Interval
  <2>3. IsFiniteSet(Present) /\ Cardinality(Present) <= PageCount /\ Cardinality(Present) # PageCount
    BY <1>3, <2>1, <2>2, FS_Subset
  <2>4. Cardinality(Present) \in Nat BY <2>3, FS_CardinalityType
  <2>5. PageCount > Len(pages) BY <1>1, <2>1, <2>3, <2>4
  <2>6. CASE failed = {}
    <3>1. Issue("INCOMPLETE_DOCUMENT", "error") \in found BY <2>5, <2>6 DEF QualityAudit, When
    <3> QED BY <3>1 DEF Issue
  <2>7. CASE failed # {}
    <3>1. Issue("PAGE_EXTRACTION_ERRORS", "error") \in found BY <2>7 DEF QualityAudit, When
    <3> QED BY <3>1 DEF Issue
  <2> QED BY <2>6, <2>7
<1> QED BY <1>2, <1>3

LEMMA AuditStep ==
    ASSUME TextInv, Audit
    PROVE  TextInv'
<1>1. /\ given' = given /\ opts' = opts /\ todo' = todo /\ entries' = entries /\ pages' = pages
      /\ stage = "audit" /\ stage' = "done"
      /\ Present' = Present /\ From("worker")' = From("worker") /\ Pages' = Pages
  BY DEF Audit, Present, From, Pages
<1>2. TypesHold /\ PassesCanRun /\ PagesAreThere /\ LinesAreStillRead
  BY DEF TextInv
<1>3. TypesHold'
  BY <1>1, <1>2 DEF TypesHold, Pages, Stages
<1>4. PassesCanRun'
  BY <1>1, <1>2 DEF PassesCanRun, EntryStages, Pages
<1>5. PagesAreThere'
  BY <1>1, <1>2 DEF PagesAreThere, EntryStages
<1>6. LinesAreStillRead'
  BY <1>1, <1>2 DEF LinesAreStillRead
<1>7. NothingMissingPasses'
  <2> DEFINE failed == {p \in Pages : given[p].failed}
             source == IF opts.partial THEN PageCount + 1 ELSE PageCount
  <2>1. issues' = QualityAudit(pages, failed, PageCount, source) BY DEF Audit
  <2> HIDE DEF failed, source
  <2>2. Present # Pages \/ (\E p \in Present : given[p].quality.unsaved)
          => AuditStatus(issues') = "needs-review"
    BY <1>1, <2>1, AuditTells
  <2> QED BY <1>1, <2>2 DEF NothingMissingPasses, AuditStatus
<1> QED BY <1>3, <1>4, <1>5, <1>6, <1>7 DEF TextInv

LEMMA OrderStep ==
    ASSUME TextInv, Order
    PROVE  TextInv'
<1>1. /\ stage = "order" /\ stage' = "headings"
      /\ entries' = [entries EXCEPT ![Turn] = OrderEntries(entries[Turn], opts.flows)]
      /\ UNCHANGED <<given, opts, pages>> /\ todo' = todo
  BY DEF Order, PagePass
<1>2. opts.flows \in BOOLEAN /\ (stage \in EntryStages => todo # {})
  BY DocumentAssumption DEF TextInv, TypesHold, PassesCanRun, Options
<1>3. stage \in EntryStages /\ stage' \in EntryStages
  BY <1>1 DEF EntryStages
<1>4. Proper(entries[Turn], Turn) => /\ Proper(OrderEntries(entries[Turn], opts.flows), Turn)
                               /\ Carried(entries[Turn], OrderEntries(entries[Turn], opts.flows))
  BY <1>2, OrderKeeps
<1> QED BY <1>1, <1>2, <1>3, <1>4, EntryPass

LEMMA PassStep ==
    ASSUME TextInv, NEW now \in EntryStages, NEW next \in EntryStages, NEW made,
           PagePass(now, next, made),
           Proper(entries[Turn], Turn) => Proper(made, Turn) /\ Carried(entries[Turn], made)
    PROVE  TextInv'
<1>1. /\ stage \in EntryStages /\ stage' \in EntryStages
      /\ entries' = [entries EXCEPT ![Turn] = made]
      /\ UNCHANGED <<given, opts, pages>> /\ todo' = todo
  BY DEF PagePass
<1>2. stage \in EntryStages => todo # {}
  BY DEF TextInv, PassesCanRun
<1> QED BY <1>1, <1>2, EntryPass

LEMMA EquationsStep ==
    ASSUME TextInv, Equations
    PROVE  TextInv'
<1> DEFINE made == DedupeNearbyEquationEntries(entries[Turn])
<1>1. /\ stage = "equations" /\ stage' = IF todo' = {} THEN "ir" ELSE "order"
      /\ entries' = [entries EXCEPT ![Turn] = made]
      /\ UNCHANGED <<given, opts, pages>> /\ todo' \subseteq todo
  BY DEF Equations
<1>2. /\ stage \in EntryStages /\ stage' \in EntryStages \cup {"ir"}
      /\ stage' \in EntryStages => todo' # {}
  BY <1>1 DEF EntryStages
<1>3. Proper(entries[Turn], Turn) => Proper(made, Turn) /\ Carried(entries[Turn], made)
  BY DedupeKeeps
<1> HIDE DEF made
<1> QED BY <1>1, <1>2, <1>3, EntryPass

LEMMA TextStep == TextInv /\ [Next]_vars => TextInv'
<1> SUFFICES ASSUME TextInv, [Next]_vars PROVE TextInv' OBVIOUS
<1>1. CASE Order
  BY <1>1, OrderStep
<1>2. CASE Headings
  <2>1. Proper(entries[Turn], Turn) => /\ Proper(MergeWrappedHeadingEntries(entries[Turn]), Turn)
                                 /\ Carried(entries[Turn], MergeWrappedHeadingEntries(entries[Turn]))
    BY HeadingsKeep
  <2>2. PagePass("headings", "diagrams", MergeWrappedHeadingEntries(entries[Turn]))
    BY <1>2 DEF Headings
  <2>3. "headings" \in EntryStages /\ "diagrams" \in EntryStages BY DEF EntryStages
  <2> QED BY <2>1, <2>2, <2>3, PassStep
<1>3. CASE Diagrams
  <2>1. Proper(entries[Turn], Turn) => /\ Proper(MergeDiagramEntries(entries[Turn]), Turn)
                                 /\ Carried(entries[Turn], MergeDiagramEntries(entries[Turn]))
    BY DiagramsKeep
  <2>2. PagePass("diagrams", "code", MergeDiagramEntries(entries[Turn])) BY <1>3 DEF Diagrams
  <2>3. "code" \in EntryStages /\ "diagrams" \in EntryStages BY DEF EntryStages
  <2> QED BY <2>1, <2>2, <2>3, PassStep
<1>4. CASE Code
  <2>1. Proper(entries[Turn], Turn) => /\ Proper(MergeCodeEntries(entries[Turn]), Turn)
                                 /\ Carried(entries[Turn], MergeCodeEntries(entries[Turn]))
    BY CodeKeeps
  <2>2. PagePass("code", "equations", MergeCodeEntries(entries[Turn])) BY <1>4 DEF Code
  <2>3. "code" \in EntryStages /\ "equations" \in EntryStages BY DEF EntryStages
  <2> QED BY <2>1, <2>2, <2>3, PassStep
<1>5. CASE Equations
  BY <1>5, EquationsStep
<1>6. CASE DocumentIRFromPages
  BY <1>6, IRStep
<1>7. CASE Classify
  BY <1>7, ClassifyStep
<1>8. CASE Apply
  BY <1>8, ApplyStep
<1>9. CASE Write \/ Hierarchy \/ Paragraphs \/ Hyphens \/ Formulas
  <2>1. /\ stage \in {"write", "hierarchy", "paragraphs", "hyphens", "formulas"}
        /\ stage' \in {"hierarchy", "paragraphs", "hyphens", "formulas", "audit"}
        /\ UNCHANGED <<given, opts, todo, entries, pages>>
    BY <1>9 DEF Write, Hierarchy, Paragraphs, Hyphens, Formulas, LinePass
  <2>2. /\ stage \notin EntryStages \cup {"ir"}
        /\ stage' \in Stages \ (EntryStages \cup {"ir", "apply", "done"})
    BY <2>1 DEF EntryStages, Stages
  <2> QED BY <2>1, <2>2, LaterPass
<1>10. CASE Audit
  BY <1>10, AuditStep
<1>11. CASE UNCHANGED vars
  <2>1. /\ given' = given /\ opts' = opts /\ todo' = todo /\ entries' = entries /\ pages' = pages
        /\ stage' = stage /\ decisions' = decisions /\ issues' = issues
        /\ Present' = Present /\ From("worker")' = From("worker") /\ Pages' = Pages
    BY <1>11 DEF vars, Present, From, Pages
  <2>2. TypesHold' BY <2>1 DEF TextInv, TypesHold
  <2>3. PassesCanRun' BY <2>1 DEF TextInv, PassesCanRun
  <2>4. PagesAreThere' BY <2>1 DEF TextInv, PagesAreThere
  <2>5. LinesAreStillRead' BY <2>1 DEF TextInv, LinesAreStillRead
  <2>6. NothingMissingPasses' BY <2>1 DEF TextInv, NothingMissingPasses
  <2> QED BY <2>2, <2>3, <2>4, <2>5, <2>6 DEF TextInv
<1>12. CASE Done
  BY <1>11, <1>12 DEF Done
<1> QED BY <1>1, <1>2, <1>3, <1>4, <1>5, <1>6, <1>7, <1>8, <1>9, <1>10, <1>11, <1>12 DEF Next

-----------------------------------------------------------------------------
(* The passes over the lines. *)

LEMMA MannerFields ==
    ASSUME NEW o \in Options, NEW now
    PROVE  /\ Manner(o, now) \in Manners /\ Manner(o, now).formulas = o.extractEquations
           /\ Manner(o, now).detect = o.detectHeadings
           /\ Manner(o, now).ordered = (o.detectHeadings /\ now # "hierarchy")
           /\ Manner(o, now).repaired = (o.extractEquations /\ now \in {"audit", "done"})
<1>1. o.extractEquations \in BOOLEAN /\ o.detectHeadings \in BOOLEAN
  BY DEF Options
<1> QED BY <1>1 DEF Manner, Manners

LEMMA SameManner ==
    ASSUME NEW m \in Manners, NEW n \in Manners, m.formulas = n.formulas, m.detect = n.detect,
           m.ordered = n.ordered, m.repaired = n.repaired
    PROVE  m = n
BY DEF Manners

LEMMA MannersOfPasses ==
    ASSUME NEW o \in Options
    PROVE  /\ Raw(Manner(o, "hierarchy"))
           /\ o.detectHeadings => Manner(o, "paragraphs") = InOrdered(Manner(o, "hierarchy"))
           /\ ~o.detectHeadings => Manner(o, "paragraphs") = Manner(o, "hierarchy")
           /\ Manner(o, "hyphens") = Manner(o, "paragraphs")
           /\ Manner(o, "formulas") = Manner(o, "hyphens")
           /\ o.extractEquations => Manner(o, "audit") = Repairing(Manner(o, "formulas"))
           /\ ~o.extractEquations => Manner(o, "audit") = Manner(o, "formulas")
           /\ Manner(o, "done") = Manner(o, "audit")
<1>1. o.extractEquations \in BOOLEAN /\ o.detectHeadings \in BOOLEAN
  BY DEF Options
<1>2. Raw(Manner(o, "hierarchy"))
  BY MannerFields DEF Raw
<1>3. o.detectHeadings => Manner(o, "paragraphs") = InOrdered(Manner(o, "hierarchy"))
  <2> DEFINE m == Manner(o, "paragraphs")  n == InOrdered(Manner(o, "hierarchy"))
  <2>5. Manner(o, "hierarchy") \in Manners /\ m \in Manners BY MannerFields
  <2>1. m \in Manners /\ n \in Manners BY <2>5, OrderedManner
  <2>8. n.ordered = TRUE BY DEF InOrdered, Manner
  <2>2. o.detectHeadings => m.ordered = n.ordered BY <1>1, <2>8 DEF Manner
  <2>6. n.repaired = Manner(o, "hierarchy").repaired /\ n.formulas = Manner(o, "hierarchy").formulas
        /\ n.detect = Manner(o, "hierarchy").detect
    BY <2>5, OrderedManner
  <2>7. m.repaired = FALSE /\ Manner(o, "hierarchy").repaired = FALSE BY DEF Manner
  <2>3. m.formulas = n.formulas /\ m.detect = n.detect /\ m.repaired = n.repaired
    BY <2>6, <2>7 DEF Manner
  <2> HIDE DEF m, n
  <2>4. o.detectHeadings => m = n BY <2>1, <2>2, <2>3, SameManner
  <2> QED BY <2>4 DEF m, n
<1>4. ~o.detectHeadings => Manner(o, "paragraphs") = Manner(o, "hierarchy")
  BY <1>1 DEF Manner
<1>5. Manner(o, "hyphens") = Manner(o, "paragraphs") /\ Manner(o, "formulas") = Manner(o, "hyphens")
      /\ Manner(o, "done") = Manner(o, "audit")
  BY <1>1 DEF Manner
<1>6. o.extractEquations => Manner(o, "audit") = Repairing(Manner(o, "formulas"))
  <2> DEFINE m == Manner(o, "audit")  n == Repairing(Manner(o, "formulas"))
  <2>1. m \in Manners /\ n \in Manners BY MannerFields, RepairingManner
  <2>2. o.extractEquations => m.repaired = n.repaired BY MannerFields, RepairingManner
  <2>3. m.formulas = n.formulas /\ m.detect = n.detect /\ m.ordered = n.ordered
    BY MannerFields, RepairingManner
  <2> HIDE DEF m, n
  <2>4. o.extractEquations => m = n BY <2>1, <2>2, <2>3, SameManner
  <2> QED BY <2>4 DEF m, n
<1>7. ~o.extractEquations => Manner(o, "audit") = Manner(o, "formulas")
  BY <1>1 DEF Manner
<1> QED BY <1>2, <1>3, <1>4, <1>5, <1>6, <1>7

\* A pass that leaves a document that leads a reader to an end at which as much is known.
LEMMA ReadsOn ==
    ASSUME NEW m, NEW n, n.formulas = m.formulas, n.detect = m.detect, NEW ps, NEW preserve, NEW ls, NEW e,
           ReadsAll(m, ps, preserve, ls, e), NEW made \in Seq(Lines), NEW f, Free(f), f.marked = e.marked,
           f.said = e.said, f.titles = e.titles, f.fences = e.fences,
           NEW s \in Int, Takes(n, made, Start(s), f)
    PROVE  CanBeRead(n, ps, preserve, made)
<1>1. /\ e.marked = IF preserve THEN {ps[k].page : k \in DOMAIN ps} ELSE {}
      /\ \A k \in DOMAIN ps : Holds(m, e, ps[k].blocks)
  BY DEF ReadsAll
<1>2. ASSUME NEW b, Held(m, e, b) PROVE Held(n, f, b)
  BY <1>2 DEF Held, ListingRead, Title
<1>3. \A k \in DOMAIN ps : Holds(n, f, ps[k].blocks)
  BY <1>1, <1>2 DEF Holds
<1>4. f.marked = IF preserve THEN {ps[k].page : k \in DOMAIN ps} ELSE {}
  BY <1>1
<1>5. ReadsAll(n, ps, preserve, made, f)
  BY <1>3, <1>4 DEF ReadsAll
<1> QED BY <1>5 DEF CanBeRead

\* A pass that leaves a document that leads every reader to the same end.
LEMMA StillReads ==
    ASSUME NEW m, NEW n, n.formulas = m.formulas, n.detect = m.detect, NEW ps, NEW preserve, NEW ls, NEW made,
           CanBeRead(m, ps, preserve, ls),
           \A q, e : ls \in Seq(Lines) /\ Free(q) /\ Free(e) /\ Takes(m, ls, q, e)
                        => made \in Seq(Lines) /\ Takes(n, made, q, e)
    PROVE  CanBeRead(n, ps, preserve, made)
<1>1. PICK e : ReadsAll(m, ps, preserve, ls, e)
  BY DEF CanBeRead
<1>2. ls \in Seq(Lines) /\ Free(e) /\ \E s \in Int : Takes(m, ls, Start(s), e)
  BY <1>1 DEF ReadsAll
<1>3. PICK s \in Int : Takes(m, ls, Start(s), e)
  BY <1>2
<1>4. Free(Start(s))
  BY AtStart
<1>5. made \in Seq(Lines) /\ Takes(n, made, Start(s), e)
  BY <1>2, <1>3, <1>4
<1> QED BY <1>1, <1>2, <1>5, ReadsOn

LEMMA WriteReads ==
    ASSUME TextInv, stage = "write"
    PROVE  CanBeRead(Manner(opts, "hierarchy"), pages, opts.preserveMarkers,
                     ToMarkdown(pages, opts.preserveMarkers))
<1> DEFINE m == Manner(opts, "hierarchy")  preserve == opts.preserveMarkers
<1>1. opts \in Options /\ pages \in Seq(PageIRs)
  BY DocumentAssumption DEF TextInv, TypesHold
<1>2. preserve \in BOOLEAN
  BY <1>1 DEF Options
<1>3. Raw(m)
  BY <1>1, MannersOfPasses
<1>4. \A k \in DOMAIN pages : /\ \A b \in ToSet(pages[k].blocks) : Read(b, pages[k].page)
                              /\ \A j \in DOMAIN pages : k < j => pages[k].page < pages[j].page
  BY DEF TextInv, PagesAreThere
<1> HIDE DEF m, preserve
<1>5. \E e : ReadsAll(m, pages, preserve, ToMarkdown(pages, preserve), e)
  BY <1>1, <1>2, <1>3, <1>4, DocumentTakes
<1> QED BY <1>5 DEF CanBeRead, m, preserve

LEMMA HierarchyReads ==
    ASSUME NEW m \in Manners, m.detect, NEW ps, NEW preserve, NEW ls, CanBeRead(m, ps, preserve, ls)
    PROVE  CanBeRead(InOrdered(m), ps, preserve, NormalizeHeadingHierarchy(ls))
<1>1. PICK e : ReadsAll(m, ps, preserve, ls, e)
  BY DEF CanBeRead
<1>2. PICK s \in Int : Takes(m, ls, Start(s), e)
  BY <1>1 DEF ReadsAll
<1>3. ls \in Seq(Lines) /\ Free(e) /\ e \in Readers
  BY <1>1 DEF ReadsAll, Free
<1>4. PICK k \in Nat : HierarchyEnd(m, ls, s, e, k)
  BY <1>2, <1>3, HierarchyTakes
<1> DEFINE f == Leveled(e, k)  n == InOrdered(m)  made == NormalizeHeadingHierarchy(ls)
<1>5. made \in Seq(Lines) /\ Takes(n, made, Start(s), f)
  BY <1>4 DEF HierarchyEnd
<1>6. /\ f \in Readers /\ f.at = e.at /\ f.body = e.body /\ f.fence = e.fence /\ f.marked = e.marked
      /\ f.said = e.said /\ f.titles = e.titles /\ f.fences = e.fences
  BY <1>3, LeveledReader DEF Alike
<1>7. n.formulas = m.formulas /\ n.detect = m.detect
  BY OrderedManner
<1> HIDE DEF f, n, made
<1>8. Free(f)
  BY <1>3, <1>6 DEF Free, Rested
<1>9. CanBeRead(n, ps, preserve, made)
  BY <1>1, <1>5, <1>6, <1>7, <1>8, ReadsOn
<1> QED BY <1>9 DEF n, made

LEMMA ParagraphsRead ==
    ASSUME NEW m, NEW ps, NEW preserve \in BOOLEAN, NEW ls, CanBeRead(m, ps, preserve, ls)
    PROVE  JoinPageParagraphs(ls, preserve) = ls
<1>1. CASE preserve
  BY <1>1 DEF JoinPageParagraphs
<1>2. CASE ~preserve
  <2>1. PICK e : ReadsAll(m, ps, preserve, ls, e) BY DEF CanBeRead
  <2>2. ls \in Seq(Lines) /\ e.marked = {} /\ \E s \in Int : Takes(m, ls, Start(s), e)
    BY <1>2, <2>1 DEF ReadsAll
  <2>3. PICK s \in Int : Takes(m, ls, Start(s), e) BY <2>2
  <2>4. \A i \in 1 .. Len(ls) : ls[i].kind # "marker" BY <2>2, <2>3, NoMarkers
  <2>5. JoinedAcrossMarkers(ls) = ls BY <2>2, <2>4, JoinsNothing
  <2> QED BY <1>2, <2>5 DEF JoinPageParagraphs
<1> QED BY <1>1, <1>2

LEMMA HyphensRead ==
    ASSUME NEW m, NEW ps, NEW preserve, NEW ls, CanBeRead(m, ps, preserve, ls)
    PROVE  CanBeRead(m, ps, preserve, RepairLineWrapHyphens(ls))
BY HyphensTake, StillReads

LEMMA FormulasRead ==
    ASSUME NEW m \in Manners, m.formulas, NEW ps, NEW preserve, NEW ls, CanBeRead(m, ps, preserve, ls)
    PROVE  CanBeRead(Repairing(m), ps, preserve, RepairDisplayMathProse(ls))
<1> DEFINE n == Repairing(m)  made == RepairDisplayMathProse(ls)
<1>1. \A q, e : ls \in Seq(Lines) /\ Free(q) /\ Free(e) /\ Takes(m, ls, q, e)
                   => made \in Seq(Lines) /\ Takes(n, made, q, e)
  BY FormulasTake
<1>2. n.formulas = m.formulas /\ n.detect = m.detect
  BY RepairingManner
<1> HIDE DEF n, made
<1>3. CanBeRead(n, ps, preserve, made)
  BY <1>1, <1>2, StillReads
<1> QED BY <1>3 DEF n, made

LEMMA WithoutReads ==
    ASSUME NEW m \in Manners, ~m.formulas, NEW ps, NEW preserve, NEW ls, CanBeRead(m, ps, preserve, ls)
    PROVE  CanBeRead(m, ps, preserve, WithoutFormulas(ls))
BY WithoutTakes, StillReads

LEMMA LinesInit == Init => LinesAreRead
BY DEF Init, LinesAreRead, LateStages

\* A pass over the lines makes of a document that can be read one that can be read.
LEMMA LinePassReads ==
    ASSUME DocumentInv, NEW now \in {"write"} \cup LateStages, NEW next \in LateStages, NEW made,
           LinePass(now, next, made),
           now # "write" /\ CanBeRead(Manner(opts, now), pages, opts.preserveMarkers, lines)
                            => CanBeRead(Manner(opts, next), pages, opts.preserveMarkers, made),
           now = "write" => CanBeRead(Manner(opts, next), pages, opts.preserveMarkers, made)
    PROVE  LinesAreRead'
<1>1. stage = now /\ stage' = next /\ lines' = made /\ opts' = opts /\ pages' = pages
  BY DEF LinePass
<1>2. now # "write" => CanBeRead(Manner(opts, now), pages, opts.preserveMarkers, lines)
  BY <1>1 DEF DocumentInv, LinesAreRead
<1>3. CanBeRead(Manner(opts, next), pages, opts.preserveMarkers, made)
  BY <1>2
<1>4. CanBeRead(Manner(opts', stage'), pages', opts'.preserveMarkers, lines')
  BY <1>1, <1>3
<1> QED BY <1>1, <1>4 DEF LinesAreRead

LEMMA LinesStep == DocumentInv /\ [Next]_vars => LinesAreRead'
<1> SUFFICES ASSUME DocumentInv, [Next]_vars PROVE LinesAreRead' OBVIOUS
<1> DEFINE keep == opts.preserveMarkers
           Good(now, ls) == CanBeRead(Manner(opts, now), pages, keep, ls)
<1>1. TextInv /\ opts \in Options /\ keep \in BOOLEAN
  BY DocumentAssumption DEF DocumentInv, TextInv, TypesHold, Options
<1>2. \A now : Manner(opts, now) \in Manners /\ Manner(opts, now).formulas = opts.extractEquations
               /\ Manner(opts, now).detect = opts.detectHeadings
  BY <1>1, MannerFields
<1>12. LateStages = {"hierarchy", "paragraphs", "hyphens", "formulas", "audit", "done"}
  BY DEF LateStages
<1>3. CASE Write
  <2>1. LinePass("write", "hierarchy", ToMarkdown(pages, keep)) /\ stage = "write"
    BY <1>3 DEF Write, LinePass
  <2>2. Good("hierarchy", ToMarkdown(pages, keep)) BY <1>1, <2>1, WriteReads
  <2> QED BY <1>12, <2>1, <2>2, LinePassReads
<1>4. CASE Hierarchy
  <2> DEFINE made == IF opts.detectHeadings THEN NormalizeHeadingHierarchy(lines) ELSE lines
  <2>1. LinePass("hierarchy", "paragraphs", made) BY <1>4 DEF Hierarchy
  <2>2. ASSUME Good("hierarchy", lines) PROVE Good("paragraphs", made)
    <3>1. CASE opts.detectHeadings
      <4>1. CanBeRead(InOrdered(Manner(opts, "hierarchy")), pages, keep, NormalizeHeadingHierarchy(lines))
        BY <1>2, <2>2, <3>1, HierarchyReads
      <4> QED BY <1>1, <3>1, <4>1, MannersOfPasses
    <3>2. CASE ~opts.detectHeadings BY <1>1, <2>2, <3>2, MannersOfPasses
    <3> QED BY <3>1, <3>2
  <2> HIDE DEF made
  <2> QED BY <1>12, <2>1, <2>2, LinePassReads
<1>5. CASE Paragraphs
  <2> DEFINE made == IF opts.joinParagraphs THEN JoinPageParagraphs(lines, keep) ELSE lines
  <2>1. LinePass("paragraphs", "hyphens", made) BY <1>5 DEF Paragraphs
  <2>2. ASSUME Good("paragraphs", lines) PROVE Good("hyphens", made)
    <3>1. JoinPageParagraphs(lines, keep) = lines BY <1>1, <2>2, ParagraphsRead
    <3> QED BY <1>1, <2>2, <3>1, MannersOfPasses
  <2> HIDE DEF made
  <2> QED BY <1>12, <2>1, <2>2, LinePassReads
<1>6. CASE Hyphens
  <2> DEFINE made == RepairLineWrapHyphens(lines)
  <2>1. LinePass("hyphens", "formulas", made) BY <1>6 DEF Hyphens
  <2>2. ASSUME Good("hyphens", lines) PROVE Good("formulas", made)
    <3>1. CanBeRead(Manner(opts, "hyphens"), pages, keep, made) BY <2>2, HyphensRead
    <3> QED BY <1>1, <3>1, MannersOfPasses
  <2> HIDE DEF made
  <2> QED BY <1>12, <2>1, <2>2, LinePassReads
<1>7. CASE Formulas
  <2> DEFINE made == IF opts.extractEquations THEN RepairDisplayMathProse(lines) ELSE WithoutFormulas(lines)
  <2>1. LinePass("formulas", "audit", made) BY <1>7 DEF Formulas
  <2>2. ASSUME Good("formulas", lines) PROVE Good("audit", made)
    <3>1. CASE opts.extractEquations
      <4>1. CanBeRead(Repairing(Manner(opts, "formulas")), pages, keep, RepairDisplayMathProse(lines))
        BY <1>2, <2>2, <3>1, FormulasRead
      <4> QED BY <1>1, <3>1, <4>1, MannersOfPasses
    <3>2. CASE ~opts.extractEquations
      <4>1. CanBeRead(Manner(opts, "formulas"), pages, keep, WithoutFormulas(lines))
        BY <1>2, <2>2, <3>2, WithoutReads
      <4> QED BY <1>1, <3>2, <4>1, MannersOfPasses
    <3> QED BY <3>1, <3>2
  <2> HIDE DEF made
  <2> QED BY <1>12, <2>1, <2>2, LinePassReads
<1>8. CASE Audit
  <2>1. stage = "audit" /\ stage' = "done" /\ lines' = lines /\ opts' = opts /\ pages' = pages
    BY <1>8 DEF Audit
  <2>2. CanBeRead(Manner(opts, "audit"), pages, keep, lines)
    BY <2>1 DEF DocumentInv, LinesAreRead, LateStages
  <2>3. CanBeRead(Manner(opts, "done"), pages, keep, lines) BY <1>1, <2>2, MannersOfPasses
  <2>4. CanBeRead(Manner(opts', "done"), pages', opts'.preserveMarkers, lines') BY <2>1, <2>3
  <2> QED BY <2>1, <2>4 DEF LinesAreRead, LateStages
<1>9. CASE UNCHANGED vars
  <2>1. stage' = stage /\ lines' = lines /\ opts' = opts /\ pages' = pages BY <1>9 DEF vars
  <2>2. LinesAreRead BY DEF DocumentInv
  <2> QED BY <2>1, <2>2 DEF LinesAreRead
<1>10. CASE Done
  BY <1>9, <1>10 DEF Done
<1>11. CASE Order \/ Headings \/ Diagrams \/ Code \/ Equations \/ DocumentIRFromPages \/ Classify \/ Apply
  <2>1. stage \notin LateStages /\ stage' \notin LateStages /\ lines' = lines
    BY <1>11 DEF Order, Headings, Diagrams, Code, Equations, PagePass, DocumentIRFromPages, Classify,
                 Apply, LateStages
  <2> QED BY <2>1 DEF DocumentInv, LinesAreRead
<1> QED BY <1>3, <1>4, <1>5, <1>6, <1>7, <1>8, <1>9, <1>10, <1>11 DEF Next

-----------------------------------------------------------------------------
(* What is true of a document that can be read. *)

LEMMA MoveFields ==
    ASSUME NEW m, NEW q \in Readers, NEW l \in Lines, NEW r \in Readers, Moves(m, q, l, r)
    PROVE  Moved(m, q, l, r)
<1> DEFINE p == r.page
<1>1. r = Reading(m, q, l, p) /\ Fits(m, q, l) /\ TurnsTo(q, l, r.page)
  BY DEF Moves
<1> HIDE DEF p
<1>2. r.at = GoesTo(q, l)
  BY <1>1 DEF Reading
<1>3. r.level = IF l.kind = "heading" THEN l.level ELSE q.level
  BY <1>1 DEF Reading
<1>4. r.title = IF l.kind = "heading" THEN Words(l.words) ELSE q.title
  BY <1>1 DEF Reading
<1>5. r.fence = IF q.at = "fence" /\ l.kind # "fence" THEN FenceLine(q.fence, l, m.detect) ELSE <<>>
  BY <1>1 DEF Reading
<1>6. r.said \subseteq q.said \cup ToSet(l.words)
  BY <1>1 DEF Reading
<1>7. r.titles = IF l.kind = "heading" THEN q.titles \cup {Title(m, l)} ELSE q.titles
  BY <1>1 DEF Reading
<1>8. r.marked = IF l.kind = "marker" THEN q.marked \cup {l.level} ELSE q.marked
  BY <1>1 DEF Reading
<1>9. r.fences = IF q.at = "fence" /\ l.kind = "fence" THEN q.fences \cup {q.fence} ELSE q.fences
  BY <1>1 DEF Reading
<1>10. l.kind \notin {"blank", "marker"} => r.page = q.page
  BY <1>1 DEF TurnsTo
<1> QED BY <1>1, <1>2, <1>3, <1>4, <1>5, <1>6, <1>7, <1>8, <1>9, <1>10 DEF Moved

LEMMA WholeLines ==
    ASSUME NEW m, NEW ls, NEW w, Whole(m, ls, w)
    PROVE  /\ m \in Manners /\ ls \in Seq(Lines) /\ Walk(m, ls, w)
           /\ Len(ls) \in Nat /\ DOMAIN ls = 1 .. Len(ls)
           /\ \A n \in 1 .. Len(ls) :
                 /\ ls[n] \in Lines /\ n - 1 \in 0 .. Len(ls) /\ n \in 0 .. Len(ls)
                 /\ Moves(m, w[n - 1], ls[n], w[n]) /\ Fits(m, w[n - 1], ls[n])
                 /\ Rested(w[n - 1])
           /\ \A n \in 0 .. Len(ls) : w[n] \in Readers /\ w[n].page \in Int
           /\ \A a, b \in 0 .. Len(ls) : a <= b => w[a].page <= w[b].page
           /\ w[0].at = "text" /\ w[Len(ls)].at = "text" /\ Rested(w[0])
<1>1. m \in Manners /\ ls \in Seq(Lines) /\ Walk(m, ls, w) /\ w[Len(ls)].at = "text"
  BY DEF Whole, Free
<1>2. w[0].at = "text" /\ Rested(w[0])
  <2>1. PICK s \in Int : w[0] = Start(s) BY DEF Whole
  <2>2. Free(Start(s)) BY AtStart
  <2> QED BY <2>1, <2>2 DEF Free
<1>3. /\ Len(ls) \in Nat /\ DOMAIN ls = 1 .. Len(ls) /\ (\A n \in 1 .. Len(ls) : ls[n] \in Lines)
      /\ \A n \in 0 .. Len(ls) : w[n] \in Readers /\ Rested(w[n])
      /\ \A n \in 1 .. Len(ls) : /\ n - 1 \in 0 .. Len(ls) /\ n \in 0 .. Len(ls)
                                 /\ Moves(m, w[n - 1], ls[n], w[n])
      /\ \A a, b \in 0 .. Len(ls) : a <= b => Grows(w[a], w[b])
  BY <1>1, <1>2, WalkFacts
<1>4. \A n \in 0 .. Len(ls) : w[n].page \in Int
  BY <1>3, ReaderFields
<1>5. \A n \in 1 .. Len(ls) : Fits(m, w[n - 1], ls[n]) /\ Rested(w[n - 1])
  BY <1>3 DEF Moves
<1>6. \A a, b \in 0 .. Len(ls) : a <= b => w[a].page <= w[b].page
  BY <1>3 DEF Grows
<1> QED BY <1>1, <1>2, <1>3, <1>4, <1>5, <1>6

LEMMA WholeMoves ==
    ASSUME NEW m, NEW ls, NEW w, Whole(m, ls, w), NEW n \in 1 .. Len(ls)
    PROVE  Moved(m, w[n - 1], ls[n], w[n])
<1>1. ls[n] \in Lines /\ w[n - 1] \in Readers /\ w[n] \in Readers /\ Moves(m, w[n - 1], ls[n], w[n])
  BY WholeLines
<1> QED BY <1>1, MoveFields

\* The marks of formulas.
LEMMA MarksAreOpen ==
    ASSUME NEW m, NEW ls, NEW w, Whole(m, ls, w), NEW n \in 1 .. Len(ls), ls[n].kind = "math"
    PROVE  ~InFence(ls, n) /\ w[n - 1].at \in {"text", "math"}
<1>1. w[n - 1].at # "text" => ls[n].kind \in {"text", w[n - 1].at}
  BY WholeLines DEF Fits
<1>2. w[n - 1].at \in {"text", "math"}
  BY <1>1
<1>3. \A i \in 1 .. Len(ls) + 1 : InFence(ls, i) <=> w[i - 1].at = "fence"
  BY WholeLines, FenceParity
<1>4. n \in 1 .. Len(ls) + 1
  BY WholeLines
<1> QED BY <1>2, <1>3, <1>4

LEMMA FormulasKept ==
    ASSUME NEW m, NEW w, Whole(m, lines, w), opts.extractEquations => m.repaired
    PROVE  FormulasAreFormulas
<1> DEFINE N == Len(lines)
           marks == {n \in DOMAIN lines : lines[n].kind = "math" /\ ~InFence(lines, n)}
           Upto(n) == {j \in 1 .. n : lines[j].kind = "math"}
           opening == {n \in marks : Cardinality({k \in marks : k < n}) % 2 = 0}
           Closing(n) == Min({k \in marks : k > n})
<1>1. /\ lines \in Seq(Lines) /\ Walk(m, lines, w) /\ N \in Nat /\ DOMAIN lines = 1 .. N
      /\ \A n \in 1 .. N : n - 1 \in 0 .. N /\ n \in 0 .. N /\ Fits(m, w[n - 1], lines[n])
      /\ w[0].at = "text" /\ w[N].at = "text" /\ Rested(w[0])
  BY WholeLines
<1>2. \A n \in 1 .. N : lines[n].kind = "math" => ~InFence(lines, n) /\ w[n - 1].at \in {"text", "math"}
  BY MarksAreOpen
<1>3. marks = Upto(N)
  BY <1>1, <1>2
<1>4. \A n \in 0 .. N : IsFiniteSet(Upto(n)) /\ (Cardinality(Upto(n)) % 2 = 1 <=> w[n].at = "math")
  BY <1>1, MarkParity
<1>5. \A n \in 0 .. N : Cardinality(Upto(n)) % 2 = 0 <=> w[n].at # "math"
  <2> SUFFICES ASSUME NEW n \in 0 .. N PROVE Cardinality(Upto(n)) % 2 = 0 <=> w[n].at # "math"
    OBVIOUS
  <2> DEFINE c == Cardinality(Upto(n))
  <2>1. c \in Nat /\ (c % 2 = 1 <=> w[n].at = "math") BY <1>4, FS_CardinalityType
  <2> HIDE DEF c
  <2>2. c % 2 = 0 <=> ~(c % 2 = 1) BY <2>1
  <2> QED BY <2>1, <2>2 DEF c
<1>6. Cardinality(marks) % 2 = 0
  <2>1. N \in 0 .. N BY <1>1
  <2> QED BY <1>1, <1>3, <1>5, <2>1
<1>7. ASSUME NEW n \in opening
      PROVE  n \in 1 .. N /\ lines[n].kind = "math" /\ w[n - 1].at = "text"
  <2>1. n \in 1 .. N /\ lines[n].kind = "math" /\ Cardinality({k \in marks : k < n}) % 2 = 0 BY <1>3
  <2>2. {k \in marks : k < n} = Upto(n - 1) BY <1>1, <1>3, <2>1
  <2>3. w[n - 1].at # "math" BY <1>1, <1>5, <2>1, <2>2
  <2> QED BY <1>2, <2>1, <2>3
<1>8. ASSUME NEW n \in opening PROVE Closing(n) = Close(lines, n) /\ Closed(lines, w, n)
  <2>1. Closed(lines, w, n) BY <1>1, <1>7, FormulaCloses
  <2>2. /\ Close(lines, n) \in n + 1 .. N /\ lines[Close(lines, n)].kind = "math"
        /\ \A j \in n + 1 .. Close(lines, n) - 1 : lines[j].kind = "text"
    BY <2>1 DEF Closed
  <2> DEFINE c == Close(lines, n)  S == {k \in marks : k > n}
  <2>3. n \in 1 .. N /\ c \in 1 .. N /\ c > n BY <1>1, <1>7, <2>2
  <2> HIDE DEF c
  <2>4. c \in S BY <1>3, <2>2, <2>3 DEF c
  <2>5. ASSUME NEW k \in S PROVE c <= k
    <3>1. k \in 1 .. N /\ k > n /\ lines[k].kind = "math" BY <1>3, <2>5
    <3>2. CASE k < c
      <4>1. k \in n + 1 .. c - 1 BY <1>1, <2>3, <3>1, <3>2
      <4> QED BY <2>2, <3>1, <4>1 DEF c
    <3> QED BY <1>1, <2>3, <3>1, <3>2
  <2>6. S \subseteq Nat BY <1>1, <1>3
  <2> HIDE DEF S
  <2>7. Min(S) \in S /\ \A k \in S : Min(S) <= k BY <2>4, <2>6, SmallestOf
  <2>8. Min(S) = c
    <3> DEFINE x == Min(S)
    <3>1. x \in S /\ x <= c BY <2>4, <2>7
    <3> HIDE DEF x
    <3>2. c <= x /\ x \in Nat /\ c \in Nat BY <1>1, <2>3, <2>5, <2>6, <3>1
    <3> QED BY <3>1, <3>2 DEF x
  <2> QED BY <2>1, <2>8 DEF S, c
<1>9. ASSUME NEW n \in opening, opts.extractEquations
      PROVE  LET body == FlattenSeq([k \in 1 .. Closing(n) - n - 1 |-> lines[n + k].words])
             IN  Len(body) <= 5 \/ WordSet(body) \cap Signs # {}
  <2> DEFINE c == Close(lines, n)
  <2>1. Anatomy(m, lines, w, n) BY <1>1, <1>7, <1>8, FormulaRead
  <2>2. c \in n + 1 .. N /\ lines[c].kind = "math" /\ \A j \in n .. c - 1 : w[j].at = "math"
    BY <1>8 DEF Closed
  <2>3. n \in 1 .. N BY <1>7
  <2> HIDE DEF c
  <2>4. c \in 1 .. N /\ c - 1 \in n .. c - 1 BY <1>1, <2>2, <2>3
  <2>5. Fits(m, w[c - 1], lines[c]) /\ w[c - 1].at = "math" BY <1>1, <2>2, <2>4
  <2>6. GoodFormula(w[c - 1].body) BY <1>9, <2>2, <2>5 DEF Fits
  <2>7. w[c - 1].body = Enclosed(lines, n) BY <2>1 DEF Anatomy, c
  <2>8. GoodFormula(Enclosed(lines, n)) BY <2>6, <2>7
  <2>9. Closing(n) = Close(lines, n) BY <1>8
  <2> HIDE DEF Closing
  <2> QED BY <2>8, <2>9 DEF GoodFormula, Enclosed
<1> QED BY <1>6, <1>9 DEF FormulasAreFormulas

\* Behind a heading and before the next one, a reader is under it.
LEMMA UnderHeading ==
    ASSUME NEW m, NEW ls, NEW w, Whole(m, ls, w), NEW a \in 1 .. Len(ls), NEW b \in a .. Len(ls),
           ls[a].kind = "heading", \A k \in a + 1 .. b : ls[k].kind # "heading"
    PROVE  w[b].title = Words(ls[a].words) /\ w[b].level = ls[a].level
<1> DEFINE N == Len(ls)
           Good == {n \in 0 .. N : n \in a .. b => w[n].title = Words(ls[a].words) /\ w[n].level = ls[a].level}
<1>1. /\ N \in Nat
      /\ \A n \in 1 .. N : /\ ls[n] \in Lines /\ n - 1 \in 0 .. N /\ n \in 0 .. N
                           /\ Moves(m, w[n - 1], ls[n], w[n])
      /\ \A n \in 0 .. N : w[n] \in Readers
  BY WholeLines
<1>2. \A n \in 1 .. N :
         /\ w[n].level = IF ls[n].kind = "heading" THEN ls[n].level ELSE w[n - 1].level
         /\ w[n].title = IF ls[n].kind = "heading" THEN Words(ls[n].words) ELSE w[n - 1].title
  <2>1. \A n \in 1 .. N : Moved(m, w[n - 1], ls[n], w[n]) BY WholeMoves
  <2> QED BY <2>1 DEF Moved
<1> HIDE DEF N
<1>3. a \in 1 .. N /\ b \in a .. N
  BY DEF N
<1>4. 0 \in Good
  BY <1>1, <1>3
<1>5. ASSUME NEW n \in 1 .. N, n - 1 \in Good PROVE n \in Good
  <2>1. CASE n = a BY <1>1, <1>2, <2>1
  <2>2. CASE n # a /\ n \in a .. b
    <3>1. n - 1 \in a .. b /\ n \in a + 1 .. b BY <1>1, <1>3, <2>2
    <3>2. ls[n].kind # "heading" BY <3>1
    <3> QED BY <1>1, <1>2, <1>5, <3>1, <3>2
  <2>3. CASE n \notin a .. b BY <1>1, <2>3
  <2> QED BY <2>1, <2>2, <2>3
<1>6. \A n \in 0 .. N : n \in Good
  <2> HIDE DEF Good
  <2> QED BY <1>1, <1>4, <1>5, Counting
<1>7. b \in 0 .. N /\ b \in a .. b
  BY <1>1, <1>3
<1> QED BY <1>6, <1>7

LEMMA OutlineKept ==
    ASSUME NEW m, NEW w, Whole(m, lines, w),
           stage \in {"paragraphs", "hyphens", "formulas", "audit", "done"} /\ opts.detectHeadings => m.ordered
    PROVE  OutlineDescends
<1> SUFFICES ASSUME m.ordered, NEW a \in Outline, NEW b \in Outline,
                    a < b, ~(\E k \in Outline : a < k /\ k < b)
             PROVE  /\ Words(lines[a].words) # Words(lines[b].words)
                    /\ lines[b].level <= lines[a].level + 1
  BY DEF OutlineDescends
<1> DEFINE N == Len(lines)
<1>1. /\ N \in Nat /\ DOMAIN lines = 1 .. N
      /\ \A n \in 1 .. N : Fits(m, w[n - 1], lines[n])
  BY WholeLines
<1>2. a \in 1 .. N /\ b \in 1 .. N /\ lines[a].kind = "heading" /\ lines[b].kind = "heading"
  BY <1>1 DEF Outline
<1>3. b - 1 \in a .. N /\ \A k \in a + 1 .. b - 1 : lines[k].kind # "heading"
  <2> SUFFICES ASSUME NEW k \in a + 1 .. b - 1, lines[k].kind = "heading" PROVE FALSE BY <1>1, <1>2
  <2>1. k \in 1 .. N /\ a < k /\ k < b BY <1>1, <1>2
  <2> QED BY <1>1, <2>1 DEF Outline
<1> DEFINE q == w[b - 1]
<1>4. q.title = Words(lines[a].words) /\ q.level = lines[a].level
  <2> DEFINE c == b - 1
  <2>1. c \in a .. N /\ \A k \in a + 1 .. c : lines[k].kind # "heading" BY <1>3
  <2> HIDE DEF c
  <2>2. w[c].title = Words(lines[a].words) /\ w[c].level = lines[a].level
    BY <1>2, <2>1, UnderHeading
  <2> QED BY <2>2 DEF c
<1>5. Fits(m, q, lines[b]) /\ Fits(m, w[a - 1], lines[a])
  BY <1>1, <1>2
<1> HIDE DEF q
<1>6. lines[a].level > 0
  BY <1>2, <1>5 DEF Fits
<1>7. /\ Words(lines[b].words) # q.title
      /\ q.level > 0 => lines[b].level <= q.level + 1
  BY <1>2, <1>5 DEF Fits
<1> QED BY <1>4, <1>6, <1>7

\* What has been marked was marked by a marker.
LEMMA MarkedOnce ==
    ASSUME NEW m, NEW ls, NEW w, Whole(m, ls, w)
    PROVE  /\ \A x \in w[Len(ls)].marked : \E n \in 1 .. Len(ls) : ls[n].kind = "marker" /\ ls[n].level = x
           /\ \A n \in 1 .. Len(ls) : ls[n].kind = "marker" => /\ w[n - 1].page < ls[n].level
                                                               /\ w[n].page = ls[n].level
                                                               /\ ls[n].words = <<>>
<1> DEFINE N == Len(ls)
           By(x, n) == \E k \in 1 .. n : ls[k].kind = "marker" /\ ls[k].level = x
           Good == {n \in 0 .. N : \A x \in w[n].marked : By(x, n)}
<1>1. /\ N \in Nat
      /\ \A n \in 1 .. N : /\ ls[n] \in Lines /\ n - 1 \in 0 .. N /\ n \in 0 .. N
                           /\ Moves(m, w[n - 1], ls[n], w[n]) /\ Fits(m, w[n - 1], ls[n])
      /\ \A n \in 0 .. N : w[n] \in Readers
  BY WholeLines
<1>2. \A n \in 1 .. N :
         /\ TurnsTo(w[n - 1], ls[n], w[n].page)
         /\ w[n].marked = IF ls[n].kind = "marker" THEN w[n - 1].marked \cup {ls[n].level}
                                                   ELSE w[n - 1].marked
  <2>1. \A n \in 1 .. N : Moved(m, w[n - 1], ls[n], w[n]) BY WholeMoves
  <2> QED BY <2>1 DEF Moved
<1>3. w[0].marked = {}
  BY DEF Whole, Start
<1>4. 0 \in Good
  BY <1>1, <1>3
<1> HIDE DEF N
<1>5. ASSUME NEW n \in 1 .. N, n - 1 \in Good PROVE n \in Good
  <2> SUFFICES ASSUME NEW x \in w[n].marked PROVE By(x, n) BY <1>1
  <2>1. 1 .. n - 1 \subseteq 1 .. n /\ n \in 1 .. n OBVIOUS
  <2>2. x \in w[n - 1].marked \/ (ls[n].kind = "marker" /\ x = ls[n].level) BY <1>2
  <2>3. CASE x \in w[n - 1].marked
    <3>1. By(x, n - 1) BY <1>5, <2>3
    <3> QED BY <2>1, <3>1
  <2> QED BY <2>1, <2>2, <2>3
<1>6. N \in Good
  <2> HIDE DEF Good
  <2> QED BY <1>1, <1>4, <1>5, Counting
<1>7. \A x \in w[N].marked : By(x, N)
  BY <1>6
<1>8. \A n \in 1 .. N : ls[n].kind = "marker" => /\ w[n - 1].page < ls[n].level
                                                 /\ w[n].page = ls[n].level /\ ls[n].words = <<>>
  BY <1>1, <1>2 DEF TurnsTo, Fits
<1> QED BY <1>7, <1>8 DEF N

\* The words of a line are those of the page the reader is on.
LEMMA WordsOfPage ==
    ASSUME NEW m, NEW ls, NEW w, Whole(m, ls, w), NEW n \in 1 .. Len(ls), ls[n].words # <<>>
    PROVE  /\ \A t \in ToSet(ls[n].words) : t.page = w[n - 1].page
           /\ w[n].page = w[n - 1].page /\ PageOf(ls[n]) = w[n - 1].page
<1>1. ls[n] \in Lines /\ Moves(m, w[n - 1], ls[n], w[n]) /\ Fits(m, w[n - 1], ls[n])
      /\ w[n - 1] \in Readers /\ w[n] \in Readers
  BY WholeLines
<1>2. \A t \in ToSet(ls[n].words) : t.page = w[n - 1].page
  BY <1>1 DEF Fits
<1>3. ls[n].kind \notin {"blank", "marker"}
  BY <1>1 DEF Fits
<1>4. w[n].page = w[n - 1].page
  <2>1. Moved(m, w[n - 1], ls[n], w[n]) BY WholeMoves
  <2> QED BY <1>3, <2>1 DEF Moved
<1>5. ls[n].words[1] \in ToSet(ls[n].words)
  <2> DEFINE ws == ls[n].words
  <2>1. ws \in Seq(Tokens) /\ ws # <<>> BY <1>1, LineFields
  <2> HIDE DEF ws
  <2>2. 1 \in DOMAIN ws BY <2>1, InSequence, EmptySeq
  <2> QED BY <2>2 DEF ToSet, ws
<1> QED BY <1>2, <1>4, <1>5 DEF PageOf

LEMMA PagesKept ==
    ASSUME NEW m, NEW w, Whole(m, lines, w), opts.preserveMarkers => w[Len(lines)].marked = Present
    PROVE  PagesInOrder
<1> DEFINE N == Len(lines)
           worded == {n \in DOMAIN lines : lines[n].words # <<>>}
<1>1. /\ N \in Nat /\ DOMAIN lines = 1 .. N
      /\ \A n \in 0 .. N : w[n].page \in Int
      /\ \A a, b \in 0 .. N : a <= b => w[a].page <= w[b].page
  BY WholeLines
<1>2. \A n \in worded : /\ n \in 1 .. N /\ w[n].page = w[n - 1].page /\ PageOf(lines[n]) = w[n - 1].page
                        /\ \A t \in ToSet(lines[n].words) : t.page = w[n - 1].page
  BY <1>1, WordsOfPage
<1>3. \A n \in 1 .. N : lines[n].kind = "marker" => /\ w[n - 1].page < lines[n].level
                                                   /\ w[n].page = lines[n].level /\ lines[n].words = <<>>
  BY MarkedOnce
<1>4. ASSUME NEW a \in worded, NEW b \in worded, a < b PROVE PageOf(lines[a]) <= PageOf(lines[b])
  <2>1. a - 1 \in 0 .. N /\ b - 1 \in 0 .. N /\ a - 1 <= b - 1 BY <1>1, <1>2, <1>4
  <2> QED BY <1>1, <1>2, <2>1
<1>5. ASSUME NEW p \in Present, opts.preserveMarkers PROVE Cardinality(Marked(p)) = 1
  <2>1. p \in w[N].marked BY <1>5
  <2>2. PICK n \in 1 .. N : lines[n].kind = "marker" /\ lines[n].level = p BY <2>1, MarkedOnce
  <2>3. ASSUME NEW a \in Marked(p), NEW b \in Marked(p), a < b PROVE FALSE
    <3>1. a \in 1 .. N /\ b \in 1 .. N /\ lines[a].kind = "marker" /\ lines[a].level = p
          /\ lines[b].kind = "marker" /\ lines[b].level = p
      BY <1>1 DEF Marked
    <3>2. w[a].page = p /\ w[b - 1].page < p BY <1>3, <3>1
    <3>3. a \in 0 .. N /\ b - 1 \in 0 .. N /\ a <= b - 1 BY <1>1, <2>3, <3>1
    <3> QED BY <1>1, <3>2, <3>3
  <2>4. Marked(p) = {n}
    <3>1. n \in Marked(p) /\ Marked(p) \subseteq 1 .. N BY <1>1, <2>2 DEF Marked
    <3>2. ASSUME NEW k \in Marked(p) PROVE k = n
      <4>1. k \in Nat /\ n \in Nat BY <1>1, <3>1
      <4>2. k < n \/ k = n \/ n < k BY <4>1
      <4> QED BY <2>3, <3>1, <4>2
    <3> QED BY <3>1, <3>2
  <2> QED BY <2>4, FS_Singleton
<1>6. ASSUME NEW n \in worded, NEW t \in ToSet(lines[n].words), NEW p \in Present, NEW k \in Marked(p)
      PROVE  (p <= t.page) <=> (k < n)
  <2>1. k \in 1 .. N /\ n \in 1 .. N /\ lines[k].kind = "marker" /\ lines[k].level = p
    BY <1>1, <1>2 DEF Marked
  <2>2. w[k - 1].page < p /\ w[k].page = p /\ k # n BY <1>3, <2>1
  <2>3. t.page = w[n - 1].page /\ t.page = w[n].page BY <1>2
  <2>4. p \in Int /\ t.page \in Int /\ w[k - 1].page \in Int
    <3>1. k \in 0 .. N /\ n \in 0 .. N /\ k - 1 \in 0 .. N BY <1>1, <2>1
    <3> QED BY <1>1, <2>2, <2>3, <3>1
  <2>5. CASE k < n
    <3>1. k \in 0 .. N /\ n - 1 \in 0 .. N /\ k <= n - 1 BY <1>1, <2>1, <2>5
    <3>2. w[k].page <= w[n - 1].page BY <1>1, <3>1
    <3> QED BY <2>2, <2>3, <2>5, <3>2
  <2>6. CASE ~(k < n)
    <3>1. n \in 0 .. N /\ k - 1 \in 0 .. N /\ n <= k - 1 BY <1>1, <2>1, <2>2, <2>6
    <3>2. w[n].page <= w[k - 1].page BY <1>1, <3>1
    <3>3. ~(p <= t.page) BY <2>2, <2>3, <2>4, <3>2
    <3> QED BY <2>6, <3>3
  <2> QED BY <2>5, <2>6
<1> QED BY <1>4, <1>5, <1>6 DEF PagesInOrder

\* What has been said stands in a line, and so does a heading that is known.
LEMMA SaidIsWritten ==
    ASSUME NEW m, NEW ls, NEW w, Whole(m, ls, w)
    PROVE  /\ \A t \in w[Len(ls)].said : \E n \in 1 .. Len(ls) : t \in ToSet(ls[n].words)
           /\ \A x \in w[Len(ls)].titles :
                 x = <<>> \/ \E n \in 1 .. Len(ls) : ls[n].kind = "heading" /\ x = Title(m, ls[n])
<1> DEFINE N == Len(ls)
           In(t, n) == \E k \in 1 .. n : t \in ToSet(ls[k].words)
           Of(x, n) == \E k \in 1 .. n : ls[k].kind = "heading" /\ x = Title(m, ls[k])
           Good == {n \in 0 .. N : /\ \A t \in w[n].said : In(t, n)
                                   /\ \A x \in w[n].titles : x = <<>> \/ Of(x, n)}
<1>1. /\ N \in Nat /\ \A n \in 1 .. N : Moved(m, w[n - 1], ls[n], w[n]) /\ n - 1 \in 0 .. N /\ n \in 0 .. N
  BY WholeLines, WholeMoves
<1>2. \A n \in 1 .. N :
         /\ w[n].said \subseteq w[n - 1].said \cup ToSet(ls[n].words)
         /\ w[n].titles = IF ls[n].kind = "heading" THEN w[n - 1].titles \cup {Title(m, ls[n])}
                                                    ELSE w[n - 1].titles
  BY <1>1 DEF Moved
<1>3. w[0].said = {} /\ w[0].titles = {<<>>}
  BY DEF Whole, Start
<1>4. 0 \in Good
  BY <1>1, <1>3
<1> HIDE DEF N
<1>5. ASSUME NEW n \in 1 .. N, n - 1 \in Good PROVE n \in Good
  <2>1. 1 .. n - 1 \subseteq 1 .. n /\ n \in 1 .. n OBVIOUS
  <2>2. ASSUME NEW t \in w[n].said PROVE In(t, n)
    <3>1. t \in w[n - 1].said \/ t \in ToSet(ls[n].words) BY <1>2
    <3>2. CASE t \in w[n - 1].said
      <4>1. In(t, n - 1) BY <1>5, <3>2
      <4> QED BY <2>1, <4>1
    <3> QED BY <2>1, <3>1, <3>2
  <2>3. ASSUME NEW x \in w[n].titles, x # <<>> PROVE Of(x, n)
    <3>1. x \in w[n - 1].titles \/ (ls[n].kind = "heading" /\ x = Title(m, ls[n])) BY <1>2
    <3>2. CASE x \in w[n - 1].titles
      <4>1. Of(x, n - 1) BY <1>5, <2>3, <3>2
      <4> QED BY <2>1, <4>1
    <3> QED BY <2>1, <3>1, <3>2
  <2> QED BY <1>1, <2>2, <2>3
<1>6. N \in Good
  <2> HIDE DEF Good
  <2> QED BY <1>1, <1>4, <1>5, Counting
<1> QED BY <1>6 DEF N

LEMMA LongerPart ==
    ASSUME NEW ls \in Seq(Lines), NEW n \in 1 .. Len(ls), NEW a \in 1 .. n - 1
    PROVE  Append(SubSeq(ls, a + 1, n - 1), ls[n]) = SubSeq(ls, a + 1, n)
<1> DEFINE x == SubSeq(ls, a + 1, n - 1)  y == SubSeq(ls, a + 1, n)
<1>1. Len(ls) \in Nat /\ \A i \in 1 .. Len(ls) : ls[i] \in Lines
  BY InSequence
<1>2. a + 1 \in 1 .. Len(ls) + 1 /\ n - 1 \in 0 .. Len(ls) /\ n \in 0 .. Len(ls) /\ a + 1 <= n
  BY <1>1
<1>3. /\ x \in Seq(Lines) /\ Len(x) = IF a + 1 <= n - 1 THEN (n - 1) - (a + 1) + 1 ELSE 0
      /\ \A i \in 1 .. (n - 1) - (a + 1) + 1 : x[i] = ls[(a + 1) + i - 1]
  BY <1>2, Part
<1>4. /\ y \in Seq(Lines) /\ Len(y) = IF a + 1 <= n THEN n - (a + 1) + 1 ELSE 0
      /\ \A i \in 1 .. n - (a + 1) + 1 : y[i] = ls[(a + 1) + i - 1]
  BY <1>2, Part
<1> HIDE DEF x, y
<1>5. Len(x) = n - a - 1 /\ Len(y) = n - a /\ n - a \in Nat
  BY <1>1, <1>2, <1>3, <1>4
<1>6. /\ Append(x, ls[n]) \in Seq(Lines) /\ Len(Append(x, ls[n])) = n - a
      /\ \A i \in 1 .. n - a : Append(x, ls[n])[i] = IF i = n - a THEN ls[n] ELSE x[i]
  BY <1>1, <1>3, <1>5, AppendProperties
<1>7. ASSUME NEW i \in 1 .. n - a PROVE Append(x, ls[n])[i] = y[i]
  <2>1. y[i] = ls[a + i] BY <1>1, <1>2, <1>4
  <2>2. CASE i = n - a
    <3>1. a + i = n BY <1>1, <1>2, <2>2
    <3> QED BY <1>6, <2>1, <2>2, <3>1
  <2>3. CASE i # n - a
    <3>1. i \in 1 .. (n - 1) - (a + 1) + 1 BY <1>1, <1>2, <2>3
    <3>2. x[i] = ls[a + i] BY <1>1, <1>2, <1>3, <3>1
    <3> QED BY <1>6, <2>1, <2>3, <3>2
  <2> QED BY <2>2, <2>3
<1> DEFINE z == Append(x, ls[n])
<1>8. z \in Seq(Lines) /\ y \in Seq(Lines) /\ Len(z) = Len(y) /\ \A i \in 1 .. Len(y) : z[i] = y[i]
  BY <1>4, <1>5, <1>6, <1>7
<1> HIDE DEF z
<1>9. z = y
  BY <1>8, SeqEqual
<1> QED BY <1>9 DEF x, y, z

LEMMA FencesAreWritten ==
    ASSUME NEW m, NEW ls, NEW w, Whole(m, ls, w)
    PROVE  \A x \in w[Len(ls)].fences : \E a, b \in 1 .. Len(ls) : Bracketed(m, ls, x, a, b)
<1> DEFINE N == Len(ls)
           Found(x, n) == \E a, b \in 1 .. n : Bracketed(m, ls, x, a, b)
           Open(n) == \E a \in 1 .. n : OpenAt(m, ls, w[n].fence, a, n)
           Good == {n \in 0 .. N : /\ \A x \in w[n].fences : Found(x, n)
                                   /\ w[n].at = "fence" => Open(n)}
<1>1. /\ N \in Nat /\ ls \in Seq(Lines) /\ w[0].at = "text"
      /\ \A n \in 1 .. N : Moved(m, w[n - 1], ls[n], w[n]) /\ n - 1 \in 0 .. N /\ n \in 0 .. N
  BY WholeLines, WholeMoves
<1>2. \A n \in 1 .. N :
         /\ ls[n].kind = "fence" => ls[n] = Fence
         /\ w[n].at = GoesTo(w[n - 1], ls[n])
         /\ w[n].fence = IF w[n - 1].at = "fence" /\ ls[n].kind # "fence"
                         THEN FenceLine(w[n - 1].fence, ls[n], m.detect) ELSE <<>>
         /\ w[n].fences = IF w[n - 1].at = "fence" /\ ls[n].kind = "fence"
                          THEN w[n - 1].fences \cup {w[n - 1].fence} ELSE w[n - 1].fences
  BY <1>1 DEF Moved, Fits
<1>3. w[0].fences = {}
  BY DEF Whole, Start
<1>4. 0 \in Good
  BY <1>1, <1>3
<1> HIDE DEF N
<1>5. ASSUME NEW n \in 1 .. N, n - 1 \in Good PROVE n \in Good
  <2>1. 1 .. n - 1 \subseteq 1 .. n /\ n \in 1 .. n OBVIOUS
  <2>2. ASSUME NEW x \in w[n].fences PROVE Found(x, n)
    <3>1. x \in w[n - 1].fences \/ (w[n - 1].at = "fence" /\ ls[n].kind = "fence" /\ x = w[n - 1].fence)
      BY <1>2, ZenonT(60)
    <3>2. CASE x \in w[n - 1].fences
      <4>1. Found(x, n - 1) BY <1>5, <3>2
      <4> QED BY <2>1, <4>1
    <3>3. CASE w[n - 1].at = "fence" /\ ls[n].kind = "fence" /\ x = w[n - 1].fence
      <4>1. PICK a \in 1 .. n - 1 : OpenAt(m, ls, x, a, n - 1) BY <1>5, <3>3
      <4>2. ls[n] = Fence BY <1>2, <3>3
      <4>4. a < n BY <1>1
      <4>3. Bracketed(m, ls, x, a, n) BY <4>1, <4>2, <4>4 DEF Bracketed, OpenAt
      <4> QED BY <2>1, <4>3
    <3> QED BY <3>1, <3>2, <3>3
  <2>3. ASSUME w[n].at = "fence" PROVE Open(n)
    <3>1. CASE w[n - 1].at = "fence"
      <4>1. ls[n].kind # "fence" /\ w[n].fence = FenceLine(w[n - 1].fence, ls[n], m.detect)
        BY <1>2, <2>3, <3>1 DEF GoesTo
      <4>2. PICK a \in 1 .. n - 1 : OpenAt(m, ls, w[n - 1].fence, a, n - 1) BY <1>5, <3>1
      <4>3. Append(SubSeq(ls, a + 1, n - 1), ls[n]) = SubSeq(ls, a + 1, n) BY <1>1, LongerPart DEF N
      <4>6. SubSeq(ls, a + 1, n - 1) \in Seq(Lines) /\ ls[n] \in Lines
        <5>1. Len(ls) \in Nat /\ a + 1 \in 1 .. Len(ls) + 1 /\ n - 1 \in 0 .. Len(ls) BY <1>1 DEF N
        <5> QED BY <1>1, <5>1, Part, InSequence DEF N
      <4>4. w[n].fence = FenceText(SubSeq(ls, a + 1, n), m.detect)
        BY <4>1, <4>2, <4>3, <4>6, FenceTextOn DEF OpenAt
      <4>5. OpenAt(m, ls, w[n].fence, a, n) BY <1>1, <4>2, <4>4 DEF OpenAt
      <4> QED BY <2>1, <4>5
    <3>2. CASE w[n - 1].at # "fence"
      <4>1. ls[n].kind = "fence" /\ w[n].fence = <<>> BY <1>2, <2>3, <3>2 DEF GoesTo
      <4>2. ls[n] = Fence BY <1>2, <4>1
      <4>3. SubSeq(ls, n + 1, n) = <<>>
        <5>1. n + 1 \in 1 .. Len(ls) + 1 /\ n \in 0 .. Len(ls) /\ ~(n + 1 <= n) BY <1>1 DEF N
        <5>2. SubSeq(ls, n + 1, n) \in Seq(Lines) /\ Len(SubSeq(ls, n + 1, n)) = 0
          BY <1>1, <5>1, Part
        <5> QED BY <5>2, EmptySeq
      <4>4. OpenAt(m, ls, w[n].fence, n, n)
        <5>1. FenceText(<<>>, m.detect) = <<>> BY NoFenceText
        <5>2. w[n].fence = FenceText(SubSeq(ls, n + 1, n), m.detect) BY <4>1, <4>3, <5>1, Zenon
        <5> QED BY <1>1, <4>2, <5>2 DEF OpenAt
      <4> QED BY <2>1, <4>4
    <3> QED BY <3>1, <3>2
  <2> QED BY <1>1, <2>2, <2>3
<1>6. N \in Good
  <2> HIDE DEF Good
  <2> QED BY <1>1, <1>4, <1>5, Counting
<1> QED BY <1>6 DEF N

LEMMA EmptyText ==
    ASSUME NEW ls \in Seq(Seq(Tokens)), Len(ls) = 1
    PROVE  /\ ls[1] \in Seq(Tokens) /\ TokensOf(ls) = ToSet(ls[1])
           /\ Words(ls[1]) = <<>> => ls[1] = <<>>
           /\ ls[1] = <<>> => TokensOf(ls) = {}
<1>1. DOMAIN ls = {1} /\ ls[1] \in Seq(Tokens)
  <2>1. DOMAIN ls = 1 .. 1 /\ ls[1] \in Seq(Tokens) BY InSequence
  <2> QED BY <2>1
<1>2. TokensOf(ls) = ToSet(ls[1])
  BY <1>1 DEF TokensOf
<1> DEFINE x == ls[1]
<1>3. Len(Words(x)) = Len(x) /\ Words(x) \in Seq(STRING) /\ x \in Seq(Tokens)
  BY <1>1, WordsOfLine
<1>4. ToSet(<<>>) = {}
  BY DEF ToSet
<1> HIDE DEF x
<1>5. Words(x) = <<>> => x = <<>>
  BY <1>3, EmptySeq
<1>6. x = <<>> => TokensOf(ls) = {}
  BY <1>2, <1>4 DEF x
<1> QED BY <1>1, <1>2, <1>5, <1>6 DEF x

LEMMA TextKept ==
    ASSUME TextInv, NEW m, NEW w, Whole(m, lines, w), m.formulas = opts.extractEquations,
           m.detect = opts.detectHeadings,
           \A k \in DOMAIN pages : Holds(m, w[Len(lines)], pages[k].blocks)
    PROVE  TextReachesTheEnd
<1> DEFINE N == Len(lines)  e == w[N]
           Told(line) == \/ ToSet(line) \subseteq LineTokens
                         \/ /\ Listed(line).kind = "heading"
                            /\ \E n \in Outline : Words(lines[n].words) = Words(Tail(line))
<1> SUFFICES ASSUME NEW i \in DOMAIN pages, NEW b \in ToSet(pages[i].blocks)
             PROVE  \/ TokensOf(b.lines) \subseteq LineTokens
                    \/ b.kind = "equation" /\ ~opts.extractEquations
                    \/ /\ opts.detectHeadings /\ b.kind = "text" /\ b.level > 0
                       /\ \E n \in Outline : Words(lines[n].words) = Words(b.lines[1])
                    \/ b.kind \in {"diagram", "code"} /\ \A line \in ToSet(b.lines) : Told(line)
  BY DEF TextReachesTheEnd
<1>1. DOMAIN lines = 1 .. N
  BY WholeLines
<1>2. /\ \A t \in e.said : \E n \in 1 .. N : t \in ToSet(lines[n].words)
      /\ \A x \in e.titles :
            x = <<>> \/ \E n \in 1 .. N : lines[n].kind = "heading" /\ x = Title(m, lines[n])
  BY SaidIsWritten
<1>3. Held(m, e, b)
  BY DEF Holds
<1>6. b.lines \in Seq(Seq(Tokens)) /\ \A line \in ToSet(b.lines) : line \in Seq(Tokens)
  <2>1. pages \in Seq(PageIRs) BY DEF TextInv, TypesHold
  <2>2. pages[i].blocks \in Seq(Blocks) BY <2>1, PageFields
  <2>3. b \in Blocks BY <2>2, InSequence
  <2>4. b.lines \in Seq(Seq(Tokens)) BY <2>3 DEF Blocks, TokenLines
  <2> QED BY <2>4, InSequence
<1> HIDE DEF e, N
<1>4. CASE TokensOf(b.lines) \subseteq e.said
  BY <1>1, <1>2, <1>4 DEF LineTokens
<1>5. CASE b.kind = "text" /\ b.level > 0
           /\ (IF m.detect THEN Words(b.lines[1]) ELSE b.lines[1]) \in e.titles
  <2>1. Len(b.lines) = 1
    <3>1. Read(b, pages[i].page) BY DEF TextInv, PagesAreThere
    <3> QED BY <1>5, <3>1 DEF Read, IsText, IsHeading
  <2>2. b.lines \in Seq(Seq(Tokens)) BY <1>6
  <2>3. /\ TokensOf(b.lines) = ToSet(b.lines[1])
        /\ Words(b.lines[1]) = <<>> => b.lines[1] = <<>>
        /\ b.lines[1] = <<>> => TokensOf(b.lines) = {}
    BY <2>1, <2>2, EmptyText
  <2> DEFINE x == IF m.detect THEN Words(b.lines[1]) ELSE b.lines[1]
  <2>4. x = <<>> \/ \E n \in 1 .. N : lines[n].kind = "heading" /\ x = Title(m, lines[n])
    BY <1>2, <1>5
  <2>5. CASE x = <<>> BY <2>3, <2>5
  <2>6. CASE \E n \in 1 .. N : lines[n].kind = "heading" /\ x = Title(m, lines[n])
    <3>1. PICK n \in 1 .. N : lines[n].kind = "heading" /\ x = Title(m, lines[n]) BY <2>6
    <3>2. CASE m.detect
      <4>1. n \in Outline /\ Words(lines[n].words) = Words(b.lines[1])
        BY <1>1, <3>1, <3>2 DEF Outline, Title
      <4> QED BY <1>5, <3>2, <4>1
    <3>3. CASE ~m.detect
      <4>1. n \in DOMAIN lines /\ lines[n].words = b.lines[1] BY <1>1, <3>1, <3>3 DEF Title
      <4> QED BY <2>3, <4>1 DEF LineTokens
    <3> QED BY <3>2, <3>3
  <2> QED BY <2>4, <2>5, <2>6
<1>7. CASE b.kind \in {"diagram", "code"} /\ ListingRead(m, e, b.lines)
  <2> SUFFICES ASSUME NEW line \in ToSet(b.lines) PROVE Told(line) BY <1>7
  <2>1. CASE ToSet(line) \subseteq e.said BY <1>1, <1>2, <2>1 DEF LineTokens
  <2>2. CASE Listed(line).kind = "heading" /\ Title(m, Listed(line)) \in e.titles
    <3>1. Listed(line).words = Tail(line) /\ Title(m, Listed(line)) # <<>>
      BY <1>6, <2>2, ListedLine DEF Title
    <3>2. PICK n \in 1 .. N : lines[n].kind = "heading" /\ Title(m, Listed(line)) = Title(m, lines[n])
      BY <1>2, <2>2, <3>1
    <3> QED BY <1>1, <2>2, <3>1, <3>2 DEF Outline, Title
  <2> QED BY <1>7, <2>1, <2>2 DEF ListingRead
<1> HIDE DEF Told
<1> QED BY <1>3, <1>4, <1>5, <1>7 DEF Held

LEMMA FencesKept ==
    ASSUME TextInv, stage \in LateStages, NEW m, NEW w, Whole(m, lines, w),
           m.detect = opts.detectHeadings,
           \A k \in DOMAIN pages : Holds(m, w[Len(lines)], pages[k].blocks)
    PROVE  FencesAreKept
<1> DEFINE Text(e) == FenceText(Listing(e.lines), opts.detectHeadings)
<1> SUFFICES ASSUME NEW e \in FencedEntries
             PROVE  \E a, b \in DOMAIN lines :
                        /\ a < b /\ lines[a] = Fence /\ lines[b] = Fence
                        /\ FenceText(SubSeq(lines, a + 1, b - 1), opts.detectHeadings) = Text(e)
  BY DEF FencesAreKept
<1>1. PICK p \in From("worker") : e \in ToSet(entries[p]) /\ e.kind \in {"diagram", "code"}
  BY DEF FencedEntries
<1>2. p \in Present /\ given[p].from = "worker"
  BY PresentPages DEF From
<1>3. PICK i \in DOMAIN pages : \A d \in ToSet(entries[p]) : InBlocks(d, pages[i].blocks)
  <2>1. stage \notin EntryStages \cup {"ir"} BY DEF LateStages, EntryStages
  <2> QED BY <1>2, <2>1 DEF TextInv, PagesAreThere
<1>4. PICK b \in ToSet(pages[i].blocks) : b.kind = e.kind /\ b.lines = e.lines
  BY <1>1, <1>3 DEF InBlocks
<1>5. Text(e) \in w[Len(lines)].fences
  BY <1>1, <1>4 DEF Holds, Held
<1> DEFINE x == Text(e)
<1> HIDE DEF x
<1>6. PICK a, c \in 1 .. Len(lines) : Bracketed(m, lines, x, a, c)
  BY <1>5, FencesAreWritten DEF x
<1>7. DOMAIN lines = 1 .. Len(lines)
  BY WholeLines
<1> QED BY <1>6, <1>7 DEF x, Bracketed

LEMMA LevelsKept ==
    ASSUME lines \in Seq(Lines)
    PROVE  LinesInv
<1>1. \A i \in DOMAIN lines : lines[i] \in Lines
  BY InSequence
<1> QED BY <1>1, LineFields DEF LinesInv

LEMMA ReadIsKept ==
    ASSUME DocumentInv
    PROVE  TextIsKept
<1>1. TextInv /\ LinesAreRead
  BY DEF DocumentInv
<1>2. CASE stage \notin LateStages
  <2>1. lines = <<>> BY <1>1, <1>2 DEF LinesAreRead
  <2>2. LinesInv BY <2>1 DEF LinesInv
  <2>3. TextReachesTheEnd /\ FencesAreKept /\ FormulasAreFormulas /\ PagesInOrder /\ OutlineDescends
    BY <1>2 DEF LateStages, TextReachesTheEnd, FencesAreKept, FormulasAreFormulas, PagesInOrder,
                OutlineDescends
  <2> QED BY <2>2, <2>3 DEF TextIsKept
<1>3. CASE stage \in LateStages
  <2> DEFINE m == Manner(opts, stage)
  <2>1. opts \in Options BY <1>1, DocumentAssumption DEF TextInv, TypesHold
  <2>2. /\ m \in Manners /\ m.formulas = opts.extractEquations /\ m.detect = opts.detectHeadings
        /\ m.ordered = (opts.detectHeadings /\ stage # "hierarchy")
        /\ m.repaired = (opts.extractEquations /\ stage \in {"audit", "done"})
    BY <2>1, MannerFields
  <2> HIDE DEF m
  <2>3. PICK e : ReadsAll(m, pages, opts.preserveMarkers, lines, e)
    BY <1>1, <1>3 DEF LinesAreRead, CanBeRead, m
  <2>4. /\ lines \in Seq(Lines) /\ Free(e)
        /\ e.marked = IF opts.preserveMarkers THEN {pages[k].page : k \in DOMAIN pages} ELSE {}
        /\ \A k \in DOMAIN pages : Holds(m, e, pages[k].blocks)
    BY <2>3 DEF ReadsAll
  <2>5. PICK s \in Int : Takes(m, lines, Start(s), e) BY <2>3 DEF ReadsAll
  <2>6. PICK w : Walk(m, lines, w) /\ w[0] = Start(s) /\ w[Len(lines)] = e BY <2>5 DEF Takes
  <2>7. Whole(m, lines, w) BY <2>2, <2>4, <2>6 DEF Whole
  <2>8. \A k \in DOMAIN pages : Holds(m, w[Len(lines)], pages[k].blocks) BY <2>4, <2>6
  <2>9. opts.preserveMarkers => w[Len(lines)].marked = Present
    <3>1. stage \notin EntryStages \cup {"ir"} BY <1>3 DEF LateStages, EntryStages
    <3>2. {pages[k].page : k \in DOMAIN pages} = Present BY <1>1, <3>1 DEF TextInv, PagesAreThere
    <3> QED BY <2>4, <2>6, <3>2
  <2>10. LinesInv BY <2>4, LevelsKept
  <2>11. TextReachesTheEnd BY <1>1, <2>2, <2>7, <2>8, TextKept
  <2>12. FencesAreKept BY <1>1, <1>3, <2>2, <2>7, <2>8, FencesKept
  <2>13. FormulasAreFormulas
    <3>1. CASE stage \in {"audit", "done"}
      <4>1. opts.extractEquations => m.repaired BY <2>2, <3>1
      <4> QED BY <2>7, <4>1, FormulasKept
    <3>2. CASE stage \notin {"audit", "done"} BY <3>2 DEF FormulasAreFormulas
    <3> QED BY <3>1, <3>2
  <2>14. PagesInOrder BY <2>7, <2>9, PagesKept
  <2>15. OutlineDescends
    <3>1. stage \in {"paragraphs", "hyphens", "formulas", "audit", "done"} /\ opts.detectHeadings
             => m.ordered
      BY <2>2
    <3> QED BY <2>7, <3>1, OutlineKept
  <2> QED BY <2>10, <2>11, <2>12, <2>13, <2>14, <2>15 DEF TextIsKept
<1> QED BY <1>2, <1>3

-----------------------------------------------------------------------------
(* The theorems *)

\* In every state the variables are what they are meant to be, the passes have what they
\* work on, and the pages are handed over: the invariant that the theorems below rest on.
THEOREM TextIsSound == Spec => []TextInv
BY TextInit, TextStep, PTL DEF Spec

LEMMA LinkedPagesHold ==
    ASSUME TextInv
    PROVE  PagesInv /\ RelationsHold
<1>1. /\ stage \in Stages /\ todo \subseteq From("worker")
      /\ \A i \in DOMAIN pages : pages[i].page \in Present /\ LinkedPage(pages[i])
  BY DEF TextInv, TypesHold, PassesCanRun, PagesAreThere
<1>2. PagesInv
  BY <1>1 DEF PagesInv, LinkedPage
<1>3. RelationsHold
  <2> SUFFICES ASSUME NEW i \in DOMAIN pages, NEW r \in pages[i].relations
               PROVE  LET ids == {b.id : b \in ToSet(pages[i].blocks)}
                      IN  /\ r.from \in ids /\ r.to \in ids /\ r.from # r.to
                          /\ \A s \in pages[i].relations : s.to = r.to => s = r
    BY DEF RelationsHold
  <2>1. LinkedPage(pages[i]) BY <1>1
  <2> QED BY <2>1 DEF LinkedPage
<1> QED BY <1>2, <1>3

\* The columns are read down as soon as the entries of a page are ordered.
LEMMA ColumnsInit == Init => ColumnsReadDown
BY DEF Init, ColumnsReadDown

LEMMA ColumnsStep == TextInv /\ ColumnsReadDown /\ [Next]_vars => ColumnsReadDown'
<1> SUFFICES ASSUME TextInv, ColumnsReadDown, [Next]_vars, stage' = "headings", opts'.flows,
                    TwoColumns(entries'[Turn'])
             PROVE  ReadDown(entries'[Turn'])
  BY DEF ColumnsReadDown
<1>1. CASE Order
  <2>1. /\ entries' = [entries EXCEPT ![Turn] = OrderEntries(entries[Turn], opts.flows)]
        /\ todo' = todo /\ opts' = opts /\ stage = "order"
    BY <1>1 DEF Order, PagePass
  <2>2. Turn' = Turn BY <2>1 DEF Turn
  <2>3. /\ entries \in [Pages -> Seq(Entries)] /\ opts.flows = TRUE
        /\ todo # {} /\ todo \subseteq Pages
    BY <2>1, DocumentAssumption, PresentPages
       DEF TextInv, TypesHold, PassesCanRun, EntryStages, Options
  <2>4. Turn \in Pages
    <3>1. todo \subseteq Nat BY <2>3 DEF Pages
    <3> QED BY <2>3, <3>1, SmallestOf DEF Turn
  <2>5. entries'[Turn'] = OrderEntries(entries[Turn], TRUE) /\ entries[Turn] \in Seq(Entries)
    BY <2>1, <2>2, <2>3, <2>4
  <2> QED BY <2>5, OrderReadsDown
<1>2. CASE UNCHANGED vars
  <2>1. stage' = stage /\ opts' = opts /\ entries' = entries /\ todo' = todo BY <1>2 DEF vars
  <2>2. Turn' = Turn BY <2>1 DEF Turn
  <2> QED BY <2>1, <2>2 DEF ColumnsReadDown
<1>3. CASE Done
  BY <1>2, <1>3 DEF Done
<1>4. CASE Headings \/ Diagrams \/ Code \/ Equations \/ DocumentIRFromPages \/ Classify \/ Apply
  BY <1>4 DEF Headings, Diagrams, Code, Equations, PagePass, DocumentIRFromPages, Classify, Apply
<1>5. CASE Write \/ Hierarchy \/ Paragraphs \/ Hyphens \/ Formulas \/ Audit
  BY <1>5 DEF Write, Hierarchy, Paragraphs, Hyphens, Formulas, LinePass, Audit
<1> QED BY <1>1, <1>2, <1>3, <1>4, <1>5 DEF Next

\* Whatever is read from the pages, whoever reads them and however often a pass merges,
\* fences, orders or drops entries: every line that was read can still be read on its page,
\* the columns of a page are read one after the other between the wide entries, the blocks
\* of a page can be told apart, a caption leads to one block that is there, and a document
\* that is not whole is not called good.
THEOREM TextKeepsPages == Spec => []PagesAreKept
<1>1. TextInv /\ ColumnsReadDown => PagesAreKept
  BY LinkedPagesHold DEF PagesAreKept, TextInv
<1> QED BY <1>1, ColumnsInit, ColumnsStep, TextIsSound, PTL DEF Spec

\* Of any document, only what the edges of other pages repeat, and numbers that stand alone,
\* is taken for running matter; a line that opens a chapter is never.
THEOREM TextLosesRunningMatterOnly == Spec => OnlyRunningMatterGoes
<1> DEFINE Known == \A i \in DOMAIN pages : \A b \in ToSet(pages[i].blocks) : \A line \in ToSet(b.lines) :
                       \/ Explained(line, <<>>, i)
                       \/ \E kept \in ToSet(pages'[i].blocks) :
                             kept.id = b.id /\ \E rest \in ToSet(kept.lines) : Explained(line, rest, i)
           Spare == \A i \in DOMAIN pages : \A b \in ToSet(pages[i].blocks) : \A line \in ToSet(b.lines) :
                       Structural(line) => \E kept \in ToSet(pages'[i].blocks) : line \in ToSet(kept.lines)
<1>1. TextInv /\ Apply => Known /\ Spare
  BY AppliedDocument DEF Cleared
<1>2. TextInv /\ [Next]_vars => [Apply => Known]_vars /\ [Apply => Spare]_vars
  BY <1>1
<1>3. Spec => [][Apply => Known]_vars /\ [][Apply => Spare]_vars
  <2> HIDE DEF Known, Spare
  <2> QED BY <1>2, TextIsSound, PTL DEF Spec
<1> QED BY <1>3 DEF OnlyRunningMatterGoes, NotRepeatedStays, ChaptersStay

\* At every stage of the cleanup, and in the end, the document can be read line by line: fences
\* and formulas are closed, every word stands on its page, headings that are in order neither
\* repeat nor skip a level, and what the reader has read then is what the blocks say.
THEOREM DocumentIsRead == Spec => []DocumentInv
<1>1. Init => DocumentInv
  BY TextInit, LinesInit DEF DocumentInv
<1>2. DocumentInv /\ [Next]_vars => DocumentInv'
  BY TextStep, LinesStep DEF DocumentInv
<1> QED BY <1>1, <1>2, PTL DEF Spec

\* Whatever the pages hold and whatever is asked for, what the cleanup writes still says what
\* the blocks said: no pass over the lines loses, moves to another page or tears a text.
THEOREM TextKeepsContent == Spec => []TextIsKept
BY ReadIsKept, DocumentIsRead, PTL

\* The pass that is to join what page boundaries split leaves every document as it is: with
\* markers it is told to, and without them it finds nothing to join at (joinPageParagraphs).
THEOREM NoParagraphIsJoined == Spec => [][Paragraphs => UNCHANGED lines]_vars
<1>1. ASSUME DocumentInv, Paragraphs PROVE UNCHANGED lines
  <2>1. opts \in Options /\ LinesAreRead /\ stage = "paragraphs"
    BY <1>1, DocumentAssumption DEF DocumentInv, TextInv, TypesHold, Paragraphs, LinePass
  <2>2. CanBeRead(Manner(opts, stage), pages, opts.preserveMarkers, lines)
    BY <2>1 DEF LinesAreRead, LateStages
  <2>3. JoinPageParagraphs(lines, opts.preserveMarkers) = lines
    BY <2>1, <2>2, ParagraphsRead DEF Options
  <2> QED BY <1>1, <2>3 DEF Paragraphs, LinePass
<1> QED BY <1>1, DocumentIsRead, PTL DEF Spec
=============================================================================
