--------------------------- MODULE Sublists_proofs ---------------------------
(***************************************************************************)
(* What Omit leaves of a sequence, of any length and any values. Its       *)
(* recursion is unfolded, and followed from one index to the next, by      *)
(* induction in the form of a set of numbers (SetInduction).               *)
(***************************************************************************)
EXTENDS Sublists, Functions, WellFoundedInduction, SequenceTheorems, TLAPS

-----------------------------------------------------------------------------
LEMMA SetInduction ==
  ASSUME NEW T \in SUBSET Nat, 0 \in T, \A n \in T : n + 1 \in T
  PROVE  T = Nat
<1> SUFFICES ASSUME Nat \ T # {} PROVE FALSE
  OBVIOUS
<1>1. PICK n \in Nat \ T : \A m \in Nat \ T : n <= m
  <2> DEFINE less == OpToRel(<, Nat)
  <2>1. IsWellFoundedOn(less, Nat)
    BY NatLessThanWellFounded
  <2>2. \A i, j \in Nat : i < j => <<i, j>> \in less
    BY DEF OpToRel
  <2> HIDE DEF less
  <2>3. PICK k \in Nat \ T : \A m \in Nat \ T : <<m, k>> \notin less
    <3>1. Nat \ T \subseteq Nat
      OBVIOUS
    <3>. QED
      BY <2>1, <3>1, WFMin
  <2>4. ASSUME NEW m \in Nat \ T PROVE k <= m
    <3>1. ~(m < k)
      BY <2>2, <2>3
    <3>. QED
      BY <3>1
  <2>. QED
    BY <2>4
<1>2. n # 0 /\ n - 1 \in Nat /\ n - 1 \notin Nat \ T
  BY <1>1
<1>. QED
  BY <1>2

(* One step of the recursion. *)
NextLeft(s, gone, upTo, n) ==
  IF n = 0 THEN <<>>
  ELSE IF s[n] \in gone THEN upTo[n - 1] ELSE Append(upTo[n - 1], s[n])

LEMMA OmitUnfolds ==
  ASSUME NEW S, NEW s \in Seq(S), NEW gone
  PROVE  \E upTo : /\ upTo = [n \in 0..Len(s) |-> NextLeft(s, gone, upTo, n)]
                   /\ Omit(s, gone) = upTo[Len(s)]
<1> DEFINE Solves(f, m) == f = [n \in 0..m |-> NextLeft(s, gone, f, n)]
           T == {m \in Nat : \E f : Solves(f, m)}
<1>1. 0 \in T
  <2>1. Solves([n \in 0..0 |-> <<>>], 0)
    BY DEF NextLeft
  <2>. QED
    BY <2>1
<1>2. ASSUME NEW m \in T PROVE m + 1 \in T
  <2>1. PICK f : Solves(f, m)
    OBVIOUS
  <2> DEFINE g == [n \in 0..(m + 1) |-> IF n \in 0..m THEN f[n] ELSE NextLeft(s, gone, f, n)]
  <2>2. ASSUME NEW n \in 0..(m + 1) PROVE g[n] = NextLeft(s, gone, g, n)
    <3>1. n # 0 => n - 1 \in 0..m /\ g[n - 1] = f[n - 1]
      OBVIOUS
    <3>2. NextLeft(s, gone, g, n) = NextLeft(s, gone, f, n)
      BY <3>1 DEF NextLeft
    <3>3. n \in 0..m => f[n] = NextLeft(s, gone, f, n)
      BY <2>1
    <3>. QED
      BY <3>2, <3>3
  <2>3. Solves(g, m + 1)
    BY <2>2
  <2>. QED
    BY <2>3
<1> HIDE DEF T
<1>3. T = Nat
  BY <1>1, <1>2, SetInduction DEF T
<1>4. \E f : Solves(f, Len(s))
  BY <1>3 DEF T
<1> DEFINE upTo == CHOOSE f : Solves(f, Len(s))
<1>5. Solves(upTo, Len(s))
  BY <1>4
<1>6. Omit(s, gone) = upTo[Len(s)]
  BY Zenon DEF Omit, NextLeft
<1>. QED
  BY <1>5, <1>6

(* "at" tells where in s the entries of "rest" are.                        *)
IsLeft(rest, at, s, n, gone) ==
  /\ at \in [1..Len(rest) -> 1..n]
  /\ \A i \in 1..Len(rest) : rest[i] = s[at[i]] /\ rest[i] \notin gone
  /\ \A i, j \in 1..Len(rest) : i < j => at[i] < at[j]
  /\ \A k \in 1..n : s[k] \in gone \/ \E i \in 1..Len(rest) : at[i] = k

LEMMA OneMoreIsLeft ==
  ASSUME NEW S, NEW s \in Seq(S), NEW gone, NEW n \in Nat, n + 1 <= Len(s),
         NEW rest \in Seq(S), NEW at, IsLeft(rest, at, s, n, gone),
         s[n + 1] \notin gone
  PROVE  \E one : IsLeft(Append(rest, s[n + 1]), one, s, n + 1, gone)
<1> DEFINE more == Append(rest, s[n + 1])
           one  == [i \in 1..(Len(rest) + 1) |-> IF i = Len(rest) + 1 THEN n + 1 ELSE at[i]]
<1>1. s[n + 1] \in S /\ Len(rest) \in Nat
  BY ElementOfSeq, LenProperties
<1>2. /\ Len(more) = Len(rest) + 1
      /\ \A i \in 1..Len(rest) : more[i] = rest[i]
      /\ more[Len(rest) + 1] = s[n + 1]
  BY <1>1, AppendProperties
<1>3. /\ at \in [1..Len(rest) -> 1..n]
      /\ \A i \in 1..Len(rest) : rest[i] = s[at[i]] /\ rest[i] \notin gone
      /\ \A i, j \in 1..Len(rest) : i < j => at[i] < at[j]
      /\ \A k \in 1..n : s[k] \in gone \/ \E i \in 1..Len(rest) : at[i] = k
  BY DEF IsLeft
<1> HIDE DEF more
<1>4. one \in [1..Len(more) -> 1..(n + 1)]
  BY <1>1, <1>2, <1>3
<1>9. /\ \A i \in 1..Len(rest) : one[i] = at[i] /\ at[i] \in 1..n
      /\ one[Len(rest) + 1] = n + 1
      /\ \A i \in 1..Len(more) : i \in 1..Len(rest) \/ i = Len(rest) + 1
  BY <1>1, <1>2, <1>3
<1> HIDE DEF one
<1>5. \A i \in 1..Len(more) : more[i] = s[one[i]] /\ more[i] \notin gone
  BY <1>2, <1>3, <1>9
<1>6. ASSUME NEW i \in 1..Len(more), NEW j \in 1..Len(more), i < j PROVE one[i] < one[j]
  <2>1. i \in 1..Len(rest)
    BY <1>1, <1>2, <1>6
  <2>2. CASE j \in 1..Len(rest)
    BY <1>3, <1>6, <1>9, <2>1, <2>2
  <2>3. CASE j = Len(rest) + 1
    <3>1. one[i] \in 1..n /\ one[j] = n + 1
      BY <1>9, <2>1, <2>3
    <3>. QED
      BY <3>1
  <2>. QED
    BY <1>9, <2>2, <2>3
<1>7. ASSUME NEW k \in 1..(n + 1), s[k] \notin gone
      PROVE  \E i \in 1..Len(more) : one[i] = k
  <2>1. CASE k = n + 1
    <3>1. Len(rest) + 1 \in 1..Len(more) /\ one[Len(rest) + 1] = k
      BY <1>1, <1>2, <1>9, <2>1
    <3>. QED
      BY <3>1
  <2>2. CASE k # n + 1
    <3>1. PICK i \in 1..Len(rest) : at[i] = k
      BY <1>3, <1>7, <2>2
    <3>2. i \in 1..Len(more) /\ one[i] = k
      BY <1>1, <1>2, <1>9, <3>1
    <3>. QED
      BY <3>2
  <2>. QED
    BY <2>1, <2>2
<1>8. IsLeft(more, one, s, n + 1, gone)
  BY <1>4, <1>5, <1>6, <1>7 DEF IsLeft
<1>. QED
  BY <1>8 DEF more

(* What Omit leaves: the values that are not gone, each at its place in    *)
(* the order of s.                                                         *)
LEMMA OmitLeaves ==
  ASSUME NEW S, NEW s \in Seq(S), NEW gone
  PROVE  /\ Omit(s, gone) \in Seq(S)
         /\ \E at : IsLeft(Omit(s, gone), at, s, Len(s), gone)
<1>1. PICK upTo : /\ upTo = [n \in 0..Len(s) |-> NextLeft(s, gone, upTo, n)]
                  /\ Omit(s, gone) = upTo[Len(s)]
  BY OmitUnfolds
<1>2. Len(s) \in Nat
  BY LenProperties
<1> DEFINE Holds(n) == upTo[n] \in Seq(S) /\ \E at : IsLeft(upTo[n], at, s, n, gone)
           T == {n \in Nat : n <= Len(s) => Holds(n)}
<1>3. 0 \in T
  <2>1. upTo[0] = <<>>
    BY <1>1, <1>2 DEF NextLeft
  <2>2. IsLeft(<<>>, <<>>, s, 0, gone)
    BY DEF IsLeft
  <2>. QED
    BY <2>1, <2>2, EmptySeq
<1>4. ASSUME NEW n \in T PROVE n + 1 \in T
  <2> SUFFICES ASSUME n + 1 <= Len(s) PROVE Holds(n + 1)
    OBVIOUS
  <2>1. PICK at : upTo[n] \in Seq(S) /\ IsLeft(upTo[n], at, s, n, gone)
    BY <1>2
  <2>2. n + 1 \in 0..Len(s) /\ n + 1 # 0 /\ (n + 1) - 1 = n
    BY <1>2
  <2>3. upTo[n + 1] = IF s[n + 1] \in gone THEN upTo[n] ELSE Append(upTo[n], s[n + 1])
    BY <1>1, <2>2 DEF NextLeft
  <2>4. CASE s[n + 1] \in gone
    <3>1. IsLeft(upTo[n], at, s, n + 1, gone)
      BY <2>1, <2>4 DEF IsLeft
    <3>. QED
      BY <2>1, <2>3, <2>4, <3>1
  <2>5. CASE s[n + 1] \notin gone
    <3>1. s[n + 1] \in S
      BY <1>2, ElementOfSeq
    <3>2. Append(upTo[n], s[n + 1]) \in Seq(S)
      BY <2>1, <3>1, AppendProperties
    <3>3. \E one : IsLeft(Append(upTo[n], s[n + 1]), one, s, n + 1, gone)
      BY <2>1, <2>5, OneMoreIsLeft
    <3>. QED
      BY <2>3, <2>5, <3>2, <3>3
  <2>. QED
    BY <2>4, <2>5
<1> HIDE DEF T
<1>5. T = Nat
  BY <1>3, <1>4, SetInduction DEF T
<1>. QED
  BY <1>1, <1>2, <1>5 DEF T

LEMMA OmitRange ==
  ASSUME NEW S, NEW s \in Seq(S), NEW gone
  PROVE  Range(Omit(s, gone)) = Range(s) \ gone
<1> DEFINE rest == Omit(s, gone)
<1>1. rest \in Seq(S) /\ \E at : IsLeft(rest, at, s, Len(s), gone)
  BY OmitLeaves
<1> HIDE DEF rest
<1>2. PICK at : IsLeft(rest, at, s, Len(s), gone)
  BY <1>1
<1>3. DOMAIN s = 1..Len(s) /\ DOMAIN rest = 1..Len(rest)
  BY <1>1, LenProperties
<1>4. \A i \in DOMAIN rest : rest[i] \in Range(s) /\ rest[i] \notin gone
  BY <1>2, <1>3 DEF IsLeft, Range
<1>5. ASSUME NEW k \in DOMAIN s, s[k] \notin gone PROVE \E i \in DOMAIN rest : rest[i] = s[k]
  BY <1>2, <1>3, <1>5 DEF IsLeft
<1>6. Range(rest) = Range(s) \ gone
  BY <1>4, <1>5 DEF Range
<1>. QED
  BY <1>6 DEF rest

LEMMA OmitInjective ==
  ASSUME NEW S, NEW s \in Seq(S), NEW gone, IsInjective(s)
  PROVE  IsInjective(Omit(s, gone))
<1> DEFINE rest == Omit(s, gone)
<1>1. rest \in Seq(S) /\ \E at : IsLeft(rest, at, s, Len(s), gone)
  BY OmitLeaves
<1> HIDE DEF rest
<1>2. PICK at : IsLeft(rest, at, s, Len(s), gone)
  BY <1>1
<1>3. DOMAIN s = 1..Len(s) /\ DOMAIN rest = 1..Len(rest) /\ Len(rest) \in Nat
  BY <1>1, LenProperties
<1>4. ASSUME NEW i \in DOMAIN rest, NEW j \in DOMAIN rest, rest[i] = rest[j] PROVE i = j
  <2>1. at[i] \in DOMAIN s /\ at[j] \in DOMAIN s /\ s[at[i]] = s[at[j]]
    BY <1>2, <1>3, <1>4 DEF IsLeft
  <2>2. at[i] = at[j]
    BY <2>1 DEF IsInjective
  <2>3. /\ i < j => at[i] < at[j]
        /\ j < i => at[j] < at[i]
    BY <1>2, <1>3 DEF IsLeft
  <2>4. at[i] \in Int
    BY <1>3, <2>1
  <2>. QED
    BY <1>3, <2>2, <2>3, <2>4
<1>5. IsInjective(rest)
  BY <1>4 DEF IsInjective
<1>. QED
  BY <1>5 DEF rest
=============================================================================
