---------------------------- MODULE RetainProofs ----------------------------
(***************************************************************************)
(* Induction over the natural numbers, in the form the provers can use (a  *)
(* set instead of a predicate), and with it what retained computes for     *)
(* sequences of any length.                                                *)
(***************************************************************************)
EXTENDS Retain, WellFoundedInduction, TLAPS

\* A set of natural numbers that is not empty has a least element.
LEMMA LeastElement ==
  ASSUME NEW T \in SUBSET Nat, T # {}
  PROVE  \E x \in T : \A y \in T : x <= y
<1>1. PICK R : R = OpToRel(<, Nat)
  OBVIOUS
<1>2. PICK x \in T : \A y \in T : ~(<<y, x>> \in R)
  BY <1>1, NatLessThanWellFounded, WFMin
<1>3. \A y \in T : <<y, x>> \in R <=> y < x
  BY <1>1 DEF OpToRel
<1>4. \A y \in T : ~(y < x)
  BY <1>2, <1>3
<1>5. \A y \in T : y \in Nat /\ x \in Nat
  OBVIOUS
<1>. QED BY <1>4, <1>5

\* Induction: what holds of 0, and of n + 1 if it holds of n.
LEMMA Induction ==
  ASSUME NEW T \in SUBSET Nat, 0 \in T, \A n \in T : n + 1 \in T
  PROVE  T = Nat
<1> SUFFICES ASSUME Nat \ T # {} PROVE FALSE
  OBVIOUS
<1>1. PICK x \in Nat \ T : \A y \in Nat \ T : x <= y
  BY LeastElement
<1>2. x # 0 /\ x - 1 \in Nat
  OBVIOUS
<1>3. x - 1 \in T
  BY <1>1, <1>2
<1>. QED BY <1>2, <1>3

-----------------------------------------------------------------------------
(* retained                                                                *)

\* f gives what is retained of the first entries of s, up to n of them.
RetainsUpTo(f, n, s, kept) ==
  f = [k \in 0..n |->
         IF k = 0 THEN <<>>
         ELSE IF s[k] \in kept THEN Append(f[k - 1], s[k]) ELSE f[k - 1]]

\* One entry more: the function is extended by it.
LEMMA RetainsOneMore ==
  ASSUME NEW n \in Nat, NEW f, NEW s, NEW kept, RetainsUpTo(f, n, s, kept)
  PROVE  \E g : RetainsUpTo(g, n + 1, s, kept)
<1>1. PICK last : last = IF s[n + 1] \in kept THEN Append(f[n], s[n + 1]) ELSE f[n]
  OBVIOUS
<1>2. PICK g : g = [k \in 0..(n + 1) |-> IF k = n + 1 THEN last ELSE f[k]]
  OBVIOUS
<1>3. ASSUME NEW k \in 0..(n + 1)
      PROVE  g[k] = IF k = 0 THEN <<>>
                    ELSE IF s[k] \in kept THEN Append(g[k - 1], s[k]) ELSE g[k - 1]
  <2>1. CASE k = n + 1
    BY <1>1, <1>2, <2>1
  <2>2. CASE k # n + 1
    <3>1. k \in 0..n /\ g[k] = f[k] /\ (k # 0 => g[k - 1] = f[k - 1])
      BY <1>2, <2>2
    <3>. QED BY <3>1 DEF RetainsUpTo
  <2>. QED BY <2>1, <2>2
<1>4. RetainsUpTo(g, n + 1, s, kept)
  BY <1>2, <1>3 DEF RetainsUpTo
<1>. QED BY <1>4

\* The recursive definition of retained has a solution for every length.
LEMMA RetainsExists ==
  ASSUME NEW s, NEW kept, NEW n \in Nat
  PROVE  \E f : RetainsUpTo(f, n, s, kept)
<1>1. PICK T \in SUBSET Nat : \A m \in Nat : m \in T <=> \E f : RetainsUpTo(f, m, s, kept)
  <2>1. {m \in Nat : \E f : RetainsUpTo(f, m, s, kept)} \in SUBSET Nat
    OBVIOUS
  <2>. QED BY <2>1
<1>2. 0 \in T
  <2>1. PICK f : f = [k \in 0..0 |-> <<>>]
    OBVIOUS
  <2>2. RetainsUpTo(f, 0, s, kept)
    BY <2>1 DEF RetainsUpTo
  <2>. QED BY <1>1, <2>2
<1>3. ASSUME NEW m \in T PROVE m + 1 \in T
  <2>1. PICK f : RetainsUpTo(f, m, s, kept)
    BY <1>1
  <2>2. \E g : RetainsUpTo(g, m + 1, s, kept)
    BY <2>1, RetainsOneMore
  <2>. QED BY <1>1, <2>2
<1>4. T = Nat
  BY <1>2, <1>3, Induction
<1>. QED BY <1>1, <1>4

\* The function by which retained is defined, as an equation.
LEMMA RetainedIs ==
  ASSUME NEW A, NEW s \in Seq(A), NEW kept
  PROVE  \E f : RetainsUpTo(f, Len(s), s, kept) /\ retained(s, kept) = f[Len(s)]
<1>1. Len(s) \in Nat
  OBVIOUS
<1>2. PICK f : RetainsUpTo(f, Len(s), s, kept)
  BY <1>1, RetainsExists
<1>3. PICK g : g = CHOOSE h : RetainsUpTo(h, Len(s), s, kept)
  OBVIOUS
<1>4. RetainsUpTo(g, Len(s), s, kept)
  BY <1>2, <1>3
<1>5. retained(s, kept) = g[Len(s)]
  BY <1>3 DEF retained, RetainsUpTo
<1>. QED BY <1>4, <1>5

\* Two sequences have the same entries up to j, and the same of them are retained.
SameUpTo(j, s, kept, t, kept_t) ==
  \A k \in 1..j : s[k] = t[k] /\ (s[k] \in kept <=> t[k] \in kept_t)

\* What is retained of the first entries depends on these only.
LEMMA RetainsAgree ==
  ASSUME NEW s, NEW kept, NEW t, NEW kept_t, NEW n \in Nat, NEW m \in Nat, NEW j \in Nat,
         j <= n, j <= m,
         NEW f, RetainsUpTo(f, n, s, kept), NEW g, RetainsUpTo(g, m, t, kept_t),
         SameUpTo(j, s, kept, t, kept_t)
  PROVE  f[j] = g[j]
<1>1. PICK T \in SUBSET Nat : \A k \in Nat : k \in T <=> (k <= j => f[k] = g[k])
  <2>1. {k \in Nat : k <= j => f[k] = g[k]} \in SUBSET Nat
    OBVIOUS
  <2>. QED BY <2>1
<1>2. 0 \in T
  <2>1. f[0] = <<>> /\ g[0] = <<>>
    BY DEF RetainsUpTo
  <2>. QED BY <1>1, <2>1
<1>3. ASSUME NEW k \in T PROVE k + 1 \in T
  <2>. SUFFICES ASSUME k + 1 <= j PROVE f[k + 1] = g[k + 1]
    BY <1>1
  <2>1. f[k] = g[k]
    BY <1>1
  <2>2. k + 1 \in 0..n /\ k + 1 \in 0..m /\ k + 1 # 0 /\ (k + 1) - 1 = k /\ k + 1 \in 1..j
    OBVIOUS
  <2>3. f[k + 1] = IF s[k + 1] \in kept THEN Append(f[k], s[k + 1]) ELSE f[k]
    BY <2>2 DEF RetainsUpTo
  <2>4. g[k + 1] = IF t[k + 1] \in kept_t THEN Append(g[k], t[k + 1]) ELSE g[k]
    BY <2>2 DEF RetainsUpTo
  <2>. QED BY <2>1, <2>2, <2>3, <2>4 DEF SameUpTo
<1>4. j \in T
  BY <1>2, <1>3, Induction
<1>. QED BY <1>1, <1>4

\* Entry by entry: the last one of a sequence is retained or not.
LEMMA RetainedAppend ==
  ASSUME NEW A, NEW s \in Seq(A), NEW x \in A, NEW kept
  PROVE  retained(Append(s, x), kept) =
           IF x \in kept THEN Append(retained(s, kept), x) ELSE retained(s, kept)
<1>1. PICK n \in Nat : n = Len(s)
  OBVIOUS
<1>2. PICK t \in Seq(A) : t = Append(s, x)
  <2>1. Append(s, x) \in Seq(A)
    OBVIOUS
  <2>. QED BY <2>1
<1>3. Len(t) = n + 1 /\ t[n + 1] = x /\ \A k \in 1..n : s[k] = t[k]
  BY <1>1, <1>2
<1>4. PICK f : RetainsUpTo(f, n, s, kept) /\ retained(s, kept) = f[n]
  BY <1>1, RetainedIs
<1>5. PICK g : RetainsUpTo(g, n + 1, t, kept) /\ retained(t, kept) = g[n + 1]
  BY <1>3, RetainedIs
<1>6. g[n + 1] = IF t[n + 1] \in kept THEN Append(g[n], t[n + 1]) ELSE g[n]
  <2>1. n + 1 \in 0..(n + 1) /\ n + 1 # 0 /\ (n + 1) - 1 = n
    OBVIOUS
  <2>. QED BY <1>5, <2>1 DEF RetainsUpTo
<1>7. f[n] = g[n]
  <2>1. PICK m \in Nat : m = n + 1
    OBVIOUS
  <2>2. n <= m /\ n <= n
    BY <2>1
  <2>3. SameUpTo(n, s, kept, t, kept)
    BY <1>3 DEF SameUpTo
  <2>4. RetainsUpTo(f, n, s, kept) /\ RetainsUpTo(g, m, t, kept)
    BY <1>4, <1>5, <2>1
  <2>. QED BY <2>2, <2>3, <2>4, RetainsAgree
<1>. QED BY <1>2, <1>3, <1>4, <1>5, <1>6, <1>7

\* Of nothing, nothing is retained.
LEMMA RetainedEmpty ==
  ASSUME NEW kept
  PROVE  retained(<<>>, kept) = <<>>
<1>1. <<>> \in Seq({}) /\ Len(<<>>) = 0
  OBVIOUS
<1>2. PICK f : RetainsUpTo(f, 0, <<>>, kept) /\ retained(<<>>, kept) = f[0]
  BY <1>1, RetainedIs
<1>. QED BY <1>2 DEF RetainsUpTo

\* Two sets that have the same entries of a sequence retain the same.
LEMMA RetainedSame ==
  ASSUME NEW A, NEW s \in Seq(A), NEW kept, NEW others,
         \A k \in 1..Len(s) : s[k] \in kept <=> s[k] \in others
  PROVE  retained(s, kept) = retained(s, others)
<1>1. PICK n \in Nat : n = Len(s)
  OBVIOUS
<1>2. PICK f : RetainsUpTo(f, n, s, kept) /\ retained(s, kept) = f[n]
  BY <1>1, RetainedIs
<1>3. PICK g : RetainsUpTo(g, n, s, others) /\ retained(s, others) = g[n]
  BY <1>1, RetainedIs
<1>4. SameUpTo(n, s, kept, s, others) /\ n <= n
  BY <1>1 DEF SameUpTo
<1>. QED BY <1>2, <1>3, <1>4, RetainsAgree

\* If the retained entries are the first m, they are what is retained.
LEMMA RetainedPrefix ==
  ASSUME NEW A, NEW s \in Seq(A), NEW kept, NEW m \in 0..Len(s),
         \A k \in 1..Len(s) : s[k] \in kept <=> k <= m
  PROVE  retained(s, kept) = SubSeq(s, 1, m)
<1>1. PICK n \in Nat : n = Len(s)
  OBVIOUS
<1>2. PICK f : RetainsUpTo(f, n, s, kept) /\ retained(s, kept) = f[n]
  BY <1>1, RetainedIs
<1>3. PICK T \in SUBSET Nat : \A k \in Nat :
        k \in T <=> (k <= n => f[k] = SubSeq(s, 1, IF k <= m THEN k ELSE m))
  <2>1. {k \in Nat : k <= n => f[k] = SubSeq(s, 1, IF k <= m THEN k ELSE m)} \in SUBSET Nat
    OBVIOUS
  <2>. QED BY <2>1
<1>4. 0 \in T
  <2>1. f[0] = <<>> /\ SubSeq(s, 1, 0) = <<>>
    BY <1>2 DEF RetainsUpTo
  <2>2. (IF 0 <= m THEN 0 ELSE m) = 0
    BY <1>1
  <2>. QED BY <1>3, <2>1, <2>2
<1>5. ASSUME NEW k \in T PROVE k + 1 \in T
  <2>. SUFFICES ASSUME k + 1 <= n
                PROVE  f[k + 1] = SubSeq(s, 1, IF k + 1 <= m THEN k + 1 ELSE m)
    BY <1>3
  <2>1. f[k] = SubSeq(s, 1, IF k <= m THEN k ELSE m)
    BY <1>3
  <2>2. f[k + 1] = IF s[k + 1] \in kept THEN Append(f[k], s[k + 1]) ELSE f[k]
    <3>1. k + 1 \in 0..n /\ k + 1 # 0 /\ (k + 1) - 1 = k
      OBVIOUS
    <3>. QED BY <1>2, <3>1 DEF RetainsUpTo
  <2>3. k + 1 \in 1..Len(s) /\ m \in Nat /\ m <= Len(s)
    BY <1>1
  <2>4. CASE k + 1 <= m
    <3>1. f[k + 1] = Append(SubSeq(s, 1, k), s[k + 1])
      BY <2>1, <2>2, <2>3, <2>4
    <3>2. Append(SubSeq(s, 1, k), s[k + 1]) = SubSeq(s, 1, k + 1)
      BY <2>3
    <3>. QED BY <2>4, <3>1, <3>2
  <2>5. CASE ~(k + 1 <= m)
    <3>1. f[k + 1] = f[k]
      BY <2>2, <2>3, <2>5
    <3>2. (IF k <= m THEN k ELSE m) = m
      BY <2>3, <2>5
    <3>. QED BY <2>1, <2>5, <3>1, <3>2
  <2>. QED BY <2>4, <2>5
<1>6. n \in T
  BY <1>4, <1>5, Induction
<1>7. (IF n <= m THEN n ELSE m) = m
  BY <1>1
<1>. QED BY <1>2, <1>3, <1>6, <1>7

\* Retaining only drops entries.
LEMMA RetainedType ==
  ASSUME NEW A, NEW s \in Seq(A), NEW kept
  PROVE  retained(s, kept) \in Seq(A \cap kept)
<1>1. PICK n \in Nat : n = Len(s)
  OBVIOUS
<1>2. PICK f : RetainsUpTo(f, n, s, kept) /\ retained(s, kept) = f[n]
  BY <1>1, RetainedIs
<1>3. PICK T \in SUBSET Nat : \A k \in Nat : k \in T <=> (k <= n => f[k] \in Seq(A \cap kept))
  <2>1. {k \in Nat : k <= n => f[k] \in Seq(A \cap kept)} \in SUBSET Nat
    OBVIOUS
  <2>. QED BY <2>1
<1>4. 0 \in T
  <2>1. f[0] = <<>>
    BY <1>2 DEF RetainsUpTo
  <2>2. f[0] \in Seq(A \cap kept)
    BY <2>1
  <2>. QED BY <1>3, <2>2
<1>5. ASSUME NEW k \in T PROVE k + 1 \in T
  <2>. SUFFICES ASSUME k + 1 <= n PROVE f[k + 1] \in Seq(A \cap kept)
    BY <1>3
  <2>1. f[k] \in Seq(A \cap kept) /\ s[k + 1] \in A
    BY <1>1, <1>3
  <2>2. f[k + 1] = IF s[k + 1] \in kept THEN Append(f[k], s[k + 1]) ELSE f[k]
    <3>1. k + 1 \in 0..n /\ k + 1 # 0 /\ (k + 1) - 1 = k
      OBVIOUS
    <3>. QED BY <1>2, <3>1 DEF RetainsUpTo
  <2>. QED BY <2>1, <2>2
<1>6. n \in T
  BY <1>4, <1>5, Induction
<1>. QED BY <1>2, <1>3, <1>6
=============================================================================
