---------------------------- MODULE LedgerProofs ----------------------------
(***************************************************************************)
(* What holds of the ledger for every number of fills, lots, failures and  *)
(* corporate actions.  The first parts are about the shares of sets of     *)
(* lots and about the ratios of ShareTerms.                                *)
(*                                                                         *)
(* The library's induction theorems cannot be instantiated by the provers  *)
(* at hand, so induction over finite sets goes through a minimal           *)
(* counterexample, which exists as strict inclusion is well founded.       *)
(***************************************************************************)
EXTENDS Ledger, FiniteSetTheorems, TLAPS

-----------------------------------------------------------------------------
(* Finite sets, and the shares of finite sets of lots.                     *)

(* A collection that holds every subset all of whose proper subsets it     *)
(* holds, holds all subsets of a finite set.                               *)
LEMMA SubsetInduction ==
  ASSUME NEW S, IsFiniteSet(S), NEW T,
         \A A \in SUBSET S : (\A B \in SUBSET A : B # A => B \in T) => A \in T
  PROVE  SUBSET S \subseteq T
<1> DEFINE Missing == {A \in SUBSET S : A \notin T}
<1>1. SUFFICES ASSUME Missing # {} PROVE FALSE
  OBVIOUS
<1>2. Missing \subseteq FiniteSubsetsOf(S)
  BY FS_Subset DEF FiniteSubsetsOf
<1>3. IsWellFoundedOn(StrictSubsetOrdering(S), FiniteSubsetsOf(S))
  BY FS_StrictSubsetOrderingWellFounded
<1>4. PICK A \in Missing : \A B \in Missing : <<B, A>> \notin StrictSubsetOrdering(S)
  <2> HIDE DEF Missing
  <2> QED  BY <1>1, <1>2, <1>3, WFMin
<1>5. \A B \in SUBSET A : B # A => B \in T
  BY <1>4 DEF StrictSubsetOrdering
<1>6. QED  BY <1>4, <1>5

(* A count that gives each lot of a finite set an integer. *)
LEMMA SharesFinite ==
  ASSUME NEW S, IsFiniteSet(S), NEW count, \A b \in S : count[b] \in Int
  PROVE  IsFiniteSet(Shares(count, S)) /\ Total(count, S) \in Nat
<1> DEFINE f     == [b \in S |-> {b} \X (1 .. count[b])]
           Parts == {f[b] : b \in S}
<1>1. \A b \in S : IsFiniteSet(f[b])
  <2> SUFFICES ASSUME NEW b \in S PROVE IsFiniteSet({b} \X (1 .. count[b]))
    OBVIOUS
  <2>1. IsFiniteSet({b})
    BY FS_Singleton
  <2>2. IsFiniteSet(1 .. count[b])
    BY FS_Interval
  <2> QED  BY <2>1, <2>2, FS_Product
<1>2. IsFiniteSet(Parts)
  <2>1. f \in Surjection(S, Parts)
    BY DEF Surjection
  <2> QED  BY <2>1, FS_Surjection
<1>3. IsFiniteSet(UNION Parts)
  <2> HIDE DEF f
  <2> QED  BY <1>1, <1>2, FS_UNION
<1>4. Shares(count, S) = UNION Parts
  BY DEF Shares
<1> QED  BY <1>3, <1>4, FS_CardinalityType DEF Total

(* The shares of one more lot. *)
LEMMA TotalPlus ==
  ASSUME NEW S, IsFiniteSet(S), NEW count, NEW b, b \notin S,
         \A c \in S \cup {b} : count[c] \in Int
  PROVE  Total(count, S \cup {b}) =
           Total(count, S) + (IF count[b] <= 0 THEN 0 ELSE count[b])
<1> DEFINE mine == {b} \X (1 .. count[b])
<1>1. Shares(count, S \cup {b}) = Shares(count, S) \cup mine
  BY DEF Shares
<1>2. Shares(count, S) \cap mine = {}
  BY DEF Shares
<1>3. IsFiniteSet(mine) /\ Cardinality(mine) = IF count[b] <= 0 THEN 0 ELSE count[b]
  <2>1. /\ IsFiniteSet(1 .. count[b])
        /\ Cardinality(1 .. count[b]) = IF count[b] < 1 THEN 0 ELSE count[b] - 1 + 1
    BY FS_Interval
  <2>2. IsFiniteSet({b}) /\ Cardinality({b}) = 1
    BY FS_Singleton
  <2>3. IsFiniteSet(mine) /\ Cardinality(mine) = Cardinality({b}) * Cardinality(1 .. count[b])
    BY <2>1, <2>2, FS_Product
  <2> QED  BY <2>1, <2>2, <2>3
<1>4. IsFiniteSet(Shares(count, S))
  BY SharesFinite
<1> HIDE DEF mine
<1>5. Cardinality(Shares(count, S) \cup mine) =
        Cardinality(Shares(count, S)) + Cardinality(mine)
        - Cardinality(Shares(count, S) \cap mine)
  BY <1>3, <1>4, FS_Union
<1>6. Cardinality(Shares(count, S) \cap mine) = 0
  BY <1>2, FS_EmptySet
<1>7. Cardinality(Shares(count, S)) \in Nat /\ Cardinality(mine) \in Nat
  BY <1>3, <1>4, FS_CardinalityType
<1>8. Total(count, S \cup {b}) = Total(count, S) + Cardinality(mine)
  <2>1. Cardinality(Shares(count, S) \cup mine) =
          Cardinality(Shares(count, S)) + Cardinality(mine)
    BY <1>5, <1>6, <1>7
  <2> QED  BY <1>1, <2>1 DEF Total
<1> DEFINE more == IF count[b] <= 0 THEN 0 ELSE count[b]
<1>9. Cardinality(mine) = more
  BY <1>3
<1> HIDE DEF more
<1>10. Total(count, S \cup {b}) = Total(count, S) + more
  BY <1>8, <1>9
<1> QED  BY <1>10 DEF more

(* Only the counts of the lots matter; more lots hold no fewer shares. *)
LEMMA TotalSame ==
  ASSUME NEW S, NEW f, NEW g, \A b \in S : f[b] = g[b]
  PROVE  Total(f, S) = Total(g, S)
<1>1. Shares(f, S) = Shares(g, S)
  BY DEF Shares
<1> QED  BY <1>1 DEF Total

LEMMA TotalMonotone ==
  ASSUME NEW S, IsFiniteSet(S), NEW R \in SUBSET S, NEW count,
         \A b \in S : count[b] \in Int
  PROVE  Total(count, R) <= Total(count, S)
<1>1. Shares(count, R) \subseteq Shares(count, S)
  BY DEF Shares
<1> QED  BY <1>1, SharesFinite, FS_Subset DEF Total

-----------------------------------------------------------------------------
(* Combined is a recursive function on sets: that it satisfies its         *)
(* equation has to be shown before its values can be reasoned about.       *)

Last(S)     == CHOOSE a \in S : TRUE
RatioOf(a)  == [new |-> NewShares[a], old |-> OldShares[a]]

(* f obeys the equation of Combined on every subset of S. *)
ObeysOn(f, S) ==
  \A A \in SUBSET S :
    f[A] = IF A = {} THEN Unchanged ELSE Times(f[A \ {Last(A)}], RatioOf(Last(A)))

(* Ratios that do not shrink a holding. *)
Growth == {r \in Ratio : r.old <= r.new}

LEMMA ProductMonotone ==
  ASSUME NEW a \in Nat, NEW b \in Nat, NEW c \in Nat, NEW d \in Nat, b <= a, d <= c
  PROVE  b * d <= a * c
<1>1. b * d <= a * d  BY SMT
<1>2. a * d <= a * c  BY SMT
<1>3. QED  BY <1>1, <1>2, SMT

LEMMA ProductPositive ==
  ASSUME NEW a \in Nat \ {0}, NEW b \in Nat \ {0}
  PROVE  a * b \in Nat \ {0}
BY SMT

(* The product of two growth factors is one. *)
LEMMA TimesGrowth ==
  ASSUME NEW r \in Growth, NEW s \in Growth
  PROVE  Times(r, s) \in Growth
<1>1. r.new \in Nat \ {0} /\ r.old \in Nat \ {0} /\ r.old <= r.new  BY DEF Growth, Ratio
<1>2. s.new \in Nat \ {0} /\ s.old \in Nat \ {0} /\ s.old <= s.new  BY DEF Growth, Ratio
<1>3. r.new * s.new \in Nat \ {0} /\ r.old * s.old \in Nat \ {0}
  BY <1>1, <1>2, ProductPositive
<1>4. r.old * s.old <= r.new * s.new
  BY <1>1, <1>2, ProductMonotone
<1>5. QED  BY <1>3, <1>4 DEF Times, Growth, Ratio

LEMMA UnchangedGrowth == Unchanged \in Growth
BY DEF Unchanged, Growth, Ratio

LEMMA RatioOfGrowth == \A a \in Actions : RatioOf(a) \in Growth
BY TermsAssumption DEF RatioOf, Growth, Ratio

LEMMA LastIn == \A S : S # {} => Last(S) \in S
BY DEF Last

(* Two functions that obey the equation below S agree at S. *)
LEMMA ObeysUnique ==
  ASSUME NEW S \in SUBSET Actions, NEW f, NEW g, ObeysOn(f, S), ObeysOn(g, S)
  PROVE  f[S] = g[S]
<1> DEFINE T == {A \in SUBSET S : f[A] = g[A]}
<1>1. IsFiniteSet(S)
  BY TermsAssumption, FS_Subset
<1>2. ASSUME NEW A \in SUBSET S, \A B \in SUBSET A : B # A => B \in T
      PROVE  A \in T
  <2>1. CASE A = {}
    BY <2>1 DEF ObeysOn
  <2>2. CASE A # {}
    <3>1. A \ {Last(A)} \in T
      BY <1>2, <2>2, LastIn
    <3>2. f[A] = Times(f[A \ {Last(A)}], RatioOf(Last(A)))
      BY <2>2 DEF ObeysOn
    <3>3. g[A] = Times(g[A \ {Last(A)}], RatioOf(Last(A)))
      BY <2>2 DEF ObeysOn
    <3>4. QED  BY <3>1, <3>2, <3>3
  <2>3. QED  BY <2>1, <2>2
<1>3. SUBSET S \subseteq T
  <2> HIDE DEF T
  <2> QED  BY <1>1, <1>2, SubsetInduction
<1>4. QED  BY <1>3

(* Some typed function obeys the equation on every subset of S. *)
LEMMA ObeysExists ==
  \A S \in SUBSET Actions : \E f \in [SUBSET Actions -> Growth] : ObeysOn(f, S)
<1> DEFINE F == [SUBSET Actions -> Growth]
           T == {S \in SUBSET Actions : \E f \in F : ObeysOn(f, S)}
<1>1. ASSUME NEW A \in SUBSET Actions, \A B \in SUBSET A : B # A => B \in T
      PROVE  A \in T
  <2> DEFINE G(B) == CHOOSE f \in F : ObeysOn(f, B)
             Rest(X) == X \ {Last(X)}
             h == [X \in SUBSET Actions |->
                     IF X # {} /\ X \subseteq A
                     THEN Times(G(Rest(X))[Rest(X)], RatioOf(Last(X)))
                     ELSE Unchanged]
  <2>1. \A X \in SUBSET A : X # {} => Rest(X) \in SUBSET A /\ Rest(X) # A /\ Last(X) \in Actions
    BY LastIn
  <2>2. \A B \in SUBSET A : B # A => G(B) \in F /\ ObeysOn(G(B), B)
    BY <1>1
  <2>3. h \in F
    <3> SUFFICES ASSUME NEW X \in SUBSET Actions PROVE h[X] \in Growth
      OBVIOUS
    <3>1. CASE X # {} /\ X \subseteq A
      <4>1. G(Rest(X)) \in F
        BY <3>1, <2>1, <2>2
      <4>2. G(Rest(X))[Rest(X)] \in Growth
        <5> HIDE DEF G
        <5> QED  BY <4>1, <3>1, <2>1
      <4>3. h[X] = Times(G(Rest(X))[Rest(X)], RatioOf(Last(X)))
        BY <3>1
      <4>4. RatioOf(Last(X)) \in Growth
        BY <2>1, <3>1, RatioOfGrowth
      <4> QED  BY <4>2, <4>3, <4>4, TimesGrowth
    <3>2. CASE ~(X # {} /\ X \subseteq A)
      BY <3>2, UnchangedGrowth
    <3> QED  BY <3>1, <3>2
  <2>4. \A B \in SUBSET A : B # A => h[B] = G(B)[B]
    <3> SUFFICES ASSUME NEW B \in SUBSET A, B # A PROVE h[B] = G(B)[B]
      OBVIOUS
    <3>1. ObeysOn(G(B), B)
      BY <2>2
    <3>2. CASE B = {}
      <4> HIDE DEF G
      <4>1. G(B)[B] = Unchanged  BY <3>1, <3>2 DEF ObeysOn
      <4> QED  BY <4>1, <3>2
    <3>3. CASE B # {}
      <4>1. Rest(B) \in SUBSET B /\ Rest(B) \in SUBSET A /\ Rest(B) # A
        BY <3>3, <2>1
      <4>2. ObeysOn(G(Rest(B)), Rest(B))
        BY <4>1, <2>2
      <4>3. ObeysOn(G(B), Rest(B))
        <5> HIDE DEF G
        <5> QED  BY <3>1, <4>1 DEF ObeysOn
      <4>4. G(B)[Rest(B)] = G(Rest(B))[Rest(B)]
        <5> HIDE DEF G
        <5> QED  BY <4>1, <4>2, <4>3, ObeysUnique
      <4>5. G(B)[B] = Times(G(B)[Rest(B)], RatioOf(Last(B)))
        <5> HIDE DEF G
        <5> QED  BY <3>1, <3>3 DEF ObeysOn
      <4>6. h[B] = Times(G(Rest(B))[Rest(B)], RatioOf(Last(B)))
        BY <3>3
      <4> QED  BY <4>4, <4>5, <4>6
    <3> QED  BY <3>2, <3>3
  <2>5. ObeysOn(h, A)
    <3> SUFFICES ASSUME NEW X \in SUBSET A
                 PROVE  h[X] = IF X = {} THEN Unchanged
                               ELSE Times(h[X \ {Last(X)}], RatioOf(Last(X)))
      BY DEF ObeysOn
    <3>1. CASE X = {}
      BY <3>1
    <3>2. CASE X # {}
      <4>1. h[Rest(X)] = G(Rest(X))[Rest(X)]
        <5> HIDE DEF h, G
        <5> QED  BY <3>2, <2>1, <2>4
      <4>2. h[X] = Times(G(Rest(X))[Rest(X)], RatioOf(Last(X)))
        BY <3>2
      <4> QED  BY <4>1, <4>2, <3>2
    <3> QED  BY <3>1, <3>2
  <2> QED
    <3> HIDE DEF h
    <3> QED  BY <2>3, <2>5
<1>2. SUBSET Actions \subseteq T
  <2> HIDE DEF T
  <2> QED  BY <1>1, TermsAssumption, SubsetInduction
<1> QED  BY <1>2

(* Combined obeys its own equation, and its values are growth factors: the *)
(* combined factor of any set of splits and bonuses never shrinks a lot.   *)
THEOREM CombinedGrowth ==
  /\ Combined \in [SUBSET Actions -> Growth]
  /\ ObeysOn(Combined, Actions)
<1>1. PICK f \in [SUBSET Actions -> Growth] : ObeysOn(f, Actions)
  BY ObeysExists
<1>2. f = [S \in SUBSET Actions |->
             IF S = {} THEN Unchanged
             ELSE LET a == CHOOSE a \in S : TRUE
                  IN  Times(f[S \ {a}], [new |-> NewShares[a], old |-> OldShares[a]])]
  <2>1. \A S \in SUBSET Actions : f[S] =
             IF S = {} THEN Unchanged
             ELSE LET a == CHOOSE a \in S : TRUE
                  IN  Times(f[S \ {a}], [new |-> NewShares[a], old |-> OldShares[a]])
    BY <1>1 DEF ObeysOn, Last, RatioOf
  <2> QED  BY <2>1
<1>3. Combined = [S \in SUBSET Actions |->
             IF S = {} THEN Unchanged
             ELSE LET a == CHOOSE a \in S : TRUE
                  IN  Times(Combined[S \ {a}], [new |-> NewShares[a], old |-> OldShares[a]])]
  BY <1>2 DEF Combined
<1>4. ObeysOn(Combined, Actions)
  <2>1. \A S \in SUBSET Actions : Combined[S] =
             IF S = {} THEN Unchanged
             ELSE LET a == CHOOSE a \in S : TRUE
                  IN  Times(Combined[S \ {a}], [new |-> NewShares[a], old |-> OldShares[a]])
    BY <1>3
  <2> QED  BY <2>1 DEF ObeysOn, Last, RatioOf
<1>5. \A S \in SUBSET Actions : Combined[S] = f[S]
  BY <1>1, <1>4, ObeysUnique DEF ObeysOn
<1>6. Combined = f
  BY <1>2, <1>3, <1>5
<1> QED  BY <1>1, <1>4, <1>6

-----------------------------------------------------------------------------
(* The order in which factors are folded does not matter.                  *)

LEMMA TimesSwap ==
  ASSUME NEW r \in Growth, NEW s \in Growth, NEW t \in Growth
  PROVE  Times(Times(r, s), t) = Times(Times(r, t), s)
<1>1. /\ r.new \in Nat /\ s.new \in Nat /\ t.new \in Nat
      /\ r.old \in Nat /\ s.old \in Nat /\ t.old \in Nat
  BY DEF Growth, Ratio
<1>2. (r.new * s.new) * t.new = (r.new * t.new) * s.new
  BY <1>1, SMT
<1>3. (r.old * s.old) * t.old = (r.old * t.old) * s.old
  BY <1>1, SMT
<1> QED  BY <1>2, <1>3 DEF Times

LEMMA TimesAssoc ==
  ASSUME NEW r \in Growth, NEW s \in Growth, NEW t \in Growth
  PROVE  Times(Times(r, s), t) = Times(r, Times(s, t))
<1>1. /\ r.new \in Nat /\ s.new \in Nat /\ t.new \in Nat
      /\ r.old \in Nat /\ s.old \in Nat /\ t.old \in Nat
  BY DEF Growth, Ratio
<1>2. (r.new * s.new) * t.new = r.new * (s.new * t.new)
  BY <1>1, SMT
<1>3. (r.old * s.old) * t.old = r.old * (s.old * t.old)
  BY <1>1, SMT
<1> QED  BY <1>2, <1>3 DEF Times

LEMMA TimesUnchanged ==
  ASSUME NEW r \in Growth
  PROVE  Times(r, Unchanged) = r
<1>1. r = [new |-> r.new, old |-> r.old] /\ r.new \in Nat /\ r.old \in Nat
  BY DEF Growth, Ratio
<1> QED  BY <1>1 DEF Times, Unchanged

(* Any action of a set may be taken for the one folded last. *)
LEMMA CombinedRemove ==
  \A S \in SUBSET Actions : \A a \in S :
    Combined[S] = Times(Combined[S \ {a}], RatioOf(a))
<1> DEFINE T == {S \in SUBSET Actions : \A a \in S :
                   Combined[S] = Times(Combined[S \ {a}], RatioOf(a))}
<1>1. ASSUME NEW A \in SUBSET Actions, \A B \in SUBSET A : B # A => B \in T
      PROVE  A \in T
  <2> SUFFICES ASSUME NEW a \in A
               PROVE  Combined[A] = Times(Combined[A \ {a}], RatioOf(a))
    OBVIOUS
  <2> DEFINE l == Last(A)
  <2>1. l \in A
    BY LastIn
  <2>2. Combined[A] = Times(Combined[A \ {l}], RatioOf(l))
    BY CombinedGrowth DEF ObeysOn
  <2>3. CASE a = l
    BY <2>2, <2>3
  <2>4. CASE a # l
    <3> DEFINE C == (A \ {l}) \ {a}
    <3>1. A \ {l} \in T /\ A \ {a} \in T
      BY <1>1, <2>1
    <3>2. Combined[A \ {l}] = Times(Combined[C], RatioOf(a))
      BY <3>1, <2>4
    <3>3. Combined[A \ {a}] = Times(Combined[C], RatioOf(l))
      <4>1. C = (A \ {a}) \ {l}
        OBVIOUS
      <4> QED  BY <3>1, <2>1, <2>4, <4>1
    <3>4. Combined[C] \in Growth /\ RatioOf(a) \in Growth /\ RatioOf(l) \in Growth
      BY CombinedGrowth, RatioOfGrowth, <2>1
    <3> QED
      <4> HIDE DEF C, l
      <4> QED  BY <2>2, <3>2, <3>3, <3>4, TimesSwap
  <2> QED  BY <2>3, <2>4
<1>2. SUBSET Actions \subseteq T
  <2> HIDE DEF T
  <2> QED  BY <1>1, TermsAssumption, SubsetInduction
<1> QED  BY <1>2

(* Folding two disjoint sets of actions one after the other is folding     *)
(* their union at once.                                                    *)
LEMMA CombinedUnion ==
  ASSUME NEW S \in SUBSET Actions, NEW U \in SUBSET Actions, S \cap U = {}
  PROVE  Combined[S \cup U] = Times(Combined[S], Combined[U])
<1> DEFINE T == {A \in SUBSET U : Combined[S \cup A] = Times(Combined[S], Combined[A])}
<1>1. ASSUME NEW A \in SUBSET U, \A B \in SUBSET A : B # A => B \in T
      PROVE  A \in T
  <2>1. CASE A = {}
    <3>1. Combined[A] = Unchanged
      BY <2>1, CombinedGrowth DEF ObeysOn
    <3>2. S \cup A = S
      BY <2>1
    <3>3. Combined[S] \in Growth
      BY CombinedGrowth
    <3> QED  BY <3>1, <3>2, <3>3, TimesUnchanged
  <2>2. CASE A # {}
    <3> DEFINE a == Last(A)
               B == A \ {a}
    <3>1. a \in A
      BY <2>2, LastIn
    <3>2. B \in T
      BY <1>1, <3>1
    <3>3. Combined[A] = Times(Combined[B], RatioOf(a))
      BY <3>1, CombinedRemove
    <3>4. Combined[S \cup A] = Times(Combined[S \cup B], RatioOf(a))
      <4>1. S \cup A \in SUBSET Actions /\ a \in S \cup A /\ (S \cup A) \ {a} = S \cup B
        BY <3>1
      <4> HIDE DEF a, B
      <4> QED  BY <4>1, CombinedRemove
    <3>5. Combined[S] \in Growth /\ Combined[B] \in Growth /\ RatioOf(a) \in Growth
      BY <3>1, CombinedGrowth, RatioOfGrowth
    <3>6. Combined[S \cup B] = Times(Combined[S], Combined[B])
      BY <3>2
    <3> QED
      <4> HIDE DEF a, B
      <4> QED  BY <3>3, <3>4, <3>5, <3>6, TimesAssoc
  <2> QED  BY <2>1, <2>2
<1>2. IsFiniteSet(U)
  BY TermsAssumption, FS_Subset
<1>3. SUBSET U \subseteq T
  <2> HIDE DEF T
  <2> QED  BY <1>1, <1>2, SubsetInduction
<1> QED  BY <1>3

-----------------------------------------------------------------------------
(* Rounding.                                                               *)

LEMMA DivMod ==
  ASSUME NEW n \in Int, NEW d \in Nat \ {0}
  PROVE  /\ n \div d \in Int /\ n % d \in Int
         /\ 0 <= n % d /\ n % d < d
         /\ n = (n \div d) * d + (n % d)
BY SMT

LEMMA QuotientAtLeast ==
  ASSUME NEW k \in Int, NEW q \in Int, NEW r \in Nat, NEW d \in Nat \ {0},
         r < d, k * d <= q * d + r
  PROVE  k <= q
<1>1. SUFFICES ASSUME q + 1 <= k PROVE FALSE
  BY SMT
<1>2. (q + 1) * d <= k * d  BY <1>1, SMT
<1>3. (q + 1) * d = q * d + d  BY SMT
<1> QED  BY <1>2, <1>3, SMT

LEMMA RoundType ==
  ASSUME NEW n \in Int, NEW d \in Nat \ {0}
  PROVE  /\ RoundHalfEven(n, d) \in Int
         /\ n \div d <= RoundHalfEven(n, d)
         /\ RoundHalfEven(n, d) <= (n \div d) + 1
<1>1. n \div d \in Int
  BY DivMod
<1> QED  BY <1>1, SMT DEF RoundHalfEven

(* Rounding preserves order: of two counts restated alike the larger one   *)
(* stays the larger one.                                                   *)
LEMMA RoundMonotone ==
  ASSUME NEW m \in Int, NEW n \in Int, NEW d \in Nat \ {0}, m <= n
  PROVE  RoundHalfEven(m, d) <= RoundHalfEven(n, d)
<1> DEFINE p == m \div d
           q == n \div d
           r == m % d
           s == n % d
<1>1. /\ p \in Int /\ r \in Nat /\ r < d /\ m = p * d + r
      /\ q \in Int /\ s \in Nat /\ s < d /\ n = q * d + s
  BY DivMod
<1>2. p * d <= q * d + s
  <2>1. p * d \in Int /\ q * d \in Int  BY <1>1
  <2> HIDE DEF p, q, r, s
  <2> QED  BY <1>1, <2>1
<1>3. p <= q
  <2> HIDE DEF p, q, r, s
  <2> QED  BY <1>1, <1>2, QuotientAtLeast
<1>4. CASE p < q
  <2>1. RoundHalfEven(m, d) \in Int /\ RoundHalfEven(m, d) <= p + 1
    BY RoundType
  <2>2. RoundHalfEven(n, d) \in Int /\ q <= RoundHalfEven(n, d)
    BY RoundType
  <2> HIDE DEF p, q
  <2> QED  BY <1>1, <1>4, <2>1, <2>2
<1>5. CASE p = q
  <2>1. r <= s
    <3>1. q * d \in Int  BY <1>1
    <3> HIDE DEF p, q, r, s
    <3> QED  BY <1>1, <1>5, <3>1
  <2>2. RoundHalfEven(m, d) = IF 2 * r < d \/ (2 * r = d /\ p % 2 = 0) THEN p ELSE p + 1
    BY DEF RoundHalfEven
  <2>3. RoundHalfEven(n, d) = IF 2 * s < d \/ (2 * s = d /\ p % 2 = 0) THEN p ELSE p + 1
    BY <1>5 DEF RoundHalfEven
  <2> HIDE DEF p, q, r, s
  <2> QED  BY <1>1, <2>1, <2>2, <2>3
<1> QED
  <2> HIDE DEF p, q
  <2> QED  BY <1>1, <1>3, <1>4, <1>5

(* A growth factor restates a count to a count that is not smaller, and    *)
(* keeps the order of two counts.                                          *)
THEOREM RestateGrows ==
  ASSUME NEW q \in Nat, NEW ratio \in Growth
  PROVE  Restate(q, ratio) \in Nat /\ q <= Restate(q, ratio)
<1> DEFINE n == q * ratio.new
           d == ratio.old
<1>1. ratio.new \in Nat \ {0} /\ d \in Nat \ {0} /\ d <= ratio.new
  BY DEF Growth, Ratio
<1>2. q * d <= n
  BY <1>1, ProductMonotone
<1>3. n \in Int /\ n \div d \in Int /\ n % d \in Nat /\ n % d < d
      /\ n = (n \div d) * d + (n % d)
  <2>1. n \in Int  BY <1>1, SMT
  <2> HIDE DEF n, d
  <2> QED  BY <1>1, <2>1, DivMod
<1>4. q <= n \div d
  <2> HIDE DEF n, d
  <2> QED  BY <1>1, <1>2, <1>3, QuotientAtLeast
<1>5. n \div d <= RoundHalfEven(n, d) /\ RoundHalfEven(n, d) \in Int
  <2> HIDE DEF n, d
  <2> QED  BY <1>1, <1>3, RoundType
<1>6. Restate(q, ratio) = RoundHalfEven(n, d)
  BY DEF Restate
<1> HIDE DEF n, d
<1> QED  BY <1>3, <1>4, <1>5, <1>6

THEOREM RestateMonotone ==
  ASSUME NEW p \in Nat, NEW q \in Nat, p <= q, NEW ratio \in Growth
  PROVE  Restate(p, ratio) <= Restate(q, ratio)
<1>1. ratio.new \in Nat \ {0} /\ ratio.old \in Nat \ {0}
  BY DEF Growth, Ratio
<1>2. p * ratio.new \in Int /\ q * ratio.new \in Int /\ p * ratio.new <= q * ratio.new
  BY <1>1, SMT
<1> QED  BY <1>1, <1>2, RoundMonotone DEF Restate

-----------------------------------------------------------------------------
(* The operators keep to their types.                                      *)

LEMMA FillRatioType == \A t : known \subseteq Actions => FillRatio(t) \in Growth
BY CombinedGrowth DEF FillRatio, EffectiveIn

LEMMA DueRatioType ==
  \A p, asOf : known \subseteq Actions => Combined[Due(p, asOf)] \in Growth
BY CombinedGrowth DEF Due, EffectiveIn

LEMMA RestateType ==
  ASSUME NEW q \in Int, NEW ratio \in Growth
  PROVE  Restate(q, ratio) \in Int
<1>1. ratio.new \in Nat \ {0} /\ ratio.old \in Nat \ {0} /\ q * ratio.new \in Int
  BY DEF Growth, Ratio
<1> QED  BY <1>1, RoundType DEF Restate

LEMMA QtyNowType ==
  ASSUME TypeOK, NEW t \in Trades, NEW q \in Nat
  PROVE  QtyNow(t, q) \in Nat /\ q <= QtyNow(t, q)
BY FillRatioType, RestateGrows DEF QtyNow, TypeOK

LEMMA LotType == TypeOK => \A b \in Lots : b \in Buys /\ position[b] \in Position
BY DEF TypeOK, Lots

LEMMA CloseType ==
  ASSUME NEW p \in Position, NEW s \in Sells, NEW rows \in [Sells -> Nat]
  PROVE  CloseIfFlat(p, s, rows) \in Position
<1> DEFINE c == [p EXCEPT !.status = "closed", !.exit = s, !.realized = rows]
<1>1. c \in Position
  <2>1. rows \in Realized
    BY DEF Realized
  <2> QED  BY <2>1 DEF Position
<1> HIDE DEF c
<1> QED  BY <1>1 DEF CloseIfFlat, c

LEMMA ReversedType ==
  ASSUME NEW p \in Position, NEW s \in Sells, NEW q \in Nat
  PROVE  Reversed(p, s, q) \in Position
<1> DEFINE plain    == [p EXCEPT !.qtyOpen = @ + q]
           reopened == [p EXCEPT !.qtyOpen = @ + q, !.status = "open",
                                 !.exit = None, !.realized = <<>>]
<1>1. plain \in Position
  BY DEF Position
<1>2. reopened \in Position
  <2> DEFINE q1 == p.qtyOpen + q
             r1 == <<>>
  <2>1. r1 \in Realized /\ q1 \in Int
    BY DEF Realized, Position
  <2>2. reopened = [p EXCEPT !.qtyOpen = q1, !.status = "open",
                             !.exit = None, !.realized = r1]
    OBVIOUS
  <2> HIDE DEF q1, r1, reopened
  <2> QED  BY <2>1, <2>2 DEF Position
<1> HIDE DEF plain, reopened
<1> QED  BY <1>1, <1>2 DEF Reversed, plain, reopened

LEMMA RestateForActionsType ==
  ASSUME NEW p \in Position, NEW asOf \in Nat, known \subseteq Actions
  PROVE  RestateForActions(p, asOf) \in Position
<1> DEFINE r == Combined[Due(p, asOf)]
<1>1. r \in Growth
  BY DueRatioType
<1>2. Restate(p.qtyOpen, r) \in Int /\ Restate(p.qtyTotal, r) \in Nat
  BY <1>1, RestateType, RestateGrows DEF Position
<1>3. Times(p.factor, r) \in Ratio
  <2>1. /\ p.factor.new \in Nat \ {0} /\ p.factor.old \in Nat \ {0}
        /\ r.new \in Nat \ {0} /\ r.old \in Nat \ {0}
    BY <1>1 DEF Position, Ratio, Growth
  <2>2. /\ p.factor.new * r.new \in Nat \ {0}
        /\ p.factor.old * r.old \in Nat \ {0}
    <3> HIDE DEF r
    <3> QED  BY <2>1, ProductPositive
  <2> QED  BY <2>2 DEF Times, Ratio
<1> HIDE DEF r
<1> QED  BY <1>2, <1>3 DEF RestateForActions, Position, r

LEMMA EvaluatedType ==
  ASSUME NEW p \in Position
  PROVE  Evaluated(p) \in Position
<1>1. IsFractional(p.qtyTotal, p.factor) \in BOOLEAN
  BY DEF IsFractional
<1> QED  BY <1>1 DEF Evaluated, Position

-----------------------------------------------------------------------------
(* Shares of lots.                                                         *)

LEMMA OpenShares ==
  ASSUME TypeOK, NEW S \in SUBSET OpenLots
  PROVE  /\ IsFiniteSet(S)
         /\ \A b \in S : QtyOpen[b] \in Int /\ QtyOpen[b] = position[b].qtyOpen
         /\ Total(QtyOpen, S) \in Nat
<1>1. IsFiniteSet(S)
  <2>1. S \subseteq Trades
    BY DEF OpenLots, Lots, Trades
  <2> QED  BY <2>1, LedgerAssumption, FS_Subset
<1>2. \A b \in S : QtyOpen[b] \in Int /\ QtyOpen[b] = position[b].qtyOpen
  BY LotType DEF QtyOpen, OpenLots, Position
<1> QED  BY <1>1, <1>2, SharesFinite

LEMMA TakesType ==
  ASSUME TypeOK, NEW t \in Trades
  PROVE  Takes(t) \in [Buys -> Nat]
<1>1. SUFFICES ASSUME NEW b \in OpenLots, NEW q \in Int
               PROVE  FifoTake(b, q) \in Nat
  <2>1. QtyNow(t, loaded[t]) \in Int
    BY QtyNowType DEF TypeOK
  <2> QED  BY <2>1, <1>1 DEF Takes
<1> DEFINE left == q - Total(QtyOpen, {c \in OpenLots : Older(c, b)})
<1>2. position[b].qtyOpen \in Int
  BY LotType DEF OpenLots, Position
<1>3. left \in Int
  <2>1. Total(QtyOpen, {c \in OpenLots : Older(c, b)}) \in Nat
    BY OpenShares
  <2> QED  BY <2>1
<1> HIDE DEF left
<1>4. FifoTake(b, q) =
        IF position[b].qtyOpen <= 0 \/ left <= 0 THEN 0
        ELSE IF left < position[b].qtyOpen THEN left ELSE position[b].qtyOpen
  BY DEF FifoTake, left
<1> QED  BY <1>2, <1>3, <1>4

-----------------------------------------------------------------------------
(* Types.                                                                  *)

AnyNext == ManualNext \/ LateNext

(* Rows only point at lots that exist, and no lot ever disappears: what    *)
(* reverses a row would otherwise make up a lot.                           *)
RowsHaveLots == \A s \in Sells : \A b \in Buys : alloc[s][b] # 0 => b \in Lots
LotsKept     == \A b \in Lots : position'[b] \in Position

TypeInv == TypeOK /\ RowsHaveLots

LEMMA TypeInit == Init => TypeInv
BY LedgerAssumption DEF Init, TypeInv, TypeOK, RowsHaveLots

LEMMA NothingIsNoPosition == NoPosition \notin Position
BY DEF NoPosition, Position

LEMMA LotsStay == LotsKept => Lots \subseteq Lots'
BY NothingIsNoPosition DEF LotsKept, Lots, NoPosition

(* The functions that are updated at one place keep their types. *)
LEMMA LoadedType ==
  ASSUME TypeOK, NEW t \in Trades
  PROVE  Kept(t) \in [Trades -> Nat] /\ Reloaded(t) \in [Trades -> Nat]
BY DEF TypeOK, Kept, Reloaded, Batch

LEMMA BuyType ==
  ASSUME TypeOK, NEW t \in Buys, ApplyBuy(t)
  PROVE  TypeOK' /\ LotsKept
<1>1. t \in Trades /\ TradeDay[t] \in Nat /\ today \in Nat
  BY LedgerAssumption DEF Trades, TypeOK
<1>2. QtyNow(t, loaded[t]) \in Nat /\ FillRatio(t) \in Ratio
  BY <1>1, QtyNowType, FillRatioType DEF TypeOK, Growth
<1>3. position' \in [Buys -> Position \cup {NoPosition}] /\ LotsKept
  <2> DEFINE q == QtyNow(t, loaded[t])
             r == FillRatio(t)
             none == <<>>
             p == [status   |-> "open",        id         |-> nextId,
                   opened   |-> TradeDay[t],   restatedOn |-> today,
                   qtyOpen  |-> q,             qtyTotal   |-> q,
                   factor   |-> r,             review     |-> FALSE,
                   exit     |-> None,          realized   |-> none]
  <2>1. none \in Realized
    BY DEF Realized
  <2>2. p \in Position
    <3> HIDE DEF q, r, none
    <3> QED  BY <1>1, <1>2, <2>1 DEF Position, TypeOK, q, r
  <2>3. position' = [position EXCEPT ![t] = p]
    BY DEF ApplyBuy
  <2> HIDE DEF p
  <2> QED  BY <2>2, <2>3, LotType DEF TypeOK, LotsKept
<1>4. trade' \in [Trades -> [stored : BOOLEAN, qty : Nat, applied : BOOLEAN]]
  BY <1>1 DEF ApplyBuy, TypeOK
<1>5. loaded' \in [Trades -> Nat]
  BY <1>1, LoadedType DEF ApplyBuy, Commit
<1> QED  BY <1>3, <1>4, <1>5 DEF ApplyBuy, TypeOK

LEMMA SellType ==
  ASSUME TypeOK, NEW t \in Sells, ApplySell(t)
  PROVE  TypeOK' /\ LotsKept
<1>1. t \in Trades
  BY DEF Trades
<1>2. Takes(t) \in [Buys -> Nat]
  BY <1>1, TakesType
<1>3. alloc' \in [Sells -> [Buys -> Nat]]
  <2>1. \A b \in Buys : alloc[t][b] + Takes(t)[b] \in Nat
    BY <1>2 DEF TypeOK
  <2> DEFINE row == [b \in Buys |-> alloc[t][b] + Takes(t)[b]]
  <2>2. row \in [Buys -> Nat]
    BY <2>1
  <2>3. alloc' = [alloc EXCEPT ![t] = row]
    BY DEF ApplySell
  <2> HIDE DEF row
  <2> QED  BY <2>2, <2>3 DEF TypeOK
<1>4. position' \in [Buys -> Position \cup {NoPosition}] /\ LotsKept
  <2> SUFFICES ASSUME NEW b \in Buys
               PROVE  /\ position'[b] \in Position \cup {NoPosition}
                      /\ b \in Lots => position'[b] \in Position
    BY DEF ApplySell, LotsKept, Lots
  <2>1. CASE Takes(t)[b] = 0
    BY <2>1, LotType DEF ApplySell, TypeOK
  <2>2. CASE Takes(t)[b] # 0
    <3>1. b \in OpenLots
      BY <2>2 DEF Takes
    <3>2. position[b] \in Position
      BY <3>1, LotType DEF OpenLots
    <3> DEFINE p == [position[b] EXCEPT !.qtyOpen = @ - Takes(t)[b]]
    <3>3. p \in Position
      BY <1>2, <3>2 DEF Position
    <3>4. RowsOf(alloc', b) \in [Sells -> Nat]
      BY <1>3 DEF RowsOf
    <3>5. position'[b] = CloseIfFlat(p, t, RowsOf(alloc', b))
      BY <2>2 DEF ApplySell
    <3> HIDE DEF p
    <3> QED  BY <3>3, <3>4, <3>5, CloseType
  <2> QED  BY <2>1, <2>2
<1>5. trade' \in [Trades -> [stored : BOOLEAN, qty : Nat, applied : BOOLEAN]]
  BY <1>1 DEF ApplySell, TypeOK
<1>6. loaded' \in [Trades -> Nat]
  BY <1>1, LoadedType DEF ApplySell, Commit
<1> QED  BY <1>3, <1>4, <1>5, <1>6 DEF ApplySell, TypeOK

LEMMA EvaluateType ==
  ASSUME TypeOK, NEW b \in Buys, NEW asOf \in 0 .. LastDay, Evaluate(b, asOf)
  PROVE  TypeOK' /\ LotsKept
<1> DEFINE p == Evaluated(RestateForActions(position[b], asOf))
<1>1. p \in Position
  <2>1. position[b] \in Position /\ known \subseteq Actions /\ asOf \in Nat
    BY LotType, LedgerAssumption DEF Evaluate, OpenLots, TypeOK
  <2> QED  BY <2>1, RestateForActionsType, EvaluatedType
<1>2. position' = [position EXCEPT ![b] = p]
  BY DEF Evaluate
<1> HIDE DEF p
<1>3. position' \in [Buys -> Position \cup {NoPosition}] /\ LotsKept
  BY <1>1, <1>2, LotType DEF TypeOK, LotsKept
<1> QED  BY <1>3 DEF Evaluate, TypeOK

LEMMA ReattributeType ==
  ASSUME TypeInv, NEW s \in Sells, NEW split \in Splits(s), Reattribute(s, split)
  PROVE  TypeOK' /\ LotsKept
<1> USE DEF TypeInv
<1>1. \A b \in DOMAIN split : b \in Lots /\ split[b] \in Nat
  <2>1. PICK S \in SUBSET Lots : split \in [S -> 1 .. StoredQty(s)]
    BY DEF Splits
  <2>2. StoredQty(s) \in Nat
    BY QtyNowType DEF StoredQty, TypeOK, Trades
  <2> QED  BY <2>1, <2>2
<1>2. alloc' \in [Sells -> [Buys -> Nat]]
  <2> DEFINE row == [b \in Buys |-> IF b \in DOMAIN split THEN split[b] ELSE 0]
  <2>1. row \in [Buys -> Nat]
    BY <1>1
  <2>2. alloc' = [alloc EXCEPT ![s] = row]
    BY DEF Reattribute
  <2> HIDE DEF row
  <2> QED  BY <2>1, <2>2 DEF TypeOK
<1>3. position' \in [Buys -> Position \cup {NoPosition}] /\ LotsKept
  <2> SUFFICES ASSUME NEW b \in Buys
               PROVE  /\ position'[b] \in Position \cup {NoPosition}
                      /\ b \in Lots => position'[b] \in Position
    BY DEF Reattribute, LotsKept, Lots
  <2> DEFINE back == Reversed(position[b], s, alloc[s][b])
  <2>1. alloc[s][b] \in Nat
    BY DEF TypeOK
  <2>2. CASE b \in DOMAIN split
    <3> DEFINE p == [back EXCEPT !.qtyOpen = @ - split[b]]
    <3>1. back \in Position
      BY <1>1, <2>1, <2>2, LotType, ReversedType
    <3>2. p \in Position
      <4> HIDE DEF back
      <4> QED  BY <1>1, <2>2, <3>1 DEF Position
    <3>3. RowsOf(alloc', b) \in [Sells -> Nat]
      BY <1>2 DEF RowsOf
    <3>4. position'[b] = CloseIfFlat(p, s, RowsOf(alloc', b))
      BY <2>2 DEF Reattribute
    <3> HIDE DEF p
    <3> QED  BY <3>2, <3>3, <3>4, CloseType
  <2>3. CASE b \notin DOMAIN split
    <3>1. position'[b] = back
      BY <2>3 DEF Reattribute
    <3>2. CASE b \in Lots
      BY <3>1, <3>2, <2>1, LotType, ReversedType
    <3>3. CASE b \notin Lots
      <4>1. position[b] = NoPosition /\ alloc[s][b] = 0
        BY <3>3 DEF Lots, RowsHaveLots
      <4> QED  BY <3>1, <3>3, <4>1 DEF Reversed
    <3> QED  BY <3>2, <3>3
  <2> QED  BY <2>2, <2>3
<1> QED  BY <1>2, <1>3 DEF Reattribute, TypeOK

(* Steps that leave positions and rows alone. *)
LEMMA QuietType ==
  ASSUME TypeInv,
         \/ NextDay
         \/ \E a \in Actions : LoadAction(a) \/ LoadActionLate(a)
         \/ \E t \in Trades : \E q \in Reported[t] : UpsertTrade(t, q)
         \/ StartApply
         \/ \E t \in Trades : SellRaises(t) \/ ApplyFails(t)
         \/ ApplyDies
         \/ UNCHANGED vars
  PROVE  TypeOK' /\ UNCHANGED <<position, alloc>>
<1> USE DEF TypeInv, TypeOK
<1>1. CASE NextDay
  BY <1>1, LedgerAssumption DEF NextDay
<1>2. ASSUME NEW a \in Actions, LoadAction(a) \/ LoadActionLate(a)
      PROVE  TypeOK' /\ UNCHANGED <<position, alloc>>
  BY <1>2 DEF LoadAction, LoadActionLate
<1>3. ASSUME NEW t \in Trades, NEW q \in Reported[t], UpsertTrade(t, q)
      PROVE  TypeOK' /\ UNCHANGED <<position, alloc>>
  <2>1. q \in Nat
    BY LedgerAssumption
  <2> QED  BY <1>3, <2>1 DEF UpsertTrade
<1>4. CASE StartApply
  BY <1>4 DEF StartApply
<1>5. ASSUME NEW t \in Trades, SellRaises(t) \/ ApplyFails(t)
      PROVE  TypeOK' /\ UNCHANGED <<position, alloc>>
  <2>1. loaded' \in [Trades -> Nat]
    BY <1>5, LoadedType DEF SellRaises, ApplyFails, Rollback
  <2> QED  BY <1>5, <2>1, LedgerAssumption DEF SellRaises, ApplyFails
<1>6. CASE ApplyDies
  BY <1>6, LedgerAssumption DEF ApplyDies
<1>7. CASE UNCHANGED vars
  BY <1>7 DEF vars
<1> QED  BY <1>1, <1>2, <1>3, <1>4, <1>5, <1>6, <1>7

LEMMA TypeStep == TypeInv /\ [AnyNext]_vars => TypeInv'
<1> SUFFICES ASSUME TypeInv, [AnyNext]_vars PROVE TypeInv'
  OBVIOUS
<1>1. CASE TypeOK' /\ UNCHANGED <<position, alloc>>
  BY <1>1 DEF TypeInv, RowsHaveLots, Lots
<1>2. ASSUME NEW t \in Buys, ApplyBuy(t) PROVE TypeInv'
  <2>1. TypeOK' /\ Lots \subseteq Lots'
    BY <1>2, BuyType, LotsStay DEF TypeInv
  <2> QED  BY <1>2, <2>1 DEF TypeInv, RowsHaveLots, ApplyBuy
<1>3. ASSUME NEW t \in Sells, ApplySell(t) PROVE TypeInv'
  <2>1. TypeOK' /\ Lots \subseteq Lots'
    BY <1>3, SellType, LotsStay DEF TypeInv
  <2>2. ASSUME NEW s \in Sells, NEW b \in Buys, alloc'[s][b] # 0 PROVE b \in Lots
    <3>1. CASE alloc[s][b] # 0
      BY <3>1 DEF TypeInv, RowsHaveLots
    <3>2. CASE alloc[s][b] = 0
      <4>1. Takes(t)[b] # 0
        BY <1>3, <2>2, <3>2 DEF ApplySell, TypeInv, TypeOK
      <4> QED  BY <4>1 DEF Takes, OpenLots
    <3> QED  BY <3>1, <3>2
  <2> QED  BY <2>1, <2>2 DEF TypeInv, RowsHaveLots
<1>4. ASSUME NEW b \in Buys, NEW asOf \in 0 .. LastDay, Evaluate(b, asOf) PROVE TypeInv'
  <2>1. TypeOK' /\ Lots \subseteq Lots'
    BY <1>4, EvaluateType, LotsStay DEF TypeInv
  <2> QED  BY <1>4, <2>1 DEF TypeInv, RowsHaveLots, Evaluate
<1>5. ASSUME NEW s \in Sells, NEW split \in Splits(s), Reattribute(s, split) PROVE TypeInv'
  <2>1. TypeOK' /\ Lots \subseteq Lots'
    BY <1>5, ReattributeType, LotsStay
  <2>2. DOMAIN split \subseteq Lots
    BY DEF Splits
  <2>3. ASSUME NEW u \in Sells, NEW b \in Buys, alloc'[u][b] # 0 PROVE b \in Lots
    BY <1>5, <2>2, <2>3 DEF Reattribute, TypeInv, TypeOK, RowsHaveLots
  <2> QED  BY <2>1, <2>3 DEF TypeInv, RowsHaveLots
<1> QED
  BY <1>1, <1>2, <1>3, <1>4, <1>5, QuietType
  DEF AnyNext, ManualNext, LateNext, BookNext, Apply, Trades

(* Every row of every table keeps its type, under late actions and manual  *)
(* corrections as well: quantities stay whole and only a lot's open count  *)
(* may be negative (ledger.py, restate.py).                                *)
THEOREM TypeCorrect ==
  /\ BookSpec   => []TypeOK
  /\ LateSpec   => []TypeOK
  /\ ManualSpec => []TypeOK
<1>1. Init /\ [][AnyNext]_vars => []TypeInv
  BY TypeInit, TypeStep, PTL
<1>2. TypeInv => TypeOK
  BY DEF TypeInv
<1>3. /\ [BookNext]_vars => [AnyNext]_vars
      /\ [LateNext]_vars => [AnyNext]_vars
      /\ [ManualNext]_vars => [AnyNext]_vars
  BY DEF AnyNext, ManualNext, LateNext
<1> QED  BY <1>1, <1>2, <1>3, PTL DEF BookSpec, LateSpec, ManualSpec

-----------------------------------------------------------------------------
(* Runs and fills.                                                         *)

(* A run only has fills that nobody has applied, and applying a buy is     *)
(* what opens its lot.                                                     *)
AppliedInv ==
  /\ \A t \in Batch : trade[t].stored /\ ~trade[t].applied
  /\ \A b \in Lots : trade[b].applied

LEMMA BatchShrinks ==
  ASSUME NEW t \in Trades, TypeOK, loaded' \in {Kept(t), Reloaded(t)}
  PROVE  Batch' \subseteq Batch \ {t}
BY DEF TypeOK, Kept, Reloaded, Batch

LEMMA AppliedInit == Init => AppliedInv
BY DEF Init, AppliedInv, Batch, Lots

(* No lot comes or goes when sells are charged, evaluated or moved. *)
LEMMA SameLots ==
  ASSUME TypeInv,
         \/ \E t \in Sells : ApplySell(t)
         \/ \E b \in Buys : \E asOf \in 0 .. LastDay : Evaluate(b, asOf)
         \/ \E s \in Sells : \E split \in Splits(s) : Reattribute(s, split)
  PROVE  Lots' = Lots
<1>1. LotsKept
  BY SellType, EvaluateType, ReattributeType DEF TypeInv
<1>2. SUFFICES ASSUME NEW b \in Buys, b \notin Lots PROVE position'[b] = position[b]
  BY <1>1, LotsStay DEF Lots
<1>3. ASSUME NEW t \in Sells, ApplySell(t) PROVE position'[b] = position[b]
  BY <1>2, <1>3 DEF ApplySell, Takes, OpenLots
<1>4. ASSUME NEW c \in Buys, NEW asOf \in 0 .. LastDay, Evaluate(c, asOf)
      PROVE  position'[b] = position[b]
  BY <1>2, <1>4 DEF Evaluate, OpenLots, TypeInv, TypeOK
<1>5. ASSUME NEW s \in Sells, NEW split \in Splits(s), Reattribute(s, split)
      PROVE  position'[b] = position[b]
  <2>1. alloc[s][b] = 0 /\ b \notin DOMAIN split
    BY <1>2 DEF TypeInv, RowsHaveLots, Splits
  <2> QED  BY <1>5, <2>1 DEF Reattribute, Reversed
<1> QED  BY <1>3, <1>4, <1>5

LEMMA AppliedStep == TypeInv /\ AppliedInv /\ [AnyNext]_vars => AppliedInv'
<1> SUFFICES ASSUME TypeInv, AppliedInv, [AnyNext]_vars PROVE AppliedInv'
  OBVIOUS
<1>1. TypeOK
  BY DEF TypeInv
<1>2. CASE Lots' = Lots /\ Batch' \subseteq Batch /\ trade' = trade
  BY <1>2 DEF AppliedInv
<1>3. ASSUME NEW t \in Trades, NEW q \in Reported[t], UpsertTrade(t, q) PROVE AppliedInv'
  <2>1. Lots' = Lots /\ Batch' = Batch
    BY <1>3 DEF UpsertTrade, Lots, Batch
  <2>2. \A u \in Trades :
          /\ trade'[u].applied <=> trade[u].applied
          /\ trade[u].stored => trade'[u].stored
    <3> DEFINE row == [trade[t] EXCEPT !.stored = TRUE, !.qty = q]
    <3>1. row.stored = TRUE /\ (row.applied <=> trade[t].applied)
      BY <1>1 DEF TypeOK
    <3>2. trade' = [trade EXCEPT ![t] = row]
      BY <1>1, <1>3 DEF UpsertTrade, TypeOK
    <3> HIDE DEF row
    <3> QED  BY <1>1, <3>1, <3>2 DEF TypeOK
  <2>3. \A u \in Batch : trade'[u].stored /\ ~trade'[u].applied
    BY <2>2 DEF AppliedInv, Batch
  <2>4. \A b \in Lots : trade'[b].applied
    BY <2>2 DEF AppliedInv, Lots, Trades
  <2> QED  BY <2>1, <2>3, <2>4 DEF AppliedInv
<1>4. CASE StartApply
  BY <1>4 DEF StartApply, AppliedInv, Batch, Lots
<1>5. ASSUME NEW t \in Trades, ApplyBuy(t) \/ ApplySell(t), t \in Buys \cup Sells,
             Lots' \subseteq Lots \cup {t}
      PROVE  AppliedInv'
  <2>1. \A u \in Trades :
          /\ trade'[u].stored <=> trade[u].stored
          /\ trade'[u].applied <=> (trade[u].applied \/ u = t)
    <3>1. trade' = [trade EXCEPT ![t].applied = TRUE]
      BY <1>5 DEF ApplyBuy, ApplySell
    <3> QED  BY <1>1, <3>1 DEF TypeOK
  <2>2. Batch' \subseteq Batch \ {t}
    BY <1>1, <1>5, BatchShrinks DEF ApplyBuy, ApplySell, Commit
  <2>3. \A u \in Batch' : u \in Trades /\ trade'[u].stored /\ ~trade'[u].applied
    BY <2>1, <2>2 DEF AppliedInv, Batch
  <2>4. \A b \in Lots' : trade'[b].applied
    BY <1>5, <2>1 DEF AppliedInv, Lots, Trades
  <2> QED  BY <2>3, <2>4 DEF AppliedInv
<1>6. ASSUME NEW t \in Buys, ApplyBuy(t) PROVE Lots' \subseteq Lots \cup {t} /\ t \in Trades
  BY <1>1, <1>6 DEF Lots, ApplyBuy, TypeOK, Trades
<1>7. ASSUME NEW t \in Sells, ApplySell(t) PROVE Lots' = Lots /\ t \in Trades
  BY <1>7, SameLots DEF Trades
<1>8. ASSUME NEW t \in Trades, SellRaises(t) \/ ApplyFails(t)
      PROVE  Lots' = Lots /\ Batch' \subseteq Batch /\ trade' = trade
  BY <1>1, <1>8, BatchShrinks DEF SellRaises, ApplyFails, Rollback, Lots
<1>9. CASE \/ NextDay \/ ApplyDies \/ UNCHANGED vars
           \/ \E a \in Actions : LoadAction(a) \/ LoadActionLate(a)
  BY <1>2, <1>9 DEF NextDay, ApplyDies, LoadAction, LoadActionLate, vars, Lots, Batch
<1>10. ASSUME \/ \E b \in Buys : \E asOf \in 0 .. LastDay : Evaluate(b, asOf)
              \/ \E s \in Sells : \E split \in Splits(s) : Reattribute(s, split)
       PROVE  Lots' = Lots /\ Batch' \subseteq Batch /\ trade' = trade
  BY <1>10, SameLots DEF Evaluate, Reattribute, Batch
<1>11. CASE \E t \in Buys : ApplyBuy(t)
  BY <1>5, <1>6, <1>11
<1>12. CASE \E t \in Sells : ApplySell(t) \/ SellRaises(t)
  BY <1>2, <1>5, <1>7, <1>8, <1>12 DEF Trades
<1>13. CASE \E t \in Trades : ApplyFails(t)
  BY <1>2, <1>8, <1>13
<1>14. CASE \/ \E b \in Buys : \E asOf \in 0 .. LastDay : Evaluate(b, asOf)
            \/ \E s \in Sells : \E split \in Splits(s) : Reattribute(s, split)
  BY <1>2, <1>10, <1>14
<1> QED
  BY <1>3, <1>4, <1>9, <1>11, <1>12, <1>13, <1>14
  DEF AnyNext, ManualNext, LateNext, BookNext, Apply

-----------------------------------------------------------------------------
(* The book under the pipeline, actions announced in time.                 *)

(* Lots are restated to a day that has come, fills are stored with shares  *)
(* and not before their day.                                               *)
InTime ==
  /\ \A b \in Lots : position[b].opened <= position[b].restatedOn
                    /\ position[b].restatedOn <= today
  /\ \A t \in Trades : trade[t].stored => trade[t].qty > 0 /\ TradeDay[t] <= today

BookInv ==
  TypeInv /\ InTime /\ AppliedInv /\ ClosedIffFlat /\ LotBounds /\ FactorExact

LEMMA BookInit == Init => BookInv
BY TypeInit, AppliedInit
DEF Init, BookInv, TypeInv, InTime, ClosedIffFlat, LotBounds, FactorExact, Lots

(* What has to hold of one lot. *)
LotInv(p) ==
  /\ p.status = "closed" <=> p.qtyOpen = 0
  /\ 0 <= p.qtyOpen /\ p.qtyOpen <= p.qtyTotal
  /\ p.opened <= p.restatedOn /\ p.restatedOn <= today
  /\ p.factor = Combined[EffectiveIn(known, p.opened, p.restatedOn)]

Sized == \A t \in Trades : trade[t].stored => trade[t].qty > 0 /\ TradeDay[t] <= today

ByLot == /\ TypeInv /\ AppliedInv /\ Sized
         /\ \A b \in Lots : LotInv(position[b])

LEMMA LotByLot == BookInv <=> ByLot
BY DEF BookInv, ByLot, Sized, InTime, ClosedIffFlat, LotBounds, FactorExact, LotInv

LEMMA LotByLotNext == BookInv' <=> ByLot'
BY LotByLot, PTL

(* A new day and a new action leave the lots as they should be: an action  *)
(* is announced for a day to which no lot has been restated yet.           *)
LEMMA WorldBook ==
  ASSUME BookInv, TypeInv', AppliedInv', NextDay \/ \E a \in Actions : LoadAction(a)
  PROVE  BookInv'
<1>1. today \in Nat /\ today' \in Nat /\ today <= today'
  BY LedgerAssumption DEF BookInv, TypeInv, TypeOK, NextDay, LoadAction
<1>2. UNCHANGED <<trade, position, loaded>>
  BY DEF NextDay, LoadAction
<1>3. Lots' = Lots
  BY <1>2 DEF Lots
<1>4. ASSUME NEW b \in Lots PROVE LotInv(position[b])'
  <2> DEFINE p == position[b]
  <2>1. p \in Position /\ LotInv(p)
    BY LotType, LotByLot DEF ByLot, TypeInv
  <2>2. p.opened \in Nat /\ p.restatedOn \in Nat
    BY <2>1 DEF Position
  <2>3. EffectiveIn(known, p.opened, p.restatedOn)' = EffectiveIn(known, p.opened, p.restatedOn)
    <3>1. CASE NextDay
      BY <1>2, <3>1 DEF NextDay, EffectiveIn
    <3>2. ASSUME NEW a \in Actions, LoadAction(a)
          PROVE  EffectiveIn(known, p.opened, p.restatedOn)' = EffectiveIn(known, p.opened, p.restatedOn)
      <4>1. ExDate[a] \in Nat /\ ~(ExDate[a] <= p.restatedOn)
        BY <1>1, <2>1, <2>2, <3>2, TermsAssumption DEF LotInv, LoadAction
      <4> QED  BY <1>2, <3>2, <4>1 DEF LoadAction, EffectiveIn
    <3> QED  BY <3>1, <3>2
  <2> QED  BY <1>1, <1>2, <2>1, <2>2, <2>3 DEF LotInv
<1>5. Sized'
  <2>1. \A t \in Trades : TradeDay[t] \in Nat
    BY LedgerAssumption
  <2> QED  BY <1>1, <1>2, <2>1, LotByLot DEF Sized, ByLot
<1>6. \A b \in Lots' : LotInv(position[b])'
  BY <1>3, <1>4
<1> QED  BY <1>3, <1>5, <1>6, LotByLotNext DEF ByLot

(* Reported fills and runs that start, fail or die. *)
LEMMA RunsBook ==
  ASSUME BookInv, TypeInv', AppliedInv',
         \/ \E t \in Trades : \E q \in Reported[t] : UpsertTrade(t, q)
         \/ StartApply
         \/ \E t \in Trades : SellRaises(t) \/ ApplyFails(t)
         \/ ApplyDies
         \/ UNCHANGED vars
  PROVE  BookInv'
<1>1. UNCHANGED <<today, known, position>>
  BY DEF UpsertTrade, StartApply, SellRaises, ApplyFails, ApplyDies, vars
<1>2. \A b \in Lots' : LotInv(position[b])'
  BY <1>1, LotByLot DEF ByLot, Lots, LotInv
<1>3. Sized'
  <2>1. Sized /\ TypeOK
    BY LotByLot DEF ByLot, TypeInv
  <2>2. ASSUME NEW t \in Trades, NEW q \in Reported[t], UpsertTrade(t, q)
        PROVE  Sized'
    <3>1. q > 0
      BY LedgerAssumption
    <3> QED  BY <1>1, <2>1, <2>2, <3>1 DEF UpsertTrade, TypeOK, Sized
  <2>3. CASE UNCHANGED trade
    BY <1>1, <2>1, <2>3 DEF Sized
  <2> QED  BY <2>2, <2>3 DEF StartApply, SellRaises, ApplyFails, ApplyDies, vars
<1> QED  BY <1>2, <1>3, LotByLotNext DEF ByLot

LEMMA BuyBook ==
  ASSUME BookInv, TypeInv', AppliedInv', NEW t \in Buys, ApplyBuy(t)
  PROVE  BookInv'
<1>1. /\ TypeOK /\ AppliedInv /\ Sized /\ t \in Trades
      /\ \A b \in Lots : LotInv(position[b])
  BY LotByLot DEF ByLot, TypeInv, Trades
<1>2. /\ t \in Batch /\ trade[t].stored /\ TradeDay[t] <= today
      /\ loaded[t] \in Nat \ {0}
  BY <1>1 DEF ApplyBuy, IsNext, Batch, AppliedInv, Sized, TypeOK
<1>3. Lots' \subseteq Lots \cup {t}
  BY <1>1 DEF Lots, ApplyBuy, TypeOK
<1>4. \A u \in Trades :
        /\ trade'[u].stored <=> trade[u].stored
        /\ trade'[u].qty = trade[u].qty
        /\ trade'[u].applied <=> (trade[u].applied \/ u = t)
  BY <1>1 DEF ApplyBuy, TypeOK
<1>6. Sized'
  BY <1>1, <1>4 DEF Sized, ApplyBuy
<1>7. LotInv(position[t])'
  <2> DEFINE q == QtyNow(t, loaded[t])
  <2>1. q \in Nat /\ q > 0
    BY <1>1, <1>2, QtyNowType
  <2>2. /\ position'[t].status = "open" /\ position'[t].qtyOpen = q
        /\ position'[t].qtyTotal = q /\ position'[t].opened = TradeDay[t]
        /\ position'[t].restatedOn = today /\ position'[t].factor = FillRatio(t)
    BY <1>1 DEF ApplyBuy, TypeOK
  <2>3. today' = today /\ known' = known /\ today \in Nat
    BY <1>1, LedgerAssumption DEF ApplyBuy, TypeOK
  <2> HIDE DEF q
  <2> QED  BY <1>2, <2>1, <2>2, <2>3 DEF LotInv, FillRatio
<1>8. \A b \in Lots' : LotInv(position[b])'
  <2> SUFFICES ASSUME NEW b \in Lots', b # t PROVE LotInv(position[b])'
    BY <1>7
  <2>1. b \in Lots /\ position'[b] = position[b]
    BY <1>1, <1>3 DEF ApplyBuy, TypeOK, Lots
  <2>2. today' = today /\ known' = known
    BY DEF ApplyBuy
  <2> QED  BY <1>1, <2>1, <2>2 DEF LotInv
<1> QED  BY <1>6, <1>8, LotByLotNext DEF ByLot

(* A sell takes something from an open lot, and at most what it holds. *)
LEMMA TakesBound ==
  ASSUME TypeOK, NEW t \in Trades, NEW b \in Buys, Takes(t)[b] # 0
  PROVE  b \in OpenLots /\ 0 < Takes(t)[b] /\ Takes(t)[b] <= position[b].qtyOpen
<1>1. b \in OpenLots /\ Takes(t)[b] = FifoTake(b, QtyNow(t, loaded[t]))
  BY DEF Takes
<1> DEFINE left == QtyNow(t, loaded[t]) - Total(QtyOpen, {c \in OpenLots : Older(c, b)})
<1>2. left \in Int /\ position[b].qtyOpen \in Int
  <2>1. /\ Total(QtyOpen, {c \in OpenLots : Older(c, b)}) \in Nat
        /\ QtyNow(t, loaded[t]) \in Nat
    BY OpenShares, QtyNowType DEF TypeOK
  <2> QED  BY <1>1, <2>1, LotType DEF OpenLots, Position
<1>3. Takes(t)[b] =
        IF position[b].qtyOpen <= 0 \/ left <= 0 THEN 0
        ELSE IF left < position[b].qtyOpen THEN left ELSE position[b].qtyOpen
  BY <1>1 DEF FifoTake
<1> HIDE DEF left
<1> QED  BY <1>1, <1>2, <1>3

LEMMA SellBook ==
  ASSUME BookInv, TypeInv', AppliedInv', NEW t \in Sells, ApplySell(t)
  PROVE  BookInv'
<1>1. /\ TypeOK /\ AppliedInv /\ Sized /\ t \in Trades /\ t \notin Buys
      /\ \A b \in Lots : LotInv(position[b])
  BY LotByLot, LedgerAssumption DEF ByLot, TypeInv, Trades
<1>3. Lots' = Lots
  BY SameLots DEF BookInv
<1>4. \A u \in Trades :
        /\ trade'[u].stored <=> trade[u].stored
        /\ trade'[u].qty = trade[u].qty
        /\ trade'[u].applied <=> (trade[u].applied \/ u = t)
  BY <1>1 DEF ApplySell, TypeOK
<1>6. Sized'
  BY <1>1, <1>4 DEF Sized, ApplySell
<1>7. ASSUME NEW b \in Lots PROVE LotInv(position[b])'
  <2>1. today' = today /\ known' = known
    BY DEF ApplySell
  <2>2. position[b] \in Position /\ LotInv(position[b]) /\ b \in Buys
    BY <1>1, LotType
  <2>3. CASE Takes(t)[b] = 0
    BY <2>1, <2>2, <2>3 DEF ApplySell, LotInv
  <2>4. CASE Takes(t)[b] # 0
    <3> DEFINE take == Takes(t)[b]
               p    == [position[b] EXCEPT !.qtyOpen = @ - take]
               rows == RowsOf(alloc', b)
    <3>1. /\ b \in OpenLots /\ take \in Nat /\ 0 < take /\ take <= position[b].qtyOpen
      BY <1>1, <2>2, <2>4, TakesBound, TakesType
    <3>2. position'[b] = CloseIfFlat(p, t, rows)
      BY <2>2, <2>4 DEF ApplySell
    <3> HIDE DEF take, rows
    <3>3. /\ p.qtyOpen = position[b].qtyOpen - take /\ p.status = "open"
          /\ p.qtyTotal = position[b].qtyTotal /\ p.opened = position[b].opened
          /\ p.restatedOn = position[b].restatedOn /\ p.factor = position[b].factor
          /\ p \in Position
      BY <2>2, <3>1 DEF Position, OpenLots
    <3> HIDE DEF p
    <3>4. /\ position'[b].qtyOpen = p.qtyOpen /\ position'[b].qtyTotal = p.qtyTotal
          /\ position'[b].opened = p.opened /\ position'[b].restatedOn = p.restatedOn
          /\ position'[b].factor = p.factor
          /\ position'[b].status = "closed" <=> p.qtyOpen = 0
      BY <3>2, <3>3 DEF CloseIfFlat, Position
    <3> QED  BY <2>1, <2>2, <3>1, <3>3, <3>4 DEF LotInv, Position
  <2> QED  BY <2>3, <2>4
<1> QED  BY <1>3, <1>6, <1>7, LotByLotNext DEF ByLot

(* Restating a lot to a later day folds what came into effect since. *)
LEMMA RestateBook ==
  ASSUME NEW p \in Position, LotInv(p), p.status = "open", known \subseteq Actions,
         NEW asOf \in Nat, asOf <= today, today \in Nat
  PROVE  LotInv(RestateForActions(p, asOf)) /\ RestateForActions(p, asOf) \in Position
<1> DEFINE due == Due(p, asOf)
           r   == Combined[due]
           n   == RestateForActions(p, asOf)
<1>1. n \in Position
  BY RestateForActionsType
<1>2. CASE due = {}
  BY <1>1, <1>2 DEF RestateForActions
<1>3. CASE due # {}
  <2>1. /\ p.opened \in Nat /\ p.restatedOn \in Nat /\ p.qtyOpen \in Nat
        /\ p.qtyTotal \in Nat /\ p.qtyOpen > 0 /\ p.qtyOpen <= p.qtyTotal
        /\ p.opened <= p.restatedOn
    BY DEF Position, LotInv
  <2>2. r \in Growth
    BY DueRatioType
  <2>3. /\ Restate(p.qtyOpen, r) \in Nat /\ p.qtyOpen <= Restate(p.qtyOpen, r)
        /\ Restate(p.qtyTotal, r) \in Nat
        /\ Restate(p.qtyOpen, r) <= Restate(p.qtyTotal, r)
    <3> HIDE DEF r
    <3> QED  BY <2>1, <2>2, RestateGrows, RestateMonotone
  <2>4. Times(p.factor, r) = Combined[EffectiveIn(known, p.opened, asOf)]
    <3> DEFINE before == EffectiveIn(known, p.opened, p.restatedOn)
    <3>1. \A a \in known : ExDate[a] \in Nat
      BY TermsAssumption
    <3>2. p.restatedOn <= asOf
      BY <1>3, <2>1, <3>1 DEF Due, EffectiveIn
    <3>3. EffectiveIn(known, p.opened, asOf) = before \cup due
      BY <2>1, <3>1, <3>2 DEF Due, EffectiveIn
    <3>4. before \cap due = {}
      BY <2>1, <3>1 DEF Due, EffectiveIn
    <3>5. before \in SUBSET Actions /\ due \in SUBSET Actions
      BY DEF Due, EffectiveIn
    <3>6. Combined[before \cup due] = Times(Combined[before], Combined[due])
      <4> HIDE DEF before, due
      <4> QED  BY <3>4, <3>5, CombinedUnion
    <3>7. p.factor = Combined[before]
      BY DEF LotInv
    <3> QED  BY <3>3, <3>6, <3>7
  <2> DEFINE open  == Restate(p.qtyOpen, r)
             total == Restate(p.qtyTotal, r)
             f     == Times(p.factor, r)
  <2>5. n = [p EXCEPT !.qtyOpen = open, !.qtyTotal = total, !.factor = f, !.restatedOn = asOf]
    BY <1>3 DEF RestateForActions
  <2> HIDE DEF n, r, open, total, f
  <2>6. /\ n.status = p.status /\ n.opened = p.opened /\ n.restatedOn = asOf
        /\ n.qtyOpen = open /\ n.qtyTotal = total /\ n.factor = f
    BY <2>5 DEF Position
  <2>7. open \in Nat /\ total \in Nat /\ open > 0 /\ open <= total
    BY <2>1, <2>3 DEF open, total
  <2>8. p.opened <= asOf
    <3>1. \A a \in known : ExDate[a] \in Nat
      BY TermsAssumption
    <3> QED  BY <1>3, <2>1, <3>1 DEF Due, EffectiveIn
  <2>9. LotInv(n)
    BY <2>4, <2>6, <2>7, <2>8 DEF LotInv, f
  <2> QED  BY <1>1, <2>9 DEF n
<1> QED  BY <1>2, <1>3

LEMMA EvaluateBook ==
  ASSUME BookInv, TypeInv', AppliedInv', NEW b \in Buys, NEW asOf \in 0 .. LastDay, Evaluate(b, asOf)
  PROVE  BookInv'
<1>1. /\ TypeOK /\ AppliedInv /\ Sized /\ b \in OpenLots
      /\ \A c \in Lots : LotInv(position[c])
  BY LotByLot DEF ByLot, TypeInv, Evaluate
<1>2. /\ position[b] \in Position /\ LotInv(position[b]) /\ position[b].status = "open"
      /\ asOf \in Nat /\ asOf <= today /\ today \in Nat /\ known \subseteq Actions
  BY <1>1, LotType, LedgerAssumption DEF OpenLots, Evaluate, TypeOK
<1> DEFINE n == RestateForActions(position[b], asOf)
<1>3. LotInv(n) /\ n \in Position
  BY <1>2, RestateBook
<1>4. position' = [position EXCEPT ![b] = Evaluated(n)]
  BY DEF Evaluate
<1> HIDE DEF n
<1>5. LotInv(Evaluated(n)) /\ Evaluated(n) \in Position
  BY <1>3, EvaluatedType DEF Evaluated, LotInv, Position
<1>6. Lots' = Lots
  BY SameLots DEF BookInv
<1>7. UNCHANGED <<trade, loaded, today, known>>
  BY DEF Evaluate
<1>8. Sized'
  BY <1>1, <1>6, <1>7 DEF Sized
<1>9. \A c \in Lots : LotInv(position[c])'
  BY <1>1, <1>4, <1>5, <1>7, LotType DEF LotInv, TypeOK
<1> QED  BY <1>6, <1>8, <1>9, LotByLotNext DEF ByLot

LEMMA BookStep == BookInv /\ [BookNext]_vars => BookInv'
<1> SUFFICES ASSUME BookInv, [BookNext]_vars PROVE BookInv'
  OBVIOUS
<1>1. TypeInv' /\ AppliedInv'
  BY TypeStep, AppliedStep DEF BookInv, AnyNext, ManualNext
<1>2. CASE NextDay \/ \E a \in Actions : LoadAction(a)
  BY <1>1, <1>2, WorldBook
<1>3. CASE \/ \E t \in Trades : \E q \in Reported[t] : UpsertTrade(t, q)
           \/ StartApply
           \/ \E t \in Trades : SellRaises(t) \/ ApplyFails(t)
           \/ ApplyDies
           \/ UNCHANGED vars
  BY <1>1, <1>3, RunsBook
<1>4. ASSUME NEW t \in Buys, ApplyBuy(t) PROVE BookInv'
  BY <1>1, <1>4, BuyBook
<1>5. ASSUME NEW t \in Sells, ApplySell(t) PROVE BookInv'
  BY <1>1, <1>5, SellBook
<1>6. ASSUME NEW b \in Buys, NEW asOf \in 0 .. LastDay, Evaluate(b, asOf) PROVE BookInv'
  BY <1>1, <1>6, EvaluateBook
<1> QED
  BY <1>2, <1>3, <1>4, <1>5, <1>6 DEF BookNext, Apply, Trades

(* As long as actions are announced before they take effect and nobody     *)
(* reattributes a sell by hand, every lot is closed exactly when it is     *)
(* empty, is never oversold, and carries each corporate action since its   *)
(* fill exactly once (ledger.py, restate.py, matcher.py).                  *)
THEOREM BookCorrect ==
  BookSpec => []LotsAreSound
<1>1. BookInv => LotsAreSound
  BY DEF BookInv, LotsAreSound
<1> QED  BY <1>1, BookInit, BookStep, PTL DEF BookSpec

(* Once a lot is closed nothing is charged to it: a sell takes from open   *)
(* lots only.  What a lot sums up as it closes stays the sum of its rows.  *)
LEMMA SellPnl ==
  ASSUME BookInv, PnlMatchesRows, NEW t \in Sells, ApplySell(t)
  PROVE  PnlMatchesRows'
<1>1. /\ TypeOK /\ t \in Trades /\ t \notin Buys /\ Lots' = Lots
  BY SameLots, LedgerAssumption DEF BookInv, TypeInv, Trades
<1> SUFFICES ASSUME NEW b \in Lots, position'[b].status = "closed"
             PROVE  position'[b].realized = RowsOf(alloc', b)
  BY <1>1 DEF PnlMatchesRows
<1>2. b \in Buys /\ position[b] \in Position
  BY <1>1, LotType
<1>3. CASE Takes(t)[b] = 0
  <2>1. position'[b] = position[b]
    BY <1>2, <1>3 DEF ApplySell
  <2>2. \A s \in Sells : alloc'[s][b] = alloc[s][b]
    BY <1>1, <1>2, <1>3 DEF ApplySell, TypeOK
  <2> QED  BY <2>1, <2>2 DEF PnlMatchesRows, RowsOf
<1>4. CASE Takes(t)[b] # 0
  <2> DEFINE p    == [position[b] EXCEPT !.qtyOpen = @ - Takes(t)[b]]
             rows == RowsOf(alloc', b)
  <2>1. position'[b] = CloseIfFlat(p, t, rows)
    BY <1>2, <1>4 DEF ApplySell
  <2>2. DOMAIN p = DOMAIN position[b] /\ p.status = "open"
    BY <1>1, <1>2, <1>4, TakesBound DEF OpenLots, Position
  <2>3. "realized" \in DOMAIN position[b]
    BY <1>2 DEF Position
  <2> HIDE DEF p, rows
  <2>4. position'[b].realized = rows
    BY <2>1, <2>2, <2>3 DEF CloseIfFlat
  <2> QED  BY <2>4 DEF rows
<1> QED  BY <1>3, <1>4

LEMMA PnlStep == BookInv /\ PnlMatchesRows /\ [BookNext]_vars => PnlMatchesRows'
<1> SUFFICES ASSUME BookInv, PnlMatchesRows, [BookNext]_vars PROVE PnlMatchesRows'
  OBVIOUS
<1>1. TypeOK
  BY DEF BookInv, TypeInv
<1>2. CASE UNCHANGED <<position, alloc>>
  BY <1>2 DEF PnlMatchesRows, Lots, RowsOf
<1>3. ASSUME NEW t \in Buys, ApplyBuy(t) PROVE PnlMatchesRows'
  <2> SUFFICES ASSUME NEW b \in Lots', position'[b].status = "closed"
               PROVE  position'[b].realized = RowsOf(alloc', b)
    BY DEF PnlMatchesRows
  <2>1. b # t
    <3>1. position'[t].status = "open"
      BY <1>1, <1>3 DEF ApplyBuy, TypeOK
    <3> QED  BY <3>1
  <2>2. b \in Lots /\ position'[b] = position[b] /\ alloc' = alloc
    BY <1>1, <1>3, <2>1 DEF ApplyBuy, TypeOK, Lots
  <2> QED  BY <2>2 DEF PnlMatchesRows
<1>4. ASSUME NEW t \in Sells, ApplySell(t) PROVE PnlMatchesRows'
  BY <1>4, SellPnl
<1>5. ASSUME NEW b \in Buys, NEW asOf \in 0 .. LastDay, Evaluate(b, asOf) PROVE PnlMatchesRows'
  <2>1. position[b] \in Position /\ position[b].status = "open"
    BY <1>1, <1>5, LotType DEF Evaluate, OpenLots
  <2> DEFINE n == Evaluated(RestateForActions(position[b], asOf))
  <2>2. n.status = "open"
    <3> DEFINE m == RestateForActions(position[b], asOf)
    <3>1. m.status = "open" /\ "status" \in DOMAIN m
      BY <2>1 DEF RestateForActions, Position
    <3> HIDE DEF m
    <3>2. Evaluated(m).status = m.status
      BY <3>1 DEF Evaluated
    <3> QED  BY <3>1, <3>2 DEF m
  <2>3. position' = [position EXCEPT ![b] = n] /\ alloc' = alloc
    BY <1>5 DEF Evaluate
  <2> HIDE DEF n
  <2> SUFFICES ASSUME NEW c \in Lots', position'[c].status = "closed"
               PROVE  position'[c].realized = RowsOf(alloc', c)
    BY DEF PnlMatchesRows
  <2>4. c # b /\ c \in Lots /\ position'[c] = position[c]
    BY <1>1, <2>2, <2>3 DEF TypeOK, Lots
  <2> QED  BY <2>3, <2>4 DEF PnlMatchesRows
<1>6. CASE \/ NextDay \/ (\E a \in Actions : LoadAction(a)) \/ StartApply \/ ApplyDies
           \/ (\E t \in Trades : \E q \in Reported[t] : UpsertTrade(t, q))
           \/ (\E t \in Trades : SellRaises(t) \/ ApplyFails(t))
           \/ UNCHANGED vars
  BY <1>2, <1>6 DEF NextDay, LoadAction, StartApply, ApplyDies, UpsertTrade,
                    SellRaises, ApplyFails, vars
<1> QED  BY <1>3, <1>4, <1>5, <1>6 DEF BookNext, Apply, Trades

(* The realized P&L of every closed lot is the sum over all its rows and   *)
(* over no others, whichever fills arrive late or fail (_close_if_flat).   *)
THEOREM PnlCorrect == BookSpec => []PnlMatchesRows
<1>1. Init => PnlMatchesRows
  BY DEF Init, PnlMatchesRows, Lots
<1> QED  BY <1>1, BookInit, BookStep, PnlStep, PTL DEF BookSpec

-----------------------------------------------------------------------------
(* How far rounding takes a lot's total from the shares its fill stands    *)
(* for, counted in shares of the new terms times f.old.  A ratio to a      *)
(* multiple (1:n) rounds nothing.  The first other one leaves less than    *)
(* half a share of the fill's terms, two leave less than a share, so a     *)
(* total that goes back to whole shares goes back to those of the fill.    *)
(* Three can make up a whole share, and the rule cannot tell.              *)

Exact(total, q, f) == total * f.old = q * f.new

Half(total, q, f) ==
  /\ 2 * (total * f.old - q * f.new) < f.new
  /\ 2 * (q * f.new - total * f.old) < f.new

Within(total, q, f) ==
  /\ total * f.old - q * f.new < f.new
  /\ q * f.new - total * f.old < f.new

LEMMA RoundNear ==
  ASSUME NEW n \in Int, NEW d \in Nat \ {0}
  PROVE  /\ 2 * (RoundHalfEven(n, d) * d - n) <= d
         /\ 2 * (n - RoundHalfEven(n, d) * d) <= d
<1> DEFINE q == n \div d
           r == n % d
<1>1. q \in Int /\ r \in Nat /\ r < d /\ n = q * d + r
  BY DivMod
<1>2. RoundHalfEven(n, d) = IF 2 * r < d \/ (2 * r = d /\ q % 2 = 0) THEN q ELSE q + 1
  BY DEF RoundHalfEven
<1> DEFINE x == q * d
<1>3. x \in Int /\ (q + 1) * d = x + d
  BY <1>1, SMT
<1>4. CASE RoundHalfEven(n, d) = q /\ 2 * r <= d
  <2>1. RoundHalfEven(n, d) * d = x /\ n = x + r
    BY <1>1, <1>4
  <2> HIDE DEF q, r, x
  <2> QED  BY <1>1, <1>3, <1>4, <2>1
<1>5. CASE RoundHalfEven(n, d) = q + 1 /\ d <= 2 * r
  <2>1. RoundHalfEven(n, d) * d = x + d /\ n = x + r
    BY <1>1, <1>3, <1>5
  <2> HIDE DEF q, r, x
  <2> QED  BY <1>1, <1>3, <1>5, <2>1
<1> QED
  <2> HIDE DEF q, r, x
  <2> QED  BY <1>1, <1>2, <1>4, <1>5

(* A multiple of m that is at most half of m is none of it. *)
LEMMA SmallMultiple ==
  ASSUME NEW k \in Int, NEW m \in Nat \ {0}, 2 * (k * m) <= m, 2 * (-(k * m)) <= m
  PROVE  k = 0
<1>1. k * m \in Int
  BY SMT
<1>2. CASE k >= 1
  <2>1. m <= k * m
    BY <1>2, SMT
  <2> QED  BY <1>1, <2>1
<1>3. CASE k <= -1
  <2>1. k * m <= -m
    BY <1>3, SMT
  <2> QED  BY <1>1, <2>1
<1> QED  BY <1>2, <1>3

(* One restatement: exact, or less than half a share of the old terms off, *)
(* and never further off than half a share of the new ones.                *)
LEMMA RestateNear ==
  ASSUME NEW q \in Nat, NEW f \in Growth
  PROVE  /\ Exact(Restate(q, f), q, f) \/ Half(Restate(q, f), q, f)
         /\ 2 * (Restate(q, f) * f.old - q * f.new) <= f.new
         /\ 2 * (q * f.new - Restate(q, f) * f.old) <= f.new
         /\ f.old = 1 => Restate(q, f) = q * f.new
<1> DEFINE t == Restate(q, f)
           o == f.old
           n == f.new
           x == t * o
           y == q * n
<1>1. o \in Nat \ {0} /\ n \in Nat \ {0} /\ o <= n /\ t \in Nat
  BY RestateGrows DEF Growth, Ratio
<1>2. x \in Int /\ y \in Int
  BY <1>1, SMT
<1>3. 2 * (x - y) <= o /\ 2 * (y - x) <= o
  BY <1>1, <1>2, RoundNear DEF Restate
<1>4. 2 * (x - y) <= n /\ 2 * (y - x) <= n
  <2> HIDE DEF x, y, o, n, t
  <2> QED  BY <1>1, <1>2, <1>3
<1>5. ASSUME o < n PROVE Half(t, q, f)
  <2>1. 2 * (x - y) < n /\ 2 * (y - x) < n
    <3> HIDE DEF x, y, o, n, t
    <3> QED  BY <1>1, <1>2, <1>3, <1>5
  <2> QED  BY <2>1 DEF Half
<1>6. ASSUME o = n PROVE Exact(t, q, f)
  <2>1. x - y = (t - q) * n /\ t - q \in Int
    BY <1>1, <1>6, SMT
  <2>2. t - q = 0
    <3>1. y - x = -(x - y)
      <4> HIDE DEF x, y
      <4> QED  BY <1>2
    <3> HIDE DEF x, y, n, t
    <3> QED  BY <1>1, <1>4, <2>1, <3>1, SmallMultiple
  <2>3. x = y
    <3>1. t = q
      <4> HIDE DEF t
      <4> QED  BY <1>1, <2>2
    <3> QED  BY <1>6, <3>1
  <2> QED  BY <2>3 DEF Exact
<1>7. ASSUME o = 1 PROVE t = q * n
  <2>1. x = t
    <3> HIDE DEF t
    <3> QED  BY <1>1, <1>7
  <2>2. x = y
    <3> HIDE DEF x, y
    <3> QED  BY <1>2, <1>3, <1>7
  <2> QED  BY <2>1, <2>2
<1>8. Exact(t, q, f) \/ Half(t, q, f)
  BY <1>1, <1>5, <1>6
<1> QED  BY <1>4, <1>7, <1>8

(* The drift of two roundings, o and n the terms of the first, b and a of  *)
(* the second.                                                             *)
LEMMA DriftAddsUp ==
  ASSUME NEW o \in Int, NEW n \in Int, NEW b \in Int, NEW a \in Int,
         NEW q \in Int, NEW t \in Int, NEW u \in Int
  PROVE  u * (o * b) - q * (n * a) = o * (u * b - t * a) + a * (t * o - q * n)
BY SMT

LEMMA ScaledBound ==
  ASSUME NEW k \in Nat, NEW x \in Int, NEW y \in Int
  PROVE  /\ k * x \in Int /\ k * y \in Int /\ k * (-x) = -(k * x)
         /\ 2 * x <= y => 2 * (k * x) <= k * y
         /\ k # 0 /\ 2 * x < y => 2 * (k * x) < k * y
         /\ k # 0 /\ x < y => k * x < k * y
<1>1. k * x \in Int /\ k * y \in Int /\ k * (-x) = -(k * x) /\ k * (2 * x) = 2 * (k * x)
  BY SMT
<1>2. 2 * x <= y => k * (2 * x) <= k * y
  BY SMT
<1>3. k # 0 /\ 2 * x < y => k * (2 * x) < k * y
  BY SMT
<1>4. k # 0 /\ x < y => k * x < k * y
  BY SMT
<1> QED  BY <1>1, <1>2, <1>3, <1>4

(* The parts of a second restatement, x the drift of the first and y the   *)
(* drift of the second alone.                                              *)
Parts(f, g, total, q, u) ==
  LET x == total * f.old - q * f.new
      y == u * g.old - total * g.new
      z == f.old * y + g.new * x
  IN  /\ x \in Int /\ y \in Int /\ z \in Int
      /\ q * f.new - total * f.old = -x /\ total * g.new - u * g.old = -y
      /\ u * Times(f, g).old - q * Times(f, g).new = z
      /\ q * Times(f, g).new - u * Times(f, g).old = -z
      /\ Times(f, g).new = g.new * f.new
      /\ f.old * g.new <= g.new * f.new
      /\ f.old \in Nat \ {0} /\ f.new \in Nat \ {0} /\ g.new \in Nat \ {0}

LEMMA TwoRestatements ==
  ASSUME NEW f \in Growth, NEW g \in Growth, NEW total \in Nat, NEW q \in Nat,
         NEW u \in Nat
  PROVE  Parts(f, g, total, q, u)
<1> DEFINE o == f.old
           n == f.new
           b == g.old
           a == g.new
           x == total * o - q * n
           y == u * b - total * a
           z == o * y + a * x
           v == u * (o * b)
           w == q * (n * a)
<1>1. /\ o \in Nat \ {0} /\ n \in Nat \ {0} /\ o <= n
      /\ b \in Nat \ {0} /\ a \in Nat \ {0} /\ b <= a
  BY DEF Growth, Ratio
<1>2. total * o \in Int /\ q * n \in Int /\ u * b \in Int /\ total * a \in Int
  BY <1>1, SMT
<1>3. /\ x \in Int /\ y \in Int
      /\ q * n - total * o = -x /\ total * a - u * b = -y
  BY <1>2
<1>4. v - w = z
  BY <1>1, DriftAddsUp
<1>5. v \in Int /\ w \in Int
  <2> HIDE DEF o, n, a, b
  <2> QED  BY <1>1, SMT
<1>6. z \in Int /\ w - v = -z
  <2> HIDE DEF v, w, z
  <2> QED  BY <1>4, <1>5
<1>7. Times(f, g).new = n * a /\ Times(f, g).old = o * b
  BY DEF Times
<1>8. n * a = a * n /\ o * a <= a * n
  <2> HIDE DEF o, n, a, b
  <2>1. n * a = a * n
    BY <1>1, SMT
  <2>2. o * a <= n * a
    BY <1>1, ProductMonotone
  <2> QED  BY <2>1, <2>2
<1> QED  BY <1>1, <1>3, <1>4, <1>6, <1>7, <1>8 DEF Parts

(* A total that was exact drifts by less than half a share, if at all; one *)
(* that was off by less than half by less than a share.                    *)
LEMMA RestateAgain ==
  ASSUME NEW f \in Growth, NEW g \in Growth, NEW total \in Nat, NEW q \in Nat
  PROVE  LET u == Restate(total, g)
         IN  /\ Exact(total, q, f) => Exact(u, q, Times(f, g)) \/ Half(u, q, Times(f, g))
             /\ Half(total, q, f) => Within(u, q, Times(f, g))
<1> DEFINE u == Restate(total, g)
           o == f.old
           a == g.new
           n == f.new
           x == total * o - q * n
           y == u * g.old - total * a
           z == o * y + a * x
           h == Times(f, g)
<1>1. u \in Nat
  BY RestateGrows
<1>2. /\ x \in Int /\ y \in Int /\ z \in Int
      /\ q * n - total * o = -x /\ total * a - u * g.old = -y
      /\ u * h.old - q * h.new = z /\ q * h.new - u * h.old = -z
      /\ h.new = a * n /\ o * a <= a * n
      /\ o \in Nat \ {0} /\ a \in Nat \ {0} /\ n \in Nat \ {0}
  <2> HIDE DEF u
  <2>1. Parts(f, g, total, q, u)
    BY <1>1, TwoRestatements
  <2> QED  BY <2>1 DEF Parts
<1>3. /\ y = 0 \/ (2 * y < a /\ 2 * (-y) < a)
      /\ 2 * y <= a /\ 2 * (-y) <= a
  <2>1. /\ u * g.old = total * a \/ (2 * y < a /\ 2 * (total * a - u * g.old) < a)
        /\ 2 * y <= a /\ 2 * (total * a - u * g.old) <= a
    BY RestateNear DEF Exact, Half
  <2>2. u * g.old = total * a => y = 0
    <3>1. total * a \in Int
      BY <1>2, SMT
    <3> HIDE DEF u, a
    <3> QED  BY <3>1
  <2> HIDE DEF y, u, a
  <2> QED  BY <1>2, <2>1, <2>2
<1>4. /\ o * y \in Int /\ o * a \in Int /\ a * x \in Int /\ a * n \in Int
      /\ o * (-y) = -(o * y) /\ a * (-x) = -(a * x)
  <2> HIDE DEF o, a, n, x, y
  <2> QED  BY <1>2, ScaledBound
<1>5. ASSUME Exact(total, q, f) PROVE Exact(u, q, h) \/ Half(u, q, h)
  <2>1. x = 0
    <3>1. total * o = q * n /\ q * n \in Int
      BY <1>2, <1>5, SMT DEF Exact
    <3> QED  BY <3>1
  <2>2. a * x = 0 /\ z = o * y
    <3> HIDE DEF o, a, x, y
    <3> QED  BY <1>2, <1>4, <2>1
  <2>3. CASE y = 0
    <3>1. z = 0
      <4> HIDE DEF o, x, y, z
      <4> QED  BY <1>2, <2>2, <2>3
    <3>2. u * h.old = q * h.new
      <4>1. /\ u \in Nat /\ h.old \in Nat /\ h.new \in Nat
        <5> HIDE DEF u
        <5> QED  BY <1>1, TimesGrowth DEF Growth, Ratio
      <4>2. u * h.old \in Int /\ q * h.new \in Int
        <5> HIDE DEF u, h
        <5> QED  BY <4>1, SMT
      <4> HIDE DEF u, h, z
      <4> QED  BY <1>2, <3>1, <4>2
    <3> QED  BY <3>2 DEF Exact
  <2>4. CASE 2 * y < a /\ 2 * (-y) < a
    <3>1. 2 * (o * y) < o * a /\ 2 * (o * (-y)) < o * a
      <4> HIDE DEF o, a, n, x, y, z
      <4>1. -y \in Int
        BY <1>2
      <4> QED  BY <1>2, <2>4, <4>1, ScaledBound
    <3>2. 2 * z < a * n /\ 2 * (-z) < a * n
      <4> HIDE DEF o, a, n, x, y, z
      <4> QED  BY <1>2, <1>4, <2>2, <3>1
    <3> HIDE DEF o, a, n, x, y, z, h, u
    <3> QED  BY <1>2, <3>2 DEF Half
  <2> QED  BY <1>3, <2>3, <2>4
<1>6. ASSUME Half(total, q, f) PROVE Within(u, q, h)
  <2>1. 2 * x < n /\ 2 * (-x) < n
    <3>1. 2 * x < n /\ 2 * (q * n - total * o) < n
      BY <1>6 DEF Half
    <3> HIDE DEF x, n
    <3> QED  BY <1>2, <3>1
  <2>2. /\ 2 * (o * y) <= o * a /\ 2 * (o * (-y)) <= o * a
        /\ 2 * (a * x) < a * n /\ 2 * (a * (-x)) < a * n
    <3> HIDE DEF o, a, n, x, y, z
    <3>1. -y \in Int /\ -x \in Int
      BY <1>2
    <3> QED  BY <1>2, <1>3, <2>1, <3>1, ScaledBound
  <2>3. z < a * n /\ -z < a * n
    <3>1. z = o * y + a * x
      OBVIOUS
    <3> HIDE DEF o, a, n, x, y, z
    <3> QED  BY <1>2, <1>4, <2>2, <3>1
  <2> HIDE DEF o, a, n, x, y, z, h, u
  <2> QED  BY <1>2, <2>3 DEF Within
<1> HIDE DEF u, h
<1> QED  BY <1>5, <1>6 DEF u, h

(* A ratio to a multiple scales the drift with the share terms. *)
LEMMA RestateWhole ==
  ASSUME NEW f \in Growth, NEW g \in Growth, g.old = 1, NEW total \in Nat, NEW q \in Nat
  PROVE  LET u == Restate(total, g)
         IN  /\ Exact(total, q, f) => Exact(u, q, Times(f, g))
             /\ Half(total, q, f) => Half(u, q, Times(f, g))
             /\ Within(total, q, f) => Within(u, q, Times(f, g))
<1> DEFINE u == Restate(total, g)
           o == f.old
           a == g.new
           n == f.new
           h == Times(f, g)
           x == total * o - q * n
           v == u * h.old
           w == q * h.new
<1>1. o \in Nat \ {0} /\ a \in Nat \ {0} /\ n \in Nat \ {0} /\ u = total * a
  BY RestateNear DEF Growth, Ratio
<1>2. h.old = o /\ h.new = n * a
  BY <1>1 DEF Times
<1>3. v = a * (total * o) /\ w = a * (q * n) /\ h.new = a * n
  <2> HIDE DEF o, a, n, u, h
  <2> QED  BY <1>1, <1>2, SMT
<1>4. total * o \in Int /\ q * n \in Int
  BY <1>1, SMT
<1>5. x \in Int /\ q * n - total * o = -x
  BY <1>4
<1>6. v - w = a * x /\ w - v = a * (-x) /\ v \in Int /\ w \in Int
  <2>1. \A s, t \in Int : /\ a * s - a * t = a * (s - t) /\ a * s \in Int /\ a * t \in Int
                          /\ a * t - a * s = a * (-(s - t))
    <3> HIDE DEF a
    <3> QED  BY <1>1, SMT
  <2> HIDE DEF a, v, w, o, n
  <2> QED  BY <1>3, <1>4, <2>1
<1>7. Exact(total, q, f) => Exact(u, q, h)
  <2>1. total * o = q * n => v = w
    <3> HIDE DEF v, w, o, n, a
    <3> QED  BY <1>3
  <2> QED  BY <2>1 DEF Exact
<1>8. Half(total, q, f) => Half(u, q, h)
  <2> SUFFICES ASSUME Half(total, q, f) PROVE Half(u, q, h)
    OBVIOUS
  <2>1. 2 * x < n /\ 2 * (q * n - total * o) < n
    BY DEF Half
  <2>2. 2 * (a * x) < a * n /\ 2 * (a * (-x)) < a * n
    <3>1. -x \in Int /\ 2 * (-x) < n
      <4> HIDE DEF x, n
      <4> QED  BY <1>1, <1>5, <2>1
    <3> HIDE DEF x, n, a
    <3> QED  BY <1>1, <1>5, <2>1, <3>1, ScaledBound
  <2>3. 2 * (v - w) < h.new /\ 2 * (w - v) < h.new
    <3> HIDE DEF v, w, h, a, x, n
    <3> QED  BY <1>3, <1>6, <2>2
  <2> QED  BY <2>3 DEF Half
<1>9. Within(total, q, f) => Within(u, q, h)
  <2> SUFFICES ASSUME Within(total, q, f) PROVE Within(u, q, h)
    OBVIOUS
  <2>1. x < n /\ q * n - total * o < n
    BY DEF Within
  <2>2. a * x < a * n /\ a * (-x) < a * n
    <3>1. -x \in Int /\ -x < n
      <4> HIDE DEF x, n
      <4> QED  BY <1>1, <1>5, <2>1
    <3> HIDE DEF x, n, a
    <3> QED  BY <1>1, <1>5, <2>1, <3>1, ScaledBound
  <2>3. v - w < h.new /\ w - v < h.new
    <3> HIDE DEF v, w, h, a, x, n
    <3> QED  BY <1>3, <1>6, <2>2
  <2> QED  BY <2>3 DEF Within
<1> HIDE DEF u, h
<1> QED  BY <1>7, <1>8, <1>9 DEF u, h

LEMMA NearIsWithin ==
  ASSUME NEW f \in Growth, NEW total \in Nat, NEW q \in Nat,
         Exact(total, q, f) \/ Half(total, q, f)
  PROVE  Within(total, q, f)
<1> DEFINE x == total * f.old
           y == q * f.new
           n == f.new
<1>1. n \in Nat \ {0} /\ x \in Int /\ y \in Int
  <2>1. f.new \in Nat \ {0} /\ f.old \in Nat \ {0}
    BY DEF Growth, Ratio
  <2> QED  BY <2>1, SMT
<1>2. x = y \/ (2 * (x - y) < n /\ 2 * (y - x) < n)
  BY DEF Exact, Half
<1>3. x - y < n /\ y - x < n
  <2> HIDE DEF x, y, n
  <2> QED  BY <1>1, <1>2
<1> QED  BY <1>3 DEF Within

(* A count within a share of q that goes back to whole shares goes back to *)
(* q shares.                                                               *)
LEMMA WithinExact ==
  ASSUME NEW f \in Growth, NEW total \in Nat, NEW q \in Nat,
         Within(total, q, f), ~IsFractional(total, f)
  PROVE  total * f.old = q * f.new
<1> DEFINE n == f.new
           x == total * f.old
           k == x \div n
<1>1. n \in Nat \ {0} /\ x \in Int
  <2>1. f.new \in Nat \ {0} /\ f.old \in Nat \ {0}
    BY DEF Growth, Ratio
  <2> QED  BY <2>1, SMT
<1>2. k \in Int /\ x = k * n
  <2>1. x % n = 0
    BY DEF IsFractional
  <2>2. k \in Int /\ x = k * n + (x % n)
    <3> HIDE DEF n, x
    <3> QED  BY <1>1, DivMod DEF k
  <2>3. k * n \in Int
    BY <1>1, <2>2, SMT
  <2> HIDE DEF n, x, k
  <2> QED  BY <2>1, <2>2, <2>3
<1>3. k * n - q * n < n /\ q * n - k * n < n
  BY <1>2 DEF Within
<1>4. k = q
  <2> HIDE DEF k, n, x
  <2>1. CASE k > q
    <3>1. (q + 1) * n <= k * n
      BY <1>1, <1>2, <2>1, SMT
    <3>2. (q + 1) * n = q * n + n /\ q * n \in Int /\ k * n \in Int
      BY <1>1, <1>2, SMT
    <3> QED  BY <1>1, <1>3, <3>1, <3>2
  <2>2. CASE q > k
    <3>1. (k + 1) * n <= q * n
      BY <1>1, <1>2, <2>2, SMT
    <3>2. (k + 1) * n = k * n + n /\ q * n \in Int /\ k * n \in Int
      BY <1>1, <1>2, SMT
    <3> QED  BY <1>1, <1>3, <3>1, <3>2
  <2> QED  BY <1>2, <2>1, <2>2
<1> QED  BY <1>2, <1>4

(* The setting: an account that has seen at most two actions whose ratio   *)
(* is not to a multiple, among any number of splits and bonuses (1:n), and *)
(* whose broker reports a buy with one quantity.                           *)
Fractions    == {a \in Actions : OldShares[a] # 1}
FewFractions == Cardinality(Fractions) <= 2
OneReport    == \A t \in Buys : \A q, r \in Reported[t] : q = r

(* The drift of a lot's total from q shares at its fill, by how many of    *)
(* the actions that may round are behind it.                               *)
LotDrift(p, q) ==
  \/ Exact(p.qtyTotal, q, p.factor)
  \/ /\ Half(p.qtyTotal, q, p.factor)
     /\ \E a \in Fractions : ExDate[a] <= p.restatedOn
  \/ /\ Within(p.qtyTotal, q, p.factor)
     /\ \A a \in Fractions : ExDate[a] <= p.restatedOn

DriftInv ==
  /\ \A t \in Trades : trade[t].stored => trade[t].qty \in Reported[t]
  /\ \A t \in Batch : loaded[t] \in Reported[t]
  /\ \A b \in Lots : trade[b].stored
  /\ \A b \in Lots : \A q \in Reported[b] : LotDrift(position[b], q)

LEMMA TwoAtMost ==
  ASSUME FewFractions, NEW a \in Fractions, NEW b \in Fractions, NEW c \in Fractions
  PROVE  a = b \/ b = c \/ a = c
<1> SUFFICES ASSUME a # b, b # c, a # c PROVE FALSE
  OBVIOUS
<1>1. IsFiniteSet({a}) /\ Cardinality({a}) = 1
  BY FS_Singleton
<1>2. IsFiniteSet({a} \cup {b}) /\ Cardinality({a} \cup {b}) = 2
  BY <1>1, FS_AddElement
<1>3. Cardinality(({a} \cup {b}) \cup {c}) = 3
  BY <1>2, FS_AddElement
<1>4. IsFiniteSet(Fractions)
  BY TermsAssumption, FS_Subset DEF Fractions
<1>5. Cardinality(({a} \cup {b}) \cup {c}) <= Cardinality(Fractions)
  BY <1>4, FS_Subset
<1>6. Cardinality(Fractions) \in Nat
  BY <1>4, FS_CardinalityType
<1> QED  BY <1>3, <1>5, <1>6 DEF FewFractions

(* The product of ratios to multiples is one. *)
LEMMA WholeRatio ==
  ASSUME NEW S \in SUBSET Actions, S \cap Fractions = {}
  PROVE  Combined[S].old = 1
<1> DEFINE T == {A \in SUBSET S : Combined[A].old = 1}
<1>1. ASSUME NEW A \in SUBSET S, \A B \in SUBSET A : B # A => B \in T
      PROVE  A \in T
  <2>1. CASE A = {}
    <3>1. Combined[A] = Unchanged
      BY <2>1, CombinedGrowth DEF ObeysOn
    <3> QED  BY <3>1 DEF Unchanged
  <2>2. CASE A # {}
    <3> DEFINE a == Last(A)
               B == A \ {a}
    <3>1. a \in A
      BY <2>2, LastIn
    <3>2. Combined[B].old = 1
      BY <1>1, <3>1
    <3>3. Combined[A] = Times(Combined[B], RatioOf(a))
      BY <3>1, CombinedRemove
    <3>4. RatioOf(a).old = 1
      BY <3>1 DEF Fractions, RatioOf
    <3> HIDE DEF a, B
    <3> QED  BY <3>2, <3>3, <3>4 DEF Times
  <2> QED  BY <2>1, <2>2
<1>2. IsFiniteSet(S)
  BY TermsAssumption, FS_Subset
<1>3. SUBSET S \subseteq T
  <2> HIDE DEF T
  <2> QED  BY <1>1, <1>2, SubsetInduction
<1> QED  BY <1>3

(* Restating a lot: ratios to multiples keep what is known of its drift,   *)
(* others take it from exact to half a share, and from there to a share,   *)
(* behind which there are no more of them.                                 *)
LEMMA RestateDrift ==
  ASSUME FewFractions, NEW p \in Position, LotInv(p), known \subseteq Actions,
         NEW asOf \in Nat, asOf <= today, today \in Nat,
         NEW q \in Nat, LotDrift(p, q)
  PROVE  LotDrift(RestateForActions(p, asOf), q)
<1> DEFINE due    == Due(p, asOf)
           r      == Combined[due]
           total  == Restate(p.qtyTotal, r)
           f      == Times(p.factor, r)
           n      == RestateForActions(p, asOf)
<1>1. CASE due = {}
  BY <1>1 DEF RestateForActions
<1>2. CASE due # {}
  <2>1. p.restatedOn \in Nat /\ p.qtyTotal \in Nat
    BY DEF Position
  <2>2. due \in SUBSET Actions /\ r \in Growth
    BY DueRatioType DEF Due, EffectiveIn
  <2>3. p.factor \in Growth
    BY CombinedGrowth DEF LotInv, EffectiveIn
  <2>4. \A a \in Actions : ExDate[a] \in Nat
    BY TermsAssumption
  <2>5. \A a \in due : p.restatedOn < ExDate[a] /\ ExDate[a] <= asOf
    BY DEF Due, EffectiveIn
  <2>6. p.restatedOn <= asOf
    BY <1>2, <2>1, <2>2, <2>4, <2>5
  <2>7. n.qtyTotal = total /\ n.factor = f /\ n.restatedOn = asOf
    <3> DEFINE open == Restate(p.qtyOpen, r)
    <3>1. n = [p EXCEPT !.qtyOpen = open, !.qtyTotal = total, !.factor = f, !.restatedOn = asOf]
      BY <1>2 DEF RestateForActions
    <3> HIDE DEF n, r, open, total, f
    <3> QED  BY <3>1 DEF Position
  <2>8. \A a \in Fractions : a \in Actions /\ (ExDate[a] <= p.restatedOn => ExDate[a] <= asOf)
    BY <2>1, <2>4, <2>6 DEF Fractions
  <2>9. CASE due \cap Fractions = {}
    <3>1. r.old = 1
      <4> HIDE DEF due
      <4> QED  BY <2>2, <2>9, WholeRatio
    <3>2. /\ Exact(p.qtyTotal, q, p.factor) => Exact(total, q, f)
          /\ Half(p.qtyTotal, q, p.factor) => Half(total, q, f)
          /\ Within(p.qtyTotal, q, p.factor) => Within(total, q, f)
      <4> HIDE DEF r
      <4> QED  BY <2>1, <2>2, <2>3, <3>1, RestateWhole
    <3>3. LotDrift(n, q)
      <4> HIDE DEF n, total, f
      <4> QED  BY <2>7, <2>8, <3>2 DEF LotDrift
    <3> QED  BY <3>3
  <2>10. CASE due \cap Fractions # {}
    <3>1. PICK d \in Fractions : d \in due
      BY <2>10
    <3>2. ExDate[d] <= asOf /\ ~(ExDate[d] <= p.restatedOn)
      BY <2>1, <2>2, <2>4, <2>5, <3>1
    <3>3. /\ Exact(p.qtyTotal, q, p.factor) => Exact(total, q, f) \/ Half(total, q, f)
          /\ Half(p.qtyTotal, q, p.factor) => Within(total, q, f)
      <4> HIDE DEF r
      <4> QED  BY <2>1, <2>2, <2>3, RestateAgain
    <3>4. ASSUME Exact(p.qtyTotal, q, p.factor) PROVE LotDrift(n, q)
      <4> HIDE DEF n, total, f
      <4> QED  BY <2>7, <3>1, <3>2, <3>3, <3>4 DEF LotDrift
    <3>5. ASSUME Half(p.qtyTotal, q, p.factor),
                 NEW e \in Fractions, ExDate[e] <= p.restatedOn
          PROVE  LotDrift(n, q)
      <4>1. \A a \in Fractions : a = d \/ a = e
        BY <3>2, <3>5, TwoAtMost
      <4>2. \A a \in Fractions : ExDate[a] <= asOf
        BY <2>8, <3>2, <3>5, <4>1
      <4> HIDE DEF n, total, f
      <4> QED  BY <2>7, <3>3, <3>5, <4>2 DEF LotDrift
    <3> QED  BY <3>1, <3>2, <3>4, <3>5 DEF LotDrift
  <2> QED  BY <2>9, <2>10
<1> QED  BY <1>1, <1>2

(* A lot whose total and factor stay keeps its drift. *)
SameTotal(p, n) ==
  n.qtyTotal = p.qtyTotal /\ n.factor = p.factor /\ n.restatedOn = p.restatedOn

LEMMA SameDrift ==
  ASSUME NEW p, NEW n, NEW q, SameTotal(p, n), LotDrift(p, q)
  PROVE  LotDrift(n, q)
BY DEF SameTotal, LotDrift

LEMMA SellTotal ==
  ASSUME TypeOK, NEW t \in Sells, ApplySell(t), NEW b \in Lots
  PROVE  SameTotal(position[b], position'[b])
<1>1. b \in Buys /\ position[b] \in Position
  BY LotType
<1>2. CASE Takes(t)[b] = 0
  BY <1>1, <1>2 DEF ApplySell, SameTotal
<1>3. CASE Takes(t)[b] # 0
  <2> DEFINE p    == [position[b] EXCEPT !.qtyOpen = @ - Takes(t)[b]]
             rows == RowsOf(alloc', b)
  <2>1. position'[b] = CloseIfFlat(p, t, rows)
    BY <1>1, <1>3 DEF ApplySell
  <2>2. SameTotal(position[b], p)
    BY <1>1 DEF Position, SameTotal
  <2> HIDE DEF p, rows
  <2>3. SameTotal(p, CloseIfFlat(p, t, rows))
    BY DEF CloseIfFlat, SameTotal
  <2> QED  BY <2>1, <2>2, <2>3 DEF SameTotal
<1> QED  BY <1>2, <1>3

LEMMA DriftInit == Init => DriftInv
BY DEF Init, DriftInv, Batch, Lots

LEMMA BuyDrift ==
  ASSUME OneReport, BookInv, DriftInv, NEW t \in Buys, ApplyBuy(t)
  PROVE  \A b \in Lots' : \A q \in Reported[b] : LotDrift(position'[b], q)
<1>1. TypeOK /\ t \in Trades /\ t \in Batch
  BY DEF BookInv, TypeInv, Trades, ApplyBuy, IsNext
<1> DEFINE total == QtyNow(t, loaded[t])
           since == EffectiveIn(known, TradeDay[t], today)
           f     == FillRatio(t)
<1>2. /\ position'[t].qtyTotal = total /\ position'[t].factor = f
      /\ position'[t].restatedOn = today
  BY <1>1 DEF ApplyBuy, TypeOK
<1>3. ASSUME NEW q \in Reported[t] PROVE LotDrift(position'[t], q)
  <2>1. loaded[t] = q /\ q \in Nat
    BY <1>1, LedgerAssumption DEF DriftInv, OneReport
  <2>2. f \in Growth /\ since \in SUBSET Actions /\ \A a \in since : ExDate[a] <= today
    BY <1>1, FillRatioType DEF TypeOK, EffectiveIn
  <2>3. total = Restate(q, f) /\ f = Combined[since]
    BY <2>1 DEF QtyNow, FillRatio
  <2>4. /\ Exact(total, q, f) \/ Half(total, q, f)
        /\ f.old = 1 => total = q * f.new
    <3> HIDE DEF f, total
    <3> QED  BY <2>1, <2>2, <2>3, RestateNear
  <2>5. CASE since \cap Fractions = {}
    <3>1. f.old = 1
      <4> HIDE DEF since, f
      <4> QED  BY <2>2, <2>3, <2>5, WholeRatio
    <3>2. q * f.new \in Int
      <4>1. f.new \in Nat
        BY <2>2 DEF Growth, Ratio
      <4> HIDE DEF f
      <4> QED  BY <2>1, <4>1, SMT
    <3> HIDE DEF f, total
    <3> QED  BY <1>2, <2>4, <3>1, <3>2 DEF LotDrift, Exact
  <2>6. CASE since \cap Fractions # {}
    <3> HIDE DEF f, total, since
    <3> QED  BY <1>2, <2>2, <2>4, <2>6 DEF LotDrift
  <2> QED  BY <2>5, <2>6
<1>4. ASSUME NEW b \in Lots', b # t PROVE b \in Lots /\ position'[b] = position[b]
  BY <1>1, <1>4 DEF ApplyBuy, TypeOK, Lots
<1> QED  BY <1>3, <1>4 DEF DriftInv

LEMMA EvaluateDrift ==
  ASSUME FewFractions, BookInv, DriftInv,
         NEW b \in Buys, NEW asOf \in 0 .. LastDay, Evaluate(b, asOf)
  PROVE  \A c \in Lots' : \A q \in Reported[c] : LotDrift(position'[c], q)
<1>1. /\ TypeOK /\ b \in OpenLots /\ Lots' = Lots
      /\ \A c \in Lots : LotInv(position[c])
  BY SameLots, LotByLot DEF BookInv, ByLot, TypeInv, Evaluate
<1>2. /\ position[b] \in Position /\ LotInv(position[b]) /\ b \in Lots
      /\ asOf \in Nat /\ asOf <= today /\ today \in Nat /\ known \subseteq Actions
  BY <1>1, LotType, LedgerAssumption DEF OpenLots, Evaluate, TypeOK
<1> DEFINE n == RestateForActions(position[b], asOf)
<1>3. n \in Position
  BY <1>2, RestateForActionsType
<1>4. position' = [position EXCEPT ![b] = Evaluated(n)]
  BY DEF Evaluate
<1>5. ASSUME NEW q \in Reported[b] PROVE LotDrift(n, q)
  <2>1. q \in Nat /\ LotDrift(position[b], q)
    BY <1>2, LedgerAssumption DEF DriftInv, Trades
  <2> QED  BY <1>2, <2>1, RestateDrift
<1> HIDE DEF n
<1>6. SameTotal(n, Evaluated(n))
  BY <1>3 DEF Evaluated, SameTotal, Position
<1>7. ASSUME NEW q \in Reported[b] PROVE LotDrift(position'[b], q)
  BY <1>1, <1>4, <1>5, <1>6, SameDrift DEF TypeOK
<1>8. ASSUME NEW c \in Lots, c # b PROVE position'[c] = position[c]
  BY <1>1, <1>4, <1>8 DEF TypeOK
<1> QED  BY <1>1, <1>7, <1>8 DEF DriftInv

(* What runs load is what was reported. *)
LEMMA ReportsStay ==
  ASSUME BookInv, DriftInv, [BookNext]_vars
  PROVE  /\ \A t \in Trades : trade'[t].stored => trade'[t].qty \in Reported[t]
         /\ \A t \in Trades : trade[t].stored => trade'[t].stored
         /\ \A t \in Batch' : loaded'[t] \in Reported[t]
<1>1. TypeOK /\ AppliedInv
  BY DEF BookInv, TypeInv
<1>2. ASSUME NEW t \in Trades, Commit(t) \/ Rollback(t), NEW u \in Batch'
      PROVE  loaded'[u] \in Reported[u]
  <2>1. u \in Trades /\ loaded'[u] # 0
    BY DEF Batch
  <2>2. CASE loaded' = Kept(t)
    BY <1>1, <2>1, <2>2 DEF Kept, TypeOK, DriftInv, Batch
  <2>3. CASE loaded' = Reloaded(t)
    BY <1>1, <2>1, <2>3 DEF Reloaded, DriftInv, AppliedInv
  <2> QED  BY <1>2, <2>2, <2>3 DEF Commit, Rollback
<1>3. ASSUME NEW t \in Trades, NEW q \in Reported[t], UpsertTrade(t, q)
      PROVE  /\ \A u \in Trades : trade'[u].stored => trade'[u].qty \in Reported[u]
             /\ \A u \in Trades : trade[u].stored => trade'[u].stored
             /\ loaded' = loaded
  BY <1>1, <1>3 DEF UpsertTrade, TypeOK, DriftInv
<1>4. ASSUME NEW t \in Trades, ApplyBuy(t) \/ ApplySell(t)
      PROVE  \A u \in Trades : /\ trade'[u].stored <=> trade[u].stored
                               /\ trade'[u].qty = trade[u].qty
  <2>1. trade' = [trade EXCEPT ![t].applied = TRUE]
    BY <1>4 DEF ApplyBuy, ApplySell
  <2> QED  BY <1>1, <2>1 DEF TypeOK
<1>5. CASE StartApply
  BY <1>1, <1>5 DEF StartApply, DriftInv, Batch
<1>6. CASE ApplyDies
  BY <1>1, <1>6 DEF ApplyDies, DriftInv, Batch
<1>7. CASE UNCHANGED <<trade, loaded>>
  BY <1>7 DEF DriftInv, Batch
<1>8. CASE \E t \in Trades : \E q \in Reported[t] : UpsertTrade(t, q)
  BY <1>3, <1>8 DEF DriftInv, Batch
<1>9. CASE (\E t \in Buys : ApplyBuy(t)) \/ (\E t \in Sells : ApplySell(t))
  BY <1>2, <1>4, <1>9 DEF DriftInv, ApplyBuy, ApplySell, Trades
<1>10. CASE \E t \in Trades : SellRaises(t) \/ ApplyFails(t)
  BY <1>2, <1>10 DEF DriftInv, SellRaises, ApplyFails
<1>11. CASE NextDay \/ (\E a \in Actions : LoadAction(a)) \/ UNCHANGED vars
            \/ \E b \in Buys : \E asOf \in 0 .. LastDay : Evaluate(b, asOf)
  BY <1>7, <1>11 DEF NextDay, LoadAction, vars, Evaluate
<1> QED
  BY <1>5, <1>6, <1>8, <1>9, <1>10, <1>11 DEF BookNext, Apply, Trades

LEMMA DriftStep ==
  FewFractions /\ OneReport /\ BookInv /\ DriftInv /\ [BookNext]_vars => DriftInv'
<1> SUFFICES ASSUME FewFractions, OneReport, BookInv, DriftInv, [BookNext]_vars
             PROVE  DriftInv'
  OBVIOUS
<1>1. TypeOK /\ AppliedInv
  BY DEF BookInv, TypeInv
<1>2. ASSUME UNCHANGED position
      PROVE  Lots' = Lots /\ \A b \in Lots' : \A q \in Reported[b] : LotDrift(position'[b], q)
  BY <1>2 DEF Lots, DriftInv
<1>3. CASE \/ NextDay \/ (\E a \in Actions : LoadAction(a)) \/ StartApply \/ ApplyDies
           \/ (\E t \in Trades : \E q \in Reported[t] : UpsertTrade(t, q))
           \/ (\E t \in Trades : SellRaises(t) \/ ApplyFails(t))
           \/ UNCHANGED vars
  <2>1. UNCHANGED position
    BY <1>3 DEF NextDay, LoadAction, StartApply, ApplyDies, UpsertTrade,
                SellRaises, ApplyFails, vars
  <2>2. Lots' \subseteq Trades
    BY DEF Lots, Trades
  <2> QED  BY <1>2, <2>1, <2>2, ReportsStay DEF DriftInv
<1>4. ASSUME NEW t \in Buys, ApplyBuy(t) PROVE DriftInv'
  <2>1. Lots' \subseteq Lots \cup {t} /\ Lots \subseteq Trades /\ t \in Trades
    BY <1>1, <1>4 DEF Lots, ApplyBuy, TypeOK, Trades
  <2>2. trade[t].stored
    BY <1>1, <1>4 DEF ApplyBuy, IsNext, AppliedInv
  <2> QED  BY <1>4, <2>1, <2>2, BuyDrift, ReportsStay DEF DriftInv
<1>5. ASSUME NEW t \in Sells, ApplySell(t) PROVE DriftInv'
  <2>1. Lots' = Lots /\ Lots \subseteq Trades
    BY <1>5, SameLots DEF BookInv, Lots, Trades
  <2>2. \A b \in Lots : \A q \in Reported[b] : LotDrift(position'[b], q)
    BY <1>1, <1>5, SellTotal, SameDrift DEF DriftInv
  <2> QED  BY <2>1, <2>2, ReportsStay DEF DriftInv
<1>6. ASSUME NEW b \in Buys, NEW asOf \in 0 .. LastDay, Evaluate(b, asOf) PROVE DriftInv'
  <2>1. Lots' = Lots /\ Lots \subseteq Trades
    BY <1>6, SameLots DEF BookInv, Lots, Trades
  <2> QED  BY <1>6, <2>1, EvaluateDrift, ReportsStay DEF DriftInv
<1> QED  BY <1>3, <1>4, <1>5, <1>6 DEF BookNext, Apply, Trades

(* In an account of any number of splits and bonuses, of which at most two *)
(* have a ratio that is not to a multiple, a total that the QTY_MISMATCH   *)
(* rule lets pass is exactly what the buy stands for, however the errors   *)
(* of its roundings fall (evaluate_position, restate).                     *)
THEOREM TwoRoundingsShow ==
  ASSUME FewFractions, OneReport
  PROVE  BookSpec => []UnflaggedIsExact
<1>1. BookInv /\ DriftInv => UnflaggedIsExact
  <2> SUFFICES ASSUME BookInv, DriftInv, NEW b \in OpenLots,
                      ~IsFractional(position[b].qtyTotal, position[b].factor)
               PROVE  position[b].qtyTotal * position[b].factor.old
                        = trade[b].qty * position[b].factor.new
    BY DEF UnflaggedIsExact
  <2> DEFINE p == position[b]
             q == trade[b].qty
  <2>1. b \in Lots /\ b \in Trades /\ p \in Position /\ LotInv(p)
    BY LotType, LotByLot DEF OpenLots, ByLot, TypeInv, Lots, Trades
  <2>2. q \in Reported[b] /\ q \in Nat
    BY <2>1, LedgerAssumption DEF DriftInv
  <2>3. p.qtyTotal \in Nat /\ p.factor \in Growth
    <3>1. known \subseteq Actions
      BY DEF BookInv, TypeInv, TypeOK
    <3> QED  BY <2>1, <3>1, CombinedGrowth DEF Position, LotInv, EffectiveIn
  <2>4. LotDrift(p, q)
    BY <2>1, <2>2 DEF DriftInv
  <2>5. Within(p.qtyTotal, q, p.factor)
    <3> HIDE DEF p, q
    <3> QED  BY <2>2, <2>3, <2>4, NearIsWithin DEF LotDrift
  <2>6. ~IsFractional(p.qtyTotal, p.factor)
    OBVIOUS
  <2>7. p.qtyTotal * p.factor.old = q * p.factor.new
    <3> HIDE DEF p, q
    <3> QED  BY <2>2, <2>3, <2>5, <2>6, WithinExact
  <2> QED  BY <2>7
<1>2. BookInv /\ DriftInv /\ [BookNext]_vars => DriftInv'
  BY DriftStep
<1> QED  BY <1>1, <1>2, BookInit, BookStep, DriftInit, PTL DEF BookSpec

-----------------------------------------------------------------------------
(* Steps.                                                                  *)

(* A lot keeps its id whatever is sold of it or folded into it. *)
LEMMA SameId ==
  ASSUME NEW p \in Position
  PROVE  /\ \A s \in Sells : \A rows : CloseIfFlat(p, s, rows).id = p.id
         /\ \A asOf : Evaluated(RestateForActions(p, asOf)).id = p.id
<1>1. ASSUME NEW s \in Sells, NEW rows PROVE CloseIfFlat(p, s, rows).id = p.id
  BY DEF CloseIfFlat, Position
<1>2. ASSUME NEW asOf PROVE Evaluated(RestateForActions(p, asOf)).id = p.id
  <2> DEFINE n == RestateForActions(p, asOf)
  <2>1. n.id = p.id /\ DOMAIN n = DOMAIN p
    BY DEF RestateForActions, Position
  <2> HIDE DEF n
  <2>2. Evaluated(n).id = n.id
    BY <2>1 DEF Evaluated, Position
  <2> QED  BY <2>1, <2>2 DEF n
<1> QED  BY <1>1, <1>2

(* No step applies a fill twice: a run only holds fills that nobody has    *)
(* applied, whatever fails or dies on the way (apply_unapplied_trades).    *)
THEOREM OnceOnly == BookSpec => AppliedOnce
<1> DEFINE Once == \A t \in Trades : trade[t].applied =>
             /\ trade'[t].applied
             /\ t \in Sells => alloc'[t] = alloc[t]
             /\ t \in Buys  => position'[t].id = position[t].id
<1>1. ASSUME BookInv, BookNext PROVE Once
  <2> SUFFICES ASSUME NEW t \in Trades, trade[t].applied
               PROVE  /\ trade'[t].applied
                      /\ t \in Sells => alloc'[t] = alloc[t]
                      /\ t \in Buys  => position'[t].id = position[t].id
    OBVIOUS
  <2>1. /\ TypeOK /\ t \notin Batch /\ Buys \cap Sells = {}
        /\ t \in Buys => (t \in Lots => position[t] \in Position)
    BY <1>1, LotType, LedgerAssumption DEF BookInv, TypeInv, AppliedInv
  <2>2. CASE UNCHANGED <<trade, alloc, position>>
    BY <2>2
  <2>3. ASSUME NEW u \in Trades, NEW q \in Reported[u], UpsertTrade(u, q)
        PROVE  trade'[t].applied /\ UNCHANGED <<alloc, position>>
    <3> DEFINE row == [trade[u] EXCEPT !.stored = TRUE, !.qty = q]
    <3>1. row.applied <=> trade[u].applied
      BY <2>1 DEF TypeOK
    <3>2. trade' = [trade EXCEPT ![u] = row]
      BY <2>1, <2>3 DEF UpsertTrade, TypeOK
    <3> HIDE DEF row
    <3> QED  BY <2>1, <2>3, <3>1, <3>2 DEF UpsertTrade, TypeOK
  <2>4. ASSUME NEW u \in Buys, ApplyBuy(u)
        PROVE  trade'[t].applied /\ alloc' = alloc /\ position'[t] = position[t]
    <3>1. u # t
      BY <2>1, <2>4 DEF ApplyBuy, IsNext
    <3> QED  BY <2>1, <2>4, <3>1 DEF ApplyBuy, TypeOK
  <2>5. ASSUME NEW u \in Sells, ApplySell(u)
        PROVE  /\ trade'[t].applied
               /\ t \in Sells => alloc'[t] = alloc[t]
               /\ t \in Buys  => position'[t].id = position[t].id
    <3>1. u # t /\ u \in Trades
      BY <2>1, <2>5 DEF ApplySell, IsNext, Trades
    <3>2. trade'[t].applied /\ (t \in Sells => alloc'[t] = alloc[t])
      BY <2>1, <2>5, <3>1 DEF ApplySell, TypeOK
    <3>3. ASSUME t \in Buys PROVE position'[t].id = position[t].id
      <4>1. CASE Takes(u)[t] = 0
        BY <2>5, <3>3, <4>1 DEF ApplySell
      <4>2. CASE Takes(u)[t] # 0
        <5>1. position[t] \in Position /\ Takes(u)[t] \in Nat
          BY <2>1, <3>1, <3>3, <4>2, TakesBound, TakesType DEF OpenLots
        <5> DEFINE p == [position[t] EXCEPT !.qtyOpen = @ - Takes(u)[t]]
        <5>2. p \in Position /\ p.id = position[t].id
          BY <5>1 DEF Position
        <5>3. position'[t] = CloseIfFlat(p, u, RowsOf(alloc', t))
          BY <2>5, <3>3, <4>2 DEF ApplySell
        <5> HIDE DEF p
        <5> QED  BY <5>2, <5>3, SameId
      <4> QED  BY <4>1, <4>2
    <3> QED  BY <3>2, <3>3
  <2>6. ASSUME NEW b \in Buys, NEW asOf \in 0 .. LastDay, Evaluate(b, asOf)
        PROVE  /\ trade' = trade /\ alloc' = alloc
               /\ t \in Buys => position'[t].id = position[t].id
    <3>1. position[b] \in Position
      BY <2>1, <2>6, LotType DEF Evaluate, OpenLots
    <3> DEFINE n == Evaluated(RestateForActions(position[b], asOf))
    <3>2. n.id = position[b].id
      BY <3>1, SameId
    <3>3. position' = [position EXCEPT ![b] = n]
      BY <2>6 DEF Evaluate
    <3> HIDE DEF n
    <3> QED  BY <2>1, <2>6, <3>2, <3>3 DEF Evaluate, TypeOK
  <2>7. CASE NextDay \/ (\E a \in Actions : LoadAction(a)) \/ StartApply \/ ApplyDies
             \/ (\E u \in Trades : SellRaises(u) \/ ApplyFails(u))
    BY <2>2, <2>7 DEF NextDay, LoadAction, StartApply, ApplyDies, SellRaises, ApplyFails
  <2> QED
    BY <1>1, <2>3, <2>4, <2>5, <2>6, <2>7 DEF BookNext, Apply, Trades
<1>2. BookInv /\ [BookNext]_vars => [Once]_vars
  BY <1>1
<1> HIDE DEF Once
<1>3. BookSpec => [][Once]_vars
  BY <1>2, BookInit, BookStep, PTL DEF BookSpec
<1> QED  BY <1>3 DEF AppliedOnce, Once

(* If a sell takes something from a lot, it takes all of an older one: the *)
(* shares ahead of the newer lot include those of the older lot.           *)
LEMMA OlderDrained ==
  ASSUME TypeOK, LotBounds, NEW t \in Trades, NEW b \in Buys, Takes(t)[b] # 0,
         NEW c \in OpenLots, Older(c, b)
  PROVE  Takes(t)[c] = position[c].qtyOpen
<1> DEFINE q       == QtyNow(t, loaded[t])
           ahead(x) == {d \in OpenLots : Older(d, x)}
<1>1. /\ b \in OpenLots /\ c \in Buys /\ c \in Lots
      /\ position[b] \in Position /\ position[c] \in Position
  BY TakesBound, LotType DEF OpenLots
<1>2. /\ position[c].qtyOpen \in Nat /\ position[b].qtyOpen \in Int
      /\ position[b].opened \in Nat /\ position[b].id \in Nat
      /\ position[c].opened \in Nat /\ position[c].id \in Nat
  BY <1>1 DEF LotBounds, Position
<1>3. ahead(c) \cup {c} \subseteq ahead(b) /\ c \notin ahead(c)
  <2>1. ASSUME NEW d \in OpenLots, Older(d, c) PROVE Older(d, b)
    <3>1. position[d].opened \in Nat /\ position[d].id \in Nat
      BY <2>1, LotType DEF OpenLots, Position
    <3> QED  BY <1>2, <2>1, <3>1 DEF Older
  <2>2. ~Older(c, c)
    BY <1>2 DEF Older
  <2> QED  BY <2>1, <2>2
<1>4. Total(QtyOpen, ahead(c)) + position[c].qtyOpen <= Total(QtyOpen, ahead(b))
  <2>1. /\ ahead(c) \in SUBSET OpenLots /\ ahead(c) \cup {c} \in SUBSET ahead(b)
        /\ ahead(b) \in SUBSET OpenLots /\ ahead(c) \cup {c} \in SUBSET OpenLots
    BY <1>3
  <2> DEFINE A == ahead(b)
             C == ahead(c)
  <2> HIDE DEF A, C
  <2>2. /\ IsFiniteSet(C) /\ IsFiniteSet(A) /\ Total(QtyOpen, C) \in Nat
        /\ \A d \in A : QtyOpen[d] \in Int
        /\ \A d \in C \cup {c} : QtyOpen[d] \in Int
        /\ QtyOpen[c] = position[c].qtyOpen
    BY <2>1, OpenShares DEF A, C
  <2>3. Total(QtyOpen, C \cup {c}) =
          Total(QtyOpen, C) + (IF QtyOpen[c] <= 0 THEN 0 ELSE QtyOpen[c])
    <3> DEFINE f == QtyOpen
    <3>1. c \notin C /\ IsFiniteSet(C) /\ \A d \in C \cup {c} : f[d] \in Int
      BY <1>3, <2>2 DEF C
    <3> HIDE DEF f
    <3>2. Total(f, C \cup {c}) = Total(f, C) + (IF f[c] <= 0 THEN 0 ELSE f[c])
      BY <3>1, TotalPlus
    <3> QED  BY <3>2 DEF f
  <2>4. Total(QtyOpen, C \cup {c}) <= Total(QtyOpen, A)
    BY <2>1, <2>2, TotalMonotone DEF A, C
  <2>5. (IF QtyOpen[c] <= 0 THEN 0 ELSE QtyOpen[c]) = position[c].qtyOpen
    BY <1>2, <2>2
  <2>6. Total(QtyOpen, C) + position[c].qtyOpen <= Total(QtyOpen, A)
    BY <2>3, <2>4, <2>5
  <2> QED  BY <2>6 DEF A, C
<1>5. /\ Total(QtyOpen, ahead(b)) \in Nat /\ Total(QtyOpen, ahead(c)) \in Nat
  BY OpenShares
<1>6. q \in Nat
  BY QtyNowType DEF TypeOK
<1>7. q - Total(QtyOpen, ahead(b)) > 0
  <2>1. FifoTake(b, q) # 0
    BY <1>1 DEF Takes
  <2> DEFINE rest == q - Total(QtyOpen, ahead(b))
  <2>2. rest \in Int
    BY <1>5, <1>6
  <2>3. rest <= 0 => FifoTake(b, q) = 0
    BY DEF FifoTake
  <2> HIDE DEF rest
  <2>4. rest > 0
    BY <2>1, <2>2, <2>3
  <2> QED  BY <2>4 DEF rest
<1>8. Takes(t)[c] = FifoTake(c, q)
  BY <1>1 DEF Takes
<1>9. q - Total(QtyOpen, ahead(c)) > position[c].qtyOpen
  <2> DEFINE A == Total(QtyOpen, ahead(b))
             C == Total(QtyOpen, ahead(c))
  <2> HIDE DEF q, A, C
  <2> QED  BY <1>2, <1>4, <1>5, <1>6, <1>7 DEF A, C
<1>10. FifoTake(c, q) =
         IF position[c].qtyOpen <= 0 \/ q - Total(QtyOpen, ahead(c)) <= 0 THEN 0
         ELSE IF q - Total(QtyOpen, ahead(c)) < position[c].qtyOpen
              THEN q - Total(QtyOpen, ahead(c)) ELSE position[c].qtyOpen
  BY DEF FifoTake
<1> DEFINE left == q - Total(QtyOpen, ahead(c))
<1>11. left \in Int
  BY <1>5, <1>6
<1> HIDE DEF q, ahead, left
<1> QED  BY <1>2, <1>8, <1>9, <1>10, <1>11 DEF left

(* A sell never touches a lot while an older one keeps shares, whatever    *)
(* the order in which fills arrived (allocate_fifo).                       *)
THEOREM OldestFirst == BookSpec => FifoOrder
<1> DEFINE Fifo == \A s \in Sells : \A b \in Buys : \A c \in OpenLots :
             alloc'[s][b] > alloc[s][b] /\ position[c].opened < position[b].opened
               => position'[c].qtyOpen = 0
<1>1. ASSUME BookInv, [BookNext]_vars PROVE Fifo
  <2> SUFFICES ASSUME NEW s \in Sells, NEW b \in Buys, NEW c \in OpenLots,
                      alloc'[s][b] > alloc[s][b],
                      position[c].opened < position[b].opened
               PROVE  position'[c].qtyOpen = 0
    OBVIOUS
  <2>0. Older(c, b)
    BY DEF Older
  <2>1. TypeOK /\ LotBounds /\ s \in Trades
    BY <1>1 DEF BookInv, TypeInv, Trades
  <2>2. alloc' # alloc
    <3>1. alloc[s][b] \in Nat
      BY <2>1 DEF TypeOK
    <3> QED  BY <3>1
  <2>3. PICK t \in Sells : ApplySell(t)
    BY <1>1, <2>2 DEF BookNext, Apply, NextDay, LoadAction, UpsertTrade, StartApply,
       ApplyBuy, SellRaises, ApplyFails, ApplyDies, Evaluate, vars
  <2>4. s = t /\ Takes(t)[b] # 0
    <3>1. Takes(t) \in [Buys -> Nat] /\ t \in Trades
      BY <2>1, TakesType DEF Trades
    <3>2. alloc[s][b] \in Nat
      BY <2>1 DEF TypeOK
    <3>3. CASE s # t
      BY <2>1, <2>3, <3>2, <3>3 DEF ApplySell, TypeOK
    <3>4. CASE s = t
      <4>1. alloc'[s][b] = alloc[s][b] + Takes(t)[b]
        BY <2>1, <2>3, <3>4 DEF ApplySell, TypeOK
      <4> QED  BY <3>1, <3>2, <3>4, <4>1
    <3> QED  BY <3>3, <3>4
  <2>5. Takes(t)[c] = position[c].qtyOpen /\ c \in Buys
    BY <2>0, <2>1, <2>4, OlderDrained DEF OpenLots, Lots
  <2>6. position[c] \in Position
    BY <2>1, LotType DEF OpenLots
  <2>7. CASE Takes(t)[c] = 0
    BY <2>3, <2>5, <2>7 DEF ApplySell
  <2>8. CASE Takes(t)[c] # 0
    <3> DEFINE take == Takes(t)[c]
               p    == [position[c] EXCEPT !.qtyOpen = @ - take]
    <3>1. p \in Position /\ p.qtyOpen = 0
      BY <2>5, <2>6 DEF Position
    <3>2. position'[c] = CloseIfFlat(p, t, RowsOf(alloc', c))
      BY <2>3, <2>5, <2>8 DEF ApplySell
    <3> HIDE DEF p
    <3> QED  BY <3>1, <3>2 DEF CloseIfFlat, Position
  <2> QED  BY <2>7, <2>8
<1>2. BookInv /\ [BookNext]_vars => [Fifo]_vars
  BY <1>1
<1> HIDE DEF Fifo
<1>3. BookSpec => [][Fifo]_vars
  BY <1>2, BookInit, BookStep, PTL DEF BookSpec
<1> QED  BY <1>3 DEF FifoOrder, Fifo

-----------------------------------------------------------------------------
(* Without corporate actions no share is lost, manual corrections or not.  *)

LEMMA CloseCounts ==
  ASSUME NEW p \in Position, NEW s \in Sells, NEW rows
  PROVE  /\ CloseIfFlat(p, s, rows).qtyOpen = p.qtyOpen
         /\ CloseIfFlat(p, s, rows).qtyTotal = p.qtyTotal
BY DEF CloseIfFlat, Position

LEMMA ReversedCounts ==
  ASSUME NEW p \in Position, NEW s \in Sells, NEW q \in Nat
  PROVE  /\ Reversed(p, s, q).qtyOpen = p.qtyOpen + q
         /\ Reversed(p, s, q).qtyTotal = p.qtyTotal
<1>1. p.qtyOpen \in Int
  BY DEF Position
<1> DEFINE q1 == p.qtyOpen + q
           reopened == [p EXCEPT !.qtyOpen = q1, !.status = "open",
                                 !.exit = None, !.realized = <<>>]
           plain == [p EXCEPT !.qtyOpen = q1]
<1>2. reopened.qtyOpen = q1 /\ reopened.qtyTotal = p.qtyTotal
  <2> HIDE DEF q1
  <2> QED  BY DEF Position
<1>3. plain.qtyOpen = q1 /\ plain.qtyTotal = p.qtyTotal
  <2> HIDE DEF q1
  <2> QED  BY DEF Position
<1>4. Reversed(p, s, q) = IF q = 0 THEN p ELSE IF p.exit = s THEN reopened ELSE plain
  BY DEF Reversed
<1>5. q = 0 => q1 = p.qtyOpen
  BY <1>1
<1> HIDE DEF reopened, plain, q1
<1>6. Reversed(p, s, q).qtyOpen = q1 /\ Reversed(p, s, q).qtyTotal = p.qtyTotal
  BY <1>2, <1>3, <1>4, <1>5
<1> QED  BY <1>6 DEF q1

(* The sum over all sells when one of them changes its row. *)
LEMMA OneRow ==
  ASSUME NEW f \in [Sells -> Nat], NEW g \in [Sells -> Nat], NEW t \in Sells,
         \A s \in Sells : s # t => g[s] = f[s]
  PROVE  Total(f, Sells) + g[t] = Total(g, Sells) + f[t] /\ Total(f, Sells) \in Nat
                                                       /\ Total(g, Sells) \in Nat
<1> DEFINE S == Sells \ {t}
<1>1. IsFiniteSet(Sells) /\ IsFiniteSet(S) /\ Sells = S \cup {t} /\ t \notin S
  <2>1. IsFiniteSet(Sells)
    BY LedgerAssumption, FS_Subset DEF Trades
  <2> QED  BY <2>1, FS_Subset
<1>2. Total(f, S) = Total(g, S)
  <2>1. \A s \in S : f[s] = g[s]
    OBVIOUS
  <2> HIDE DEF S
  <2> QED  BY <2>1, TotalSame
<1>3. \A s \in S \cup {t} : f[s] \in Int /\ g[s] \in Int
  OBVIOUS
<1> HIDE DEF S
<1>4. Total(f, S) \in Nat
  BY <1>1, <1>3, SharesFinite
<1>5. Total(f, S \cup {t}) = Total(f, S) + (IF f[t] <= 0 THEN 0 ELSE f[t])
  BY <1>1, <1>3, TotalPlus
<1>6. Total(g, S \cup {t}) = Total(g, S) + (IF g[t] <= 0 THEN 0 ELSE g[t])
  BY <1>1, <1>3, TotalPlus
<1>7. /\ (IF f[t] <= 0 THEN 0 ELSE f[t]) = f[t]
      /\ (IF g[t] <= 0 THEN 0 ELSE g[t]) = g[t]
      /\ f[t] \in Nat /\ g[t] \in Nat
  OBVIOUS
<1>8. Total(f, Sells) = Total(f, S) + f[t] /\ Total(g, Sells) = Total(f, S) + g[t]
  BY <1>1, <1>2, <1>5, <1>6, <1>7
<1> QED  BY <1>4, <1>7, <1>8

(* AllocatedTo moves with the row that changes. *)
LEMMA RowMoves ==
  ASSUME TypeOK, TypeOK', NEW b \in Buys, NEW t \in Sells,
         \A s \in Sells : s # t => alloc'[s][b] = alloc[s][b]
  PROVE  /\ AllocatedTo(b) + alloc'[t][b] = AllocatedTo(b)' + alloc[t][b]
         /\ AllocatedTo(b) \in Nat /\ AllocatedTo(b)' \in Nat
<1> DEFINE f == [s \in Sells |-> alloc[s][b]]
           g == [s \in Sells |-> alloc'[s][b]]
<1>1. f \in [Sells -> Nat] /\ g \in [Sells -> Nat] /\ \A s \in Sells : s # t => g[s] = f[s]
  BY DEF TypeOK
<1>2. f[t] = alloc[t][b] /\ g[t] = alloc'[t][b]
  OBVIOUS
<1>3. AllocatedTo(b) = Total(f, Sells) /\ AllocatedTo(b)' = Total(g, Sells)
  BY DEF AllocatedTo, Total, Shares
<1> HIDE DEF f, g
<1>4. /\ Total(f, Sells) + g[t] = Total(g, Sells) + f[t]
      /\ Total(f, Sells) \in Nat /\ Total(g, Sells) \in Nat
  BY <1>1, OneRow
<1> QED  BY <1>2, <1>3, <1>4

LEMMA SameRows ==
  ASSUME UNCHANGED alloc
  PROVE  \A b \in Buys : AllocatedTo(b)' = AllocatedTo(b)
BY DEF AllocatedTo, Total, Shares

LEMMA NothingAllocated ==
  ASSUME NEW b \in Buys, \A s \in Sells : alloc[s][b] = 0
  PROVE  AllocatedTo(b) = 0
<1>1. Shares([s \in Sells |-> alloc[s][b]], Sells) = {}
  BY DEF Shares
<1> QED  BY <1>1, FS_EmptySet DEF AllocatedTo, Total

(* Without actions a fill is restated to itself and evaluation restates    *)
(* nothing.                                                                *)
LEMMA NoActionsNoFactor ==
  ASSUME Actions = {}, TypeOK
  PROVE  /\ \A t : \A q \in Nat : QtyNow(t, q) = q
         /\ \A p, asOf : RestateForActions(p, asOf) = p
<1>1. \A since, upTo : EffectiveIn(known, since, upTo) = {}
  BY DEF TypeOK, EffectiveIn
<1>2. ASSUME NEW t, NEW q \in Nat PROVE QtyNow(t, q) = q
  <2>1. FillRatio(t) = Unchanged
    <3>1. Combined[{}] = Unchanged
      BY CombinedGrowth DEF ObeysOn
    <3> QED  BY <1>1, <3>1 DEF FillRatio
  <2>2. q * 1 = q /\ q \div 1 = q /\ (q % 1) = 0
    BY SMT
  <2>3. RoundHalfEven(q, 1) = q
    BY <2>2 DEF RoundHalfEven
  <2> QED  BY <2>1, <2>2, <2>3 DEF QtyNow, Restate, Unchanged
<1>3. ASSUME NEW p, NEW asOf PROVE RestateForActions(p, asOf) = p
  BY <1>1 DEF RestateForActions, Due
<1> QED  BY <1>2, <1>3

(* What has to add up in one lot. *)
AddsUp(b) == position[b].qtyTotal = position[b].qtyOpen + AllocatedTo(b)

LEMMA BuyAddsUp ==
  ASSUME TypeInv, TypeInv', AppliedInv, Conservation, Actions = {},
         NEW t \in Buys, ApplyBuy(t)
  PROVE  Conservation'
<1>1. TypeOK /\ t \in Trades /\ t \notin Lots /\ Lots' \subseteq Lots \cup {t}
  BY DEF TypeInv, TypeOK, ApplyBuy, IsNext, AppliedInv, Trades, Lots
<1>2. \A b \in Buys : AllocatedTo(b)' = AllocatedTo(b)
  BY SameRows DEF ApplyBuy
<1>3. AllocatedTo(t) = 0
  BY <1>1, NothingAllocated DEF TypeInv, RowsHaveLots
<1>4. QtyNow(t, loaded[t]) \in Nat
  BY <1>1, QtyNowType DEF TypeOK
<1>5. /\ position'[t].qtyTotal = QtyNow(t, loaded[t])
      /\ position'[t].qtyOpen = QtyNow(t, loaded[t])
  BY <1>1 DEF ApplyBuy, TypeOK
<1>6. AddsUp(t)'
  BY <1>2, <1>3, <1>4, <1>5 DEF AddsUp
<1>7. ASSUME NEW b \in Lots PROVE AddsUp(b)'
  <2>1. b \in Buys /\ position'[b] = position[b]
    BY <1>1 DEF ApplyBuy, TypeOK, Lots
  <2> QED  BY <1>2, <2>1 DEF AddsUp, Conservation
<1> QED  BY <1>1, <1>6, <1>7 DEF Conservation, AddsUp

LEMMA SellAddsUp ==
  ASSUME TypeInv, TypeInv', Conservation, NEW t \in Sells, ApplySell(t)
  PROVE  Conservation'
<1>1. TypeOK /\ TypeOK' /\ Lots' = Lots /\ t \in Trades
  BY SameLots DEF TypeInv, Trades
<1>2. SUFFICES ASSUME NEW b \in Lots PROVE AddsUp(b)'
  BY <1>1 DEF Conservation, AddsUp
<1>3. b \in Buys /\ position[b] \in Position /\ Takes(t)[b] \in Nat
  BY <1>1, LotType, TakesType
<1> DEFINE take == Takes(t)[b]
<1>4. /\ alloc'[t][b] = alloc[t][b] + take /\ alloc[t][b] \in Nat
      /\ \A s \in Sells : s # t => alloc'[s][b] = alloc[s][b]
  BY <1>1, <1>3 DEF ApplySell, TypeOK
<1>5. /\ AllocatedTo(b)' = AllocatedTo(b) + take
      /\ AllocatedTo(b) \in Nat
  <2>1. /\ AllocatedTo(b) + alloc'[t][b] = AllocatedTo(b)' + alloc[t][b]
        /\ AllocatedTo(b) \in Nat /\ AllocatedTo(b)' \in Nat
    BY <1>1, <1>3, <1>4, RowMoves
  <2> HIDE DEF take
  <2> QED  BY <1>3, <1>4, <2>1 DEF take
<1>6. /\ position'[b].qtyOpen = position[b].qtyOpen - take
      /\ position'[b].qtyTotal = position[b].qtyTotal
  <2>1. CASE take = 0
    BY <1>3, <2>1 DEF ApplySell, Position
  <2>2. CASE take # 0
    <3> DEFINE p == [position[b] EXCEPT !.qtyOpen = @ - take]
    <3>1. /\ p \in Position /\ p.qtyOpen = position[b].qtyOpen - take
          /\ p.qtyTotal = position[b].qtyTotal
      BY <1>3 DEF Position
    <3>2. position'[b] = CloseIfFlat(p, t, RowsOf(alloc', b))
      BY <1>3, <2>2 DEF ApplySell
    <3> HIDE DEF p, take
    <3> QED  BY <3>1, <3>2, CloseCounts
  <2> QED  BY <2>1, <2>2
<1>7. position[b].qtyTotal = position[b].qtyOpen + AllocatedTo(b)
  BY DEF Conservation
<1> HIDE DEF take
<1> QED  BY <1>3, <1>5, <1>6, <1>7 DEF AddsUp, Position, take

LEMMA ReattributeAddsUp ==
  ASSUME TypeInv, TypeInv', Conservation, NEW s \in Sells, NEW split \in Splits(s),
         Reattribute(s, split)
  PROVE  Conservation'
<1>1. TypeOK /\ TypeOK' /\ Lots' = Lots
  BY SameLots DEF TypeInv
<1>2. SUFFICES ASSUME NEW b \in Lots PROVE AddsUp(b)'
  BY <1>1 DEF Conservation, AddsUp
<1>3. b \in Buys /\ position[b] \in Position
  BY <1>1, LotType
<1> DEFINE old == alloc[s][b]
           new == IF b \in DOMAIN split THEN split[b] ELSE 0
<1>4. /\ alloc'[s][b] = new /\ old \in Nat /\ new \in Nat
      /\ \A u \in Sells : u # s => alloc'[u][b] = alloc[u][b]
  <2>1. alloc' \in [Sells -> [Buys -> Nat]]
    BY <1>1 DEF TypeOK
  <2> QED  BY <1>1, <1>3, <2>1 DEF Reattribute, TypeOK
<1>5. /\ AllocatedTo(b) + new = AllocatedTo(b)' + old
      /\ AllocatedTo(b) \in Nat /\ AllocatedTo(b)' \in Nat
  BY <1>1, <1>3, <1>4, RowMoves
<1>6. /\ position'[b].qtyOpen = position[b].qtyOpen + old - new
      /\ position'[b].qtyTotal = position[b].qtyTotal
  <2> DEFINE back == Reversed(position[b], s, old)
  <2>1. /\ back \in Position /\ back.qtyOpen = position[b].qtyOpen + old
        /\ back.qtyTotal = position[b].qtyTotal
    <3> HIDE DEF old
    <3> QED  BY <1>3, <1>4, ReversedType, ReversedCounts
  <2>2. CASE b \in DOMAIN split
    <3> DEFINE p == [back EXCEPT !.qtyOpen = @ - new]
    <3>1. position'[b] = CloseIfFlat(p, s, RowsOf(alloc', b))
      BY <1>3, <2>2 DEF Reattribute
    <3> HIDE DEF back, old, new
    <3>2. /\ p \in Position /\ p.qtyOpen = back.qtyOpen - new /\ p.qtyTotal = back.qtyTotal
      BY <1>4, <2>1 DEF Position
    <3> HIDE DEF p
    <3>3. position'[b].qtyOpen = p.qtyOpen /\ position'[b].qtyTotal = p.qtyTotal
      BY <3>1, <3>2, CloseCounts
    <3>4. position[b].qtyOpen \in Int
      BY <1>3 DEF Position
    <3> QED  BY <1>4, <2>1, <3>2, <3>3, <3>4
  <2>3. CASE b \notin DOMAIN split
    <3>1. position'[b] = back /\ new = 0
      BY <1>3, <2>3 DEF Reattribute
    <3> HIDE DEF back, old, new
    <3> QED  BY <1>3, <1>4, <2>1, <3>1 DEF Position
  <2> QED  BY <2>2, <2>3
<1>7. position[b].qtyTotal = position[b].qtyOpen + AllocatedTo(b) /\ position[b].qtyOpen \in Int
  BY <1>3 DEF Conservation, Position
<1> HIDE DEF old, new
<1> QED  BY <1>4, <1>5, <1>6, <1>7 DEF AddsUp

(* What a lot was opened with is still open or charged to a sell, under    *)
(* late fills, failed runs and any sequence of manual reattributions       *)
(* (reattribute_sell), as long as no corporate action changes the terms.   *)
THEOREM SharesConserved ==
  ASSUME Actions = {}
  PROVE  ManualSpec => []Conservation
<1> DEFINE Inv == TypeInv /\ AppliedInv /\ Conservation
<1>1. Init => Inv
  BY TypeInit, AppliedInit DEF Init, Conservation, Lots
<1>2. Inv /\ [ManualNext]_vars => Inv'
  <2> SUFFICES ASSUME Inv, [ManualNext]_vars PROVE Inv'
    OBVIOUS
  <2>1. TypeInv' /\ AppliedInv' /\ TypeOK
    BY TypeStep, AppliedStep DEF AnyNext, TypeInv
  <2>2. CASE UNCHANGED <<position, alloc>>
    <3>1. \A b \in Buys : AllocatedTo(b)' = AllocatedTo(b)
      BY <2>2, SameRows
    <3> QED  BY <2>1, <2>2, <3>1 DEF Conservation, Lots
  <2>3. ASSUME NEW t \in Buys, ApplyBuy(t) PROVE Inv'
    BY <2>1, <2>3, BuyAddsUp
  <2>4. ASSUME NEW t \in Sells, ApplySell(t) PROVE Inv'
    BY <2>1, <2>4, SellAddsUp
  <2>5. ASSUME NEW s \in Sells, NEW split \in Splits(s), Reattribute(s, split) PROVE Inv'
    BY <2>1, <2>5, ReattributeAddsUp
  <2>6. ASSUME NEW b \in Buys, NEW asOf \in 0 .. LastDay, Evaluate(b, asOf) PROVE Inv'
    <3>1. Lots' = Lots /\ \A c \in Buys : AllocatedTo(c)' = AllocatedTo(c)
      BY <2>6, SameLots, SameRows DEF Evaluate
    <3>2. position' = [position EXCEPT ![b] = Evaluated(position[b])] /\ position[b] \in Position
      BY <2>1, <2>6, NoActionsNoFactor, LotType DEF Evaluate, OpenLots
    <3>3. /\ Evaluated(position[b]).qtyOpen = position[b].qtyOpen
          /\ Evaluated(position[b]).qtyTotal = position[b].qtyTotal
      BY <3>2 DEF Evaluated, Position
    <3>4. \A c \in Lots :
            /\ position'[c].qtyOpen = position[c].qtyOpen
            /\ position'[c].qtyTotal = position[c].qtyTotal
      BY <2>1, <3>2, <3>3, LotType DEF TypeOK
    <3>5. Lots \subseteq Buys
      BY DEF Lots
    <3> QED  BY <2>1, <3>1, <3>4, <3>5 DEF Conservation
  <2> QED
    BY <2>2, <2>3, <2>4, <2>5, <2>6, QuietType DEF ManualNext, BookNext, Apply, Trades
<1>3. Inv => Conservation
  OBVIOUS
<1> HIDE DEF Inv
<1> QED  BY <1>1, <1>2, <1>3, PTL DEF ManualSpec
=============================================================================
