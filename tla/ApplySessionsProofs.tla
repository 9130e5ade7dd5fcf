------------------------ MODULE ApplySessionsProofs ------------------------
(***************************************************************************)
(* What holds for any number of sessions that apply the fills of an        *)
(* account, however they overlap, and what holds as long as they do not.   *)
(***************************************************************************)
EXTENDS ApplySessions, FiniteSetTheorems, TLAPS

-----------------------------------------------------------------------------
(* Finite sets, and the shares of finite sets of lots.                     *)

(* A count that gives each lot of a finite set an integer. *)
LEMMA SharesFinite ==
  ASSUME NEW S, IsFiniteSet(S), NEW count, \A b \in S : count[b] \in Int
  PROVE  IsFiniteSet(Shares(count, S)) /\ Total(count, S) \in Nat
<1> DEFINE f     == [b \in S |-> {b} \X (1 .. count[b])]
           Parts == {f[b] : b \in S}
<1>1. \A b \in S : IsFiniteSet(f[b])
  <2> SUFFICES ASSUME NEW b \in S PROVE IsFiniteSet({b} \X (1 .. count[b]))
    OBVIOUS
  <2>1. IsFiniteSet({b})
    BY FS_Singleton
  <2>2. IsFiniteSet(1 .. count[b])
    BY FS_Interval
  <2> QED  BY <2>1, <2>2, FS_Product
<1>2. IsFiniteSet(Parts)
  <2>1. f \in Surjection(S, Parts)
    BY DEF Surjection
  <2> QED  BY <2>1, FS_Surjection
<1>3. IsFiniteSet(UNION Parts)
  <2> HIDE DEF f
  <2> QED  BY <1>1, <1>2, FS_UNION
<1>4. Shares(count, S) = UNION Parts
  BY DEF Shares
<1> QED  BY <1>3, <1>4, FS_CardinalityType DEF Total

(* The shares of one more lot. *)
LEMMA TotalPlus ==
  ASSUME NEW S, IsFiniteSet(S), NEW count, NEW b, b \notin S,
         \A c \in S \cup {b} : count[c] \in Int
  PROVE  Total(count, S \cup {b}) =
           Total(count, S) + (IF count[b] <= 0 THEN 0 ELSE count[b])
<1> DEFINE mine == {b} \X (1 .. count[b])
<1>1. Shares(count, S \cup {b}) = Shares(count, S) \cup mine
  BY DEF Shares
<1>2. Shares(count, S) \cap mine = {}
  BY DEF Shares
<1>3. IsFiniteSet(mine) /\ Cardinality(mine) = IF count[b] <= 0 THEN 0 ELSE count[b]
  <2>1. /\ IsFiniteSet(1 .. count[b])
        /\ Cardinality(1 .. count[b]) = IF count[b] < 1 THEN 0 ELSE count[b] - 1 + 1
    BY FS_Interval
  <2>2. IsFiniteSet({b}) /\ Cardinality({b}) = 1
    BY FS_Singleton
  <2>3. IsFiniteSet(mine) /\ Cardinality(mine) = Cardinality({b}) * Cardinality(1 .. count[b])
    BY <2>1, <2>2, FS_Product
  <2> QED  BY <2>1, <2>2, <2>3
<1>4. IsFiniteSet(Shares(count, S))
  BY SharesFinite
<1> HIDE DEF mine
<1>5. Cardinality(Shares(count, S) \cup mine) =
        Cardinality(Shares(count, S)) + Cardinality(mine)
        - Cardinality(Shares(count, S) \cap mine)
  BY <1>3, <1>4, FS_Union
<1>6. Cardinality(Shares(count, S) \cap mine) = 0
  BY <1>2, FS_EmptySet
<1>7. Cardinality(Shares(count, S)) \in Nat /\ Cardinality(mine) \in Nat
  BY <1>3, <1>4, FS_CardinalityType
<1>8. Total(count, S \cup {b}) = Total(count, S) + Cardinality(mine)
  <2>1. Cardinality(Shares(count, S) \cup mine) =
          Cardinality(Shares(count, S)) + Cardinality(mine)
    BY <1>5, <1>6, <1>7
  <2> QED  BY <1>1, <2>1 DEF Total
<1> DEFINE more == IF count[b] <= 0 THEN 0 ELSE count[b]
<1>9. Cardinality(mine) = more
  BY <1>3
<1> HIDE DEF more
<1>10. Total(count, S \cup {b}) = Total(count, S) + more
  BY <1>8, <1>9
<1> QED  BY <1>10 DEF more

(* Only the counts of the lots matter. *)
LEMMA TotalSame ==
  ASSUME NEW S, NEW f, NEW g, \A b \in S : f[b] = g[b]
  PROVE  Total(f, S) = Total(g, S)
<1>1. Shares(f, S) = Shares(g, S)
  BY DEF Shares
<1> QED  BY <1>1 DEF Total

LEMMA TotalPointwise ==
  ASSUME NEW S, IsFiniteSet(S), NEW f, NEW g,
         \A b \in S : f[b] \in Int /\ g[b] \in Int /\ f[b] <= g[b]
  PROVE  Total(f, S) <= Total(g, S)
<1>1. Shares(f, S) \subseteq Shares(g, S)
  <2> SUFFICES ASSUME NEW b \in S PROVE 1 .. f[b] \subseteq 1 .. g[b]
    BY DEF Shares
  <2> QED  OBVIOUS
<1>2. IsFiniteSet(Shares(g, S))
  BY SharesFinite
<1> QED  BY <1>1, <1>2, FS_Subset DEF Total

(* Lots that hold nothing do not count. *)
LEMMA TotalWithout ==
  ASSUME NEW S, NEW R \in SUBSET S, NEW count,
         \A b \in S : count[b] \in Int, \A b \in S \ R : count[b] <= 0
  PROVE  Total(count, S) = Total(count, R)
<1>1. \A b \in S \ R : 1 .. count[b] = {}
  OBVIOUS
<1>2. Shares(count, S) = Shares(count, R)
  BY <1>1 DEF Shares
<1> QED  BY <1>2 DEF Total

(* One count changes. *)
LEMMA TotalChange ==
  ASSUME NEW S, IsFiniteSet(S), NEW f \in [S -> Nat], NEW g \in [S -> Nat], NEW b \in S,
         \A c \in S \ {b} : f[c] = g[c]
  PROVE  Total(g, S) = Total(f, S) - f[b] + g[b]
<1> DEFINE R == S \ {b}
<1>1. IsFiniteSet(R) /\ b \notin R /\ S = R \cup {b}
  BY FS_Subset
<1>2. Total(f, R) = Total(g, R) /\ Total(f, R) \in Nat
  BY <1>1, TotalSame, SharesFinite
<1> HIDE DEF R
<1>3. ASSUME NEW h \in [S -> Nat]
      PROVE  Total(h, S) = Total(h, R) + h[b]
  <2>1. \A c \in R \cup {b} : h[c] \in Int
    BY <1>1
  <2>2. Total(h, R \cup {b}) = Total(h, R) + (IF h[b] <= 0 THEN 0 ELSE h[b])
    BY <1>1, <2>1, TotalPlus
  <2>3. h[b] \in Nat
    OBVIOUS
  <2>4. (IF h[b] <= 0 THEN 0 ELSE h[b]) = h[b]
    BY <2>3
  <2> QED  BY <1>1, <2>2, <2>4
<1>4. Total(f, S) = Total(f, R) + f[b] /\ Total(g, S) = Total(g, R) + g[b]
  BY <1>3
<1>5. f[b] \in Nat /\ g[b] \in Nat
  OBVIOUS
<1> QED  BY <1>2, <1>4, <1>5

(* A collection that holds every subset all of whose proper subsets it     *)
(* holds, holds all subsets of a finite set.                               *)
LEMMA SubsetInduction ==
  ASSUME NEW S, IsFiniteSet(S), NEW T,
         \A A \in SUBSET S : (\A B \in SUBSET A : B # A => B \in T) => A \in T
  PROVE  SUBSET S \subseteq T
<1> DEFINE Missing == {A \in SUBSET S : A \notin T}
<1>1. SUFFICES ASSUME Missing # {} PROVE FALSE
  OBVIOUS
<1>2. Missing \subseteq FiniteSubsetsOf(S)
  BY FS_Subset DEF FiniteSubsetsOf
<1>3. IsWellFoundedOn(StrictSubsetOrdering(S), FiniteSubsetsOf(S))
  BY FS_StrictSubsetOrderingWellFounded
<1>4. PICK A \in Missing : \A B \in Missing : <<B, A>> \notin StrictSubsetOrdering(S)
  <2> HIDE DEF Missing
  <2> QED  BY <1>1, <1>2, <1>3, WFMin
<1>5. \A B \in SUBSET A : B # A => B \in T
  BY <1>4 DEF StrictSubsetOrdering
<1>6. QED  BY <1>4, <1>5

(* A set of lots has a last one. *)
LEMMA LastLot ==
  ASSUME NEW S, IsFiniteSet(S), S \subseteq Nat, S # {}
  PROVE  \E m \in S : \A c \in S : c <= m
<1> DEFINE HasLast == {R \in SUBSET S : R = {} \/ \E m \in R : \A c \in R : c <= m}
<1>1. ASSUME NEW A \in SUBSET S, \A B \in SUBSET A : B # A => B \in HasLast
      PROVE  A \in HasLast
  <2>1. CASE A = {}
    BY <2>1
  <2>2. CASE A # {}
    <3>1. PICK x \in A : TRUE
      BY <2>2
    <3>2. A \ {x} \in HasLast
      BY <1>1, <3>1
    <3>3. CASE A \ {x} = {}
      BY <3>1, <3>3
    <3>4. CASE A \ {x} # {}
      <4>1. PICK m \in A \ {x} : \A c \in A \ {x} : c <= m
        BY <3>2, <3>4
      <4>2. x \in Nat /\ m \in Nat
        BY <3>1, <4>1
      <4>3. CASE x <= m
        BY <4>1, <4>3
      <4>4. CASE m <= x
        BY <3>1, <4>1, <4>2, <4>4
      <4> QED  BY <4>2, <4>3, <4>4
    <3> QED  BY <3>3, <3>4
  <2> QED  BY <2>1, <2>2
<1>2. SUBSET S \subseteq HasLast
  <2> HIDE DEF HasLast
  <2> QED  BY <1>1, SubsetInduction
<1> QED  BY <1>2

-----------------------------------------------------------------------------
(* What a run takes.                                                       *)

Counts(r) == seen[r] \in [Buys -> Nat] /\ \A b \in Buys : seen[r][b] <= Qty[b]

LEMMA FiniteFills == IsFiniteSet(Buys) /\ IsFiniteSet(Sells) /\ Buys \subseteq Nat
BY SessionsAssumption, FS_Subset DEF Trades

(* What is taken from a lot was seen there. *)
LEMMA TakeType ==
  ASSUME NEW r \in Sessions, Counts(r), NEW s \in Sells, NEW b \in Buys
  PROVE  Take(r, s, b) \in Nat /\ Take(r, s, b) <= seen[r][b]
<1> DEFINE left == Qty[s] - Total(seen[r], {c \in Buys : c < b})
<1>1. seen[r][b] \in Nat
  BY DEF Counts
<1>2. left \in Int
  <2>1. IsFiniteSet({c \in Buys : c < b})
    BY FiniteFills, FS_Subset
  <2>2. Total(seen[r], {c \in Buys : c < b}) \in Nat
    BY <2>1, SharesFinite DEF Counts
  <2>3. Qty[s] \in Nat
    BY SessionsAssumption DEF Trades
  <2> QED  BY <2>2, <2>3
<1>3. Take(r, s, b) = IF left <= 0 THEN 0 ELSE IF left < seen[r][b] THEN left ELSE seen[r][b]
  BY DEF Take
<1> HIDE DEF left
<1> QED  BY <1>1, <1>2, <1>3

(* A sell takes no more than it sells: up to the last lot it takes from,   *)
(* every lot was taken as a whole.                                         *)
LEMMA TakeFits ==
  ASSUME NEW r \in Sessions, Counts(r), NEW s \in Sells,
         NEW take \in [Buys -> Nat], \A b \in Buys : take[b] = Take(r, s, b)
  PROVE  Total(take, Buys) <= Qty[s]
<1> DEFINE From == {b \in Buys : take[b] > 0}
<1>1. Qty[s] \in Nat
  BY SessionsAssumption DEF Trades
<1>2. CASE From = {}
  <2>1. Total(take, Buys) = Total(take, {})
    BY <1>2, TotalWithout
  <2>2. Total(take, {}) = 0
    BY FS_EmptySet DEF Total, Shares
  <2> QED  BY <1>1, <2>1, <2>2
<1>3. CASE From # {}
  <2>1. PICK m \in From : \A c \in From : c <= m
    BY <1>3, FiniteFills, FS_Subset, LastLot
  <2> DEFINE Before == {c \in Buys : c < m}
             UpTo   == Before \cup {m}
  <2>2. /\ IsFiniteSet(Before) /\ m \notin Before /\ UpTo \subseteq Buys
        /\ m \in Buys /\ m \in Nat
    BY FiniteFills, FS_Subset
  <2>3. Total(take, Buys) = Total(take, UpTo)
    <3>1. \A b \in Buys \ UpTo : take[b] <= 0
      <4> SUFFICES ASSUME NEW b \in Buys, b \notin UpTo, take[b] > 0 PROVE FALSE
        OBVIOUS
      <4>1. b <= m /\ b \in Nat
        BY <2>1, FiniteFills
      <4> QED  BY <2>2, <4>1
    <3>2. \A b \in Buys : take[b] \in Int
      OBVIOUS
    <3> HIDE DEF UpTo
    <3> QED  BY <2>2, <3>1, <3>2, TotalWithout
  <2>4. Total(take, UpTo) = Total(take, Before) + take[m]
    <3>1. \A c \in Before \cup {m} : take[c] \in Int
      BY <2>2
    <3>2. Total(take, Before \cup {m}) =
            Total(take, Before) + (IF take[m] <= 0 THEN 0 ELSE take[m])
      BY <2>2, <3>1, TotalPlus
    <3> QED  BY <2>1, <2>2, <3>2
  <2>5. Total(take, Before) <= Total(seen[r], Before)
    <3>1. \A b \in Before : take[b] \in Int /\ seen[r][b] \in Int /\ take[b] <= seen[r][b]
      BY TakeType DEF Counts
    <3> QED  BY <2>2, <3>1, TotalPointwise
  <2>6. Total(take, Before) \in Nat /\ Total(seen[r], Before) \in Nat
    <3>1. \A b \in Before : take[b] \in Int /\ seen[r][b] \in Int
      BY DEF Counts
    <3> QED  BY <2>2, <3>1, SharesFinite
  <2>7. take[m] > 0 /\ take[m] \in Nat /\ seen[r][m] \in Nat
    BY <2>1 DEF Counts
  <2> DEFINE before == Total(seen[r], Before)
  <2>8. take[m] = IF Qty[s] - before <= 0 THEN 0
                  ELSE IF Qty[s] - before < seen[r][m] THEN Qty[s] - before ELSE seen[r][m]
    BY <2>1 DEF Take
  <2>9. take[m] <= Qty[s] - before
    <3> HIDE DEF before
    <3>1. before \in Nat
      BY <2>6 DEF before
    <3> QED  BY <1>1, <2>7, <2>8, <3>1
  <2> HIDE DEF Before, UpTo
  <2> QED  BY <1>1, <2>3, <2>4, <2>5, <2>6, <2>7, <2>9
<1> QED  BY <1>2, <1>3

-----------------------------------------------------------------------------
(* Types.                                                                  *)

LEMMA NoLotIsNone == NoLot \notin Lot /\ NoLot.status = "none"
BY DEF NoLot, Lot

LEMMA TypeInit == Init => TypeOK
<1> SUFFICES ASSUME Init PROVE TypeOK
  OBVIOUS
<1>1. failures \in 0 .. MaxFailures
  BY SessionsAssumption DEF Init
<1>2. /\ lot \in [Buys -> Lot \cup {NoLot}]
      /\ \A b \in Buys : lot[b] # NoLot => lot[b].qty <= Qty[b]
  BY DEF Init
<1>3. seen \in [Sessions -> [Buys -> Nat] \cup {NotRead}]
  BY DEF Init
<1>4. /\ alloc \in [Sells -> [Buys -> Nat]]
      /\ batch \in [Sessions -> SUBSET stored]
      /\ overlapped \in BOOLEAN
      /\ stored \subseteq Trades /\ applied \subseteq stored
  BY DEF Init
<1> QED  BY <1>1, <1>2, <1>3, <1>4 DEF TypeOK

(* A lot that is charged has been seen, so it is one. *)
LEMMA ChargedType ==
  ASSUME TypeOK, NEW r \in Sessions, NEW s \in Sells, NEW b \in Buys, Counts(r),
         seen[r][b] > 0 => lot[b] # NoLot
  PROVE  /\ Charged(r, s, b) \in Lot \cup {NoLot}
         /\ Charged(r, s, b) # NoLot => Charged(r, s, b).qty <= Qty[b]
         /\ lot[b].status = "closed" => Charged(r, s, b).status = "closed"
         /\ lot[b] # NoLot => Charged(r, s, b) # NoLot
<1>1. Take(r, s, b) \in Nat /\ Take(r, s, b) <= seen[r][b] /\ seen[r][b] <= Qty[b]
  BY TakeType DEF Counts
<1>2. seen[r][b] \in Nat /\ Qty[b] \in Nat
  BY SessionsAssumption DEF Counts, Trades
<1>3. CASE Take(r, s, b) = 0
  BY <1>3 DEF Charged, TypeOK
<1>4. CASE Take(r, s, b) # 0
  <2> DEFINE q == seen[r][b] - Take(r, s, b)
  <2>1. q \in Nat /\ q <= Qty[b]
    BY <1>1, <1>2
  <2>2. lot[b] \in Lot
    BY <1>1, <1>2, <1>4 DEF TypeOK
  <2>3. Charged(r, s, b) = [status |-> IF q = 0 THEN "closed" ELSE lot[b].status, qty |-> q]
    BY <1>4 DEF Charged
  <2> HIDE DEF q
  <2>4. Charged(r, s, b) \in Lot /\ Charged(r, s, b).qty = q
    BY <2>1, <2>2, <2>3 DEF Lot
  <2> QED  BY <2>1, <2>2, <2>3, <2>4, NoLotIsNone DEF Lot
<1> QED  BY <1>3, <1>4

(* Sessions look at lots that exist, and no more than was bought. *)
SeenLots ==
  \A r \in Sessions : seen[r] # NotRead =>
    Counts(r) /\ \A b \in Buys : seen[r][b] > 0 => lot[b] # NoLot

TypeInv == TypeOK /\ SeenLots

LEMMA TypeInvInit == Init => TypeInv
BY TypeInit DEF Init, TypeInv, SeenLots

(* No lot disappears, and what was closed is. *)
LotsKept == \A b \in Buys :
  /\ lot[b] # NoLot => lot'[b] # NoLot
  /\ lot[b].status = "closed" => lot'[b].status = "closed"

(* After a fill was dealt with, the session has seen nothing. *)
LEMMA GoesOnType ==
  ASSUME TypeOK, NEW r \in Sessions, NEW t, GoesOn(r, t), stored' = stored
  PROVE  /\ batch' \in [Sessions -> SUBSET stored']
         /\ seen' \in [Sessions -> [Buys -> Nat] \cup {NotRead}]
         /\ \A o \in Sessions : seen'[o] = IF o = r THEN NotRead ELSE seen[o]
BY DEF TypeOK, GoesOn

LEMMA SeenKept ==
  ASSUME TypeInv, LotsKept, \A o \in Sessions : seen'[o] \in {seen[o], NotRead}
  PROVE  SeenLots'
BY DEF TypeInv, SeenLots, LotsKept, Counts

LEMMA BuyType ==
  ASSUME TypeInv, NEW r \in Sessions, NEW b \in Buys, Buy(r, b)
  PROVE  TypeInv' /\ LotsKept
<1> USE DEF TypeInv
<1>1. b \in Trades /\ Qty[b] \in Nat /\ b \in stored
  BY SessionsAssumption DEF Trades, TypeOK, Buy, IsNext
<1>2. /\ stored' = stored /\ alloc' = alloc /\ overlapped' = overlapped
      /\ failures' = failures /\ applied' = applied \cup {b} /\ GoesOn(r, b)
      /\ lot' = [lot EXCEPT ![b] = [status |-> "open", qty |-> Qty[b]]]
      /\ lot[b] = NoLot
  BY DEF Buy
<1> DEFINE new == [status |-> "open", qty |-> Qty[b]]
<1>3. new \in Lot /\ new.qty <= Qty[b]
  BY <1>1 DEF Lot
<1>4. /\ lot' \in [Buys -> Lot \cup {NoLot}]
      /\ \A c \in Buys : lot'[c] = IF c = b THEN new ELSE lot[c]
  BY <1>2, <1>3 DEF TypeOK
<1> HIDE DEF new
<1>5. LotsKept
  BY <1>2, <1>3, <1>4, NoLotIsNone DEF LotsKept
<1>6. \A c \in Buys : lot'[c] # NoLot => lot'[c].qty <= Qty[c]
  BY <1>3, <1>4 DEF TypeOK
<1>7. TypeOK'
  BY <1>1, <1>2, <1>4, <1>6, GoesOnType DEF TypeOK
<1>8. SeenLots'
  BY <1>2, <1>5, GoesOnType, SeenKept
<1> QED  BY <1>5, <1>7, <1>8

LEMMA ReadType ==
  ASSUME TypeInv, NEW r \in Sessions, NEW s \in Sells, ReadLots(r, s)
  PROVE  TypeInv' /\ LotsKept
<1> USE DEF TypeInv
<1> DEFINE read == [b \in Buys |-> IF lot[b].status = "open" THEN lot[b].qty ELSE 0]
<1>1. UNCHANGED <<stored, applied, lot, alloc, batch, overlapped, failures>>
  BY DEF ReadLots
<1>2. seen' = [seen EXCEPT ![r] = read]
  BY DEF ReadLots
<1>3. \A b \in Buys : /\ read[b] \in Nat /\ read[b] <= Qty[b]
                      /\ read[b] > 0 => lot[b] # NoLot
  <2> SUFFICES ASSUME NEW b \in Buys
               PROVE  /\ read[b] \in Nat /\ read[b] <= Qty[b]
                      /\ read[b] > 0 => lot[b] # NoLot
    OBVIOUS
  <2>1. Qty[b] \in Nat
    BY SessionsAssumption DEF Trades
  <2>2. CASE lot[b] = NoLot
    BY <2>1, <2>2, NoLotIsNone
  <2>3. CASE lot[b] # NoLot
    <3>1. lot[b] \in Lot /\ lot[b].qty <= Qty[b]
      BY <2>3 DEF TypeOK
    <3> QED  BY <2>1, <2>3, <3>1 DEF Lot
  <2> QED  BY <2>2, <2>3
<1>4. read \in [Buys -> Nat]
  BY <1>3
<1> HIDE DEF read
<1>5. /\ seen' \in [Sessions -> [Buys -> Nat] \cup {NotRead}]
      /\ \A o \in Sessions : seen'[o] = IF o = r THEN read ELSE seen[o]
  BY <1>2, <1>4 DEF TypeOK
<1>6. TypeOK'
  BY <1>1, <1>5 DEF TypeOK
<1>7. SeenLots'
  <2> SUFFICES ASSUME NEW o \in Sessions, seen'[o] # NotRead
               PROVE  /\ seen'[o] \in [Buys -> Nat] /\ \A b \in Buys : seen'[o][b] <= Qty[b]
                      /\ \A b \in Buys : seen'[o][b] > 0 => lot'[b] # NoLot
    BY DEF SeenLots, Counts
  <2>1. lot' = lot
    BY <1>1
  <2> QED  BY <2>1, <1>3, <1>4, <1>5 DEF SeenLots, Counts
<1> QED  BY <1>1, <1>6, <1>7 DEF LotsKept

LEMMA SellType ==
  ASSUME TypeInv, NEW r \in Sessions, NEW s \in Sells, Sell(r, s)
  PROVE  TypeInv' /\ LotsKept
<1> USE DEF TypeInv
<1>1. /\ s \in stored /\ seen[r] # NotRead /\ Counts(r)
      /\ \A b \in Buys : seen[r][b] > 0 => lot[b] # NoLot
  BY DEF Sell, IsNext, TypeOK, SeenLots
<1>2. /\ stored' = stored /\ overlapped' = overlapped /\ failures' = failures
      /\ applied' = applied \cup {s} /\ GoesOn(r, s)
      /\ lot' = [b \in Buys |-> Charged(r, s, b)]
  BY DEF Sell
<1> DEFINE row == [b \in Buys |-> alloc[s][b] + Take(r, s, b)]
<1>3. alloc' = [alloc EXCEPT ![s] = row]
  BY DEF Sell
<1>4. row \in [Buys -> Nat]
  <2> SUFFICES ASSUME NEW b \in Buys PROVE alloc[s][b] + Take(r, s, b) \in Nat
    OBVIOUS
  <2>1. alloc[s][b] \in Nat /\ Take(r, s, b) \in Nat
    BY <1>1, TakeType DEF TypeOK
  <2> QED  BY <2>1
<1> HIDE DEF row
<1>5. alloc' \in [Sells -> [Buys -> Nat]]
  BY <1>3, <1>4 DEF TypeOK
<1>6. \A b \in Buys :
        /\ lot'[b] \in Lot \cup {NoLot}
        /\ lot'[b] # NoLot => lot'[b].qty <= Qty[b]
        /\ lot[b].status = "closed" => lot'[b].status = "closed"
        /\ lot[b] # NoLot => lot'[b] # NoLot
  BY <1>1, <1>2, ChargedType
<1>7. LotsKept
  BY <1>6 DEF LotsKept
<1>8. lot' \in [Buys -> Lot \cup {NoLot}]
  BY <1>2, <1>6
<1>9. TypeOK'
  BY <1>1, <1>2, <1>5, <1>6, <1>8, GoesOnType DEF TypeOK
<1>10. SeenLots'
  BY <1>2, <1>7, GoesOnType, SeenKept
<1> QED  BY <1>7, <1>9, <1>10

(* Steps that leave the lots alone and at most give up what was seen. *)
LEMMA QuietType ==
  ASSUME TypeInv, UNCHANGED <<lot, alloc>>,
         \/ \E t \in Trades : Store(t)
         \/ \E r \in Sessions :
              \/ Start(r) \/ Dies(r)
              \/ \E t \in Trades : BuyRaises(r, t) \/ SellRaises(r, t) \/ Fails(r, t)
  PROVE  TypeInv' /\ LotsKept
<1> USE DEF TypeInv
<1>1. LotsKept
  BY DEF LotsKept
<1>2. SUFFICES /\ stored' \subseteq Trades /\ applied' \subseteq stored'
               /\ batch' \in [Sessions -> SUBSET stored']
               /\ seen' \in [Sessions -> [Buys -> Nat] \cup {NotRead}]
               /\ overlapped' \in BOOLEAN /\ failures' \in 0 .. MaxFailures
               /\ \A o \in Sessions : seen'[o] \in {seen[o], NotRead}
  BY <1>1, SeenKept DEF TypeOK
<1>3. ASSUME NEW t \in Trades, Store(t) PROVE <1>2!1
  BY <1>3 DEF Store, TypeOK
<1>4. ASSUME NEW r \in Sessions, Start(r) PROVE <1>2!1
  BY <1>4 DEF Start, Overlaps, TypeOK
<1>5. ASSUME NEW r \in Sessions, Dies(r) PROVE <1>2!1
  BY <1>5, SessionsAssumption DEF Dies, TypeOK
<1>6. ASSUME NEW r \in Sessions, NEW t \in Trades, BuyRaises(r, t) \/ SellRaises(r, t) \/ Fails(r, t)
      PROVE  <1>2!1
  <2>1. GoesOn(r, t) /\ UNCHANGED <<stored, applied, overlapped>>
    BY <1>6 DEF BuyRaises, SellRaises, Fails
  <2>2. failures' \in 0 .. MaxFailures
    BY <1>6, SessionsAssumption DEF BuyRaises, SellRaises, Fails, TypeOK
  <2>3. /\ batch' \in [Sessions -> SUBSET stored']
        /\ seen' \in [Sessions -> [Buys -> Nat] \cup {NotRead}]
        /\ \A o \in Sessions : seen'[o] = IF o = r THEN NotRead ELSE seen[o]
    BY <2>1, GoesOnType
  <2> QED  BY <2>1, <2>2, <2>3 DEF TypeOK
<1> QED  BY <1>3, <1>4, <1>5, <1>6

LEMMA TypeStep == TypeInv /\ [Next]_vars => TypeInv' /\ LotsKept
<1> SUFFICES ASSUME TypeInv, [Next]_vars PROVE TypeInv' /\ LotsKept
  OBVIOUS
<1>1. CASE UNCHANGED vars
  BY <1>1 DEF vars, TypeInv, TypeOK, SeenLots, Counts, LotsKept
<1>2. ASSUME NEW t \in Trades, Store(t) PROVE TypeInv' /\ LotsKept
  <2>1. UNCHANGED <<lot, alloc>>
    BY <1>2 DEF Store
  <2> QED  BY <1>2, <2>1, QuietType
<1>3. ASSUME NEW r \in Sessions, Start(r) \/ Dies(r) PROVE TypeInv' /\ LotsKept
  <2>1. UNCHANGED <<lot, alloc>>
    BY <1>3 DEF Start, Dies
  <2> QED  BY <1>3, <2>1, QuietType
<1>4. ASSUME NEW r \in Sessions, NEW b \in Buys, Buy(r, b) PROVE TypeInv' /\ LotsKept
  BY <1>4, BuyType
<1>5. ASSUME NEW r \in Sessions, NEW s \in Sells, ReadLots(r, s) PROVE TypeInv' /\ LotsKept
  BY <1>5, ReadType
<1>6. ASSUME NEW r \in Sessions, NEW s \in Sells, Sell(r, s) PROVE TypeInv' /\ LotsKept
  BY <1>6, SellType
<1>7. ASSUME NEW r \in Sessions, NEW t \in Trades, BuyRaises(r, t) \/ SellRaises(r, t) \/ Fails(r, t)
      PROVE  TypeInv' /\ LotsKept
  <2>1. UNCHANGED <<lot, alloc>>
    BY <1>7 DEF BuyRaises, SellRaises, Fails
  <2> QED  BY <1>7, <2>1, QuietType
<1>8. CASE Next
  BY <1>2, <1>3, <1>4, <1>5, <1>6, <1>7, <1>8 DEF Next, Run, Trades
<1> QED  BY <1>1, <1>8

(* Rows keep their types and no lot shows more than was bought or less     *)
(* than nothing, whatever runs write over each other.                      *)
THEOREM TypeCorrect == Spec => []TypeOK
<1>1. TypeInv => TypeOK
  BY DEF TypeInv
<1> QED  BY <1>1, TypeInvInit, TypeStep, PTL DEF Spec

(* What one run closed no other run opens again.                           *)
THEOREM ClosedForGood == Spec => ClosedStaysClosed
<1>1. TypeInv /\ [Next]_vars =>
        [\A b \in Buys : lot[b].status = "closed" => lot'[b].status = "closed"]_vars
  BY TypeStep DEF LotsKept
<1> QED  BY <1>1, TypeInvInit, TypeStep, PTL DEF Spec, ClosedStaysClosed

-----------------------------------------------------------------------------
(* Runs that do not overlap.  The account is exact because the one run at  *)
(* work has only unapplied fills left and has seen the lots as they are.   *)

Alone ==
  /\ \A r, o \in Sessions : batch[r] # {} /\ batch[o] # {} => r = o
  /\ \A r \in Sessions : batch[r] \cap applied = {}
  /\ \A r \in Sessions : seen[r] # NotRead =>
       /\ batch[r] # {}
       /\ \A b \in Buys : seen[r][b] = IF lot[b].status = "open" THEN lot[b].qty ELSE 0

RowsOfApplied ==
  \A s \in Sells : \A b \in Buys :
    alloc[s][b] # 0 => s \in applied /\ lot[b] # NoLot

ExactLots == \A b \in Buys : lot[b] # NoLot =>
  lot[b].qty + Total([s \in Sells |-> alloc[s][b]], Sells) = Qty[b]

ExactSells == \A s \in Sells : Total(alloc[s], Buys) <= Qty[s]

ExactInv == /\ TypeInv
            /\ RowsOfApplied
            /\ ~overlapped => Alone /\ ExactLots /\ ExactSells

LEMMA TotalZero ==
  ASSUME NEW S, NEW f, \A b \in S : f[b] = 0
  PROVE  Total(f, S) = 0
<1>1. Total(f, S) = Total(f, {})
  BY TotalWithout
<1> QED  BY <1>1, FS_EmptySet DEF Total, Shares

LEMMA ExactInit == Init => ExactInv
<1> SUFFICES ASSUME Init PROVE ExactInv
  OBVIOUS
<1>1. TypeInv
  BY TypeInvInit
<1>2. Alone /\ RowsOfApplied /\ ExactLots
  BY DEF Init, Alone, RowsOfApplied, ExactLots
<1>3. ExactSells
  <2> SUFFICES ASSUME NEW s \in Sells PROVE Total(alloc[s], Buys) <= Qty[s]
    BY DEF ExactSells
  <2>1. Total(alloc[s], Buys) = 0
    BY TotalZero DEF Init
  <2>2. Qty[s] \in Nat
    BY SessionsAssumption DEF Trades
  <2> QED  BY <2>1, <2>2
<1> QED  BY <1>1, <1>2, <1>3 DEF ExactInv

(* A session that deals with a fill leaves the others without work. *)
LEMMA GoesOnAlone ==
  ASSUME TypeInv, Alone, NEW r \in Sessions, NEW t, IsNext(r, t), GoesOn(r, t),
         applied' \in {applied, applied \cup {t}}
  PROVE  Alone'
<1>1. /\ \A o \in Sessions : batch'[o] = IF o = r THEN batch[r] \ {t} ELSE batch[o]
      /\ \A o \in Sessions : seen'[o] = IF o = r THEN NotRead ELSE seen[o]
  BY DEF GoesOn, TypeInv, TypeOK
<1>2. \A o \in Sessions : o # r => batch[o] = {} /\ seen[o] = NotRead
  BY DEF Alone, IsNext
<1>3. \A o \in Sessions : seen'[o] = NotRead
  BY <1>1, <1>2
<1>4. \A o \in Sessions : batch'[o] \cap applied' = {}
  BY <1>1, <1>2 DEF Alone
<1>5. \A q, o \in Sessions : batch'[q] # {} /\ batch'[o] # {} => q = o
  BY <1>1, <1>2
<1> QED  BY <1>3, <1>4, <1>5 DEF Alone

LEMMA BuyExact ==
  ASSUME ExactInv, NEW r \in Sessions, NEW b \in Buys, Buy(r, b), TypeInv'
  PROVE  ExactInv'
<1> USE DEF ExactInv, TypeInv
<1>1. /\ overlapped' = overlapped /\ alloc' = alloc /\ applied' = applied \cup {b}
      /\ IsNext(r, b) /\ GoesOn(r, b) /\ lot[b] = NoLot
  BY DEF Buy
<1> DEFINE new == [status |-> "open", qty |-> Qty[b]]
<1>2. /\ \A c \in Buys : lot'[c] = IF c = b THEN new ELSE lot[c]
      /\ new # NoLot /\ new.qty = Qty[b] /\ Qty[b] \in Nat
  BY SessionsAssumption DEF Buy, TypeOK, NoLot, Trades
<1> HIDE DEF new
<1>3. RowsOfApplied'
  BY <1>1, <1>2 DEF RowsOfApplied
<1>4. ASSUME ~overlapped PROVE Alone' /\ ExactLots' /\ ExactSells'
  <2>1. Alone'
    BY <1>1, <1>4, GoesOnAlone
  <2>2. Total([s \in Sells |-> alloc[s][b]], Sells) = 0
    <3>1. \A s \in Sells : alloc[s][b] = 0
      BY <1>1 DEF RowsOfApplied
    <3> QED  BY <3>1, TotalZero
  <2>3. ASSUME NEW c \in Buys, lot'[c] # NoLot
        PROVE  lot'[c].qty + Total([s \in Sells |-> alloc'[s][c]], Sells) = Qty[c]
    <3>1. CASE c = b
      BY <1>1, <1>2, <2>2, <3>1
    <3>2. CASE c # b
      BY <1>1, <1>2, <1>4, <2>3, <3>2 DEF ExactLots
    <3> QED  BY <3>1, <3>2
  <2> QED  BY <1>1, <1>4, <2>1, <2>3 DEF ExactLots, ExactSells
<1> QED  BY <1>1, <1>3, <1>4

LEMMA SellExact ==
  ASSUME ExactInv, NEW r \in Sessions, NEW s \in Sells, Sell(r, s), TypeInv'
  PROVE  ExactInv'
<1> USE DEF ExactInv, TypeInv
<1> DEFINE take == [b \in Buys |-> Take(r, s, b)]
<1>1. /\ overlapped' = overlapped /\ applied' = applied \cup {s}
      /\ IsNext(r, s) /\ GoesOn(r, s) /\ seen[r] # NotRead /\ Counts(r)
      /\ \A b \in Buys : seen[r][b] > 0 => lot[b] # NoLot
      /\ \A b \in Buys : lot'[b] = Charged(r, s, b)
  BY DEF Sell, SeenLots
<1>2. /\ take \in [Buys -> Nat]
      /\ \A b \in Buys : take[b] = Take(r, s, b) /\ take[b] <= seen[r][b]
      /\ \A b \in Buys : seen[r][b] \in Nat
  BY <1>1, TakeType DEF Counts
<1>3. \A q \in Sells : \A b \in Buys :
        alloc'[q][b] = IF q = s THEN alloc[s][b] + take[b] ELSE alloc[q][b]
  BY DEF Sell, TypeOK
<1>4. /\ alloc \in [Sells -> [Buys -> Nat]] /\ alloc' \in [Sells -> [Buys -> Nat]]
      /\ \A b \in Buys : Qty[b] \in Nat
  BY SessionsAssumption DEF TypeOK, Trades
<1> HIDE DEF take
<1>5. \A b \in Buys : lot[b] # NoLot => lot'[b] # NoLot
  BY <1>1, ChargedType
<1>6. RowsOfApplied'
  <2> SUFFICES ASSUME NEW q \in Sells, NEW b \in Buys, alloc'[q][b] # 0
               PROVE  q \in applied' /\ lot'[b] # NoLot
    BY DEF RowsOfApplied
  <2>1. CASE alloc[q][b] # 0
    BY <1>1, <1>5, <2>1 DEF RowsOfApplied
  <2>2. CASE alloc[q][b] = 0
    <3>1. q = s /\ take[b] > 0
      BY <1>2, <1>3, <1>4, <2>2
    <3>2. seen[r][b] > 0
      BY <1>2, <3>1
    <3> QED  BY <1>1, <1>5, <3>1, <3>2
  <2> QED  BY <2>1, <2>2
<1>7. ASSUME ~overlapped PROVE Alone' /\ ExactLots' /\ ExactSells'
  <2>1. Alone'
    BY <1>1, <1>7, GoesOnAlone
  <2>2. \A b \in Buys : alloc[s][b] = 0 /\ alloc'[s][b] = take[b]
    <3>1. s \notin applied
      BY <1>1, <1>7 DEF IsNext, Alone
    <3> QED  BY <1>2, <1>3, <3>1 DEF RowsOfApplied
  <2>3. ASSUME NEW b \in Buys, lot'[b] # NoLot
        PROVE  lot'[b].qty + Total([q \in Sells |-> alloc'[q][b]], Sells) = Qty[b]
    <3> DEFINE old == [q \in Sells |-> alloc[q][b]]
               new == [q \in Sells |-> alloc'[q][b]]
    <3>1. /\ old \in [Sells -> Nat] /\ new \in [Sells -> Nat]
          /\ old[s] = 0 /\ new[s] = take[b] /\ \A q \in Sells \ {s} : old[q] = new[q]
      BY <1>3, <1>4, <2>2
    <3> HIDE DEF old, new
    <3>2. Total(new, Sells) = Total(old, Sells) - old[s] + new[s]
      BY <3>1, FiniteFills, TotalChange
    <3>3. Total(old, Sells) \in Nat
      BY <3>1, FiniteFills, SharesFinite
    <3>4. Total(new, Sells) = Total(old, Sells) + take[b] /\ take[b] \in Nat
      BY <1>2, <3>1, <3>2, <3>3
    <3>5. CASE take[b] = 0
      <4>1. lot'[b] = lot[b]
        BY <1>1, <1>2, <3>5 DEF Charged
      <4>2. lot[b].qty + Total(old, Sells) = Qty[b]
        BY <1>7, <2>3, <4>1 DEF ExactLots, old
      <4> QED  BY <3>3, <3>4, <3>5, <4>1, <4>2 DEF new
    <3>6. CASE take[b] # 0
      <4>1. seen[r][b] > 0
        BY <1>2, <3>4, <3>6
      <4>2. lot[b].qty = seen[r][b] /\ lot[b] # NoLot
        BY <1>1, <1>7, <4>1 DEF Alone
      <4>3. lot[b].qty + Total(old, Sells) = Qty[b]
        BY <1>7, <4>2 DEF ExactLots, old
      <4>4. lot'[b].qty = seen[r][b] - take[b]
        <5> DEFINE t == Take(r, s, b)
                   q == seen[r][b] - t
                   closing == IF q = 0 THEN "closed" ELSE lot[b].status
        <5>1. t = take[b] /\ lot'[b] = Charged(r, s, b)
          BY <1>1, <1>2
        <5>2. t # 0
          BY <3>6, <5>1
        <5>3. Charged(r, s, b) = [status |-> closing, qty |-> q]
          BY <5>2 DEF Charged
        <5> HIDE DEF closing, t
        <5> QED  BY <5>1, <5>3
      <4> QED  BY <1>2, <3>3, <3>4, <4>2, <4>3, <4>4 DEF new
    <3> QED  BY <3>5, <3>6
  <2>4. ExactSells'
    <3> SUFFICES ASSUME NEW q \in Sells PROVE Total(alloc'[q], Buys) <= Qty[q]
      BY DEF ExactSells
    <3>1. CASE q = s
      <4>1. Total(alloc'[s], Buys) = Total(take, Buys)
        BY <2>2, TotalSame
      <4>2. Total(take, Buys) <= Qty[s]
        BY <1>1, <1>2, TakeFits
      <4> QED  BY <3>1, <4>1, <4>2
    <3>2. CASE q # s
      <4>1. Total(alloc'[q], Buys) = Total(alloc[q], Buys)
        BY <1>3, <3>2, TotalSame
      <4> QED  BY <1>7, <4>1 DEF ExactSells
    <3> QED  BY <3>1, <3>2
  <2> QED  BY <2>1, <2>3, <2>4 DEF ExactLots
<1> QED  BY <1>1, <1>6, <1>7

(* Steps that leave the lots and the rows alone. *)
LEMMA SameExact ==
  ASSUME ExactInv, TypeInv', UNCHANGED <<lot, alloc>>, applied' = applied,
         ~overlapped' => ~overlapped, ~overlapped' => Alone'
  PROVE  ExactInv'
BY DEF ExactInv, RowsOfApplied, ExactLots, ExactSells

LEMMA ExactStep == ExactInv /\ [Next]_vars => ExactInv'
<1> SUFFICES ASSUME ExactInv, [Next]_vars PROVE ExactInv'
  OBVIOUS
<1>1. TypeInv'
  BY TypeStep DEF ExactInv
<1>2. TypeOK
  BY DEF ExactInv, TypeInv
<1>3. CASE UNCHANGED vars
  <2>1. Alone => Alone'
    BY <1>3 DEF vars, Alone
  <2> QED  BY <1>1, <1>3, <2>1, SameExact DEF ExactInv, vars
<1>4. ASSUME NEW t \in Trades, Store(t) PROVE ExactInv'
  <2>1. Alone => Alone'
    BY <1>4 DEF Store, Alone
  <2> QED  BY <1>1, <1>4, <2>1, SameExact DEF ExactInv, Store
<1>5. ASSUME NEW r \in Sessions, Start(r) PROVE ExactInv'
  <2>1. /\ batch[r] = {} /\ UNCHANGED <<applied, lot, alloc, seen>>
        /\ \A o \in Sessions : batch'[o] = IF o = r THEN stored \ applied ELSE batch[o]
        /\ ~overlapped' => ~overlapped /\ \A o \in Sessions \ {r} : batch[o] = {}
    BY <1>2, <1>5 DEF Start, Overlaps, TypeOK
  <2>2. ASSUME ~overlapped' PROVE Alone'
    <3>1. Alone
      BY <2>1, <2>2 DEF ExactInv
    <3> QED  BY <2>1, <2>2, <3>1 DEF Alone
  <2> QED  BY <1>1, <2>1, <2>2, SameExact
<1>6. ASSUME NEW r \in Sessions, NEW s \in Sells, ReadLots(r, s) PROVE ExactInv'
  <2> DEFINE read == [b \in Buys |-> IF lot[b].status = "open" THEN lot[b].qty ELSE 0]
  <2>1. /\ batch[r] # {} /\ UNCHANGED <<applied, lot, alloc, batch, overlapped>>
        /\ \A o \in Sessions : seen'[o] = IF o = r THEN read ELSE seen[o]
    BY <1>2, <1>6 DEF ReadLots, IsNext, TypeOK
  <2>2. \A b \in Buys : read[b] = IF lot[b].status = "open" THEN lot[b].qty ELSE 0
    OBVIOUS
  <2> HIDE DEF read
  <2>3. Alone => Alone'
    BY <2>1, <2>2 DEF Alone
  <2> QED  BY <1>1, <2>1, <2>3, SameExact DEF ExactInv
<1>7. ASSUME NEW r \in Sessions, Dies(r) PROVE ExactInv'
  <2>1. /\ UNCHANGED <<applied, lot, alloc, overlapped>>
        /\ \A o \in Sessions : batch'[o] = IF o = r THEN {} ELSE batch[o]
        /\ \A o \in Sessions : seen'[o] = IF o = r THEN NotRead ELSE seen[o]
    BY <1>2, <1>7 DEF Dies, TypeOK
  <2>2. Alone => Alone'
    BY <2>1 DEF Alone
  <2> QED  BY <1>1, <2>1, <2>2, SameExact DEF ExactInv
<1>8. ASSUME NEW r \in Sessions, NEW t \in Trades, BuyRaises(r, t) \/ SellRaises(r, t) \/ Fails(r, t)
      PROVE  ExactInv'
  <2>1. IsNext(r, t) /\ GoesOn(r, t) /\ UNCHANGED <<applied, lot, alloc, overlapped>>
    BY <1>8 DEF BuyRaises, SellRaises, Fails
  <2>2. Alone => Alone'
    BY <2>1, GoesOnAlone DEF ExactInv
  <2> QED  BY <1>1, <2>1, <2>2, SameExact DEF ExactInv
<1>9. ASSUME NEW r \in Sessions, NEW b \in Buys, Buy(r, b) PROVE ExactInv'
  BY <1>1, <1>9, BuyExact
<1>10. ASSUME NEW r \in Sessions, NEW s \in Sells, Sell(r, s) PROVE ExactInv'
  BY <1>1, <1>10, SellExact
<1>11. CASE Next
  BY <1>4, <1>5, <1>6, <1>7, <1>8, <1>9, <1>10, <1>11 DEF Next, Run, Trades
<1> QED  BY <1>3, <1>11

(* As long as no two runs are under way at once, every lot holds what was  *)
(* bought less what its rows say, and no sell is charged more than it      *)
(* sold, whatever fails and dies (apply_unapplied_trades).                 *)
THEOREM ExactAlone == Spec => []ExactWithoutOverlap
<1>1. ExactInv => ExactWithoutOverlap
  BY DEF ExactInv, ExactWithoutOverlap, ExactLots, ExactSells
<1> QED  BY <1>1, ExactInit, ExactStep, PTL DEF Spec
=============================================================================
