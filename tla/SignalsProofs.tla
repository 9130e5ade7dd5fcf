---------------------------- MODULE SignalsProofs ----------------------------
(* What the strategies find, for any bars, windows and thresholds.          *)
EXTENDS Signals, SequenceTheorems, FiniteSetTheorems, TLAPS

(* The bars of c start with those of b. *)
Extends(c, b) == Len(c) > Len(b) /\ \A i \in 1..Len(b) : c[i] = b[i]

(* What is found up to the bar n. *)
UpTo(n, signals) == {s \in signals : s.at <= n}

-----------------------------------------------------------------------------
(* Every strategy looks back: it finds the same in more bars.              *)

LEMMA FlipLooksBack ==
  ASSUME NEW b, NEW c, Len(b) \in Nat, Len(c) \in Nat, Extends(c, b)
  PROVE  UpTo(Len(b), SupertrendFlip(c)) = SupertrendFlip(b)
<1>1. \A k \in 2..Len(b) : k \in 2..Len(c) /\ c[k] = b[k] /\ c[k - 1] = b[k - 1]
  BY DEF Extends
<1>2. \A k \in 2..Len(c) : k <= Len(b) => k \in 2..Len(b)
  OBVIOUS
<1>3. ASSUME NEW s  PROVE s \in UpTo(Len(b), SupertrendFlip(c)) <=> s \in SupertrendFlip(b)
  BY <1>1, <1>2, SMTT(20) DEF UpTo, SupertrendFlip, Signal
<1> QED  BY <1>3

LEMMA MacdLooksBack ==
  ASSUME NEW b, NEW c, Len(b) \in Nat, Len(c) \in Nat, Extends(c, b), MacdFrom \in Nat \ {0}
  PROVE  UpTo(Len(b), MacdZeroCross(c)) = MacdZeroCross(b)
<1>1. \A k \in (MacdFrom + 1)..Len(b) :
        k \in (MacdFrom + 1)..Len(c) /\ c[k] = b[k] /\ c[k - 1] = b[k - 1]
  BY DEF Extends
<1>2. \A k \in (MacdFrom + 1)..Len(c) : k <= Len(b) => k \in (MacdFrom + 1)..Len(b)
  OBVIOUS
<1>3. ASSUME NEW s  PROVE s \in UpTo(Len(b), MacdZeroCross(c)) <=> s \in MacdZeroCross(b)
  <2>1. UpTo(Len(b), MacdZeroCross(c)) =
          {Signal("S2_MACD_Zero", i, i) :
             i \in {k \in (MacdFrom + 1)..Len(b) : ~c[k - 1].positive /\ c[k].positive /\ c[k].green}}
    BY <1>1, <1>2 DEF UpTo, MacdZeroCross, Signal
  <2> QED  BY <1>1, <2>1 DEF MacdZeroCross
<1> QED  BY <1>3

LEMMA SqueezeLooksBack ==
  ASSUME NEW b, NEW c, Len(b) \in Nat, Len(c) \in Nat, Extends(c, b), SqueezeWindow \in Nat \ {0}
  PROVE  UpTo(Len(b), BbSqueezeBreakout(c)) = BbSqueezeBreakout(b)
<1>1. \A k \in (SqueezeWindow + 2)..Len(b) :
        k \in (SqueezeWindow + 2)..Len(c) /\ c[k] = b[k] /\ c[k - 1] = b[k - 1]
  BY DEF Extends
<1>2. \A k \in (SqueezeWindow + 2)..Len(b) : \A s \in (k - SqueezeWindow)..(k - 1) : c[s] = b[s]
  BY DEF Extends
<1>3. \A k \in (SqueezeWindow + 2)..Len(c) : k <= Len(b) => k \in (SqueezeWindow + 2)..Len(b)
  OBVIOUS
<1> DEFINE Breaks(x, k) ==
      /\ \E s \in (k - SqueezeWindow)..(k - 1) : x[s].narrow
      /\ x[k].above /\ ~x[k - 1].above /\ x[k].volume = 3
<1>4. \A k \in (SqueezeWindow + 2)..Len(b) : Breaks(c, k) <=> Breaks(b, k)
  BY <1>1, <1>2
<1>5. \A x : BbSqueezeBreakout(x) = {Signal("S3_BB_Squeeze", i, i) :
                i \in {k \in (SqueezeWindow + 2)..Len(x) : Breaks(x, k)}}
  BY DEF BbSqueezeBreakout
<1> HIDE DEF Breaks
<1>6. ASSUME NEW s  PROVE s \in UpTo(Len(b), BbSqueezeBreakout(c)) <=> s \in BbSqueezeBreakout(b)
  BY <1>1, <1>3, <1>4, <1>5 DEF UpTo, Signal
<1> QED  BY <1>6

LEMMA ConfluenceLooksBack ==
  ASSUME NEW b, NEW c, Len(b) \in Nat, Len(c) \in Nat, Extends(c, b), ConfluenceFrom \in Nat
  PROVE  UpTo(Len(b), Confluence(c)) = Confluence(b)
<1> DEFINE Agree(x, k) ==
      /\ x[k].green /\ x[k].room
      /\ 1 + One(x[k].bullish) + One(x[k].upper) + One(x[k].volume >= 1) >= MinScore
<1>1. \A k \in (ConfluenceFrom + 1)..Len(b) :
        k \in (ConfluenceFrom + 1)..Len(c) /\ (Agree(c, k) <=> Agree(b, k))
  BY DEF Extends
<1>2. \A k \in (ConfluenceFrom + 1)..Len(c) : k <= Len(b) => k \in (ConfluenceFrom + 1)..Len(b)
  OBVIOUS
<1>3. \A x : Confluence(x) = {Signal("Confluence", i, i) :
                                i \in {k \in (ConfluenceFrom + 1)..Len(x) : Agree(x, k)}}
  BY DEF Confluence
<1> HIDE DEF Agree
<1>4. ASSUME NEW s  PROVE s \in UpTo(Len(b), Confluence(c)) <=> s \in Confluence(b)
  BY <1>1, <1>2, <1>3 DEF UpTo, Signal
<1> QED  BY <1>4

LEMMA TtmLooksBack ==
  ASSUME NEW b, NEW c, Len(b) \in Nat, Len(c) \in Nat, Extends(c, b)
  PROVE  UpTo(Len(b), TtmSqueeze(c)) = TtmSqueeze(b)
<1>1. \A k \in 2..Len(b) : k \in 2..Len(c) /\ c[k] = b[k] /\ c[k - 1] = b[k - 1]
  BY DEF Extends
<1>2. \A k \in 2..Len(c) : k <= Len(b) => k \in 2..Len(b)
  OBVIOUS
<1>3. ASSUME NEW s  PROVE s \in UpTo(Len(b), TtmSqueeze(c)) <=> s \in TtmSqueeze(b)
  BY <1>1, <1>2 DEF UpTo, TtmSqueeze, Signal
<1> QED  BY <1>3

-----------------------------------------------------------------------------
(* The pipeline: of a weak breakout, the first retest is the signal.       *)

First(S) == {j \in S : \A e \in S : j <= e}

LEMMA RetestsLookBack ==
  ASSUME NEW b, NEW c, Len(b) \in Nat, Len(c) \in Nat, Extends(c, b), RetestWindow \in Nat \ {0},
         NEW i \in 1..Len(b)
  PROVE  {j \in First(RetestBars(c, i)) : j <= Len(b)} = First(RetestBars(b, i))
<1>1. \A j : j \in RetestBars(b, i) => j \in RetestBars(c, i) /\ j \in 1..Len(b)
  BY DEF RetestBars, Extends
<1>2. \A j : j \in RetestBars(c, i) => j \in 1..Len(c)
  BY DEF RetestBars
<1>3. \A j : j \in RetestBars(c, i) /\ j <= Len(b) => j \in RetestBars(b, i)
  BY DEF RetestBars, Extends
<1>4. \A j : j \in First(RetestBars(b, i)) => j \in First(RetestBars(c, i)) /\ j <= Len(b)
  <2> SUFFICES ASSUME NEW j \in First(RetestBars(b, i))
               PROVE  /\ j \in RetestBars(c, i) /\ j <= Len(b)
                      /\ \A e \in RetestBars(c, i) : j <= e
    BY DEF First
  <2>1. j \in RetestBars(b, i) /\ j \in 1..Len(b) /\ j \in RetestBars(c, i)
        /\ \A e \in RetestBars(b, i) : j <= e
    BY <1>1 DEF First
  <2>2. ASSUME NEW e \in RetestBars(c, i)  PROVE j <= e
    <3>1. e \in 1..Len(c)
      BY <1>2
    <3>2. CASE e <= Len(b)
      BY <1>3, <2>1, <3>2
    <3>3. CASE ~(e <= Len(b))
      BY <2>1, <3>1, <3>3
    <3> QED  BY <3>2, <3>3
  <2> QED  BY <2>1, <2>2
<1>5. \A j : j \in First(RetestBars(c, i)) /\ j <= Len(b) => j \in First(RetestBars(b, i))
  BY <1>1, <1>3 DEF First
<1> QED  BY <1>4, <1>5

LEMMA SetupLooksBack ==
  ASSUME NEW b, NEW c, Len(b) \in Nat, Len(c) \in Nat, Extends(c, b), NEW i \in 1..Len(b)
  PROVE  (SetupReady(c, i) <=> SetupReady(b, i)) /\ c[i].strength = b[i].strength
<1>1. c[i] = b[i] /\ (i > 1 => c[i - 1] = b[i - 1])
  BY DEF Extends
<1> QED  BY <1>1 DEF SetupReady

Strong(b) == {i \in 1..Len(b) : SetupReady(b, i) /\ b[i].strength = 2}
Weak(b) == {i \in 1..Len(b) : SetupReady(b, i) /\ b[i].strength = 1}

LEMMA PipelineLooksBack ==
  ASSUME NEW b, NEW c, Len(b) \in Nat, Len(c) \in Nat, Extends(c, b), RetestWindow \in Nat \ {0},
         MinHistory \in Nat, Len(b) >= MinHistory
  PROVE  UpTo(Len(b), Pipeline(c)) = Pipeline(b)
<1>1. Len(c) > Len(b) /\ 1..Len(b) \subseteq 1..Len(c)
  BY DEF Extends
<1>2. ASSUME NEW x, Len(x) \in Nat, Len(x) >= MinHistory
      PROVE  \A s : s \in Pipeline(x) <=>
               \/ \E i \in Strong(x) : s = Signal("PIPELINE", i, i)
               \/ \E i \in Weak(x) : \E j \in First(RetestBars(x, i)) : s = Signal("PIPELINE", j, i)
  <2>1. ~(Len(x) < MinHistory)
    BY <1>2
  <2> QED  BY <2>1 DEF Pipeline, Strong, Weak, First
<1>3. \A i \in 1..Len(b) : (i \in Strong(c) <=> i \in Strong(b)) /\ (i \in Weak(c) <=> i \in Weak(b))
  BY <1>1, SetupLooksBack DEF Strong, Weak
<1>4. \A i \in Weak(b) : \A j : j \in First(RetestBars(b, i))
                                <=> j \in First(RetestBars(c, i)) /\ j <= Len(b)
  <2> SUFFICES ASSUME NEW i \in Weak(b)
               PROVE  \A j : j \in First(RetestBars(b, i))
                             <=> j \in First(RetestBars(c, i)) /\ j <= Len(b)
    OBVIOUS
  <2>1. {j \in First(RetestBars(c, i)) : j <= Len(b)} = First(RetestBars(b, i))
    BY RetestsLookBack DEF Weak
  <2> QED  BY <2>1
<1>5. \A i, j : i \in Weak(c) /\ j \in First(RetestBars(c, i)) /\ j <= Len(b) => i \in Weak(b)
  <2> SUFFICES ASSUME NEW i \in Weak(c), NEW j \in First(RetestBars(c, i)), j <= Len(b)
               PROVE  i \in Weak(b)
    OBVIOUS
  <2>1. i \in 1..Len(c) /\ j \in 1..Len(c) /\ i < j
    BY DEF First, RetestBars, Weak
  <2>2. i \in 1..Len(b)
    BY <2>1
  <2> QED  BY <1>3, <2>2
<1>6. \A i : i \in Strong(c) /\ i <= Len(b) => i \in Strong(b)
  <2> SUFFICES ASSUME NEW i \in Strong(c), i <= Len(b)  PROVE i \in Strong(b)
    OBVIOUS
  <2>1. i \in 1..Len(b)
    BY DEF Strong
  <2> QED  BY <1>3, <2>1
<1>7. \A i : i \in Strong(b) \/ i \in Weak(b) => i \in 1..Len(b)
  BY DEF Strong, Weak
<1>8. Len(c) >= MinHistory
  BY <1>1
<1>9. \A i, j : Signal("PIPELINE", j, i).at = j
  BY DEF Signal
<1> HIDE DEF Signal, First, Strong, Weak
<1>10. ASSUME NEW s \in Pipeline(b)  PROVE s \in UpTo(Len(b), Pipeline(c))
  <2>1. CASE \E i \in Strong(b) : s = Signal("PIPELINE", i, i)
    <3>1. PICK i \in Strong(b) : s = Signal("PIPELINE", i, i)
      BY <2>1
    <3>2. i \in Strong(c) /\ i <= Len(b)
      BY <1>3, <1>7
    <3> QED  BY <1>2, <1>8, <1>9, <3>1, <3>2 DEF UpTo
  <2>2. CASE \E i \in Weak(b) : \E j \in First(RetestBars(b, i)) : s = Signal("PIPELINE", j, i)
    <3>1. PICK i \in Weak(b) : \E j \in First(RetestBars(b, i)) : s = Signal("PIPELINE", j, i)
      BY <2>2
    <3>2. PICK j \in First(RetestBars(b, i)) : s = Signal("PIPELINE", j, i)
      BY <3>1
    <3>3. i \in Weak(c) /\ j \in First(RetestBars(c, i)) /\ j <= Len(b)
      BY <1>3, <1>4, <1>7
    <3> QED  BY <1>2, <1>8, <1>9, <3>2, <3>3 DEF UpTo
  <2> QED  BY <1>2, <2>1, <2>2
<1>11. ASSUME NEW s \in UpTo(Len(b), Pipeline(c))  PROVE s \in Pipeline(b)
  <2>0. s \in Pipeline(c) /\ s.at <= Len(b)
    BY DEF UpTo
  <2>1. CASE \E i \in Strong(c) : s = Signal("PIPELINE", i, i)
    <3>1. PICK i \in Strong(c) : s = Signal("PIPELINE", i, i)
      BY <2>1
    <3>2. i \in Strong(b)
      BY <1>6, <1>9, <2>0, <3>1
    <3> QED  BY <1>2, <3>1, <3>2
  <2>2. CASE \E i \in Weak(c) : \E j \in First(RetestBars(c, i)) : s = Signal("PIPELINE", j, i)
    <3>1. PICK i \in Weak(c) : \E j \in First(RetestBars(c, i)) : s = Signal("PIPELINE", j, i)
      BY <2>2
    <3>2. PICK j \in First(RetestBars(c, i)) : s = Signal("PIPELINE", j, i)
      BY <3>1
    <3>3. j <= Len(b)
      BY <1>9, <2>0, <3>2
    <3>4. i \in Weak(b) /\ j \in First(RetestBars(b, i))
      BY <1>4, <1>5, <3>3
    <3> QED  BY <1>2, <3>2, <3>4
  <2> QED  BY <1>2, <1>8, <2>0, <2>1, <2>2
<1> QED  BY <1>10, <1>11

LEMMA FoundLooksBack ==
  ASSUME SignalsConstants, NEW b, NEW c, NEW strategies,
         Len(b) \in Nat, Len(c) \in Nat, Extends(c, b), Len(b) >= MinHistory
  PROVE  UpTo(Len(b), Found(c, strategies)) = Found(b, strategies)
<1>1. /\ RetestWindow \in Nat \ {0} /\ SqueezeWindow \in Nat \ {0} /\ MacdFrom \in Nat \ {0}
      /\ MinHistory \in Nat /\ ConfluenceFrom \in Nat
  BY DEF SignalsConstants
<1> DEFINE All(x) == Pipeline(x) \cup SupertrendFlip(x) \cup MacdZeroCross(x)
                       \cup BbSqueezeBreakout(x) \cup Confluence(x) \cup TtmSqueeze(x)
<1>2. UpTo(Len(b), Pipeline(c)) = Pipeline(b)
  BY <1>1, PipelineLooksBack
<1>3. UpTo(Len(b), SupertrendFlip(c)) = SupertrendFlip(b)
  BY FlipLooksBack
<1>4. UpTo(Len(b), MacdZeroCross(c)) = MacdZeroCross(b)
  BY <1>1, MacdLooksBack
<1>5. UpTo(Len(b), BbSqueezeBreakout(c)) = BbSqueezeBreakout(b)
  BY <1>1, SqueezeLooksBack
<1>6. UpTo(Len(b), Confluence(c)) = Confluence(b)
  BY <1>1, ConfluenceLooksBack
<1>7. UpTo(Len(b), TtmSqueeze(c)) = TtmSqueeze(b)
  BY TtmLooksBack
<1>8. UpTo(Len(b), All(c)) = All(b)
  <2>1. UpTo(Len(b), All(c)) =
          UpTo(Len(b), Pipeline(c)) \cup UpTo(Len(b), SupertrendFlip(c))
            \cup UpTo(Len(b), MacdZeroCross(c)) \cup UpTo(Len(b), BbSqueezeBreakout(c))
            \cup UpTo(Len(b), Confluence(c)) \cup UpTo(Len(b), TtmSqueeze(c))
    BY DEF UpTo
  <2> QED  BY <1>2, <1>3, <1>4, <1>5, <1>6, <1>7, <2>1
<1>9. \A x : Found(x, strategies) = {s \in All(x) : s.strategy \in strategies}
  BY DEF Found
<1> HIDE DEF All
<1> QED  BY <1>8, <1>9 DEF UpTo

-----------------------------------------------------------------------------
(* The bars.                                                               *)

BarsTyped == bars \in Seq(Kinds)

LEMMA BarsAlways == Spec => []BarsTyped
<1>1. Init => BarsTyped
  BY SignalsConstants DEF Init, BarsTyped, SignalsConstants
<1>2. BarsTyped /\ [Next]_vars => BarsTyped'
  <2> SUFFICES ASSUME BarsTyped, [Next]_vars  PROVE bars' \in Seq(Kinds)
    BY DEF BarsTyped
  <2>1. ASSUME NEW kind \in Kinds, BarCloses(kind)  PROVE bars' \in Seq(Kinds)
    BY <2>1, AppendProperties DEF BarCloses, BarsTyped
  <2>2. ASSUME NEW i, NEW kind \in Kinds, Revises(i, kind)  PROVE bars' \in Seq(Kinds)
    BY <2>2, ExceptSeq DEF Revises, BarsTyped
  <2>3. ASSUME bars' = bars  PROVE bars' \in Seq(Kinds)
    BY <2>3 DEF BarsTyped
  <2>4. CASE Next
    BY <2>1, <2>2, <2>3, <2>4
       DEF Next, Reconciles, Begins, Skips, Loads, Deletes, Commits, RollsBack, Matches
  <2> QED  BY <2>3, <2>4 DEF vars
<1> QED  BY <1>1, <1>2, PTL DEF Spec

(* No bar that comes later changes what was found before, for any bars,     *)
(* windows and thresholds: in a backtest or a late run the strategies of    *)
(* core.py find what they would have found on the day.                      *)
THEOREM NothingInHindsight == Spec => NoHindsight
<1>1. BarsTyped /\ [Next]_vars => [PastStands]_vars
  <2> SUFFICES ASSUME BarsTyped, Next, Len(bars') > Len(bars), Len(bars) >= MinHistory
               PROVE  {s \in Found(bars', Strategies) : s.at <= Len(bars)}
                        = Found(bars, Strategies)
    BY DEF PastStands
  <2>1. bars \in Seq(Kinds) /\ Len(bars) \in Nat
    BY DEF BarsTyped
  <2>2. ASSUME NEW i, NEW kind \in Kinds, Revises(i, kind)  PROVE FALSE
    <3>1. Len(bars') = Len(bars)
      BY <2>1, <2>2, ExceptSeq DEF Revises
    <3> QED  BY <2>1, <3>1
  <2>3. ASSUME bars' = bars  PROVE FALSE
    BY <2>1, <2>3
  <2>4. PICK kind \in Kinds : BarCloses(kind)
    BY <2>2, <2>3
       DEF Next, Reconciles, Begins, Skips, Loads, Deletes, Commits, RollsBack, Matches
  <2>5. Len(bars') \in Nat /\ Extends(bars', bars)
    BY <2>1, <2>4, AppendProperties DEF BarCloses, Extends
  <2>6. UpTo(Len(bars), Found(bars', Strategies)) = Found(bars, Strategies)
    BY <2>1, <2>5, FoundLooksBack, SignalsConstants, Zenon
  <2> QED  BY <2>6 DEF UpTo
<1> QED  BY <1>1, BarsAlways, PTL DEF Spec, NoHindsight

-----------------------------------------------------------------------------
(* The runs.                                                               *)

(* A run is a record of the fields its step has. *)
IsLoad(x) ==
  /\ x = [step |-> "loads", strategies |-> x.strategies, held |-> x.held, alone |-> x.alone]
  /\ x.alone \in BOOLEAN
IsDelete(x) ==
  /\ x = [step |-> "deletes", strategies |-> x.strategies, alone |-> x.alone,
          current |-> x.current, found |-> x.found]
  /\ x.alone \in BOOLEAN /\ x.current \in BOOLEAN
IsCommit(x) ==
  /\ x = [step |-> "commits", strategies |-> x.strategies, alone |-> x.alone,
          current |-> x.current, found |-> x.found, seen |-> x.seen, after |-> x.after]
  /\ x.alone \in BOOLEAN /\ x.current \in BOOLEAN

IsRun(x) == x = Idle \/ IsLoad(x) \/ IsDelete(x) \/ IsCommit(x)

(* What a run that is current has found, and one that is alone has seen.   *)
Knows(x) ==
  /\ x.step \in {"deletes", "commits"} /\ x.current => x.found = Found(bars, x.strategies)
  /\ x.step = "commits" /\ x.alone => x.seen = {row \in stored : row.sig.strategy \in x.strategies}

Alone(r) == Busy(r) /\ run[r].alone => \A o \in Runners \ {r} : ~Busy(o)

RunInv ==
  /\ run = [r \in Runners |-> run[r]]
  /\ \A r \in Runners : IsRun(run[r]) /\ Knows(run[r]) /\ Alone(r)

LEMMA StepIsKind ==
  ASSUME NEW x, IsRun(x)
  PROVE  /\ x.step = "idle" <=> x = Idle
         /\ x.step = "loads" <=> IsLoad(x)
         /\ x.step = "deletes" <=> IsDelete(x)
         /\ x.step = "commits" <=> IsCommit(x)
         /\ x.step \in {"idle", "loads", "deletes", "commits"}
<1>1. (x = Idle => x.step = "idle") /\ (IsLoad(x) => x.step = "loads")
      /\ (IsDelete(x) => x.step = "deletes") /\ (IsCommit(x) => x.step = "commits")
  BY DEF IsLoad, IsDelete, IsCommit, Idle
<1> QED  BY <1>1, Zenon DEF IsRun

(* A run that is told that it is not alone, or that its bars are outdated. *)
LEMMA ToldNotAlone ==
  ASSUME NEW x, IsRun(x), x # Idle, NEW y, y = [x EXCEPT !.alone = FALSE]
  PROVE  /\ IsRun(y) /\ y.step = x.step /\ y.alone = FALSE
         /\ x.step \in {"deletes", "commits"} =>
              y.current = x.current /\ y.found = x.found /\ y.strategies = x.strategies
<1>1. CASE IsLoad(x)
  <2> DEFINE s == x.strategies
             h == x.held
  <2>1. PICK a \in BOOLEAN :
          x = [step |-> "loads", strategies |-> s, held |-> h, alone |-> a]
    BY <1>1 DEF IsLoad
  <2> HIDE DEF s, h
  <2>2. y = [step |-> "loads", strategies |-> s, held |-> h, alone |-> FALSE]
    BY <2>1
  <2>3. IsRun(y)
    <3>1. IsLoad([step |-> "loads", strategies |-> s, held |-> h, alone |-> FALSE])
      BY <2>1 DEF IsLoad
    <3> QED  BY <2>2, <3>1, Zenon DEF IsRun
  <2> QED  BY <2>1, <2>2, <2>3
<1>2. CASE IsDelete(x)
  <2> DEFINE s == x.strategies
             f == x.found
  <2>1. PICK a, c \in BOOLEAN :
          x = [step |-> "deletes", strategies |-> s, alone |-> a, current |-> c, found |-> f]
    BY <1>2 DEF IsDelete
  <2> HIDE DEF s, f
  <2>2. y = [step |-> "deletes", strategies |-> s, alone |-> FALSE, current |-> c, found |-> f]
    BY <2>1
  <2>3. IsRun(y)
    <3>1. IsDelete([step |-> "deletes", strategies |-> s, alone |-> FALSE, current |-> c, found |-> f])
      BY <2>1 DEF IsDelete
    <3> QED  BY <2>2, <3>1, Zenon DEF IsRun
  <2> QED  BY <2>1, <2>2, <2>3
<1>3. CASE IsCommit(x)
  <2> DEFINE s == x.strategies
             f == x.found
             e == x.seen
             w == x.after
  <2>1. PICK a, c \in BOOLEAN :
          x = [step |-> "commits", strategies |-> s, alone |-> a, current |-> c,
             found |-> f, seen |-> e, after |-> w]
    BY <1>3 DEF IsCommit
  <2> HIDE DEF s, f, e, w
  <2>2. y = [step |-> "commits", strategies |-> s, alone |-> FALSE, current |-> c,
             found |-> f, seen |-> e, after |-> w]
    BY <2>1
  <2>3. IsRun(y)
    <3>1. IsCommit([step |-> "commits", strategies |-> s, alone |-> FALSE, current |-> c,
             found |-> f, seen |-> e, after |-> w])
      BY <2>1 DEF IsCommit
    <3> QED  BY <2>2, <3>1, Zenon DEF IsRun
  <2> QED  BY <2>1, <2>2, <2>3
<1> QED  BY <1>1, <1>2, <1>3 DEF IsRun

LEMMA ToldOutdated ==
  ASSUME NEW x, IsRun(x), x.step \in {"deletes", "commits"}, NEW y, y = [x EXCEPT !.current = FALSE]
  PROVE  /\ IsRun(y) /\ y.step = x.step /\ y.current = FALSE /\ y.alone = x.alone
         /\ y.strategies = x.strategies
         /\ x.step = "commits" => y.seen = x.seen
<1>1. CASE IsDelete(x)
  <2> DEFINE s == x.strategies
             f == x.found
  <2>1. PICK a, c \in BOOLEAN :
          x = [step |-> "deletes", strategies |-> s, alone |-> a, current |-> c, found |-> f]
    BY <1>1 DEF IsDelete
  <2> HIDE DEF s, f
  <2>2. y = [step |-> "deletes", strategies |-> s, alone |-> a, current |-> FALSE, found |-> f]
    BY <2>1
  <2>3. IsRun(y)
    <3>1. IsDelete([step |-> "deletes", strategies |-> s, alone |-> a, current |-> FALSE, found |-> f])
      BY <2>1 DEF IsDelete
    <3> QED  BY <2>2, <3>1, Zenon DEF IsRun
  <2> QED  BY <2>1, <2>2, <2>3
<1>2. CASE IsCommit(x)
  <2> DEFINE s == x.strategies
             f == x.found
             e == x.seen
             w == x.after
  <2>1. PICK a, c \in BOOLEAN :
          x = [step |-> "commits", strategies |-> s, alone |-> a, current |-> c,
             found |-> f, seen |-> e, after |-> w]
    BY <1>2 DEF IsCommit
  <2> HIDE DEF s, f, e, w
  <2>2. y = [step |-> "commits", strategies |-> s, alone |-> a, current |-> FALSE,
             found |-> f, seen |-> e, after |-> w]
    BY <2>1
  <2>3. IsRun(y)
    <3>1. IsCommit([step |-> "commits", strategies |-> s, alone |-> a, current |-> FALSE,
             found |-> f, seen |-> e, after |-> w])
      BY <2>1 DEF IsCommit
    <3> QED  BY <2>2, <3>1, Zenon DEF IsRun
  <2> QED  BY <2>1, <2>2, <2>3
<1> QED  BY <1>1, <1>2, StepIsKind

Less(x, r, deleted) == [x EXCEPT !.after = @ \ {r}, !.seen = @ \ deleted]

LEMMA WaitsLess ==
  ASSUME NEW x, IsRun(x), x.step = "commits", NEW r, NEW deleted, NEW y, y = Less(x, r, deleted)
  PROVE  /\ IsRun(y) /\ y.step = x.step /\ y.current = x.current /\ y.alone = x.alone
         /\ y.found = x.found /\ y.strategies = x.strategies
<1>1. CASE IsCommit(x)
  <2> DEFINE s == x.strategies
             f == x.found
             e == x.seen
             w == x.after
  <2>1. PICK a, c \in BOOLEAN :
          x = [step |-> "commits", strategies |-> s, alone |-> a, current |-> c,
             found |-> f, seen |-> e, after |-> w]
    BY <1>1 DEF IsCommit
  <2> HIDE DEF s, f, e, w
  <2>2. y = [step |-> "commits", strategies |-> s, alone |-> a, current |-> c,
             found |-> f, seen |-> e \ deleted, after |-> w \ {r}]
    BY <2>1 DEF Less
  <2>3. IsRun(y)
    <3>1. IsCommit([step |-> "commits", strategies |-> s, alone |-> a, current |-> c,
             found |-> f, seen |-> e \ deleted, after |-> w \ {r}])
      BY <2>1 DEF IsCommit
    <3> QED  BY <2>2, <3>1, Zenon DEF IsRun
  <2> QED  BY <2>1, <2>2, <2>3
<1> QED  BY <1>1, StepIsKind

-----------------------------------------------------------------------------
(* What the steps do to the runs.                                          *)

(* The runs of a step that leaves them are still records of their steps.   *)
LEMMA OneReplaced ==
  ASSUME RunInv, NEW r \in Runners, NEW x, run' = [run EXCEPT ![r] = x], IsRun(x), Knows(x),
         x.step # "idle" => Busy(r) /\ (x.alone => run[r].alone),
         UNCHANGED <<bars, stored>>
  PROVE  RunInv'
<1>1. run' = [o \in Runners |-> run'[o]] /\ run'[r] = x
      /\ \A o \in Runners \ {r} : run'[o] = run[o]
  BY DEF RunInv
<1>2. \A y : Knows(y)' <=> Knows(y)
  BY DEF Knows
<1>3. \A o \in Runners : Busy(o)' => Busy(o)
  BY <1>1 DEF Busy
<1>4. \A o \in Runners : Busy(o)' /\ run'[o].alone => run[o].alone
  BY <1>1 DEF Busy
<1>5. \A o \in Runners : Alone(o)'
  BY <1>3, <1>4 DEF Alone, RunInv
<1>6. \A o \in Runners : IsRun(run'[o]) /\ Knows(run'[o])
  BY <1>1 DEF RunInv
<1>7. \A o \in Runners : Knows(run[o])'
  BY <1>6 DEF Knows
<1> QED  BY <1>1, <1>5, <1>6, <1>7 DEF RunInv

(* Bars change: what was found is outdated. *)
LEMMA AllOutdated ==
  ASSUME RunInv, run' = Outdated, UNCHANGED stored
  PROVE  RunInv'
<1>1. run' = [o \in Runners |-> run'[o]]
  BY DEF Outdated
<1>2. ASSUME NEW o \in Runners
      PROVE  /\ IsRun(run'[o]) /\ Knows(run[o])'
             /\ (Busy(o)' <=> Busy(o)) /\ run'[o].alone = run[o].alone
  <2>1. IsRun(run[o]) /\ Knows(run[o])
    BY DEF RunInv
  <2>2. CASE run[o].step \in {"deletes", "commits"}
    <3>1. run'[o] = [run[o] EXCEPT !.current = FALSE]
      BY <2>2 DEF Outdated
    <3>2. /\ IsRun(run'[o]) /\ run'[o].step = run[o].step /\ run'[o].current = FALSE
          /\ run'[o].alone = run[o].alone /\ run'[o].strategies = run[o].strategies
          /\ run[o].step = "commits" => run'[o].seen = run[o].seen
      <4>1. PICK x : x = run[o]
        OBVIOUS
      <4>2. PICK y : y = [x EXCEPT !.current = FALSE]
        OBVIOUS
      <4>3. IsRun(x) /\ x.step \in {"deletes", "commits"}
        BY <2>1, <2>2, <4>1
      <4>4. run'[o] = y
        BY <3>1, <4>1, <4>2
      <4>5. /\ IsRun(y) /\ y.step = x.step /\ y.current = FALSE /\ y.alone = x.alone
            /\ y.strategies = x.strategies
            /\ x.step = "commits" => y.seen = x.seen
        BY <4>2, <4>3, ToldOutdated
      <4> QED  BY <4>1, <4>4, <4>5
    <3>3. stored' = stored
      OBVIOUS
    <3>4. Knows(run[o])'
      <4>1. ~(run'[o].step \in {"deletes", "commits"} /\ run'[o].current)
        BY <3>2
      <4>2. run'[o].step = "commits" /\ run'[o].alone
            => run'[o].seen = {row \in stored' : row.sig.strategy \in run'[o].strategies}
        <5> SUFFICES ASSUME run[o].step = "commits", run[o].alone
                     PROVE  run[o].seen = {row \in stored : row.sig.strategy \in run[o].strategies}
          BY <3>2, <3>3
        <5> QED  BY <2>1 DEF Knows
      <4> QED  BY <4>1, <4>2 DEF Knows
    <3>5. Busy(o)' <=> Busy(o)
      BY <3>2 DEF Busy
    <3> QED  BY <3>2, <3>4, <3>5
  <2>3. CASE run[o].step \notin {"deletes", "commits"}
    <3>1. run'[o] = run[o]
      BY <2>3 DEF Outdated
    <3> QED  BY <2>1, <2>3, <3>1 DEF Knows, Busy
  <2> QED  BY <2>2, <2>3
<1>3. \A o \in Runners : Alone(o)'
  BY <1>2 DEF Alone, RunInv
<1> QED  BY <1>1, <1>2, <1>3 DEF RunInv

(* A run begins: it is alone if no other is busy, and no other is from now on. *)
LEMMA OneBegins ==
  ASSUME RunInv, NEW r \in Runners, NEW strategies, Begins(r, strategies)
  PROVE  RunInv'
<1>1. run' = [o \in Runners |-> run'[o]] /\ UNCHANGED <<bars, stored>> /\ ~Busy(r)
  BY DEF Begins
<1> DEFINE x == [step |-> "loads", strategies |-> strategies, held |-> held,
                 alone |-> \A o \in Runners \ {r} : ~Busy(o)]
<1>2. run'[r] = x
  BY DEF Begins
<1>3. x.step = "loads" /\ IsLoad(x) /\ (x.alone => \A o \in Runners \ {r} : ~Busy(o))
  BY DEF IsLoad
<1> HIDE DEF x
<1>4. ASSUME NEW o \in Runners \ {r}
      PROVE  /\ IsRun(run'[o]) /\ Knows(run[o])' /\ (Busy(o)' <=> Busy(o))
             /\ Busy(o)' => run'[o].alone = FALSE
  <2>1. IsRun(run[o]) /\ Knows(run[o])
    BY DEF RunInv
  <2>2. CASE Busy(o)
    <3>1. run'[o] = [run[o] EXCEPT !.alone = FALSE] /\ run[o] # Idle
      BY <2>2 DEF Begins, Busy, Idle
    <3>2. /\ IsRun(run'[o]) /\ run'[o].step = run[o].step /\ run'[o].alone = FALSE
          /\ run[o].step \in {"deletes", "commits"} =>
               /\ run'[o].current = run[o].current /\ run'[o].found = run[o].found
               /\ run'[o].strategies = run[o].strategies
      BY <2>1, <3>1, ToldNotAlone
    <3> QED  BY <1>1, <2>1, <2>2, <3>2 DEF Knows, Busy
  <2>3. CASE ~Busy(o)
    <3>1. run'[o] = run[o]
      BY <2>3 DEF Begins
    <3> QED  BY <1>1, <2>1, <2>3, <3>1 DEF Knows, Busy
  <2> QED  BY <2>2, <2>3
<1>5. IsRun(run'[r]) /\ Knows(run[r])'
  BY <1>2, <1>3 DEF IsRun, Knows
<1>6. \A o \in Runners : Alone(o)'
  <2> SUFFICES ASSUME NEW o \in Runners, Busy(o)', run'[o].alone, NEW p \in Runners \ {o}
               PROVE  ~Busy(p)'
    BY DEF Alone
  <2>1. o = r
    BY <1>4
  <2> QED  BY <1>2, <1>3, <1>4, <2>1
<1> QED  BY <1>1, <1>4, <1>5, <1>6 DEF RunInv

(* A transaction ends: it was busy, so no other run is alone. *)
LEMMA OneEnds ==
  ASSUME RunInv, NEW r \in Runners, Busy(r), NEW deleted, run' = Released(r, deleted),
         UNCHANGED bars
  PROVE  RunInv'
<1>1. run' = [o \in Runners |-> run'[o]] /\ run'[r] = Idle
  BY DEF Released
<1>2. ASSUME NEW o \in Runners \ {r}
      PROVE  /\ IsRun(run'[o]) /\ Knows(run[o])' /\ Alone(o)'
  <2>1. IsRun(run[o]) /\ Knows(run[o]) /\ Alone(o)
    BY DEF RunInv
  <2>2. ~(Busy(o) /\ run[o].alone)
    BY <2>1 DEF Alone
  <2>3. CASE run[o].step = "commits"
    <3>1. run'[o] = Less(run[o], r, deleted)
      BY <2>3 DEF Released, Less
    <3>2. /\ IsRun(run'[o]) /\ run'[o].step = run[o].step /\ run'[o].current = run[o].current
          /\ run'[o].alone = run[o].alone /\ run'[o].found = run[o].found
          /\ run'[o].strategies = run[o].strategies
      BY <2>1, <2>3, <3>1, WaitsLess
    <3>3. Busy(o) /\ ~run[o].alone
      BY <2>2, <2>3 DEF Busy
    <3>4. Alone(o)'
      BY <3>2, <3>3 DEF Alone
    <3>5. (run'[o].step = "commits" /\ run'[o].alone) => FALSE
      BY <3>2, <3>3
    <3>6. run'[o].current => run'[o].found = Found(bars', run'[o].strategies)
      BY <2>1, <2>3, <3>2 DEF Knows
    <3> QED  BY <3>2, <3>4, <3>5, <3>6 DEF Knows
  <2>4. CASE run[o].step # "commits"
    <3>1. run'[o] = run[o]
      BY <2>4 DEF Released
    <3> QED  BY <2>1, <2>2, <2>4, <3>1 DEF Knows, Busy, Alone
  <2> QED  BY <2>3, <2>4
<1>3. IsRun(run'[r]) /\ Knows(run[r])' /\ Alone(r)'
  BY <1>1 DEF IsRun, Knows, Alone, Busy, Idle
<1> QED  BY <1>1, <1>2, <1>3 DEF RunInv

LEMMA RunsAlways == Spec => []RunInv
<1>1. Init => RunInv
  BY DEF Init, RunInv, IsRun, Knows, Alone, Busy, Idle
<1>2. RunInv /\ [Next]_vars => RunInv'
  <2> SUFFICES ASSUME RunInv, [Next]_vars  PROVE RunInv'
    OBVIOUS
  <2>1. ASSUME UNCHANGED <<bars, stored, run>>  PROVE RunInv'
    BY <2>1 DEF RunInv, Knows, Alone, Busy
  <2>2. ASSUME NEW kind \in Kinds, BarCloses(kind)  PROVE RunInv'
    BY <2>2, AllOutdated DEF BarCloses
  <2>3. ASSUME NEW i, NEW kind \in Kinds, Revises(i, kind)  PROVE RunInv'
    BY <2>3, AllOutdated DEF Revises
  <2>4. ASSUME NEW r \in Runners, Skips(r)  PROVE RunInv'
    <3>1. IsRun(Idle) /\ Knows(Idle) /\ Idle.step = "idle"
      BY DEF IsRun, Knows, Idle
    <3> QED  BY <2>4, <3>1, OneReplaced DEF Skips
  <2>5. ASSUME NEW r \in Runners, Loads(r)  PROVE RunInv'
    <3> DEFINE x == [step |-> "deletes", strategies |-> run[r].strategies, alone |-> run[r].alone,
                     current |-> TRUE, found |-> Found(bars, run[r].strategies)]
    <3>1. run' = [run EXCEPT ![r] = x] /\ UNCHANGED <<bars, stored>> /\ run[r].step = "loads"
      BY <2>5 DEF Loads
    <3>2. run[r].alone \in BOOLEAN
      BY <3>1, StepIsKind DEF RunInv, IsLoad
    <3>3. IsDelete(x)
      BY <3>2 DEF IsDelete
    <3>4. Knows(x) /\ x.alone = run[r].alone
      BY DEF Knows
    <3> HIDE DEF x
    <3> QED  BY <3>1, <3>3, <3>4, OneReplaced DEF IsRun, Busy
  <2>6. ASSUME NEW r \in Runners, Deletes(r)  PROVE RunInv'
    <3> DEFINE w == {o \in Runners \ {r} : run[o].step = "commits" /\ run[o].seen \cap Seen(r) # {}}
               x == [step |-> "commits", strategies |-> run[r].strategies, alone |-> run[r].alone,
                     current |-> run[r].current, found |-> run[r].found, seen |-> Seen(r),
                     after |-> w]
    <3>1. run' = [run EXCEPT ![r] = x] /\ UNCHANGED <<bars, stored>> /\ run[r].step = "deletes"
      BY <2>6 DEF Deletes
    <3>2. run[r].alone \in BOOLEAN /\ run[r].current \in BOOLEAN /\ Knows(run[r])
      BY <3>1, StepIsKind DEF RunInv, IsDelete
    <3> HIDE DEF w
    <3>3. IsCommit(x)
      BY <3>2 DEF IsCommit
    <3>4. /\ x.step = "commits" /\ x.strategies = run[r].strategies
          /\ x.alone = run[r].alone /\ x.current = run[r].current /\ x.found = run[r].found
          /\ x.seen = {row \in stored : row.sig.strategy \in run[r].strategies}
      BY DEF Seen
    <3>5. Knows(x)
      BY <3>1, <3>2, <3>4 DEF Knows
    <3> HIDE DEF x
    <3> QED  BY <3>1, <3>3, <3>4, <3>5, OneReplaced DEF IsRun, Busy
  <2>7. ASSUME NEW r \in Runners, Commits(r)  PROVE RunInv'
    <3>1. Busy(r)
      BY <2>7 DEF Commits, Busy
    <3> QED  BY <2>7, <3>1, OneEnds DEF Commits
  <2>8. ASSUME NEW r \in Runners, RollsBack(r)  PROVE RunInv'
    BY <2>8, OneEnds DEF RollsBack
  <2>9. CASE UNCHANGED vars
    BY <2>1, <2>9 DEF vars
  <2>10. CASE Next
    BY <2>1, <2>2, <2>3, <2>4, <2>5, <2>6, <2>7, <2>8, <2>10, OneBegins
       DEF Next, Reconciles, Matches
  <2> QED  BY <2>9, <2>10
<1> QED  BY <1>1, <1>2, PTL DEF Spec

(* A run that had the symbol to itself leaves exactly the signals of its    *)
(* bars, each once (run_signals: DELETE and bulk insert in one commit), for *)
(* any runs, bars and strategies, whatever overlapped or failed before.     *)
THEOREM RunsRegenerate == Spec => Regenerates
<1>1. RunInv => [\A r \in Runners :
        run[r].step = "commits" /\ Commits(r) /\ run[r].alone /\ run[r].current
        => LeavesWhatIsFound(r) ]_vars
  <2> SUFFICES ASSUME RunInv, NEW r \in Runners, run[r].step = "commits", Commits(r),
                      run[r].alone, run[r].current
               PROVE  LeavesWhatIsFound(r)
    OBVIOUS
  <2> DEFINE strategies == run[r].strategies
             found == run[r].found
             left == stored \ run[r].seen
             rows == {row \in stored' : row.sig.strategy \in strategies}
  <2>1. found = Found(bars, strategies)
        /\ run[r].seen = {row \in stored : row.sig.strategy \in strategies}
    BY DEF RunInv, Knows
  <2>2. \A row \in left : row.sig.strategy \notin strategies
    BY <2>1
  <2>3. \A sig \in found : sig.strategy \in strategies
    BY <2>1 DEF Found
  <2>4. stored' = left \cup {Inserted(sig, left) : sig \in found}
    BY DEF Commits
  <2>5. \A sig : Inserted(sig, left).sig = sig
    BY DEF Inserted
  <2> HIDE DEF strategies, found, left
  <2>6. rows = {Inserted(sig, left) : sig \in found}
    BY <2>2, <2>3, <2>4, <2>5
  <2>7. {row.sig : row \in rows} = found
    BY <2>5, <2>6
  <2>8. \A x, y \in rows : x.sig = y.sig => x = y
    BY <2>5, <2>6
  <2> QED  BY <2>1, <2>7, <2>8 DEF LeavesWhatIsFound, strategies
<1> QED  BY <1>1, RunsAlways, PTL DEF Spec, Regenerates

-----------------------------------------------------------------------------
(* The match of a fill.  A collection that holds every subset all of whose  *)
(* proper subsets it holds, holds all subsets of a finite set.              *)
LEMMA SubsetInduction ==
  ASSUME NEW S, IsFiniteSet(S), NEW T,
         \A A \in SUBSET S : (\A B \in SUBSET A : B # A => B \in T) => A \in T
  PROVE  SUBSET S \subseteq T
<1> DEFINE Missing == {A \in SUBSET S : A \notin T}
<1>1. SUFFICES ASSUME Missing # {} PROVE FALSE
  OBVIOUS
<1>2. Missing \subseteq FiniteSubsetsOf(S)
  BY FS_Subset DEF FiniteSubsetsOf
<1>3. IsWellFoundedOn(StrictSubsetOrdering(S), FiniteSubsetsOf(S))
  BY FS_StrictSubsetOrderingWellFounded
<1>4. PICK A \in Missing : \A B \in Missing : <<B, A>> \notin StrictSubsetOrdering(S)
  <2> HIDE DEF Missing
  <2> QED  BY <1>1, <1>2, <1>3, WFMin
<1>5. \A B \in SUBSET A : B # A => B \in T
  BY <1>4 DEF StrictSubsetOrdering
<1> QED  BY <1>4, <1>5

(* Functions that agree on a set whenever they agree on its proper subsets. *)
LEMMA SameOnAll ==
  ASSUME NEW S, IsFiniteSet(S), NEW f, NEW g,
         \A A \in SUBSET S : (\A B \in SUBSET A : B # A => f[B] = g[B]) => f[A] = g[A]
  PROVE  f[S] = g[S]
<1> DEFINE T == {A \in SUBSET S : f[A] = g[A]}
<1>1. \A A \in SUBSET S : (\A B \in SUBSET A : B # A => B \in T) => A \in T
  OBVIOUS
<1>2. SUBSET S \subseteq T
  <2> HIDE DEF T
  <2> QED  BY <1>1, SubsetInduction
<1> QED  BY <1>2

(* Signals that can be compared, and those of them that none beats.         *)
Ranked(d, rows) == \A s \in rows : Score(d, s) \in Int /\ s.at \in Int
Tops(d, rows)   == {t \in rows : \A s \in rows : ~Beats(d, s, t)}

(* Beats orders signals by score, then kind, then session. *)
LEMMA BeatsOrders ==
  ASSUME NEW d, NEW rows, Ranked(d, rows), NEW x \in rows, NEW y \in rows, NEW z \in rows
  PROVE  /\ ~Beats(d, x, x)
         /\ Beats(d, x, y) /\ Beats(d, y, z) => Beats(d, x, z)
         /\ ~Beats(d, x, y) /\ ~Beats(d, y, x) => Score(d, x) = Score(d, y) /\ x.at = y.at
<1>1. /\ Score(d, x) \in Int /\ Score(d, y) \in Int /\ Score(d, z) \in Int
      /\ x.at \in Int /\ y.at \in Int /\ z.at \in Int
  BY DEF Ranked
<1> QED  BY <1>1 DEF Beats, IsEvent

Best(d, rows) == IF rows = {} THEN {{}} ELSE {{t} : t \in Tops(d, rows)}

(* Where the rows but one lead to, and then that one.                       *)
Round(d, rows, before) ==
  UNION {{After(d, winner, last) : winner \in before[rows \ {last}]} : last \in rows}

LEMMA SameRound ==
  ASSUME NEW d, NEW rows, NEW f, NEW g, \A last \in rows : f[rows \ {last}] = g[rows \ {last}]
  PROVE  Round(d, rows, f) = Round(d, rows, g)
<1> DEFINE Next1(x, last) == {After(d, winner, last) : winner \in x[rows \ {last}]}
<1>1. \A last \in rows : Next1(f, last) = Next1(g, last)
  OBVIOUS
<1>2. Round(d, rows, f) = UNION {Next1(f, last) : last \in rows}
  BY DEF Round
<1>3. Round(d, rows, g) = UNION {Next1(g, last) : last \in rows}
  BY DEF Round
<1> HIDE DEF Next1
<1> QED  BY <1>1, <1>2, <1>3

(* One more row leads from the best of the others to the best of all, and   *)
(* to each of them in some order.                                           *)
LEMMA BestOfOneMore ==
  ASSUME NEW d, NEW rows, Ranked(d, rows), rows # {}, NEW before,
         \A last \in rows : before[rows \ {last}] = Best(d, rows \ {last})
  PROVE  Round(d, rows, before) = Best(d, rows)
<1>1. ASSUME NEW last \in rows, NEW winner \in Best(d, rows \ {last})
      PROVE  After(d, winner, last) \in Best(d, rows)
  <2>1. CASE rows \ {last} = {}
    <3>1. winner = {} /\ rows = {last}
      BY <1>1, <2>1 DEF Best
    <3>2. After(d, winner, last) = {last} /\ last \in Tops(d, rows)
      BY <3>1, BeatsOrders DEF After, Tops
    <3> QED  BY <3>1, <3>2 DEF Best
  <2>2. CASE rows \ {last} # {}
    <3>1. PICK w \in Tops(d, rows \ {last}) : winner = {w}
      BY <1>1, <2>2 DEF Best
    <3>2. w \in rows /\ \A s \in rows : s # last => ~Beats(d, s, w)
      BY <3>1 DEF Tops
    <3>3. CASE Beats(d, last, w)
      <4>1. last \in Tops(d, rows)
        <5> SUFFICES ASSUME NEW s \in rows, Beats(d, s, last) PROVE FALSE
          BY DEF Tops
        <5>1. s # last
          BY BeatsOrders
        <5>2. Beats(d, s, w)
          BY <3>2, <3>3, BeatsOrders
        <5> QED  BY <3>2, <5>1, <5>2
      <4>2. After(d, winner, last) = {last}
        BY <3>1, <3>3 DEF After
      <4> QED  BY <4>1, <4>2 DEF Best
    <3>4. CASE ~Beats(d, last, w)
      <4>1. w \in Tops(d, rows)
        BY <3>2, <3>4 DEF Tops
      <4>2. After(d, winner, last) = {w}
        BY <3>1, <3>4 DEF After
      <4> QED  BY <4>1, <4>2 DEF Best
    <3> QED  BY <3>3, <3>4
  <2> QED  BY <2>1, <2>2
<1>2. ASSUME NEW best \in Best(d, rows)
      PROVE  \E last \in rows : \E winner \in Best(d, rows \ {last}) :
               best = After(d, winner, last)
  <2>1. PICK t \in Tops(d, rows) : best = {t}
    BY <1>2 DEF Best
  <2>2. t \in rows /\ \A s \in rows : ~Beats(d, s, t)
    BY <2>1 DEF Tops
  <2>3. CASE rows = {t}
    <3>1. {} \in Best(d, rows \ {t}) /\ After(d, {}, t) = {t}
      BY <2>3 DEF Best, After
    <3> QED  BY <2>1, <2>2, <3>1
  <2>4. CASE rows # {t}
    <3>1. PICK last \in rows : last # t
      BY <2>2, <2>4
    <3>2. t \in Tops(d, rows \ {last}) /\ rows \ {last} # {}
      BY <2>2, <3>1 DEF Tops
    <3>3. {t} \in Best(d, rows \ {last}) /\ After(d, {t}, last) = {t}
      BY <2>2, <3>2 DEF Best, After
    <3> QED  BY <2>1, <3>3
  <2> QED  BY <2>3, <2>4
<1>3. ASSUME NEW x PROVE x \in Round(d, rows, before) <=> x \in Best(d, rows)
  <2>1. x \in Round(d, rows, before) <=>
          \E last \in rows : \E winner \in before[rows \ {last}] : x = After(d, winner, last)
    BY DEF Round
  <2> QED  BY <1>1, <1>2, <2>1
<1> QED  BY <1>3

(* However the rows come, the winner is one of those that none beats.       *)
LEMMA OutcomesAreBest ==
  ASSUME NEW d, NEW E, E = {sig \in Candidates(d) : Eligible(d, sig)},
         IsFiniteSet(E), Ranked(d, E)
  PROVE  Outcomes(d) = Best(d, E)
<1> DEFINE of[rows \in SUBSET E] ==
      IF rows = {} THEN {{}}
      ELSE UNION {{After(d, winner, last) : winner \in of[rows \ {last}]} : last \in rows}
<1> DEFINE best == [rows \in SUBSET E |-> Best(d, rows)]
           Obeys(f) == f = [rows \in SUBSET E |->
                              IF rows = {} THEN {{}} ELSE Round(d, rows, f)]
<1>1. Outcomes(d) = of[E]
  BY DEF Outcomes
<1>2. Obeys(best)
  <2> SUFFICES ASSUME NEW rows \in SUBSET E, rows # {}
               PROVE  Best(d, rows) = Round(d, rows, best)
    BY DEF Best
  <2>1. \A last \in rows : best[rows \ {last}] = Best(d, rows \ {last})
    OBVIOUS
  <2>2. Ranked(d, rows)
    BY DEF Ranked
  <2> HIDE DEF best
  <2> QED  BY <2>1, <2>2, BestOfOneMore
<1>3. of = CHOOSE f : Obeys(f)
  BY DEF Round
<1> HIDE DEF best, of
<1>4. Obeys(of)
  BY <1>2, <1>3
<1>5. ASSUME NEW A \in SUBSET E, \A B \in SUBSET A : B # A => of[B] = best[B]
      PROVE  of[A] = best[A]
  <2>1. \A last \in A : of[A \ {last}] = best[A \ {last}]
    <3>1. \A last \in A : A \ {last} \in SUBSET A /\ A \ {last} # A
      OBVIOUS
    <3> QED  BY <1>5, <3>1
  <2>2. of[A]   = IF A = {} THEN {{}} ELSE Round(d, A, of)
    BY <1>4
  <2>3. best[A] = IF A = {} THEN {{}} ELSE Round(d, A, best)
    BY <1>2
  <2> QED  BY <2>1, <2>2, <2>3, SameRound
<1>6. of[E] = best[E]
  <2> HIDE DEF Obeys
  <2> QED  BY <1>5, SameOnAll
<1> QED  BY <1>1, <1>6 DEF best

-----------------------------------------------------------------------------
(* The signals found lie in the bars, and there are finitely many.         *)

LEMMA FoundIn ==
  ASSUME SignalsConstants, NEW b, Len(b) \in Nat, NEW s \in Found(b, Strategies)
  PROVE  \E strategy \in Strategies : \E at, of \in 1..Len(b) : s = Signal(strategy, at, of)
<1>1. MacdFrom \in Nat /\ SqueezeWindow \in Nat /\ ConfluenceFrom \in Nat
  BY DEF SignalsConstants
<1> DEFINE Within(S) == \A x \in S : \E strategy \in Strategies : \E at, of \in 1..Len(b) :
                          x = Signal(strategy, at, of)
<1>2. Within(Pipeline(b))
  <2> SUFFICES ASSUME NEW x \in Pipeline(b)
               PROVE  \E at, of \in 1..Len(b) : x = Signal("PIPELINE", at, of)
    BY DEF Strategies
  <2> QED  BY DEF Pipeline, RetestBars
<1>3. Within(SupertrendFlip(b))
  <2> SUFFICES ASSUME NEW x \in SupertrendFlip(b)
               PROVE  \E at \in 1..Len(b) : x = Signal("S1_ST_Flip", at, at)
    BY DEF Strategies
  <2> QED  BY DEF SupertrendFlip
<1>4. Within(MacdZeroCross(b))
  <2> SUFFICES ASSUME NEW x \in MacdZeroCross(b)
               PROVE  \E at \in 1..Len(b) : x = Signal("S2_MACD_Zero", at, at)
    BY DEF Strategies
  <2> QED  BY <1>1 DEF MacdZeroCross
<1>5. Within(BbSqueezeBreakout(b))
  <2> SUFFICES ASSUME NEW x \in BbSqueezeBreakout(b)
               PROVE  \E at \in 1..Len(b) : x = Signal("S3_BB_Squeeze", at, at)
    BY DEF Strategies
  <2> QED  BY <1>1, SMTT(20) DEF BbSqueezeBreakout
<1>6. Within(Confluence(b))
  <2> SUFFICES ASSUME NEW x \in Confluence(b)
               PROVE  \E at \in 1..Len(b) : x = Signal("Confluence", at, at)
    BY DEF Strategies
  <2> QED  BY <1>1 DEF Confluence
<1>7. Within(TtmSqueeze(b))
  <2> SUFFICES ASSUME NEW x \in TtmSqueeze(b)
               PROVE  \E at \in 1..Len(b) : x = Signal("TTM_Squeeze", at, at)
    BY DEF Strategies
  <2> QED  BY DEF TtmSqueeze
<1>8. s \in Pipeline(b) \/ s \in SupertrendFlip(b) \/ s \in MacdZeroCross(b)
      \/ s \in BbSqueezeBreakout(b) \/ s \in Confluence(b) \/ s \in TtmSqueeze(b)
  BY DEF Found
<1> HIDE DEF Signal
<1> QED  BY <1>2, <1>3, <1>4, <1>5, <1>6, <1>7, <1>8

LEMMA FoundFinite ==
  ASSUME SignalsConstants, NEW b, Len(b) \in Nat
  PROVE  IsFiniteSet(Found(b, Strategies))
<1> DEFINE N == 1..Len(b)
           P == Strategies \X (N \X N)
           f == [x \in P |-> Signal(x[1], x[2][1], x[2][2])]
           T == {f[x] : x \in P}
<1>1. IsFiniteSet(N)
  BY FS_Interval
<1>2. IsFiniteSet(Strategies)
  <2>1. Strategies = {"PIPELINE"} \cup {"S1_ST_Flip"} \cup {"S2_MACD_Zero"}
                       \cup {"S3_BB_Squeeze"} \cup {"Confluence"} \cup {"TTM_Squeeze"}
    BY DEF Strategies
  <2>2. \A x : IsFiniteSet({x})
    BY FS_Singleton
  <2> QED  BY <2>1, <2>2, FS_Union
<1>3. IsFiniteSet(P)
  <2> HIDE DEF N
  <2> QED  BY <1>1, <1>2, FS_Product
<1>4. IsFiniteSet(T)
  <2> HIDE DEF P, Signal
  <2>1. f \in [P -> T]
    OBVIOUS
  <2>2. \A t \in T : \E x \in P : f[x] = t
    OBVIOUS
  <2> HIDE DEF f, T
  <2>3. f \in Surjection(P, T)
    BY <2>1, <2>2 DEF Surjection
  <2> QED  BY <1>3, <2>3, FS_Surjection
<1>5. Found(b, Strategies) \subseteq T
  <2> SUFFICES ASSUME NEW s \in Found(b, Strategies)  PROVE s \in T
    OBVIOUS
  <2>1. PICK strategy \in Strategies, at \in N, of \in N : s = Signal(strategy, at, of)
    BY FoundIn
  <2>2. <<strategy, <<at, of>>>> \in P /\ f[<<strategy, <<at, of>>>>] = s
    <3> HIDE DEF N, Signal
    <3> QED  BY <2>1
  <2> HIDE DEF f, P
  <2> QED  BY <2>2
<1> HIDE DEF T
<1> QED  BY <1>4, <1>5, FS_Subset

-----------------------------------------------------------------------------
(* A match remembered is the best signal of the window, still.             *)

InReach(d) ==
  {sig \in Found(bars, Strategies) :
     d - MatchWindow <= sig.at /\ sig.at <= d /\ Eligible(d, sig)}

MatchInv ==
  match.day # 0 =>
    /\ match.day \in Nat /\ match.day <= Len(bars) /\ Len(bars) >= MinHistory
    /\ match.with \in Best(match.day, InReach(match.day))

(* The score of a signal found is a number. *)
LEMMA FoundRanked ==
  ASSUME BarsTyped, NEW d \in Nat, NEW s \in Found(bars, Strategies)
  PROVE  s.at \in 1..Len(bars) /\ bars[s.at].gap \in Nat /\ Score(d, s) \in Int
<1>1. bars \in Seq(Kinds) /\ Len(bars) \in Nat /\ Kinds \subseteq Tests /\ MatchWindow \in Nat
  BY SignalsConstants DEF BarsTyped, SignalsConstants
<1>2. s.at \in 1..Len(bars)
  BY <1>1, FoundIn, SignalsConstants DEF Signal
<1>3. bars[s.at] \in Tests
  BY <1>1, <1>2, ElementOfSeq
<1>4. bars[s.at].gap \in Nat
  BY <1>3 DEF Tests
<1>5. ASSUME NEW g \in Nat, NEW k \in {15, 30}, NEW a \in Int
      PROVE  MatchWindow * (50 - 10 * g) + MatchWindow * k + 20 * (MatchWindow - a) \in Int
  <2>1. 50 - 10 * g \in Int /\ k \in Int /\ MatchWindow - a \in Int
    BY <1>1
  <2>2. \A x, y \in Int : x * y \in Int
    OBVIOUS
  <2>3. /\ MatchWindow * (50 - 10 * g) \in Int /\ MatchWindow * k \in Int
        /\ 20 * (MatchWindow - a) \in Int
    BY <1>1, <2>1, <2>2
  <2>4. \A x, y \in Int : x + y \in Int
    OBVIOUS
  <2> QED  BY <2>3, <2>4
<1>6. Score(d, s) \in Int
  <2> DEFINE g == bars[s.at].gap
             k == IF IsEvent(s) THEN 30 ELSE 15
             a == d - s.at
  <2>1. g \in Nat /\ k \in {15, 30} /\ a \in Int
    BY <1>2, <1>4
  <2>2. Score(d, s) = MatchWindow * (50 - 10 * g) + MatchWindow * k + 20 * (MatchWindow - a)
    BY Zenon DEF Score, Age
  <2> HIDE DEF g, k, a
  <2>3. MatchWindow * (50 - 10 * g) + MatchWindow * k + 20 * (MatchWindow - a) \in Int
    BY <1>5, <2>1
  <2> QED  BY <2>2, <2>3
<1> QED  BY <1>2, <1>4, <1>6

LEMMA ReachRanked ==
  ASSUME BarsTyped, NEW d \in Nat
  PROVE  Ranked(d, InReach(d)) /\ IsFiniteSet(InReach(d))
<1>1. Len(bars) \in Nat
  BY DEF BarsTyped
<1>2. IsFiniteSet(Found(bars, Strategies))
  BY <1>1, FoundFinite, SignalsConstants
<1>3. InReach(d) \subseteq Found(bars, Strategies)
  BY DEF InReach
<1>4. Ranked(d, InReach(d))
  BY <1>3, FoundRanked DEF Ranked
<1> QED  BY <1>2, <1>3, <1>4, FS_Subset

(* Among settled signals every order leads to one of the best. *)
LEMMA SettledOutcomes ==
  ASSUME BarsTyped, NEW d \in Nat, Settled(d)
  PROVE  Outcomes(d) = Best(d, InReach(d))
<1>1. InReach(d) = {sig \in Candidates(d) : Eligible(d, sig)}
  BY DEF InReach, Candidates, Settled
<1> QED  BY <1>1, ReachRanked, OutcomesAreBest

(* Two of the best are of one session and score. *)
LEMMA BestAgree ==
  ASSUME NEW d, NEW rows, Ranked(d, rows), NEW v \in Best(d, rows), NEW w \in Best(d, rows)
  PROVE  /\ v = {} <=> w = {}
         /\ \A x \in v, y \in w : x.at = y.at /\ Score(d, x) = Score(d, y)
<1>1. CASE rows = {}
  BY <1>1 DEF Best
<1>2. CASE rows # {}
  <2>1. PICK x \in Tops(d, rows), y \in Tops(d, rows) : v = {x} /\ w = {y}
    BY <1>2 DEF Best
  <2>2. x \in rows /\ y \in rows /\ ~Beats(d, x, y) /\ ~Beats(d, y, x)
    BY DEF Tops
  <2>3. Score(d, x) = Score(d, y) /\ x.at = y.at
    BY <2>2, BeatsOrders
  <2> QED  BY <2>1, <2>3
<1> QED  BY <1>1, <1>2

(* The bar of a later session changes none of it. *)
LEMMA ReachStays ==
  ASSUME BarsTyped, NEW kind \in Kinds, BarCloses(kind), NEW d \in Nat, d <= Len(bars),
         Len(bars) >= MinHistory
  PROVE  Best(d, InReach(d))' = Best(d, InReach(d))
<1>1. bars \in Seq(Kinds) /\ Len(bars) \in Nat
  BY DEF BarsTyped
<1>2. Len(bars') \in Nat /\ Extends(bars', bars) /\ bars' \in Seq(Kinds)
  BY <1>1, AppendProperties DEF BarCloses, Extends
<1>3. UpTo(Len(bars), Found(bars', Strategies)) = Found(bars, Strategies)
  BY <1>1, <1>2, FoundLooksBack, SignalsConstants, Zenon
<1>4. \A s : s.at \in 1..Len(bars) =>
         bars'[s.at] = bars[s.at]
  BY <1>2 DEF Extends
<1>5. \A s \in Found(bars, Strategies) : s.at \in 1..Len(bars)
  BY FoundRanked
<1>6. \A s \in Found(bars, Strategies) :
         Score(d, s)' = Score(d, s) /\ (Eligible(d, s)' <=> Eligible(d, s))
  BY <1>4, <1>5 DEF Score, Eligible, Age
<1>7. \A s : s \in Found(bars', Strategies) /\ s.at <= d => s \in Found(bars, Strategies)
  <2> SUFFICES ASSUME NEW s \in Found(bars', Strategies), s.at <= d
               PROVE  s \in Found(bars, Strategies)
    OBVIOUS
  <2>1. s.at \in Nat
    BY <1>2, FoundIn, SignalsConstants DEF Signal
  <2>2. s.at <= Len(bars)
    BY <1>1, <2>1
  <2> QED  BY <1>3, <2>2 DEF UpTo
<1>8. Found(bars, Strategies) \subseteq Found(bars', Strategies)
  BY <1>3 DEF UpTo
<1>9. InReach(d)' = InReach(d)
  <2>1. InReach(d)' = {sig \in Found(bars', Strategies) :
          d - MatchWindow <= sig.at /\ sig.at <= d /\ Eligible(d, sig)'}
    BY DEF InReach
  <2> QED  BY <1>6, <1>7, <1>8, <2>1 DEF InReach
<1>10. \A s, t \in InReach(d) : Beats(d, s, t)' <=> Beats(d, s, t)
  BY <1>6 DEF Beats, InReach
<1>11. Tops(d, InReach(d))' = Tops(d, InReach(d))
  <2>1. Tops(d, InReach(d))' = {t \in InReach(d)' : \A s \in InReach(d)' : ~Beats(d, s, t)'}
    BY DEF Tops
  <2> QED  BY <1>9, <1>10, <2>1 DEF Tops
<1>12. Best(d, InReach(d))' =
         IF InReach(d)' = {} THEN {{}} ELSE {{t} : t \in Tops(d, InReach(d))'}
  BY DEF Best
<1> QED  BY <1>9, <1>11, <1>12 DEF Best

LEMMA MatchAlways == Spec => []MatchInv
<1>1. Init => MatchInv
  BY DEF Init, NoMatch, MatchInv
<1>2. BarsTyped /\ MatchInv /\ [Next]_vars => MatchInv'
  <2> SUFFICES ASSUME BarsTyped, MatchInv, [Next]_vars  PROVE MatchInv'
    OBVIOUS
  <2>1. ASSUME UNCHANGED <<bars, match>>  PROVE MatchInv'
    BY <2>1 DEF MatchInv, Best, Tops, InReach, Eligible, Beats, Score, Age
  <2>2. ASSUME NEW kind \in Kinds, BarCloses(kind)  PROVE MatchInv'
    <3>1. match' = match /\ Len(bars') = Len(bars) + 1 /\ Len(bars) \in Nat
      BY <2>2, AppendProperties DEF BarCloses, BarsTyped
    <3>2. CASE match.day # 0
      <4>1. /\ match.day \in Nat /\ match.day <= Len(bars) /\ Len(bars) >= MinHistory
            /\ match.with \in Best(match.day, InReach(match.day))
        BY <3>2 DEF MatchInv
      <4>2. \A d \in Nat : d <= Len(bars) => Best(d, InReach(d))' = Best(d, InReach(d))
        BY <2>2, <4>1, ReachStays
      <4>3. match.with \in Best(match.day, InReach(match.day))'
        BY <3>1, <4>1, <4>2
      <4>4. match'.day <= Len(bars') /\ Len(bars') >= MinHistory
        BY <3>1, <4>1, SignalsConstants DEF SignalsConstants
      <4> QED  BY <3>1, <4>1, <4>3, <4>4 DEF MatchInv
    <3>3. CASE match.day = 0
      BY <3>1, <3>3 DEF MatchInv
    <3> QED  BY <3>2, <3>3
  <2>3. ASSUME NEW i, NEW kind \in Kinds, Revises(i, kind)  PROVE MatchInv'
    BY <2>3 DEF Revises, NoMatch, MatchInv
  <2>4. ASSUME NEW d \in FillDays, Matches(d)  PROVE MatchInv'
    <3>1. d \in Nat
      BY SignalsConstants DEF SignalsConstants
    <3>2. PICK winner \in Outcomes(d) :
            match' = IF Settled(d) THEN [day |-> d, with |-> winner] ELSE NoMatch
      BY <2>4 DEF Matches
    <3>3. CASE Settled(d)
      <4>1. winner \in Best(d, InReach(d)) /\ d <= Len(bars) /\ Len(bars) >= MinHistory
        BY <3>1, <3>3, SettledOutcomes DEF Settled
      <4>2. bars' = bars /\ match'.day = d /\ match'.with = winner
        BY <2>4, <3>2, <3>3 DEF Matches
      <4>3. \A e, S : Best(e, S)' = Best(e, S)
        BY <4>2 DEF Best, Tops, Beats, Score, Age
      <4>4. InReach(d)' = InReach(d)
        BY <4>2 DEF InReach, Eligible, Score, Age
      <4> QED  BY <3>1, <4>1, <4>2, <4>3, <4>4 DEF MatchInv
    <3>4. CASE ~Settled(d)
      BY <3>2, <3>4 DEF NoMatch, MatchInv
    <3> QED  BY <3>3, <3>4
  <2>5. CASE UNCHANGED vars
    BY <2>1, <2>5 DEF vars
  <2>6. CASE Next
    BY <2>1, <2>2, <2>3, <2>4, <2>6
       DEF Next, Reconciles, Begins, Skips, Loads, Deletes, Commits, RollsBack
  <2> QED  BY <2>5, <2>6
<1> QED  BY <1>1, <1>2, BarsAlways, PTL DEF Spec

(* A fill applied late finds a signal of the session and score it would     *)
(* have found before (_apply_buy, score_candidates), in whatever order the  *)
(* rows come, after any number of further bars and runs, for any windows.   *)
THEOREM LateMatchesAgree == Spec => []LateMatchAgrees
<1>1. BarsTyped /\ MatchInv => LateMatchAgrees
  <2> SUFFICES ASSUME BarsTyped, MatchInv, match.day # 0, Settled(match.day),
                      NEW again \in Outcomes(match.day)
               PROVE  /\ again = {} <=> match.with = {}
                      /\ \A a \in again, w \in match.with :
                           a.at = w.at /\ Score(match.day, a) = Score(match.day, w)
    BY DEF LateMatchAgrees
  <2> DEFINE d == match.day
             rows == InReach(d)
  <2>1. d \in Nat /\ match.with \in Best(d, rows)
    BY DEF MatchInv
  <2>2. Ranked(d, rows)
    BY <2>1, ReachRanked
  <2>3. again \in Best(d, rows)
    BY <2>1, SettledOutcomes
  <2> HIDE DEF d, rows
  <2>4. /\ again = {} <=> match.with = {}
        /\ \A x \in again, y \in match.with : x.at = y.at /\ Score(d, x) = Score(d, y)
    BY <2>1, <2>2, <2>3, BestAgree
  <2> QED  BY <2>4 DEF d
<1> QED  BY <1>1, BarsAlways, MatchAlways, PTL
=============================================================================
