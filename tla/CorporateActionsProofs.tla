----------------------- MODULE CorporateActionsProofs -----------------------
(***************************************************************************)
(* No action slips through the windows of the job's loads, and dividends   *)
(* go ex in full, for any records, windows and refusals.                   *)
(*                                                                         *)
(* A record that has not been read since it could be has been waiting for  *)
(* refusals only: there have been as many of them in a row as days.        *)
(*                                                                         *)
(* Then the factors of adjustment_series: each bar of a split table has    *)
(* the product of what the later dividends left of their own prices.       *)
(* Splits cancel in the effect of each dividend, a product does not depend *)
(* on the order of its factors or on their names, and the walk back over   *)
(* the bars collects each dividend once.                                   *)
(*                                                                         *)
(* The last part is about the feed of candles: what the end of a job or    *)
(* of a cutover says of the candles and indicators holds for any symbols,  *)
(* overlaps, failures and lost logins.  Each worker's record tells what it *)
(* has done so far, other workers' steps never take that back, and the one *)
(* that is alone has still got the candles that it loaded.                 *)
(***************************************************************************)
EXTENDS CorporateActions, Feed, FiniteSetTheorems, TLAPS

Notices == [text : {"none", "garbled", "clear"}, ex : Days]

TypeInv ==
  /\ today \in Days /\ loaded \in BOOLEAN /\ missed \in 0..MaxMissed /\ moves \in Nat
  /\ notice \in [Records -> Notices]
  /\ since \in [Records -> Nat]

(* The last day on which the job has come to the actions. *)
Reached == IF loaded THEN today ELSE today - 1

(* The first load of the job that covers r. *)
First(r) == Max({since[r], notice[r].ex - Ahead})

(* As long as r is in the job's window, all its loads since have failed. *)
Waits(r) ==
  First(r) + MaxMissed <= notice[r].ex + Lookback /\ First(r) <= Reached
    => Reached < First(r) + missed

SinceInv ==
  \A r \in Records :
    /\ since[r] # Never <=> Loadable(r, notice, known)
    /\ since[r] # Never => since[r] <= Reached + 1

(* A record without a row waits. *)
KeysInv ==
  \A r \in Records : since[r] # Never /\ Kind[r] # "none" =>
    Waits(r) \/ \E row \in rows : KeyOf(row) = Key(r)

(* A row of dividends is the sum of some records; the others wait. *)
Group(row) == {r \in Records : Key(r) = KeyOf(row) /\ since[r] # Never}
SumOf(row, G) == row.amount = AmountOf(G) /\ \A r \in Group(row) \ G : Waits(r)
SumsInv ==
  moves = 0 => \A row \in rows :
    row.kind = "dividend" => \E G \in SUBSET Group(row) : SumOf(row, G)

Inv == TypeInv /\ SinceInv /\ KeysInv /\ SumsInv

LEMMA Numbers ==
  ASSUME TypeInv
  PROVE  /\ Lookback \in Nat /\ Ahead \in Nat /\ MaxMissed \in Nat /\ LastDay \in Nat
         /\ today \in Nat /\ today <= LastDay /\ Reached \in Int /\ missed \in Nat /\ missed <= MaxMissed
         /\ \A r \in Records : since[r] \in Nat /\ notice[r].ex \in Nat /\ notice[r] \in Notices
BY CorporateActionsConstants DEF TypeInv, CorporateActionsConstants, Days, Reached, Notices

LEMMA MaxOfTwo ==
  ASSUME NEW a \in Int, NEW b \in Int
  PROVE  Max({a, b}) \in {a, b} /\ a <= Max({a, b}) /\ b <= Max({a, b})
<1>1. \E x \in {a, b} : \A y \in {a, b} : x >= y
  <2>1. CASE a <= b
    BY <2>1
  <2>2. CASE b <= a
    BY <2>2
  <2> QED  BY <2>1, <2>2
<1> QED  BY <1>1 DEF Max

LEMMA FirstIs ==
  ASSUME TypeInv, NEW r \in Records
  PROVE  First(r) \in Int /\ since[r] <= First(r) /\ notice[r].ex - Ahead <= First(r)
<1>1. since[r] \in Int /\ notice[r].ex - Ahead \in Int
  BY Numbers
<1> QED  BY <1>1, MaxOfTwo DEF First

(* A nonempty set of records has a first one. *)
LEMMA MinIn ==
  ASSUME NEW S \in SUBSET Nat, S # {}
  PROVE  Min(S) \in S
<1>1. PICK m \in S : \A x \in S : <<x, m>> \notin OpToRel(<, Nat)
  BY NatLessThanWellFounded, WFMin
<1>2. \A x \in S : ~(x < m)
  BY <1>1 DEF OpToRel
<1>3. \A x \in S : m <= x
  BY <1>2
<1> QED  BY <1>3 DEF Min

(* The row of a group has the key of its records. *)
LEMMA RowHasKey ==
  ASSUME NEW parsed \in SUBSET Records, NEW r \in parsed
  PROVE  LET group == {q \in parsed : Key(q) = Key(r)}
         IN  /\ KeyOf(RowOf(group)) = Key(r)
             /\ Kind[r] = "dividend" => RowOf(group).amount = AmountOf(group)
<1> DEFINE group == {q \in parsed : Key(q) = Key(r)}
<1>1. group \in SUBSET Nat /\ group # {}
  BY CorporateActionsConstants DEF CorporateActionsConstants
<1>2. Key(Min(group)) = Key(r)
  <2>1. Min(group) \in group
    <3> HIDE DEF group
    <3> QED  BY <1>1, MinIn
  <2> QED  BY <2>1
<1> HIDE DEF group
<1>3. KeyOf(RowOf(group)) = Key(Min(group))
  BY DEF KeyOf, RowOf, Key
<1>4. Kind[Min(group)] = Kind[r]
  BY <1>2 DEF Key
<1>5. Kind[r] = "dividend" => RowOf(group).amount = AmountOf(group)
  BY <1>4 DEF RowOf
<1> QED  BY <1>2, <1>3, <1>5 DEF group

-----------------------------------------------------------------------------
(* How long a record waits.                                                *)

(* A record that has only now become readable. *)
LEMMA NewWaits ==
  ASSUME TypeInv', NEW r \in Records, since'[r] = Reached' + 1
  PROVE  Waits(r)'
<1>1. since'[r] \in Int /\ notice'[r].ex \in Int /\ today' \in Int /\ Ahead \in Int
  BY CorporateActionsConstants DEF TypeInv, CorporateActionsConstants, Days, Notices
<1>3. notice'[r].ex - Ahead \in Int /\ Reached' \in Int
  BY <1>1 DEF Reached
<1>2. since'[r] <= First(r)' /\ First(r)' \in Int
  BY <1>1, <1>3, MaxOfTwo DEF First
<1> QED  BY <1>1, <1>2, <1>3 DEF Waits

LEMMA StillFirst ==
  ASSUME NEW r \in Records, since'[r] = since[r], notice'[r] = notice[r]
  PROVE  First(r)' = First(r)
BY DEF First

(* Another refusal. *)
LEMMA FailureWaits ==
  ASSUME TypeInv, TypeInv', NEW r \in Records, since'[r] = since[r], notice'[r] = notice[r],
         ~loaded, loaded', today' = today, missed' = missed + 1, Waits(r)
  PROVE  Waits(r)'
<1>1. First(r)' = First(r) /\ First(r) \in Int
  BY StillFirst, FirstIs
<1>2. Reached = today - 1 /\ Reached' = today
  BY DEF Reached
<1>3. missed \in Nat /\ today \in Nat /\ MaxMissed \in Nat /\ Lookback \in Nat /\ notice[r].ex \in Nat
  BY Numbers
<1>4. Waits(r)' <=> (First(r) + MaxMissed <= notice[r].ex + Lookback /\ First(r) <= today
                       => today < First(r) + missed + 1)
  BY <1>1, <1>2, <1>3 DEF Waits
<1>5. Waits(r) <=> (First(r) + MaxMissed <= notice[r].ex + Lookback /\ First(r) <= today - 1
                      => today - 1 < First(r) + missed)
  BY <1>1, <1>2 DEF Waits
<1> QED  BY <1>1, <1>3, <1>4, <1>5

(* Nothing that counts. *)
LEMMA SameWaits ==
  ASSUME NEW r \in Records, since'[r] = since[r], notice'[r] = notice[r],
         Reached' = Reached, missed' = missed, Waits(r)
  PROVE  Waits(r)'
BY StillFirst DEF Waits

(* A load of the job finds r in its window, or r need not be found any more: *)
(* the window reaches back to the first refusals that count.                *)
LEMMA LoadWaits ==
  ASSUME TypeInv, TypeInv', NEW r \in Records, since'[r] = since[r], notice'[r] = notice[r],
         ~loaded, loaded', today' = today, Waits(r),
         notice[r].ex \notin From(today)..(today + Ahead)
  PROVE  Waits(r)'
<1> DEFINE ex == notice[r].ex
           first == First(r)
<1>1. First(r)' = first /\ first \in Int /\ ex - Ahead <= first
  BY StillFirst, FirstIs
<1>2. Reached = today - 1 /\ Reached' = today
  BY DEF Reached
<1>3. /\ missed \in Nat /\ missed <= MaxMissed /\ today \in Nat /\ MaxMissed \in Nat
      /\ Lookback \in Nat /\ Ahead \in Nat /\ ex \in Nat
  BY Numbers
<1>4. From(today) \in Nat /\ (ex < From(today) => ex + Lookback < today)
  BY <1>3 DEF From
<1>5. ex < From(today) \/ ex > today + Ahead
  BY <1>3, <1>4
<1>6. Waits(r) <=> (first + MaxMissed <= ex + Lookback /\ first <= today - 1
                      => today - 1 < first + missed)
  BY <1>2 DEF Waits
<1>7. Waits(r)' <=> (first + MaxMissed <= ex + Lookback /\ first <= today
                       => today < first + missed')
  BY <1>1, <1>2 DEF Waits
<1> HIDE DEF ex, first
<1>8. ~(first + MaxMissed <= ex + Lookback /\ first <= today)
  BY <1>1, <1>3, <1>4, <1>5, <1>6
<1> QED  BY <1>7, <1>8

(* A record that has been waiting for longer than NSE refuses is not due. *)
LEMMA WaitsNotDue ==
  ASSUME TypeInv, NEW r \in Records, Waits(r)
  PROVE  ~Due(r)
<1>1. /\ First(r) \in Int /\ missed \in Nat /\ missed <= MaxMissed /\ MaxMissed \in Nat
      /\ today \in Nat
  BY FirstIs, Numbers
<1>2. SUFFICES ASSUME Due(r) PROVE FALSE
  OBVIOUS
<1>3. /\ First(r) + MaxMissed <= notice[r].ex + Lookback
      /\ First(r) + MaxMissed < today \/ (First(r) + MaxMissed = today /\ loaded)
  BY <1>2 DEF Due, First
<1>4. First(r) + MaxMissed <= Reached
  BY <1>1, <1>3 DEF Reached
<1> QED  BY <1>1, <1>3, <1>4, Numbers DEF Waits

-----------------------------------------------------------------------------
(* The steps outside.                                                      *)

(* What Lists, Announces, Rewords and Moves have in common. *)
Outside ==
  /\ since' = Since(notice', known')
  /\ UNCHANGED <<today, loaded, missed, rows>>

LEMMA OutsideSince ==
  ASSUME TypeInv, SinceInv, Outside, NEW r \in Records
  PROVE  /\ since'[r] # Never <=> Loadable(r, notice', known')
         /\ since'[r] # Never => \/ since'[r] = since[r] /\ notice'[r] = notice[r] /\ since[r] # Never
                                 \/ since'[r] = Reached + 1
         /\ Reached' = Reached
         /\ since'[r] \in Nat
         /\ since'[r] # Never => since'[r] <= Reached + 1
<1>1. /\ since[r] \in Nat /\ today \in Nat /\ today <= LastDay /\ LastDay \in Nat
      /\ since[r] # Never => since[r] <= Reached + 1
  BY Numbers DEF SinceInv
<1>2. Reached + 1 = (IF loaded THEN today + 1 ELSE today) /\ Reached + 1 \in Nat
  BY <1>1 DEF Reached
<1>3. since'[r] = IF ~Loadable(r, notice', known') THEN Never
                  ELSE IF since[r] # Never /\ notice'[r] = notice[r] THEN since[r]
                  ELSE IF loaded THEN today + 1 ELSE today
  BY DEF Outside, Since
<1>4. Never \in Nat /\ Reached + 1 < Never
  BY <1>1, <1>2 DEF Never
<1>5. Reached' = Reached
  BY DEF Outside, Reached
<1>6. CASE ~Loadable(r, notice', known')
  BY <1>3, <1>4, <1>5, <1>6
<1>7. CASE Loadable(r, notice', known') /\ since[r] # Never /\ notice'[r] = notice[r]
  BY <1>1, <1>3, <1>5, <1>7
<1>8. CASE Loadable(r, notice', known') /\ ~(since[r] # Never /\ notice'[r] = notice[r])
  BY <1>2, <1>3, <1>4, <1>5, <1>8
<1> QED  BY <1>6, <1>7, <1>8

LEMMA OutsideKeeps ==
  ASSUME Inv, TypeInv', Outside,
         moves' = 0 => /\ moves = 0
                       /\ \A r \in Records : /\ notice'[r].ex = notice[r].ex
                                             /\ since[r] # Never => since'[r] = since[r] /\ notice'[r] = notice[r]
  PROVE  Inv'
<1>0. TypeInv /\ SinceInv /\ KeysInv /\ SumsInv
  BY DEF Inv
<1>1. SinceInv'
  BY <1>0, OutsideSince DEF SinceInv
<1>2. rows' = rows /\ missed' = missed /\ \A row : KeyOf(row)' = KeyOf(row)
  BY DEF Outside, KeyOf
<1>3. ASSUME NEW r \in Records, since'[r] # Never,
             ~(since'[r] = since[r] /\ notice'[r] = notice[r] /\ since[r] # Never)
      PROVE  Waits(r)'
  <2>1. since'[r] = Reached' + 1
    BY <1>0, <1>3, OutsideSince
  <2> QED  BY <2>1, NewWaits
<1>4. ASSUME NEW r \in Records, since'[r] = since[r], notice'[r] = notice[r], Waits(r)
      PROVE  Waits(r)'
  BY <1>0, <1>2, <1>4, OutsideSince, SameWaits
<1>5. KeysInv'
  <2> SUFFICES ASSUME NEW r \in Records, since'[r] # Never, Kind[r] # "none"
               PROVE  Waits(r)' \/ \E row \in rows' : KeyOf(row)' = Key(r)'
    BY DEF KeysInv
  <2>1. CASE since'[r] = since[r] /\ notice'[r] = notice[r] /\ since[r] # Never
    <3>1. Key(r)' = Key(r)
      BY <2>1 DEF Key
    <3>2. Waits(r) \/ \E row \in rows : KeyOf(row) = Key(r)
      BY <1>0, <2>1 DEF KeysInv
    <3> QED  BY <1>2, <1>4, <2>1, <3>1, <3>2
  <2> QED  BY <1>3, <2>1
<1>6. SumsInv'
  <2> SUFFICES ASSUME moves' = 0, NEW row \in rows, row.kind = "dividend"
               PROVE  \E G \in SUBSET Group(row)' : SumOf(row, G)'
    BY <1>2 DEF SumsInv
  <2>1. /\ \A r \in Records : Key(r)' = Key(r)
        /\ \A r \in Records : since[r] # Never => since'[r] = since[r] /\ notice'[r] = notice[r]
    BY DEF Key
  <2>2. PICK G \in SUBSET Group(row) : SumOf(row, G)
    BY <1>0 DEF SumsInv
  <2>3. Group(row) \subseteq Group(row)'
    BY <1>2, <2>1 DEF Group
  <2>4. row.amount = AmountOf(G)
    BY <2>2 DEF SumOf
  <2>5. ASSUME NEW r \in Group(row)' \ G  PROVE Waits(r)'
    <3>0. r \in Records /\ since'[r] # Never /\ Key(r) = KeyOf(row)
      BY <1>2, <2>1, <2>5 DEF Group
    <3>1. CASE since[r] # Never
      <4>1. r \in Group(row) \ G
        BY <2>5, <3>0, <3>1 DEF Group
      <4> QED  BY <1>4, <2>1, <2>2, <3>0, <3>1, <4>1 DEF SumOf
    <3> QED  BY <1>3, <3>0, <3>1
  <2> QED  BY <2>3, <2>4, <2>5 DEF SumOf
<1> QED  BY <1>1, <1>5, <1>6 DEF Inv

-----------------------------------------------------------------------------
(* The loads.                                                              *)

LEMMA LoadKeeps ==
  ASSUME Inv, TypeInv', NEW frm, NEW to, NEW wanted, Load(frm, to, wanted),
         UNCHANGED <<known, notice, since, moves>>, today' = today,
         \A r \in Records :
           Waits(r) /\ (notice[r].ex \notin frm..to \/ Company[r] \notin wanted) => Waits(r)',
         Reached <= Reached'
  PROVE  Inv'
<1> DEFINE parsed == Parsed(frm, to, wanted)
           new == Deduped(parsed)
           GroupIn(r) == {q \in parsed : Key(q) = Key(r)}
<1>0. TypeInv /\ SinceInv /\ KeysInv /\ SumsInv
  BY DEF Inv
<1>1. rows' = {row \in rows : \A n \in new : KeyOf(n) # KeyOf(row)} \cup new
  BY DEF Load
<1>2. parsed \subseteq Records
  BY DEF Parsed
<1>3. \A r \in Records :
        r \in parsed <=> /\ notice[r].ex \in frm..to /\ Company[r] \in wanted
                        /\ Kind[r] # "none" /\ since[r] # Never
  BY <1>0 DEF Parsed, SinceInv
<1>4. new = {RowOf(GroupIn(r)) : r \in parsed}
  BY DEF Deduped
<1>5. \A r \in parsed : /\ KeyOf(RowOf(GroupIn(r))) = Key(r)
                        /\ Kind[r] = "dividend" => RowOf(GroupIn(r)).amount = AmountOf(GroupIn(r))
  BY <1>2, RowHasKey
<1>6. \A r \in Records : Key(r)' = Key(r) /\ since'[r] = since[r] /\ notice'[r] = notice[r]
  BY DEF Key
<1>7. \A row : KeyOf(row)' = KeyOf(row) /\ Group(row)' = Group(row)
  BY <1>6 DEF KeyOf, Group
<1> HIDE DEF new, parsed
<1>8. SinceInv'
  <2>1. Reached \in Int /\ Reached' \in Int /\ \A r \in Records : since[r] \in Nat
    BY <1>0, Numbers DEF Reached
  <2> SUFFICES ASSUME NEW r \in Records
               PROVE  /\ since[r] # Never <=> Loadable(r, notice', known')
                      /\ since[r] # Never => since[r] <= Reached' + 1
    BY DEF SinceInv
  <2>2. /\ since[r] # Never <=> Loadable(r, notice, known)
        /\ since[r] # Never => since[r] <= Reached + 1
    BY <1>0 DEF SinceInv
  <2> QED  BY <2>1, <2>2 DEF Loadable
<1>9. KeysInv'
  <2> SUFFICES ASSUME NEW r \in Records, since[r] # Never, Kind[r] # "none",
                      \A row \in rows' : KeyOf(row) # Key(r)
               PROVE  Waits(r)'
    BY <1>6, <1>7 DEF KeysInv
  <2>1. r \notin parsed
    BY <1>1, <1>4, <1>5
  <2>2. \A row \in rows : KeyOf(row) # Key(r)
    BY <1>1
  <2> QED  BY <1>0, <1>3, <2>1, <2>2 DEF KeysInv
<1>10. SumsInv'
  <2> SUFFICES ASSUME moves = 0, NEW row \in rows', row.kind = "dividend"
               PROVE  \E G \in SUBSET Group(row) : SumOf(row, G)'
    BY <1>7 DEF SumsInv
  <2>1. CASE row \in new
    <3>1. PICK r \in parsed : row = RowOf(GroupIn(r))
      BY <1>4, <2>1
    <3>2. KeyOf(row) = Key(r)
      BY <1>5, <3>1
    <3>3. Kind[r] = "dividend"
      BY <3>2 DEF KeyOf, Key
    <3>4. row.amount = AmountOf(GroupIn(r))
      BY <1>5, <3>1, <3>3
    <3>5. Group(row) = GroupIn(r)
      <4>1. ASSUME NEW q \in Records, Key(q) = Key(r), since[q] # Never  PROVE q \in parsed
        <5>1. Kind[q] = Kind[r] /\ notice[q].ex = notice[r].ex /\ Company[q] = Company[r]
          BY <4>1 DEF Key
        <5> QED  BY <1>2, <1>3, <4>1, <5>1
      <4> QED  BY <1>2, <1>3, <3>2, <4>1 DEF Group
    <3> HIDE DEF GroupIn
    <3>6. PICK G : G = Group(row)
      OBVIOUS
    <3>7. SumOf(row, G)'
      BY <1>7, <3>4, <3>5, <3>6 DEF SumOf
    <3> QED  BY <3>6, <3>7
  <2>2. CASE row \in rows /\ \A n \in new : KeyOf(n) # KeyOf(row)
    <3>1. PICK G \in SUBSET Group(row) : SumOf(row, G)
      BY <1>0, <2>2 DEF SumsInv
    <3>2. ASSUME NEW r \in Group(row) \ G  PROVE Waits(r)'
      <4>1. r \in Records /\ since[r] # Never /\ Key(r) = KeyOf(row) /\ Waits(r)
        BY <3>1, <3>2 DEF Group, SumOf
      <4>2. Kind[r] # "none"
        BY <4>1 DEF Key, KeyOf
      <4>3. r \notin parsed
        BY <1>4, <1>5, <2>2, <4>1
      <4> QED  BY <1>3, <4>1, <4>2, <4>3
    <3>3. SumOf(row, G)'
      BY <1>7, <3>1, <3>2 DEF SumOf
    <3> QED  BY <3>3
  <2> QED  BY <1>1, <2>1, <2>2
<1> QED  BY <1>8, <1>9, <1>10 DEF Inv

-----------------------------------------------------------------------------
(* All steps.                                                              *)

LEMMA TypeInit == Init => TypeInv
<1> SUFFICES ASSUME Init PROVE TypeInv
  OBVIOUS
<1>1. /\ today \in Days /\ loaded \in BOOLEAN /\ missed \in 0..MaxMissed /\ moves \in Nat
      /\ Never \in Nat
  <2>1. LastDay \in Nat /\ MaxMissed \in Nat
    BY CorporateActionsConstants DEF CorporateActionsConstants
  <2>2. today = 0 /\ missed = 0 /\ moves = 0 /\ loaded \in BOOLEAN
    BY DEF Init
  <2>3. 0 \in Days /\ 0 \in 0..MaxMissed /\ Never \in Nat
    BY <2>1 DEF Days, Never
  <2> QED  BY <2>2, <2>3
<1>2. notice \in [Records -> Notices]
  <2>1. \A r \in Records : FirstEx[r] \in Days
    BY CorporateActionsConstants DEF CorporateActionsConstants
  <2>2. \A r \in Records : [text |-> "none", ex |-> FirstEx[r]] \in Notices
    BY <2>1 DEF Notices
  <2> QED  BY <2>2 DEF Init
<1>3. since \in [Records -> Nat]
  BY <1>1 DEF Init
<1> QED  BY <1>1, <1>2, <1>3 DEF TypeInv

LEMMA TypeStep == TypeInv /\ SinceInv /\ [Next]_vars => TypeInv'
<1> SUFFICES ASSUME TypeInv, SinceInv, [Next]_vars PROVE TypeInv'
  OBVIOUS
<1>0. LastDay \in Nat /\ MaxMissed \in Nat
  BY Numbers
<1>1. ASSUME Outside, notice' \in [Records -> Notices], moves' \in Nat  PROVE TypeInv'
  <2>1. since' \in [Records -> Nat]
    <3>1. since' = [r \in Records |-> since'[r]]
      BY <1>1 DEF Outside, Since
    <3>2. \A r \in Records : since'[r] \in Nat
      BY <1>1, OutsideSince
    <3> QED  BY <3>1, <3>2
  <2> QED  BY <1>1, <2>1 DEF TypeInv, Outside
<1>2. ASSUME NEW c, Lists(c)  PROVE TypeInv'
  BY <1>1, <1>2 DEF Lists, Outside, TypeInv
<1>3. ASSUME NEW r \in Records, NEW text \in {"garbled", "clear"}, Announces(r, text)
      PROVE  TypeInv'
  <2>1. notice' \in [Records -> Notices]
    BY <1>3 DEF Announces, TypeInv, Notices
  <2> QED  BY <1>1, <1>3, <2>1 DEF Announces, Outside, TypeInv
<1>4. ASSUME NEW r \in Records, Rewords(r)  PROVE TypeInv'
  <2>1. notice' \in [Records -> Notices]
    BY <1>4 DEF Rewords, TypeInv, Notices
  <2> QED  BY <1>1, <1>4, <2>1 DEF Rewords, Outside, TypeInv
<1>5. ASSUME NEW r \in Records, NEW d \in Days, Moves(r, d)  PROVE TypeInv'
  <2>1. notice' \in [Records -> Notices] /\ moves' \in Nat
    BY <1>5 DEF Moves, TypeInv, Notices
  <2> QED  BY <1>1, <1>5, <2>1 DEF Moves, Outside, TypeInv
<1>6. CASE NextDay
  <2>1. today' = today + 1 /\ today \in 0..LastDay /\ today < LastDay
    BY <1>6 DEF NextDay, TypeInv, Days
  <2>2. today' \in Days
    BY <1>0, <2>1 DEF Days
  <2> QED  BY <1>6, <2>2 DEF NextDay, TypeInv
<1>7. CASE JobLoads
  BY <1>0, <1>7 DEF JobLoads, TypeInv
<1>8. CASE JobFails
  BY <1>0, <1>8 DEF JobFails, TypeInv
<1>9. ASSUME NEW window \in Windows, NEW wanted \in SUBSET Companies, ApiLoads(window, wanted)
      PROVE  TypeInv'
  BY <1>9 DEF ApiLoads, TypeInv
<1>10. CASE UNCHANGED vars
  BY <1>10 DEF vars, TypeInv
<1> QED  BY <1>2, <1>3, <1>4, <1>5, <1>6, <1>7, <1>8, <1>9, <1>10 DEF Next

(* The steps that leave records, keys and rows alone. *)
LEMMA DayKeeps ==
  ASSUME Inv, TypeInv', UNCHANGED <<known, notice, since, moves, rows>>, Reached <= Reached',
         \A r \in Records : Waits(r) => Waits(r)'
  PROVE  Inv'
<1>0. TypeInv /\ SinceInv /\ KeysInv /\ SumsInv
  BY DEF Inv
<1>1. \A row : KeyOf(row)' = KeyOf(row) /\ Group(row)' = Group(row)
  BY DEF KeyOf, Group, Key
<1>2. \A r \in Records : Key(r)' = Key(r)
  BY DEF Key
<1>3. SinceInv'
  <2>1. Reached \in Int /\ Reached' \in Int /\ \A r \in Records : since[r] \in Nat
    BY <1>0, CorporateActionsConstants DEF TypeInv, CorporateActionsConstants, Days, Reached
  <2> SUFFICES ASSUME NEW r \in Records
               PROVE  /\ since[r] # Never <=> Loadable(r, notice', known')
                      /\ since[r] # Never => since[r] <= Reached' + 1
    BY DEF SinceInv
  <2>2. /\ since[r] # Never <=> Loadable(r, notice, known)
        /\ since[r] # Never => since[r] <= Reached + 1
    BY <1>0 DEF SinceInv
  <2> QED  BY <2>1, <2>2 DEF Loadable
<1>4. KeysInv'
  BY <1>0, <1>1, <1>2 DEF KeysInv
<1>5. SumsInv'
  <2> SUFFICES ASSUME moves = 0, NEW row \in rows, row.kind = "dividend"
               PROVE  \E G \in SUBSET Group(row) : SumOf(row, G)'
    BY <1>1 DEF SumsInv
  <2>1. PICK G \in SUBSET Group(row) : SumOf(row, G)
    BY <1>0 DEF SumsInv
  <2>2. \A r \in Group(row) \ G : Waits(r)'
    BY <2>1 DEF SumOf, Group
  <2>3. SumOf(row, G)'
    BY <1>1, <2>1, <2>2 DEF SumOf
  <2> QED  BY <2>3
<1> QED  BY <1>3, <1>4, <1>5 DEF Inv

LEMMA InvAlways == Spec => []Inv
<1>1. Init => Inv
  <2> SUFFICES ASSUME Init PROVE Inv
    OBVIOUS
  <2>1. TypeInv
    BY TypeInit
  <2>2. SinceInv /\ KeysInv /\ SumsInv
    BY DEF Init, SinceInv, KeysInv, SumsInv, Loadable
  <2> QED  BY <2>1, <2>2 DEF Inv
<1>2. Inv /\ [Next]_vars => Inv'
  <2> SUFFICES ASSUME Inv, [Next]_vars PROVE Inv'
    OBVIOUS
  <2>0. TypeInv /\ SinceInv /\ TypeInv'
    BY TypeStep DEF Inv
  <2>1. today \in Nat /\ missed \in Nat /\ Reached \in Int
    BY <2>0, Numbers
  <2>2. ASSUME NEW c, Lists(c)  PROVE Inv'
    <3>1. Outside /\ moves' = moves /\ notice' = notice
      BY <2>2 DEF Lists, Outside
    <3>2. ASSUME NEW r \in Records, since[r] # Never  PROVE since'[r] = since[r]
      <4>1. Loadable(r, notice, known) /\ known \subseteq known'
        BY <2>0, <2>2, <3>2 DEF SinceInv, Lists
      <4> QED  BY <3>1, <3>2, <4>1 DEF Outside, Since, Loadable
    <3> QED  BY <2>0, <3>1, <3>2, OutsideKeeps
  <2>3. ASSUME NEW r \in Records, NEW text \in {"garbled", "clear"}, Announces(r, text)
        PROVE  Inv'
    <3>1. Outside /\ moves' = moves /\ known' = known
      BY <2>3 DEF Announces, Outside
    <3>2. notice[r].text = "none" /\ notice' = [notice EXCEPT ![r].text = text]
      BY <2>3 DEF Announces
    <3>3. \A q \in Records : notice'[q].ex = notice[q].ex /\ (q # r => notice'[q] = notice[q])
      BY <2>0, <3>2 DEF TypeInv, Notices
    <3>4. ASSUME NEW q \in Records, since[q] # Never
          PROVE  since'[q] = since[q] /\ notice'[q] = notice[q]
      <4>1. notice[q].text = "clear" /\ Loadable(q, notice, known)
        BY <2>0, <3>4 DEF SinceInv, Loadable
      <4>2. notice'[q] = notice[q]
        BY <3>2, <3>3, <4>1
      <4> QED  BY <3>1, <3>4, <4>1, <4>2 DEF Outside, Since, Loadable
    <3> QED  BY <2>0, <3>1, <3>3, <3>4, OutsideKeeps
  <2>4. ASSUME NEW r \in Records, Rewords(r)  PROVE Inv'
    <3>1. Outside /\ moves' = moves /\ known' = known
      BY <2>4 DEF Rewords, Outside
    <3>2. notice[r].text = "garbled" /\ notice' = [notice EXCEPT ![r].text = "clear"]
      BY <2>4 DEF Rewords
    <3>3. \A q \in Records : notice'[q].ex = notice[q].ex /\ (q # r => notice'[q] = notice[q])
      BY <2>0, <3>2 DEF TypeInv, Notices
    <3>4. ASSUME NEW q \in Records, since[q] # Never
          PROVE  since'[q] = since[q] /\ notice'[q] = notice[q]
      <4>1. notice[q].text = "clear" /\ Loadable(q, notice, known)
        BY <2>0, <3>4 DEF SinceInv, Loadable
      <4>2. notice'[q] = notice[q]
        BY <3>2, <3>3, <4>1
      <4> QED  BY <3>1, <3>4, <4>1, <4>2 DEF Outside, Since, Loadable
    <3> QED  BY <2>0, <3>1, <3>3, <3>4, OutsideKeeps
  <2>5. ASSUME NEW r \in Records, NEW d \in Days, Moves(r, d)  PROVE Inv'
    <3>1. Outside /\ moves' = moves + 1 /\ moves \in Nat
      BY <2>0, <2>5 DEF Moves, Outside, TypeInv
    <3> QED  BY <2>0, <3>1, OutsideKeeps
  <2>6. CASE NextDay
    <3>1. Reached' = Reached /\ missed' = missed /\ UNCHANGED <<known, notice, since, moves, rows>>
      BY <2>1, <2>6 DEF NextDay, Reached
    <3> QED  BY <2>0, <2>1, <3>1, SameWaits, DayKeeps
  <2>7. CASE JobLoads
    <3>1. /\ ~loaded /\ loaded' /\ today' = today /\ UNCHANGED <<known, notice, since, moves>>
          /\ Load(From(today), today + Ahead, Companies)
      BY <2>7 DEF JobLoads
    <3>2. Reached <= Reached'
      BY <2>1, <3>1 DEF Reached
    <3>3. \A r \in Records : Company[r] \in Companies
      BY DEF Companies
    <3>4. \A r \in Records :
            Waits(r) /\ (notice[r].ex \notin From(today)..(today + Ahead) \/ Company[r] \notin Companies)
            => Waits(r)'
      BY <2>0, <3>1, <3>3, LoadWaits
    <3> QED  BY <2>0, <3>1, <3>2, <3>4, LoadKeeps
  <2>8. CASE JobFails
    <3>1. /\ ~loaded /\ loaded' /\ today' = today /\ missed' = missed + 1
          /\ UNCHANGED <<known, notice, since, moves, rows>>
      BY <2>8 DEF JobFails
    <3>2. Reached <= Reached'
      BY <2>1, <3>1 DEF Reached
    <3> QED  BY <2>0, <3>1, <3>2, FailureWaits, DayKeeps
  <2>9. ASSUME NEW window \in Windows, NEW wanted \in SUBSET Companies, ApiLoads(window, wanted)
        PROVE  Inv'
    <3>1. /\ UNCHANGED <<today, loaded, missed, known, notice, since, moves>>
          /\ Load(window[1], window[2], wanted)
      BY <2>9 DEF ApiLoads
    <3>2. Reached' = Reached
      BY <3>1 DEF Reached
    <3> QED  BY <2>0, <2>1, <3>1, <3>2, SameWaits, LoadKeeps
  <2>10. CASE UNCHANGED vars
    <3>1. Reached' = Reached /\ missed' = missed /\ UNCHANGED <<known, notice, since, moves, rows>>
      BY <2>10 DEF vars, Reached
    <3> QED  BY <2>0, <2>1, <3>1, SameWaits, DayKeeps
  <2> QED  BY <2>2, <2>3, <2>4, <2>5, <2>6, <2>7, <2>8, <2>9, <2>10 DEF Next
<1> QED  BY <1>1, <1>2, PTL DEF Spec

-----------------------------------------------------------------------------
(* A readable action that was in the job's window on more days than NSE     *)
(* refuses in a row is in the table (_step_actions, load_actions), for any  *)
(* records, window and number of refusals, however often it was moved,      *)
(* reworded or listed late.                                                 *)
THEOREM NothingSlips == Spec => []NoneSlipsThrough
<1>1. Inv => NoneSlipsThrough
  <2> SUFFICES ASSUME Inv, NEW r \in Records, Due(r)
               PROVE  \E row \in rows : KeyOf(row) = Key(r)
    BY DEF NoneSlipsThrough
  <2>1. TypeInv /\ KeysInv
    BY DEF Inv
  <2>2. ~Waits(r)
    BY <2>1, WaitsNotDue
  <2>3. since[r] # Never /\ Kind[r] # "none"
    BY DEF Due
  <2> QED  BY <2>1, <2>2, <2>3 DEF KeysInv
<1> QED  BY <1>1, InvAlways, PTL

(* All dividends of a day are in the amount that goes ex, however they were *)
(* announced and loaded (load_actions sums them), for any records.          *)
THEOREM DividendsAddUp == Spec => []TotalsGoEx
<1>1. Inv => TotalsGoEx
  <2> SUFFICES ASSUME Inv, NEW row \in rows, row.kind = "dividend", moves = 0,
                      \A r \in Group(row) : Due(r)
               PROVE  row.amount = AmountOf(Group(row))
    BY DEF TotalsGoEx, Group
  <2>1. TypeInv /\ SumsInv
    BY DEF Inv
  <2>2. PICK G \in SUBSET Group(row) : SumOf(row, G)
    BY <2>1 DEF SumsInv
  <2>3. \A r \in Group(row) : ~Waits(r)
    BY <2>1, WaitsNotDue DEF Group
  <2>4. G = Group(row)
    BY <2>2, <2>3 DEF SumOf
  <2> QED  BY <2>2, <2>4 DEF SumOf
<1> QED  BY <1>1, InvAlways, PTL

-----------------------------------------------------------------------------
(* The factors of actions and dividends.                                   *)
Factors == [num : Nat \ {0}, den : Nat \ {0}]

Some(A) == CHOOSE x \in A : TRUE

LEMMA SomeIn == \A A : A # {} => Some(A) \in A
BY DEF Some

LEMMA SubsetInduction ==
  ASSUME NEW S, IsFiniteSet(S), NEW T,
         \A A \in SUBSET S : (\A B \in SUBSET A : B # A => B \in T) => A \in T
  PROVE  SUBSET S \subseteq T
<1> DEFINE Missing == {A \in SUBSET S : A \notin T}
<1>1. SUFFICES ASSUME Missing # {} PROVE FALSE
  OBVIOUS
<1>2. Missing \subseteq FiniteSubsetsOf(S)
  BY FS_Subset DEF FiniteSubsetsOf
<1>3. IsWellFoundedOn(StrictSubsetOrdering(S), FiniteSubsetsOf(S))
  BY FS_StrictSubsetOrderingWellFounded
<1>4. PICK A \in Missing : \A B \in Missing : <<B, A>> \notin StrictSubsetOrdering(S)
  <2> HIDE DEF Missing
  <2> QED  BY <1>1, <1>2, <1>3, WFMin
<1>5. \A B \in SUBSET A : B # A => B \in T
  BY <1>4 DEF StrictSubsetOrdering
<1> QED  BY <1>4, <1>5

-----------------------------------------------------------------------------
(* A fold over the subsets of a finite set: g[x, v] adds x to the value v. *)

Folds(p, S, base, g) ==
  \A A \in SUBSET S :
    p[A] = IF A = {} THEN base ELSE g[<<Some(A), p[A \ {Some(A)}]>>]

LEMMA FoldUnique ==
  ASSUME NEW S, IsFiniteSet(S), NEW base, NEW g, NEW p, NEW q,
         Folds(p, S, base, g), Folds(q, S, base, g)
  PROVE  p[S] = q[S]
<1> DEFINE T == {A \in SUBSET S : p[A] = q[A]}
<1>1. ASSUME NEW A \in SUBSET S, \A B \in SUBSET A : B # A => B \in T
      PROVE  A \in T
  <2>1. CASE A = {}
    BY <2>1 DEF Folds
  <2>2. CASE A # {}
    <3>1. A \ {Some(A)} \in T
      BY <1>1, <2>2, SomeIn
    <3>2. p[A] = g[<<Some(A), p[A \ {Some(A)}]>>] /\ q[A] = g[<<Some(A), q[A \ {Some(A)}]>>]
      BY <2>2 DEF Folds
    <3> QED  BY <3>1, <3>2
  <2> QED  BY <2>1, <2>2
<1>2. SUBSET S \subseteq T
  <2> HIDE DEF T
  <2> QED  BY <1>1, SubsetInduction
<1> QED  BY <1>2

LEMMA FoldExists ==
  ASSUME NEW S, IsFiniteSet(S), NEW V, NEW base \in V, NEW g \in [S \X V -> V]
  PROVE  \E p \in [SUBSET S -> V] : Folds(p, S, base, g)
<1> DEFINE F == [SUBSET S -> V]
           T == {A \in SUBSET S : \E p \in F : Folds(p, A, base, g)}
<1>1. ASSUME NEW A \in SUBSET S, \A B \in SUBSET A : B # A => B \in T
      PROVE  A \in T
  <2> DEFINE G(B) == CHOOSE p \in F : Folds(p, B, base, g)
             Rest(X) == X \ {Some(X)}
             h == [X \in SUBSET S |->
                     IF X # {} /\ X \subseteq A THEN g[<<Some(X), G(Rest(X))[Rest(X)]>>] ELSE base]
  <2>1. \A X \in SUBSET A : X # {} => Rest(X) \in SUBSET A /\ Rest(X) # A /\ Some(X) \in S
    BY SomeIn
  <2>2. \A B \in SUBSET A : B # A => G(B) \in F /\ Folds(G(B), B, base, g)
    BY <1>1
  <2>3. h \in F
    <3> SUFFICES ASSUME NEW X \in SUBSET S PROVE h[X] \in V
      OBVIOUS
    <3>1. CASE X # {} /\ X \subseteq A
      <4>1. G(Rest(X)) \in F
        BY <3>1, <2>1, <2>2
      <4>2. G(Rest(X))[Rest(X)] \in V
        <5> HIDE DEF G
        <5> QED  BY <4>1, <3>1, <2>1
      <4>3. h[X] = g[<<Some(X), G(Rest(X))[Rest(X)]>>]
        BY <3>1
      <4>4. Some(X) \in S
        BY <2>1, <3>1
      <4> HIDE DEF h, G, Rest
      <4> QED  BY <4>2, <4>3, <4>4
    <3>2. CASE ~(X # {} /\ X \subseteq A)
      BY <3>2
    <3> QED  BY <3>1, <3>2
  <2>4. \A B \in SUBSET A : B # A => h[B] = G(B)[B]
    <3> SUFFICES ASSUME NEW B \in SUBSET A, B # A PROVE h[B] = G(B)[B]
      OBVIOUS
    <3>1. Folds(G(B), B, base, g)
      BY <2>2
    <3>2. CASE B = {}
      <4> HIDE DEF G
      <4>1. G(B)[B] = base  BY <3>1, <3>2 DEF Folds
      <4> QED  BY <4>1, <3>2
    <3>3. CASE B # {}
      <4>1. Rest(B) \in SUBSET B /\ Rest(B) \in SUBSET A /\ Rest(B) # A
        BY <3>3, <2>1
      <4>2. Folds(G(Rest(B)), Rest(B), base, g)
        BY <4>1, <2>2
      <4>3. Folds(G(B), Rest(B), base, g)
        <5> HIDE DEF G
        <5> QED  BY <3>1, <4>1 DEF Folds
      <4>4. G(B)[Rest(B)] = G(Rest(B))[Rest(B)]
        <5>1. IsFiniteSet(Rest(B))
          BY <4>1, FS_Subset
        <5> HIDE DEF G, Rest
        <5> QED  BY <4>2, <4>3, <5>1, FoldUnique
      <4>5. G(B)[B] = g[<<Some(B), G(B)[Rest(B)]>>]
        <5> HIDE DEF G
        <5> QED  BY <3>1, <3>3 DEF Folds
      <4>6. h[B] = g[<<Some(B), G(Rest(B))[Rest(B)]>>]
        BY <3>3
      <4> QED  BY <4>4, <4>5, <4>6
    <3> QED  BY <3>2, <3>3
  <2>5. Folds(h, A, base, g)
    <3> SUFFICES ASSUME NEW X \in SUBSET A
                 PROVE  h[X] = IF X = {} THEN base ELSE g[<<Some(X), h[X \ {Some(X)}]>>]
      BY DEF Folds
    <3>1. CASE X = {}
      BY <3>1
    <3>2. CASE X # {}
      <4>1. h[Rest(X)] = G(Rest(X))[Rest(X)]
        <5> HIDE DEF h, G
        <5> QED  BY <3>2, <2>1, <2>4
      <4>2. h[X] = g[<<Some(X), G(Rest(X))[Rest(X)]>>]
        BY <3>2
      <4> QED  BY <4>1, <4>2, <3>2
    <3> QED  BY <3>1, <3>2
  <2> QED
    <3> HIDE DEF h
    <3> QED  BY <2>3, <2>5
<1>2. SUBSET S \subseteq T
  <2> HIDE DEF T
  <2> QED  BY <1>1, SubsetInduction
<1> QED  BY <1>2

-----------------------------------------------------------------------------
(* Products of factors.                                                    *)

LEMMA Positive ==
  ASSUME NEW a \in Nat \ {0}, NEW b \in Nat \ {0}
  PROVE  a * b \in Nat \ {0}
BY SMT

LEMMA ProductTypes ==
  ASSUME NEW f \in Factors, NEW g \in Factors
  PROVE  Product(f, g) \in Factors
<1>1. f.num * g.num \in Nat \ {0} /\ f.den * g.den \in Nat \ {0}
  BY Positive DEF Factors
<1> QED  BY <1>1 DEF Product, Factors

LEMMA OneIs == One \in Factors /\ \A f \in Factors : Product(f, One) = f /\ Product(One, f) = f
<1>1. ASSUME NEW f \in Factors
      PROVE  f = [num |-> f.num, den |-> f.den] /\ f.num \in Int /\ f.den \in Int
  BY DEF Factors
<1> QED  BY <1>1 DEF One, Factors, Product

LEMMA ProductSwaps ==
  ASSUME NEW f \in Factors, NEW g \in Factors, NEW h \in Factors
  PROVE  /\ Product(f, Product(g, h)) = Product(g, Product(f, h))
         /\ Product(Product(f, g), h) = Product(f, Product(g, h))
<1>1. /\ f.num \in Int /\ g.num \in Int /\ h.num \in Int
      /\ f.den \in Int /\ g.den \in Int /\ h.den \in Int
  BY DEF Factors
<1>2. /\ f.num * (g.num * h.num) = g.num * (f.num * h.num)
      /\ (f.num * g.num) * h.num = f.num * (g.num * h.num)
  BY <1>1, SMT
<1>3. /\ f.den * (g.den * h.den) = g.den * (f.den * h.den)
      /\ (f.den * g.den) * h.den = f.den * (g.den * h.den)
  BY <1>1, SMT
<1> QED  BY <1>2, <1>3 DEF Product

(* p multiplies f[x] over the subsets of S. *)
Multiplies(p, f, S) ==
  \A A \in SUBSET S :
    p[A] = IF A = {} THEN One ELSE Product(f[Some(A)], p[A \ {Some(A)}])

LEMMA MultipliesExists ==
  ASSUME NEW S, IsFiniteSet(S), NEW f, \A x \in S : f[x] \in Factors
  PROVE  \E p \in [SUBSET S -> Factors] : Multiplies(p, f, S)
<1> DEFINE g == [y \in S \X Factors |-> Product(f[y[1]], y[2])]
<1>1. g \in [S \X Factors -> Factors]
  BY ProductTypes
<1>2. \A x \in S : \A v \in Factors : g[<<x, v>>] = Product(f[x], v)
  OBVIOUS
<1> HIDE DEF g
<1>3. PICK p \in [SUBSET S -> Factors] : Folds(p, S, One, g)
  BY <1>1, OneIs, FoldExists
<1>4. Multiplies(p, f, S)
  <2> SUFFICES ASSUME NEW A \in SUBSET S
               PROVE  p[A] = IF A = {} THEN One ELSE Product(f[Some(A)], p[A \ {Some(A)}])
    BY DEF Multiplies
  <2>1. A # {} => Some(A) \in S /\ p[A \ {Some(A)}] \in Factors
    BY SomeIn
  <2> QED  BY <1>2, <1>3, <2>1 DEF Folds
<1> QED  BY <1>3, <1>4

(* Only the values count. *)
LEMMA MultipliesUnique ==
  ASSUME NEW S, IsFiniteSet(S), NEW f, NEW g, \A x \in S : f[x] = g[x],
         NEW p, NEW q, Multiplies(p, f, S), Multiplies(q, g, S)
  PROVE  p[S] = q[S]
<1> DEFINE T == {A \in SUBSET S : p[A] = q[A]}
<1>1. ASSUME NEW A \in SUBSET S, \A B \in SUBSET A : B # A => B \in T
      PROVE  A \in T
  <2>1. CASE A = {}
    BY <2>1 DEF Multiplies
  <2>2. CASE A # {}
    <3>1. A \ {Some(A)} \in T /\ Some(A) \in S
      BY <1>1, <2>2, SomeIn
    <3>2. p[A] = Product(f[Some(A)], p[A \ {Some(A)}]) /\ q[A] = Product(g[Some(A)], q[A \ {Some(A)}])
      BY <2>2 DEF Multiplies
    <3> QED  BY <3>1, <3>2
  <2> QED  BY <2>1, <2>2
<1>2. SUBSET S \subseteq T
  <2> HIDE DEF T
  <2> QED  BY <1>1, SubsetInduction
<1> QED  BY <1>2

LEMMA ProductOfIs ==
  ASSUME NEW S, IsFiniteSet(S), NEW f, DOMAIN f = S, \A x \in S : f[x] \in Factors,
         NEW p, Multiplies(p, f, S)
  PROVE  ProductOf(f) = p[S]
<1>1. PICK r \in [SUBSET S -> Factors] : Multiplies(r, f, S)
  BY MultipliesExists
<1> DEFINE Is(q) == q = [A \in SUBSET S |->
                       IF A = {} THEN One
                       ELSE LET x == CHOOSE x \in A : TRUE IN Product(f[x], q[A \ {x}])]
           q == CHOOSE q : Is(q)
<1>2. Is(r)
  <2>1. \A A \in SUBSET S : r[A] =
             IF A = {} THEN One
             ELSE LET x == CHOOSE x \in A : TRUE IN Product(f[x], r[A \ {x}])
    BY <1>1 DEF Multiplies, Some
  <2> QED  BY <2>1
<1>3. ProductOf(f) = q[S]
  BY DEF ProductOf, FoldFunction, FoldFunctionOnSet, MapThenFoldSet
<1>4. Is(q)
  <2> HIDE DEF Is
  <2> QED  BY <1>2
<1>5. Multiplies(q, f, S)
  <2> HIDE DEF q
  <2>1. \A A \in SUBSET S : q[A] =
             IF A = {} THEN One
             ELSE LET x == CHOOSE x \in A : TRUE IN Product(f[x], q[A \ {x}])
    BY <1>4
  <2> QED  BY <2>1 DEF Multiplies, Some
<1> HIDE DEF q, Is
<1> QED  BY <1>3, <1>5, MultipliesUnique

(* Which factor is multiplied last does not matter. *)
LEMMA MultipliesAnyLast ==
  ASSUME NEW S, IsFiniteSet(S), NEW f, \A x \in S : f[x] \in Factors,
         NEW p \in [SUBSET S -> Factors], Multiplies(p, f, S), NEW x \in S
  PROVE  p[S] = Product(f[x], p[S \ {x}])
<1> DEFINE T == {A \in SUBSET S : \A y \in A : p[A] = Product(f[y], p[A \ {y}])}
<1>1. ASSUME NEW A \in SUBSET S, \A B \in SUBSET A : B # A => B \in T
      PROVE  A \in T
  <2>1. SUFFICES ASSUME NEW y \in A PROVE p[A] = Product(f[y], p[A \ {y}])
    OBVIOUS
  <2> DEFINE z == Some(A)
  <2>2. z \in A /\ p[A] = Product(f[z], p[A \ {z}])
    BY SomeIn DEF Multiplies
  <2>3. CASE y = z
    BY <2>2, <2>3
  <2>4. CASE y # z
    <3> HIDE DEF z
    <3>1. A \ {z} \in T /\ A \ {y} \in T
      <4> HIDE DEF T
      <4>1. A \ {z} \in SUBSET A /\ A \ {z} # A /\ A \ {y} \in SUBSET A /\ A \ {y} # A
        BY <2>2
      <4> QED  BY <1>1, <4>1
    <3>2. p[A \ {z}] = Product(f[y], p[(A \ {z}) \ {y}])
      BY <3>1, <2>4
    <3>3. p[A \ {y}] = Product(f[z], p[(A \ {y}) \ {z}])
      BY <3>1, <2>4, <2>2
    <3>4. (A \ {z}) \ {y} = (A \ {y}) \ {z}
      OBVIOUS
    <3>5. f[y] \in Factors /\ f[z] \in Factors /\ p[(A \ {y}) \ {z}] \in Factors
      BY <2>2
    <3>6. Product(f[z], Product(f[y], p[(A \ {y}) \ {z}])) = Product(f[y], Product(f[z], p[(A \ {y}) \ {z}]))
      BY <3>5, ProductSwaps
    <3> QED  BY <2>2, <3>2, <3>3, <3>4, <3>6
  <2> QED  BY <2>3, <2>4
<1>2. SUBSET S \subseteq T
  <2> HIDE DEF T
  <2> QED  BY <1>1, SubsetInduction
<1> QED  BY <1>2

(* The product of f over A. *)
Over(f, A) == ProductOf([x \in A |-> f[x]])

LEMMA OverFacts ==
  ASSUME NEW S, IsFiniteSet(S), NEW f, \A x \in S : f[x] \in Factors
  PROVE  /\ Over(f, S) \in Factors
         /\ Over(f, {}) = One
         /\ \A x \in S : Over(f, S) = Product(f[x], Over(f, S \ {x}))
<1>1. PICK p \in [SUBSET S -> Factors] : Multiplies(p, f, S)
  BY MultipliesExists
<1>2. ASSUME NEW A \in SUBSET S  PROVE Over(f, A) = p[A]
  <2> DEFINE g == [x \in A |-> f[x]]
  <2>1. DOMAIN g = A /\ (\A x \in A : g[x] \in Factors) /\ IsFiniteSet(A)
    BY FS_Subset
  <2>2. \A x \in A : g[x] = f[x]
    OBVIOUS
  <2>3. ASSUME NEW B \in SUBSET A
        PROVE  p[B] = IF B = {} THEN One ELSE Product(g[Some(B)], p[B \ {Some(B)}])
    <3>1. B # {} => Some(B) \in B
      BY SomeIn
    <3>2. p[B] = IF B = {} THEN One ELSE Product(f[Some(B)], p[B \ {Some(B)}])
      BY <1>1 DEF Multiplies
    <3> HIDE DEF g
    <3> QED  BY <3>1, <3>2, <2>2
  <2> HIDE DEF g
  <2>4. Multiplies(p, g, A)
    BY <2>3 DEF Multiplies
  <2>5. ProductOf(g) = p[A]
    BY <2>1, <2>4, ProductOfIs
  <2> QED  BY <2>5 DEF Over, g
<1>3. p[{}] = One
  <2>1. {} \in SUBSET S
    OBVIOUS
  <2> QED  BY <1>1, <2>1 DEF Multiplies
<1>4. ASSUME NEW x \in S  PROVE p[S] = Product(f[x], p[S \ {x}])
  BY <1>1, MultipliesAnyLast
<1>5. S \in SUBSET S /\ {} \in SUBSET S /\ \A x \in S : S \ {x} \in SUBSET S
  OBVIOUS
<1> QED  BY <1>1, <1>2, <1>3, <1>4, <1>5

LEMMA OverSubset ==
  ASSUME NEW S, IsFiniteSet(S), NEW f, \A x \in S : f[x] \in Factors, NEW A \in SUBSET S
  PROVE  /\ Over(f, A) \in Factors
         /\ Over(f, {}) = One
         /\ \A x \in A : Over(f, A) = Product(f[x], Over(f, A \ {x}))
<1>1. IsFiniteSet(A) /\ \A x \in A : f[x] \in Factors
  BY FS_Subset
<1> QED  BY <1>1, OverFacts

LEMMA OverUnion ==
  ASSUME NEW S, IsFiniteSet(S), NEW f, \A x \in S : f[x] \in Factors,
         NEW B \in SUBSET S, NEW D \in SUBSET S, D \cap B = {}
  PROVE  Over(f, D \cup B) = Product(Over(f, D), Over(f, B))
<1> DEFINE T == {A \in SUBSET D : Over(f, A \cup B) = Product(Over(f, A), Over(f, B))}
<1>1. ASSUME NEW A \in SUBSET D, \A C \in SUBSET A : C # A => C \in T
      PROVE  A \in T
  <2>1. SUFFICES Over(f, A \cup B) = Product(Over(f, A), Over(f, B))
    OBVIOUS
  <2>2. Over(f, B) \in Factors /\ Over(f, {}) = One
    BY OverSubset
  <2>3. CASE A = {}
    BY <2>2, <2>3, OneIs
  <2>4. CASE A # {}
    <3>1. PICK x \in A : TRUE
      BY <2>4
    <3>2. A \ {x} \in T
      BY <1>1
    <3>3. Over(f, A) = Product(f[x], Over(f, A \ {x})) /\ A \ {x} \in SUBSET S
      <4>1. A \in SUBSET S
        OBVIOUS
      <4> QED  BY <4>1, OverSubset
    <3>4. Over(f, A \cup B) = Product(f[x], Over(f, (A \cup B) \ {x}))
      <4>1. PICK C : C = A \cup B
        OBVIOUS
      <4>2. C \in SUBSET S /\ x \in C
        BY <4>1
      <4>3. Over(f, C) = Product(f[x], Over(f, C \ {x}))
        BY <4>2, OverSubset
      <4> QED  BY <4>1, <4>3
    <3>5. (A \cup B) \ {x} = (A \ {x}) \cup B
      OBVIOUS
    <3>6. f[x] \in Factors /\ Over(f, A \ {x}) \in Factors
      BY <3>3, OverSubset
    <3>7. Product(Product(f[x], Over(f, A \ {x})), Over(f, B)) = Product(f[x], Product(Over(f, A \ {x}), Over(f, B)))
      BY <2>2, <3>6, ProductSwaps
    <3> QED  BY <3>2, <3>3, <3>4, <3>5, <3>7
  <2> QED  BY <2>3, <2>4
<1>2. SUBSET D \subseteq T
  <2> HIDE DEF T
  <2>1. IsFiniteSet(D)
    BY FS_Subset
  <2> QED  BY <1>1, <2>1, SubsetInduction
<1> QED  BY <1>2

(* The same factors under other names. *)
Image(h, A) == {h[x] : x \in A}

LEMMA OverRenamed ==
  ASSUME NEW S, IsFiniteSet(S), NEW f, \A x \in S : f[x] \in Factors,
         NEW h, NEW g, \A x \in S : g[h[x]] = f[x],
         \A x, y \in S : h[x] = h[y] => x = y
  PROVE  Over(g, Image(h, S)) = Over(f, S)
<1> DEFINE T == {A \in SUBSET S : Over(g, Image(h, A)) = Over(f, A)}
<1>1. IsFiniteSet(Image(h, S)) /\ \A z \in Image(h, S) : g[z] \in Factors
  <2> DEFINE name == [x \in S |-> h[x]]
  <2>1. name \in Surjection(S, Image(h, S))
    BY DEF Surjection, Image
  <2> HIDE DEF name
  <2> QED  BY <2>1, FS_Surjection DEF Image
<1>2. ASSUME NEW A \in SUBSET S, \A C \in SUBSET A : C # A => C \in T
      PROVE  A \in T
  <2>1. SUFFICES Over(g, Image(h, A)) = Over(f, A)
    OBVIOUS
  <2>2. CASE A = {}
    <3>1. Image(h, A) = {}
      BY <2>2 DEF Image
    <3>2. Over(g, {}) = One /\ Over(f, {}) = One
      <4>1. {} \in SUBSET S /\ {} \in SUBSET Image(h, S)
        OBVIOUS
      <4> QED  BY <4>1, <1>1, OverSubset
    <3> QED  BY <2>2, <3>1, <3>2
  <2>3. CASE A # {}
    <3>1. PICK x \in A : TRUE
      BY <2>3
    <3>2. A \ {x} \in T
      BY <1>2
    <3>3. Over(f, A) = Product(f[x], Over(f, A \ {x}))
      BY OverSubset
    <3>4. Image(h, A) \in SUBSET Image(h, S) /\ h[x] \in Image(h, A)
      BY DEF Image
    <3>5. Over(g, Image(h, A)) = Product(g[h[x]], Over(g, Image(h, A) \ {h[x]}))
      <4>1. PICK J : J = Image(h, A)
        OBVIOUS
      <4>2. IsFiniteSet(J)
        BY <1>1, <3>4, <4>1, FS_Subset
      <4>3. \A z \in J : g[z] \in Factors
        BY <1>1, <3>4, <4>1
      <4>4. \A z \in J : Over(g, J) = Product(g[z], Over(g, J \ {z}))
        BY <4>2, <4>3, OverFacts
      <4> QED  BY <3>4, <4>1, <4>4
    <3>6. Image(h, A) \ {h[x]} = Image(h, A \ {x})
      BY DEF Image
    <3> QED  BY <3>2, <3>3, <3>5, <3>6
  <2> QED  BY <2>2, <2>3
<1>3. SUBSET S \subseteq T
  <2> HIDE DEF T
  <2> QED  BY <1>2, SubsetInduction
<1> QED  BY <1>3

LEMMA SameProducts ==
  ASSUME NEW a \in Factors, NEW b \in Factors, NEW x \in Factors, NEW y \in Factors,
         Same(a, b), Same(x, y)
  PROVE  Same(Product(a, x), Product(b, y))
<1>1. /\ a.num \in Int /\ b.num \in Int /\ x.num \in Int /\ y.num \in Int
      /\ a.den \in Int /\ b.den \in Int /\ x.den \in Int /\ y.den \in Int
  BY DEF Factors
<1>2. a.num * b.den = b.num * a.den /\ x.num * y.den = y.num * x.den
  BY DEF Same
<1>3. (a.num * x.num) * (b.den * y.den) = (a.num * b.den) * (x.num * y.den)
  BY <1>1, SMT
<1>4. (b.num * y.num) * (a.den * x.den) = (b.num * a.den) * (y.num * x.den)
  BY <1>1, SMT
<1>5. (a.num * x.num) * (b.den * y.den) = (b.num * y.num) * (a.den * x.den)
  BY <1>2, <1>3, <1>4
<1> QED  BY <1>5 DEF Product, Same

LEMMA OverSame ==
  ASSUME NEW S, IsFiniteSet(S), NEW f, NEW g,
         \A x \in S : f[x] \in Factors /\ g[x] \in Factors /\ Same(f[x], g[x])
  PROVE  Same(Over(f, S), Over(g, S))
<1> DEFINE T == {A \in SUBSET S : Same(Over(f, A), Over(g, A))}
<1>1. ASSUME NEW A \in SUBSET S, \A C \in SUBSET A : C # A => C \in T
      PROVE  A \in T
  <2>1. SUFFICES Same(Over(f, A), Over(g, A))
    OBVIOUS
  <2>2. CASE A = {}
    <3>1. Over(f, {}) = One /\ Over(g, {}) = One
      BY OverSubset
    <3> QED  BY <2>2, <3>1 DEF Same
  <2>3. CASE A # {}
    <3>1. PICK x \in A : TRUE
      BY <2>3
    <3>2. A \ {x} \in T /\ A \ {x} \in SUBSET S
      BY <1>1
    <3>3. Over(f, A) = Product(f[x], Over(f, A \ {x})) /\ Over(g, A) = Product(g[x], Over(g, A \ {x}))
      BY OverSubset
    <3>4. Over(f, A \ {x}) \in Factors /\ Over(g, A \ {x}) \in Factors
      BY <3>2, OverSubset
    <3> QED  BY <3>2, <3>3, <3>4, SameProducts
  <2> QED  BY <2>2, <2>3
<1>2. SUBSET S \subseteq T
  <2> HIDE DEF T
  <2> QED  BY <1>1, SubsetInduction
<1> QED  BY <1>2

-----------------------------------------------------------------------------
(* The walk back over the bars.                                            *)

LEMMA Largest ==
  ASSUME NEW n \in Nat, NEW S \in SUBSET (0..n), S # {}
  PROVE  \E d \in S : \A e \in S : e <= d
<1> DEFINE M == {n - d : d \in S}
<1>1. M \in SUBSET Nat /\ M # {}
  <2>1. \A d \in S : n - d \in Nat
    OBVIOUS
  <2>2. PICK d \in S : TRUE
    OBVIOUS
  <2>3. n - d \in M
    OBVIOUS
  <2> QED  BY <2>1, <2>3
<1>2. PICK m \in M : \A k \in M : <<k, m>> \notin OpToRel(<, Nat)
  <2> HIDE DEF M
  <2> QED  BY <1>1, NatLessThanWellFounded, WFMin
<1>3. \A k \in M : ~(k < m)
  BY <1>1, <1>2 DEF OpToRel
<1>4. PICK d \in S : m = n - d
  BY <1>2
<1>5. ASSUME NEW e \in S  PROVE e <= d
  <2>1. ~(n - e < m)
    BY <1>3
  <2> QED  BY <1>4, <2>1
<1> QED  BY <1>5

Effect == [a \in [ex : Int, f : Factors] |-> a.f]
Upcoming(A, bar) == {a \in A : a.ex > bar}

LEMMA EffectIs ==
  ASSUME NEW A \in SUBSET [ex : Int, f : Factors]
  PROVE  /\ \A a \in A : Effect[a] \in Factors
         /\ ProductOf([a \in A |-> a.f]) = Over(Effect, A)
<1>1. \A a \in A : Effect[a] = a.f
  BY DEF Effect
<1>2. [a \in A |-> a.f] = [a \in A |-> Effect[a]]
  BY <1>1
<1> QED  BY <1>1, <1>2 DEF Over

(* One step back: the actions from the next bar on join  the later ones. *)
LEMMA StepBack ==
  ASSUME NEW A \in SUBSET [ex : Int, f : Factors], IsFiniteSet(A), NEW bar \in Nat
  PROVE  LET left == {a \in A : a.ex <= bar + 1}
             gone == {a \in left : After(a.ex, bar)}
         IN  /\ left \ gone = {a \in A : a.ex <= bar}
             /\ Product(ProductOf([a \in gone |-> a.f]), Over(Effect, Upcoming(A, bar + 1)))
                  = Over(Effect, Upcoming(A, bar))
<1> DEFINE left == {a \in A : a.ex <= bar + 1}
           gone == {a \in left : After(a.ex, bar)}
<1>1. left \ gone = {a \in A : a.ex <= bar}
  BY DEF After
<1>2. gone \cup Upcoming(A, bar + 1) = Upcoming(A, bar) /\ gone \cap Upcoming(A, bar + 1) = {}
  BY DEF After, Upcoming
<1>3. gone \in SUBSET A /\ Upcoming(A, bar + 1) \in SUBSET A
  BY DEF Upcoming
<1>4. gone \in SUBSET [ex : Int, f : Factors]
  BY <1>3
<1> HIDE DEF left, gone
<1>5. Over(Effect, Upcoming(A, bar)) = Product(Over(Effect, gone), Over(Effect, Upcoming(A, bar + 1)))
  <2>1. PICK B : B = Upcoming(A, bar + 1)  OBVIOUS
  <2>2. B \in SUBSET A /\ gone \in SUBSET A /\ gone \cap B = {}
    BY <1>2, <1>3, <2>1
  <2>3. \A a \in A : Effect[a] \in Factors
    BY EffectIs
  <2>4. Over(Effect, gone \cup B) = Product(Over(Effect, gone), Over(Effect, B))
    BY <2>2, <2>3, OverUnion
  <2> QED  BY <1>2, <2>1, <2>4
<1>6. ProductOf([a \in gone |-> a.f]) = Over(Effect, gone)
  BY <1>4, EffectIs
<1> QED  BY <1>1, <1>5, <1>6 DEF left, gone

LEMMA WalkIs ==
  ASSUME NEW c, today \in Nat,
         PerAction(c) \in SUBSET [ex : Int, f : Factors], IsFiniteSet(PerAction(c)),
         \A a \in PerAction(c) : a.ex <= today,
         NEW asked \in 0..today
  PROVE  AdjustmentSeries(c)[asked] = Over(Effect, Upcoming(PerAction(c), asked))
<1>1. PICK A : A = PerAction(c)
  OBVIOUS
<1> DEFINE AtBar(w, bar) ==
             IF bar = today + 1 THEN [left |-> A, f |-> One]
             ELSE LET later == w[bar + 1]
                      gone  == {a \in later.left : After(a.ex, bar)}
                  IN  [left |-> later.left \ gone,
                       f    |-> Product(ProductOf([a \in gone |-> a.f]), later.f)]
           Is(w) == w = [bar \in 0..(today + 1) |-> AtBar(w, bar)]
           walk == CHOOSE w : Is(w)
           Back(bar) == [left |-> {a \in A : a.ex <= bar}, f |-> Over(Effect, Upcoming(A, bar))]
           expected == [bar \in 0..(today + 1) |-> Back(bar)]
<1>2. AdjustmentSeries(c) = [bar \in 0..today |-> walk[bar].f]
  BY <1>1 DEF AdjustmentSeries
<1>3. A \in SUBSET [ex : Int, f : Factors] /\ IsFiniteSet(A) /\ \A a \in A : a.ex <= today
  BY <1>1
<1>4. ASSUME NEW w, NEW bar \in 0..(today + 1), bar # today + 1 => w[bar + 1] = Back(bar + 1)
      PROVE  AtBar(w, bar) = Back(bar)
  <2>1. CASE bar = today + 1
    <3>1. {a \in A : a.ex <= bar} = A /\ Upcoming(A, bar) = {}
      BY <1>3, <2>1 DEF Upcoming
    <3>2. Over(Effect, {}) = One
      BY <1>3, EffectIs, OverSubset
    <3> QED  BY <2>1, <3>1, <3>2
  <2>2. CASE bar # today + 1
    <3>1. bar \in Nat
      OBVIOUS
    <3>2. w[bar + 1] = Back(bar + 1)
      BY <1>4, <2>2
    <3>3. AtBar(w, bar) = LET later == Back(bar + 1)
                           gone  == {a \in later.left : After(a.ex, bar)}
                       IN  [left |-> later.left \ gone,
                            f    |-> Product(ProductOf([a \in gone |-> a.f]), later.f)]
      BY <2>2, <3>2
    <3> QED  BY <1>3, <3>1, <3>3, StepBack
  <2> QED  BY <2>1, <2>2
<1>5. Is(expected)
  <2>1. \A bar \in 0..(today + 1) : AtBar(expected, bar) = Back(bar)
    <3>1. ASSUME NEW bar \in 0..(today + 1)
          PROVE  bar # today + 1 => expected[bar + 1] = Back(bar + 1)
      <4>1. bar # today + 1 => bar + 1 \in 0..(today + 1)
        OBVIOUS
      <4> HIDE DEF Back
      <4> QED  BY <4>1
    <3> HIDE DEF AtBar, expected, Back
    <3> QED  BY <1>4, <3>1
  <2> HIDE DEF AtBar, Back
  <2> QED  BY <2>1
<1>6. Is(walk)
  <2> HIDE DEF Is
  <2> QED  BY <1>5
<1>7. \A bar \in 0..(today + 1) : walk[bar] = AtBar(walk, bar)
  <2> HIDE DEF walk, AtBar
  <2> QED  BY <1>6
<1> HIDE DEF AtBar, Is, walk, expected, Back
<1>8. \A bar \in 0..(today + 1) : walk[bar] = Back(bar)
  <2> DEFINE Wrong == {bar \in 0..(today + 1) : walk[bar] # Back(bar)}
  <2>1. SUFFICES ASSUME Wrong # {} PROVE FALSE
    OBVIOUS
  <2>2. PICK bar \in Wrong : \A e \in Wrong : e <= bar
    <3>1. Wrong \in SUBSET (0..(today + 1)) /\ today + 1 \in Nat
      OBVIOUS
    <3> HIDE DEF Wrong
    <3> QED  BY <2>1, <3>1, Largest
  <2>3. bar # today + 1 => walk[bar + 1] = Back(bar + 1)
    BY <2>2
  <2> QED  BY <1>4, <1>7, <2>2, <2>3
<1>9. walk[asked].f = Over(Effect, Upcoming(A, asked))
  <2>1. walk[asked] = Back(asked)
    BY <1>8
  <2>2. Back(asked).f = Over(Effect, Upcoming(A, asked))
    BY DEF Back
  <2> QED  BY <2>1, <2>2
<1> QED  BY <1>1, <1>2, <1>9

-----------------------------------------------------------------------------
(* The table.                                                              *)

Row == [company : Companies, kind : Kinds, ex : Days, amount : Nat, factor : Factors]

(* The database keeps a table of rows, no two with one key. *)
TableInv ==
  /\ rows \in SUBSET Row /\ IsFiniteSet(rows)
  /\ \A a, b \in rows : KeyOf(a) = KeyOf(b) => a = b

(* AmountOf adds up numbers. *)
LEMMA AmountOfIs ==
  ASSUME NEW group \in SUBSET Records
  PROVE  AmountOf(group) \in Nat
<1>1. IsFiniteSet(group) /\ \A r \in group : Amount[r] \in Nat
  BY FS_Subset, CorporateActionsConstants DEF CorporateActionsConstants
<1> DEFINE g == [y \in group \X Nat |-> Amount[y[1]] + y[2]]
<1>2. g \in [group \X Nat -> Nat]
  BY <1>1
<1>3. \A r \in group : \A v : v \in Nat => g[<<r, v>>] = Amount[r] + v
  OBVIOUS
<1> HIDE DEF g
<1>4. PICK p \in [SUBSET group -> Nat] : Folds(p, group, 0, g)
  BY <1>1, <1>2, FoldExists
<1> DEFINE Is(q) == q = [A \in SUBSET group |->
                       IF A = {} THEN 0
                       ELSE LET x == CHOOSE x \in A : TRUE IN Amount[x] + q[A \ {x}]]
           sum == CHOOSE q : Is(q)
<1>5. Is(p)
  <2>1. \A A \in SUBSET group : p[A] =
             IF A = {} THEN 0
             ELSE LET x == CHOOSE x \in A : TRUE IN Amount[x] + p[A \ {x}]
    <3> SUFFICES ASSUME NEW A \in SUBSET group
                 PROVE  p[A] = IF A = {} THEN 0 ELSE Amount[Some(A)] + p[A \ {Some(A)}]
      BY DEF Some
    <3>1. A # {} => Some(A) \in group /\ p[A \ {Some(A)}] \in Nat
      BY SomeIn
    <3> QED  BY <1>3, <1>4, <3>1 DEF Folds
  <2> QED  BY <2>1
<1>6. AmountOf(group) = sum[group]
  BY DEF AmountOf, MapThenSumSet, MapThenFoldSet
<1>7. Is(sum)
  <2> HIDE DEF Is
  <2> QED  BY <1>5
<1>8. sum[group] = p[group]
  <2> DEFINE T == {A \in SUBSET group : sum[A] = p[A]}
  <2> HIDE DEF sum
  <2>1. ASSUME NEW A \in SUBSET group, \A B \in SUBSET A : B # A => B \in T
        PROVE  A \in T
    <3>1. /\ sum[A] = IF A = {} THEN 0 ELSE Amount[Some(A)] + sum[A \ {Some(A)}]
          /\ p[A] = IF A = {} THEN 0 ELSE Amount[Some(A)] + p[A \ {Some(A)}]
      BY <1>5, <1>7 DEF Some
    <3>2. A # {} => A \ {Some(A)} \in T
      BY <2>1, SomeIn
    <3> HIDE DEF Is
    <3> QED  BY <3>1, <3>2
  <2>2. SUBSET group \subseteq T
    <3> HIDE DEF T
    <3> QED  BY <1>1, <2>1, SubsetInduction
  <2> QED  BY <2>2
<1> QED  BY <1>6, <1>8

LEMMA RowIsTyped ==
  ASSUME TypeInv, NEW group \in SUBSET Records, group # {}
  PROVE  RowOf(group) \in Row
<1> DEFINE r == Min(group)
<1>1. r \in Records
  <2>1. group \in SUBSET Nat
    BY CorporateActionsConstants DEF CorporateActionsConstants
  <2> QED  BY <2>1, MinIn
<1>2. notice[r].ex \in Days
  BY <1>1 DEF TypeInv, Notices
<1>3. Company[r] \in Companies /\ Kind[r] \in Kinds /\ Amount[r] \in Nat /\ Factor[r] \in Factors
  BY <1>1, CorporateActionsConstants DEF CorporateActionsConstants, Companies, Factors
<1>4. AmountOf(group) \in Nat
  BY AmountOfIs
<1> DEFINE amount == IF Kind[r] = "dividend" THEN AmountOf(group) ELSE Amount[r]
<1>5. RowOf(group) = [company |-> Company[r], kind |-> Kind[r], ex |-> notice[r].ex,
                      amount |-> amount, factor |-> Factor[r]]
  BY DEF RowOf
<1>6. amount \in Nat
  BY <1>3, <1>4
<1> HIDE DEF r, amount
<1> QED  BY <1>2, <1>3, <1>5, <1>6 DEF Row

LEMMA ImageFinite ==
  ASSUME NEW S, IsFiniteSet(S), NEW h
  PROVE  IsFiniteSet(Image(h, S))
<1> DEFINE name == [x \in S |-> h[x]]
<1>1. name \in Surjection(S, Image(h, S))
  BY DEF Surjection, Image
<1> HIDE DEF name
<1> QED  BY <1>1, FS_Surjection

(* A load keeps it one. *)
LEMMA LoadKeepsTable ==
  ASSUME TypeInv, TableInv, NEW frm, NEW to, NEW wanted, Load(frm, to, wanted)
  PROVE  TableInv'
<1> DEFINE parsed == Parsed(frm, to, wanted)
           group(r) == {q \in parsed : Key(q) = Key(r)}
           new == Deduped(parsed)
<1>1. parsed \in SUBSET Records /\ IsFiniteSet(parsed)
  BY FS_Subset, CorporateActionsConstants DEF Parsed, CorporateActionsConstants
<1>2. rows' = {row \in rows : \A n \in new : KeyOf(n) # KeyOf(row)} \cup new
  BY DEF Load
<1>3. new = {RowOf(group(r)) : r \in parsed}
  BY DEF Deduped
<1> HIDE DEF parsed
<1>4. \A r \in parsed : RowOf(group(r)) \in Row
  BY <1>1, RowIsTyped
<1>5. \A r \in parsed : KeyOf(RowOf(group(r))) = Key(r)
  BY <1>1, RowHasKey
<1>6. IsFiniteSet(new)
  <2> DEFINE h == [r \in parsed |-> RowOf(group(r))]
  <2>1. new = Image(h, parsed)
    BY <1>3 DEF Image
  <2> HIDE DEF h
  <2> QED  BY <1>1, <2>1, ImageFinite
<1>7. \A a, b \in new : KeyOf(a) = KeyOf(b) => a = b
  <2> SUFFICES ASSUME NEW q \in parsed, NEW r \in parsed, KeyOf(RowOf(group(q))) = KeyOf(RowOf(group(r)))
               PROVE  RowOf(group(q)) = RowOf(group(r))
    BY <1>3
  <2>1. Key(q) = Key(r)
    BY <1>5
  <2>2. group(q) = group(r)
    BY <2>1
  <2> QED  BY <2>2
<1>8. new \in SUBSET Row
  BY <1>3, <1>4
<1> HIDE DEF new
<1>9. \A a, b \in rows' : KeyOf(a) = KeyOf(b) => a = b
  BY <1>2, <1>7 DEF TableInv
<1>10. rows' \in SUBSET Row /\ IsFiniteSet(rows')
  <2> DEFINE kept == {row \in rows : \A n \in new : KeyOf(n) # KeyOf(row)}
  <2>1. kept \in SUBSET rows
    OBVIOUS
  <2>2. rows' = kept \cup new
    BY <1>2
  <2> HIDE DEF kept
  <2>3. IsFiniteSet(kept)
    BY <2>1, FS_Subset DEF TableInv
  <2>4. IsFiniteSet(kept \cup new)
    BY <1>6, <2>3, FS_Union
  <2> QED  BY <1>8, <2>1, <2>2, <2>4 DEF TableInv
<1>11. (\A a, b \in rows : KeyOf(a) = KeyOf(b) => a = b)'
  BY <1>9 DEF KeyOf
<1> QED  BY <1>10, <1>11 DEF TableInv, Row, Companies

LEMMA TableHolds == Spec => []TableInv
<1>1. Init => TableInv
  BY FS_EmptySet DEF Init, TableInv
<1>2. Inv /\ TableInv /\ [Next]_vars => TableInv'
  <2> SUFFICES ASSUME Inv, TableInv, [Next]_vars PROVE TableInv'
    OBVIOUS
  <2>1. TypeInv
    BY DEF Inv
  <2>2. CASE JobLoads
    BY <2>1, <2>2, LoadKeepsTable DEF JobLoads
  <2>3. ASSUME NEW window \in Windows, NEW wanted \in SUBSET Companies, ApiLoads(window, wanted)
        PROVE  TableInv'
    BY <2>1, <2>3, LoadKeepsTable DEF ApiLoads
  <2>4. CASE rows' = rows
    BY <2>4 DEF TableInv, KeyOf, Row, Companies
  <2>5. \/ JobLoads \/ rows' = rows
        \/ \E window \in Windows, wanted \in SUBSET Companies : ApiLoads(window, wanted)
    BY DEF Next, vars, NextDay, JobFails, Lists, Announces, Rewords, Moves
  <2> QED  BY <2>2, <2>3, <2>4, <2>5
<1> QED  BY <1>1, <1>2, InvAlways, PTL DEF Spec

-----------------------------------------------------------------------------
(* Splits and bonuses.                                                     *)

LEMMA HappenedIs ==
  ASSUME TypeInv, NEW c, NEW from \in Int, NEW mid \in Int, NEW to \in Int, from <= mid, mid <= to
  PROVE  /\ Happened(c, from, to) \in Factors
         /\ Happened(c, from, to) = Product(Happened(c, from, mid), Happened(c, mid, to))
<1>1. IsFiniteSet(Records) /\ \A r \in Records : Factor[r] \in Factors /\ notice[r].ex \in Int
  BY Numbers, CorporateActionsConstants DEF CorporateActionsConstants, Factors
<1>2. \A i, j : Happened(c, i, j) = Over(Factor, Happenings(c, i, j)) /\ Happenings(c, i, j) \in SUBSET Records
  BY DEF Happened, Over, Happenings
<1>3. /\ Happenings(c, from, to) = Happenings(c, from, mid) \cup Happenings(c, mid, to)
      /\ Happenings(c, from, mid) \cap Happenings(c, mid, to) = {}
  BY <1>1 DEF Happenings
<1>4. Over(Factor, Happenings(c, from, to)) \in Factors
  BY <1>1, <1>2, OverSubset
<1>5. Over(Factor, Happenings(c, from, mid) \cup Happenings(c, mid, to))
        = Product(Over(Factor, Happenings(c, from, mid)), Over(Factor, Happenings(c, mid, to)))
  <2>1. PICK D \in SUBSET Records : D = Happenings(c, from, mid)
    BY <1>2
  <2>2. PICK B \in SUBSET Records : B = Happenings(c, mid, to)
    BY <1>2
  <2>3. Over(Factor, D \cup B) = Product(Over(Factor, D), Over(Factor, B))
    BY <1>1, <1>3, <2>1, <2>2, OverUnion
  <2> QED  BY <2>1, <2>2, <2>3
<1> QED  BY <1>2, <1>3, <1>4, <1>5

(* What the table multiplies is what has happened since. *)
LEMMA StructureIs ==
  ASSUME TypeInv, TableInv, NEW c \in Companies, StructureIsKnown(c), NEW bar \in Nat
  PROVE  StructuralFactorAfter(c, bar) = Happened(c, bar, today)
<1> DEFINE S == Happenings(c, bar, today)
           after == {a \in RowsOf(c, Structural) : a.ex > bar}
           row == [r \in S |-> CHOOSE x \in rows : KeyOf(x) = Key(r)]
           factor == [x \in rows |-> x.factor]
<1>1. IsFiniteSet(S) /\ S \in SUBSET Records /\ \A r \in S : Factor[r] \in Factors
  <2>1. S \in SUBSET Records
    BY DEF Happenings
  <2> QED  BY <2>1, FS_Subset, CorporateActionsConstants DEF CorporateActionsConstants, Factors
<1>2. \A r \in Records : notice[r].ex \in Nat
  BY Numbers
<1>3. \A r \in S : r \in Happenings(c, -1, today)
  BY <1>2 DEF Happenings
<1>4. ASSUME NEW r \in S
      PROVE  row[r] \in rows /\ KeyOf(row[r]) = Key(r) /\ row[r].factor = Factor[r]
  <2>1. PICK x \in rows : KeyOf(x) = Key(r) /\ x.factor = Factor[r]
    BY <1>3 DEF StructureIsKnown
  <2>2. row[r] \in rows /\ KeyOf(row[r]) = Key(r)
    BY <2>1
  <2>3. row[r] = x
    <3> HIDE DEF row
    <3> QED  BY <2>1, <2>2 DEF TableInv
  <2> QED  BY <2>1, <2>3
<1> HIDE DEF row
<1>5. \A q, r \in S : row[q] = row[r] => q = r
  <2> SUFFICES ASSUME NEW q \in S, NEW r \in S, row[q] = row[r]  PROVE q = r
    OBVIOUS
  <2>1. Key(q) = Key(r)
    BY <1>4
  <2> QED  BY <1>3, <2>1 DEF StructureIsKnown
<1>6. Image(row, S) = after
  <2>1. ASSUME NEW r \in S  PROVE row[r] \in after
    <3>1. /\ row[r].company = Company[r] /\ row[r].kind = Kind[r] /\ row[r].ex = notice[r].ex
          /\ row[r] \in rows
      BY <1>4 DEF KeyOf, Key
    <3>2. Company[r] = c /\ Kind[r] \in Structural /\ bar < notice[r].ex
      BY DEF Happenings
    <3>3. notice[r].ex > bar
      BY <1>1, <1>2, <3>2
    <3> QED  BY <3>1, <3>2, <3>3 DEF RowsOf
  <2>2. ASSUME NEW x \in after  PROVE x \in Image(row, S)
    <3>1. x \in rows /\ x \in RowsOf(c, Structural) /\ x.ex > bar /\ x.ex \in Int
      BY DEF RowsOf, TableInv, Row, Days
    <3>2. PICK r \in Happenings(c, -1, today) : Key(r) = KeyOf(x)
      BY <3>1 DEF StructureIsKnown
    <3>3. r \in Records /\ notice[r].ex = x.ex
      BY <3>2 DEF Key, KeyOf, Happenings
    <3>4. r \in S
      BY <3>1, <3>2, <3>3 DEF Happenings
    <3>5. row[r] = x
      BY <1>4, <3>1, <3>2, <3>4 DEF TableInv
    <3> QED  BY <3>4, <3>5 DEF Image
  <2> HIDE DEF after, S
  <2> QED  BY <2>1, <2>2 DEF Image
<1>7. StructuralFactorAfter(c, bar) = Over(factor, after)
  <2>1. \A x \in after : factor[x] = x.factor
    BY DEF RowsOf
  <2>2. [x \in after |-> factor[x]] = [x \in after |-> x.factor]
    BY <2>1
  <2> QED  BY <2>2 DEF StructuralFactorAfter, Over
<1>8. \A r \in S : factor[row[r]] = Factor[r]
  BY <1>4
<1> HIDE DEF factor, S, after
<1>9. Over(factor, Image(row, S)) = Over(Factor, S)
  BY <1>1, <1>5, <1>8, OverRenamed
<1>10. Happened(c, bar, today) = Over(Factor, S)
  BY DEF Happened, Over, S
<1> QED  BY <1>6, <1>7, <1>9, <1>10

-----------------------------------------------------------------------------
(* Dividends.                                                              *)

(* Shares that multiply after the dividend change neither side of the      *)
(* fraction: u stands for them.                                            *)
LEMMA SplitsCancel ==
  ASSUME NEW a \in Nat, NEW k \in Nat \ {0}, NEW h \in Factors, NEW s \in Factors
  PROVE  LET x == Less(Product([num |-> a, den |-> 1], s), Product([num |-> k, den |-> 1], Product(h, s)))
             y == Less([num |-> a, den |-> 1], Product([num |-> k, den |-> 1], h))
         IN  /\ x.num > 0 <=> y.num > 0
             /\ y.num > 0 => x \in Factors /\ y \in Factors /\ Same(x, y)
<1> DEFINE x == Less(Product([num |-> a, den |-> 1], s), Product([num |-> k, den |-> 1], Product(h, s)))
           y == Less([num |-> a, den |-> 1], Product([num |-> k, den |-> 1], h))
<1>1. PICK n \in Nat \ {0}, d \in Nat \ {0} : h.num = n /\ h.den = d
  BY DEF Factors
<1>2. PICK v \in Nat \ {0}, w \in Nat \ {0} : s.num = v /\ s.den = w
  BY DEF Factors
<1>3. PICK u \in Nat \ {0} : u = v * w
  BY Positive
<1>4. PICK t \in Nat \ {0} : t = k * n
  BY Positive
<1>5. PICK m \in Int : m = t - a * d
  BY <1>1
<1>6. y = [num |-> m, den |-> t]
  <2>1. y = [num |-> (k * n) * 1 - a * (1 * d), den |-> (k * n) * 1]
    BY <1>1 DEF Less, Product
  <2>2. (k * n) * 1 - a * (1 * d) = m /\ (k * n) * 1 = t
    BY <1>4, <1>5, SMT
  <2> QED  BY <2>1, <2>2
<1>7. x = [num |-> u * m, den |-> u * t]
  <2>1. x = [num |-> (k * (n * v)) * (1 * w) - (a * v) * (1 * (d * w)), den |-> (k * (n * v)) * (1 * w)]
    BY <1>1, <1>2 DEF Less, Product
  <2>2. (k * (n * v)) * (1 * w) = u * t
    BY <1>3, <1>4, SMT
  <2>3. (a * v) * (1 * (d * w)) = u * (a * d)
    BY <1>3, SMT
  <2>4. u * t - u * (a * d) = u * m
    BY <1>5, SMT
  <2> QED  BY <2>1, <2>2, <2>3, <2>4
<1>8. m > 0 <=> u * m > 0
  <2>1. CASE m > 0
    <3>1. u * m > 0
      BY <2>1, SMT
    <3> QED  BY <2>1, <3>1
  <2>2. CASE m <= 0
    <3>1. u * m <= 0
      BY <2>2, SMT
    <3> QED  BY <2>2, <3>1
  <2> QED  BY <2>1, <2>2
<1>9. (u * m) * t = m * (u * t) /\ u * t \in Nat \ {0} /\ u * m \in Int
  BY SMT
<1> HIDE DEF x, y
<1>10. x.num = u * m /\ x.den = u * t /\ y.num = m /\ y.den = t
  BY <1>6, <1>7
<1>11. x.num > 0 <=> y.num > 0
  BY <1>8, <1>10
<1>12. ASSUME y.num > 0  PROVE x \in Factors /\ y \in Factors /\ Same(x, y)
  <2>1. m \in Nat \ {0} /\ u * m \in Nat \ {0}
    BY <1>8, <1>9, <1>10, <1>12
  <2>2. x \in Factors /\ y \in Factors
    BY <1>6, <1>7, <1>9, <2>1 DEF Factors
  <2> QED  BY <1>9, <1>10, <2>2 DEF Same
<1> QED  BY <1>11, <1>12 DEF x, y

(* The effect of a dividend, as the code computes it. *)
Taken(c, row) ==
  Less(Product([num |-> row.amount, den |-> 1], StructuralFactorAfter(c, row.ex)),
       Stored(c, Prior(row.ex)))

LEMMA TakenRemains ==
  ASSUME TypeInv, TableInv, NEW c \in Companies, StructureIsKnown(c),
         NEW row \in RowsOf(c, {"dividend"}), row.ex > 0
  PROVE  /\ row.ex \in Int /\ row.ex <= today
         /\ Taken(c, row).num > 0 <=> Remains(c, row).num > 0
         /\ Remains(c, row).num > 0 =>
              Taken(c, row) \in Factors /\ Remains(c, row) \in Factors /\ Same(Taken(c, row), Remains(c, row))
<1>1. row \in Row /\ row \in rows /\ row.company = c /\ row.kind = "dividend"
  BY DEF RowsOf, TableInv
<1>2. row.ex \in Nat /\ row.ex <= LastDay /\ row.amount \in Nat /\ today \in Nat /\ LastDay \in Nat
  BY <1>1, Numbers DEF Row, Days
<1>3. row.ex <= today
  <2>1. row \in RowsOf(c, Kinds)
    BY <1>1 DEF RowsOf, Kinds
  <2> QED  BY <2>1 DEF StructureIsKnown
<1>4. Prior(row.ex) = row.ex - 1
  <2> DEFINE p == row.ex - 1
  <2>1. p \in Int /\ p <= today
    BY <1>2, <1>3
  <2>2. Min({p, today}) = p
    <3> HIDE DEF p
    <3> QED  BY <1>2, <2>1 DEF Min
  <2> QED  BY <2>2 DEF Prior
<1>5. row.ex - 1 \in Days /\ Close[row.ex - 1] \in Nat \ {0}
  <2>1. row.ex - 1 \in Days
    BY <1>2 DEF Days
  <2> QED  BY <2>1, CorporateActionsConstants DEF CorporateActionsConstants
<1>6. StructuralFactorAfter(c, row.ex) = Happened(c, row.ex, today)
  BY <1>2, StructureIs
<1>7. /\ Happened(c, row.ex - 1, today) = Product(Happened(c, row.ex - 1, row.ex), Happened(c, row.ex, today))
      /\ Happened(c, row.ex - 1, row.ex) \in Factors
      /\ Happened(c, row.ex, today) \in Factors
  <2>1. row.ex - 1 \in Int /\ row.ex - 1 <= row.ex /\ today \in Int /\ row.ex \in Int
    BY <1>2
  <2> QED  BY <1>3, <2>1, HappenedIs
<1>8. PICK a \in Nat, k \in Nat \ {0}, h \in Factors, s \in Factors :
        a = row.amount /\ k = Close[row.ex - 1]
        /\ h = Happened(c, row.ex - 1, row.ex) /\ s = Happened(c, row.ex, today)
  BY <1>2, <1>5, <1>7
<1>9. Taken(c, row) = Less(Product([num |-> a, den |-> 1], s), Product([num |-> k, den |-> 1], Product(h, s)))
  BY <1>4, <1>6, <1>7, <1>8 DEF Taken, Stored
<1>10. Remains(c, row) = Less([num |-> a, den |-> 1], Product([num |-> k, den |-> 1], h))
  BY <1>8 DEF Remains
<1> QED  BY <1>2, <1>3, <1>9, <1>10, SplitsCancel

LEMMA ReturnsFollow ==
  ASSUME TypeInv, TableInv, NEW c \in Companies, StructureIsKnown(c), NEW asked \in 0..today
  PROVE  Same(AdjustmentSeries(c)[asked],
              ProductOf([row \in {d \in RowsOf(c, {"dividend"}) : d.ex > asked /\ Remains(c, d).num > 0}
                           |-> Remains(c, row)]))
<1> DEFINE A == PerAction(c)
           E == {d \in RowsOf(c, {"dividend"}) : d.ex > 0 /\ Taken(c, d).num > 0}
           D == {d \in RowsOf(c, {"dividend"}) : d.ex > asked /\ Remains(c, d).num > 0}
           action == [row \in E |-> [ex |-> row.ex, f |-> Taken(c, row)]]
           taken == [row \in E |-> Taken(c, row)]
           remains == [row \in E |-> Remains(c, row)]
<1>1. today \in Nat /\ asked \in Nat /\ asked <= today
  BY Numbers
<1>2. \A d \in RowsOf(c, {"dividend"}) : d.ex > 0 =>
        /\ d.ex \in Int /\ d.ex <= today
        /\ Taken(c, d).num > 0 <=> Remains(c, d).num > 0
        /\ Remains(c, d).num > 0 =>
             Taken(c, d) \in Factors /\ Remains(c, d) \in Factors /\ Same(Taken(c, d), Remains(c, d))
  BY TakenRemains
<1>3. IsFiniteSet(E) /\ IsFiniteSet(D)
  <2>1. E \in SUBSET rows /\ D \in SUBSET rows /\ IsFiniteSet(rows)
    BY DEF RowsOf, TableInv
  <2> QED  BY <2>1, FS_Subset
<1>4. \A d \in E : /\ d.ex \in Int /\ d.ex <= today
                   /\ Taken(c, d) \in Factors /\ Remains(c, d) \in Factors
                   /\ Same(Taken(c, d), Remains(c, d))
  BY <1>2
<1>5. \A d \in RowsOf(c, {"dividend"}) : d.ex \in Int
  BY DEF RowsOf, TableInv, Row, Days
<1>6. D = {d \in E : d.ex > asked}
  <2>1. \A d \in RowsOf(c, {"dividend"}) : d.ex > asked => d.ex > 0
    BY <1>1, <1>5
  <2> QED  BY <1>2, <2>1
<1>7. A = Image(action, E)
  <2>1. A = {a \in {[ex |-> row.ex, f |-> Taken(c, row)] :
                      row \in {d \in RowsOf(c, {"dividend"}) : d.ex > 0}} : a.f.num > 0}
    BY DEF PerAction, Taken
  <2>2. ASSUME NEW row \in E  PROVE action[row] \in A
    <3>1. action[row] = [ex |-> row.ex, f |-> Taken(c, row)] /\ Taken(c, row).num > 0
      OBVIOUS
    <3> HIDE DEF action
    <3> QED  BY <2>1, <3>1
  <2>3. ASSUME NEW a \in A  PROVE \E row \in E : a = action[row]
    <3>1. PICK row \in RowsOf(c, {"dividend"}) :
            row.ex > 0 /\ a = [ex |-> row.ex, f |-> Taken(c, row)] /\ a.f.num > 0
      BY <2>1
    <3>2. row \in E
      BY <3>1
    <3> QED  BY <3>1, <3>2
  <2> HIDE DEF A, E, action
  <2> QED  BY <2>2, <2>3 DEF Image
<1> HIDE DEF A
<1>8. ASSUME NEW d \in E
      PROVE  action[d] \in [ex : Int, f : Factors] /\ action[d].ex = d.ex /\ action[d].f = Taken(c, d)
  <2>1. PICK x \in Int, t \in Factors : x = d.ex /\ t = Taken(c, d)
    BY <1>4
  <2>2. action[d] = [ex |-> x, f |-> t]
    BY <2>1
  <2> HIDE DEF action
  <2> QED  BY <2>1, <2>2
<1>9. \A d \in E : taken[d] = Taken(c, d) /\ remains[d] = Remains(c, d)
  OBVIOUS
<1>10. \A d, e \in E : action[d] = action[e] => d = e
  <2> SUFFICES ASSUME NEW d \in E, NEW e \in E, action[d] = action[e]  PROVE d = e
    OBVIOUS
  <2>1. action[d].ex = d.ex /\ action[e].ex = e.ex
    BY <1>8
  <2>2. d \in rows /\ e \in rows /\ d.company = e.company /\ d.kind = e.kind /\ d.ex = e.ex
    BY <2>1 DEF RowsOf
  <2> QED  BY <2>2 DEF TableInv, KeyOf
<1> HIDE DEF E, D, action, taken, remains
<1>11. /\ A \in SUBSET [ex : Int, f : Factors]
       /\ IsFiniteSet(A)
       /\ \A a \in A : a.ex <= today
  <2>1. IsFiniteSet(A)
    BY <1>3, <1>7, ImageFinite
  <2>2. \A d \in E : action[d] \in [ex : Int, f : Factors] /\ action[d].ex <= today
    BY <1>4, <1>8
  <2>3. \A a \in A : \E d \in E : a = action[d]
    BY <1>7 DEF Image
  <2> QED  BY <2>1, <2>2, <2>3
<1>12. AdjustmentSeries(c)[asked] = Over(Effect, Upcoming(A, asked))
  BY <1>1, <1>11, WalkIs DEF A
<1>13. Upcoming(A, asked) = Image(action, D)
  <2> QED  BY <1>6, <1>7, <1>8 DEF Upcoming, Image
<1>14. \A d \in D : d \in E
  BY <1>6
<1>15. \A d \in D : Effect[action[d]] = taken[d]
  <2> SUFFICES ASSUME NEW d \in D  PROVE Effect[action[d]] = taken[d]
    OBVIOUS
  <2>1. action[d] \in [ex : Int, f : Factors] /\ action[d].f = taken[d]
    BY <1>4, <1>8, <1>9, <1>14
  <2> QED  BY <2>1 DEF Effect
<1>16. Over(Effect, Image(action, D)) = Over(taken, D)
  <2>1. (\A d \in D : taken[d] \in Factors) /\ \A d, e \in D : action[d] = action[e] => d = e
    BY <1>4, <1>9, <1>10, <1>14
  <2> QED  BY <1>3, <1>15, <2>1, OverRenamed
<1>17. Same(Over(taken, D), Over(remains, D))
  <2>1. \A d \in D : taken[d] \in Factors /\ remains[d] \in Factors /\ Same(taken[d], remains[d])
    BY <1>4, <1>9, <1>14
  <2> QED  BY <1>3, <2>1, OverSame
<1>18. ProductOf([row \in D |-> Remains(c, row)]) = Over(remains, D)
  <2>1. [row \in D |-> Remains(c, row)] = [row \in D |-> remains[row]]
    BY <1>9, <1>14
  <2> QED  BY <2>1 DEF Over
<1> QED  BY <1>12, <1>13, <1>16, <1>17, <1>18 DEF D

(* The factor of a bar is the product of what each later dividend left of  *)
(* the price of its own time, in the share terms of its own time           *)
(* (adjustment_series), for any dividends, splits, bonuses and closes, any *)
(* windows and refusals, and however the table was loaded.                 *)
THEOREM TotalReturns == Spec => []ReturnsAreTotal
<1>1. Inv /\ TableInv => ReturnsAreTotal
  <2> SUFFICES ASSUME Inv, TableInv, NEW c \in Companies, StructureIsKnown(c), NEW bar \in 0..today
               PROVE  Same(AdjustmentSeries(c)[bar],
                           ProductOf([row \in {d \in RowsOf(c, {"dividend"}) : d.ex > bar /\ Remains(c, d).num > 0}
                                        |-> Remains(c, row)]))
    BY DEF ReturnsAreTotal
  <2>1. TypeInv
    BY DEF Inv
  <2> QED  BY <2>1, ReturnsFollow
<1> QED  BY <1>1, InvAlways, TableHolds, PTL

-----------------------------------------------------------------------------
(* The feed.                                                               *)

FeedRun ==
  [step : Steps, todo : SUBSET Symbols, token : 0..EndDay, at : Symbols \cup {NoSymbol},
   bars : Bars, result : {"ok", "warning", "failed"}, empty : SUBSET Symbols,
   alone : BOOLEAN, all : BOOLEAN,
   args : [symbols : SUBSET Symbols, anyway : BOOLEAN]]

Sources == [Timeframes -> SUBSET {"yfinance", "fyers"}]

FeedTypes ==
  /\ day \in 1..EndDay /\ stored \in 0..EndDay
  /\ enabled \in BOOLEAN /\ jobDay \in 0..EndDay /\ events \in 0..MaxEvents
  /\ exit \in {"none", "ok", "failed", "login"}
  /\ candles \in [Symbols -> Sources] /\ indicators \in [Symbols -> Values]
  /\ run \in [Workers -> FeedRun]

(* What the run x of a worker w has done so far to the candles c, provided *)
(* it has not failed: the cutover has rebuilt, a run that ingests fetched  *)
(* the symbols it is through with or found nothing, and the indicators     *)
(* come last.                                                              *)
Tells(w, x, c) ==
  /\ x.step = "rebuild" => w = "cutover"
  /\ x.step = "ingest" => w # "cutover"
  /\ x.at # NoSymbol => x.step = "indicators"
  /\ x.all /\ x.step = "rebuild" /\ x.result # "failed" =>
       \A s \in Symbols \ x.todo : c[s] = AllFyers
  /\ x.all /\ x.step = "ingest" /\ x.result = "ok" =>
       \A s \in Symbols \ (x.todo \cup x.empty) : "fyers" \in c[s]["1d"]
  /\ x.all /\ x.step = "indicators" /\ w = "cutover" /\ x.result # "failed" =>
       \A s \in Symbols : c[s] = AllFyers
  /\ x.all /\ x.step = "indicators" /\ w # "cutover" /\ x.result = "ok" =>
       \A s \in Symbols \ x.empty : "fyers" \in c[s]["1d"]

Empty == [tf \in Timeframes |-> {}]

(* What the run x of a worker alone with the candles c has left of the     *)
(* indicators i.                                                           *)
Leaves(x, c, i) ==
  /\ x.step # "idle" /\ x.bars = "current"
  /\ x.step = "indicators" /\ x.result = "ok" =>
       \A s \in x.args.symbols \ x.todo : c[s] # Empty => i[s] \in {"current", "mixed"}

LoneInv ==
  \A w \in Workers : run[w].alone =>
    /\ \A o \in Workers \ {w} : run[o].step = "idle"
    /\ Leaves(run[w], candles, indicators)

FeedInv == FeedTypes /\ (\A w \in Workers : Tells(w, run[w], candles)) /\ LoneInv

-----------------------------------------------------------------------------
LEMMA WorseIs ==
  ASSUME NEW a \in {"ok", "warning", "failed"}, NEW b \in {"ok", "warning", "failed"}
  PROVE  /\ Worse(a, b) \in {"ok", "warning", "failed"}
         /\ Worse(a, b) = "ok" <=> a = "ok" /\ b = "ok"
         /\ Worse(a, b) = "failed" <=> a = "failed" \/ b = "failed"
BY DEF Worse

LEMMA FreeIs == ASSUME FeedConstants  PROVE Idle \in FeedRun
<1>1. NoToken \in 0..EndDay
  BY DEF FeedConstants, NoToken
<1> QED  BY <1>1 DEF Idle, FeedRun, Steps, Bars

LEMMA TickedIs ==
  ASSUME NEW w \in Workers, run[w] \in FeedRun, NEW s \in Symbols,
         NEW result \in {"ok", "warning", "failed"}
  PROVE  LET x == run[w]
             y == Ticked(w, s, result)
         IN  /\ y \in FeedRun
             /\ y.step = x.step /\ y.todo = x.todo \ {s} /\ y.at = NoSymbol /\ y.bars = "current"
             /\ y.result = Worse(x.result, result) /\ y.empty = x.empty
             /\ y.alone = x.alone /\ y.all = x.all /\ y.args = x.args
<1> DEFINE x == run[w]
           y == Ticked(w, s, result)
<1>1. x.result \in {"ok", "warning", "failed"}
  BY DEF FeedRun
<1>2. /\ y.step = x.step /\ y.todo = x.todo \ {s} /\ y.at = NoSymbol /\ y.bars = "current"
      /\ y.result = Worse(x.result, result) /\ y.empty = x.empty
      /\ y.alone = x.alone /\ y.all = x.all /\ y.args = x.args
  BY DEF Ticked, FeedRun
<1>3. Worse(x.result, result) \in {"ok", "warning", "failed"}
  BY <1>1, WorseIs
<1>4. y \in FeedRun
  BY <1>3 DEF Ticked, FeedRun, Bars
<1> QED  BY <1>2, <1>4

(* What another worker leaves of a run. *)
Like(x, y) ==
  /\ y.step = x.step /\ y.todo = x.todo /\ y.at = x.at /\ y.result = x.result
  /\ y.empty = x.empty /\ y.all = x.all /\ y.args = x.args /\ (y.alone => x.alone)

(* Only the run of w goes on, and becomes x. *)
Becomes(w, x) ==
  /\ run' \in [Workers -> FeedRun] /\ run'[w] = x
  /\ \A o \in Workers \ {w} : Like(run[o], run'[o])

LEMMA OneRunOnly ==
  ASSUME FeedTypes, NEW w \in Workers, NEW x \in FeedRun, run' = [run EXCEPT ![w] = x]
  PROVE  Becomes(w, x)
BY DEF FeedTypes, Becomes, Like

LEMMA WritesDoes ==
  ASSUME FeedTypes, NEW w \in Workers, NEW s \in Symbols, NEW new \in Sources,
         NEW wiped \in BOOLEAN, NEW x \in FeedRun, Writes(w, x, s, new, wiped)
  PROVE  /\ Becomes(w, x)
         /\ candles' \in [Symbols -> Sources] /\ indicators' \in [Symbols -> Values]
         /\ candles'[s] = new /\ \A o \in Symbols \ {s} : candles'[o] = candles[o]
<1>1. /\ candles' \in [Symbols -> Sources]
      /\ candles'[s] = new /\ \A o \in Symbols \ {s} : candles'[o] = candles[o]
  BY DEF Writes, FeedTypes
<1>2. WithoutIndicators(s, wiped) \in Values
  BY DEF WithoutIndicators, Values
<1>3. indicators' \in [Symbols -> Values]
  BY <1>2 DEF Writes, FeedTypes
<1>5. ASSUME NEW o \in Workers \ {w}
      PROVE  Overtaken(o, s, wiped) \in FeedRun /\ Like(run[o], Overtaken(o, s, wiped))
  <2>1. run[o] \in FeedRun
    BY DEF FeedTypes
  <2> QED  BY <2>1 DEF Overtaken, Like, FeedRun, Bars
<1>6. run' = [v \in Workers |-> IF v = w THEN x ELSE Overtaken(v, s, wiped)]
  BY DEF Writes
<1>7. run' \in [Workers -> FeedRun] /\ run'[w] = x
      /\ \A o \in Workers \ {w} : run'[o] = Overtaken(o, s, wiped)
  BY <1>5, <1>6
<1> QED  BY <1>1, <1>3, <1>5, <1>7 DEF Becomes

(* The record of a worker that starts. *)
Started(w, step, result, todo, args, all) ==
  [Idle EXCEPT !.step = step, !.result = result, !.todo = todo, !.token = stored,
               !.args = args, !.all = all, !.alone = \A o \in Workers \ {w} : ~Busy(o)]

-----------------------------------------------------------------------------
(* What the steps of a worker have in common.                              *)

(* Candles of Fyers stay. *)
Grows(c, d) ==
  \A s \in Symbols : /\ c[s] = AllFyers => d[s] = AllFyers
                     /\ "fyers" \in c[s]["1d"] => "fyers" \in d[s]["1d"]

LEMMA GrowTells ==
  ASSUME NEW w, NEW x, NEW y, NEW c, NEW d, Like(x, y), Grows(c, d), Tells(w, x, c)
  PROVE  Tells(w, y, d)
BY DEF Like, Grows, Tells

LEMMA FreeTells == ASSUME NEW w, NEW c  PROVE Tells(w, Idle, c) /\ Idle.alone = FALSE
BY DEF Tells, Idle

(* A worker at work goes on. *)
LEMMA WorkerKeeps ==
  ASSUME FeedInv, NEW w \in Workers, Busy(w), NEW x, Becomes(w, x), FeedTypes',
         Grows(candles, candles'), Tells(w, x, candles'),
         x.alone => run[w].alone /\ Leaves(x, candles', indicators')
  PROVE  FeedInv'
<1>1. ASSUME NEW o \in Workers  PROVE Tells(o, run'[o], candles')
  <2>1. CASE o = w
    BY <2>1 DEF Becomes
  <2>2. CASE o # w
    <3>1. Like(run[o], run'[o]) /\ Tells(o, run[o], candles)
      BY <2>2 DEF Becomes, FeedInv
    <3> QED  BY <3>1, GrowTells
  <2> QED  BY <2>1, <2>2
<1>2. ASSUME NEW v \in Workers, run'[v].alone
      PROVE  /\ \A o \in Workers \ {v} : run'[o].step = "idle"
             /\ Leaves(run'[v], candles', indicators')
  <2>1. v = w
    <3> SUFFICES ASSUME v # w  PROVE FALSE
      OBVIOUS
    <3>1. run[v].alone
      BY <1>2 DEF Becomes, Like
    <3>2. run[w].step = "idle"
      BY <3>1 DEF FeedInv, LoneInv
    <3> QED  BY <3>2 DEF Busy
  <2>2. run'[w] = x /\ run[w].alone
    BY <1>2, <2>1 DEF Becomes
  <2>3. \A o \in Workers \ {w} : run[o].step = "idle" /\ run'[o].step = run[o].step
    BY <2>2 DEF FeedInv, LoneInv, Becomes, Like
  <2> QED  BY <1>2, <2>1, <2>2, <2>3
<1>3. LoneInv'
  BY <1>2 DEF LoneInv
<1> QED  BY <1>1, <1>3 DEF FeedInv

(* What no worker's step changes. *)
Aside ==
  /\ UNCHANGED <<auth, enabled, jobDay>>
  /\ events' = events \/ (events < MaxEvents /\ events' = events + 1)
  /\ exit' \in {"none", "ok", "failed", "login"}

LEMMA AsideTypes ==
  ASSUME FeedConstants, FeedTypes, Aside, NEW w \in Workers, NEW x, Becomes(w, x),
         candles' \in [Symbols -> Sources], indicators' \in [Symbols -> Values]
  PROVE  FeedTypes'
<1>1. events' \in 0..MaxEvents
  BY DEF FeedTypes, FeedConstants, Aside
<1> QED  BY <1>1 DEF FeedTypes, Aside, auth, Becomes

(* A symbol is through, and y is what its worker becomes. *)
Passes(w, s, y) ==
  LET x == run[w]
  IN  /\ y \in FeedRun
      /\ y.step = x.step /\ y.todo = x.todo \ {s} /\ y.at = NoSymbol /\ y.bars = "current"
      /\ y.result = x.result /\ y.alone = x.alone /\ y.all = x.all /\ y.args = x.args

LEMMA TickedPasses ==
  ASSUME NEW w \in Workers, run[w] \in FeedRun, NEW s \in Symbols
  PROVE  /\ Passes(w, s, Ticked(w, s, "ok"))
         /\ Ticked(w, s, "ok").empty = run[w].empty
<1> DEFINE x == run[w]
           y == Ticked(w, s, "ok")
<1>1. /\ y \in FeedRun
      /\ y.step = x.step /\ y.todo = x.todo \ {s} /\ y.at = NoSymbol /\ y.bars = "current"
      /\ y.result = Worse(x.result, "ok") /\ y.empty = x.empty
      /\ y.alone = x.alone /\ y.all = x.all /\ y.args = x.args
  BY TickedIs
<1>2. y.result = x.result
  BY <1>1 DEF Worse, FeedRun
<1>3. PICK z : z = y
  OBVIOUS
<1> HIDE DEF y
<1>4. Passes(w, s, z) /\ z.empty = run[w].empty
  BY <1>1, <1>2, <1>3 DEF Passes
<1> QED  BY <1>3, <1>4 DEF y

LEMMA MissedPasses ==
  ASSUME NEW w \in Workers, run[w] \in FeedRun, NEW s \in Symbols
  PROVE  /\ Passes(w, s, Missed(w, s))
         /\ Missed(w, s).empty = run[w].empty \cup {s}
<1> DEFINE x == Ticked(w, s, "ok")
           y == Missed(w, s)
<1>1. Passes(w, s, x) /\ x.empty = run[w].empty /\ x \in FeedRun
  BY TickedPasses DEF Passes
<1>2. y = [x EXCEPT !.empty = @ \cup {s}]
  BY DEF Missed
<1> HIDE DEF x, y
<1>3. /\ y \in FeedRun /\ y.empty = x.empty \cup {s}
      /\ y.step = x.step /\ y.todo = x.todo /\ y.at = x.at /\ y.bars = x.bars
      /\ y.result = x.result /\ y.alone = x.alone /\ y.all = x.all /\ y.args = x.args
  BY <1>1, <1>2 DEF FeedRun
<1> QED  BY <1>1, <1>3 DEF Passes, y

(* What is committed for a symbol: bars of Fyers, or the empty answer is   *)
(* remembered, and none of them taken back.                                *)
Commits(w, s, y, new, wiped) ==
  /\ run[w].step \in {"ingest", "rebuild"} /\ Writes(w, y, s, new, wiped)
  /\ Passes(w, s, y) /\ run[w].empty \subseteq y.empty
  /\ new \in Sources /\ wiped \in BOOLEAN
  /\ run[w].step = "rebuild" => new = AllFyers
  /\ "fyers" \in new["1d"] \/ (s \in y.empty /\ new["1d"] = candles[s]["1d"])
  /\ candles[s] = AllFyers => new = AllFyers

LEMMA CommitsKeep ==
  ASSUME FeedConstants, FeedInv, Aside, NEW w \in Workers, NEW s \in Symbols,
         NEW y, NEW new, NEW wiped, Commits(w, s, y, new, wiped)
  PROVE  FeedInv'
<1> DEFINE x == run[w]
<1>1. /\ Becomes(w, y)
      /\ candles' \in [Symbols -> Sources] /\ indicators' \in [Symbols -> Values]
      /\ candles'[s] = new /\ \A o \in Symbols \ {s} : candles'[o] = candles[o]
  <2>1. /\ FeedTypes /\ new \in Sources /\ wiped \in BOOLEAN /\ y \in FeedRun
        /\ Writes(w, y, s, new, wiped)
    BY DEF FeedInv, Passes, Commits
  <2> QED  BY <2>1, WritesDoes
<1>2. x \in FeedRun /\ Tells(w, x, candles)
  BY DEF FeedInv, FeedTypes
<1>3. /\ y.step = x.step /\ y.todo = x.todo \ {s} /\ y.at = NoSymbol /\ y.bars = "current"
      /\ y.result = x.result /\ y.alone = x.alone /\ y.all = x.all
      /\ x.empty \subseteq y.empty /\ x.step \in {"ingest", "rebuild"}
  BY DEF Passes, Commits
<1>4. /\ x.step = "rebuild" => new = AllFyers
      /\ "fyers" \in new["1d"] \/ (s \in y.empty /\ new["1d"] = candles[s]["1d"])
      /\ candles[s] = AllFyers => new = AllFyers
  BY DEF Commits
<1>5. Grows(candles, candles')
  BY <1>1, <1>4 DEF Grows
<1>6. Tells(w, y, candles')
  BY <1>1, <1>2, <1>3, <1>4 DEF Tells
<1>7. y.alone => run[w].alone /\ Leaves(y, candles', indicators')
  BY <1>3 DEF Leaves
<1>8. FeedTypes'
  BY <1>1, AsideTypes DEF FeedInv
<1> QED  BY <1>1, <1>3, <1>5, <1>6, <1>7, <1>8, WorkerKeeps DEF Busy

(* Candles and indicators stay as they are, or almost. *)
LEMMA MovesKeep ==
  ASSUME FeedConstants, FeedInv, Aside, NEW w \in Workers, Busy(w), NEW y \in FeedRun,
         run' = [run EXCEPT ![w] = y], UNCHANGED candles,
         indicators' \in [Symbols -> Values], Tells(w, y, candles),
         y.alone => run[w].alone /\ Leaves(y, candles, indicators')
  PROVE  FeedInv'
<1>1. Becomes(w, y)
  BY OneRunOnly DEF FeedInv
<1>2. Grows(candles, candles')
  BY DEF Grows
<1>3. FeedTypes'
  BY <1>1, AsideTypes DEF FeedInv, FeedTypes
<1> QED  BY <1>1, <1>2, <1>3, WorkerKeeps

(* A symbol that fails in the first step of a run. *)
LEMMA FailsKeeps ==
  ASSUME FeedConstants, FeedInv, NEW w \in Workers, NEW s \in Symbols, Fails(w, s)
  PROVE  FeedInv'
<1> DEFINE x == run[w]
           result == IF run[w].step = "rebuild" THEN "failed" ELSE "warning"
           y == Ticked(w, s, result)
<1>1. x \in FeedRun /\ Tells(w, x, candles) /\ x.step \in {"ingest", "rebuild"}
      /\ result \in {"ok", "warning", "failed"}
  BY DEF FeedInv, FeedTypes, Fails, At
<1>2. /\ y \in FeedRun /\ y.step = x.step /\ y.todo = x.todo \ {s} /\ y.at = NoSymbol
      /\ y.bars = "current"
      /\ y.result = Worse(x.result, result) /\ y.alone = x.alone
      /\ y.all = x.all /\ y.empty = x.empty
  <2> HIDE DEF result
  <2> QED  BY <1>1, TickedIs
<1>3. y.result # "ok" /\ (x.step = "rebuild" => y.result = "failed")
  <2>1. x.result \in {"ok", "warning", "failed"}
    BY <1>1 DEF FeedRun
  <2> HIDE DEF y
  <2> QED  BY <1>1, <1>2, <2>1, WorseIs
<1>4. run' = [run EXCEPT ![w] = y]
  BY DEF Fails
<1> HIDE DEF y
<1>5. Tells(w, y, candles)
  BY <1>1, <1>2, <1>3 DEF Tells
<1>6. y.alone => run[w].alone /\ Leaves(y, candles, indicators')
  BY <1>1, <1>2 DEF Leaves
<1>7. Aside /\ UNCHANGED <<candles, indicators>>
  BY DEF Fails, Aside, data, FeedInv, FeedTypes
<1> QED  BY <1>1, <1>2, <1>4, <1>5, <1>6, <1>7, MovesKeep DEF Busy, FeedInv, FeedTypes

-----------------------------------------------------------------------------
(* The indicators.                                                         *)

LEMMA LoadsKeeps ==
  ASSUME FeedConstants, FeedInv, NEW w \in Workers, NEW s \in Symbols, Loads(w, s)
  PROVE  FeedInv'
<1> DEFINE x == run[w]
<1>1. x \in FeedRun /\ Tells(w, x, candles) /\ x.step = "indicators"
      /\ candles[s] \in Sources /\ indicators \in [Symbols -> Values]
  BY DEF FeedInv, FeedTypes, Loads, At
<1>2. x.alone => Leaves(x, candles, indicators)
  BY DEF FeedInv, LoneInv
<1>3. Aside /\ UNCHANGED <<candles, indicators>> /\ Busy(w)
  BY <1>1 DEF Loads, Aside, data, FeedInv, FeedTypes, Busy
<1>4. CASE \A tf \in Timeframes : candles[s][tf] = {}
  <2> DEFINE y == Ticked(w, s, "ok")
  <2>1. /\ y \in FeedRun /\ y.step = x.step /\ y.todo = x.todo \ {s} /\ y.at = NoSymbol
        /\ y.bars = "current" /\ y.args = x.args
        /\ y.result = Worse(x.result, "ok") /\ y.alone = x.alone
        /\ y.all = x.all /\ y.empty = x.empty
    BY <1>1, TickedIs
  <2>2. y.result = x.result
    BY <1>1, <2>1 DEF Worse, FeedRun
  <2>3. run' = [run EXCEPT ![w] = y]
    BY <1>4 DEF Loads
  <2> HIDE DEF y
  <2>4. Tells(w, y, candles)
    BY <1>1, <2>1, <2>2 DEF Tells
  <2>5. candles[s] = Empty
    BY <1>1, <1>4 DEF Empty, Sources
  <2>6. y.alone => run[w].alone /\ Leaves(y, candles, indicators')
    BY <1>1, <1>2, <1>3, <2>1, <2>2, <2>5 DEF Leaves
  <2> QED  BY <1>1, <1>3, <2>1, <2>3, <2>4, <2>6, MovesKeep
<1>5. CASE ~ \A tf \in Timeframes : candles[s][tf] = {}
  <2> DEFINE y == [run[w] EXCEPT !.at = s]
  <2>1. /\ y \in FeedRun /\ y.step = x.step /\ y.todo = x.todo /\ y.at = s
        /\ y.bars = x.bars /\ y.args = x.args
        /\ y.result = x.result /\ y.alone = x.alone
        /\ y.all = x.all /\ y.empty = x.empty
    BY <1>1 DEF FeedRun
  <2>2. run' = [run EXCEPT ![w] = y]
    BY <1>5 DEF Loads
  <2> HIDE DEF y
  <2>3. Tells(w, y, candles)
    BY <1>1, <2>1 DEF Tells
  <2>4. y.alone => run[w].alone /\ Leaves(y, candles, indicators')
    BY <1>2, <1>3, <2>1 DEF Leaves
  <2> QED  BY <1>1, <1>3, <2>1, <2>2, <2>3, <2>4, MovesKeep
<1> QED  BY <1>4, <1>5

LEMMA StoresKeeps ==
  ASSUME FeedConstants, FeedInv, NEW w \in Workers, NEW s \in Symbols, Stores(w, s)
  PROVE  FeedInv'
<1> DEFINE x == run[w]
           y == Ticked(w, s, "ok")
           kept == Upserted(indicators[s], x.bars)
<1>1. x \in FeedRun /\ Tells(w, x, candles) /\ indicators \in [Symbols -> Values]
  BY DEF FeedInv, FeedTypes
<1>2. x.step = "indicators" /\ Busy(w)
  BY <1>1 DEF Stores, Tells, FeedConstants, NoSymbol, Busy
<1>3. x.alone => Leaves(x, candles, indicators)
  BY DEF FeedInv, LoneInv
<1>4. /\ y \in FeedRun /\ y.step = x.step /\ y.todo = x.todo \ {s} /\ y.at = NoSymbol
      /\ y.bars = "current" /\ y.args = x.args
      /\ y.result = Worse(x.result, "ok") /\ y.alone = x.alone
      /\ y.all = x.all /\ y.empty = x.empty
  BY <1>1, TickedIs
<1>5. y.result = x.result
  BY <1>1, <1>4 DEF Worse, FeedRun
<1>6. run' = [run EXCEPT ![w] = y] /\ UNCHANGED candles /\ Aside
      /\ indicators' = [indicators EXCEPT ![s] = kept]
  BY DEF Stores, Aside, FeedInv, FeedTypes
<1>7. kept \in Values /\ (x.bars = "current" => kept \in {"mixed", "current"})
  BY <1>1 DEF Upserted, Values, FeedRun, Bars
<1> HIDE DEF y, kept
<1>8. /\ indicators' \in [Symbols -> Values] /\ indicators'[s] = kept
      /\ \A o \in Symbols \ {s} : indicators'[o] = indicators[o]
  BY <1>1, <1>6, <1>7
<1>9. Tells(w, y, candles)
  BY <1>1, <1>2, <1>4, <1>5 DEF Tells
<1>10. ASSUME y.alone  PROVE run[w].alone /\ Leaves(y, candles, indicators')
  <2>1. run[w].alone /\ Leaves(x, candles, indicators) /\ kept \in {"mixed", "current"}
    BY <1>3, <1>4, <1>7, <1>10 DEF Leaves
  <2>2. x.args.symbols \subseteq Symbols
    BY <1>1 DEF FeedRun
  <2> QED  BY <1>2, <1>4, <1>5, <1>8, <2>1, <2>2 DEF Leaves
<1> QED  BY <1>2, <1>4, <1>6, <1>8, <1>9, <1>10, MovesKeep

LEMMA ComputeFailsKeeps ==
  ASSUME FeedConstants, FeedInv, NEW w \in Workers, NEW s \in Symbols, ComputeFails(w, s)
  PROVE  FeedInv'
<1> DEFINE x == run[w]
           y == Ticked(w, s, "warning")
           bars == IF x.bars = "current" THEN "outdated" ELSE x.bars
<1>1. x \in FeedRun /\ Tells(w, x, candles) /\ indicators \in [Symbols -> Values]
  BY DEF FeedInv, FeedTypes
<1>2. x.step = "indicators" /\ Busy(w)
  BY <1>1 DEF ComputeFails, Tells, FeedConstants, NoSymbol, Busy
<1>3. /\ y \in FeedRun /\ y.step = x.step /\ y.todo = x.todo \ {s} /\ y.at = NoSymbol
      /\ y.bars = "current" /\ y.args = x.args
      /\ y.result = Worse(x.result, "warning") /\ y.alone = x.alone
      /\ y.all = x.all /\ y.empty = x.empty
  BY <1>1, TickedIs
<1>4. y.result # "ok" /\ (y.result # "failed" => x.result # "failed")
  <2>1. x.result \in {"ok", "warning", "failed"}
    BY <1>1 DEF FeedRun
  <2> HIDE DEF y
  <2> QED  BY <1>3, <2>1, WorseIs
<1>5. run' = [run EXCEPT ![w] = y] /\ UNCHANGED candles /\ Aside
  BY DEF ComputeFails, Aside, FeedInv, FeedTypes
<1>6. Upserted(indicators[s], bars) \in Values
  BY <1>1 DEF Upserted, Values, FeedRun, Bars
<1>7. indicators' \in [Symbols -> Values]
  <2>1. PICK v \in {indicators[s], Upserted(indicators[s], bars)} :
           indicators' = [indicators EXCEPT ![s] = v]
    BY DEF ComputeFails
  <2>2. v \in Values
    BY <1>1, <1>6, <2>1
  <2> QED  BY <1>1, <2>1, <2>2
<1> HIDE DEF y
<1>8. Tells(w, y, candles)
  BY <1>1, <1>2, <1>3, <1>4 DEF Tells
<1>9. y.alone => run[w].alone /\ Leaves(y, candles, indicators')
  BY <1>2, <1>3, <1>4 DEF Leaves
<1> QED  BY <1>2, <1>3, <1>5, <1>7, <1>8, <1>9, MovesKeep

-----------------------------------------------------------------------------
(* From step to step.                                                      *)

(* A worker stops. *)
LEMMA StopsKeep ==
  ASSUME FeedConstants, FeedInv, Aside, NEW w \in Workers, Busy(w),
         run' = [run EXCEPT ![w] = Idle], UNCHANGED data
  PROVE  FeedInv'
<1>1. Tells(w, Idle, candles) /\ Idle.alone = FALSE
  BY FreeTells
<1>2. UNCHANGED <<candles, indicators>> /\ indicators \in [Symbols -> Values]
  BY DEF data, FeedInv, FeedTypes
<1> QED  BY <1>1, <1>2, FreeIs, MovesKeep

LEMMA GoesOnKeeps ==
  ASSUME FeedConstants, FeedInv, Aside, NEW w \in Workers,
         run[w].step \in {"ingest", "rebuild"}, NEW result \in {"ok", "failed"},
         result = "ok" => run[w].todo = {}, GoesOn(w, result), UNCHANGED data
  PROVE  FeedInv'
<1>1. Busy(w)
  BY DEF Busy
<1>2. CASE w = "api"
  <2>1. run' = [run EXCEPT ![w] = Idle]
    BY <1>2 DEF GoesOn
  <2> QED  BY <1>1, <2>1, StopsKeep
<1>3. CASE w # "api"
  <2> DEFINE x == run[w]
             y == GoneOn(w, result)
  <2>1. x \in FeedRun /\ Tells(w, x, candles) /\ x.result \in {"ok", "warning", "failed"}
        /\ indicators \in [Symbols -> Values]
    BY DEF FeedInv, FeedTypes, FeedRun
  <2>2. Worse(x.result, result) \in {"ok", "warning", "failed"}
    BY <2>1, WorseIs
  <2>3. NoToken \in 0..EndDay
    BY DEF FeedConstants, NoToken
  <2>4. /\ y.step = "indicators" /\ y.todo = x.args.symbols /\ y.at = x.at
        /\ y.bars = x.bars /\ y.args.symbols = x.args.symbols
        /\ y.result = Worse(x.result, result) /\ y.alone = x.alone
        /\ y.all = x.all /\ y.empty = x.empty
    BY <2>1 DEF GoneOn, FeedRun
  <2>5. y \in FeedRun
    BY <2>1, <2>2, <2>3 DEF GoneOn, FeedRun, Steps
  <2>6. /\ y.result = "ok" => x.result = "ok" /\ result = "ok"
        /\ y.result # "failed" => x.result # "failed" /\ result # "failed"
    <3> HIDE DEF y
    <3> QED  BY <2>1, <2>4, WorseIs
  <2>7. run' = [run EXCEPT ![w] = y]
    BY <1>3 DEF GoesOn
  <2>8. x.alone => Leaves(x, candles, indicators)
    BY DEF FeedInv, LoneInv
  <2> HIDE DEF y
  <2>9. Tells(w, y, candles)
    BY <2>1, <2>4, <2>6 DEF Tells
  <2>10. y.alone => run[w].alone /\ Leaves(y, candles, indicators')
    BY <2>4, <2>8 DEF Leaves
  <2> QED  BY <1>1, <2>1, <2>5, <2>7, <2>9, <2>10, MovesKeep DEF data
<1> QED  BY <1>2, <1>3

LEMMA StepCrashesKeeps ==
  ASSUME FeedConstants, FeedInv, NEW w \in Workers, StepCrashes(w)
  PROVE  FeedInv'
<1> DEFINE x == run[w]
           y == [x EXCEPT !.todo = {}, !.at = NoSymbol, !.bars = "current",
                          !.result = "failed"]
<1>1. x \in FeedRun /\ Tells(w, x, candles) /\ x.step = "indicators"
      /\ indicators \in [Symbols -> Values]
  BY DEF FeedInv, FeedTypes, StepCrashes
<1>2. /\ y \in FeedRun /\ y.step = "indicators" /\ y.at = NoSymbol /\ y.bars = "current"
      /\ y.result = "failed" /\ y.alone = x.alone
      /\ y.all = x.all /\ y.empty = x.empty
  BY <1>1 DEF FeedRun, Bars
<1>3. run' = [run EXCEPT ![w] = y] /\ Aside /\ UNCHANGED <<candles, indicators>> /\ Busy(w)
  BY <1>1 DEF StepCrashes, Aside, data, FeedInv, FeedTypes, Busy
<1> HIDE DEF y
<1>4. Tells(w, y, candles)
  BY <1>2 DEF Tells
<1>5. y.alone => run[w].alone /\ Leaves(y, candles, indicators')
  BY <1>2 DEF Leaves
<1> QED  BY <1>1, <1>2, <1>3, <1>4, <1>5, MovesKeep

-----------------------------------------------------------------------------
(* The steps of a worker.                                                  *)

LEMMA AnswersKeep ==
  ASSUME FeedConstants, FeedInv, NEW w \in Workers, NEW s \in Symbols, At(w, "ingest", s),
         NEW tfs \in SUBSET Timeframes, NEW y, Passes(w, s, y), Aside,
         run[w].empty \subseteq y.empty, "1d" \in tfs \/ s \in y.empty,
         Writes(w, y, s, WithFyers(s, tfs), FALSE)
  PROVE  FeedInv'
<1> DEFINE new == WithFyers(s, tfs)
<1>1. candles[s] \in Sources
  BY DEF FeedInv, FeedTypes
<1>2. new \in Sources
  BY <1>1 DEF WithFyers, Sources
<1>3. "fyers" \in new["1d"] \/ (s \in y.empty /\ new["1d"] = candles[s]["1d"])
  BY DEF WithFyers, Timeframes
<1>4. ASSUME candles[s] = AllFyers  PROVE new = AllFyers
  BY <1>4 DEF WithFyers, AllFyers
<1>5. run[w].step \in {"ingest", "rebuild"} /\ run[w].step # "rebuild"
  BY DEF At
<1>6. Commits(w, s, y, new, FALSE)
  <2> HIDE DEF new
  <2> QED  BY <1>2, <1>3, <1>4, <1>5 DEF Commits, new
<1> HIDE DEF new
<1> QED  BY <1>6, CommitsKeep

(* Nothing in the answer, and nothing written. *)
LEMMA NothingKeeps ==
  ASSUME FeedConstants, FeedInv, NEW w \in Workers, NEW s \in Symbols, At(w, "ingest", s),
         Aside, UNCHANGED data, run' = [run EXCEPT ![w] = Missed(w, s)]
  PROVE  FeedInv'
<1> DEFINE x == run[w]
<1>1. x \in FeedRun /\ Tells(w, x, candles) /\ x.step = "ingest" /\ Busy(w)
      /\ indicators \in [Symbols -> Values] /\ UNCHANGED <<candles, indicators>>
  BY DEF FeedInv, FeedTypes, At, Busy, data
<1>2. PICK y : y = Missed(w, s)
  OBVIOUS
<1>3. /\ y \in FeedRun /\ y.empty = x.empty \cup {s}
      /\ y.step = x.step /\ y.todo = x.todo \ {s} /\ y.at = NoSymbol /\ y.bars = "current"
      /\ y.result = x.result /\ y.alone = x.alone /\ y.all = x.all
  BY <1>1, <1>2, MissedPasses DEF Passes
<1>4. Tells(w, y, candles)
  BY <1>1, <1>3 DEF Tells
<1>5. y.alone => run[w].alone /\ Leaves(y, candles, indicators')
  BY <1>1, <1>3 DEF Leaves
<1> QED  BY <1>1, <1>2, <1>3, <1>4, <1>5, MovesKeep

LEMMA IngestsLessKeeps ==
  ASSUME FeedConstants, FeedInv, NEW w \in Workers, NEW s \in Symbols, IngestsLess(w, s)
  PROVE  FeedInv'
<1>1. At(w, "ingest", s) /\ Aside /\ run[w] \in FeedRun
  BY DEF IngestsLess, Aside, FeedInv, FeedTypes
<1>2. CASE Writes(w, Ticked(w, s, "ok"), s, WithFyers(s, {"1d"}), FALSE)
  <2>1. {"1d"} \in SUBSET Timeframes
    BY DEF Timeframes
  <2> QED  BY <1>1, <1>2, <2>1, TickedPasses, AnswersKeep
<1>3. CASE Writes(w, Missed(w, s), s, WithFyers(s, {"1h", "4h"}), FALSE)
  <2>1. {"1h", "4h"} \in SUBSET Timeframes
    BY DEF Timeframes
  <2> QED  BY <1>1, <1>3, <2>1, MissedPasses, AnswersKeep
<1>4. CASE run' = [run EXCEPT ![w] = Missed(w, s)] /\ UNCHANGED data
  BY <1>1, <1>4, NothingKeeps
<1> QED  BY <1>2, <1>3, <1>4 DEF IngestsLess

LEMMA RebuildsKeep ==
  ASSUME FeedConstants, FeedInv, NEW w \in Workers, NEW s \in Symbols,
         run[w].step \in {"ingest", "rebuild"}, Rebuilds(w, s)
  PROVE  FeedInv'
<1>1. AllFyers \in Sources /\ "fyers" \in AllFyers["1d"]
  BY DEF AllFyers, Sources, Timeframes
<1>2. Aside /\ run[w] \in FeedRun
  BY DEF Rebuilds, Aside, FeedInv, FeedTypes
<1>3. PICK y : y = Ticked(w, s, "ok")
  OBVIOUS
<1>4. /\ Passes(w, s, y) /\ run[w].empty \subseteq y.empty
      /\ Writes(w, y, s, AllFyers, TRUE)
  BY <1>2, <1>3, TickedPasses DEF Rebuilds
<1>5. Commits(w, s, y, AllFyers, TRUE)
  BY <1>1, <1>4 DEF Commits
<1> QED  BY <1>2, <1>5, CommitsKeep

LEMMA WorksKeep ==
  ASSUME FeedConstants, FeedInv, NEW w \in Workers, Works(w)
  PROVE  FeedInv'
<1>1. CASE \E s \in Symbols : Ingests(w, s)
  <2>1. PICK s \in Symbols : Ingests(w, s)
    BY <1>1
  <2>2. Aside /\ "1d" \in Timeframes /\ run[w] \in FeedRun
    BY <2>1 DEF Ingests, Aside, FeedInv, FeedTypes, Timeframes
  <2> QED  BY <2>1, <2>2, TickedPasses, AnswersKeep DEF Ingests
<1>2. CASE \E s \in Symbols : CutsOver(w, s) \/ Readjusts(w, s)
  BY <1>2, RebuildsKeep DEF CutsOver, Readjusts, At
<1>3. CASE \E s \in Symbols : Loads(w, s) \/ Stores(w, s)
  BY <1>3, LoadsKeeps, StoresKeeps
<1>4. CASE IngestEnds(w)
  <2>1. Aside
    BY <1>4 DEF IngestEnds, Aside, FeedInv, FeedTypes
  <2> QED  BY <1>4, <2>1, GoesOnKeeps DEF IngestEnds, Through
<1>5. CASE IngestLosesLogin(w)
  <2>1. Aside
    BY <1>5 DEF IngestLosesLogin, Aside, FeedInv, FeedTypes
  <2> QED  BY <1>5, <2>1, GoesOnKeeps DEF IngestLosesLogin, ResultOfLostLogin
<1>6. CASE RebuildEnds(w)
  <2>1. Aside /\ Busy(w) /\ UNCHANGED data
    BY <1>6 DEF RebuildEnds, Aside, FeedInv, FeedTypes, Busy, Through
  <2>2. CASE Recomputes(w)
    BY <1>6, <2>1, <2>2, GoesOnKeeps DEF RebuildEnds, Through
  <2>3. CASE ~Recomputes(w)
    BY <1>6, <2>1, <2>3, StopsKeep DEF RebuildEnds
  <2> QED  BY <2>2, <2>3
<1>7. CASE RebuildLosesLogin(w)
  <2>1. Aside /\ Busy(w) /\ UNCHANGED data /\ run' = [run EXCEPT ![w] = Idle]
    BY <1>7 DEF RebuildLosesLogin, Aside, FeedInv, FeedTypes, Busy
  <2> QED  BY <2>1, StopsKeep
<1>8. CASE Ends(w)
  <2>1. Aside /\ Busy(w) /\ UNCHANGED data /\ run' = [run EXCEPT ![w] = Idle]
    BY <1>8 DEF Ends, ExitCode, Aside, FeedInv, FeedTypes, Busy, Through
  <2> QED  BY <2>1, StopsKeep
<1> QED  BY <1>1, <1>2, <1>3, <1>4, <1>5, <1>6, <1>7, <1>8 DEF Works

LEMMA GoesWrongKeeps ==
  ASSUME FeedConstants, FeedInv, NEW w \in Workers,
         \/ StepCrashes(w) \/ Dies(w)
         \/ \E s \in Symbols : IngestsLess(w, s) \/ Fails(w, s) \/ ComputeFails(w, s)
  PROVE  FeedInv'
<1>1. CASE Dies(w)
  <2>1. Aside /\ UNCHANGED data /\ run' = [run EXCEPT ![w] = Idle] /\ Busy(w)
    BY <1>1 DEF Dies, Aside, FeedInv, FeedTypes
  <2> QED  BY <2>1, StopsKeep
<1> QED  BY <1>1, IngestsLessKeeps, StepCrashesKeeps, FailsKeeps, ComputeFailsKeeps

-----------------------------------------------------------------------------
(* Starts.                                                                 *)

(* What a worker starts with: only the cutover rebuilds, all that it leaves *)
(* aside is done, and the indicators come first only when the fetch has     *)
(* failed.                                                                 *)
Sensible(w, step, result, todo, args, all) ==
  /\ step \in {"ingest", "rebuild", "indicators"} /\ result \in {"ok", "failed"}
  /\ todo \in SUBSET Symbols /\ args \in [symbols : SUBSET Symbols, anyway : BOOLEAN]
  /\ all \in BOOLEAN
  /\ (step = "rebuild" => w = "cutover") /\ (step = "ingest" => w # "cutover")
  /\ all = TRUE /\ step = "rebuild" => \A s \in Symbols \ todo : candles[s] = AllFyers
  /\ step = "ingest" => todo = Symbols
  /\ step = "indicators" => todo = args.symbols /\ (all = TRUE => result = "failed")

LEMMA StartedIs ==
  ASSUME FeedConstants, FeedTypes, NEW w \in Workers, NEW step, NEW result, NEW todo,
         NEW args, NEW all, Sensible(w, step, result, todo, args, all)
  PROVE  LET x == Started(w, step, result, todo, args, all)
         IN  /\ x \in FeedRun /\ x.step = step /\ x.todo = todo /\ x.at = NoSymbol
             /\ x.bars = "current" /\ x.result = result /\ x.all = all /\ x.args = args
             /\ x.alone => \A o \in Workers \ {w} : run[o].step = "idle"
<1> DEFINE x == Started(w, step, result, todo, args, all)
<1>1. stored \in 0..EndDay
  BY DEF FeedTypes
<1>2. /\ x \in FeedRun /\ x.step = step /\ x.todo = todo /\ x.at = NoSymbol
      /\ x.bars = "current" /\ x.result = result /\ x.all = all /\ x.args = args
  <2>1. /\ step \in {"ingest", "rebuild", "indicators"} /\ result \in {"ok", "failed"}
        /\ todo \in SUBSET Symbols /\ all \in BOOLEAN
        /\ args \in [symbols : SUBSET Symbols, anyway : BOOLEAN]
    BY DEF Sensible
  <2>2. (\A o \in Workers \ {w} : ~Busy(o)) \in BOOLEAN
    OBVIOUS
  <2>3. x.step = step /\ x.todo = todo /\ x.at = NoSymbol /\ x.bars = "current"
    BY DEF Started, Idle
  <2>4. x.result = result /\ x.all = all /\ x.args = args
    BY DEF Started, Idle
  <2>5. x \in FeedRun
    BY <1>1, <2>1, <2>2, FreeIs, ZenonT(30) DEF Started, FeedRun, Steps
  <2> QED  BY <2>3, <2>4, <2>5
<1>3. x.alone => \A o \in Workers \ {w} : run[o].step = "idle"
  BY DEF Started, Idle, Busy
<1> QED  BY <1>2, <1>3

LEMMA StartsKeep ==
  ASSUME FeedConstants, FeedInv, NEW w \in Workers, NEW step, NEW result, NEW todo,
         NEW args, NEW all, Sensible(w, step, result, todo, args, all),
         Starts(w, step, result, todo, args, all),
         UNCHANGED <<auth, enabled, data>>, jobDay' \in 0..EndDay, events' \in 0..MaxEvents,
         exit' \in {"none", "ok", "failed", "login"}
  PROVE  FeedInv'
<1> DEFINE x == Started(w, step, result, todo, args, all)
<1>1. /\ Becomes(w, x)
      /\ \A o \in Workers \ {w} : run'[o].alone = FALSE
      /\ run'[w].alone => \A o \in Workers \ {w} : run[o].step = "idle"
      /\ run'[w].step = step /\ run'[w].todo = todo /\ run'[w].at = NoSymbol
      /\ run'[w].bars = "current" /\ run'[w].result = result
      /\ run'[w].all = all /\ run'[w].args = args
  <2>1. /\ x \in FeedRun /\ x.step = step /\ x.todo = todo /\ x.at = NoSymbol
        /\ x.bars = "current" /\ x.result = result /\ x.all = all /\ x.args = args
        /\ x.alone => \A o \in Workers \ {w} : run[o].step = "idle"
    <3>1. FeedTypes
      BY DEF FeedInv
    <3> QED  BY <3>1, StartedIs
  <2>3. run' = [v \in Workers |-> IF v # w THEN [run[v] EXCEPT !.alone = FALSE] ELSE x]
    BY DEF Starts, Started
  <2> HIDE DEF x
  <2>4. ASSUME NEW o \in Workers \ {w}
        PROVE  /\ run'[o] \in FeedRun /\ Like(run[o], run'[o]) /\ run'[o].alone = FALSE
    <3>1. run[o] \in FeedRun /\ run'[o] = [run[o] EXCEPT !.alone = FALSE]
      BY <2>3 DEF FeedInv, FeedTypes
    <3> QED  BY <3>1 DEF FeedRun, Like
  <2>5. run' \in [Workers -> FeedRun] /\ run'[w] = x
    BY <2>1, <2>3, <2>4
  <2> QED  BY <2>1, <2>4, <2>5 DEF Becomes, x
<1> HIDE DEF x
<1>2. UNCHANGED <<day, stored, enabled, candles, indicators>>
  BY DEF auth, data
<1>3. FeedTypes'
  BY <1>1, <1>2 DEF FeedInv, FeedTypes, Becomes
<1>4. Grows(candles, candles')
  BY <1>2 DEF Grows
<1>5. ASSUME NEW o \in Workers  PROVE Tells(o, run'[o], candles')
  <2>1. CASE o = w
    BY <1>1, <1>2, <2>1 DEF Tells, Sensible
  <2>2. CASE o # w
    <3>1. Like(run[o], run'[o]) /\ Tells(o, run[o], candles)
      BY <1>1, <2>2 DEF Becomes, FeedInv
    <3> QED  BY <1>4, <3>1, GrowTells
  <2> QED  BY <2>1, <2>2
<1>6. ASSUME NEW v \in Workers, run'[v].alone
      PROVE  /\ \A o \in Workers \ {v} : run'[o].step = "idle"
             /\ Leaves(run'[v], candles', indicators')
  <2>1. v = w
    BY <1>1, <1>6
  <2>2. \A o \in Workers \ {w} : run'[o].step = "idle"
    BY <1>1, <1>6, <2>1 DEF Becomes, Like
  <2> QED  BY <1>1, <2>1, <2>2 DEF Leaves, Sensible
<1>7. LoneInv'
  BY <1>6 DEF LoneInv
<1> QED  BY <1>3, <1>5, <1>7 DEF FeedInv

LEMMA EverythingIs ==
  /\ Everything \in [symbols : SUBSET Symbols, anyway : BOOLEAN]
  /\ Everything.symbols = Symbols
BY DEF Everything

LEMMA JobStartsKeeps ==
  ASSUME FeedConstants, FeedInv, JobStarts
  PROVE  FeedInv'
<1>1. /\ UNCHANGED <<auth, enabled, data>> /\ jobDay' \in 0..EndDay
      /\ events' \in 0..MaxEvents /\ exit' \in {"none", "ok", "failed", "login"}
      /\ "job" \in Workers
  BY DEF JobStarts, FeedInv, FeedTypes
<1>2. CASE Starts("job", "ingest", "ok", Symbols, Everything, TRUE)
  <2>1. Sensible("job", "ingest", "ok", Symbols, Everything, TRUE)
    BY EverythingIs DEF Sensible
  <2> QED  BY <1>1, <1>2, <2>1, StartsKeep
<1>3. CASE Starts("job", "indicators", "failed", Symbols, Everything, TRUE)
  <2>1. Sensible("job", "indicators", "failed", Symbols, Everything, TRUE)
    BY EverythingIs DEF Sensible
  <2> QED  BY <1>1, <1>3, <2>1, StartsKeep
<1> QED  BY <1>2, <1>3 DEF JobStarts

LEMMA ApiStartsKeeps ==
  ASSUME FeedConstants, FeedInv, NEW step \in {"ingest", "indicators"}, ApiStarts(step)
  PROVE  FeedInv'
<1>1. /\ UNCHANGED <<auth, enabled, data>> /\ jobDay' \in 0..EndDay
      /\ events' \in 0..MaxEvents /\ exit' \in {"none", "ok", "failed", "login"}
      /\ "api" \in Workers
  BY DEF ApiStarts, FeedInv, FeedTypes, FeedConstants
<1>2. Starts("api", step, "ok", Symbols, Everything, FALSE)
  BY DEF ApiStarts
<1>3. Sensible("api", step, "ok", Symbols, Everything, FALSE)
  BY EverythingIs DEF Sensible
<1> QED  BY <1>1, <1>2, <1>3, StartsKeep

(* What the plan of the whole cutover leaves out is done. *)
LEMMA PlanIsComplete ==
  ASSUME FeedConstants, FeedTypes, NEW args \in Invocation, args.symbols = Symbols,
         args.limit >= Cardinality(Symbols), NEW s \in Symbols \ Plan(args)
  PROVE  candles[s] = AllFyers
<1> DEFINE undone == {o \in args.symbols : ~Done(o)}
           before == {o \in undone : o < s}
<1>1. candles[s] \in Sources
  BY DEF FeedTypes
<1>2. Done(s)
  <2> SUFFICES ASSUME ~Done(s)  PROVE FALSE
    OBVIOUS
  <2>1. s \in undone /\ ~(Cardinality(before) < args.limit)
    BY DEF Plan
  <2>2. before \in SUBSET Symbols /\ s \notin before
    BY DEF FeedConstants
  <2>3. /\ IsFiniteSet(before) /\ Cardinality(before) <= Cardinality(Symbols)
        /\ Cardinality(before) # Cardinality(Symbols)
    <3> HIDE DEF before
    <3>1. IsFiniteSet(Symbols)
      BY DEF FeedConstants
    <3> QED  BY <2>2, <3>1, FS_Subset
  <2>4. Cardinality(before) \in Nat /\ Cardinality(Symbols) \in Nat /\ args.limit \in Nat
    BY <2>3, FS_CardinalityType DEF FeedConstants, Invocation
  <2> HIDE DEF before
  <2> QED  BY <2>1, <2>3, <2>4
<1> QED  BY <1>1, <1>2 DEF Done, AllFyers, Sources

LEMMA CutoverStartsKeeps ==
  ASSUME FeedConstants, FeedInv, NEW args \in Invocations, CutoverStarts(args)
  PROVE  FeedInv'
<1> DEFINE all == args.symbols = Symbols /\ args.limit >= Cardinality(Symbols)
           kept == [symbols |-> args.symbols, anyway |-> args.anyway]
           todo == Plan(args)
<1>1. args \in Invocation
  BY DEF FeedConstants
<1>2. kept \in [symbols : SUBSET Symbols, anyway : BOOLEAN]
  BY <1>1 DEF Invocation
<1>3. todo \in SUBSET Symbols
  BY <1>1 DEF Plan, Invocation
<1>4. all = TRUE => \A s \in Symbols \ todo : candles[s] = AllFyers
  BY <1>1, PlanIsComplete DEF FeedInv
<1>5. Starts("cutover", "rebuild", "ok", todo, kept, all) /\ "cutover" \in Workers
  BY DEF CutoverStarts
<1>6. all \in BOOLEAN
  OBVIOUS
<1>7. /\ UNCHANGED <<auth, enabled, data>> /\ jobDay' \in 0..EndDay
      /\ events' \in 0..MaxEvents /\ exit' \in {"none", "ok", "failed", "login"}
  BY DEF CutoverStarts, FeedInv, FeedTypes
<1> HIDE DEF all, kept, todo
<1>8. Sensible("cutover", "rebuild", "ok", todo, kept, all)
  BY <1>2, <1>3, <1>4, <1>6 DEF Sensible
<1> QED  BY <1>5, <1>7, <1>8, StartsKeep

-----------------------------------------------------------------------------
LEMMA FeedInvInit == FeedConstants /\ FeedInit => FeedInv
<1> SUFFICES ASSUME FeedConstants, FeedInit  PROVE FeedInv
  OBVIOUS
<1>1. \A w \in Workers : run[w] = Idle /\ Tells(w, Idle, candles) /\ Idle.alone = FALSE
  BY FreeTells DEF FeedInit
<1>2. LoneInv
  BY <1>1 DEF LoneInv
<1>3. FeedTypes
  <2>1. candles \in [Symbols -> Sources] /\ indicators \in [Symbols -> Values]
    BY DEF FeedInit, Sources, Values
  <2>2. run \in [Workers -> FeedRun]
    BY FreeIs DEF FeedInit
  <2>3. /\ day \in 1..EndDay /\ stored \in 0..EndDay
        /\ enabled \in BOOLEAN /\ jobDay \in 0..EndDay /\ events \in 0..MaxEvents
        /\ exit \in {"none", "ok", "failed", "login"}
    BY DEF FeedInit, FeedConstants, NoToken
  <2> QED  BY <2>1, <2>2, <2>3 DEF FeedTypes
<1> QED  BY <1>1, <1>2, <1>3 DEF FeedInv

(* The login, the day and the setting are the workers' business only in    *)
(* their guards.                                                           *)
LEMMA WorldKeeps ==
  ASSUME FeedConstants, FeedInv,
         LogsIn \/ LogsOut \/ TokenDies \/ Toggles \/ UNCHANGED feedVars
  PROVE  FeedInv'
<1>1. UNCHANGED <<candles, indicators, run, jobDay, exit, events>>
  BY DEF LogsIn, LogsOut, TokenDies, Toggles, feedVars, data
<1>2. day' \in 1..EndDay /\ stored' \in 0..EndDay /\ enabled' \in BOOLEAN
  <2>1. day \in 1..EndDay /\ stored \in 0..EndDay /\ enabled \in BOOLEAN /\ EndDay \in Nat
    BY DEF FeedInv, FeedTypes, FeedConstants
  <2>2. CASE LogsIn
    BY <2>1, <2>2 DEF LogsIn
  <2>5. CASE LogsOut
    BY <2>1, <2>5 DEF LogsOut, NoToken
  <2>3. CASE TokenDies
    BY <2>1, <2>3 DEF TokenDies
  <2>6. CASE Toggles
    BY <2>1, <2>6, Zenon DEF Toggles, auth
  <2>4. CASE UNCHANGED feedVars
    BY <2>1, <2>4 DEF feedVars, auth
  <2> QED  BY <2>2, <2>3, <2>4, <2>5, <2>6
<1>3. FeedTypes'
  BY <1>1, <1>2 DEF FeedInv, FeedTypes
<1>4. LoneInv'
  BY <1>1 DEF FeedInv, LoneInv
<1>5. \A w \in Workers : Tells(w, run'[w], candles')
  BY <1>1 DEF FeedInv
<1> QED  BY <1>3, <1>4, <1>5 DEF FeedInv

LEMMA FeedInvStep == FeedConstants /\ FeedInv /\ [FeedNext]_feedVars => FeedInv'
BY WorldKeeps, JobStartsKeeps, ApiStartsKeeps, CutoverStartsKeeps, WorksKeep,
   GoesWrongKeeps DEF FeedNext

LEMMA FeedHolds == FeedSpec => []FeedInv
<1>1. FeedInit => FeedInv
  BY FeedInvInit, FeedConstants
<1>2. FeedInv /\ [FeedNext]_feedVars => FeedInv'
  BY FeedInvStep, FeedConstants
<1> QED  BY <1>1, <1>2, PTL DEF FeedSpec

-----------------------------------------------------------------------------
(* Only the end of a cutover says that it went well. *)
LEMMA ExitsBecomeOk ==
  ASSUME FeedNext, exit # "ok", exit' = "ok"
  PROVE  "cutover" \in Workers /\ Through("cutover", "indicators")
         /\ run["cutover"].result # "failed"
<1>1. ~(LogsIn \/ LogsOut \/ TokenDies \/ Toggles \/ JobStarts)
  BY DEF LogsIn, LogsOut, TokenDies, Toggles, JobStarts
<1>2. ~(\E step \in {"ingest", "indicators"} : ApiStarts(step))
      /\ ~(\E args \in Invocations : CutoverStarts(args))
  BY DEF ApiStarts, CutoverStarts
<1>3. ASSUME NEW w \in Workers, NEW s \in Symbols
      PROVE  ~(Ingests(w, s) \/ CutsOver(w, s) \/ Readjusts(w, s) \/ Loads(w, s) \/ Stores(w, s)
               \/ IngestsLess(w, s) \/ Fails(w, s) \/ ComputeFails(w, s))
  <2>1. ~(Ingests(w, s) \/ CutsOver(w, s) \/ Readjusts(w, s) \/ IngestsLess(w, s))
    BY DEF Ingests, CutsOver, Readjusts, Rebuilds, IngestsLess
  <2>2. ~(Loads(w, s) \/ Stores(w, s) \/ Fails(w, s) \/ ComputeFails(w, s))
    BY DEF Loads, Stores, Fails, ComputeFails
  <2> QED  BY <2>1, <2>2
<1>4. \A w \in Workers :
        ~(IngestEnds(w) \/ IngestLosesLogin(w) \/ RebuildEnds(w) \/ RebuildLosesLogin(w)
          \/ StepCrashes(w) \/ Dies(w))
  BY DEF IngestEnds, IngestLosesLogin, RebuildEnds, RebuildLosesLogin, StepCrashes, Dies
<1>5. PICK w \in Workers : Ends(w)
  BY <1>1, <1>2, <1>3, <1>4 DEF FeedNext, Works
<1>6. w = "cutover" /\ ExitCode(run[w].result) = "ok"
  BY <1>5 DEF Ends
<1> QED  BY <1>5, <1>6 DEF Ends, ExitCode

(* What the end of a run says of the candles: EndsTell.  The cutover of all *)
(* symbols exits with 0 only when all candles are from Fyers, and a job     *)
(* without a failure has asked Fyers for every symbol, however they overlap, *)
(* fail and are limited: an empty answer alone leaves one without its bars  *)
(* (main of cutover_to_fyers, run_ingest, _ingest_symbol_fyers).            *)
THEOREM EndsAreTrue == FeedSpec => EndsTell
<1> DEFINE Tell ==
      /\ exit # "ok" /\ exit' = "ok" /\ run["cutover"].all =>
           \A s \in Symbols : candles[s] = AllFyers
      /\ \A w \in Workers \ {"cutover"} : EndsWell(w) /\ run[w].all =>
           \A s \in Symbols \ run[w].empty : "fyers" \in candles[s]["1d"]
<1>1. FeedInv /\ [FeedNext]_feedVars => [Tell]_feedVars
  <2> SUFFICES ASSUME FeedInv, FeedNext  PROVE Tell
    OBVIOUS
  <2>1. \A w \in Workers : Tells(w, run[w], candles)
    BY DEF FeedInv
  <2>2. ASSUME exit # "ok", exit' = "ok", run["cutover"].all
        PROVE  \A s \in Symbols : candles[s] = AllFyers
    BY <2>1, <2>2, ExitsBecomeOk DEF Through, Tells
  <2>3. ASSUME NEW w \in Workers \ {"cutover"}, EndsWell(w), run[w].all
        PROVE  \A s \in Symbols \ run[w].empty : "fyers" \in candles[s]["1d"]
    BY <2>1, <2>3 DEF EndsWell, Through, Tells
  <2> QED  BY <2>2, <2>3
<1>2. EndsTell <=> [][Tell]_feedVars
  BY DEF EndsTell
<1> HIDE DEF Tell
<1> QED  BY <1>1, <1>2, FeedHolds, PTL DEF FeedSpec

(* What a run that had the candles to itself leaves: LeavesCurrentIndicators. *)
(* It computes after all it fetched, and from bars nobody has rewritten, for  *)
(* whatever the failed and killed runs before it left (run_compute).          *)
THEOREM LoneRunsRefresh == FeedSpec => LeavesCurrentIndicators
<1> DEFINE Left ==
      \A w \in Workers \ {"api"} :
        EndsWell(w) /\ run[w].alone /\ run[w].args.symbols = Symbols =>
          \A s \in Symbols : candles[s] # [tf \in Timeframes |-> {}] =>
            indicators[s] \in {"current", "mixed"}
<1>1. FeedInv => [Left]_feedVars
  <2> SUFFICES ASSUME FeedInv, NEW w \in Workers \ {"api"},
                      EndsWell(w), run[w].alone, run[w].args.symbols = Symbols
               PROVE  \A s \in Symbols : candles[s] # [tf \in Timeframes |-> {}] =>
                        indicators[s] \in {"current", "mixed"}
    OBVIOUS
  <2>1. Leaves(run[w], candles, indicators)
    BY DEF FeedInv, LoneInv
  <2>2. run[w].step = "indicators" /\ run[w].todo = {} /\ run[w].result = "ok"
    BY DEF EndsWell, Through
  <2> QED  BY <2>1, <2>2 DEF Leaves, Empty
<1>2. LeavesCurrentIndicators <=> [][Left]_feedVars
  BY DEF LeavesCurrentIndicators
<1> HIDE DEF Left
<1> QED  BY <1>1, <1>2, FeedHolds, PTL DEF FeedSpec
=============================================================================
