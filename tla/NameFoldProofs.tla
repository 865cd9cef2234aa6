--------------------------- MODULE NameFoldProofs ---------------------------
(***************************************************************************)
(* Theorems of NameFold for every value of its constants: types, and the   *)
(* invariant under which the anchor guard and the market are sound.        *)
(***************************************************************************)
EXTENDS NameFold, FiniteSetTheorems, SequenceTheorems, TLAPS

-----------------------------------------------------------------------------
(* The helpers of the fold *)

\* The larger of two integers (state.c:161, lease.c:45-47).
LEMMA LaterIsMax ==
  ASSUME NEW x \in Int, NEW y \in Int
  PROVE  /\ Later(x, y) \in {x, y}
         /\ x <= Later(x, y) /\ y <= Later(x, y)
  BY DEF Later

\* sm_bump_mutation raises the stamps of S to h and lowers none.
LEMMA BumpRaises ==
  ASSUME muts \in [Owners -> Nat], NEW S, NEW h \in Nat
  PROVE  /\ Bump(S, h) \in [Owners -> Nat]
         /\ \A o \in Owners : muts[o] <= Bump(S, h)[o]
         /\ \A o \in Owners : o \in S => h <= Bump(S, h)[o]
         /\ \A o \in Owners : Bump(S, h)[o] \in {muts[o], h}
  BY DEF Bump, Later

\* The days a lease can grow fit under the cap, from now.
LEMMA HeadroomFits ==
  ASSUME NEW r \in Row, mtp \in Nat
  PROVE  /\ Headroom(r) \in Nat
         /\ r.lease <= mtp + MaxLease =>
              Later(r.lease, mtp) + Headroom(r) * Billing <= mtp + MaxLease
         /\ r.lease = mtp => Headroom(r) >= 1
<1> DEFINE rem == Remaining(r)
<1>1. r.lease \in Int
  BY DEF Row
<1>2. rem \in Nat /\ rem = Later(r.lease - mtp, 0)
  BY <1>1, LaterIsMax DEF Remaining, Later
<1>3. Billing \in Nat \ {0} /\ MaxLease \in Nat /\ Billing <= MaxLease
  BY TimeAssumption
<1>4. PICK q \in Int : q = (MaxLease - rem) \div Billing
  BY <1>2, <1>3
<1>5. q * Billing <= MaxLease - rem
  BY <1>2, <1>3, <1>4
<1>6. Headroom(r) = Later(q, 0)
  BY <1>4 DEF Headroom
<1>7. Headroom(r) \in Nat
  BY <1>6 DEF Later
<1>8. ASSUME r.lease <= mtp + MaxLease
      PROVE  Later(r.lease, mtp) + Headroom(r) * Billing <= mtp + MaxLease
  <2>1. Later(r.lease, mtp) = mtp + rem
    BY <1>1, <1>2 DEF Later
  <2>2. rem <= MaxLease
    BY <1>1, <1>2, <1>3, <1>8 DEF Later
  <2>3. Headroom(r) * Billing <= MaxLease - rem
    BY <1>3, <1>5, <1>6, <1>2, <2>2 DEF Later
  <2> QED
    BY <2>1, <2>3, <1>1, <1>2, <1>3, <1>7
<1>9. ASSUME r.lease = mtp
      PROVE  Headroom(r) >= 1
  <2>1. rem = 0
    BY <1>2, <1>9 DEF Later
  <2>2. q >= 1
    BY <2>1, <1>3, <1>4
  <2> QED
    BY <2>2, <1>6 DEF Later
<1> QED
  BY <1>7, <1>8, <1>9

\* The days one name can receive at most.
LEMMA MaxDaysPositive == MaxDays \in Nat /\ MaxDays >= 1
  BY TimeAssumption DEF MaxDays

\* The water level is a number of days.
LEMMA LevelType ==
  ASSUME NEW rows, NEW S, NEW T
  PROVE  Level(rows, S, T) \in Nat
<1>1. IsFiniteSet(1..MaxDays)
  BY FS_Interval, MaxDaysPositive
<1>2. IsFiniteSet({l \in 1..MaxDays : Poured(rows, S, l) <= T})
  BY <1>1, FS_Subset
<1> QED
  BY <1>2, FS_CardinalityType DEF Level

\* No name is awarded more days than it has headroom for, and none loses any.
LEMMA AwardBounds ==
  ASSUME NEW rows \in [Names -> Row], NEW S \in SUBSET Names, NEW T,
         NEW n \in S, mtp \in Nat
  PROVE  Award(rows, S, T, n) \in 0 .. Headroom(rows[n])
<1>1. Level(rows, S, T) \in Nat
  BY LevelType
<1>2. Headroom(rows[n]) \in Nat
  BY HeadroomFits
<1> QED
  BY <1>1, <1>2 DEF Award

\* One name alone receives a day whenever the burn buys one (claim.c:66).
LEMMA AwardPositive ==
  ASSUME NEW rows \in [Names -> Row], NEW n \in Names, NEW T \in Int, T >= 1,
         mtp \in Nat, rows[n].lease = mtp
  PROVE  Award(rows, {n}, T, n) >= 1
<1> DEFINE L == {l \in 1..MaxDays : Poured(rows, {n}, l) <= T}
<1>1. Headroom(rows[n]) \in Nat /\ Headroom(rows[n]) >= 1
  BY HeadroomFits
<1> DEFINE days == {p \in {n} \X (1..MaxDays) : p[2] <= 1 /\ p[2] <= Headroom(rows[p[1]])}
<1>2. days = {<<n, 1>>}
  BY <1>1, MaxDaysPositive
<1>3. Poured(rows, {n}, 1) = 1
  BY <1>2, FS_Singleton DEF Poured
<1>4. 1 \in L
  BY <1>3, MaxDaysPositive
<1>5. IsFiniteSet(L)
  <2>1. IsFiniteSet(1..MaxDays)
    BY FS_Interval, MaxDaysPositive
  <2> QED
    BY <2>1, FS_Subset
<1>6. Cardinality(L) # 0
  BY <1>4, <1>5, FS_EmptySet
<1>7. Level(rows, {n}, T) >= 1
  <2>1. Level(rows, {n}, T) = Cardinality(L)
    BY DEF Level
  <2>2. Level(rows, {n}, T) \in Nat
    BY LevelType
  <2> QED
    BY <1>6, <2>1, <2>2
<1> QED
  BY <1>1, <1>7, LevelType DEF Award

\* What the water-fill does to the rows: leases grow, up to the cap, and
\* nothing else changes (lease.c:75-78).
LEMMA WaterfillExtends ==
  ASSUME NEW rows \in [Names -> Row], NEW S \in SUBSET Names, NEW burn, mtp \in Nat
  PROVE  /\ Waterfill(rows, S, burn) \in [Names -> Row]
         /\ \A n \in Names :
              LET w == Waterfill(rows, S, burn)[n]
              IN  /\ w = [rows[n] EXCEPT !.lease = w.lease]
                  /\ rows[n].lease <= w.lease
                  /\ rows[n].lease <= mtp + MaxLease => w.lease <= mtp + MaxLease
<1> SUFFICES ASSUME NEW n \in Names
             PROVE  LET w == Waterfill(rows, S, burn)[n]
                    IN  /\ w \in Row
                        /\ w = [rows[n] EXCEPT !.lease = w.lease]
                        /\ rows[n].lease <= w.lease
                        /\ rows[n].lease <= mtp + MaxLease => w.lease <= mtp + MaxLease
  BY DEF Waterfill
<1>1. CASE n \notin S
  BY <1>1 DEF Waterfill, Row
<1>2. CASE n \in S
  <2> DEFINE award == Award(rows, S, Days(burn), n)
             head  == Headroom(rows[n])
  <2>1. Waterfill(rows, S, burn)[n] = [rows[n] EXCEPT !.lease = @ + award * Billing]
    BY <1>2 DEF Waterfill
  <2>2. award \in Nat /\ head \in Nat /\ award <= head
    BY <1>2, AwardBounds, HeadroomFits
  <2>3. Billing \in Nat /\ MaxLease \in Nat
    BY TimeAssumption
  <2>4. award * Billing \in Nat /\ award * Billing <= head * Billing
    <3> HIDE DEF award, head
    <3> QED BY <2>2, <2>3
  <2>5. rows[n].lease \in Int /\ rows[n] \in Row
    BY DEF Row
  <2>6. rows[n].lease <= mtp + MaxLease =>
          Later(rows[n].lease, mtp) + head * Billing <= mtp + MaxLease
    BY HeadroomFits
  <2>7. head * Billing \in Int
    BY <2>2, <2>3
  <2> HIDE DEF award, head
  <2>8. rows[n].lease <= mtp + MaxLease => rows[n].lease + award * Billing <= mtp + MaxLease
    BY <2>3, <2>4, <2>5, <2>6, <2>7, LaterIsMax
  <2> QED
    BY <2>1, <2>4, <2>5, <2>8 DEF Row
<1> QED
  BY <1>1, <1>2

LEMMA NoRowType == NoRow \in Row /\ NoRow.st = "NONE"
  BY DEF NoRow, Row, LockedStates

\* A cleared row (preblock.c:13-22, market.c:36-40).
LEMMA OwnedRowType ==
  ASSUME NEW o \in Owners \cup {NoOne}, NEW x \in Int
  PROVE  /\ OwnedRow(o, x) \in Row
         /\ OwnedRow(o, x).st = "OWNED"
         /\ OwnedRow(o, x).owner = o
         /\ OwnedRow(o, x).lease = x
  BY NoRowType DEF OwnedRow, Row

\* A reservation that closes while its listing runs (preblock.c:31-35).
LEMMA RelistedRow ==
  ASSUME NEW r \in Row
  PROVE  LET q == [r EXCEPT !.st = "LISTED", !.reserve = 0, !.burn = 0, !.pay = 0,
                            !.buyer = NoOne]
         IN  /\ q \in Row /\ q.st = "LISTED" /\ q.owner = r.owner
             /\ q.seller = r.seller /\ q.lease = r.lease /\ q.offer = r.offer
<1> DEFINE q1 == [r EXCEPT !.st = "LISTED"]
           q2 == [q1 EXCEPT !.reserve = 0]
           q3 == [q2 EXCEPT !.burn = 0]
           q4 == [q3 EXCEPT !.pay = 0]
           q5 == [q4 EXCEPT !.buyer = NoOne]
           Same(q) == /\ q \in Row /\ q.st = "LISTED" /\ q.owner = r.owner
                      /\ q.seller = r.seller /\ q.lease = r.lease /\ q.offer = r.offer
<1>1. Same(q1)
  BY DEF Row, LockedStates
<1>2. Same(q2)
  <2> HIDE DEF q1
  <2> QED BY <1>1 DEF Row
<1>3. Same(q3)
  <2> HIDE DEF q2
  <2> QED BY <1>2 DEF Row
<1>4. Same(q4)
  <2> HIDE DEF q3
  <2> QED BY <1>3 DEF Row
<1>5. Same(q5)
  <2> HIDE DEF q4
  <2> QED BY <1>4 DEF Row
<1>6. q5 = [r EXCEPT !.st = "LISTED", !.reserve = 0, !.burn = 0, !.pay = 0,
                     !.buyer = NoOne]
  OBVIOUS
<1> QED
  BY <1>5, <1>6

\* The transitions of a sale that its nesting makes safe: closing a window
\* keeps the lease and the holder, and what stays on sale still nests.
LEMMA TurnedRow ==
  ASSUME NEW r \in Row, NEW t \in Int,
         Live(r) => r.owner \in Owners,
         Locked(r) => NestingOf(r),
         mtp <= t
  PROVE  /\ Turned(r, t) \in Row
         /\ Turned(r, t).lease = r.lease
         /\ Turned(r, t).owner = r.owner
         /\ Live(Turned(r, t)) <=> Live(r)
         /\ Live(r) => Holder(Turned(r, t)) = Holder(r) /\ r.owner = Holder(r)
         /\ Locked(Turned(r, t)) =>
              /\ Turned(r, t).owner = Turned(r, t).seller
              /\ t < Turned(r, t).offer
              /\ Turned(r, t).offer + ReorgBuffer <= Turned(r, t).lease
              /\ Turned(r, t).st = "RESERVED" =>
                   t < Turned(r, t).reserve /\ Turned(r, t).reserve <= Turned(r, t).offer
<1>1. Live(r) => r.owner = Holder(r)
  BY DEF Live, Locked, LockedStates, NestingOf, Holder, Row
<1>2. CASE r.st \in {"NONE", "OWNED"}
  BY <1>1, <1>2 DEF Turned, AfterReserve, AfterOffer, Locked, LockedStates, Live
<1>3. CASE r.st \in {"LISTED", "OFFERED"}
  <2>1. AfterReserve(r, t) = r
    BY <1>3 DEF AfterReserve
  <2>2. Turned(r, t) = IF t >= r.offer THEN OwnedRow(r.seller, r.lease) ELSE r
    BY <1>3, <2>1 DEF Turned, AfterOffer, ReturnToSeller
  <2>3. r.owner = r.seller /\ r.seller \in Owners /\ r.lease \in Int /\ r.offer \in Int
    BY <1>3 DEF Live, Locked, LockedStates, NestingOf, Row
  <2>4. CASE t >= r.offer
    BY <2>2, <2>3, <2>4, <1>1, <1>3, OwnedRowType DEF Live, Locked, LockedStates, Holder
  <2>5. CASE t < r.offer
    <3>1. Turned(r, t) = r
      BY <2>2, <2>3, <2>5
    <3> QED
      BY <3>1, <2>5, <1>1, <1>3 DEF Locked, LockedStates, NestingOf
  <2> QED
    BY <2>3, <2>4, <2>5
<1>4. CASE r.st = "RESERVED"
  <2> DEFINE relisted == [r EXCEPT !.st = "LISTED", !.reserve = 0, !.burn = 0, !.pay = 0,
                                   !.buyer = NoOne]
  <2>1. r.owner = r.seller /\ r.seller \in Owners /\ r.lease \in Int /\ r.offer \in Int
        /\ r.reserve \in Int /\ r.reserve <= r.offer /\ r.offer + ReorgBuffer <= r.lease
    BY <1>4 DEF Live, Locked, LockedStates, NestingOf, Row
  <2>2. CASE t < r.reserve
    <3>1. Turned(r, t) = r
      BY <1>4, <2>1, <2>2 DEF Turned, AfterReserve, AfterOffer
    <3> QED
      BY <3>1, <2>1, <2>2, <1>1
  <2>3. CASE t >= r.reserve /\ r.reserve = r.offer
    <3>1. Turned(r, t) = OwnedRow(r.seller, r.lease)
      BY <1>4, <2>1, <2>3, OwnedRowType DEF Turned, AfterReserve, AfterOffer, ReturnToSeller
    <3> QED
      BY <3>1, <2>1, <1>1, <1>4, OwnedRowType DEF Live, Locked, LockedStates, Holder
  <2>4. CASE t >= r.reserve /\ r.reserve < r.offer
    <3>1. /\ relisted \in Row /\ relisted.st = "LISTED" /\ relisted.owner = r.owner
          /\ relisted.seller = r.seller /\ relisted.lease = r.lease
          /\ relisted.offer = r.offer
      BY RelistedRow
    <3>2. Turned(r, t) = IF t >= r.offer THEN OwnedRow(r.seller, r.lease) ELSE relisted
      BY <3>1, <1>4, <2>4 DEF Turned, AfterReserve, AfterOffer, ReturnToSeller
    <3> HIDE DEF relisted
    <3>3. CASE t >= r.offer
      BY <3>2, <3>3, <2>1, <1>1, <1>4, OwnedRowType DEF Live, Locked, LockedStates, Holder
    <3>4. CASE t < r.offer
      <4>1. Turned(r, t) = relisted
        BY <3>2, <3>4, <2>1
      <4> QED
        BY <4>1, <3>1, <3>4, <2>1, <1>1, <1>4 DEF Live, Locked, LockedStates, Holder
    <3> QED
      BY <3>3, <3>4, <2>1
  <2> QED
    BY <2>1, <2>2, <2>3, <2>4
<1> QED
  BY <1>2, <1>3, <1>4 DEF Row, LockedStates
-----------------------------------------------------------------------------
(* The inductive invariant *)

\* What holds of a row while the median time is t.
RowOK(r, t) ==
  /\ r \in Row
  /\ Live(r) => r.owner \in Owners /\ t < r.lease /\ r.lease <= t + MaxLease
  /\ Locked(r) =>
       /\ r.owner = r.seller
       /\ t < r.offer
       /\ r.offer + ReorgBuffer <= r.lease
       /\ r.st = "RESERVED" => t < r.reserve /\ r.reserve <= r.offer

RowsOK == names \in [Names -> Row] /\ \A n \in Names : RowOK(names[n], mtp)

FoldOK ==
  /\ commits \subseteq Commitment
  /\ muts \in [Owners -> Nat]
  /\ scratch \in [Names -> ClaimWin]

ClockOK == height \in Nat /\ mtp \in Nat /\ rate \in Nat /\ txs \in Nat

\* The rows, the stamps and the types hold together: a lapse or the end of a
\* sale is typed only because the seller of a locked row is its owner.
IInv == RowsOK /\ FoldOK /\ ClockOK /\ cx \in Tx /\ StampInv

\* IInv is the conjunction of the four invariants of the runs.
LEMMA IInvIsInvariants == IInv <=> TypeOK /\ LeaseInv /\ NestingInv /\ StampInv
  BY DEF IInv, RowsOK, RowOK, FoldOK, ClockOK, TypeOK, LeaseInv, NestingInv, NestingOf, Live

\* A row of the pool.
LEMMA NoRowOK ==
  ASSUME NEW t
  PROVE  RowOK(NoRow, t)
  BY NoRowType DEF RowOK, Live, Locked, LockedStates

\* A plain owned row whose lease is running.
LEMMA OwnedRowOK ==
  ASSUME NEW o \in Owners, NEW t \in Int, NEW x \in Int, t < x, x <= t + MaxLease
  PROVE  RowOK(OwnedRow(o, x), t)
  BY OwnedRowType DEF RowOK, Live, Locked, LockedStates

\* An unlocked row that changes hands.
LEMMA GivenRowOK ==
  ASSUME NEW r, NEW t \in Int, RowOK(r, t), r.st = "OWNED", NEW o \in Owners
  PROVE  RowOK([r EXCEPT !.owner = o], t)
<1> DEFINE q == [r EXCEPT !.owner = o]
<1>1. q \in Row /\ q.st = r.st /\ q.owner = o /\ q.lease = r.lease
  BY DEF RowOK, Row
<1> HIDE DEF q
<1>2. RowOK(q, t)
  BY <1>1 DEF RowOK, Live, Locked, LockedStates
<1> QED
  BY <1>2 DEF q

\* A row whose lease grows within the cap.
LEMMA GrownRowOK ==
  ASSUME NEW r, NEW t \in Int, RowOK(r, t),
         NEW x \in Int, r.lease <= x, x <= t + MaxLease
  PROVE  RowOK([r EXCEPT !.lease = x], t)
<1> DEFINE q == [r EXCEPT !.lease = x]
<1>1. /\ q \in Row /\ q.st = r.st /\ q.owner = r.owner /\ q.lease = x
      /\ q.seller = r.seller /\ q.offer = r.offer /\ q.reserve = r.reserve
  BY DEF RowOK, Row
<1>2. r.lease \in Int /\ r.offer \in Int /\ ReorgBuffer \in Int
  BY TimeAssumption DEF RowOK, Row
<1> HIDE DEF q
<1>3. RowOK(q, t)
  BY <1>1, <1>2 DEF RowOK, Live, Locked
<1> QED
  BY <1>3 DEF q

\* A row put on sale by its owner (market.c:53-58, 107-112).
LEMMA SaleRowOK ==
  ASSUME NEW o \in Owners, NEW t \in Nat, NEW x \in Int, NEW st \in {"LISTED", "OFFERED"},
         NEW price \in Int, NEW w \in Nat \ {0}, NEW buyer \in Owners \cup {NoOne},
         t + w + ReorgBuffer <= x, x <= t + MaxLease
  PROVE  RowOK([OwnedRow(o, x) EXCEPT !.st = st, !.seller = o, !.price = price,
                                      !.offer = t + w, !.buyer = buyer], t)
<1> DEFINE q1 == [OwnedRow(o, x) EXCEPT !.st = st]
           q2 == [q1 EXCEPT !.seller = o]
           q3 == [q2 EXCEPT !.price = price]
           q4 == [q3 EXCEPT !.offer = t + w]
           q5 == [q4 EXCEPT !.buyer = buyer]
<1>1. q1 \in Row /\ q1.st = st /\ q1.owner = o /\ q1.lease = x
  BY OwnedRowType DEF Row, LockedStates
<1>2. q2 \in Row /\ q2.st = st /\ q2.owner = o /\ q2.lease = x /\ q2.seller = o
  <2> HIDE DEF q1
  <2> QED BY <1>1 DEF Row
<1>3. q3 \in Row /\ q3.st = st /\ q3.owner = o /\ q3.lease = x /\ q3.seller = o
  <2> HIDE DEF q2
  <2> QED BY <1>2 DEF Row
<1>4. /\ q4 \in Row /\ q4.st = st /\ q4.owner = o /\ q4.lease = x /\ q4.seller = o
      /\ q4.offer = t + w
  <2> HIDE DEF q3
  <2> QED BY <1>3 DEF Row
<1>5. /\ q5 \in Row /\ q5.st = st /\ q5.owner = o /\ q5.lease = x /\ q5.seller = o
      /\ q5.offer = t + w
  <2> HIDE DEF q4
  <2> QED BY <1>4 DEF Row
<1>6. q5 = [OwnedRow(o, x) EXCEPT !.st = st, !.seller = o, !.price = price,
                                  !.offer = t + w, !.buyer = buyer]
  OBVIOUS
<1> HIDE DEF q5
<1>7. RowOK(q5, t)
  BY <1>5, TimeAssumption DEF RowOK, Live, Locked
<1> QED
  BY <1>6, <1>7

\* A listing that is reserved (market.c:71-78).
LEMMA ReservedRowOK ==
  ASSUME NEW r, NEW t \in Nat, RowOK(r, t), r.st = "LISTED",
         NEW buyer \in Owners, NEW burn \in Int, NEW pay \in Int,
         NEW x \in Int, t < x, x <= r.offer
  PROVE  RowOK([r EXCEPT !.st = "RESERVED", !.buyer = buyer, !.burn = burn,
                         !.pay = pay, !.reserve = x], t)
<1> DEFINE q1 == [r EXCEPT !.st = "RESERVED"]
           q2 == [q1 EXCEPT !.buyer = buyer]
           q3 == [q2 EXCEPT !.burn = burn]
           q4 == [q3 EXCEPT !.pay = pay]
           q5 == [q4 EXCEPT !.reserve = x]
           Same(q) == /\ q \in Row /\ q.st = "RESERVED" /\ q.owner = r.owner
                      /\ q.seller = r.seller /\ q.lease = r.lease /\ q.offer = r.offer
<1>1. Same(q1)
  BY DEF RowOK, Row, LockedStates
<1>2. Same(q2)
  <2> HIDE DEF q1
  <2> QED BY <1>1 DEF Row
<1>3. Same(q3)
  <2> HIDE DEF q2
  <2> QED BY <1>2 DEF Row
<1>4. Same(q4)
  <2> HIDE DEF q3
  <2> QED BY <1>3 DEF Row
<1>5. Same(q5) /\ q5.reserve = x
  <2> HIDE DEF q4
  <2> QED BY <1>4 DEF Row
<1>6. q5 = [r EXCEPT !.st = "RESERVED", !.buyer = buyer, !.burn = burn,
                     !.pay = pay, !.reserve = x]
  OBVIOUS
<1> HIDE DEF q5
<1>7. RowOK(q5, t)
  BY <1>5 DEF RowOK, Live, Locked, LockedStates
<1> QED
  BY <1>6, <1>7

\* A row after the windows that close at time t: it is sound at t if its
\* lease still runs then.
LEMMA TurnedRowOK ==
  ASSUME NEW r, NEW t \in Int, mtp \in Int, mtp <= t, RowOK(r, mtp),
         t < r.lease
  PROVE  RowOK(Turned(r, t), t)
<1>1. Locked(r) => NestingOf(r)
  BY DEF RowOK, NestingOf
<1>2. r \in Row /\ r.lease \in Int /\ MaxLease \in Int
  BY TimeAssumption DEF RowOK, Row
<1>3. Live(r) => r.owner \in Owners /\ r.lease <= mtp + MaxLease
  BY DEF RowOK
<1> QED
  BY <1>1, <1>2, <1>3, TurnedRow DEF RowOK

-----------------------------------------------------------------------------
(* The transaction being folded *)

\* An input that does not sign everything authorises nobody (bitmap.c, trade.c).
LEMMA SignerType ==
  ASSUME NEW inputs \in Seq(Input), NEW i
  PROVE  /\ Signer(inputs, i) \in Owners \cup {NoOne}
         /\ Signer(inputs, i) # NoOne =>
              /\ i \in DOMAIN inputs /\ inputs[i].all
              /\ inputs[i].id = Signer(inputs, i)
<1>1. i \in DOMAIN inputs => inputs[i] \in Input
  BY LenProperties, ElementOfSeq
<1> QED
  BY <1>1 DEF Signer, Input

\* One carrier is one step of the walk over the outputs.
LEMMA DoneType ==
  ASSUME cx \in Tx, cx.left > 0, Done
  PROVE  cx' \in Tx
  BY DEF Done, Tx

\* An output that is consumed is only marked.
LEMMA ConsumeType ==
  ASSUME cx \in Tx, cx.left > 0, NEW dest, NEW amount, Consume(dest, amount)
  PROVE  cx' \in Tx
<1>1. PICK i \in Matching(dest, amount) :
        cx' = [cx EXCEPT !.left = @ - 1, !.outs[i].used = TRUE]
  BY DEF Consume
<1>2. cx.outs \in Seq(TxOut) /\ i \in DOMAIN cx.outs
  BY DEF Matching, Tx
<1> DEFINE outs == [cx.outs EXCEPT ![i].used = TRUE]
<1>3. cx.outs[i] \in TxOut
  BY <1>2, LenProperties, ElementOfSeq
<1>4. [cx.outs[i] EXCEPT !.used = TRUE] \in TxOut
  BY <1>3 DEF TxOut
<1>5. outs \in Seq(TxOut)
  BY <1>2, <1>4, LenProperties, ExceptSeq
<1>6. cx' = [[cx EXCEPT !.left = @ - 1] EXCEPT !.outs = outs]
  BY <1>1, <1>2 DEF Tx
<1> HIDE DEF outs
<1>7. [cx EXCEPT !.left = @ - 1] \in Tx
  BY DEF Tx
<1> QED
  BY <1>5, <1>6, <1>7 DEF Tx

-----------------------------------------------------------------------------
(* Steps *)

\* Who controls a name, NoOne if it is in the pool.
Controller(r) == IF Live(r) THEN Holder(r) ELSE NoOne

\* The owned set of an owner changes only in the block its stamp names.
Stamped == \A o \in Owners : OwnedSetNext(o) # OwnedSet(o) => muts'[o] = height'

\* It is enough to follow the names one by one.
LEMMA StampedIfMoved ==
  ASSUME \A n \in Names, o \in Owners :
           (Controller(names[n]) = o /\ Controller(names'[n]) # o)
           \/ (Controller(names[n]) # o /\ Controller(names'[n]) = o)
           => muts'[o] = height'
  PROVE  Stamped
  BY OwnersAssumption DEF Stamped, OwnedSetNext, OwnedSet, Controller, Live

\* What an operation has to show: its rows are sound, and S, the owners it
\* stamps, holds everyone who gains or loses a name but a displaced minter.
LEMMA OperationStep ==
  ASSUME IInv, NEW S \in SUBSET Owners, muts' = Bump(S, height),
         UNCHANGED clock, UNCHANGED txs, cx' \in Tx, FoldOK',
         names' \in [Names -> Row],
         \A n \in Names : RowOK(names'[n], mtp),
         \A n \in Names : scratch'[n] = scratch[n] \/ scratch'[n].owner \in S,
         \A n \in Names : Controller(names'[n]) # Controller(names[n]) =>
           /\ Controller(names'[n]) \in S \cup {NoOne}
           /\ \/ Controller(names[n]) \in S \cup {NoOne}
              \/ scratch[n] # NoClaim /\ scratch[n].owner = Controller(names[n])
  PROVE  IInv' /\ Stamped
<1> USE DEF clock
<1>1. muts \in [Owners -> Nat] /\ height \in Nat
  BY DEF IInv, FoldOK, ClockOK
<1>2. \A o \in Owners : muts[o] <= height /\ muts'[o] \in {muts[o], height}
  BY <1>1, BumpRaises DEF IInv, StampInv
<1>3. \A o \in Owners : o \in S => muts'[o] = height
  BY <1>1, <1>2, BumpRaises DEF IInv, StampInv
<1>4. StampInv'
  BY <1>1, <1>2, <1>3 DEF IInv, StampInv
<1>5. \A n \in Names, o \in Owners :
        Controller(names'[n]) # Controller(names[n])
        /\ (Controller(names[n]) = o \/ Controller(names'[n]) = o)
        => muts'[o] = height
  BY <1>2, <1>3, OwnersAssumption DEF IInv, StampInv
<1>6. Stamped
  BY <1>5, StampedIfMoved
<1>7. RowsOK' /\ ClockOK'
  BY DEF IInv, RowsOK, ClockOK
<1> QED
  BY <1>4, <1>6, <1>7 DEF IInv

\* An operation that leaves the mutation heights alone stamps nobody.
LEMMA NothingStamped ==
  ASSUME IInv, UNCHANGED muts
  PROVE  muts' = Bump({}, height)
  BY DEF IInv, FoldOK, Bump

\* An operation of the acting identity on the rows only.
LEMMA CarrierFacts ==
  ASSUME IInv, NEW op, Carrier(op)
  PROVE  /\ UNCHANGED clock /\ UNCHANGED txs
         /\ cx.left > 0
         /\ height \in Nat /\ mtp \in Nat /\ muts \in [Owners -> Nat]
         /\ names \in [Names -> Row]
         /\ \A n \in Names : RowOK(names[n], mtp)
         /\ cx.actor \in Owners \cup {NoOne}
         /\ Done => cx' \in Tx
         /\ \A dest, amount : Consume(dest, amount) => cx' \in Tx
<1>1. cx \in Tx /\ cx.left > 0
  BY DEF IInv, Carrier
<1>2. cx.actor \in Owners \cup {NoOne}
  BY <1>1 DEF Tx
<1> QED
  BY <1>1, <1>2, DoneType, ConsumeType DEF IInv, RowsOK, FoldOK, ClockOK, Carrier

\* BeginBlock keeps the invariant: a lapse stamps the seller of a locked row
\* because that is whom `owner` names (preblock.c:45-56).
LEMMA BlockStepOK ==
  ASSUME IInv, NEW t \in mtp..MaxTime, NEW r \in Rates, BeginBlock(t, r)
  PROVE  IInv' /\ Stamped
<1>1. /\ height' = height + 1 /\ mtp' = t /\ rate' = r /\ txs' = 0 /\ cx' = cx
      /\ scratch' = [n \in Names |-> NoClaim]
      /\ height \in Nat /\ mtp \in Nat /\ t \in Nat /\ mtp <= t /\ rate' \in Nat
  BY InputAssumption, BoundAssumption DEF BeginBlock, IInv, ClockOK
<1> DEFINE gone == {Turned(names[n], t).owner : n \in LapsedNames(t)}
<1>2. /\ names' = [n \in Names |-> IF n \in LapsedNames(t) THEN NoRow
                                                           ELSE Turned(names[n], t)]
      /\ muts' = Bump(gone, height')
      /\ commits' \subseteq commits
  BY <1>1 DEF BeginBlock, Preblock
<1>3. ASSUME NEW n \in Names
      PROVE  /\ RowOK(names[n], mtp)
             /\ Turned(names[n], t).lease = names[n].lease
             /\ Turned(names[n], t).owner = names[n].owner
             /\ Live(Turned(names[n], t)) <=> Live(names[n])
             /\ Live(names[n]) => /\ Holder(Turned(names[n], t)) = Holder(names[n])
                                  /\ names[n].owner = Holder(names[n])
  <2>1. RowOK(names[n], mtp)
    BY DEF IInv, RowsOK
  <2>2. names[n] \in Row /\ (Live(names[n]) => names[n].owner \in Owners)
        /\ (Locked(names[n]) => NestingOf(names[n]))
    BY <2>1 DEF RowOK, NestingOf
  <2> QED
    BY <1>1, <2>1, <2>2, TurnedRow
<1>4. ASSUME NEW n \in Names
      PROVE  RowOK(names'[n], t)
  <2>1. CASE n \in LapsedNames(t)
    BY <1>2, <2>1, NoRowOK
  <2>2. CASE n \notin LapsedNames(t) /\ names[n].st = "NONE"
    <3>1. Turned(names[n], t) = names[n]
      BY <2>2 DEF Turned, AfterReserve, AfterOffer
    <3> QED
      BY <1>2, <1>3, <2>2, <3>1 DEF RowOK, Live, Locked, LockedStates
  <2>3. CASE n \notin LapsedNames(t) /\ names[n].st # "NONE"
    <3>1. names[n].lease \in Int
      BY <1>3 DEF RowOK, Row
    <3>2. t < names[n].lease
      BY <1>1, <1>3, <2>3, <3>1 DEF LapsedNames
    <3> QED
      BY <1>1, <1>2, <1>3, <2>3, <3>2, TurnedRowOK
  <2> QED
    BY <2>1, <2>2, <2>3
<1>5. RowsOK'
  <2>1. names' \in [Names -> Row]
    BY <1>2, <1>4 DEF RowOK
  <2> QED
    BY <1>1, <1>4, <2>1 DEF RowsOK
<1>6. muts \in [Owners -> Nat] /\ commits \subseteq Commitment
      /\ \A o \in Owners : muts[o] <= height
  BY DEF IInv, FoldOK, StampInv
<1>7. /\ muts' \in [Owners -> Nat]
      /\ \A o \in Owners : muts'[o] \in {muts[o], height'}
      /\ \A o \in Owners : o \in gone => height' <= muts'[o]
  BY <1>1, <1>2, <1>6, BumpRaises
<1>8. FoldOK' /\ ClockOK' /\ cx' \in Tx
  BY <1>1, <1>2, <1>6, <1>7 DEF FoldOK, ClockOK, ClaimWin, NoClaim, IInv
<1>9. StampInv'
  BY <1>1, <1>6, <1>7 DEF StampInv
<1>10. Stamped
  <2>1. ASSUME NEW n \in Names, NEW o \in Owners,
               Controller(names[n]) # Controller(names'[n]),
               Controller(names[n]) = o \/ Controller(names'[n]) = o
        PROVE  o \in gone
    <3>1. n \in LapsedNames(t)
      BY <1>2, <1>3, <2>1 DEF Controller
    <3>2. Controller(names'[n]) = NoOne
      BY <1>2, <3>1, NoRowType DEF Controller, Live
    <3>3. o = Turned(names[n], t).owner
      BY <1>3, <2>1, <3>2, OwnersAssumption DEF Controller
    <3> QED
      BY <3>1, <3>3
  <2>2. \A o \in Owners : o \in gone => muts'[o] = height'
    BY <1>1, <1>6, <1>7
  <2> HIDE DEF gone
  <2> QED
    BY <2>1, <2>2, StampedIfMoved
<1> QED
  BY <1>5, <1>8, <1>9, <1>10 DEF IInv

\* Opening and closing a transaction, and re-pointing the actor, touch no name.
LEMMA TxStepOK ==
  ASSUME IInv, TxStep
  PROVE  IInv' /\ Stamped
<1>1. UNCHANGED foldState /\ UNCHANGED clock
  BY DEF TxStep, BeginTx, EndTx, As, Carrier
<1>2. txs' \in Nat /\ cx' \in Tx
  <2>1. CASE \E inputs \in InputLists, outs \in OutLists : BeginTx(inputs, outs)
    <3>1. PICK inputs \in InputLists, outs \in OutLists : BeginTx(inputs, outs)
      BY <2>1
    <3>2. inputs \in Seq(Input) /\ outs \in Seq(Payment)
      BY InputAssumption
    <3> DEFINE o == [i \in DOMAIN outs |-> [dest |-> outs[i].dest,
                                            value |-> outs[i].value, used |-> FALSE]]
    <3>3. DOMAIN outs = 1..Len(outs) /\ Len(outs) \in Nat
          /\ \A i \in DOMAIN outs : outs[i] \in Payment
      BY <3>2, LenProperties, ElementOfSeq
    <3>4. \A i \in DOMAIN outs : o[i] \in TxOut
      BY <3>3 DEF Payment, TxOut
    <3>5. o \in Seq(TxOut)
      <4> HIDE DEF o
      <4>1. o \in [1..Len(outs) -> TxOut]
        BY <3>3, <3>4 DEF o
      <4> QED
        BY <3>3, <4>1
    <3>6. Signer(inputs, 1) \in Owners \cup {NoOne}
      BY <3>2, SignerType
    <3>7. txs \in Nat /\ MaxCarriers \in Nat
      BY BoundAssumption DEF IInv, ClockOK
    <3>8. /\ cx' = [open |-> TRUE, inputs |-> inputs, actor |-> Signer(inputs, 1),
                    outs |-> o, index |-> txs, left |-> MaxCarriers]
          /\ txs' = txs + 1
      BY <3>1 DEF BeginTx
    <3> HIDE DEF o
    <3> QED
      BY <3>2, <3>5, <3>6, <3>7, <3>8 DEF Tx
  <2>2. CASE EndTx
    BY <2>2, EmptySeq DEF EndTx, NoTx, Tx, IInv, ClockOK
  <2>3. CASE \E k \in 1..3 : As(k)
    <3>1. PICK k \in 1..3 : As(k)
      BY <2>3
    <3>2. cx \in Tx /\ cx.left > 0 /\ txs' = txs /\ txs \in Nat
      BY <3>1 DEF As, Carrier, IInv, ClockOK
    <3>3. Signer(cx.inputs, k) \in Owners \cup {NoOne}
      BY <3>2, SignerType DEF Tx
    <3>4. cx' = [[cx EXCEPT !.left = @ - 1] EXCEPT !.actor = Signer(cx.inputs, k)]
      BY <3>1, <3>2 DEF As, Tx
    <3>5. [cx EXCEPT !.left = @ - 1] \in Tx
      BY <3>2 DEF Tx
    <3> QED
      BY <3>2, <3>3, <3>4, <3>5 DEF Tx
  <2> QED
    BY <2>1, <2>2, <2>3 DEF TxStep
<1>3. IInv'
  BY <1>1, <1>2 DEF IInv, RowsOK, FoldOK, ClockOK, StampInv, foldState, clock
<1>4. Stamped
  BY <1>1 DEF Stamped, OwnedSetNext, OwnedSet, Live, foldState
<1> QED
  BY <1>3, <1>4

\* COMMIT writes the commits alone.
LEMMA CommitOK ==
  ASSUME IInv, NEW n \in Names, NEW o \in Owners, Commit(n, o)
  PROVE  IInv' /\ Stamped
<1>1. Carrier("COMMIT") /\ Done /\ UNCHANGED <<names, muts, scratch>>
  BY DEF Commit, ActorCarrier
<1>2. cx \in Tx /\ height \in Nat /\ mtp \in Nat
  BY DEF IInv, ClockOK
<1>3. commits' \subseteq Commitment
  <2> DEFINE c == [name |-> n, author |-> o, height |-> height,
                   index |-> cx.index, time |-> mtp]
  <2>1. c \in Commitment
    BY <1>2 DEF Commitment, Tx
  <2>2. commits' = commits \cup {c} /\ commits \subseteq Commitment
    BY DEF Commit, IInv, FoldOK
  <2> HIDE DEF c
  <2> QED
    BY <2>1, <2>2
<1>4. FoldOK'
  BY <1>1, <1>3 DEF FoldOK, IInv
<1> QED
  BY <1>1, <1>4, CarrierFacts, NothingStamped, OperationStep

\* CLAIM mints a row whose lease runs, or moves a row minted in this block:
\* its minter's stamp is this block's already (claim.c:82-101).
LEMMA ClaimOK ==
  ASSUME IInv, NEW n \in Names, NEW v \in Values, Claim(n, v)
  PROVE  IInv' /\ Stamped
<1> DEFINE rows == [names EXCEPT ![n] = OwnedRow(cx.actor, mtp)]
<1>1. /\ Carrier("CLAIM") /\ Done /\ cx.actor # NoOne /\ Days(v) >= 1
      /\ names' = Waterfill(rows, {n}, v)
      /\ muts' = Bump({cx.actor}, height)
      /\ commits' = commits
  BY DEF Claim, ActorCarrier
<1>2. PICK c \in Backing(n, cx.actor) :
        /\ MayClaim(n, c)
        /\ scratch' = [scratch EXCEPT ![n] = [height |-> c.height, index |-> c.index,
                                              owner  |-> cx.actor]]
  BY DEF Claim
<1>3. cx.actor \in Owners /\ mtp \in Nat /\ names \in [Names -> Row]
      /\ \A m \in Names : RowOK(names[m], mtp)
  BY <1>1, CarrierFacts
<1>4. rows \in [Names -> Row]
  BY <1>3, OwnedRowType
<1>5. rows[n] = OwnedRow(cx.actor, mtp) /\ rows[n].lease = mtp
  BY <1>3, OwnedRowType
<1>6. \A m \in Names \ {n} : names'[m] = names[m]
  BY <1>1, <1>3 DEF Waterfill
<1>7. names' \in [Names -> Row]
  <2>1. {n} \in SUBSET Names
    OBVIOUS
  <2> HIDE DEF rows
  <2>2. Waterfill(rows, {n}, v) \in [Names -> Row]
    BY <1>3, <1>4, <2>1, WaterfillExtends
  <2> QED
    BY <1>1, <2>2
<1>8. RowOK(names'[n], mtp) /\ Controller(names'[n]) = cx.actor
  <2> DEFINE x == mtp + Award(rows, {n}, Days(v), n) * Billing
  <2>1. names'[n] = [OwnedRow(cx.actor, mtp) EXCEPT !.lease = x]
    <3>1. names'[n] = [rows[n] EXCEPT !.lease = @ + Award(rows, {n}, Days(v), n) * Billing]
      BY <1>1 DEF Waterfill
    <3>2. rows[n] \in Row
      BY <1>4
    <3> HIDE DEF rows
    <3> QED
      BY <3>1, <3>2, <1>5 DEF Row
  <2>2. v \in Nat /\ rate \in Nat
    BY InputAssumption DEF IInv, ClockOK
  <2>3. Days(v) \in Int
    <3>1. Later(rate, 1) \in Nat \ {0}
      BY <2>2 DEF Later
    <3>2. Quantum \in Nat \ {0} /\ Billing \in Nat \ {0}
      BY TimeAssumption
    <3>3. Later(rate, 1) * Billing \in Nat \ {0} /\ v * Quantum \in Nat
      BY <2>2, <3>1, <3>2
    <3> QED
      BY <3>3 DEF Days
  <2>4. Award(rows, {n}, Days(v), n) >= 1
    BY <1>1, <1>3, <1>4, <1>5, <2>3, AwardPositive
  <2>5. Award(rows, {n}, Days(v), n) \in Nat
    <3>1. {n} \in SUBSET Names /\ n \in {n} /\ rows[n] \in Row
      BY <1>4
    <3> HIDE DEF rows
    <3>2. Award(rows, {n}, Days(v), n) \in 0 .. Headroom(rows[n])
      BY <1>3, <1>4, <3>1, AwardBounds
    <3>3. Headroom(rows[n]) \in Nat
      BY <1>3, <3>1, HeadroomFits
    <3> QED
      BY <3>2, <3>3
  <2>6. names'[n].lease <= mtp + MaxLease
    <3>1. rows[n].lease <= mtp + MaxLease
      BY <1>3, <1>5, TimeAssumption
    <3>2. {n} \in SUBSET Names
      OBVIOUS
    <3> HIDE DEF rows
    <3> QED
      BY <1>1, <1>3, <1>4, <3>1, <3>2, WaterfillExtends
  <2>7. Billing \in Nat \ {0} /\ MaxLease \in Nat
    BY TimeAssumption
  <2>8. x \in Nat /\ mtp < x
    <3> DEFINE aw == Award(rows, {n}, Days(v), n)
    <3>1. aw \in Nat /\ aw >= 1
      BY <2>4, <2>5
    <3> HIDE DEF aw
    <3>2. aw * Billing \in Nat /\ aw * Billing >= 1
      BY <3>1, <2>7
    <3> QED
      BY <3>2, <1>3 DEF aw
  <2> HIDE DEF x
  <2>9. names'[n] = OwnedRow(cx.actor, x)
    BY <2>1 DEF OwnedRow, NoRow
  <2>10. names'[n].lease = x
    BY <1>3, <2>8, <2>9, OwnedRowType
  <2> QED
    BY <1>3, <2>6, <2>8, <2>9, <2>10, OwnedRowOK, OwnedRowType DEF Controller, Live, Holder
<1>9. FoldOK'
  <2>1. commits \subseteq Commitment /\ scratch \in [Names -> ClaimWin]
        /\ muts \in [Owners -> Nat] /\ height \in Nat
    BY DEF IInv, FoldOK, ClockOK
  <2>2. c \in Commitment
    BY <2>1 DEF Backing
  <2>3. [height |-> c.height, index |-> c.index, owner |-> cx.actor] \in ClaimWin
    BY <1>3, <2>2 DEF Commitment, ClaimWin
  <2>4. scratch' \in [Names -> ClaimWin]
    BY <1>2, <2>1, <2>3
  <2>5. muts' \in [Owners -> Nat]
    BY <1>1, <2>1, BumpRaises
  <2> QED
    BY <1>1, <2>1, <2>4, <2>5 DEF FoldOK
<1>10. \A m \in Names : scratch'[m] = scratch[m] \/ scratch'[m].owner \in {cx.actor}
  BY <1>2 DEF IInv, FoldOK
<1>11. \/ Controller(names[n]) = NoOne
       \/ scratch[n] # NoClaim /\ scratch[n].owner = Controller(names[n])
  BY <1>2 DEF MayClaim, Controller, Live, Holder
<1> HIDE DEF rows
<1>12. \A m \in Names : RowOK(names'[m], mtp)
  BY <1>3, <1>6, <1>8
<1>13. \A m \in Names : Controller(names'[m]) # Controller(names[m]) =>
         /\ Controller(names'[m]) \in {cx.actor} \cup {NoOne}
         /\ \/ Controller(names[m]) \in {cx.actor} \cup {NoOne}
            \/ scratch[m] # NoClaim /\ scratch[m].owner = Controller(names[m])
  BY <1>6, <1>8, <1>11
<1>14. UNCHANGED clock /\ UNCHANGED txs /\ cx' \in Tx
  BY <1>1, CarrierFacts
<1>15. {cx.actor} \in SUBSET Owners
  BY <1>3
<1> QED
  BY <1>1, <1>7, <1>9, <1>10, <1>12, <1>13, <1>14, <1>15, OperationStep

LEMMA ClaimStepOK ==
  ASSUME IInv, ClaimStep
  PROVE  IInv' /\ Stamped
  BY CommitOK, ClaimOK DEF ClaimStep

-----------------------------------------------------------------------------
(* Operations on an owned set *)

\* A selection never leaves the owned set it is taken from.
LEMMA SelectedOwned ==
  ASSUME NEW o, NEW h, NEW bits
  PROVE  Selected(o, h, bits) \subseteq OwnedSet(o)
  BY DEF Selected

\* A renewal keeps every row in place.
LEMMA ExtendOK ==
  ASSUME IInv, NEW op, Carrier(op), NEW S \in SUBSET OwnedSet(cx.actor), NEW v,
         Extend(S, v)
  PROVE  IInv' /\ Stamped
<1>1. /\ names' = Waterfill(names, S, v) /\ Done
      /\ muts' = muts /\ commits' = commits /\ scratch' = scratch
  BY DEF Extend
<1>2. S \in SUBSET Names /\ \A n \in S : Live(names[n])
  BY DEF OwnedSet, Live
<1>3. /\ names \in [Names -> Row] /\ mtp \in Nat
      /\ \A n \in Names : RowOK(names[n], mtp)
      /\ UNCHANGED clock /\ UNCHANGED txs /\ cx' \in Tx
  BY <1>1, CarrierFacts
<1>4. names' \in [Names -> Row]
  BY <1>1, <1>2, <1>3, WaterfillExtends
<1>5. ASSUME NEW n \in Names
      PROVE  RowOK(names'[n], mtp) /\ Controller(names'[n]) = Controller(names[n])
  <2>1. CASE n \notin S
    BY <1>1, <1>3, <2>1 DEF Waterfill
  <2>2. CASE n \in S
    <3> DEFINE W == Waterfill(names, S, v)
               x == W[n].lease
    <3>1. /\ W \in [Names -> Row]
          /\ W[n] = [names[n] EXCEPT !.lease = x]
          /\ names[n].lease <= x
          /\ names[n].lease <= mtp + MaxLease => x <= mtp + MaxLease
      BY <1>2, <1>3, WaterfillExtends
    <3> HIDE DEF W
    <3>2. x \in Int /\ names[n] \in Row /\ names'[n] = W[n]
      BY <1>1, <1>3, <3>1 DEF Row, W
    <3>3. RowOK(names'[n], mtp)
      <4>1. names[n].lease <= mtp + MaxLease /\ RowOK(names[n], mtp)
        BY <1>2, <1>3, <2>2 DEF RowOK
      <4> HIDE DEF x
      <4> QED
        BY <1>3, <4>1, <3>1, <3>2, GrownRowOK
    <3>4. names'[n].st = names[n].st /\ names'[n].owner = names[n].owner
          /\ names'[n].seller = names[n].seller
      BY <3>1, <3>2 DEF Row
    <3> QED
      BY <3>3, <3>4 DEF Controller, Live, Holder
  <2> QED
    BY <2>1, <2>2
<1>6. muts' = Bump({}, height) /\ FoldOK'
  BY <1>1, NothingStamped DEF IInv, FoldOK
<1> QED
  BY <1>1, <1>3, <1>4, <1>5, <1>6, OperationStep

\* A transfer stamps both the giver and the receiver.
LEMMA GiveOK ==
  ASSUME IInv, NEW op, ActorCarrier(op),
         NEW S \in SUBSET Unlocked(OwnedSet(cx.actor)), NEW to \in Owners,
         Give(S, to)
  PROVE  IInv' /\ Stamped
<1>1. /\ names' = [n \in Names |-> IF n \in S THEN [names[n] EXCEPT !.owner = to]
                                             ELSE names[n]]
      /\ muts' = Bump({cx.actor, to}, height) /\ Done
      /\ commits' = commits /\ scratch' = scratch
      /\ Carrier(op) /\ cx.actor # NoOne
  BY DEF Give, ActorCarrier
<1>2. /\ names \in [Names -> Row] /\ mtp \in Nat /\ height \in Nat
      /\ muts \in [Owners -> Nat] /\ cx.actor \in Owners
      /\ \A n \in Names : RowOK(names[n], mtp)
      /\ UNCHANGED clock /\ UNCHANGED txs /\ cx' \in Tx
  BY <1>1, CarrierFacts
<1>3. ASSUME NEW n \in Names
      PROVE  /\ RowOK(names'[n], mtp)
             /\ \/ Controller(names'[n]) = Controller(names[n])
                \/ Controller(names'[n]) = to /\ Controller(names[n]) = cx.actor
  <2>1. CASE n \notin S
    BY <1>1, <1>2, <2>1
  <2>2. CASE n \in S
    <3>1. names[n].st = "OWNED" /\ names[n].owner = cx.actor
      BY <2>2 DEF Unlocked, OwnedSet, Holder
    <3>2. names'[n] = [names[n] EXCEPT !.owner = to] /\ names[n] \in Row
      BY <1>1, <1>2, <2>2
    <3>3. RowOK(names'[n], mtp)
      BY <1>2, <3>1, <3>2, GivenRowOK
    <3>4. names'[n].st = "OWNED" /\ names'[n].owner = to
      BY <3>1, <3>2 DEF Row
    <3> QED
      BY <3>1, <3>3, <3>4 DEF Controller, Live, Holder
  <2> QED
    BY <2>1, <2>2
<1>4. names' \in [Names -> Row]
  BY <1>1, <1>3 DEF RowOK
<1>5. FoldOK'
  BY <1>1, <1>2, BumpRaises DEF IInv, FoldOK
<1>6. /\ {cx.actor, to} \in SUBSET Owners
      /\ \A n \in Names : scratch'[n] = scratch[n] \/ scratch'[n].owner \in {cx.actor, to}
  BY <1>1, <1>2
<1>7. \A n \in Names : Controller(names'[n]) # Controller(names[n]) =>
        /\ Controller(names'[n]) \in {cx.actor, to} \cup {NoOne}
        /\ \/ Controller(names[n]) \in {cx.actor, to} \cup {NoOne}
           \/ scratch[n] # NoClaim /\ scratch[n].owner = Controller(names[n])
  BY <1>3
<1>8. \A n \in Names : RowOK(names'[n], mtp)
  BY <1>3
<1> QED
  BY <1>1, <1>2, <1>4, <1>5, <1>6, <1>7, <1>8, OperationStep

\* A release stamps the owner who gives its names up.
LEMMA FreeOK ==
  ASSUME IInv, NEW op, ActorCarrier(op),
         NEW S \in SUBSET Unlocked(OwnedSet(cx.actor)), Free(S)
  PROVE  IInv' /\ Stamped
<1>1. /\ names' = [n \in Names |-> IF n \in S THEN NoRow ELSE names[n]]
      /\ muts' = Bump({cx.actor}, height) /\ Done
      /\ commits' = commits /\ scratch' = scratch
      /\ Carrier(op) /\ cx.actor # NoOne
  BY DEF Free, ActorCarrier
<1>2. /\ names \in [Names -> Row] /\ mtp \in Nat /\ height \in Nat
      /\ muts \in [Owners -> Nat] /\ cx.actor \in Owners
      /\ \A n \in Names : RowOK(names[n], mtp)
      /\ UNCHANGED clock /\ UNCHANGED txs /\ cx' \in Tx
  BY <1>1, CarrierFacts
<1>3. ASSUME NEW n \in Names
      PROVE  /\ RowOK(names'[n], mtp)
             /\ \/ Controller(names'[n]) = Controller(names[n])
                \/ Controller(names'[n]) = NoOne /\ Controller(names[n]) = cx.actor
  <2>1. CASE n \notin S
    BY <1>1, <1>2, <2>1
  <2>2. CASE n \in S
    <3>1. names[n].st = "OWNED" /\ names[n].owner = cx.actor
      BY <2>2 DEF Unlocked, OwnedSet, Holder
    <3>2. names'[n] = NoRow
      BY <1>1, <2>2
    <3> QED
      BY <3>1, <3>2, NoRowOK, NoRowType DEF Controller, Live, Holder
  <2> QED
    BY <2>1, <2>2
<1>4. names' \in [Names -> Row]
  BY <1>1, <1>3 DEF RowOK
<1>5. FoldOK'
  BY <1>1, <1>2, BumpRaises DEF IInv, FoldOK
<1>6. /\ {cx.actor} \in SUBSET Owners
      /\ \A n \in Names : scratch'[n] = scratch[n] \/ scratch'[n].owner \in {cx.actor}
  BY <1>1, <1>2
<1>7. \A n \in Names : Controller(names'[n]) # Controller(names[n]) =>
        /\ Controller(names'[n]) \in {cx.actor} \cup {NoOne}
        /\ \/ Controller(names[n]) \in {cx.actor} \cup {NoOne}
           \/ scratch[n] # NoClaim /\ scratch[n].owner = Controller(names[n])
  BY <1>3
<1>8. \A n \in Names : RowOK(names'[n], mtp)
  BY <1>3
<1> QED
  BY <1>1, <1>2, <1>4, <1>5, <1>6, <1>7, <1>8, OperationStep

LEMMA SetStepOK ==
  ASSUME IInv, SetStep
  PROVE  IInv' /\ Stamped
<1>1. ASSUME NEW h, NEW bits, NEW v, Renew(h, bits, v)
      PROVE  IInv' /\ Stamped
  BY <1>1, SelectedOwned, ExtendOK DEF Renew, ActorCarrier
<1>2. ASSUME NEW n, NEW v, RenewName(n, v)
      PROVE  IInv' /\ Stamped
  BY <1>2, ExtendOK DEF RenewName, ActorCarrier
<1>3. ASSUME NEW to \in Owners, NEW h, NEW bits, Transfer(to, h, bits)
      PROVE  IInv' /\ Stamped
  <2>1. Unlocked(Selected(cx.actor, h, bits)) \subseteq Unlocked(OwnedSet(cx.actor))
    BY SelectedOwned DEF Unlocked
  <2> QED
    BY <1>3, <2>1, GiveOK DEF Transfer
<1>4. ASSUME NEW n, NEW to \in Owners, TransferName(n, to)
      PROVE  IInv' /\ Stamped
  <2>1. Unlocked({n} \cap OwnedSet(cx.actor)) \subseteq Unlocked(OwnedSet(cx.actor))
    BY DEF Unlocked
  <2> QED
    BY <1>4, <2>1, GiveOK DEF TransferName
<1>5. ASSUME NEW h, NEW bits, Release(h, bits)
      PROVE  IInv' /\ Stamped
  <2>1. Unlocked(Selected(cx.actor, h, bits)) \subseteq Unlocked(OwnedSet(cx.actor))
    BY SelectedOwned DEF Unlocked
  <2> QED
    BY <1>5, <2>1, FreeOK DEF Release
<1>6. ASSUME NEW n, ReleaseName(n)
      PROVE  IInv' /\ Stamped
  <2>1. Unlocked({n} \cap OwnedSet(cx.actor)) \subseteq Unlocked(OwnedSet(cx.actor))
    BY DEF Unlocked
  <2> QED
    BY <1>6, <2>1, FreeOK DEF ReleaseName
<1> QED
  BY <1>1, <1>2, <1>3, <1>4, <1>5, <1>6 DEF SetStep

-----------------------------------------------------------------------------
(* The market *)

\* An operation on one row that keeps its holder and stamps nobody.
LEMMA SameHolderStep ==
  ASSUME IInv, NEW op, Carrier(op), NEW n \in Names, NEW r,
         RowOK(r, mtp), Controller(r) = Controller(names[n]),
         names' = [names EXCEPT ![n] = r], cx' \in Tx,
         UNCHANGED <<muts, commits, scratch>>
  PROVE  IInv' /\ Stamped
<1>1. /\ names \in [Names -> Row] /\ \A m \in Names : RowOK(names[m], mtp)
      /\ UNCHANGED clock /\ UNCHANGED txs
  BY CarrierFacts
<1>2. r \in Row
  BY DEF RowOK
<1>3. names' \in [Names -> Row] /\ \A m \in Names : RowOK(names'[m], mtp)
  BY <1>1, <1>2
<1>4. \A m \in Names : Controller(names'[m]) = Controller(names[m])
  BY <1>1
<1>5. muts' = Bump({}, height) /\ FoldOK'
  BY NothingStamped DEF IInv, FoldOK
<1> QED
  BY <1>1, <1>3, <1>4, <1>5, OperationStep

\* A sale opens with room for a reorganisation before the lease ends.
LEMMA PutOnSaleOK ==
  ASSUME IInv, NEW op, ActorCarrier(op), NEW n \in Names, Mine(n),
         NEW st \in {"LISTED", "OFFERED"}, NEW price \in Nat,
         NEW w \in Nat \ {0}, NEW buyer \in Owners \cup {NoOne},
         LeaseTail(n, w), PutOnSale(n, st, price, w, buyer)
  PROVE  IInv' /\ Stamped
<1> DEFINE x == names[n].lease
           r == [OwnedRow(cx.actor, x) EXCEPT !.st = st, !.seller = cx.actor,
                   !.price = price, !.offer = mtp + w, !.buyer = buyer]
<1>1. Carrier(op) /\ cx.actor # NoOne /\ Done /\ UNCHANGED <<muts, commits, scratch>>
  BY DEF ActorCarrier, PutOnSale
<1>2. /\ names \in [Names -> Row] /\ RowOK(names[n], mtp)
      /\ mtp \in Nat /\ cx.actor \in Owners /\ cx' \in Tx
  BY <1>1, CarrierFacts
<1>3. names' = [names EXCEPT ![n] = r]
  BY DEF PutOnSale
<1>4. /\ x \in Int /\ x <= mtp + MaxLease /\ mtp + w + ReorgBuffer <= x
      /\ names[n].st = "OWNED" /\ names[n].owner = cx.actor
  BY <1>2 DEF RowOK, Row, Live, Mine, LeaseTail
<1>5. RowOK(r, mtp)
  <2> HIDE DEF x
  <2>1. price \in Int
    OBVIOUS
  <2>2. \A o \in Owners, y \in Int :
          mtp + w + ReorgBuffer <= y /\ y <= mtp + MaxLease =>
            RowOK([OwnedRow(o, y) EXCEPT !.st = st, !.seller = o, !.price = price,
                     !.offer = mtp + w, !.buyer = buyer], mtp)
    BY <1>2, <2>1, SaleRowOK
  <2> QED
    BY <1>2, <1>4, <2>2
<1>6. r.st = st /\ r.seller = cx.actor
  <2> HIDE DEF x
  <2> QED BY DEF OwnedRow, NoRow
<1> HIDE DEF r
<1>7. Controller(r) = Controller(names[n])
  BY <1>4, <1>6 DEF Controller, Live, Holder
<1> QED
  BY <1>1, <1>2, <1>3, <1>5, <1>7, SameHolderStep

\* A reservation ends no later than its listing (market.c:75-76).
LEMMA ReserveOK ==
  ASSUME IInv, NEW n \in Names, NEW v \in Nat, Reserve(n, v)
  PROVE  IInv' /\ Stamped
<1> DEFINE r    == names[n]
           burn == DepositLeg(r.price, BurnBps)
           pay  == DepositLeg(r.price, PayBps)
           x    == IF mtp + ReserveWindow >= r.offer THEN r.offer ELSE mtp + ReserveWindow
           q    == [r EXCEPT !.st = "RESERVED", !.buyer = cx.actor, !.burn = burn,
                             !.pay = pay, !.reserve = x]
<1>1. /\ Carrier("RESERVE") /\ cx.actor # NoOne /\ r.st = "LISTED"
      /\ Consume(r.seller, pay) /\ names' = [names EXCEPT ![n] = q]
      /\ UNCHANGED <<muts, commits, scratch>>
  BY DEF Reserve, ActorCarrier
<1>2. /\ names \in [Names -> Row] /\ RowOK(r, mtp) /\ mtp \in Nat
      /\ cx.actor \in Owners /\ cx' \in Tx
  BY <1>1, CarrierFacts
<1>3. burn \in Int /\ pay \in Int
  <2>1. r.price \in Int /\ BurnBps \in Int /\ PayBps \in Int /\ DustFloor \in Int
    BY <1>2, PriceAssumption DEF Row
  <2> HIDE DEF r
  <2>2. r.price * BurnBps \in Int /\ r.price * PayBps \in Int
    BY <2>1
  <2> QED
    BY <2>1, <2>2 DEF DepositLeg, Later
<1>4. x \in Int /\ mtp < x /\ x <= r.offer
  <2>1. r.offer \in Int /\ mtp < r.offer
    BY <1>1, <1>2 DEF RowOK, Row, Locked, LockedStates
  <2>2. ReserveWindow \in Nat \ {0}
    BY TimeAssumption
  <2> HIDE DEF r
  <2> QED
    BY <1>2, <2>1, <2>2
<1>5. RowOK(q, mtp)
  <2> HIDE DEF r, burn, pay, x
  <2> QED BY <1>1, <1>2, <1>3, <1>4, ReservedRowOK
<1>6. q.st = "RESERVED" /\ q.seller = r.seller
  <2>1. r \in Row
    BY <1>2
  <2> HIDE DEF r, burn, pay, x
  <2> QED BY <2>1 DEF Row
<1> HIDE DEF q
<1>7. Controller(q) = Controller(r)
  BY <1>1, <1>6 DEF Controller, Live, Holder
<1> QED
  BY <1>1, <1>2, <1>5, <1>7, SameHolderStep

\* A sale that closes stamps the buyer and the seller.
LEMMA ConveyOK ==
  ASSUME IInv, NEW op, ActorCarrier(op), NEW n \in Names, Locked(names[n]),
         cx' \in Tx, Convey(n)
  PROVE  IInv' /\ Stamped
<1> DEFINE S == {cx.actor, names[n].seller}
<1>1. /\ Carrier(op) /\ cx.actor # NoOne
      /\ names' = [names EXCEPT ![n] = OwnedRow(cx.actor, names[n].lease)]
      /\ muts' = Bump(S, height) /\ UNCHANGED <<commits, scratch>>
  BY DEF ActorCarrier, Convey
<1>2. /\ names \in [Names -> Row] /\ \A m \in Names : RowOK(names[m], mtp)
      /\ mtp \in Nat /\ height \in Nat /\ muts \in [Owners -> Nat]
      /\ cx.actor \in Owners /\ UNCHANGED clock /\ UNCHANGED txs
  BY <1>1, CarrierFacts
<1>3. /\ names[n].lease \in Int /\ mtp < names[n].lease
      /\ names[n].lease <= mtp + MaxLease
      /\ names[n].seller \in Owners /\ names[n].st # "OWNED" /\ Live(names[n])
  BY <1>2 DEF RowOK, Row, Live, Locked, LockedStates
<1>4. RowOK(OwnedRow(cx.actor, names[n].lease), mtp)
  BY <1>2, <1>3, OwnedRowOK
<1>5. names' \in [Names -> Row] /\ \A m \in Names : RowOK(names'[m], mtp)
  BY <1>1, <1>2, <1>4 DEF RowOK
<1>6. Controller(names'[n]) = cx.actor /\ Controller(names[n]) = names[n].seller
  BY <1>1, <1>2, <1>3, OwnedRowType DEF Controller, Live, Holder
<1>7. \A m \in Names : Controller(names'[m]) # Controller(names[m]) =>
        /\ Controller(names'[m]) \in S \cup {NoOne}
        /\ \/ Controller(names[m]) \in S \cup {NoOne}
           \/ scratch[m] # NoClaim /\ scratch[m].owner = Controller(names[m])
  BY <1>1, <1>2, <1>6
<1>8. S \in SUBSET Owners
  BY <1>2, <1>3
<1>9. FoldOK'
  BY <1>1, <1>2, BumpRaises DEF IInv, FoldOK
<1> HIDE DEF S
<1> QED
  BY <1>1, <1>2, <1>5, <1>7, <1>8, <1>9, OperationStep

\* A swap gives each name to the other's owner and stamps both (trade.c:30-35).
LEMMA TradeOK ==
  ASSUME IInv, NEW i, NEW j, NEW n \in Names, NEW m \in Names, Trade(i, j, n, m)
  PROVE  IInv' /\ Stamped
<1> DEFINE a == Signer(cx.inputs, i)
           b == Signer(cx.inputs, j)
           S == {a, b}
           p == [names[n] EXCEPT !.owner = b]
           q == [names[m] EXCEPT !.owner = a]
<1>1. /\ Carrier("TRADE") /\ a # NoOne /\ b # NoOne /\ n # m /\ Done
      /\ names[n].st = "OWNED" /\ names[n].owner = a
      /\ names[m].st = "OWNED" /\ names[m].owner = b
      /\ names' = [names EXCEPT ![n].owner = b, ![m].owner = a]
      /\ muts' = Bump(S, height) /\ UNCHANGED <<commits, scratch>>
  BY DEF Trade
<1>2. /\ names \in [Names -> Row] /\ \A k \in Names : RowOK(names[k], mtp)
      /\ mtp \in Nat /\ height \in Nat /\ muts \in [Owners -> Nat]
      /\ cx' \in Tx /\ UNCHANGED clock /\ UNCHANGED txs
  BY <1>1, CarrierFacts
<1>3. a \in Owners /\ b \in Owners
  <2>1. cx.inputs \in Seq(Input)
    BY DEF IInv, Tx
  <2> QED
    BY <1>1, <2>1, SignerType
<1> HIDE DEF a, b
<1>4. RowOK(p, mtp) /\ RowOK(q, mtp)
  BY <1>1, <1>2, <1>3, GivenRowOK
<1>5. p.st = "OWNED" /\ p.owner = b /\ q.st = "OWNED" /\ q.owner = a
      /\ p \in Row /\ q \in Row
  BY <1>1, <1>2, <1>3, <1>4 DEF Row, RowOK
<1>6. names' = [[names EXCEPT ![n] = p] EXCEPT ![m] = q]
  BY <1>1, <1>2
<1> HIDE DEF p, q
<1>7. names' \in [Names -> Row]
      /\ names'[n] = p /\ names'[m] = q
      /\ \A k \in Names \ {n, m} : names'[k] = names[k]
  BY <1>1, <1>2, <1>5, <1>6
<1>8. \A k \in Names : RowOK(names'[k], mtp)
  BY <1>2, <1>4, <1>7
<1>9. Controller(names[n]) = a /\ Controller(names'[n]) = b
      /\ Controller(names[m]) = b /\ Controller(names'[m]) = a
  BY <1>1, <1>5, <1>7 DEF Controller, Live, Holder
<1>10. \A k \in Names : Controller(names'[k]) # Controller(names[k]) =>
         /\ Controller(names'[k]) \in S \cup {NoOne}
         /\ \/ Controller(names[k]) \in S \cup {NoOne}
            \/ scratch[k] # NoClaim /\ scratch[k].owner = Controller(names[k])
  BY <1>7, <1>9
<1>11. FoldOK' /\ S \in SUBSET Owners
  BY <1>1, <1>2, <1>3, BumpRaises DEF IInv, FoldOK
<1> HIDE DEF S
<1> QED
  BY <1>1, <1>2, <1>7, <1>8, <1>10, <1>11, OperationStep

LEMMA MarketStepOK ==
  ASSUME IInv, MarketStep
  PROVE  IInv' /\ Stamped
<1>1. ASSUME NEW n \in Names, NEW p \in Prices, NEW w \in Windows, Sell(n, p, w)
      PROVE  IInv' /\ Stamped
  <2> DEFINE u == IF w = 0 THEN ReserveWindow ELSE w
  <2>1. /\ ActorCarrier("SELL") /\ Mine(n) /\ LeaseTail(n, u)
        /\ PutOnSale(n, "LISTED", p, u, NoOne)
    BY <1>1 DEF Sell
  <2>2. u \in Nat \ {0} /\ p \in Nat
    BY InputAssumption, TimeAssumption
  <2> HIDE DEF u
  <2> QED
    BY <2>1, <2>2, PutOnSaleOK
<1>2. ASSUME NEW n \in Names, NEW o \in Owners, NEW p \in Prices, SellTo(n, o, p)
      PROVE  IInv' /\ Stamped
  <2>1. p \in Nat /\ DirectWindow \in Nat \ {0}
    BY InputAssumption, TimeAssumption
  <2> QED
    BY <1>2, <2>1, PutOnSaleOK DEF SellTo
<1>3. ASSUME NEW n \in Names, NEW v \in Values, Reserve(n, v)
      PROVE  IInv' /\ Stamped
  BY <1>3, ReserveOK, InputAssumption
<1>4. ASSUME NEW n \in Names, Settle(n)
      PROVE  IInv' /\ Stamped
  <2>1. ActorCarrier("SETTLE") /\ Locked(names[n]) /\ Convey(n)
        /\ Consume(names[n].seller, names[n].price - names[n].burn - names[n].pay)
    BY <1>4 DEF Settle, Locked, LockedStates
  <2>2. cx' \in Tx
    BY <2>1, CarrierFacts DEF ActorCarrier
  <2> QED
    BY <2>1, <2>2, ConveyOK
<1>5. ASSUME NEW n \in Names, Pay(n)
      PROVE  IInv' /\ Stamped
  <2>1. ActorCarrier("PAY") /\ Locked(names[n]) /\ Convey(n)
        /\ Consume(names[n].seller, names[n].price)
    BY <1>5 DEF Pay, Locked, LockedStates
  <2>2. cx' \in Tx
    BY <2>1, CarrierFacts DEF ActorCarrier
  <2> QED
    BY <2>1, <2>2, ConveyOK
<1> QED
  BY <1>1, <1>2, <1>3, <1>4, <1>5, TradeOK DEF MarketStep

-----------------------------------------------------------------------------
(* The theorems *)

LEMMA InitOK == Init => IInv
<1> SUFFICES ASSUME Init PROVE IInv
  OBVIOUS
<1>1. RowsOK
  BY NoRowType, NoRowOK DEF Init, RowsOK
<1>2. FoldOK /\ ClockOK
  BY DEF Init, FoldOK, ClockOK, ClaimWin, NoClaim
<1>3. cx \in Tx
  BY EmptySeq DEF Init, NoTx, Tx
<1>4. StampInv
  BY DEF Init, StampInv
<1> QED
  BY <1>1, <1>2, <1>3, <1>4 DEF IInv

LEMMA NextOK == IInv /\ [Next]_vars => IInv' /\ (Stamped \/ UNCHANGED vars)
<1> SUFFICES ASSUME IInv, [Next]_vars
             PROVE  IInv' /\ (Stamped \/ UNCHANGED vars)
  OBVIOUS
<1>1. CASE BlockStep
  BY <1>1, BlockStepOK DEF BlockStep
<1>2. CASE TxStep
  BY <1>2, TxStepOK
<1>3. CASE ClaimStep
  BY <1>3, ClaimStepOK
<1>4. CASE SetStep
  BY <1>4, SetStepOK
<1>5. CASE MarketStep
  BY <1>5, MarketStepOK
<1>6. CASE UNCHANGED vars
  BY <1>6 DEF vars, IInv, RowsOK, FoldOK, ClockOK, StampInv
<1> QED
  BY <1>1, <1>2, <1>3, <1>4, <1>5, <1>6 DEF Next

\* The inductive invariant holds of every behaviour of the fold.
THEOREM Inductive == Spec => []IInv
  BY InitOK, NextOK, PTL DEF Spec

\* Every field keeps its type, and every live row an owner (sm.h:166-221).
THEOREM TypeCorrect == Spec => []TypeOK
  BY Inductive, IInvIsInvariants, PTL

\* No lapsed lease stays in the owned set and none exceeds MAX_LEASE, through
\* the water-fill, conveyances and displacement (lease.c, preblock.c:45-56).
THEOREM LeaseBounded == Spec => []LeaseInv
  BY Inductive, IInvIsInvariants, PTL

\* The windows of every sale nest inside its lease (preblock.c:26-44).
THEOREM SalesNest == Spec => []NestingInv
  BY Inductive, IInvIsInvariants, PTL

\* Stamps stay within the chain, and a minter's is its block (claim.c:82-91).
THEOREM StampsCurrent == Spec => []StampInv
  BY Inductive, IInvIsInvariants, PTL

\* No opcode, lapse, sale or displacement changes an owned set without
\* stamping its owner with the block: the anchor guard is sound (state.c:158-167).
THEOREM EveryMutationStamped == Spec => MutationStamped
<1>1. IInv /\ [Next]_vars =>
        [\A o \in Owners : OwnedSetNext(o) # OwnedSet(o) => muts'[o] = height']_vars
  BY NextOK DEF Stamped
<1> QED
  BY <1>1, Inductive, PTL DEF Spec, MutationStamped

-----------------------------------------------------------------------------
(* The market: a sale can be paid for, and advances only against money that *)
(* reaches the seller and is counted once.                                  *)

\* What holds of the price of a row.  A reservation keeps the price of its
\* listing, to which it may fall back, and an open offer owes its whole price.
PriceOK(r) ==
  /\ SolvencyOf(r)
  /\ r.st = "RESERVED" => r.price >= SellPriceFloor
  /\ r.st \in {"LISTED", "OFFERED"} => r.burn = 0 /\ r.pay = 0

PricesOK == \A n \in Names : PriceOK(names[n])

\* Row q is no sale any more, or the same one as row r.
SameSale(r, q) ==
  /\ \/ q.st \in {"NONE", "OWNED"}
     \/ q.st = r.st /\ q.price = r.price /\ q.burn = r.burn /\ q.pay = r.pay
  /\ Locked(r) => q.st = r.st

\* A step of a block in which a sale advances pays for it.
Paid ==
  \A n \in Names :
    /\ Locked(names[n])
    /\ height' = height
    /\ names'[n].st # names[n].st
    => \E i \in DOMAIN cx.outs :
         /\ ~cx.outs[i].used /\ cx'.outs[i].used
         /\ cx.outs[i].dest = names[n].seller
         /\ cx.outs[i].value = Due(names[n]) - Due(names'[n]) - names'[n].burn

-----------------------------------------------------------------------------
(* Rows *)

\* The basis points of a leg.
Points == 0..3333

\* A third of a price at most: what the basis points of a leg come to.
LEMMA LegOfPrice ==
  ASSUME NEW price \in Int, NEW bps \in Points, price >= SellPriceFloor
  PROVE  DepositLeg(price, bps) \in Int /\ 3 * DepositLeg(price, bps) <= price
<1> DEFINE x == price * bps
           q == x \div 10000
<1>1. DustFloor \in Nat /\ 3 * DustFloor <= price /\ price \in Nat
  BY PriceAssumption DEF SellPriceFloor
<1>2. x \in Nat /\ x <= price * 3333
  <2> USE DEF Points
  <2>1. \A k, c \in Nat : c <= 3333 => k * c \in Nat /\ k * c <= k * 3333
    OBVIOUS
  <2> QED
    BY <1>1, <2>1
<1> HIDE DEF x
<1>3. q \in Int /\ 10000 * q <= x
  BY <1>2
<1>4. 3 * q <= price
  BY <1>1, <1>2, <1>3
<1>5. DepositLeg(price, bps) = Later(q, DustFloor)
  BY DEF DepositLeg, x
<1> HIDE DEF q
<1> QED
  BY <1>1, <1>3, <1>4, <1>5 DEF Later

LEMMA LegsOfPrice ==
  ASSUME NEW p \in Int, p >= SellPriceFloor
  PROVE  /\ DepositLeg(p, BurnBps) \in Int /\ 3 * DepositLeg(p, BurnBps) <= p
         /\ DepositLeg(p, PayBps) \in Int /\ 3 * DepositLeg(p, PayBps) <= p
<1>1. BurnBps \in Points /\ PayBps \in Points
  BY PriceAssumption DEF Points
<1> QED
  BY <1>1, LegOfPrice

\* A row that goes back to its holder is no sale.
LEMMA OwnedIsNoSale ==
  ASSUME NEW o, NEW x
  PROVE  OwnedRow(o, x).st = "OWNED" /\ OwnedRow(o, x).burn = 0
  BY DEF OwnedRow, NoRow

\* What stays as it is, or ends, keeps its price in order.
LEMMA SameSaleKeeps ==
  ASSUME NEW r, NEW q, PriceOK(r), SameSale(r, q)
  PROVE  PriceOK(q)
  BY DEF PriceOK, SolvencyOf, SameSale

\* The turn of a block: a reservation falls back to the listing it was, which
\* its price still allows (preblock.c:31-35).
LEMMA TurnedKeeps ==
  ASSUME NEW r \in Row, NEW t, PriceOK(r)
  PROVE  PriceOK(Turned(r, t))
<1>1. PriceOK(AfterReserve(r, t))
  <2>1. CASE r.st = "RESERVED" /\ t >= r.reserve /\ r.reserve < r.offer
    <3> DEFINE q == AfterReserve(r, t)
    <3>1. q.st = "LISTED" /\ q.price = r.price /\ q.burn = 0 /\ q.pay = 0
      BY <2>1 DEF AfterReserve, Row
    <3> HIDE DEF q
    <3>2. PriceOK(q)
      BY <2>1, <3>1 DEF PriceOK, SolvencyOf
    <3> QED
      BY <3>2 DEF q
  <2>2. CASE AfterReserve(r, t) \in {r, ReturnToSeller(r)}
    BY <2>2, OwnedIsNoSale DEF ReturnToSeller, PriceOK, SolvencyOf
  <2> QED
    BY <2>1, <2>2 DEF AfterReserve
<1> DEFINE q == AfterReserve(r, t)
<1> HIDE DEF q
<1>2. Turned(r, t) \in {q, ReturnToSeller(q)}
  BY DEF Turned, AfterOffer, q
<1> QED
  BY <1>1, <1>2, OwnedIsNoSale DEF ReturnToSeller, PriceOK, SolvencyOf, q

\* A step that starts and advances no sale.
LEMMA NoSaleMoves ==
  ASSUME PricesOK, \A n \in Names : SameSale(names[n], names'[n])
  PROVE  PricesOK' /\ Paid
<1>1. PricesOK'
  BY SameSaleKeeps DEF PricesOK
<1>2. Paid
  BY DEF Paid, SameSale
<1> QED
  BY <1>1, <1>2

-----------------------------------------------------------------------------
(* Steps that leave the market alone *)

\* The water-fill leaves every sale as it is.
LEMMA FillKeepsSales ==
  ASSUME NEW rows \in [Names -> Row], NEW S \in SUBSET Names, NEW burn, mtp \in Nat,
         NEW n \in Names
  PROVE  SameSale(rows[n], Waterfill(rows, S, burn)[n])
<1> DEFINE w == Waterfill(rows, S, burn)[n]
           x == w.lease
<1>1. w = [rows[n] EXCEPT !.lease = x] /\ rows[n] \in Row
  BY WaterfillExtends
<1> HIDE DEF w, x
<1>2. /\ w.st = rows[n].st /\ w.price = rows[n].price
      /\ w.burn = rows[n].burn /\ w.pay = rows[n].pay
  BY <1>1 DEF Row
<1> QED
  BY <1>2 DEF SameSale, w

LEMMA BlockKeeps ==
  ASSUME IInv, PricesOK, NEW t, NEW r, BeginBlock(t, r)
  PROVE  PricesOK' /\ Paid
<1>1. /\ \A n \in Names : names'[n] \in {NoRow, Turned(names[n], t)}
      /\ height' # height
  BY DEF BeginBlock, Preblock, IInv, ClockOK
<1>2. ASSUME NEW n \in Names PROVE PriceOK(names'[n])
  <2>1. names[n] \in Row /\ PriceOK(names[n])
    BY DEF IInv, RowsOK, RowOK, PricesOK
  <2>2. PriceOK(NoRow) /\ PriceOK(Turned(names[n], t))
    BY <2>1, NoRowType, TurnedKeeps DEF PriceOK, SolvencyOf
  <2> QED
    BY <1>1, <2>2
<1> QED
  BY <1>1, <1>2 DEF PricesOK, Paid

LEMMA ClaimKeeps ==
  ASSUME IInv, PricesOK, NEW n \in Names, NEW v \in Values, Claim(n, v)
  PROVE  PricesOK' /\ Paid
<1> DEFINE rows == [names EXCEPT ![n] = OwnedRow(cx.actor, mtp)]
<1>1. /\ names' = Waterfill(rows, {n}, v) /\ Carrier("CLAIM") /\ cx.actor # NoOne
      /\ names[n].st \in {"NONE", "OWNED"}
  BY DEF Claim, ActorCarrier, MayClaim
<1>2. names \in [Names -> Row] /\ mtp \in Nat /\ cx.actor \in Owners
  BY <1>1, CarrierFacts
<1>3. OwnedRow(cx.actor, mtp) \in Row
  BY <1>2, OwnedRowType
<1>4. /\ rows \in [Names -> Row] /\ rows[n] = OwnedRow(cx.actor, mtp)
      /\ \A m \in Names \ {n} : rows[m] = names[m]
  BY <1>2, <1>3
<1> HIDE DEF rows
<1>5. ASSUME NEW m \in Names PROVE SameSale(names[m], names'[m])
  <2>1. SameSale(rows[m], names'[m])
    BY <1>1, <1>2, <1>4, FillKeepsSales
  <2>2. CASE m = n
    BY <1>1, <1>4, <2>1, <2>2, OwnedIsNoSale DEF SameSale, Locked, LockedStates
  <2>3. CASE m # n
    BY <1>4, <2>1, <2>3
  <2> QED
    BY <2>2, <2>3
<1> QED
  BY <1>5, NoSaleMoves

\* Renewals, transfers and releases: names on sale are passed over.
LEMMA ExtendKeeps ==
  ASSUME IInv, PricesOK, NEW S \in SUBSET OwnedSet(cx.actor), NEW v, Extend(S, v)
  PROVE  PricesOK' /\ Paid
<1>1. /\ names' = Waterfill(names, S, v) /\ names \in [Names -> Row] /\ mtp \in Nat
      /\ S \in SUBSET Names
  BY DEF Extend, IInv, RowsOK, ClockOK, OwnedSet
<1>2. \A n \in Names : SameSale(names[n], names'[n])
  BY <1>1, FillKeepsSales
<1> QED
  BY <1>2, NoSaleMoves

LEMMA MoveKeeps ==
  ASSUME IInv, PricesOK, NEW S, NEW R, NEW to,
         S = Unlocked(R), Give(S, to) \/ Free(S)
  PROVE  PricesOK' /\ Paid
<1>1. names \in [Names -> Row] /\ \A n \in S : names[n].st = "OWNED"
  BY DEF IInv, RowsOK, Unlocked
<1>2. ASSUME NEW n \in Names PROVE SameSale(names[n], names'[n])
  <2>1. CASE n \notin S
    BY <2>1 DEF Give, Free, SameSale
  <2>2. CASE n \in S
    <3>1. names'[n].st \in {"NONE", "OWNED"}
      <4>1. CASE Give(S, to)
        <5>1. names'[n] = [names[n] EXCEPT !.owner = to] /\ names[n] \in Row
          BY <1>1, <2>2, <4>1 DEF Give
        <5> QED
          BY <1>1, <2>2, <5>1 DEF Row
      <4>2. CASE Free(S)
        BY <2>2, <4>2, NoRowType DEF Free
      <4> QED
        BY <4>1, <4>2
    <3> QED
      BY <1>1, <2>2, <3>1 DEF SameSale, Locked, LockedStates
  <2> QED
    BY <2>1, <2>2
<1> QED
  BY <1>2, NoSaleMoves

LEMMA SetKeeps ==
  ASSUME IInv, PricesOK, SetStep
  PROVE  PricesOK' /\ Paid
<1>1. ASSUME NEW h, NEW bits, NEW v, Renew(h, bits, v) PROVE PricesOK' /\ Paid
  BY <1>1, SelectedOwned, ExtendKeeps DEF Renew
<1>2. ASSUME NEW n, NEW v, RenewName(n, v) PROVE PricesOK' /\ Paid
  BY <1>2, ExtendKeeps DEF RenewName
<1>3. ASSUME NEW to, NEW h, NEW bits, Transfer(to, h, bits) PROVE PricesOK' /\ Paid
  BY <1>3, MoveKeeps DEF Transfer
<1>4. ASSUME NEW n, NEW to, TransferName(n, to) PROVE PricesOK' /\ Paid
  BY <1>4, MoveKeeps DEF TransferName
<1>5. ASSUME NEW h, NEW bits, Release(h, bits) PROVE PricesOK' /\ Paid
  BY <1>5, MoveKeeps DEF Release
<1>6. ASSUME NEW n, ReleaseName(n) PROVE PricesOK' /\ Paid
  BY <1>6, MoveKeeps DEF ReleaseName
<1> QED
  BY <1>1, <1>2, <1>3, <1>4, <1>5, <1>6 DEF SetStep

LEMMA TradeKeeps ==
  ASSUME IInv, PricesOK, NEW i, NEW j, NEW n \in Names, NEW m \in Names, Trade(i, j, n, m)
  PROVE  PricesOK' /\ Paid
<1>1. /\ names \in [Names -> Row] /\ names[n].st = "OWNED" /\ names[m].st = "OWNED"
      /\ names' = [names EXCEPT ![n].owner = Signer(cx.inputs, j),
                                ![m].owner = Signer(cx.inputs, i)]
  BY DEF IInv, RowsOK, Trade
<1>2. \A k \in Names : names'[k].st = names[k].st /\ (k \notin {n, m} => names'[k] = names[k])
  BY <1>1 DEF Row
<1>3. \A k \in Names : SameSale(names[k], names'[k])
  BY <1>1, <1>2 DEF SameSale, Locked, LockedStates
<1> QED
  BY <1>3, NoSaleMoves

-----------------------------------------------------------------------------
(* Sales *)

\* One row changes, which was not on sale or pays for its advance.
LEMMA RowKeeps ==
  ASSUME IInv, PricesOK, NEW n \in Names, NEW q, names' = [names EXCEPT ![n] = q],
         PriceOK(q),
         Locked(names[n]) =>
           \E i \in DOMAIN cx.outs :
             /\ ~cx.outs[i].used /\ cx'.outs[i].used
             /\ cx.outs[i].dest = names[n].seller
             /\ cx.outs[i].value = Due(names[n]) - Due(q) - q.burn
  PROVE  PricesOK' /\ Paid
<1>1. \A m \in Names : names'[m] = IF m = n THEN q ELSE names[m]
  BY DEF IInv, RowsOK
<1>2. PricesOK'
  BY <1>1 DEF PricesOK
<1>3. Paid
  BY <1>1 DEF Paid
<1> QED
  BY <1>2, <1>3

\* sm_consume_output marks an output that pays exactly that, unmarked before.
LEMMA ConsumedOnce ==
  ASSUME IInv, NEW dest, NEW amount, Consume(dest, amount)
  PROVE  \E i \in DOMAIN cx.outs :
           /\ ~cx.outs[i].used /\ cx'.outs[i].used
           /\ cx.outs[i].dest = dest /\ cx.outs[i].value = amount
<1>1. PICK i \in Matching(dest, amount) :
        cx' = [cx EXCEPT !.left = @ - 1, !.outs[i].used = TRUE]
  BY DEF Consume
<1>2. /\ i \in DOMAIN cx.outs /\ ~cx.outs[i].used
      /\ cx.outs[i].dest = dest /\ cx.outs[i].value = amount
  BY DEF Matching
<1>3. cx'.outs[i].used
  <2>1. cx \in Tx /\ cx.outs \in Seq(TxOut)
    BY DEF IInv, Tx
  <2>2. cx.outs[i] \in TxOut
    BY <1>2, <2>1
  <2>3. cx'.outs = [cx.outs EXCEPT ![i].used = TRUE]
    BY <1>1, <2>1 DEF Tx
  <2>4. cx'.outs[i] = [cx.outs[i] EXCEPT !.used = TRUE]
    BY <1>2, <2>1, <2>3
  <2> QED
    BY <2>2, <2>4 DEF TxOut
<1> QED
  BY <1>2, <1>3

\* SELL and SELL_TO ask for enough (market.c:40-58).
LEMMA OfferKeeps ==
  ASSUME IInv, PricesOK, NEW n \in Names, Mine(n),
         NEW st, NEW price, NEW w, NEW buyer,
         \/ st = "LISTED" /\ price >= SellPriceFloor
         \/ st = "OFFERED" /\ price >= DustFloor,
         PutOnSale(n, st, price, w, buyer)
  PROVE  PricesOK' /\ Paid
<1> DEFINE r == [OwnedRow(cx.actor, names[n].lease) EXCEPT !.st = st, !.seller = cx.actor,
                   !.price = price, !.offer = mtp + w, !.buyer = buyer]
<1>1. names' = [names EXCEPT ![n] = r] /\ names[n].st = "OWNED"
  BY DEF PutOnSale, Mine
<1>2. r.st = st /\ r.price = price /\ r.burn = 0 /\ r.pay = 0
  BY DEF OwnedRow, NoRow
<1> HIDE DEF r
<1>3. PriceOK(r)
  BY <1>2 DEF PriceOK, SolvencyOf
<1> QED
  BY <1>1, <1>3, RowKeeps DEF Locked, LockedStates

\* RESERVE: both legs leave the seller the dust floor at least, and the paid
\* leg is there (market.c:60-84).
LEMMA ReserveKeeps ==
  ASSUME IInv, PricesOK, NEW n \in Names, NEW v, Reserve(n, v)
  PROVE  PricesOK' /\ Paid
<1> DEFINE r    == names[n]
           burn == DepositLeg(r.price, BurnBps)
           pay  == DepositLeg(r.price, PayBps)
           x    == IF mtp + ReserveWindow >= r.offer THEN r.offer ELSE mtp + ReserveWindow
           q    == [r EXCEPT !.st = "RESERVED", !.buyer = cx.actor, !.burn = burn,
                             !.pay = pay, !.reserve = x]
<1>1. /\ r.st = "LISTED" /\ Consume(r.seller, pay) /\ names' = [names EXCEPT ![n] = q]
      /\ r \in Row /\ PriceOK(r)
  BY DEF Reserve, IInv, RowsOK, PricesOK
<1>2. r.price \in Int /\ r.price >= SellPriceFloor /\ r.burn = 0 /\ r.pay = 0
  BY <1>1 DEF PriceOK, SolvencyOf, Row
<1>3. /\ q.st = "RESERVED" /\ q.price = r.price /\ q.burn = burn /\ q.pay = pay
  <2> HIDE DEF r, burn, pay, x
  <2> QED
    BY <1>1 DEF Row
<1> HIDE DEF q
<1>4. /\ burn \in Int /\ 3 * burn <= r.price
      /\ pay \in Int /\ 3 * pay <= r.price
  <2> DEFINE p == r.price
  <2>1. p \in Int /\ p >= SellPriceFloor
    BY <1>2
  <2> HIDE DEF p, r
  <2>2. /\ DepositLeg(p, BurnBps) \in Int /\ 3 * DepositLeg(p, BurnBps) <= p
        /\ DepositLeg(p, PayBps) \in Int /\ 3 * DepositLeg(p, PayBps) <= p
    BY <2>1, LegsOfPrice
  <2> QED
    BY <2>2 DEF p
<1>5. PriceOK(q)
  <2>1. r.price - burn - pay >= DustFloor
    <3> HIDE DEF r, burn, pay
    <3> QED
      BY <1>2, <1>4, PriceAssumption DEF SellPriceFloor
  <2> QED
    BY <1>2, <1>3, <2>1 DEF PriceOK, SolvencyOf
<1>6. Due(r) - Due(q) - q.burn = pay
  <2>1. Due(r) = r.price - r.burn - r.pay /\ Due(q) = q.price - q.burn - q.pay
    BY <1>1, <1>3 DEF Due, Locked, LockedStates
  <2> HIDE DEF r, burn, pay
  <2> QED
    BY <1>2, <1>3, <1>4, <2>1
<1>7. PICK i \in DOMAIN cx.outs :
        /\ ~cx.outs[i].used /\ cx'.outs[i].used
        /\ cx.outs[i].dest = r.seller /\ cx.outs[i].value = pay
  <2> HIDE DEF r, burn, pay
  <2> QED
    BY <1>1, ConsumedOnce
<1>8. cx.outs[i].value = Due(r) - Due(q) - q.burn
  BY <1>6, <1>7
<1> HIDE DEF burn, pay
<1> QED
  BY <1>1, <1>5, <1>7, <1>8, RowKeeps

\* SETTLE and PAY ask for what is due (market.c:86-137).
LEMMA ConveyKeeps ==
  ASSUME IInv, PricesOK, NEW n \in Names, Locked(names[n]), Convey(n),
         Consume(names[n].seller, Due(names[n]))
  PROVE  PricesOK' /\ Paid
<1> DEFINE q == OwnedRow(cx.actor, names[n].lease)
<1>1. names' = [names EXCEPT ![n] = q]
  BY DEF Convey
<1>2. q.st = "OWNED" /\ q.burn = 0
  BY OwnedIsNoSale
<1> HIDE DEF q
<1>3. PriceOK(q) /\ Due(q) = 0
  BY <1>2 DEF PriceOK, SolvencyOf, Due, Locked, LockedStates
<1>4. Due(names[n]) - Due(q) - q.burn = Due(names[n])
  <2>1. Due(names[n]) \in Int
    <3>1. names[n] \in Row
      BY DEF IInv, RowsOK
    <3>2. names[n].price \in Int /\ names[n].burn \in Int /\ names[n].pay \in Int
      BY <3>1 DEF Row
    <3> QED
      BY <3>2 DEF Due
  <2> QED
    BY <1>2, <1>3, <2>1
<1>5. PICK i \in DOMAIN cx.outs :
        /\ ~cx.outs[i].used /\ cx'.outs[i].used
        /\ cx.outs[i].dest = names[n].seller /\ cx.outs[i].value = Due(names[n])
  BY ConsumedOnce
<1>6. cx.outs[i].value = Due(names[n]) - Due(q) - q.burn
  BY <1>4, <1>5
<1> QED
  BY <1>1, <1>3, <1>5, <1>6, RowKeeps

LEMMA MarketKeeps ==
  ASSUME IInv, PricesOK, MarketStep
  PROVE  PricesOK' /\ Paid
<1>1. ASSUME NEW n \in Names, NEW p \in Prices, NEW w \in Windows, Sell(n, p, w)
      PROVE  PricesOK' /\ Paid
  BY <1>1, OfferKeeps DEF Sell
<1>2. ASSUME NEW n \in Names, NEW o \in Owners, NEW p \in Prices, SellTo(n, o, p)
      PROVE  PricesOK' /\ Paid
  BY <1>2, OfferKeeps DEF SellTo
<1>3. ASSUME NEW n \in Names, NEW v \in Values, Reserve(n, v)
      PROVE  PricesOK' /\ Paid
  BY <1>3, ReserveKeeps
<1>4. ASSUME NEW n \in Names, Settle(n)
      PROVE  PricesOK' /\ Paid
  <2>1. /\ Locked(names[n]) /\ Convey(n)
        /\ Due(names[n]) = names[n].price - names[n].burn - names[n].pay
        /\ Consume(names[n].seller, names[n].price - names[n].burn - names[n].pay)
    BY <1>4 DEF Settle, Due, Locked, LockedStates
  <2> QED
    BY <2>1, ConveyKeeps
<1>5. ASSUME NEW n \in Names, Pay(n)
      PROVE  PricesOK' /\ Paid
  <2>1. /\ Locked(names[n]) /\ Convey(n) /\ Consume(names[n].seller, names[n].price)
        /\ names[n].st = "OFFERED"
    BY <1>5 DEF Pay, Locked, LockedStates
  <2>2. Due(names[n]) = names[n].price
    <3>1. names[n].price \in Int /\ names[n].burn = 0 /\ names[n].pay = 0
      BY <2>1 DEF IInv, RowsOK, Row, PricesOK, PriceOK
    <3> QED
      BY <2>1, <3>1 DEF Due
  <2> QED
    BY <2>1, <2>2, ConveyKeeps
<1> QED
  BY <1>1, <1>2, <1>3, <1>4, <1>5, TradeKeeps DEF MarketStep

-----------------------------------------------------------------------------
(* The theorems *)

LEMMA InitPrices == Init => PricesOK
  BY NoRowType DEF Init, PricesOK, PriceOK, SolvencyOf

LEMMA NextPrices == IInv /\ PricesOK /\ [Next]_vars => PricesOK' /\ (Paid \/ UNCHANGED vars)
<1> SUFFICES ASSUME IInv, PricesOK, [Next]_vars
             PROVE  PricesOK' /\ (Paid \/ UNCHANGED vars)
  OBVIOUS
<1>1. CASE BlockStep
  BY <1>1, BlockKeeps DEF BlockStep
<1>2. ASSUME UNCHANGED names PROVE PricesOK' /\ Paid
  BY <1>2 DEF PricesOK, Paid
<1>3. CASE TxStep
  BY <1>2, <1>3 DEF TxStep, BeginTx, EndTx, As, foldState
<1>4. CASE ClaimStep
  BY <1>2, <1>4, ClaimKeeps DEF ClaimStep, Commit
<1>5. CASE SetStep
  BY <1>5, SetKeeps
<1>6. CASE MarketStep
  BY <1>6, MarketKeeps
<1>7. CASE UNCHANGED vars
  BY <1>2, <1>7 DEF vars
<1> QED
  BY <1>1, <1>3, <1>4, <1>5, <1>6, <1>7 DEF Next

LEMMA PricesHold == Spec => []PricesOK
  BY Inductive, InitPrices, NextPrices, PTL DEF Spec

\* Whatever its price, a listing can be reserved and a reservation settled: the
\* legs leave the seller the dust floor, so the subtraction of SETTLE does not
\* wrap (harness.c:74-80, market.c:60-84).
THEOREM SalesSolvent == Spec => []SolvencyInv
<1>1. PricesOK => SolvencyInv
  BY DEF PricesOK, PriceOK, SolvencyInv
<1> QED
  BY <1>1, PricesHold, PTL

\* A sale advances inside a block only against an unconsumed output that pays
\* its seller exactly what the step owes, and consumes it (market.c:10-26).
THEOREM SalesArePaid == Spec => EscrowPaid
<1>1. IInv /\ PricesOK /\ [Next]_vars => [Paid]_vars
  BY NextPrices
<1>2. [][Paid]_vars => EscrowPaid
  BY PTL DEF EscrowPaid, Paid
<1> QED
  BY <1>1, <1>2, Inductive, PricesHold, PTL DEF Spec
=============================================================================
