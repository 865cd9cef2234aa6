-------------------------- MODULE RefinementProofs --------------------------
(***************************************************************************)
(* The fold between what it promises and what it runs, for every value of  *)
(* the constants: every step of the fold is a step of the Registry or      *)
(* changes nothing of it, and the loop of the water-fill awards what the   *)
(* fold's Waterfill says in one step.                                      *)
(***************************************************************************)
EXTENDS NameRegistry, WaterFill, NameFoldProofs, WellFoundedInduction

-----------------------------------------------------------------------------
(* The fold implements the Registry *)

\* What the mapping needs beside the invariants of the fold.

\* Between transactions nobody signs, and the actor is always a signer.
SignerOK ==
  /\ ~cx.open => cx.inputs = <<>>
  /\ cx.actor # NoOne => cx.actor \in Signers

\* A promised row names an identity, never the zeroed one.
BuyerOK == \A n \in Names : names[n].st \in {"OFFERED", "RESERVED"} => names[n].buyer \in Owners

RInv == SignerOK /\ BuyerOK

RegistryStep == [Registry!Next]_(Registry!vars)

\* The registry's view of a row is its controller and its terms.
LEMMA HolderIsController ==
  /\ \A n \in Names : HolderOf(n) = Controller(names[n])
  /\ \A n \in Names : HolderOf(n)' = Controller(names'[n])
  BY DEF HolderOf, Controller, Live

\* The registry sees no change where nobody gains a name or a promise.
LEMMA Quiet ==
  ASSUME \A n \in Names : Controller(names'[n]) = Controller(names[n]),
         \A n \in Names : Terms(names'[n]) = Terms(names[n]),
         Ripe' = Ripe, scratch' = scratch, Signers' = Signers
  PROVE  UNCHANGED Registry!vars
  BY HolderIsController DEF Registry!vars

\* A row that is not on the market is free.
LEMMA TermsOf ==
  ASSUME NEW r
  PROVE  /\ r.st \notin LockedStates => Terms(r) = "not for sale"
         /\ r.st = "LISTED" => Terms(r) = "anyone"
         /\ r.st \in {"OFFERED", "RESERVED"} => Terms(r) = r.buyer
  BY DEF Terms, LockedStates

\* A walk over the carriers keeps the inputs and the actor.
LEMMA CarrierKeeps ==
  ASSUME IInv, RInv, NEW op, Carrier(op),
         Done \/ \E dest, amount : Consume(dest, amount)
  PROVE  /\ cx'.inputs = cx.inputs /\ cx'.actor = cx.actor /\ cx'.open = cx.open
         /\ Signers' = Signers /\ SignerOK'
         /\ commits' = commits => Ripe' = Ripe
         /\ cx.actor # NoOne => cx.actor \in Signers /\ cx.actor \in Owners
<1>1. cx \in Tx
  BY DEF IInv
<1>2. cx'.inputs = cx.inputs /\ cx'.actor = cx.actor /\ cx'.open = cx.open
  BY <1>1 DEF Done, Consume, Tx
<1>3. Signers' = Signers
  BY <1>2 DEF Signers
<1>4. SignerOK'
  BY <1>2, <1>3 DEF RInv, SignerOK
<1>5. commits' = commits => Ripe' = Ripe
  BY DEF Ripe, Carrier, clock
<1> QED
  BY <1>1, <1>2, <1>3, <1>4, <1>5 DEF RInv, SignerOK, Tx

\* An identity that signs is one of the owners.
LEMMA SignersAreOwners ==
  ASSUME cx \in Tx
  PROVE  Signers \in SUBSET Owners
<1>1. \A i \in DOMAIN cx.inputs : cx.inputs[i] \in Input
  BY LenProperties, ElementOfSeq DEF Tx
<1> QED
  BY <1>1 DEF Signers, Input

\* The signer of an input signs the transaction.
LEMMA SignerSigns ==
  ASSUME cx \in Tx, NEW i, Signer(cx.inputs, i) # NoOne
  PROVE  Signer(cx.inputs, i) \in Signers
<1>1. /\ i \in DOMAIN cx.inputs /\ cx.inputs[i].all
      /\ cx.inputs[i].id = Signer(cx.inputs, i)
  BY SignerType DEF Tx
<1> QED
  BY <1>1 DEF Signers

-----------------------------------------------------------------------------
(* Blocks and transactions *)

\* The windows that close at a block only weaken a promise.
LEMMA TurnedTerms ==
  ASSUME NEW r \in Row, NEW t
  PROVE  /\ \/ Terms(Turned(r, t)) \in {Terms(r), "not for sale"}
            \/ r.st = "RESERVED" /\ Terms(Turned(r, t)) = "anyone"
         /\ Turned(r, t).st \in {"OFFERED", "RESERVED"} => Turned(r, t) = r
<1> DEFINE relisted == [r EXCEPT !.st = "LISTED", !.reserve = 0, !.burn = 0, !.pay = 0,
                                 !.buyer = NoOne]
<1>1. relisted.st = "LISTED"
  BY RelistedRow
<1> HIDE DEF relisted
<1>2. ReturnToSeller(r).st = "OWNED" /\ ReturnToSeller(relisted).st = "OWNED"
  BY DEF ReturnToSeller, OwnedRow, NoRow
<1>3. AfterReserve(r, t) \in {r, relisted, ReturnToSeller(r)}
      /\ (AfterReserve(r, t) = relisted => r.st = "RESERVED" \/ relisted = r)
  BY <1>2, <1>1 DEF AfterReserve, relisted
<1>4. Turned(r, t) \in {AfterReserve(r, t), ReturnToSeller(AfterReserve(r, t))}
  BY DEF Turned, AfterOffer
<1>5. \A q : ReturnToSeller(q).st = "OWNED"
  BY DEF ReturnToSeller, OwnedRow, NoRow
<1> QED
  BY <1>1, <1>2, <1>3, <1>4, <1>5, TermsOf DEF LockedStates

\* BeginBlock is the registry's block: names lapse to the pool, offers close,
\* reservations fall back, and pledges ripen or expire (preblock.c).
LEMMA BlockImplements ==
  ASSUME IInv, RInv, NEW t \in mtp..MaxTime, NEW r \in Rates, BeginBlock(t, r)
  PROVE  RInv' /\ Registry!Block
<1>1. /\ cx' = cx /\ ~cx.open /\ scratch' = [n \in Names |-> NoClaim]
      /\ names' = [n \in Names |-> IF n \in LapsedNames(t) THEN NoRow
                                                           ELSE Turned(names[n], t)]
      /\ commits' \subseteq commits /\ mtp <= t /\ t \in Int
  BY DEF BeginBlock, Preblock, IInv, ClockOK
<1>2. Signers = {} /\ Signers' = {} /\ SignerOK'
  BY <1>1 DEF RInv, SignerOK, Signers
<1>3. ASSUME NEW n \in Names
      PROVE  /\ names[n] \in Row
             /\ Live(names[n]) => names[n].owner \in Owners
             /\ Live(Turned(names[n], t)) <=> Live(names[n])
             /\ Live(names[n]) => Controller(names[n]) = names[n].owner
             /\ Controller(Turned(names[n], t)) = Controller(names[n])
  <2>1. RowOK(names[n], mtp)
    BY DEF IInv, RowsOK
  <2>2. names[n] \in Row /\ (Live(names[n]) => names[n].owner \in Owners)
        /\ (Locked(names[n]) => NestingOf(names[n]))
    BY <2>1 DEF RowOK, NestingOf
  <2>3. /\ Live(Turned(names[n], t)) <=> Live(names[n])
        /\ Live(names[n]) => /\ Holder(Turned(names[n], t)) = Holder(names[n])
                             /\ names[n].owner = Holder(names[n])
    BY <1>1, <2>2, TurnedRow
  <2> QED
    BY <2>2, <2>3 DEF Controller
<1>4. \A n \in Names : names'[n] \in {NoRow, Turned(names[n], t)}
  BY <1>1
<1>5. ~Live(NoRow) /\ Terms(NoRow) = "not for sale"
  BY NoRowType, TermsOf DEF Live, LockedStates
<1>6. \A n \in Names : /\ Controller(names'[n]) \in {Controller(names[n]), NoOne}
                       /\ Controller(names'[n]) \in Owners \cup {NoOne}
  BY <1>3, <1>4, <1>5 DEF Controller
<1>7. BuyerOK'
  <2>1. ASSUME NEW n \in Names, names'[n].st \in {"OFFERED", "RESERVED"}
        PROVE  names'[n].buyer \in Owners
    <3>1. names'[n] = Turned(names[n], t)
      BY <1>4, <2>1, NoRowType
    <3> QED
      BY <1>3, <2>1, <3>1, TurnedTerms DEF RInv, BuyerOK
  <2> QED
    BY <2>1 DEF BuyerOK
<1>8. ASSUME NEW n \in Names
      PROVE  /\ Terms(names'[n]) \in {"not for sale", "anyone"} \cup Owners
             /\ \/ Terms(names'[n]) \in {Terms(names[n]), "not for sale"}
                \/ Terms(names[n]) \in Owners /\ Terms(names'[n]) = "anyone"
             /\ Controller(names'[n]) = NoOne => Terms(names'[n]) = "not for sale"
  <2>1. \A q \in Row : (q.st \in {"OFFERED", "RESERVED"} => q.buyer \in Owners)
                       => Terms(q) \in {"not for sale", "anyone"} \cup Owners
    BY TermsOf DEF LockedStates
  <2>2. names[n] \in Row /\ (names[n].st \in {"OFFERED", "RESERVED"} =>
                               names[n].buyer \in Owners /\ Terms(names[n]) = names[n].buyer)
    BY <1>3, TermsOf DEF RInv, BuyerOK
  <2>3. Terms(names[n]) \in {"not for sale", "anyone"} \cup Owners
    BY <2>1, <2>2
  <2>4. CASE names'[n] = NoRow
    BY <1>5, <2>4
  <2>5. CASE names'[n] = Turned(names[n], t)
    <3>1. Controller(names'[n]) = NoOne => ~Live(names'[n])
      BY <1>3, <2>5, OwnersAssumption DEF Controller
    <3>2. ~Live(names'[n]) => Terms(names'[n]) = "not for sale"
      BY TermsOf DEF Live, LockedStates
    <3> QED
      BY <2>2, <2>3, <2>5, <3>1, <3>2, TurnedTerms
  <2> QED
    BY <1>4, <2>4, <2>5
<1>9. Ripe' \in SUBSET [name : Names, claim : Registry!Claim]
  BY <1>1 DEF Ripe, IInv, FoldOK, Commitment, Registry!Claim
<1>10. \A n \in Names : HolderOf(n) = Controller(names[n]) /\ HolderOf(n)' = Controller(names'[n])
  BY HolderIsController
<1> QED
  BY <1>1, <1>2, <1>6, <1>7, <1>8, <1>9, <1>10 DEF Registry!Block, RInv

\* A transaction opens with its signers and closes without; re-pointing the
\* actor changes nobody's rights (bitmap.c's AS).
LEMMA TxImplements ==
  ASSUME IInv, RInv, TxStep
  PROVE  RInv' /\ RegistryStep
<1>1. /\ UNCHANGED <<names, scratch>>
      /\ BuyerOK' /\ Ripe' = Ripe
      /\ \A n \in Names : /\ HolderOf(n)' = HolderOf(n)
                          /\ Terms(names'[n]) = Terms(names[n])
      /\ cx \in Tx
  BY DEF TxStep, BeginTx, EndTx, As, Carrier, foldState, clock, RInv, BuyerOK, Ripe,
         HolderOf, IInv
<1>2. ASSUME NEW inputs \in InputLists, NEW outs \in OutLists, BeginTx(inputs, outs)
      PROVE  SignerOK' /\ Registry!Open
  <2>1. Signers = {}
    BY <1>2 DEF BeginTx, RInv, SignerOK, Signers
  <2>2. /\ cx'.inputs = inputs /\ cx'.open = TRUE /\ cx'.actor = Signer(inputs, 1)
        /\ inputs \in Seq(Input)
    BY <1>2, InputAssumption DEF BeginTx
  <2>3. Signers' \in SUBSET Owners
    <3>1. \A i \in DOMAIN inputs : inputs[i] \in Input
      BY <2>2, LenProperties, ElementOfSeq
    <3> QED
      BY <2>2, <3>1 DEF Signers, Input
  <2>4. SignerOK'
    BY <2>2, SignerType DEF SignerOK, Signers
  <2> QED
    BY <1>1, <2>1, <2>3, <2>4 DEF Registry!Open
<1>3. ASSUME EndTx
      PROVE  SignerOK' /\ Registry!Close
  <2>1. Signers' = {} /\ SignerOK'
    BY <1>3 DEF EndTx, NoTx, Signers, SignerOK
  <2> QED
    BY <1>1, <2>1 DEF Registry!Close
<1>4. ASSUME NEW k, As(k)
      PROVE  SignerOK' /\ UNCHANGED Registry!vars
  <2>1. /\ cx'.inputs = cx.inputs /\ cx'.open = cx.open /\ cx.open
        /\ cx'.actor = Signer(cx.inputs, k)
    BY <1>1, <1>4 DEF As, Carrier, Tx
  <2>2. Signers' = Signers
    BY <2>1 DEF Signers
  <2>3. SignerOK'
    BY <1>1, <2>1, <2>2, SignerSigns DEF SignerOK
  <2> QED
    BY <1>1, <2>2, <2>3 DEF Registry!vars
<1> QED
  BY <1>1, <1>2, <1>3, <1>4 DEF TxStep, RegistryStep, RInv, Registry!Next

-----------------------------------------------------------------------------
(* Claims *)

\* A commitment is no claim before the next block (claim.c).
LEMMA CommitImplements ==
  ASSUME IInv, RInv, NEW n \in Names, NEW o \in Owners, Commit(n, o)
  PROVE  RInv' /\ UNCHANGED Registry!vars
<1>1. /\ Carrier("COMMIT") /\ Done /\ UNCHANGED <<names, scratch, height>>
      /\ commits' = commits \cup {[name |-> n, author |-> o, height |-> height,
                                   index |-> cx.index, time |-> mtp]}
  BY DEF Commit, ActorCarrier, Carrier, clock
<1>2. Signers' = Signers /\ SignerOK'
  BY <1>1, CarrierKeeps
<1>3. {d \in commits' : d.height < height} = {d \in commits : d.height < height}
  BY <1>1 DEF IInv, ClockOK
<1>4. Ripe' = Ripe
  BY <1>1, <1>3 DEF Ripe
<1>5. BuyerOK'
  BY <1>1 DEF RInv, BuyerOK
<1> QED
  BY <1>1, <1>2, <1>4, <1>5, Quiet DEF RInv

\* The water-fill moves no row.
LEMMA FilledSlots ==
  ASSUME NEW rows \in [Names -> Row], NEW S \in SUBSET Names, NEW paid, mtp \in Nat,
         NEW n \in Names
  PROVE  LET w == Waterfill(rows, S, paid)[n]
         IN  /\ w.st = rows[n].st /\ w.owner = rows[n].owner
             /\ w.seller = rows[n].seller /\ w.buyer = rows[n].buyer
<1> DEFINE w == Waterfill(rows, S, paid)[n]
           x == w.lease
<1>1. w = [rows[n] EXCEPT !.lease = x] /\ rows[n] \in Row
  BY ONLY rows \in [Names -> Row], S \in SUBSET Names, mtp \in Nat, n \in Names, WaterfillExtends
<1> HIDE DEF w, x
<1>2. /\ w.st = rows[n].st /\ w.owner = rows[n].owner
      /\ w.seller = rows[n].seller /\ w.buyer = rows[n].buyer
  BY <1>1 DEF Row
<1> QED
  BY <1>2 DEF w

\* A claim mints its name for its signer on its oldest pledge, and takes it
\* only from the pool or from a younger claim of its block (claim.c:63-101).
LEMMA ClaimImplements ==
  ASSUME IInv, RInv, NEW n \in Names, NEW v \in Values, Claim(n, v)
  PROVE  RInv' /\ \E p \in Ripe : Registry!Mint(n, p)
<1> DEFINE rows == [names EXCEPT ![n] = OwnedRow(cx.actor, mtp)]
<1>1. /\ Carrier("CLAIM") /\ Done /\ cx.actor # NoOne
      /\ names' = Waterfill(rows, {n}, v) /\ commits' = commits
  BY DEF Claim, ActorCarrier
<1>2. PICK c \in Backing(n, cx.actor) :
        /\ Earliest(c, Backing(n, cx.actor))
        /\ MayClaim(n, c)
        /\ scratch' = [scratch EXCEPT ![n] = [height |-> c.height, index |-> c.index,
                                              owner  |-> cx.actor]]
  BY DEF Claim
<1>3. /\ Signers' = Signers /\ SignerOK' /\ Ripe' = Ripe
      /\ cx.actor \in Signers /\ cx.actor \in Owners
  BY <1>1, CarrierKeeps
<1>4. names \in [Names -> Row] /\ mtp \in Nat
  BY DEF IInv, RowsOK, ClockOK
<1>5. \A m \in Names \ {n} : names'[m] = names[m]
  BY <1>1, <1>4 DEF Waterfill
<1>6. /\ Live(names'[n]) /\ names'[n].st = "OWNED" /\ names'[n].owner = cx.actor
  <2>1. rows \in [Names -> Row] /\ rows[n] = OwnedRow(cx.actor, mtp)
    BY <1>3, <1>4, OwnedRowType
  <2>2. rows[n].st = "OWNED" /\ rows[n].owner = cx.actor
    BY <1>3, <1>4, <2>1, OwnedRowType
  <2> HIDE DEF rows
  <2> QED
    BY <1>1, <1>4, <2>1, <2>2, FilledSlots DEF Live
<1> HIDE DEF rows
<1>7. Controller(names'[n]) = cx.actor /\ Terms(names'[n]) = "not for sale"
  BY <1>6, TermsOf DEF Controller, Holder, LockedStates
<1>8. BuyerOK'
  BY <1>5, <1>6 DEF RInv, BuyerOK
<1> DEFINE claim == [height |-> c.height, index |-> c.index, owner |-> cx.actor]
           p == [name |-> n, claim |-> claim]
<1>9. c \in commits /\ c.name = n /\ c.author = cx.actor /\ c.height < height
  BY DEF Backing
<1>10. p \in Ripe /\ p \in Registry!Pledges(n, cx.actor) /\ p.claim = claim
  BY <1>9 DEF Ripe, Registry!Pledges
<1>11. ASSUME NEW q \in Registry!Pledges(n, cx.actor)
       PROVE  ~Registry!Older(q.claim, claim)
  <2>1. PICK d \in commits :
          /\ d.height < height
          /\ q = [name |-> d.name, claim |-> [height |-> d.height, index |-> d.index,
                                              owner |-> d.author]]
    BY DEF Registry!Pledges, Ripe
  <2>2. d \in Backing(n, cx.actor)
    BY <2>1 DEF Registry!Pledges, Backing
  <2>3. ~Before(d, c)
    BY <1>2, <2>2 DEF Earliest
  <2> QED
    BY <2>1, <2>3 DEF Before, Registry!Older
<1>12. HolderOf(n) = NoOne \/ Registry!Outclaims(claim, n)
  <2>1. CASE names[n].st = "NONE"
    BY <2>1 DEF HolderOf
  <2>2. CASE /\ scratch[n] # NoClaim /\ names[n].st = "OWNED"
             /\ names[n].owner = scratch[n].owner /\ Before(c, scratch[n])
    <3>1. HolderOf(n) = scratch[n].owner /\ Terms(names[n]) = "not for sale"
      BY <2>2, TermsOf DEF HolderOf, Holder, LockedStates
    <3>2. Registry!Older(claim, scratch[n])
      BY <2>2 DEF Before, Registry!Older
    <3> QED
      BY <2>2, <3>1, <3>2 DEF Registry!Outclaims
  <2> QED
    BY <1>2, <2>1, <2>2 DEF MayClaim
<1>13. [m \in Names |-> HolderOf(m)]' = [[m \in Names |-> HolderOf(m)] EXCEPT ![n] = cx.actor]
  <2>1. \A m \in Names : HolderOf(m)' = IF m = n THEN cx.actor ELSE HolderOf(m)
    BY <1>5, <1>7, HolderIsController
  <2> QED
    BY <2>1
<1>14. [m \in Names |-> Terms(names[m])]' = [m \in Names |-> Terms(names[m])]
  <2>1. Terms(names[n]) = "not for sale"
    BY <1>2, TermsOf DEF MayClaim, LockedStates
  <2> QED
    BY <1>5, <1>7, <2>1
<1> HIDE DEF p
<1>15. Registry!Mint(n, p)
  <2>1. claim.owner = cx.actor
    OBVIOUS
  <2> HIDE DEF claim
  <2> QED
    BY <1>2, <1>3, <1>10, <1>11, <1>12, <1>13, <1>14, <2>1 DEF Registry!Mint, claim
<1> QED
  BY <1>3, <1>8, <1>10, <1>15 DEF RInv

-----------------------------------------------------------------------------
(* Operations on an owned set *)

\* What every operation on rows has to show, and what it may then use.
LEMMA RowsStep ==
  ASSUME IInv, RInv, NEW op, Carrier(op), Done \/ \E dest, amount : Consume(dest, amount),
         UNCHANGED <<commits, scratch>>,
         \A n \in Names : \/ names'[n].st = names[n].st /\ names'[n].buyer = names[n].buyer
                          \/ names'[n].st \notin {"OFFERED", "RESERVED"}
                          \/ names'[n].buyer \in Owners
  PROVE  RInv' /\ Ripe' = Ripe /\ Signers' = Signers
<1>1. BuyerOK'
  BY DEF RInv, BuyerOK
<1> QED
  BY <1>1, CarrierKeeps DEF RInv

\* A renewal moves no name (lease.c:75-78).
LEMMA ExtendImplements ==
  ASSUME IInv, RInv, NEW op, Carrier(op), NEW S \in SUBSET OwnedSet(cx.actor), NEW v,
         Extend(S, v)
  PROVE  RInv' /\ UNCHANGED Registry!vars
<1>1. /\ names' = Waterfill(names, S, v) /\ Done /\ UNCHANGED <<commits, scratch>>
      /\ names \in [Names -> Row] /\ mtp \in Nat
  BY DEF Extend, IInv, RowsOK, ClockOK
<1>2. S \in SUBSET Names
  BY DEF OwnedSet
<1>3. \A n \in Names : /\ names'[n].st = names[n].st /\ names'[n].owner = names[n].owner
                       /\ names'[n].seller = names[n].seller
                       /\ names'[n].buyer = names[n].buyer
  BY <1>1, <1>2, FilledSlots
<1>4. \A n \in Names : /\ Controller(names'[n]) = Controller(names[n])
                       /\ Terms(names'[n]) = Terms(names[n])
  BY <1>3 DEF Controller, Live, Holder, Terms
<1>5. RInv' /\ Ripe' = Ripe /\ Signers' = Signers
  BY <1>1, <1>3, RowsStep
<1> QED
  BY <1>1, <1>4, <1>5, Quiet

\* A transfer or a release moves names of the actor that are not on the
\* market, all of them to one holder or all to the pool (bitmap.c, release.c).
LEMMA MoveImplements ==
  ASSUME IInv, RInv, NEW op, ActorCarrier(op), Done, UNCHANGED <<commits, scratch>>,
         NEW S \in SUBSET Unlocked(OwnedSet(cx.actor)), NEW to \in Owners \cup {NoOne},
         \A n \in Names \ S : names'[n] = names[n],
         \A n \in S : /\ Controller(names'[n]) = to
                      /\ names'[n].st \notin LockedStates
  PROVE  RInv' /\ \E o \in Owners : Registry!Move(o, S, to)
<1>1. RInv' /\ Ripe' = Ripe /\ Signers' = Signers
  BY RowsStep DEF ActorCarrier, LockedStates
<1>2. cx.actor \in Signers /\ cx.actor \in Owners
  BY CarrierKeeps DEF ActorCarrier
<1>3. ASSUME NEW n \in S
      PROVE  /\ n \in Names /\ HolderOf(n) = cx.actor
             /\ Terms(names[n]) = "not for sale" /\ Terms(names'[n]) = "not for sale"
  <2>1. n \in Names /\ names[n].st = "OWNED" /\ names[n].owner = cx.actor
    BY DEF Unlocked, OwnedSet, Holder
  <2> QED
    BY <2>1, TermsOf DEF HolderOf, Holder, LockedStates
<1>4. \A n \in Names : /\ HolderOf(n)' = IF n \in S THEN to ELSE HolderOf(n)
                       /\ Terms(names'[n]) = Terms(names[n])
  BY <1>3, HolderIsController
<1>5. Registry!Move(cx.actor, S, to)
  BY <1>1, <1>2, <1>3, <1>4 DEF Registry!Move, Registry!Free
<1> QED
  BY <1>1, <1>2, <1>5

LEMMA GiveImplements ==
  ASSUME IInv, RInv, NEW op, ActorCarrier(op),
         NEW S \in SUBSET Unlocked(OwnedSet(cx.actor)), NEW to \in Owners, Give(S, to)
  PROVE  RInv' /\ \E o \in Owners : Registry!Move(o, S, to)
<1>1. /\ names' = [n \in Names |-> IF n \in S THEN [names[n] EXCEPT !.owner = to]
                                             ELSE names[n]]
      /\ Done /\ UNCHANGED <<commits, scratch>> /\ names \in [Names -> Row]
  BY DEF Give, IInv, RowsOK
<1>2. ASSUME NEW n \in S
      PROVE  Controller(names'[n]) = to /\ names'[n].st \notin LockedStates
  <2>1. n \in Names /\ names[n].st = "OWNED" /\ names[n] \in Row
    BY <1>1 DEF Unlocked, OwnedSet
  <2>2. names'[n].st = "OWNED" /\ names'[n].owner = to
    BY <1>1, <2>1 DEF Row
  <2> QED
    BY <2>2 DEF Controller, Live, Holder, LockedStates
<1>3. \A n \in Names \ S : names'[n] = names[n]
  BY <1>1
<1> QED
  BY <1>1, <1>2, <1>3, MoveImplements

LEMMA FreeImplements ==
  ASSUME IInv, RInv, NEW op, ActorCarrier(op),
         NEW S \in SUBSET Unlocked(OwnedSet(cx.actor)), Free(S)
  PROVE  RInv' /\ \E o \in Owners : Registry!Move(o, S, NoOne)
<1>1. /\ names' = [n \in Names |-> IF n \in S THEN NoRow ELSE names[n]]
      /\ Done /\ UNCHANGED <<commits, scratch>>
  BY DEF Free
<1>2. ASSUME NEW n \in S
      PROVE  Controller(names'[n]) = NoOne /\ names'[n].st \notin LockedStates
  BY <1>1, NoRowType DEF Controller, Live, LockedStates, Unlocked, OwnedSet
<1>3. \A n \in Names \ S : names'[n] = names[n]
  BY <1>1
<1> QED
  BY <1>1, <1>2, <1>3, MoveImplements

LEMMA SetImplements ==
  ASSUME IInv, RInv, SetStep
  PROVE  RInv' /\ RegistryStep
<1> DEFINE Moved == \E o \in Owners, S \in SUBSET Names, to \in Owners \cup {NoOne} :
                      Registry!Move(o, S, to)
<1>1. \A h, bits : Unlocked(Selected(cx.actor, h, bits)) \in SUBSET Unlocked(OwnedSet(cx.actor))
  BY SelectedOwned DEF Unlocked
<1>2. \A n : Unlocked({n} \cap OwnedSet(cx.actor)) \in SUBSET Unlocked(OwnedSet(cx.actor))
  BY DEF Unlocked
<1>3. \A S \in SUBSET Unlocked(OwnedSet(cx.actor)) : S \in SUBSET Names
  BY DEF Unlocked, OwnedSet
<1>4. ASSUME NEW h, NEW bits, NEW v, Renew(h, bits, v)
      PROVE  RInv' /\ UNCHANGED Registry!vars
  BY <1>4, SelectedOwned, ExtendImplements DEF Renew, ActorCarrier
<1>5. ASSUME NEW n, NEW v, RenewName(n, v)
      PROVE  RInv' /\ UNCHANGED Registry!vars
  BY <1>5, ExtendImplements DEF RenewName, ActorCarrier
<1>6. ASSUME NEW to \in Owners, NEW h, NEW bits, Transfer(to, h, bits)
      PROVE  RInv' /\ Moved
  <2> DEFINE S == Unlocked(Selected(cx.actor, h, bits))
  <2>1. ActorCarrier("TRANSFER") /\ Give(S, to) /\ S \in SUBSET Unlocked(OwnedSet(cx.actor))
    BY <1>1, <1>6 DEF Transfer
  <2> HIDE DEF S
  <2> QED
    BY <1>3, <2>1, GiveImplements
<1>7. ASSUME NEW n, NEW to \in Owners, TransferName(n, to)
      PROVE  RInv' /\ Moved
  <2> DEFINE S == Unlocked({n} \cap OwnedSet(cx.actor))
  <2>1. ActorCarrier("TRANSFER_NAME") /\ Give(S, to)
        /\ S \in SUBSET Unlocked(OwnedSet(cx.actor))
    BY <1>2, <1>7 DEF TransferName
  <2> HIDE DEF S
  <2> QED
    BY <1>3, <2>1, GiveImplements
<1>8. ASSUME NEW h, NEW bits, Release(h, bits)
      PROVE  RInv' /\ Moved
  <2> DEFINE S == Unlocked(Selected(cx.actor, h, bits))
  <2>1. ActorCarrier("RELEASE") /\ Free(S) /\ S \in SUBSET Unlocked(OwnedSet(cx.actor))
    BY <1>1, <1>8 DEF Release
  <2> HIDE DEF S
  <2> QED
    BY <1>3, <2>1, FreeImplements
<1>9. ASSUME NEW n, ReleaseName(n)
      PROVE  RInv' /\ Moved
  <2> DEFINE S == Unlocked({n} \cap OwnedSet(cx.actor))
  <2>1. ActorCarrier("RELEASE_NAME") /\ Free(S)
        /\ S \in SUBSET Unlocked(OwnedSet(cx.actor))
    BY <1>2, <1>9 DEF ReleaseName
  <2> HIDE DEF S
  <2> QED
    BY <1>3, <2>1, FreeImplements
<1>10. Moved => Registry!Next
  BY DEF Registry!Next
<1> HIDE DEF Moved
<1> QED
  BY <1>4, <1>5, <1>6, <1>7, <1>8, <1>9, <1>10 DEF SetStep, RegistryStep

-----------------------------------------------------------------------------
(* The market *)

\* An operation of the acting identity on one row.
LEMMA OneRowStep ==
  ASSUME IInv, RInv, NEW op, ActorCarrier(op),
         Done \/ \E dest, amount : Consume(dest, amount),
         UNCHANGED <<commits, scratch>>, NEW n \in Names, NEW r \in Row,
         names' = [names EXCEPT ![n] = r],
         r.st \in {"OFFERED", "RESERVED"} => r.buyer \in Owners
  PROVE  /\ RInv' /\ Ripe' = Ripe /\ Signers' = Signers
         /\ cx.actor \in Signers /\ cx.actor \in Owners
         /\ \A m \in Names : /\ HolderOf(m)' = IF m = n THEN Controller(r) ELSE HolderOf(m)
                             /\ Terms(names'[m]) = IF m = n THEN Terms(r) ELSE Terms(names[m])
<1>1. names \in [Names -> Row]
  BY DEF IInv, RowsOK
<1>2. \A m \in Names : names'[m] = IF m = n THEN r ELSE names[m]
  BY <1>1
<1>3. RInv' /\ Ripe' = Ripe /\ Signers' = Signers
  BY <1>2, RowsStep DEF ActorCarrier
<1>4. cx.actor \in Signers /\ cx.actor \in Owners
  BY CarrierKeeps DEF ActorCarrier
<1> QED
  BY <1>2, <1>3, <1>4, HolderIsController

\* A name on the market is still its owner's to see, and no longer to move.
LEMMA OfferImplements ==
  ASSUME IInv, RInv, NEW op, ActorCarrier(op), NEW n \in Names, Mine(n),
         NEW st \in {"LISTED", "OFFERED"}, NEW price \in Nat, NEW w \in Nat \ {0},
         NEW buyer \in Owners \cup {NoOne}, st = "OFFERED" => buyer \in Owners,
         LeaseTail(n, w), PutOnSale(n, st, price, w, buyer)
  PROVE  RInv' /\ \E to \in Owners \cup {"anyone"} : Registry!Offer(cx.actor, n, to)
                /\ cx.actor \in Owners
<1> DEFINE x == names[n].lease
           r == [OwnedRow(cx.actor, x) EXCEPT !.st = st, !.seller = cx.actor,
                   !.price = price, !.offer = mtp + w, !.buyer = buyer]
           to == IF st = "LISTED" THEN "anyone" ELSE buyer
<1>1. /\ Carrier(op) /\ cx.actor # NoOne /\ Done /\ UNCHANGED <<commits, scratch>>
      /\ names' = [names EXCEPT ![n] = r]
  BY DEF ActorCarrier, PutOnSale
<1>2. /\ names \in [Names -> Row] /\ RowOK(names[n], mtp) /\ mtp \in Nat
      /\ cx.actor \in Owners /\ x \in Int
  BY <1>1, CarrierFacts DEF RowOK, Row
<1>3. names' \in [Names -> Row]
  BY PutOnSaleOK DEF IInv, RowsOK
<1>4. r = names'[n]
  BY <1>1, <1>2
<1>5. r \in Row
  <2> HIDE DEF r
  <2> QED
    BY <1>3, <1>4
<1>6. r.st = st /\ r.seller = cx.actor /\ r.buyer = buyer
  <2> HIDE DEF x
  <2> QED
    BY DEF OwnedRow, NoRow
<1> HIDE DEF r
<1>7. Controller(r) = cx.actor /\ Terms(r) = to
  BY <1>6, TermsOf DEF Controller, Live, Holder
<1>8. HolderOf(n) = cx.actor /\ Terms(names[n]) = "not for sale"
  BY TermsOf DEF Mine, HolderOf, Holder, LockedStates
<1>9. /\ RInv' /\ Ripe' = Ripe /\ Signers' = Signers /\ cx.actor \in Signers
      /\ \A m \in Names : /\ HolderOf(m)' = HolderOf(m)
                          /\ Terms(names'[m]) = IF m = n THEN to ELSE Terms(names[m])
  <2>1. Done \/ \E dest, amount : Consume(dest, amount)
    BY <1>1
  <2>2. /\ RInv' /\ Ripe' = Ripe /\ Signers' = Signers /\ cx.actor \in Signers
        /\ \A m \in Names :
             /\ HolderOf(m)' = IF m = n THEN Controller(r) ELSE HolderOf(m)
             /\ Terms(names'[m]) = IF m = n THEN Terms(r) ELSE Terms(names[m])
    BY <1>1, <1>5, <1>6, <2>1, OneRowStep
  <2> QED
    BY <1>7, <1>8, <2>2
<1>10. Registry!Offer(cx.actor, n, to) /\ to \in Owners \cup {"anyone"}
  BY <1>1, <1>8, <1>9 DEF Registry!Offer, Registry!Free
<1> QED
  BY <1>2, <1>9, <1>10

\* A reservation promises a listing to the one who reserves (market.c:60-84).
LEMMA ReserveImplements ==
  ASSUME IInv, RInv, NEW n \in Names, NEW v \in Nat, Reserve(n, v)
  PROVE  RInv' /\ Registry!Promise(n, cx.actor) /\ cx.actor \in Owners
<1> DEFINE leg == DepositLeg(names[n].price, BurnBps)
           pay  == DepositLeg(names[n].price, PayBps)
           x    == IF mtp + ReserveWindow >= names[n].offer THEN names[n].offer
                                                           ELSE mtp + ReserveWindow
           r    == [names[n] EXCEPT !.st = "RESERVED", !.buyer = cx.actor, !.burn = leg,
                                    !.pay = pay, !.reserve = x]
<1>1. /\ ActorCarrier("RESERVE") /\ names[n].st = "LISTED"
      /\ Consume(names[n].seller, pay)
      /\ names' = [names EXCEPT ![n] = r] /\ UNCHANGED <<commits, scratch>>
  BY DEF Reserve
<1>2. names \in [Names -> Row] /\ names[n] \in Row
  BY DEF IInv, RowsOK
<1>3. names' \in [Names -> Row]
  BY ReserveOK DEF IInv, RowsOK
<1>4. r.st = "RESERVED" /\ r.buyer = cx.actor /\ r.seller = names[n].seller
  <2> HIDE DEF leg, pay, x
  <2> QED
    BY <1>2 DEF Row
<1> HIDE DEF r
<1>5. r \in Row
  BY <1>1, <1>2, <1>3
<1>6. cx.actor \in Owners
  BY <1>1, CarrierFacts DEF ActorCarrier
<1>7. Controller(r) = HolderOf(n) /\ Terms(r) = cx.actor /\ Terms(names[n]) = "anyone"
  BY <1>1, <1>4, TermsOf DEF Controller, Live, Holder, HolderOf
<1>8. /\ RInv' /\ Ripe' = Ripe /\ Signers' = Signers /\ cx.actor \in Signers
      /\ \A m \in Names : /\ HolderOf(m)' = HolderOf(m)
                          /\ Terms(names'[m]) = IF m = n THEN cx.actor ELSE Terms(names[m])
  <2>1. Done \/ \E dest, amount : Consume(dest, amount)
    BY <1>1
  <2>2. /\ RInv' /\ Ripe' = Ripe /\ Signers' = Signers /\ cx.actor \in Signers
        /\ \A m \in Names :
             /\ HolderOf(m)' = IF m = n THEN Controller(r) ELSE HolderOf(m)
             /\ Terms(names'[m]) = IF m = n THEN Terms(r) ELSE Terms(names[m])
    BY <1>1, <1>4, <1>5, <1>6, <2>1, OneRowStep
  <2> QED
    BY <1>7, <2>2
<1>9. Registry!Promise(n, cx.actor)
  BY <1>1, <1>7, <1>8 DEF Registry!Promise
<1> QED
  BY <1>6, <1>8, <1>9

\* A sale conveys to the one it is promised to (market.c:29-40).
LEMMA ConveyImplements ==
  ASSUME IInv, RInv, NEW op, ActorCarrier(op), NEW n \in Names,
         names[n].st \in {"OFFERED", "RESERVED"}, names[n].buyer = cx.actor,
         \E dest, amount : Consume(dest, amount), Convey(n)
  PROVE  RInv' /\ Registry!Buy(n)
<1> DEFINE x == names[n].lease
           r == OwnedRow(cx.actor, x)
<1>1. /\ names' = [names EXCEPT ![n] = r] /\ UNCHANGED <<commits, scratch>>
      /\ names[n] \in Row /\ cx.actor \in Owners \cup {NoOne}
  BY CarrierFacts DEF Convey, IInv, RowsOK, ActorCarrier
<1>2. r \in Row /\ r.st = "OWNED" /\ r.owner = cx.actor
  <2>1. x \in Int
    BY <1>1 DEF Row
  <2> HIDE DEF x
  <2> QED
    BY <1>1, <2>1, OwnedRowType
<1> HIDE DEF r, x
<1>3. /\ Controller(r) = cx.actor /\ Terms(r) = "not for sale"
      /\ Terms(names[n]) = cx.actor
  BY <1>2, TermsOf DEF Controller, Live, Holder, LockedStates
<1>4. /\ RInv' /\ Ripe' = Ripe /\ Signers' = Signers /\ cx.actor \in Signers
      /\ \A m \in Names :
           /\ HolderOf(m)' = IF m = n THEN cx.actor ELSE HolderOf(m)
           /\ Terms(names'[m]) = IF m = n THEN "not for sale" ELSE Terms(names[m])
  <2>1. Done \/ \E dest, amount : Consume(dest, amount)
    OBVIOUS
  <2>2. /\ RInv' /\ Ripe' = Ripe /\ Signers' = Signers /\ cx.actor \in Signers
        /\ \A m \in Names :
             /\ HolderOf(m)' = IF m = n THEN Controller(r) ELSE HolderOf(m)
             /\ Terms(names'[m]) = IF m = n THEN Terms(r) ELSE Terms(names[m])
    BY <1>1, <1>2, <2>1, OneRowStep
  <2> QED
    BY <1>3, <2>2
<1>5. Registry!Buy(n)
  BY <1>1, <1>3, <1>4 DEF Registry!Buy
<1> QED
  BY <1>4, <1>5

\* A trade swaps two free names of two signers (trade.c).
LEMMA TradeImplements ==
  ASSUME IInv, RInv, NEW i, NEW j, NEW n \in Names, NEW m \in Names, Trade(i, j, n, m)
  PROVE  RInv' /\ \E a, b \in Owners : Registry!Swap(a, b, n, m)
<1> DEFINE a == Signer(cx.inputs, i)
           b == Signer(cx.inputs, j)
<1>1. /\ Carrier("TRADE") /\ Done /\ a # NoOne /\ b # NoOne /\ n # m
      /\ names[n].st = "OWNED" /\ names[n].owner = a
      /\ names[m].st = "OWNED" /\ names[m].owner = b
      /\ names' = [names EXCEPT ![n].owner = b, ![m].owner = a]
      /\ UNCHANGED <<commits, scratch>> /\ names \in [Names -> Row] /\ cx \in Tx
  BY DEF Trade, IInv, RowsOK
<1>2. a \in Signers /\ b \in Signers /\ a \in Owners /\ b \in Owners
  BY <1>1, SignerSigns, SignersAreOwners
<1> HIDE DEF a, b
<1>3. /\ names'[n].st = "OWNED" /\ names'[n].owner = b
      /\ names'[m].st = "OWNED" /\ names'[m].owner = a
      /\ \A k \in Names \ {n, m} : names'[k] = names[k]
  BY <1>1 DEF Row
<1>4. RInv' /\ Ripe' = Ripe /\ Signers' = Signers
  BY <1>1, <1>3, RowsStep
<1>5. /\ HolderOf(n) = a /\ HolderOf(m) = b
      /\ Terms(names[n]) = "not for sale" /\ Terms(names[m]) = "not for sale"
      /\ Terms(names'[n]) = "not for sale" /\ Terms(names'[m]) = "not for sale"
      /\ Controller(names'[n]) = b /\ Controller(names'[m]) = a
  BY <1>1, <1>3, TermsOf DEF HolderOf, Holder, Controller, Live, LockedStates
<1>6. \A k \in Names :
        /\ HolderOf(k)' = IF k = m THEN a ELSE IF k = n THEN b ELSE HolderOf(k)
        /\ Terms(names'[k]) = Terms(names[k])
  BY <1>1, <1>3, <1>5, HolderIsController
<1>7. Registry!Swap(a, b, n, m)
  BY <1>1, <1>2, <1>4, <1>5, <1>6 DEF Registry!Swap, Registry!Free
<1> QED
  BY <1>2, <1>4, <1>7

LEMMA MarketImplements ==
  ASSUME IInv, RInv, MarketStep
  PROVE  RInv' /\ RegistryStep
<1>1. ASSUME NEW n \in Names, NEW p \in Prices, NEW w \in Windows, Sell(n, p, w)
      PROVE  RInv' /\ Registry!Next
  <2> DEFINE u == IF w = 0 THEN ReserveWindow ELSE w
  <2>1. /\ ActorCarrier("SELL") /\ Mine(n) /\ LeaseTail(n, u)
        /\ PutOnSale(n, "LISTED", p, u, NoOne)
    BY <1>1 DEF Sell
  <2>2. u \in Nat \ {0} /\ p \in Nat
    BY InputAssumption, TimeAssumption
  <2> HIDE DEF u
  <2> QED
    BY <2>1, <2>2, OfferImplements DEF Registry!Next
<1>2. ASSUME NEW n \in Names, NEW o \in Owners, NEW p \in Prices, SellTo(n, o, p)
      PROVE  RInv' /\ Registry!Next
  <2>1. p \in Nat /\ DirectWindow \in Nat \ {0}
    BY InputAssumption, TimeAssumption
  <2> QED
    BY <1>2, <2>1, OfferImplements DEF SellTo, Registry!Next
<1>3. ASSUME NEW n \in Names, NEW v \in Values, Reserve(n, v)
      PROVE  RInv' /\ Registry!Next
  BY <1>3, ReserveImplements, InputAssumption DEF Registry!Next
<1>4. ASSUME NEW n \in Names, Settle(n)
      PROVE  RInv' /\ Registry!Next
  BY <1>4, ConveyImplements DEF Settle, Registry!Next
<1>5. ASSUME NEW n \in Names, Pay(n)
      PROVE  RInv' /\ Registry!Next
  BY <1>5, ConveyImplements DEF Pay, Registry!Next
<1>6. ASSUME NEW i, NEW j, NEW n \in Names, NEW m \in Names, Trade(i, j, n, m)
      PROVE  RInv' /\ Registry!Next
  BY <1>6, TradeImplements DEF Registry!Next
<1> QED
  BY <1>1, <1>2, <1>3, <1>4, <1>5, <1>6 DEF MarketStep, RegistryStep

-----------------------------------------------------------------------------
(* The refinement *)

LEMMA InitImplements == Init => RInv /\ Registry!Init
<1> SUFFICES ASSUME Init PROVE RInv /\ Registry!Init
  OBVIOUS
<1>1. \A n \in Names : names[n].st = "NONE"
  BY NoRowType DEF Init
<1>2. Signers = {} /\ Ripe = {} /\ SignerOK
  BY DEF Init, Signers, Ripe, SignerOK, NoTx
<1>3. \A n \in Names : HolderOf(n) = NoOne /\ Terms(names[n]) = "not for sale"
  BY <1>1, TermsOf DEF HolderOf, LockedStates
<1>4. scratch = [n \in Names |-> NoClaim]
  BY DEF Init
<1> QED
  BY <1>1, <1>2, <1>3, <1>4 DEF RInv, BuyerOK, Registry!Init

LEMMA NextImplements == IInv /\ RInv /\ [Next]_vars => RInv' /\ RegistryStep
<1> SUFFICES ASSUME IInv, RInv, [Next]_vars PROVE RInv' /\ RegistryStep
  OBVIOUS
<1>1. CASE BlockStep
  BY <1>1, BlockImplements DEF BlockStep, RegistryStep, Registry!Next
<1>2. CASE ClaimStep
  BY <1>2, CommitImplements, ClaimImplements DEF ClaimStep, RegistryStep, Registry!Next
<1>3. CASE UNCHANGED vars
  <2>1. RInv'
    BY <1>3 DEF vars, RInv, SignerOK, BuyerOK, Signers
  <2>2. UNCHANGED Registry!vars
    BY <1>3 DEF vars, Registry!vars, HolderOf, Ripe, Signers
  <2> QED
    BY <2>1, <2>2 DEF RegistryStep
<1> QED
  BY <1>1, <1>2, <1>3, TxImplements, SetImplements, MarketImplements DEF Next

\* The fold keeps the promises of the registry (sm.h:166-221, claim.c, market.c,
\* bitmap.c, trade.c, preblock.c), for all names, owners, inputs and windows.
THEOREM Refinement == Spec => Implements
<1>1. Init => RInv /\ Registry!Init
  BY InitImplements
<1>2. IInv /\ RInv /\ [Next]_vars => RInv' /\ [Registry!Next]_(Registry!vars)
  BY NextImplements DEF RegistryStep
<1> QED
  BY <1>1, <1>2, Inductive, PTL DEF Spec, Implements, Registry!Spec

\* Every step of the fold is a step of the registry or leaves it alone: no block,
\* lapse, trade or claim moves a name in a way the registry does not allow.
THEOREM StepsImplemented == Spec => ImplementsSteps
<1>1. IInv /\ RInv /\ [Next]_vars => RInv' /\ [Registry!Next]_(Registry!vars)
  BY NextImplements DEF RegistryStep
<1> QED
  BY <1>1, InitImplements, Inductive, PTL DEF Spec, ImplementsSteps

-----------------------------------------------------------------------------
(* Counting the days awarded *)

\* The days that the names of S have when each n has a[n], one cell per day.
Cells(S, a) == {p \in S \X (1..MaxDays) : p[2] <= a[p[1]]}
Filled(S, a) == Cardinality(Cells(S, a))

LEMMA CellsFinite ==
  ASSUME NEW S, IsFiniteSet(S), NEW a
  PROVE  IsFiniteSet(Cells(S, a)) /\ Filled(S, a) \in Nat
<1>1. IsFiniteSet(1..MaxDays)
  BY FS_Interval, MaxDaysPositive
<1>2. IsFiniteSet(S \X (1..MaxDays))
  BY <1>1, FS_Product
<1>3. IsFiniteSet(Cells(S, a))
  BY <1>2, FS_Subset DEF Cells
<1> QED
  BY <1>3, FS_CardinalityType DEF Filled

\* More days for some names is more cells.
LEMMA FilledGrows ==
  ASSUME NEW S, IsFiniteSet(S), NEW a \in [S -> Nat], NEW b \in [S -> Nat],
         \A n \in S : a[n] <= b[n]
  PROVE  Filled(S, a) <= Filled(S, b)
<1>1. Cells(S, a) \subseteq Cells(S, b)
  <2>1. ASSUME NEW p \in Cells(S, a) PROVE p \in Cells(S, b)
    <3>1. p \in S \X (1..MaxDays) /\ p[2] <= a[p[1]] /\ p[1] \in S /\ p[2] \in Nat
      BY MaxDaysPositive DEF Cells
    <3>2. a[p[1]] \in Nat /\ b[p[1]] \in Nat /\ a[p[1]] <= b[p[1]]
      BY <3>1
    <3>3. p[2] <= b[p[1]]
      BY <3>1, <3>2
    <3> QED
      BY <3>1, <3>3 DEF Cells
  <2> QED
    BY <2>1
<1> QED
  BY <1>1, CellsFinite, FS_Subset DEF Filled

\* No day for any name is no cell.
LEMMA FilledNone ==
  ASSUME NEW S, NEW a \in [S -> Nat], \A n \in S : a[n] = 0
  PROVE  Filled(S, a) = 0
<1>1. Cells(S, a) = {}
  BY MaxDaysPositive DEF Cells
<1> QED
  BY <1>1, FS_EmptySet DEF Filled

\* g more days for one name are g more cells.
LEMMA FilledStep ==
  ASSUME NEW S, IsFiniteSet(S), NEW a \in [S -> Nat], NEW b \in [S -> Nat],
         NEW n \in S, NEW g \in Nat, b[n] = a[n] + g, b[n] <= MaxDays,
         \A m \in S \ {n} : b[m] = a[m]
  PROVE  Filled(S, b) = Filled(S, a) + g
<1> DEFINE days == (a[n] + 1)..(a[n] + g)
           more == {n} \X days
<1>1. a[n] \in Nat
  OBVIOUS
<1>2. Cells(S, b) = Cells(S, a) \cup more
  <2>1. ASSUME NEW m \in S, NEW d \in 1..MaxDays
        PROVE  d <= b[m] <=> d <= a[m] \/ <<m, d>> \in more
    <3>1. d \in Nat /\ a[m] \in Nat /\ b[m] \in Nat
      BY <1>1, MaxDaysPositive
    <3>2. CASE m = n
      <4>1. <<m, d>> \in more <=> d \in days
        BY <3>2
      <4> HIDE DEF more
      <4> QED
        BY <1>1, <3>1, <3>2, <4>1
    <3>3. CASE m # n
      BY <1>1, <3>3
    <3> QED
      BY <3>2, <3>3
  <2>2. more \subseteq S \X (1..MaxDays)
    BY <1>1, MaxDaysPositive
  <2> HIDE DEF more
  <2> QED
    BY <2>1, <2>2 DEF Cells
<1>3. Cells(S, a) \cap more = {}
  BY <1>1 DEF Cells
<1>4. IsFiniteSet(more) /\ Cardinality(more) = g
  <2>1. IsFiniteSet(days) /\ Cardinality(days) = g
    <3>1. a[n] + 1 \in Int /\ a[n] + g \in Int
      BY <1>1
    <3>2. /\ IsFiniteSet(days)
          /\ Cardinality(days) =
               IF a[n] + 1 > a[n] + g THEN 0 ELSE (a[n] + g) - (a[n] + 1) + 1
      BY <3>1, FS_Interval
    <3> HIDE DEF days
    <3> QED
      BY <1>1, <3>2
  <2> HIDE DEF days
  <2>2. IsFiniteSet({n}) /\ Cardinality({n}) = 1
    BY FS_Singleton
  <2>3. IsFiniteSet(more) /\ Cardinality(more) = 1 * g
    BY <2>1, <2>2, FS_Product
  <2> QED
    BY <2>3
<1> HIDE DEF more
<1>5. Cardinality(Cells(S, b)) =
        Cardinality(Cells(S, a)) + Cardinality(more) - Cardinality(Cells(S, a) \cap more)
  BY <1>2, <1>4, CellsFinite, FS_Union
<1> QED
  <2>1. Cardinality(Cells(S, a) \cap more) = 0 /\ Filled(S, a) \in Nat
    BY <1>3, CellsFinite, FS_EmptySet
  <2> QED
    BY <1>4, <1>5, <2>1 DEF Filled

\* One more day for each name of a set is one more cell each.
LEMMA FilledRow ==
  ASSUME NEW S, IsFiniteSet(S), NEW a \in [S -> Nat], NEW A \in SUBSET S,
         NEW x \in Nat, x + 1 <= MaxDays, \A n \in A : a[n] = x
  PROVE  Filled(S, [n \in S |-> IF n \in A THEN x + 1 ELSE a[n]])
           = Filled(S, a) + Cardinality(A)
<1> DEFINE b == [n \in S |-> IF n \in A THEN x + 1 ELSE a[n]]
           more == A \X {x + 1}
<1>1. Cells(S, b) = Cells(S, a) \cup more
  <2>1. ASSUME NEW m \in S, NEW d \in 1..MaxDays
        PROVE  d <= b[m] <=> d <= a[m] \/ <<m, d>> \in more
    <3>1. d \in Nat /\ a[m] \in Nat
      BY MaxDaysPositive
    <3> QED
      BY <3>1
  <2>2. more \subseteq S \X (1..MaxDays)
    BY MaxDaysPositive
  <2> HIDE DEF b, more
  <2> QED
    BY <2>1, <2>2 DEF Cells
<1>2. Cells(S, a) \cap more = {}
  BY DEF Cells
<1>3. IsFiniteSet(A) /\ IsFiniteSet(more) /\ Cardinality(more) = Cardinality(A)
  <2>1. IsFiniteSet(A) /\ Cardinality(A) \in Nat
    BY FS_Subset, FS_CardinalityType
  <2>2. IsFiniteSet({x + 1}) /\ Cardinality({x + 1}) = 1
    BY FS_Singleton
  <2>3. IsFiniteSet(more) /\ Cardinality(more) = Cardinality(A) * 1
    BY <2>1, <2>2, FS_Product
  <2> QED
    BY <2>1, <2>3
<1> HIDE DEF b, more
<1>4. Cardinality(Cells(S, b)) =
        Cardinality(Cells(S, a)) + Cardinality(more) - Cardinality(Cells(S, a) \cap more)
  BY <1>1, <1>3, CellsFinite, FS_Union
<1>5. Filled(S, b) = Filled(S, a) + Cardinality(A)
  <2>1. Cardinality(A) \in Nat /\ Filled(S, a) \in Nat
    BY <1>3, CellsFinite, FS_CardinalityType
  <2>2. Cardinality(Cells(S, a) \cap more) = 0
    BY <1>2, FS_EmptySet
  <2> QED
    BY <1>3, <1>4, <2>1, <2>2 DEF Filled
<1> QED
  BY <1>5 DEF b

-----------------------------------------------------------------------------
(* The headroom of a set *)

\* What holds of a set when it holds of all its smaller subsets holds of every
\* subset of a finite set.
LEMMA SetInduct ==
  ASSUME NEW S, IsFiniteSet(S), NEW G \in SUBSET (SUBSET S),
         \A T \in SUBSET S : (\A U \in SUBSET T : U # T => U \in G) => T \in G
  PROVE  G = SUBSET S
<1> DEFINE bad == (SUBSET S) \ G
<1> SUFFICES ASSUME bad # {} PROVE FALSE
  OBVIOUS
<1>1. bad \subseteq FiniteSubsetsOf(S)
  BY FS_Subset DEF FiniteSubsetsOf
<1>2. PICK T \in bad : \A U \in bad : ~(<<U, T>> \in StrictSubsetOrdering(S))
  <2>1. IsWellFoundedOn(StrictSubsetOrdering(S), FiniteSubsetsOf(S))
    BY FS_StrictSubsetOrderingWellFounded
  <2> HIDE DEF bad
  <2> QED
    BY <1>1, <2>1, WFMin
<1>3. ASSUME NEW U \in SUBSET T, U # T PROVE U \in G
  BY <1>2, <1>3 DEF StrictSubsetOrdering
<1> QED
  BY <1>2, <1>3

\* A set of numbers has a least one.
LEMMA LeastOf ==
  ASSUME NEW S \in SUBSET Nat, S # {}
  PROVE  Min(S) \in S /\ \A k \in S : Min(S) <= k
<1>1. \E n \in S : \A k \in S : n <= k
  <2> DEFINE T == {1..n : n \in S}
  <2>1. T \subseteq FiniteSubsetsOf(Nat) /\ T # {}
    <3>1. ASSUME NEW n \in S PROVE IsFiniteSet(1..n) /\ 1..n \in SUBSET Nat
      BY FS_Interval
    <3> QED
      BY <3>1 DEF FiniteSubsetsOf
  <2>2. PICK t \in T : \A u \in T : ~(<<u, t>> \in StrictSubsetOrdering(Nat))
    <3> HIDE DEF T
    <3>1. IsWellFoundedOn(StrictSubsetOrdering(Nat), FiniteSubsetsOf(Nat))
      BY FS_StrictSubsetOrderingWellFounded
    <3> QED
      BY <2>1, <3>1, WFMin
  <2>3. PICK n \in S : t = 1..n
    OBVIOUS
  <2>4. ASSUME NEW k \in S, k < n PROVE FALSE
    <3>1. /\ 1..k \in SUBSET Nat /\ 1..n \in SUBSET Nat /\ 1..k \subseteq 1..n
          /\ n \in 1..n /\ n \notin 1..k
      BY <2>4
    <3>2. <<1..k, 1..n>> \in StrictSubsetOrdering(Nat)
      BY <3>1 DEF StrictSubsetOrdering
    <3> QED
      BY <2>2, <2>3, <3>2
  <2> QED
    BY <2>4
<1> QED
  BY <1>1 DEF Min

\* The headroom of a row is a number of days that a lease may have.
LEMMA RoomFits ==
  ASSUME NEW n \in Names, names[n] \in Row, mtp \in Nat
  PROVE  Room(n) \in 0..MaxDays
<1> DEFINE rem == Remaining(names[n])
           q   == (MaxLease - rem) \div Billing
<1>1. names[n].lease \in Int
  BY DEF Row
<1>2. rem \in Nat
  BY <1>1, LaterIsMax DEF Remaining, Later
<1>3. Billing \in Nat \ {0} /\ MaxLease \in Nat
  BY TimeAssumption
<1>4. Room(n) = Later(q, 0) /\ Room(n) \in Nat
  BY HeadroomFits DEF Room, Headroom
<1> HIDE DEF rem
<1>5. q \in Int /\ q * Billing <= MaxLease - rem
  BY <1>2, <1>3
<1>6. MaxDays \in Nat /\ MaxLease < (MaxDays + 1) * Billing
  BY <1>3, MaxDaysPositive DEF MaxDays
<1> HIDE DEF q
<1>7. q * Billing < (MaxDays + 1) * Billing
  <2>1. q * Billing \in Int /\ (MaxDays + 1) * Billing \in Int
    BY <1>3, <1>5, <1>6
  <2> QED
    BY <2>1, <1>2, <1>3, <1>5, <1>6
<1>8. q <= MaxDays
  <2> SUFFICES ASSUME q >= MaxDays + 1 PROVE FALSE
    BY <1>5, <1>6
  <2>1. PICK d \in Nat : q = MaxDays + 1 + d
    BY <1>5, <1>6
  <2>2. q * Billing = (MaxDays + 1) * Billing + d * Billing /\ d * Billing \in Nat
    BY <1>3, <1>6, <2>1
  <2>3. (MaxDays + 1) * Billing \in Int
    BY <1>3, <1>6
  <2> QED
    BY <1>7, <2>2, <2>3
<1> QED
  BY <1>4, <1>5, <1>6, <1>8 DEF Later

\* The cells of a set are those of one name, and those of the others.
LEMMA FilledSplit ==
  ASSUME NEW S, IsFiniteSet(S), NEW a, NEW n \in S, a[n] \in 0..MaxDays
  PROVE  Filled(S, a) = a[n] + Filled(S \ {n}, a)
<1>0. PICK k \in Nat : k = a[n] /\ k <= MaxDays
  BY MaxDaysPositive
<1> DEFINE days == 1..k
           mine == {n} \X days
<1>1. Cells(S, a) = Cells(S \ {n}, a) \cup mine
  <2>1. ASSUME NEW m \in S, NEW d \in 1..MaxDays
        PROVE  d <= a[m] <=> (m # n /\ d <= a[m]) \/ <<m, d>> \in mine
    BY <1>0, MaxDaysPositive
  <2>2. mine \subseteq S \X (1..MaxDays)
    BY <1>0, MaxDaysPositive
  <2>3. \A p \in mine : p[1] = n
    OBVIOUS
  <2> HIDE DEF mine
  <2> QED
    BY <2>1, <2>2, <2>3 DEF Cells
<1>2. Cells(S \ {n}, a) \cap mine = {}
  BY <1>0 DEF Cells
<1>3. IsFiniteSet(mine) /\ Cardinality(mine) = k
  <2>1. IsFiniteSet(days) /\ Cardinality(days) = k
    <3>1. IsFiniteSet(days) /\ Cardinality(days) = IF 1 > k THEN 0 ELSE k - 1 + 1
      BY FS_Interval
    <3> QED
      BY <3>1
  <2> HIDE DEF days
  <2>2. IsFiniteSet({n}) /\ Cardinality({n}) = 1
    BY FS_Singleton
  <2>3. IsFiniteSet(mine) /\ Cardinality(mine) = 1 * k
    BY <2>1, <2>2, FS_Product
  <2> QED
    BY <2>3
<1> HIDE DEF mine
<1>4. IsFiniteSet(S \ {n})
  BY FS_Subset
<1>5. Cardinality(Cells(S, a)) =
        Cardinality(Cells(S \ {n}, a)) + Cardinality(mine)
          - Cardinality(Cells(S \ {n}, a) \cap mine)
  BY <1>1, <1>3, <1>4, CellsFinite, FS_Union
<1>6. Cardinality(Cells(S \ {n}, a) \cap mine) = 0 /\ Filled(S \ {n}, a) \in Nat
  BY <1>2, <1>4, CellsFinite, FS_EmptySet
<1> QED
  BY <1>0, <1>3, <1>5, <1>6 DEF Filled

\* The name of a set that a sum over it takes first.
Pick(s) == CHOOSE n \in s : TRUE

\* The function that TotalHead takes the last value of.
HeadRun(S) ==
  CHOOSE run : run = [s \in SUBSET S |->
    IF s = {} THEN 0 ELSE Room(Pick(s)) + run[s \ {Pick(s)}]]

\* The full headroom of a set is one cell for each day that each name has room for
\* (lease.c:45-49).
LEMMA TotalHeadIs ==
  ASSUME set \in SUBSET Names, names \in [Names -> Row], mtp \in Nat
  PROVE  TotalHead = Filled(set, [n \in set |-> Room(n)])
<1> DEFINE full == [n \in set |-> Room(n)]
           sum == [s \in SUBSET set |-> Filled(s, full)]
           run == HeadRun(set)
<1>1. IsFiniteSet(set)
  BY NamesAssumption, FS_Subset
<1>2. ASSUME NEW s \in SUBSET set
      PROVE  Filled(s, full) =
               IF s = {} THEN 0 ELSE Room(Pick(s)) + Filled(s \ {Pick(s)}, full)
  <2>1. CASE s = {}
    <3>1. Cells({}, full) = {}
      BY DEF Cells
    <3> QED
      BY <2>1, <3>1, FS_EmptySet DEF Filled
  <2>2. CASE s # {}
    <3>1. Pick(s) \in s
      BY <2>2 DEF Pick
    <3>2. full[Pick(s)] = Room(Pick(s)) /\ full[Pick(s)] \in 0..MaxDays
      BY <3>1, RoomFits
    <3>3. IsFiniteSet(s)
      BY <1>1, FS_Subset
    <3> HIDE DEF full
    <3> QED
      BY <2>2, <3>1, <3>2, <3>3, FilledSplit
  <2> QED
    BY <2>1, <2>2
<1>3. sum = [s \in SUBSET set |->
               IF s = {} THEN 0 ELSE Room(Pick(s)) + sum[s \ {Pick(s)}]]
  <2>1. \A s \in SUBSET set : s \ {Pick(s)} \in SUBSET set
    OBVIOUS
  <2> HIDE DEF full
  <2> QED
    BY <1>2, <2>1
<1>4. run = [s \in SUBSET set |->
               IF s = {} THEN 0 ELSE Room(Pick(s)) + run[s \ {Pick(s)}]]
  <2> HIDE DEF sum
  <2> QED
    BY <1>3 DEF HeadRun
<1>5. TotalHead = run[set]
  BY DEF TotalHead, MapThenSumSet, MapThenFoldSet, HeadRun, Pick
<1> DEFINE G == {s \in SUBSET set : run[s] = Filled(s, full)}
<1>6. ASSUME NEW s \in SUBSET set, \A u \in SUBSET s : u # s => u \in G PROVE s \in G
  <2> HIDE DEF full, run
  <2>1. ASSUME s # {} PROVE s \ {Pick(s)} \in SUBSET s /\ s \ {Pick(s)} # s
    BY <2>1 DEF Pick
  <2> QED
    BY <1>2, <1>4, <1>6, <2>1
<1> HIDE DEF G
<1>7. G = SUBSET set
  <2>1. G \in SUBSET (SUBSET set)
    BY DEF G
  <2> QED
    BY <1>1, <1>6, <2>1, SetInduct
<1> QED
  BY <1>5, <1>7 DEF G

-----------------------------------------------------------------------------
(* What Waterfill awards *)

\* The rows of the set are rows, as they were when the fill started.
Grounded == set \in SUBSET Names /\ names \in [Names -> Row] /\ mtp \in Nat

\* Every name of the set is filled to level x, or to its top.
Flat(x) == [n \in set |-> IF x < Room(n) THEN x ELSE Room(n)]
Full == [n \in set |-> Room(n)]
Above(x) == {n \in set : x < Room(n)}

LEMMA RoomsFit ==
  ASSUME Grounded
  PROVE  \A n \in set : Room(n) \in Nat /\ Room(n) <= MaxDays
  BY RoomFits, MaxDaysPositive DEF Grounded

LEMMA FlatType ==
  ASSUME Grounded, NEW x \in Nat
  PROVE  /\ IsFiniteSet(set)
         /\ Flat(x) \in [set -> Nat] /\ Full \in [set -> Nat]
         /\ IsFiniteSet(Above(x)) /\ Cardinality(Above(x)) \in Nat
         /\ Filled(set, Flat(x)) \in Nat /\ Filled(set, Full) \in Nat
<1>1. IsFiniteSet(set) /\ IsFiniteSet(Above(x))
  BY NamesAssumption, FS_Subset DEF Grounded, Above
<1>2. \A n \in set : Room(n) \in Nat
  BY RoomsFit
<1>3. Flat(x) \in [set -> Nat] /\ Full \in [set -> Nat]
  BY <1>2 DEF Flat, Full
<1> QED
  BY <1>1, <1>3, CellsFinite, FS_CardinalityType

LEMMA PouredIs ==
  ASSUME Grounded, NEW x \in Nat
  PROVE  Poured(names, set, x) = Filled(set, Flat(x))
<1>1. ASSUME NEW p \in set \X (1..MaxDays)
      PROVE  p[2] <= x /\ p[2] <= Headroom(names[p[1]]) <=> p[2] <= Flat(x)[p[1]]
  <2>1. p[1] \in set /\ p[2] \in Nat /\ Room(p[1]) \in Nat
    BY RoomsFit, MaxDaysPositive
  <2> QED
    BY <2>1 DEF Flat, Room
<1> QED
  BY <1>1 DEF Poured, Filled, Cells

\* A level more is a day for each name that reaches above it.
LEMMA PouredStep ==
  ASSUME Grounded, NEW x \in Nat
  PROVE  Filled(set, Flat(x + 1)) = Filled(set, Flat(x)) + Cardinality(Above(x))
<1>1. CASE Above(x) = {}
  <2>1. ASSUME NEW n \in set
        PROVE  (IF x + 1 < Room(n) THEN x + 1 ELSE Room(n))
                 = (IF x < Room(n) THEN x ELSE Room(n))
    <3>1. Room(n) \in Nat /\ ~(x < Room(n))
      BY <1>1, RoomsFit DEF Above
    <3> QED
      BY <3>1
  <2>2. Flat(x + 1) = Flat(x)
    BY <2>1 DEF Flat
  <2>3. Filled(set, Flat(x)) \in Nat /\ Cardinality(Above(x)) = 0
    BY <1>1, FlatType, FS_EmptySet
  <2> QED
    BY <2>2, <2>3
<1>2. CASE Above(x) # {}
  <2> DEFINE more == [n \in set |-> IF n \in Above(x) THEN x + 1 ELSE Flat(x)[n]]
  <2>1. Flat(x + 1) = more
    <3>1. ASSUME NEW n \in set PROVE Flat(x + 1)[n] = more[n]
      <4>1. Room(n) \in Nat
        BY RoomsFit
      <4> QED
        BY <4>1 DEF Flat, Above
    <3> QED
      BY <3>1 DEF Flat
  <2>2. x + 1 <= MaxDays
    <3>1. PICK n \in set : x < Room(n)
      BY <1>2 DEF Above
    <3>2. Room(n) \in Nat /\ Room(n) <= MaxDays
      BY RoomsFit
    <3> QED
      BY <3>1, <3>2, MaxDaysPositive
  <2>3. Above(x) \in SUBSET set /\ \A n \in Above(x) : Flat(x)[n] = x
    BY DEF Above, Flat
  <2>4. Filled(set, more) = Filled(set, Flat(x)) + Cardinality(Above(x))
    <3>1. IsFiniteSet(set) /\ Flat(x) \in [set -> Nat]
      BY FlatType
    <3> QED
      BY <2>2, <2>3, <3>1, FilledRow
  <2> QED
    BY <2>1, <2>4
<1> QED
  BY <1>1, <1>2

LEMMA PouredGrows ==
  ASSUME Grounded, NEW x \in Nat, NEW y \in Nat, x <= y
  PROVE  Filled(set, Flat(x)) <= Filled(set, Flat(y))
<1>1. ASSUME NEW n \in set PROVE Flat(x)[n] <= Flat(y)[n]
  <2>1. Room(n) \in Nat
    BY RoomsFit
  <2> QED
    BY <2>1 DEF Flat
<1> QED
  BY <1>1, FlatType, FilledGrows

\* The level that T days reach when they do not fill the level above it.
LEMMA LevelIs ==
  ASSUME Grounded, NEW T \in Nat, NEW x \in Nat,
         Filled(set, Flat(x)) <= T, T < Filled(set, Flat(x)) + Cardinality(Above(x))
  PROVE  Level(names, set, T) = x
<1>1. x < MaxDays
  <2>1. Above(x) # {}
    <3>1. Filled(set, Flat(x)) \in Nat /\ Cardinality(Above(x)) # 0
      BY FlatType
    <3> QED
      BY <3>1, FS_EmptySet
  <2>2. PICK n \in set : x < Room(n)
    BY <2>1 DEF Above
  <2>3. Room(n) \in Nat /\ Room(n) <= MaxDays
    BY RoomsFit
  <2> QED
    BY <2>2, <2>3, MaxDaysPositive
<1>2. ASSUME NEW l \in 1..MaxDays
      PROVE  Poured(names, set, l) <= T <=> l <= x
  <2>1. l \in Nat /\ Poured(names, set, l) = Filled(set, Flat(l)) /\ Filled(set, Flat(l)) \in Nat
    BY PouredIs, FlatType, MaxDaysPositive
  <2>2. CASE l <= x
    <3>1. Filled(set, Flat(l)) <= Filled(set, Flat(x))
      BY <2>1, <2>2, PouredGrows
    <3> QED
      BY <2>1, <2>2, <3>1, FlatType
  <2>3. CASE x + 1 <= l
    <3>1. Filled(set, Flat(x + 1)) <= Filled(set, Flat(l))
      BY <2>1, <2>3, PouredGrows
    <3>2. T < Filled(set, Flat(x + 1)) /\ Filled(set, Flat(x + 1)) \in Nat
      BY PouredStep, FlatType
    <3> QED
      BY <2>1, <2>3, <3>1, <3>2
  <2> QED
    BY <2>1, <2>2, <2>3
<1>3. {l \in 1..MaxDays : Poured(names, set, l) <= T} = 1..x
  BY <1>1, <1>2, MaxDaysPositive
<1>4. Cardinality(1..x) = IF 1 > x THEN 0 ELSE x - 1 + 1
  BY FS_Interval
<1>5. Level(names, set, T) = Cardinality(1..x)
  BY <1>3 DEF Level
<1> QED
  BY <1>4, <1>5

\* A burn that covers all the headroom fills it.
LEMMA AwardFull ==
  ASSUME Grounded, NEW T \in Nat, Filled(set, Full) <= T, NEW n \in set
  PROVE  Award(names, set, T, n) = Room(n)
<1>1. Flat(MaxDays) = Full
  <2>1. ASSUME NEW m \in set
        PROVE  (IF MaxDays < Room(m) THEN MaxDays ELSE Room(m)) = Room(m)
    BY RoomsFit, MaxDaysPositive
  <2> QED
    BY <2>1 DEF Flat, Full
<1>2. ASSUME NEW l \in 1..MaxDays PROVE Poured(names, set, l) <= T
  <2>1. l \in Nat /\ Poured(names, set, l) = Filled(set, Flat(l)) /\ Filled(set, Flat(l)) \in Nat
    BY PouredIs, FlatType, MaxDaysPositive
  <2>2. Filled(set, Flat(l)) <= Filled(set, Flat(MaxDays))
    BY <2>1, PouredGrows, MaxDaysPositive
  <2> QED
    BY <1>1, <2>1, <2>2, FlatType
<1>3. Level(names, set, T) = MaxDays
  <2>1. {l \in 1..MaxDays : Poured(names, set, l) <= T} = 1..MaxDays
    BY <1>2
  <2>2. Cardinality(1..MaxDays) = IF 1 > MaxDays THEN 0 ELSE MaxDays - 1 + 1
    BY FS_Interval, MaxDaysPositive
  <2> QED
    BY <2>1, <2>2, MaxDaysPositive DEF Level
<1>4. Room(n) \in Nat /\ Room(n) <= MaxDays
  BY RoomsFit
<1> QED
  BY <1>3, <1>4, MaxDaysPositive DEF Award, Room

\* Otherwise the names above the level that come first receive a day more, one for
\* each day that the level leaves over.
LEMMA AwardRest ==
  ASSUME Grounded, NEW T \in Nat, NEW x \in Nat,
         Filled(set, Flat(x)) <= T, T < Filled(set, Flat(x)) + Cardinality(Above(x)),
         NEW V \in SUBSET Above(x), \A m \in V, n \in Above(x) \ V : m < n,
         Cardinality(V) = T - Filled(set, Flat(x)), NEW n \in set
  PROVE  Award(names, set, T, n) = IF n \in V THEN x + 1 ELSE Flat(x)[n]
<1>1. Level(names, set, T) = x /\ Poured(names, set, x) = Filled(set, Flat(x))
  BY LevelIs, PouredIs
<1> DEFINE below == {m \in Above(x) : m < n}
<1>2. Award(names, set, T, n) =
        IF n \in Above(x)
          THEN IF Cardinality(below) < Cardinality(V) THEN x + 1 ELSE x
          ELSE Room(n)
  BY <1>1 DEF Award, Rank, Above, Room
<1>3. /\ IsFiniteSet(below) /\ Cardinality(below) \in Nat
      /\ IsFiniteSet(V) /\ Cardinality(V) \in Nat /\ Above(x) \subseteq Nat
  BY FlatType, FS_Subset, FS_CardinalityType, NamesAssumption DEF Above, Grounded
<1>4. CASE n \in V
  <2>1. below \subseteq V \ {n}
    <3>1. ASSUME NEW m \in Above(x), m < n, m \notin V PROVE FALSE
      <4>1. n < m /\ n \in Nat /\ m \in Nat
        BY <1>3, <1>4, <3>1
      <4> QED
        BY <3>1, <4>1
    <3>2. ~(n < n)
      BY <1>3, <1>4
    <3> QED
      BY <3>1, <3>2
  <2>2. Cardinality(V \ {n}) = Cardinality(V) - 1 /\ IsFiniteSet(V \ {n})
    BY <1>3, <1>4, FS_RemoveElement
  <2> HIDE DEF below
  <2>3. Cardinality(below) <= Cardinality(V \ {n})
    BY <2>1, <2>2, FS_Subset
  <2> QED
    BY <1>2, <1>3, <1>4, <2>2, <2>3
<1>5. CASE n \in Above(x) \ V
  <2>1. V \subseteq below
    BY <1>5
  <2> HIDE DEF below
  <2>2. Cardinality(V) <= Cardinality(below)
    BY <1>3, <2>1, FS_Subset
  <2>3. Flat(x)[n] = x
    BY <1>5 DEF Flat, Above
  <2> QED
    BY <1>2, <1>3, <1>5, <2>2, <2>3
<1>6. CASE n \notin Above(x)
  BY <1>2, <1>6 DEF Flat, Above
<1> QED
  BY <1>4, <1>5, <1>6

-----------------------------------------------------------------------------
(* The loop *)

\* Until the leases are written, the days not handed out and the cells make up what
\* the burn bought, which does not fill the set.
Flow ==
  /\ pool \in Nat
  /\ Days(burn) < Filled(set, Full)
  /\ pool + Filled(set, add) = Days(burn)

\* Between rounds the names stand at one level, or at their top.
Even == \E x \in Nat : add = Flat(x)

\* In a round, those that were visited stand a share higher; the pool holds a share
\* for each of the others that has room.
Giving ==
  \E x \in Nat :
    /\ share \in Nat
    /\ todo \in SUBSET set /\ todo # {}
    /\ add = [n \in set |-> IF n \in todo THEN Flat(x)[n] ELSE Flat(x + share)[n]]
    /\ share * Cardinality(todo \cap Above(x)) <= pool

\* At the end the level is that of Waterfill, and the names that were visited are
\* the first ones.
Leaving ==
  \E x \in Nat :
    /\ Filled(set, Flat(x)) <= Days(burn)
    /\ Days(burn) < Filled(set, Flat(x)) + Cardinality(Above(x))
    /\ todo \in SUBSET set
    /\ \A m \in set \ todo, n \in todo : m < n
    /\ add = [n \in set |-> IF n \in Above(x) \ todo THEN x + 1 ELSE Flat(x)[n]]

Awarded == add = [n \in set |-> Award(names, set, Days(burn), n)]

FillInv ==
  pc # "done" =>
    /\ Grounded /\ Days(burn) \in Nat
    /\ pc \in {"start", "round", "give", "rest", "write"}
    /\ pc = "start" => add = Flat(0)
    /\ pc \in {"round", "give", "rest"} => Flow
    /\ pc = "round" => Even
    /\ pc = "give" => Giving
    /\ pc = "rest" => Leaving
    /\ pc = "write" => Awarded

LEMMA DaysType ==
  ASSUME burn \in Nat, rate \in Nat
  PROVE  Days(burn) \in Nat
<1>1. Billing \in Nat \ {0} /\ Quantum \in Nat \ {0}
  BY TimeAssumption
<1>2. PICK cost \in Nat \ {0} : cost = Later(rate, 1)
  BY DEF Later
<1>3. PICK a \in Nat : a = burn * Quantum
  BY <1>1
<1>4. PICK b \in Nat \ {0} : b = Later(rate, 1) * Billing
  BY <1>1, <1>2
<1>5. a \div b \in Nat
  OBVIOUS
<1> QED
  BY <1>3, <1>4, <1>5 DEF Days

LEMMA FillInitOK == FillInit => FillInv
<1> SUFFICES ASSUME FillInit PROVE FillInv
  OBVIOUS
<1>1. PICK lease \in [Names -> Leases], o \in Owners :
        names = [n \in Names |-> OwnedRow(o, lease[n])]
  BY DEF FillInit
<1>2. PICK m \in Names : m \in set
  BY DEF FillInit
<1>3. mtp \in Nat
  <2>1. Leases \in SUBSET Nat /\ lease[m] \in Leases
    BY LeasesAssumption
  <2> QED
    BY <2>1, LeastOf DEF FillInit
<1>4. names \in [Names -> Row]
  <2>1. ASSUME NEW n \in Names PROVE OwnedRow(o, lease[n]) \in Row
    <3>1. lease[n] \in Leases /\ o \in Owners \cup {NoOne}
      OBVIOUS
    <3>2. lease[n] \in Nat
      BY <3>1, LeasesAssumption
    <3> QED
      BY <3>1, <3>2, OwnedRowType
  <2> QED
    BY <1>1, <2>1
<1>5. Grounded
  BY <1>3, <1>4 DEF FillInit, Grounded
<1>6. Days(burn) \in Nat
  <2>1. burn \in Nat /\ rate \in Nat
    BY InputAssumption DEF FillInit
  <2> QED
    BY <2>1, DaysType
<1>7. add = Flat(0)
  <2>1. ASSUME NEW n \in set PROVE (IF 0 < Room(n) THEN 0 ELSE Room(n)) = 0
    BY <1>5, RoomsFit
  <2> QED
    BY <2>1 DEF FillInit, Flat
<1>8. pc = "start"
  BY DEF FillInit
<1> QED
  BY <1>5, <1>6, <1>7, <1>8 DEF FillInv

\* While the rows stay, so does what the burn is worth to them.
LEMMA Ground ==
  ASSUME UNCHANGED <<vars, set, burn>>
  PROVE  /\ Grounded' <=> Grounded
         /\ Days(burn)' = Days(burn) /\ Full' = Full
         /\ \A n : Room(n)' = Room(n)
         /\ \A x : Flat(x)' = Flat(x) /\ Above(x)' = Above(x)
         /\ \A n : Award(names, set, Days(burn), n)' = Award(names, set, Days(burn), n)
<1>1. \A n : Room(n)' = Room(n)
  BY DEF vars, Room, Headroom, Remaining
<1>2. Days(burn)' = Days(burn)
  BY DEF vars, Days
<1>3. \A n : Award(names, set, Days(burn), n)' = Award(names, set, Days(burn), n)
  BY <1>2 DEF vars, Award, Level, Poured, Headroom, Remaining
<1> QED
  BY <1>1, <1>2, <1>3 DEF vars, Grounded, Full, Flat, Above

LEMMA CapOK ==
  ASSUME FillInv, Cap
  PROVE  FillInv'
<1>1. Grounded /\ Days(burn) \in Nat /\ pc' = "write" /\ UNCHANGED <<vars, set, burn>>
  BY DEF FillInv, Cap
<1>2. Filled(set, Full) <= Days(burn)
  <2>1. TotalHead = Filled(set, [n \in set |-> Room(n)])
    BY <1>1, TotalHeadIs DEF Grounded
  <2>2. TotalHead <= Days(burn)
    <3>1. Days(burn) >= TotalHead /\ TotalHead \in Nat
      BY <1>1, <2>1, FlatType DEF Cap, Full
    <3> QED
      BY <1>1, <3>1
  <2> QED
    BY <2>1, <2>2 DEF Full
<1>3. add' = [n \in set |-> Award(names, set, Days(burn), n)]
  <2>1. ASSUME NEW n \in set PROVE Award(names, set, Days(burn), n) = Room(n)
    BY <1>1, <1>2, AwardFull
  <2> QED
    BY <2>1 DEF Cap
<1>4. Awarded'
  <2>1. set' = set /\ \A n : Award(names, set, Days(burn), n)' = Award(names, set, Days(burn), n)
    BY <1>1, Ground
  <2> QED
    BY <1>3, <2>1 DEF Awarded
<1> QED
  BY <1>1, <1>4, Ground DEF FillInv

LEMMA StartOK ==
  ASSUME FillInv, Start
  PROVE  FillInv'
<1>1. /\ Grounded /\ Days(burn) \in Nat /\ add = Flat(0)
      /\ pc' = "round" /\ UNCHANGED <<vars, set, burn, add>>
  BY DEF FillInv, Start
<1>2. Filled(set, add) = 0
  <2>1. \A n \in set : Flat(0)[n] = 0
    <3>1. ASSUME NEW n \in set PROVE (IF 0 < Room(n) THEN 0 ELSE Room(n)) = 0
      BY <1>1, RoomsFit
    <3> QED
      BY <3>1 DEF Flat
  <2>2. Flat(0) \in [set -> Nat]
    BY <1>1, FlatType
  <2> QED
    BY <1>1, <2>1, <2>2, FilledNone
<1>3. Days(burn) < Filled(set, Full)
  <2>1. TotalHead = Filled(set, [n \in set |-> Room(n)])
    BY <1>1, TotalHeadIs DEF Grounded
  <2> QED
    BY <2>1 DEF Full, Start
<1>4. pool' = Days(burn)
  BY DEF Start
<1>5. Grounded' /\ Days(burn)' = Days(burn) /\ Full' = Full /\ Flat(0)' = Flat(0)
  BY <1>1, Ground
<1>6. Flow'
  BY <1>1, <1>2, <1>3, <1>4, <1>5 DEF Flow
<1>7. Even'
  BY <1>1, <1>5 DEF Even
<1> QED
  BY <1>1, <1>5, <1>6, <1>7 DEF FillInv

\* Names that stand at a level can take more exactly if they reach above it.
LEMMA ActiveIs ==
  ASSUME Grounded, NEW x \in Nat, NEW S \in SUBSET set, \A n \in S : add[n] = Flat(x)[n]
  PROVE  S \cap Active = S \cap Above(x)
<1>1. ASSUME NEW n \in S PROVE n \in Active <=> n \in Above(x)
  <2>1. Room(n) \in Nat /\ add[n] = IF x < Room(n) THEN x ELSE Room(n)
    BY RoomsFit DEF Flat
  <2> QED
    BY <2>1 DEF Active, Above
<1> QED
  BY <1>1

LEMMA RoundOK ==
  ASSUME FillInv, Round
  PROVE  FillInv'
<1>1. /\ Grounded /\ Days(burn) \in Nat /\ Flow /\ Even
      /\ todo' = set /\ UNCHANGED <<vars, set, burn, add, pool>>
  BY DEF FillInv, Round
<1>2. PICK x \in Nat : add = Flat(x)
  BY <1>1 DEF Even
<1>3. Active = Above(x)
  <2>1. set \cap Active = set \cap Above(x)
    BY <1>1, <1>2, ActiveIs
  <2> QED
    BY <2>1 DEF Active, Above
<1>4. /\ Filled(set, Flat(x)) \in Nat /\ Cardinality(Above(x)) \in Nat /\ IsFiniteSet(Above(x))
      /\ pool \in Nat /\ pool + Filled(set, Flat(x)) = Days(burn)
      /\ Days(burn) < Filled(set, Full)
  BY <1>1, <1>2, FlatType DEF Flow
<1>5. Grounded' /\ Days(burn)' = Days(burn) /\ Full' = Full
  BY <1>1, Ground
<1>6. \A y : Flat(y)' = Flat(y) /\ Above(y)' = Above(y)
  BY <1>1, Ground
<1>7. Flow'
  BY <1>1, <1>5 DEF Flow
<1>8. Above(x) # {}
  <2> SUFFICES ASSUME Above(x) = {} PROVE FALSE
    OBVIOUS
  <2>1. ASSUME NEW n \in set PROVE (IF x < Room(n) THEN x ELSE Room(n)) = Room(n)
    BY DEF Above
  <2>2. Flat(x) = Full
    BY <2>1 DEF Flat, Full
  <2> QED
    BY <1>1, <1>4, <2>2
<1>9. Cardinality(Above(x)) >= 1
  BY <1>4, <1>8, FS_EmptySet
<1>10. CASE RoundsOver
  <2>1. pc' = "rest"
    BY <1>10 DEF Round
  <2>2. pool < Cardinality(Above(x))
    BY <1>3, <1>4, <1>8, <1>9, <1>10 DEF RoundsOver
  <2>3. add = [n \in set |-> IF n \in Above(x) \ set THEN x + 1 ELSE Flat(x)[n]]
    <3>1. Flat(x) = [n \in set |-> Flat(x)[n]]
      BY DEF Flat
    <3>2. \A n \in set : n \notin Above(x) \ set
      OBVIOUS
    <3> QED
      BY <1>2, <3>1, <3>2
  <2>4. Leaving'
    <3>1. Filled(set, Flat(x)) <= Days(burn)
      BY <1>4
    <3>2. Days(burn) < Filled(set, Flat(x)) + Cardinality(Above(x))
      BY <1>4, <2>2
    <3>3. todo' \in SUBSET set /\ \A m \in set \ todo', n \in todo' : m < n
      BY <1>1
    <3>4. add' = [n \in set |-> IF n \in Above(x) \ todo' THEN x + 1 ELSE Flat(x)[n]]
      BY <1>1, <2>3
    <3> QED
      BY <1>1, <1>5, <1>6, <3>1, <3>2, <3>3, <3>4 DEF Leaving
  <2> QED
    BY <1>1, <1>5, <1>7, <2>1, <2>4 DEF FillInv
<1>11. CASE ~RoundsOver
  <2>1. pc' = "give" /\ share' = pool \div Cardinality(Above(x))
    BY <1>3, <1>11 DEF Round
  <2>2. share' \in Nat /\ share' * Cardinality(Above(x)) <= pool
    <3>1. PICK c \in Nat \ {0} : c = Cardinality(Above(x))
      BY <1>4, <1>9
    <3>2. pool \div c \in Nat /\ (pool \div c) * c <= pool
      BY <1>4
    <3> QED
      BY <2>1, <3>1, <3>2
  <2>3. Giving'
    <3>1. todo' \cap Above(x) = Above(x)
      BY <1>1 DEF Above
    <3>2. todo' \in SUBSET set /\ todo' # {}
      BY <1>1, <1>8 DEF Above
    <3>3. add' = [n \in set |-> IF n \in todo' THEN Flat(x)[n] ELSE Flat(x + share')[n]]
      <4>1. Flat(x) = [n \in set |-> Flat(x)[n]]
        BY DEF Flat
      <4> QED
        BY <1>1, <1>2, <4>1
    <3>4. set' = set /\ pool' = pool /\ Flat(x)' = Flat(x) /\ Above(x)' = Above(x)
          /\ Flat(x + share)' = Flat(x + share')
      <4>1. Flat(x + share)' = [n \in set |-> IF x + share' < Room(n) THEN x + share' ELSE Room(n)]
        <5>1. set' = set /\ \A n : Room(n)' = Room(n)
          BY <1>1, Ground
        <5> QED
          BY <5>1 DEF Flat
      <4> QED
        BY <1>1, <1>6, <4>1 DEF Flat
    <3> QED
      BY <2>2, <3>1, <3>2, <3>3, <3>4 DEF Giving
  <2> QED
    BY <1>1, <1>5, <1>7, <2>1, <2>3 DEF FillInv
<1> QED
  BY <1>10, <1>11

LEMMA VisitOK ==
  ASSUME FillInv, Visit
  PROVE  FillInv'
<1>1. /\ Grounded /\ Days(burn) \in Nat /\ Flow /\ Giving
      /\ UNCHANGED <<vars, set, burn, share>>
  BY DEF FillInv, Visit
<1>2. PICK x \in Nat :
        /\ share \in Nat
        /\ todo \in SUBSET set /\ todo # {}
        /\ add = [n \in set |-> IF n \in todo THEN Flat(x)[n] ELSE Flat(x + share)[n]]
        /\ share * Cardinality(todo \cap Above(x)) <= pool
  BY <1>1 DEF Giving
<1> DEFINE n == Min(todo)
<1>3. n \in todo /\ n \in set
  <2>1. todo \in SUBSET Nat
    BY <1>1, <1>2, NamesAssumption DEF Grounded
  <2> QED
    BY <1>2, <2>1, LeastOf
<1>4. /\ GiveShare(n) /\ todo' = todo \ {n}
      /\ pc' = IF todo' = {} THEN "round" ELSE "give"
  BY DEF Visit
<1> HIDE DEF n
<1>5. /\ Flat(x) \in [set -> Nat] /\ Flat(x + share) \in [set -> Nat] /\ IsFiniteSet(set)
      /\ Room(n) \in Nat /\ Room(n) <= MaxDays /\ pool \in Nat
      /\ add \in [set -> Nat]
  <2>1. x + share \in Nat
    BY <1>2
  <2>2. Flat(x) \in [set -> Nat] /\ Flat(x + share) \in [set -> Nat] /\ IsFiniteSet(set)
    BY <1>1, <2>1, FlatType
  <2> QED
    BY <1>1, <1>2, <1>3, <2>2, RoomsFit DEF Flow
<1>6. n \in Active <=> n \in Above(x)
  <2>1. {n} \cap Active = {n} \cap Above(x)
    BY <1>1, <1>2, <1>3, ActiveIs
  <2> QED
    BY <2>1
<1>7. PICK g \in Nat :
        /\ add' = [add EXCEPT ![n] = @ + g] /\ pool' = pool - g
        /\ add[n] + g = Flat(x + share)[n] /\ add[n] + g <= MaxDays
        /\ n \in Above(x) => g <= share
        /\ n \notin Above(x) => g = 0
  <2>1. /\ add[n] = IF x < Room(n) THEN x ELSE Room(n)
        /\ Flat(x + share)[n] = IF x + share < Room(n) THEN x + share ELSE Room(n)
    BY <1>2, <1>3 DEF Flat
  <2>2. CASE n \in Above(x)
    <3> DEFINE give == IF Room(n) - add[n] > share THEN share ELSE Room(n) - add[n]
    <3>1. x < Room(n) /\ add[n] = x
      BY <2>1, <2>2 DEF Above
    <3>2. /\ give \in Nat /\ give <= share /\ add[n] + give = Flat(x + share)[n]
          /\ add[n] + give <= MaxDays
      BY <1>2, <1>5, <2>1, <3>1, MaxDaysPositive
    <3>3. add' = [add EXCEPT ![n] = @ + give] /\ pool' = pool - give
      BY <1>4, <1>6, <2>2 DEF GiveShare
    <3> QED
      BY <2>2, <3>2, <3>3
  <2>3. CASE n \notin Above(x)
    <3>1. ~(x < Room(n))
      BY <1>3, <2>3 DEF Above
    <3>2. add[n] = Room(n) /\ Flat(x + share)[n] = Room(n)
      BY <1>2, <1>5, <2>1, <3>1
    <3>3. add' = add /\ pool' = pool
      BY <1>4, <1>6, <2>3 DEF GiveShare
    <3>4. add' = [add EXCEPT ![n] = @ + 0] /\ pool' = pool - 0
      BY <1>3, <1>5, <3>3
    <3> QED
      <4>1. add[n] + 0 = Flat(x + share)[n] /\ add[n] + 0 <= MaxDays /\ 0 \in Nat
        BY <1>5, <3>2
      <4> QED
        BY <2>3, <3>4, <4>1
  <2> QED
    BY <2>2, <2>3
<1>8. add' = [m \in set |-> IF m \in todo' THEN Flat(x)[m] ELSE Flat(x + share)[m]]
  <2>1. ASSUME NEW m \in set
        PROVE  add'[m] = IF m \in todo' THEN Flat(x)[m] ELSE Flat(x + share)[m]
    BY <1>2, <1>3, <1>4, <1>5, <1>7
  <2> QED
    BY <1>5, <1>7, <2>1
<1>9. share * Cardinality(todo' \cap Above(x)) <= pool' /\ pool' \in Nat
  <2> DEFINE A == todo \cap Above(x)
             B == todo' \cap Above(x)
  <2>1. IsFiniteSet(A) /\ Cardinality(A) \in Nat /\ B = A \ {n}
    <3>1. IsFiniteSet(A)
      BY <1>2, <1>5, FS_Subset
    <3> QED
      BY <1>4, <3>1, FS_CardinalityType
  <2>2. CASE n \in Above(x)
    <3>1. Cardinality(B) = Cardinality(A) - 1 /\ Cardinality(B) \in Nat
      <4>1. n \in A
        BY <1>3, <2>2
      <4> HIDE DEF A, B
      <4> QED
        BY <2>1, <4>1, FS_RemoveElement, FS_CardinalityType
    <3>2. PICK k \in Nat : k = Cardinality(B)
      BY <3>1
    <3>3. Cardinality(A) = k + 1
      BY <2>1, <3>1, <3>2
    <3>4. share * (k + 1) = share * k + share /\ share * k \in Nat
      BY <1>2
    <3>5. share * (k + 1) <= pool
      BY <1>2, <3>3
    <3> HIDE DEF A, B
    <3>6. share * k <= pool - g /\ pool - g \in Nat
      BY <1>2, <1>5, <1>7, <2>2, <3>4, <3>5
    <3> QED
      BY <1>7, <3>2, <3>6 DEF B
  <2>3. CASE n \notin Above(x)
    <3>1. B = A /\ pool' = pool
      BY <1>5, <1>7, <2>1, <2>3
    <3> QED
      BY <1>2, <1>5, <3>1
  <2> QED
    BY <2>2, <2>3
<1>10. Filled(set, add') = Filled(set, add) + g /\ Filled(set, add) \in Nat
  <2>1. add[n] + g <= MaxDays /\ g \in Nat /\ n \in set
    BY <1>3, <1>7
  <2>2. /\ add' \in [set -> Nat] /\ add'[n] = add[n] + g
        /\ \A m \in set \ {n} : add'[m] = add[m]
    BY <1>5, <1>7, <2>1
  <2> QED
    BY <1>5, <2>1, <2>2, FilledStep, CellsFinite
<1>11. Grounded' /\ Days(burn)' = Days(burn) /\ Full' = Full
  BY <1>1, Ground
<1>12. \A y : Flat(y)' = Flat(y) /\ Above(y)' = Above(y)
  BY <1>1, Ground
<1>13. Flow'
  <2>1. Days(burn) < Filled(set, Full) /\ pool + Filled(set, add) = Days(burn) /\ set' = set
    BY <1>1 DEF Flow
  <2>2. pool' + Filled(set, add') = Days(burn)
    BY <1>5, <1>7, <1>10, <2>1
  <2> QED
    BY <1>9, <1>11, <2>1, <2>2 DEF Flow
<1>14. CASE todo' = {}
  <2>1. add' = Flat(x + share)
    <3>1. Flat(x + share) = [m \in set |-> Flat(x + share)[m]]
      BY DEF Flat
    <3> QED
      BY <1>8, <1>14, <3>1
  <2>2. Even' /\ pc' = "round"
    <3>1. x + share \in Nat
      BY <1>2
    <3> QED
      BY <1>4, <1>12, <1>14, <2>1, <3>1 DEF Even
  <2> QED
    BY <1>1, <1>11, <1>13, <2>2 DEF FillInv
<1>15. CASE todo' # {}
  <2>1. Giving'
    <3>1. share' = share /\ set' = set /\ Flat(x)' = Flat(x) /\ Above(x)' = Above(x)
          /\ Flat(x + share)' = Flat(x + share)
      BY <1>1, <1>12 DEF Flat
    <3>2. todo' \in SUBSET set
      BY <1>2, <1>4
    <3> QED
      BY <1>2, <1>8, <1>9, <1>15, <3>1, <3>2 DEF Giving
  <2> QED
    BY <1>1, <1>4, <1>11, <1>13, <1>15, <2>1 DEF FillInv
<1> QED
  BY <1>14, <1>15

LEMMA HandOutOK ==
  ASSUME FillInv, HandOut
  PROVE  FillInv'
<1>1. /\ Grounded /\ Days(burn) \in Nat /\ Flow /\ Leaving /\ pc' = "rest"
      /\ UNCHANGED <<vars, set, burn>> /\ todo # {} /\ pool > 0
  BY DEF FillInv, HandOut
<1>2. PICK x \in Nat :
        /\ Filled(set, Flat(x)) <= Days(burn)
        /\ Days(burn) < Filled(set, Flat(x)) + Cardinality(Above(x))
        /\ todo \in SUBSET set
        /\ \A m \in set \ todo, k \in todo : m < k
        /\ add = [k \in set |-> IF k \in Above(x) \ todo THEN x + 1 ELSE Flat(x)[k]]
  BY <1>1 DEF Leaving
<1> DEFINE n == Min(todo)
<1>3. n \in todo /\ n \in set /\ set \subseteq Nat /\ \A k \in todo : n <= k
  <2>1. todo \in SUBSET Nat /\ set \subseteq Nat
    BY <1>1, <1>2, NamesAssumption DEF Grounded
  <2> QED
    BY <1>1, <1>2, <2>1, LeastOf
<1>4. /\ todo' = todo \ {n}
      /\ IF n \in Active
           THEN add' = [add EXCEPT ![n] = @ + 1] /\ pool' = pool - 1
           ELSE add' = add /\ pool' = pool
  BY DEF HandOut, FirstOf
<1> HIDE DEF n
<1>5. /\ Flat(x) \in [set -> Nat] /\ add \in [set -> Nat] /\ IsFiniteSet(set)
      /\ Room(n) \in Nat /\ Room(n) <= MaxDays /\ pool \in Nat
  <2>1. Flat(x) \in [set -> Nat] /\ IsFiniteSet(set)
    BY <1>1, FlatType
  <2> QED
    BY <1>1, <1>2, <1>3, <2>1, RoomsFit DEF Flow
<1>6. n \in Active <=> n \in Above(x)
  <2>1. {n} \cap Active = {n} \cap Above(x)
    BY <1>1, <1>2, <1>3, ActiveIs
  <2> QED
    BY <2>1
<1>7. add' = [k \in set |-> IF k \in Above(x) \ todo' THEN x + 1 ELSE Flat(x)[k]]
  <2>1. CASE n \in Above(x)
    <3>1. add[n] = x
      BY <1>2, <1>3, <2>1 DEF Above, Flat
    <3>2. ASSUME NEW k \in set
          PROVE  add'[k] = IF k \in Above(x) \ todo' THEN x + 1 ELSE Flat(x)[k]
      BY <1>2, <1>3, <1>4, <1>5, <1>6, <2>1, <3>1
    <3> QED
      BY <1>4, <1>5, <1>6, <2>1, <3>2
  <2>2. CASE n \notin Above(x)
    <3>1. ASSUME NEW k \in set
          PROVE  k \in Above(x) \ todo' <=> k \in Above(x) \ todo
      BY <1>4, <2>2
    <3> QED
      BY <1>2, <1>4, <1>6, <2>2, <3>1
  <2> QED
    BY <2>1, <2>2
<1>8. pool' \in Nat /\ pool' + Filled(set, add') = pool + Filled(set, add)
  <2>1. Filled(set, add) \in Nat
    BY <1>5, CellsFinite
  <2>2. CASE n \in Above(x)
    <3>1. /\ add' \in [set -> Nat] /\ add'[n] = add[n] + 1 /\ add'[n] <= MaxDays
          /\ \A m \in set \ {n} : add'[m] = add[m]
      <4>1. add[n] = x /\ x < Room(n)
        BY <1>2, <1>3, <2>2 DEF Above, Flat
      <4> QED
        BY <1>3, <1>4, <1>5, <1>6, <2>2, <4>1, MaxDaysPositive
    <3>2. 1 \in Nat
      OBVIOUS
    <3>3. Filled(set, add') = Filled(set, add) + 1
      BY <1>3, <1>5, <3>1, <3>2, FilledStep
    <3>4. pool' = pool - 1
      BY <1>4, <1>6, <2>2
    <3> QED
      BY <1>1, <1>5, <2>1, <3>3, <3>4
  <2>3. CASE n \notin Above(x)
    BY <1>4, <1>5, <1>6, <2>3
  <2> QED
    BY <2>2, <2>3
<1>9. Grounded' /\ Days(burn)' = Days(burn) /\ Full' = Full
  BY <1>1, Ground
<1>10. set' = set /\ Flat(x)' = Flat(x) /\ Above(x)' = Above(x)
  BY <1>1, Ground
<1>11. Flow'
  BY <1>1, <1>8, <1>9, <1>10 DEF Flow
<1>12. Leaving'
  <2>1. todo' \in SUBSET set
    BY <1>2, <1>4
  <2>2. ASSUME NEW m \in set \ todo', NEW k \in todo' PROVE m < k
    <3>1. CASE m = n
      <4>1. n <= k /\ n # k /\ n \in Nat /\ k \in Nat
        BY <1>2, <1>3, <1>4
      <4> QED
        BY <3>1, <4>1
    <3>2. CASE m # n
      BY <1>2, <1>4, <3>2
    <3> QED
      BY <3>1, <3>2
  <2> QED
    BY <1>2, <1>7, <1>9, <1>10, <2>1, <2>2 DEF Leaving
<1> QED
  BY <1>1, <1>9, <1>11, <1>12 DEF FillInv

LEMMA RestDoneOK ==
  ASSUME FillInv, RestDone
  PROVE  FillInv'
<1>1. /\ Grounded /\ Days(burn) \in Nat /\ Flow /\ Leaving /\ pc' = "write"
      /\ UNCHANGED <<vars, set, burn, add>> /\ (todo = {} \/ pool = 0)
  BY DEF FillInv, RestDone
<1>2. PICK x \in Nat :
        /\ Filled(set, Flat(x)) <= Days(burn)
        /\ Days(burn) < Filled(set, Flat(x)) + Cardinality(Above(x))
        /\ todo \in SUBSET set
        /\ \A m \in set \ todo, k \in todo : m < k
        /\ add = [k \in set |-> IF k \in Above(x) \ todo THEN x + 1 ELSE Flat(x)[k]]
  BY <1>1 DEF Leaving
<1> DEFINE V == Above(x) \ todo
<1>3. /\ Filled(set, Flat(x)) \in Nat /\ Flat(x) \in [set -> Nat] /\ IsFiniteSet(set)
      /\ IsFiniteSet(Above(x)) /\ Cardinality(Above(x)) \in Nat
  BY <1>1, FlatType
<1>4. V \in SUBSET Above(x) /\ V \in SUBSET set /\ IsFiniteSet(V) /\ Cardinality(V) \in Nat
  <2>1. V \in SUBSET Above(x) /\ V \in SUBSET set
    BY DEF Above
  <2>2. IsFiniteSet(V)
    BY <1>3, <2>1, FS_Subset
  <2> QED
    BY <2>1, <2>2, FS_CardinalityType
<1>5. x + 1 <= MaxDays
  <2>1. Cardinality(Above(x)) # 0
    BY <1>1, <1>2, <1>3
  <2>2. PICK n \in Above(x) : TRUE
    BY <2>1, FS_EmptySet
  <2>3. n \in set /\ x < Room(n)
    BY <2>2 DEF Above
  <2>4. Room(n) \in Nat /\ Room(n) <= MaxDays
    BY <1>1, <2>3, RoomsFit
  <2> QED
    BY <2>3, <2>4, MaxDaysPositive
<1>6. Filled(set, add) = Filled(set, Flat(x)) + Cardinality(V)
  <2>1. \A n \in V : Flat(x)[n] = x
    BY DEF Above, Flat
  <2>2. add = [k \in set |-> IF k \in V THEN x + 1 ELSE Flat(x)[k]]
    BY <1>2
  <2> HIDE DEF V
  <2> QED
    BY <1>3, <1>4, <1>5, <2>1, <2>2, FilledRow
<1>7. pool = 0
  <2> SUFFICES ASSUME pool # 0 PROVE FALSE
    OBVIOUS
  <2>1. Cardinality(V) = Cardinality(Above(x))
    BY <1>1
  <2> HIDE DEF V
  <2> QED
    BY <1>1, <1>2, <1>3, <1>4, <1>6, <2>1 DEF Flow
<1>8. Cardinality(V) = Days(burn) - Filled(set, Flat(x))
  <2> HIDE DEF V
  <2> QED
    BY <1>1, <1>3, <1>4, <1>6, <1>7 DEF Flow
<1>9. ASSUME NEW m \in V, NEW k \in Above(x) \ V PROVE m < k
  BY <1>2 DEF Above
<1>10. ASSUME NEW n \in set PROVE Award(names, set, Days(burn), n) = add[n]
  <2>1. add[n] = IF n \in V THEN x + 1 ELSE Flat(x)[n]
    BY <1>2
  <2> HIDE DEF V
  <2>2. Award(names, set, Days(burn), n) = IF n \in V THEN x + 1 ELSE Flat(x)[n]
    BY <1>1, <1>2, <1>4, <1>8, <1>9, AwardRest
  <2> QED
    BY <2>1, <2>2
<1>11. Awarded'
  <2>1. set' = set /\ \A n : Award(names, set, Days(burn), n)' = Award(names, set, Days(burn), n)
    BY <1>1, Ground
  <2>2. add = [n \in set |-> add[n]]
    BY <1>2
  <2>3. add = [n \in set |-> Award(names, set, Days(burn), n)]
    BY <1>10, <2>2
  <2> QED
    BY <1>1, <2>1, <2>3 DEF Awarded
<1>12. Grounded' /\ Days(burn)' = Days(burn)
  BY <1>1, Ground
<1> QED
  BY <1>1, <1>11, <1>12 DEF FillInv

\* The leases are written once, and are those of Waterfill.
LEMMA WriteOK ==
  ASSUME FillInv, Write
  PROVE  FillInv' /\ pc' = "done" /\ names' = Waterfill(names, set, burn)
<1>1. Grounded /\ Awarded /\ pc' = "done"
  BY DEF FillInv, Write
<1>2. ASSUME NEW n \in set
      PROVE  [names[n] EXCEPT !.lease = @ + add[n] * Billing]
               = [names[n] EXCEPT !.lease = @ + Award(names, set, Days(burn), n) * Billing]
  <2>1. add[n] = Award(names, set, Days(burn), n)
    BY <1>1 DEF Awarded
  <2> QED
    BY <2>1
<1>3. names' = Waterfill(names, set, burn)
  BY <1>2 DEF Write, Waterfill
<1> QED
  BY <1>1, <1>3 DEF FillInv

-----------------------------------------------------------------------------
(* Theorems *)

FillStep ==
  IF pc' = "done" THEN names' = Waterfill(names, set, burn) ELSE UNCHANGED names

LEMMA FillNextOK ==
  ASSUME FillInv, [FillNext]_allVars
  PROVE  FillInv' /\ (FillStep \/ UNCHANGED allVars)
<1>1. CASE UNCHANGED allVars
  <2>1. UNCHANGED <<vars, set, burn>> /\ UNCHANGED <<pc, add, pool, share, todo>>
    BY <1>1 DEF allVars, fillVars
  <2> QED
    <3>1. /\ (Grounded' <=> Grounded) /\ Days(burn)' = Days(burn) /\ Full' = Full
          /\ \A x : Flat(x)' = Flat(x) /\ Above(x)' = Above(x)
          /\ \A n : Award(names, set, Days(burn), n)' = Award(names, set, Days(burn), n)
      BY <2>1, Ground
    <3>2. (Flow' <=> Flow) /\ (Even' <=> Even)
      BY <2>1, <3>1 DEF Flow, Even
    <3>3. (Giving' <=> Giving)
      <4>1. \A x : Flat(x + share)' = Flat(x + share)
        BY <2>1, <3>1 DEF Flat
      <4> QED
        BY <2>1, <3>1, <4>1 DEF Giving
    <3>4. (Leaving' <=> Leaving) /\ (Awarded' <=> Awarded)
      BY <2>1, <3>1 DEF Leaving, Awarded
    <3>5. (FillInv' <=> FillInv)
      BY <2>1, <3>1, <3>2, <3>3, <3>4 DEF FillInv
    <3> QED
      BY <1>1, <3>5
<1>2. CASE Cap
  BY <1>2, CapOK DEF Cap, FillStep, vars
<1>3. CASE Start
  BY <1>3, StartOK DEF Start, FillStep, vars
<1>4. CASE Round
  BY <1>4, RoundOK DEF Round, FillStep, vars
<1>5. CASE Visit
  BY <1>5, VisitOK DEF Visit, FillStep, vars
<1>6. CASE HandOut
  BY <1>6, HandOutOK DEF HandOut, FillStep, vars
<1>7. CASE RestDone
  BY <1>7, RestDoneOK DEF RestDone, FillStep, vars
<1>8. CASE Write
  BY <1>8, WriteOK DEF FillStep
<1> QED
  BY <1>1, <1>2, <1>3, <1>4, <1>5, <1>6, <1>7, <1>8 DEF FillNext

\* The invariant of the loop holds of every fill.
LEMMA FillInductive == FillSpec => []FillInv
<1>1. FillInit => FillInv
  BY FillInitOK
<1>2. FillInv /\ [FillNext]_allVars => FillInv'
  BY FillNextOK
<1> QED
  BY <1>1, <1>2, PTL DEF FillSpec

\* The rounds and the days handed out one by one end, for any set of names, burn,
\* rate and leases, with exactly the leases that the fold's step writes, and until
\* then no lease is touched (lease.c:35-80).
THEOREM FillIsWaterfill == FillSpec => OneFill
<1>1. FillInv /\ [FillNext]_allVars => [FillStep]_allVars
  BY FillNextOK
<1> QED
  BY <1>1, FillInductive, PTL DEF FillSpec, OneFill, FillStep
=============================================================================
