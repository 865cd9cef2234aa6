------------------------------ MODULE NameFold ------------------------------
(***************************************************************************)
(* The consensus fold of the namespace protocol: the state SmState of      *)
(* sm.h, the per-block transitions of sm_begin_block, and one action per   *)
(* opcode that sm_apply_tx dispatches while it walks the carriers of a     *)
(* transaction.                                                            *)
(*                                                                         *)
(* A carrier that fails a check of its handler leaves every field as it    *)
(* is: here that is a stuttering step, so an operation's action is enabled *)
(* exactly when the handler changes something.                             *)
(***************************************************************************)
EXTENDS Integers, Sequences, FiniteSets

CONSTANTS
  Names,          \* valid names, each given as its rank in strcmp order
  Owners,         \* identities (hash160)
  NoOne,          \* the zeroed hash160: no buyer, no seller, actor invalid
  Quantum,        \* SM_LEASE_QUANTUM
  Billing,        \* SM_BILLING_UNIT
  MaxLease,       \* SM_MAX_LEASE
  CommitExpiry,   \* SM_COMMIT_EXPIRY
  ReserveWindow,  \* SM_RESERVE_WINDOW
  DirectWindow,   \* SM_DIRECT_WINDOW
  ReorgBuffer,    \* SM_REORG_BUFFER
  MaxAnchorAge,   \* SM_MAX_ANCHOR_AGE
  DustFloor,      \* SM_DUST_FLOOR
  BurnBps,        \* SM_RESERVE_BURN_BPS
  PayBps,         \* SM_RESERVE_PAY_BPS
  Activation      \* SmState.activation_height

\* What the chain may offer the fold.
CONSTANTS
  Ops,            \* the opcodes the transactions use
  InputLists,     \* the input lists of transactions
  OutLists,       \* the spendable outputs of transactions, in vout order
  Values,         \* the koinu an OP_RETURN carries
  Prices,         \* the prices of SELL and SELL_TO
  Windows,        \* the windows of SELL, 0 for the default
  Rates           \* the rates the oracle returns

\* Bounds on the behaviours explored.
CONSTANTS MaxHeight, MaxTime, MaxTxs, MaxCarriers

Input == [id : Owners, all : BOOLEAN]      \* all: signs exactly SIGHASH_ALL
Payment == [dest : Owners, value : Nat]

ASSUME NamesAssumption == Names \subseteq Nat /\ IsFiniteSet(Names)
ASSUME OwnersAssumption == NoOne \notin Owners
ASSUME TimeAssumption ==
  /\ {Quantum, Billing, ReserveWindow, DirectWindow} \subseteq Nat \ {0}
  /\ {CommitExpiry, ReorgBuffer, MaxAnchorAge, Activation} \subseteq Nat
  /\ MaxLease \in Nat /\ Billing <= MaxLease
ASSUME PriceAssumption ==
  /\ DustFloor \in Nat \ {0}
  /\ BurnBps \in 0..3333 /\ PayBps \in 0..3333
ASSUME InputAssumption ==
  /\ InputLists \subseteq Seq(Input)
  /\ OutLists \subseteq Seq(Payment)
  /\ Values \subseteq Nat /\ Prices \subseteq Nat /\ Windows \subseteq Nat
  /\ Rates \subseteq Nat
ASSUME BoundAssumption ==
  {MaxHeight, MaxTime, MaxTxs, MaxCarriers} \subseteq Nat

VARIABLES
  names,    \* name -> its row in the owned set, NoRow if it is in the pool
  commits,  \* the live commits
  muts,     \* owner -> height of the last mutation of its owned set
  scratch,  \* name -> the winning claim of this block, NoClaim if none
  height,   \* cur_height
  mtp,      \* cur_mtp
  rate,     \* cur_rate
  txs,      \* transactions begun in this block: the next txindex
  cx        \* the transaction being folded (SmTxCtx)

foldState == <<names, commits, muts, scratch>>
clock == <<height, mtp, rate>>
vars == <<names, commits, muts, scratch, height, mtp, rate, txs, cx>>

-----------------------------------------------------------------------------
(* Rows *)

LockedStates == {"LISTED", "OFFERED", "RESERVED"}

Row == [st : {"NONE", "OWNED"} \cup LockedStates,
        owner : Owners \cup {NoOne}, lease : Int,
        seller : Owners \cup {NoOne}, price : Int, offer : Int,
        buyer : Owners \cup {NoOne}, burn : Int, pay : Int, reserve : Int]

NoRow == [st |-> "NONE", owner |-> NoOne, lease |-> 0,
          seller |-> NoOne, price |-> 0, offer |-> 0,
          buyer |-> NoOne, burn |-> 0, pay |-> 0, reserve |-> 0]

\* A plain owned row: what CLAIM adds, and what clearing a sale leaves.
OwnedRow(o, expiry) == [NoRow EXCEPT !.st = "OWNED", !.owner = o, !.lease = expiry]

NoClaim == [height |-> -1, index |-> 0, owner |-> NoOne]

\* The identity that controls a row: the seller's names stay in its set.
Holder(r) == IF r.st = "OWNED" THEN r.owner ELSE r.seller

OwnedSet(o) == {n \in Names : names[n].st # "NONE" /\ Holder(names[n]) = o}

\* The position of a name in the ascending order of a set of names.
Rank(n, S) == Cardinality({m \in S : m < n})

Later(a, b) == IF a < b THEN b ELSE a

\* Variant: an owner without a mutation row is not given one.
BumpExisting(S, h) ==
  [o \in Owners |-> IF o \in S /\ muts[o] > 0 THEN Later(muts[o], h) ELSE muts[o]]

\* The mutation heights with the owners in S stamped with h; never lowered.
Bump(S, h) == [o \in Owners |-> IF o \in S THEN Later(muts[o], h) ELSE muts[o]]

-----------------------------------------------------------------------------
(* Leases: the water-fill *)

Remaining(r) == Later(r.lease - mtp, 0)

\* Variant: the time the lease still has to run is not deducted.
HeadroomFull(r) == MaxLease \div Billing

\* Whole days by which a row's lease may still grow.
Headroom(r) == Later((MaxLease - Remaining(r)) \div Billing, 0)

\* Whole name-days that a burn buys at this block's rate.
Days(burn) == (burn * Quantum) \div (Later(rate, 1) * Billing)

MaxDays == MaxLease \div Billing

\* The name-days poured when every name of S is filled to level l or its top.
Poured(rows, S, l) ==
  Cardinality({p \in S \X (1..MaxDays) : p[2] <= l /\ p[2] <= Headroom(rows[p[1]])})

\* The highest level that T days fill evenly.
Level(rows, S, T) == Cardinality({l \in 1..MaxDays : Poured(rows, S, l) <= T})

\* The days that name n of S receives: the level, and one of the days left
\* over if n is early enough among the names with headroom above it.
Award(rows, S, T, n) ==
  LET l     == Level(rows, S, T)
      above == {m \in S : Headroom(rows[m]) > l}
  IN  IF n \in above
        THEN IF Rank(n, above) < T - Poured(rows, S, l) THEN l + 1 ELSE l
        ELSE Headroom(rows[n])

Waterfill(rows, S, burn) ==
  [n \in Names |->
     IF n \in S
       THEN [rows[n] EXCEPT !.lease = @ + Award(rows, S, Days(burn), n) * Billing]
       ELSE rows[n]]

-----------------------------------------------------------------------------
(* Blocks *)

ReturnToSeller(r) == OwnedRow(r.seller, r.lease)

\* Step 1: a reserve window that has closed.
AfterReserve(r, t) ==
  IF r.st = "RESERVED" /\ t >= r.reserve
    THEN IF r.reserve < r.offer
           THEN [r EXCEPT !.st = "LISTED", !.reserve = 0, !.burn = 0, !.pay = 0,
                          !.buyer = NoOne]
           ELSE ReturnToSeller(r)
    ELSE r

\* Step 2: a listing or an offer that has closed.
AfterOffer(r, t) ==
  IF r.st \in {"LISTED", "OFFERED"} /\ t >= r.offer THEN ReturnToSeller(r) ELSE r

Turned(r, t) == AfterOffer(AfterReserve(r, t), t)

\* Step 3: the rows whose lease is over at time t.
LapsedNames(t) ==
  {n \in Names : names[n].st # "NONE" /\ t >= Turned(names[n], t).lease}

\* sm_preblock at height h and median time t.
Preblock(h, t) ==
  /\ names' = [n \in Names |-> IF n \in LapsedNames(t) THEN NoRow
                                                      ELSE Turned(names[n], t)]
  /\ muts' = Bump({Turned(names[n], t).owner : n \in LapsedNames(t)}, h)
  /\ commits' = {c \in commits : t <= c.time + CommitExpiry}

NoTx == [open |-> FALSE, inputs |-> <<>>, actor |-> NoOne,
         outs |-> <<>>, index |-> 0, left |-> 0]

\* The next block of the chain; block_validate keeps the median time monotone.
BeginBlock(t, r) ==
  /\ ~cx.open
  /\ height < MaxHeight
  /\ Preblock(height + 1, t)
  /\ scratch' = [n \in Names |-> NoClaim]
  /\ height' = height + 1
  /\ mtp' = t
  /\ rate' = r
  /\ txs' = 0
  /\ UNCHANGED cx

-----------------------------------------------------------------------------
(* Transactions *)

\* Variant: any signature counts.
SignerAny(inputs, i) == IF i \in DOMAIN inputs THEN inputs[i].id ELSE NoOne

\* The identity of input i, if there is one and it signs SIGHASH_ALL.
Signer(inputs, i) ==
  IF i \in DOMAIN inputs /\ inputs[i].all THEN inputs[i].id ELSE NoOne

BeginTx(inputs, outs) ==
  /\ height > 0
  /\ ~cx.open
  /\ txs < MaxTxs
  /\ cx' = [open   |-> TRUE,
            inputs |-> inputs,
            actor  |-> Signer(inputs, 1),
            outs   |-> [i \in DOMAIN outs |-> [dest  |-> outs[i].dest,
                                               value |-> outs[i].value,
                                               used  |-> FALSE]],
            index  |-> txs,
            left   |-> MaxCarriers]
  /\ txs' = txs + 1
  /\ UNCHANGED <<foldState, clock>>

EndTx ==
  /\ cx.open
  /\ cx' = NoTx
  /\ UNCHANGED <<foldState, clock, txs>>

\* The next carrier of the open transaction decodes to opcode op.
Carrier(op) ==
  /\ cx.open
  /\ cx.left > 0
  /\ op \in Ops
  /\ height >= Activation
  /\ UNCHANGED <<clock, txs>>

\* A carrier that acts as the acting identity.
ActorCarrier(op) == Carrier(op) /\ cx.actor # NoOne

Done == cx' = [cx EXCEPT !.left = @ - 1]

\* Indices of the outputs that pay exactly (dest, amount) and are unconsumed.
Matching(dest, amount) ==
  {i \in DOMAIN cx.outs : /\ ~cx.outs[i].used
                          /\ cx.outs[i].dest = dest
                          /\ cx.outs[i].value = amount}

\* Variant: the output is matched and not marked.
ConsumeUnmarked(dest, amount) == Matching(dest, amount) # {} /\ Done

\* sm_consume_output: the lowest matching output is consumed.
Consume(dest, amount) ==
  \E i \in Matching(dest, amount) :
    /\ \A j \in Matching(dest, amount) : i <= j
    /\ cx' = [cx EXCEPT !.left = @ - 1, !.outs[i].used = TRUE]

\* AS re-points the acting identity; a bad index invalidates it.
As(k) ==
  /\ Carrier("AS")
  /\ cx' = [cx EXCEPT !.actor = Signer(cx.inputs, k), !.left = @ - 1]
  /\ UNCHANGED foldState

-----------------------------------------------------------------------------
(* COMMIT and CLAIM *)

\* The commitment binds a name to an author; anybody may publish it.
Commit(n, author) ==
  /\ ActorCarrier("COMMIT")
  /\ commits' = commits \cup {[name |-> n, author |-> author, height |-> height,
                               index |-> cx.index, time |-> mtp]}
  /\ Done
  /\ UNCHANGED <<names, muts, scratch>>

\* The priority of claims: commit height, then the commit's tx index.
Before(a, b) == a.height < b.height \/ (a.height = b.height /\ a.index < b.index)

Backing(n, o) ==
  {c \in commits : c.name = n /\ c.author = o /\ c.height < height}

Earliest(c, C) == c \in C /\ \A d \in C : ~Before(d, c)

\* Variant: the commit's priority is not compared.
MayClaimLatest(n, c) ==
  \/ names[n].st = "NONE"
  \/ scratch[n] # NoClaim /\ names[n].st = "OWNED"

\* A name already held falls only to a better claim in the block that minted
\* it, while the minter still holds it unlocked.
MayClaim(n, c) ==
  \/ names[n].st = "NONE"
  \/ /\ scratch[n] # NoClaim
     /\ names[n].st = "OWNED"
     /\ names[n].owner = scratch[n].owner
     /\ Before(c, scratch[n])

Claim(n, v) ==
  /\ ActorCarrier("CLAIM")
  /\ Days(v) >= 1
  /\ \E c \in Backing(n, cx.actor) :
       /\ Earliest(c, Backing(n, cx.actor))
       /\ MayClaim(n, c)
       /\ scratch' = [scratch EXCEPT ![n] = [height |-> c.height, index |-> c.index,
                                             owner  |-> cx.actor]]
  /\ names' = Waterfill([names EXCEPT ![n] = OwnedRow(cx.actor, mtp)], {n}, v)
  /\ muts' = Bump({cx.actor}, height)
  /\ Done
  /\ UNCHANGED commits

-----------------------------------------------------------------------------
(* RENEW, TRANSFER, RELEASE: over a bitmap of the owned set, or by name *)

NoAnchor == -1

\* The anchor guard: o's set has not changed since block h, which is recent.
AnchorOK(o, h) == muts[o] <= h /\ h <= height /\ height - h <= MaxAnchorAge

\* The names an operation selects: all without an anchor, else by position.
Selected(o, h, bits) ==
  IF h = NoAnchor THEN OwnedSet(o)
                  ELSE {n \in OwnedSet(o) : Rank(n, OwnedSet(o)) \in bits}

Unlocked(S) == {n \in S : names[n].st = "OWNED"}

\* Extends the leases of S; a renewal never changes who holds what.
Extend(S, v) ==
  /\ names' = Waterfill(names, S, v)
  /\ Done
  /\ UNCHANGED <<muts, commits, scratch>>

Renew(h, bits, v) ==
  /\ ActorCarrier("RENEW")
  /\ h # NoAnchor => AnchorOK(cx.actor, h)
  /\ Extend(Selected(cx.actor, h, bits), v)

RenewName(n, v) ==
  /\ ActorCarrier("RENEW_NAME")
  /\ n \in OwnedSet(cx.actor)
  /\ Extend({n}, v)

\* Variant: the recipient's set is taken as unchanged.
GiveUnstamped(S, to) ==
  /\ S # {}
  /\ names' = [n \in Names |-> IF n \in S THEN [names[n] EXCEPT !.owner = to]
                                          ELSE names[n]]
  /\ muts' = Bump({cx.actor}, height)
  /\ Done
  /\ UNCHANGED <<commits, scratch>>

\* Gives the names of S to `to`; the leases convey.
Give(S, to) ==
  /\ S # {}
  /\ names' = [n \in Names |-> IF n \in S THEN [names[n] EXCEPT !.owner = to]
                                          ELSE names[n]]
  /\ muts' = Bump({cx.actor, to}, height)
  /\ Done
  /\ UNCHANGED <<commits, scratch>>

Transfer(to, h, bits) ==
  /\ ActorCarrier("TRANSFER")
  /\ h # NoAnchor => AnchorOK(cx.actor, h)
  /\ Give(Unlocked(Selected(cx.actor, h, bits)), to)

TransferName(n, to) ==
  /\ ActorCarrier("TRANSFER_NAME")
  /\ Give(Unlocked({n} \cap OwnedSet(cx.actor)), to)

\* Returns the names of S to the pool.
Free(S) ==
  /\ S # {}
  /\ names' = [n \in Names |-> IF n \in S THEN NoRow ELSE names[n]]
  /\ muts' = Bump({cx.actor}, height)
  /\ Done
  /\ UNCHANGED <<commits, scratch>>

Release(h, bits) ==
  /\ ActorCarrier("RELEASE")
  /\ AnchorOK(cx.actor, h)
  /\ Free(Unlocked(Selected(cx.actor, h, bits)))

ReleaseName(n) ==
  /\ ActorCarrier("RELEASE_NAME")
  /\ Free(Unlocked({n} \cap OwnedSet(cx.actor)))

-----------------------------------------------------------------------------
(* The market *)

\* Variant: the floor of a directed sale.
DirectPriceFloor == DustFloor

SellPriceFloor == 3 * DustFloor

DepositLeg(price, bps) == Later((price * bps) \div 10000, DustFloor)

\* The actor holds name n, unlocked.
Mine(n) == names[n].st = "OWNED" /\ names[n].owner = cx.actor

\* Variant: the margin for a reorganisation is forgotten.
LeaseTailBare(n, w) == mtp + w <= names[n].lease

\* An offer of w seconds ends early enough before the lease does.
LeaseTail(n, w) == mtp + w + ReorgBuffer <= names[n].lease

PutOnSale(n, st, price, w, buyer) ==
  /\ names' = [names EXCEPT ![n] = [OwnedRow(cx.actor, @.lease) EXCEPT
                  !.st = st, !.seller = cx.actor, !.price = price,
                  !.offer = mtp + w, !.buyer = buyer]]
  /\ Done
  /\ UNCHANGED <<muts, commits, scratch>>

Sell(n, price, window) ==
  LET w == IF window = 0 THEN ReserveWindow ELSE window
  IN  /\ ActorCarrier("SELL")
      /\ price >= SellPriceFloor
      /\ Mine(n)
      /\ w >= ReserveWindow
      /\ LeaseTail(n, w)
      /\ PutOnSale(n, "LISTED", price, w, NoOne)

SellTo(n, buyer, price) ==
  /\ ActorCarrier("SELL_TO")
  /\ price >= DustFloor
  /\ Mine(n)
  /\ LeaseTail(n, DirectWindow)
  /\ PutOnSale(n, "OFFERED", price, DirectWindow, buyer)

Reserve(n, v) ==
  LET r    == names[n]
      burn == DepositLeg(r.price, BurnBps)
      pay  == DepositLeg(r.price, PayBps)
      rexp == mtp + ReserveWindow
  IN  /\ ActorCarrier("RESERVE")
      /\ r.st = "LISTED"
      /\ v >= burn
      /\ Consume(r.seller, pay)
      /\ names' = [names EXCEPT ![n] = [r EXCEPT
                     !.st = "RESERVED", !.buyer = cx.actor, !.burn = burn, !.pay = pay,
                     !.reserve = IF rexp >= r.offer THEN r.offer ELSE rexp]]
      /\ UNCHANGED <<muts, commits, scratch>>

\* The sale of name n closes: its buyer, the actor, owns it.
Convey(n) ==
  /\ names' = [names EXCEPT ![n] = OwnedRow(cx.actor, @.lease)]
  /\ muts' = Bump({cx.actor, names[n].seller}, height)
  /\ UNCHANGED <<commits, scratch>>

Settle(n) ==
  LET r == names[n]
  IN  /\ ActorCarrier("SETTLE")
      /\ r.st = "RESERVED"
      /\ r.buyer = cx.actor
      /\ mtp < r.reserve
      /\ Consume(r.seller, r.price - r.burn - r.pay)
      /\ Convey(n)

Pay(n) ==
  LET r == names[n]
  IN  /\ ActorCarrier("PAY")
      /\ r.st = "OFFERED"
      /\ r.buyer = cx.actor
      /\ mtp < r.offer
      /\ Consume(r.seller, r.price)
      /\ Convey(n)

\* TRADE swaps two names of two co-signing inputs, whatever the actor is.
Trade(i, j, n, m) ==
  LET a == Signer(cx.inputs, i)
      b == Signer(cx.inputs, j)
  IN  /\ Carrier("TRADE")
      /\ i # j
      /\ a # NoOne /\ b # NoOne
      /\ n # m
      /\ names[n].st = "OWNED" /\ names[n].owner = a
      /\ names[m].st = "OWNED" /\ names[m].owner = b
      /\ names' = [names EXCEPT ![n].owner = b, ![m].owner = a]
      /\ muts' = Bump({a, b}, height)
      /\ Done
      /\ UNCHANGED <<commits, scratch>>

-----------------------------------------------------------------------------
(* The specification *)

Anchors == 0..MaxHeight
Bitmaps == SUBSET (0 .. Cardinality(Names) - 1)

Init ==
  /\ names = [n \in Names |-> NoRow]
  /\ commits = {}
  /\ muts = [o \in Owners |-> 0]
  /\ scratch = [n \in Names |-> NoClaim]
  /\ height = 0 /\ mtp = 0 /\ rate = 0 /\ txs = 0
  /\ cx = NoTx

BlockStep == \E t \in mtp..MaxTime, r \in Rates : BeginBlock(t, r)

TxStep ==
  \/ \E inputs \in InputLists, outs \in OutLists : BeginTx(inputs, outs)
  \/ EndTx
  \/ \E k \in 1..3 : As(k)

ClaimStep ==
  \/ \E n \in Names, o \in Owners : Commit(n, o)
  \/ \E n \in Names, v \in Values : Claim(n, v)

SetStep ==
  \/ \E h \in Anchors \cup {NoAnchor}, bits \in Bitmaps, v \in Values :
       Renew(h, bits, v)
  \/ \E n \in Names, v \in Values : RenewName(n, v)
  \/ \E to \in Owners, h \in Anchors \cup {NoAnchor}, bits \in Bitmaps :
       Transfer(to, h, bits)
  \/ \E n \in Names, to \in Owners : TransferName(n, to)
  \/ \E h \in Anchors, bits \in Bitmaps : Release(h, bits)
  \/ \E n \in Names : ReleaseName(n)

MarketStep ==
  \/ \E n \in Names, p \in Prices, w \in Windows : Sell(n, p, w)
  \/ \E n \in Names, o \in Owners, p \in Prices : SellTo(n, o, p)
  \/ \E n \in Names, v \in Values : Reserve(n, v)
  \/ \E n \in Names : Settle(n)
  \/ \E n \in Names : Pay(n)
  \/ \E i, j \in 1..2, n, m \in Names : Trade(i, j, n, m)

Next == BlockStep \/ TxStep \/ ClaimStep \/ SetStep \/ MarketStep

Spec == Init /\ [][Next]_vars
-----------------------------------------------------------------------------
(* Properties *)

Commitment == [name : Names, author : Owners, height : Nat, index : Nat, time : Nat]
ClaimWin == [height : Int, index : Nat, owner : Owners \cup {NoOne}]
TxOut == [dest : Owners, value : Nat, used : BOOLEAN]
Tx == [open : BOOLEAN, inputs : Seq(Input), actor : Owners \cup {NoOne},
       outs : Seq(TxOut), index : Nat, left : Nat]

\* Every field holds a value of its C type; a live row has an owner.
TypeOK ==
  /\ names \in [Names -> Row]
  /\ \A n \in Names : names[n].st # "NONE" => names[n].owner \in Owners
  /\ commits \subseteq Commitment
  /\ muts \in [Owners -> Nat]
  /\ scratch \in [Names -> ClaimWin]
  /\ height \in Nat /\ mtp \in Nat /\ rate \in Nat /\ txs \in Nat
  /\ cx \in Tx

Live(r) == r.st # "NONE"
Locked(r) == r.st \in LockedStates

\* A name in the owned set has a lease that is running and that ends no later
\* than MAX_LEASE from now: claims, renewals, displacements and conveyances
\* never leave a lapsed row behind and never exceed the cap (gen.c:372-374).
LeaseInv ==
  \A n \in Names : Live(names[n]) =>
    mtp < names[n].lease /\ names[n].lease <= mtp + MaxLease

\* The boundaries of a sale nest, reserve within offer within lease, and none
\* has passed: the order in which sm_preblock tests them relies on it, and so
\* does the lapse that stamps `owner` where the seller is meant (preblock.c:3-8).
NestingOf(r) ==
  /\ r.owner = r.seller
  /\ mtp < r.offer
  /\ r.offer + ReorgBuffer <= r.lease
  /\ r.st = "RESERVED" => mtp < r.reserve /\ r.reserve <= r.offer

NestingInv == \A n \in Names : Locked(names[n]) => NestingOf(names[n])

\* A listing can always be reserved and settled: the two legs recorded by
\* RESERVE are those of its price, and the remainder SETTLE asks for, an
\* unsigned subtraction, is at least the dust floor (harness.c:74-80).
SolvencyOf(r) ==
  /\ r.st = "LISTED" => r.price >= SellPriceFloor
  /\ r.st = "OFFERED" => r.price >= DustFloor
  /\ r.st = "RESERVED" => /\ r.burn = DepositLeg(r.price, BurnBps)
                          /\ r.pay = DepositLeg(r.price, PayBps)
                          /\ r.price - r.burn - r.pay >= DustFloor

SolvencyInv == \A n \in Names : SolvencyOf(names[n])

\* Whoever won a claim in this block carries this block's mutation height, so
\* that displacing it, which stamps only the new owner, loses nothing; and no
\* mutation is stamped beyond the current block (claim.c:82-91, harness.c:91).
StampInv ==
  /\ \A o \in Owners : muts[o] <= height
  /\ \A n \in Names : scratch[n] # NoClaim =>
       scratch[n].owner \in Owners /\ muts[scratch[n].owner] = height

\* The owned set that a step leaves to owner o.
OwnedSetNext(o) ==
  {n \in Names : Live(names'[n]) /\ Holder(names'[n]) = o}

\* Whenever the owned set of an owner changes, its last-mutation height is the
\* block of that change: the anchor guard of RENEW, TRANSFER and RELEASE is
\* sound only if no opcode, lapse or displacement forgets it (bitmap.c:39-43).
MutationStamped ==
  [][\A o \in Owners : OwnedSetNext(o) # OwnedSet(o) => muts'[o] = height']_vars

\* What the buyer of a sale still has to provide.
Due(r) == IF Locked(r) THEN r.price - r.burn - r.pay ELSE 0

\* Within a block a sale advances only against an output of the transaction
\* that was not consumed before, that pays the seller exactly the amount due
\* less the burned leg, and that nothing can consume again (market.c:10-26).
EscrowPaid ==
  [][\A n \in Names :
       /\ Locked(names[n])
       /\ height' = height
       /\ names'[n].st # names[n].st
       => \E i \in DOMAIN cx.outs :
            /\ ~cx.outs[i].used /\ cx'.outs[i].used
            /\ cx.outs[i].dest = names[n].seller
            /\ cx.outs[i].value = Due(names[n]) - Due(names'[n]) - names'[n].burn]_vars
=============================================================================
