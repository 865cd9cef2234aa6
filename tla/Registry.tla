------------------------------ MODULE Registry ------------------------------
(***************************************************************************)
(* What the namespace protocol promises about names, without leases,       *)
(* prices, opcodes or rows: every name has at most one holder, and a name  *)
(* changes hands in five ways only. It lapses at a block; it is minted by  *)
(* a claim pledged in an earlier block, the oldest pledge winning; its     *)
(* holder moves it by a signature; two holders swap by two signatures; or  *)
(* its sale closes with the one it is promised to. NameRegistry shows that *)
(* the fold keeps the promise.                                             *)
(***************************************************************************)
EXTENDS Integers

CONSTANTS
  Names, Owners,
  NoOne,          \* holds the names of the pool
  NotForSale,     \* the terms of a name that is not on the market
  Anyone,         \* the terms of a listing nobody has reserved
  NoClaim         \* what won a name that nobody has claimed in this block

VARIABLES
  holder,     \* name -> its holder
  terms,      \* name -> who may have it: NotForSale, Anyone, or an owner
  ripe,       \* the claims pledged before this block
  won,        \* name -> the claim that won it in this block
  signers     \* who signs the transaction being folded

vars == <<holder, terms, ripe, won, signers>>

\* A claim is as old as the pledge behind it.
Claim == [height : Nat, index : Nat, owner : Owners]

Older(a, b) == a.height < b.height \/ (a.height = b.height /\ a.index < b.index)

Init ==
  /\ holder = [n \in Names |-> NoOne]
  /\ terms = [n \in Names |-> NotForSale]
  /\ ripe = {}
  /\ won = [n \in Names |-> NoClaim]
  /\ signers = {}

\* At a block names lapse, offers close and reservations fall back.
Block ==
  /\ holder' \in [Names -> Owners \cup {NoOne}]
  /\ \A n \in Names : holder'[n] \in {holder[n], NoOne}
  /\ terms' \in [Names -> {NotForSale, Anyone} \cup Owners]
  /\ \A n \in Names : \/ terms'[n] \in {terms[n], NotForSale}
                      \/ terms[n] \in Owners /\ terms'[n] = Anyone
  /\ \A n \in Names : holder'[n] = NoOne => terms'[n] = NotForSale
  /\ ripe' \in SUBSET [name : Names, claim : Claim]
  /\ won' = [n \in Names |-> NoClaim]
  /\ signers = {} /\ signers' = {}

Open ==
  /\ signers = {}
  /\ signers' \in SUBSET Owners
  /\ UNCHANGED <<holder, terms, ripe, won>>

Close ==
  /\ signers' = {}
  /\ UNCHANGED <<holder, terms, ripe, won>>

\* The pledges behind o's claim to n.
Pledges(n, o) == {p \in ripe : p.name = n /\ p.claim.owner = o}

\* The name's winner of this block still has it, and this claim is older.
Outclaims(c, n) ==
  /\ won[n] # NoClaim
  /\ holder[n] = won[n].owner
  /\ terms[n] = NotForSale
  /\ Older(c, won[n])

Mint(n, p) ==
  LET c == p.claim
  IN  /\ c.owner \in signers
      /\ p \in Pledges(n, c.owner)
      /\ \A q \in Pledges(n, c.owner) : ~Older(q.claim, c)
      /\ holder[n] = NoOne \/ Outclaims(c, n)
      /\ holder' = [holder EXCEPT ![n] = c.owner]
      /\ won' = [won EXCEPT ![n] = c]
      /\ UNCHANGED <<terms, ripe, signers>>

\* A signer may do with its unsold names what it likes.
Free(o, S) == \A n \in S : holder[n] = o /\ terms[n] = NotForSale

Move(o, S, to) ==
  /\ o \in signers
  /\ Free(o, S)
  /\ holder' = [n \in Names |-> IF n \in S THEN to ELSE holder[n]]
  /\ UNCHANGED <<terms, ripe, won, signers>>

Swap(a, b, n, m) ==
  /\ {a, b} \subseteq signers
  /\ Free(a, {n}) /\ Free(b, {m})
  /\ holder' = [holder EXCEPT ![n] = b, ![m] = a]
  /\ UNCHANGED <<terms, ripe, won, signers>>

Offer(o, n, to) ==
  /\ o \in signers
  /\ Free(o, {n})
  /\ terms' = [terms EXCEPT ![n] = to]
  /\ UNCHANGED <<holder, ripe, won, signers>>

\* A listing is promised to one of the signers.
Promise(n, o) ==
  /\ o \in signers
  /\ terms[n] = Anyone
  /\ terms' = [terms EXCEPT ![n] = o]
  /\ UNCHANGED <<holder, ripe, won, signers>>

\* The one it is promised to signs, and has it.
Buy(n) ==
  /\ terms[n] \in signers
  /\ holder' = [holder EXCEPT ![n] = terms[n]]
  /\ terms' = [terms EXCEPT ![n] = NotForSale]
  /\ UNCHANGED <<ripe, won, signers>>

Next ==
  \/ Block
  \/ Open
  \/ Close
  \/ \E n \in Names, p \in ripe : Mint(n, p)
  \/ \E o \in Owners, S \in SUBSET Names, to \in Owners \cup {NoOne} : Move(o, S, to)
  \/ \E a, b \in Owners, n, m \in Names : Swap(a, b, n, m)
  \/ \E o \in Owners, n \in Names, to \in Owners \cup {Anyone} : Offer(o, n, to)
  \/ \E n \in Names, o \in Owners : Promise(n, o)
  \/ \E n \in Names : Buy(n)

Spec == Init /\ [][Next]_vars
=============================================================================
