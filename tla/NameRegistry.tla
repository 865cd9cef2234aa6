---------------------------- MODULE NameRegistry ----------------------------
(* The fold of NameFold seen as the Registry it keeps.                       *)
EXTENDS NameFold

\* Who may have a row: an offer or a reservation names its buyer.
Terms(r) ==
  CASE r.st = "LISTED"                -> "anyone"
    [] r.st \in {"OFFERED", "RESERVED"} -> r.buyer
    [] OTHER                          -> "not for sale"

\* The identities whose signature over the whole open transaction is checked.
Signers == {cx.inputs[i].id : i \in {j \in DOMAIN cx.inputs : cx.inputs[j].all}}

\* The commits that a claim of this block may rest on.
Ripe ==
  {[name |-> c.name, claim |-> [height |-> c.height, index |-> c.index, owner |-> c.author]] :
     c \in {d \in commits : d.height < height}}

HolderOf(n) == IF names[n].st = "NONE" THEN NoOne ELSE Holder(names[n])

Registry == INSTANCE Registry WITH
  NotForSale <- "not for sale",
  Anyone     <- "anyone",
  holder     <- [n \in Names |-> HolderOf(n)],
  terms      <- [n \in Names |-> Terms(names[n])],
  ripe       <- Ripe,
  won        <- scratch,
  signers    <- Signers

\* The fold keeps the registry's promises: over any blocks and transactions a
\* name leaves its holder only by lapse, by the holder's signature, to the one
\* its sale is promised to, or, in the block that minted it and while the
\* minter has it, to an older claim (spec 3.2, 3.6, 3.7, 3.10).
Implements == Registry!Spec

\* The same of every step, whatever state the fold is picked up in.
ImplementsSteps == [][Registry!Next]_(Registry!vars)
=============================================================================
