----------------------------- MODULE MCNameFold -----------------------------
(* Instances of NameFold for TLC: the inputs a chain offers and the symmetry *)
(* of owners.                                                                *)
EXTENDS NameRegistry, TLC

CONSTANTS alice, bob        \* the owners of the instances

Signed(o) == [id |-> o, all |-> TRUE]
Unsigned(o) == [id |-> o, all |-> FALSE]

\* Transactions with one input.
OneInput == {<<Signed(alice)>>, <<Signed(bob)>>}

\* Transactions of one party, of two, and of one whose second input does not
\* sign everything.
TwoInputs == {<<Signed(alice)>>, <<Signed(bob)>>, <<Signed(bob), Signed(alice)>>,
              <<Signed(alice), Unsigned(bob)>>}

NoOuts == {<<>>}

\* Outputs to the seller alice. A price of 4 splits into legs of 1 and 1 and a
\* remainder of 2; a directed price of 2 is paid in one output.
To(o, v) == [dest |-> o, value |-> v]
SaleOuts == {<<>>, <<To(alice, 1)>>, <<To(alice, 2)>>,
             <<To(bob, 1), To(alice, 1), To(alice, 1)>>}

\* A state the fold reaches in block 2: alice committed to every name in block 1
\* and has just claimed them all, each for MAX_LEASE.
InitHeld ==
  /\ names = [n \in Names |-> OwnedRow(alice, MaxLease)]
  /\ commits = {[name |-> n, author |-> alice, height |-> 1, index |-> 0, time |-> 0] :
                  n \in Names}
  /\ muts = [o \in Owners |-> IF o = alice THEN 2 ELSE 0]
  /\ scratch = [n \in Names |-> [height |-> 1, index |-> 0, owner |-> alice]]
  /\ height = 2 /\ mtp = 0 /\ rate = 1 /\ txs = 1
  /\ cx = NoTx

HeldSpec == InitHeld /\ [][Next]_vars

OwnerSymmetry == Permutations({alice, bob})
=============================================================================
