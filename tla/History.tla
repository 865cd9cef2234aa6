------------------------------ MODULE History ------------------------------
(***************************************************************************)
(* The tables for display that follow the chain beside the fold (db.c):    *)
(* who held a name at a height (epochs) and what a watched address was     *)
(* paid (utxos), with the substrate that rebuilds them (raw_blocks).  A    *)
(* block has an action on a name at most, and coins of watched addresses   *)
(* that it funds and spends; a lease is over a number of blocks.           *)
(***************************************************************************)
EXTENDS Naturals, Sequences, FiniteSetsExt

CONSTANTS
  Lease,      \* blocks that a claimed name is held
  Never,      \* the height of what has not happened
  Lapsed,     \* the owner of a row that ends an epoch
  Unheld,     \* owner_at: nobody held the name
  Uncovered   \* owner_at: history does not say

-----------------------------------------------------------------------------
(* The fold, as far as these tables see it: a name -> its owner and the    *)
(* block its lease ends in                                                 *)

Holds(state, n) == n \in DOMAIN state

\* sm_begin_block, then the action: claims take free names, gifts the giver's.
Lapse(state, h) == [n \in {m \in DOMAIN state : state[m].until > h} |-> state[n]]
Act(state, block, h) ==
  LET with == [m \in DOMAIN state \cup {block.name} |->
                 IF m = block.name
                 THEN [owner |-> block.owner,
                       until |-> IF Holds(state, m) THEN state[m].until ELSE h + Lease]
                 ELSE state[m]]
  IN  IF \/ block.act = "claim" /\ ~Holds(state, block.name)
         \/ block.act = "give" /\ Holds(state, block.name)
      THEN with ELSE state

-----------------------------------------------------------------------------
(* epochs: rows of name, start and owner *)

Rows(db, n, h) == {e \in db.epochs : e.name = n /\ e.start <= h}
Latest(rows) == CHOOSE e \in rows : \A f \in rows : f.start <= e.start

\* The height from which the history is continuous; it stays once it is set.
Mark(db, h) == IF db.from = Never THEN [db EXCEPT !.from = h] ELSE db
Wipe(db) == [db EXCEPT !.epochs = {}, !.from = Never]

Recorded(db, n, h) == IF Rows(db, n, h) = {} THEN Lapsed ELSE Latest(Rows(db, n, h)).owner

\* INSERT OR REPLACE at the height.
PutEpoch(epochs, new) ==
  {e \in epochs : ~\E f \in new : f.name = e.name /\ f.start = e.start} \cup new

\* What the state says and the rows up to the height do not.
Update(db, state, h) ==
  LET Changed == {n \in DOMAIN state : Recorded(db, n, h) # state[n].owner}
      Open == {n \in {e.name : e \in db.epochs} : Recorded(db, n, h) # Lapsed}
      new == {[name |-> n, start |-> h, owner |-> state[n].owner] : n \in Changed}
               \cup {[name |-> n, start |-> h, owner |-> Lapsed] : n \in Open \ DOMAIN state}
  IN  Mark([db EXCEPT !.epochs = PutEpoch(@, new)], h)

\* A name without a row so far was unheld if the history covers the height, unless
\* its first row is the one that all names got when the history began.
OwnerAt(db, state, n, h) ==
  LET ever == {e \in db.epochs : e.name = n}
      begins == {e \in ever : \A f \in ever : e.start <= f.start}
  IN  IF Rows(db, n, h) # {}
      THEN IF Recorded(db, n, h) = Lapsed THEN Unheld ELSE Recorded(db, n, h)
      ELSE IF db.from = Never \/ db.from > h THEN Uncovered
      ELSE IF \/ ever = {} /\ Holds(state, n)
              \/ \E e \in begins : e.start = db.from
           THEN Uncovered ELSE Unheld

-----------------------------------------------------------------------------
(* utxos: rows of coin, height and the height of the spend *)

\* INSERT OR IGNORE: a standing row is the same event seen again.
UtxoPut(utxos, coins, h) ==
  utxos \cup {[coin |-> c, at |-> h, spent |-> Never] : c \in coins \ {u.coin : u \in utxos}}

UtxoSpend(utxos, coins, h) ==
  {IF u.coin \in coins THEN [u EXCEPT !.spent = h] ELSE u : u \in utxos}

Unspent(db) == {u.coin : u \in {v \in db.utxos : v.spent = Never}}
OldestUnspent(db) ==
  LET at == {u.at : u \in {v \in db.utxos : v.spent = Never}}
  IN  IF at = {} THEN Never ELSE Min(at)

\* The wallet part of tx_cb, and whether the block touched the wallet.
Watched(utxos, block, h) == UtxoSpend(UtxoPut(utxos, block.funds, h), block.spends, h)
Touches(utxos, block) ==
  block.funds # {} \/ \E u \in utxos : u.coin \in block.spends

-----------------------------------------------------------------------------
(* A node: its tables, its state and its height.  The projected names are  *)
(* those of the state.                                                     *)

Fresh == [db |-> [epochs |-> {}, from |-> 0, raws |-> <<>>, utxos |-> {}],
          state |-> <<>>, height |-> 0]

Carries(block) == block.act # "none"
Folds(node, block, h) ==
  [begun |-> Lapse(node.state, h), state |-> Act(Lapse(node.state, h), block, h),
   utxos |-> Watched(node.db.utxos, block, h),
   lapses |-> Lapse(node.state, h) # node.state]

\* The epochs are compared after blocks with a carrier or a lapse only.
Kept(db, folded, block, h) ==
  LET paid == [db EXCEPT !.utxos = folded.utxos]
  IN  IF Carries(block) \/ folded.lapses THEN Update(paid, folded.state, h) ELSE paid

\* connect_block: carriers and wallet blocks are kept for a replay.
Connect(node, block) ==
  LET h == node.height + 1
      folded == Folds(node, block, h)
      raws == IF Carries(block) \/ Touches(node.db.utxos, block)
              THEN [g \in DOMAIN node.db.raws \cup {h} |->
                      IF g = h THEN block ELSE node.db.raws[g]]
              ELSE node.db.raws
  IN  [db |-> Kept([node.db EXCEPT !.raws = raws], folded, block, h),
       state |-> folded.state, height |-> h]

Extended(node, blocks) ==
  LET After[k \in 0..Len(blocks)] == IF k = 0 THEN node ELSE Connect(After[k - 1], blocks[k])
  IN  After[Len(blocks)]

\* Variant: spends above the cut stay.
PruneRowsOnly(db, h) ==
  [db EXCEPT !.raws = [g \in {k \in DOMAIN @ : k <= h} |-> @[g]],
             !.epochs = {e \in @ : e.start <= h},
             !.utxos = {u \in @ : u.at <= h}]

\* What lies above the fork is cut, and a coin spent above it is unspent again.
Prune(db, h) ==
  [db EXCEPT !.raws = [g \in {k \in DOMAIN @ : k <= h} |-> @[g]],
             !.epochs = {e \in @ : e.start <= h},
             !.utxos = {IF u.spent # Never /\ u.spent > h THEN [u EXCEPT !.spent = Never] ELSE u :
                          u \in {v \in @ : v.at <= h}}]

\* rollback_replay_cb at one height of the substrate.
Replay(node, h) ==
  LET block == node.db.raws[h]
      folded == Folds(node, block, h)
  IN  [db |-> Kept(node.db, folded, block, h), state |-> folded.state, height |-> h]

\* idx_sync_rollback: the state starts anew, from the substrate.
Rollback(node, h) ==
  LET pruned == [db |-> Prune(node.db, h), state |-> <<>>, height |-> 0]
      After[k \in 0..h] == IF k = 0 THEN pruned
                           ELSE IF k \in DOMAIN pruned.db.raws THEN Replay(After[k - 1], k)
                           ELSE After[k - 1]
  IN  [After[h] EXCEPT !.height = h]

\* cmd_refold.
Refolded(node) == Rollback([node EXCEPT !.db = Mark(Wipe(@), 0)], node.height)

\* The one-time walk back to the oldest coin that seems unspent.
Rewalked(node) ==
  LET oldest == OldestUnspent(node.db)
  IN  IF oldest # Never /\ oldest - 1 < node.height THEN Rollback(node, oldest - 1) ELSE node

\* A pass after a crash: the state of a projection, with tables that are ahead of it.
Resumed(node, projected) == [node EXCEPT !.state = projected.state, !.height = projected.height]
=============================================================================
