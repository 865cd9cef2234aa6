# Verification of the namespace indexer

The repository is an indexer and light node for a name registry whose rules are
carried in the OP_RETURN outputs of a Dogecoin-like chain. A *fold* reads the
blocks in order and keeps who owns which name, until when, and what is for sale.
The indexer downloads blocks, validates their headers, folds them, stores the
result in SQLite, follows reorganisations, and serves what it knows to peers.

This directory holds TLA+ modules of its core, TLC configurations that check
them on small instances, and TLAPS proofs for every value of the constants.
`PROJECT.json` maps every definition to the source lines it models and lists the
runs, the hazards of the code and the theorems.

    tlc -workers 2 -config <run>.cfg <module>.tla     # model checking
    tlapm NameFoldProofs.tla                          # the proofs: also RefinementProofs,
                                                      # TxRelayProofs, ConnectionsProofs,
                                                      # BlockTreeProofs, ChainSyncProofs,
                                                      # MeshSyncProofs, AlgorithmsProofs

Paths below are relative to `src/`: `C/` stands for `protocol/impls/c/src/`, the
reference engine, and `S/` for `src/`, the indexer.

## 1. Inventory

| Component | Source | State | Operations |
|---|---|---|---|
| Name fold | `C/fold.c state.c preblock.c claim.c bitmap.c trade.c` | `SmState`: rows, commits, last-mutation heights, claims of the block, height, median time, rate | `sm_begin_block`, `sm_apply_tx` with one handler per opcode |
| Leases | `C/lease.c` | the `lease_expiry` of rows | `sm_waterfill` |
| Market | `C/market.c` | sale fields of rows, consumed outputs of a transaction | SELL, RESERVE, SETTLE, SELL_TO, PAY |
| Oracle | `C/oracle.c`, `S/oracle_feed.c` | one record per block: time, coinbase, size | record, rollback, median time and fee rate of a height |
| Sync pass | `S/sync.c` (`cmd_sync`, `connect_block`), `S/db.c` | SQLite: `blocks`, `raw_blocks`, meta (`sync_height`, `sync_tip`, `proj_height`), projection; in memory: state, feed, height, tip | recover, connect, project, end |
| Reorganisation, refold | `S/sync.c` (`branch_outweighs`, `idx_sync_rollback`, `cmd_refold`) | the same | weigh, prune, replay, reset |
| Blocks and work | `S/chain.c pow.c` | none | parse, scrypt, AuxPoW, Digishield |
| Decoding, attribution | `C/decode.c attrib.c secp256k1.c`, `S/adapter.c attrib.c` | none | carriers of a transaction; who signed an input |
| Serve store, stage | `S/serve_store.c` | headers, a window of 288 blocks, a stage of 32 blocks pushed by peers | put, prune, locate; stage put/next/del |
| Serve plane | `S/sync.c` from 1418 | connection table, seats, announced tip, a snapshot under a sequence number | accept, dial, park, dispatch, announce, top up |
| Mempool | `S/mempool.c txcheck.c` | entries by txid and by prevout, byte count, recently seen | accept, confirm, sweep, evict |
| Network policy | `S/net_policy.c` | ban list, scores, getdata budget | ban, score, admit |
| Peer table, crawl | `S/sync.c`, `S/db.c` | `peers` | harvest, seen, bad, prune |
| Wallet, epochs | `S/db.c` | `utxos`, `epochs`, `watch` | put, spend, update, prune |
| Digests | `C/digest.c ecmh.c` | none | hash of the state |
| Other ports | `protocol/impls/*` | as the name fold | the same rules in other languages |

**Interactions.** One thread runs sync passes, each of which is a process run
(`sync`) or a call in a loop (the app); one thread runs the serve plane; they share
the serve database, the mempool (a mutex), the peer table and the snapshot of
connections. A pass owns the fold: `connect_block` asks the oracle feed for the
median time and rate, calls `sm_begin_block`, parses the block with a callback that
calls `sm_apply_tx` per transaction, records the block in the feed, and then
writes, statement by statement, the block row, the raw block if it held a carrier,
the serve cache, the epochs and the cursor. The projection of the whole state is one
transaction at the end of a batch. Blocks come from a dialled peer or from the
stage, where the serve thread leaves blocks that peers pushed.

**What is hard here.**
* The fold is pure and sequential, yet long sequences of legal operations of
  several owners interact: two claims of one block, an operation on a bitmap over
  a set that moved, a sale whose three deadlines pass together, two carriers that
  would share one payment.
* Everything on disk except the projection commits by itself: crashes fall between
  any two writes, and the next pass has to find out from what is left.
* A reorganisation deletes, rebuilds and reconnects over the same tables, from a
  substrate that leaves out most blocks, after a peer's headers were believed.
* The serve plane is a poll loop with many small tables at their limits, and a few
  places where two threads meet.

**What makes each component correct.**
* *Name fold*: a name moves only by its owner's signature, by lapse, by a sale paid
  in time or by an older commit in the block that minted it; every change of an
  owned set is stamped, so an operation confirmed late cannot act on other names.
* *Leases*: never over, never beyond the cap, whatever is burned.
* *Market*: deadlines nest; a sale closes only against its own payment.
* *Sync*: after any crash, tables, cursor, feed and state are those of one chain,
  at their real heights, and no block's actions are skipped.
* *Reorganisation*: the rebuilt state is the state of the surviving chain, and a
  node ends on the heaviest chain that its peers keep serving.
* *Decoding, attribution, work*: one reading per payload, nobody credited with a
  signature that is not there, one list of transactions per root, one header per proof.
* *Serve store, plane, mempool, policy*: bounded tables that keep their indexes
  together, one mesh handle per machine, nobody announced or served a block of a branch
  left behind, no configured peer left unreached, no entry that was confirmed.
* *Wallet, epochs*: the tables of the past answer for the chain that survived.

## 2. Plan

Done:

1. `NameFold`, `NameFoldProofs`: the fold, its invariants and their proofs.
2. `Registry`, `NameRegistry`, `RefinementProofs`: what the fold promises, the mapping,
   and the theorem that the fold implements it.
3. `WaterFill`, also proved in `RefinementProofs`: the loop of `sm_waterfill`, and the
   theorem that it ends with the result `NameFold` takes.
4. `BlockTree`, `BlockTreeProofs`: the tree of blocks, and what ancestors and heights are.
5. `ChainSync`, `ChainSyncProofs`: connecting, crashing, recovering, reorganising.
6. `MeshSync`, `MeshSyncProofs`: window, stage, stage-side reorganisation, pulls and
   announcements, with the two threads as separate processes.
7. `Mempool`, `TxRelay`, `TxRelayProofs`: the pool, its relay between nodes, and the
   theorems about both.
8. `Connections`, `Outreach`, `ConnectionsProofs`: seats, handles, bans; the ladder and
   the crawl beside them.
9. `Attribution`, `Payloads`, `RateOracle`, `ProofOfWork`, `History`, and `Algorithms`,
   which compares them with what they are for; `AlgorithmsProofs` for inputs of any size.

Every invariant and every action property that a passing run checks has a theorem; the
seven liveness properties do not. Left, in this order:

1. Crashes in MeshSync: the serve database is no part of recovery.
2. Failing writes, and blocks that fail to parse half-way, in ChainSync.
4. The connection snapshot with the reorderings that its lack of barriers allows.
5. `txcheck.c`, whose verdict is a constant of TxRelay now.

## 3. Modules and how they correspond to the code

### NameFold (`C/fold.c`, `state.c`, `preblock.c`, `lease.c`, `claim.c`, `bitmap.c`, `market.c`, `trade.c`)

| Variable | Code |
|---|---|
| `names` | the rows of `SmState.names`, by name; `NoRow` when there is none |
| `commits` | `SmState.commits` |
| `muts` | the rows of `SmState.muts`, 0 without a row |
| `scratch` | the claim winners of the running block, reset by `sm_begin_block` |
| `height`, `mtp`, `rate` | `cur_height`, `cur_mtp`, `cur_rate` |
| `txs`, `cx` | the next transaction index; `SmTxCtx` with the consumed marks of the outputs |

`BeginBlock` is `sm_begin_block`, the whole of `sm_preblock` included. `BeginTx` and
`EndTx` are the frame of `sm_apply_tx`; each opcode is an action that does what its
handler does when it changes something. A carrier that a handler drops changes
nothing but the place in the transaction, so it is a stuttering step. Helpers keep
the code's split: `Waterfill` is `sm_waterfill`, `Consume` is `sm_consume_output`,
`Bump` is `sm_bump_mutation`, `AnchorOK` is `anchor_ok`.

Abstractions. Names are their ranks in `strcmp` order, as nothing else of a name
matters once it is valid; names that `sm_name_valid` refuses never reach a handler.
Identities have one type: an output of another type is an output that does not
match. The salted commitment is the pair of name and author it binds, and commits
form a set: two equal commits of one transaction cannot be told apart. Inputs come
with what `attrib.c` finds, who signed and whether with exactly `SIGHASH_ALL`.
`flags_len = 0` with an anchor selects nothing for TRANSFER and RELEASE; for RENEW it
equals a bitmap with every bit set, and that is how it is modelled. Event counters
are left out. The median time does not go back, which `block_validate` enforces by
asking for a time past the median.

### Registry and NameRegistry (what the fold promises)

Registry is the abstract specification: who holds a name, to whom it is promised, which
pledges are old enough to claim it, what won it in this block, who signs. Its actions
are `Block` (lapses and deadlines), `Open` and `Close` of a transaction, `Mint`, `Move`,
`Swap`, `Offer`, `Promise`, `Buy`; it knows no lease, price, opcode or row. NameRegistry
extends NameFold with the refinement mapping. The property `Implements` is the whole of
`Registry!Spec`; `ImplementsSteps` is its steps alone, for the run that starts in the
middle of a history.

### WaterFill (`C/lease.c`)

NameFold takes the result of `sm_waterfill` in one step: the highest level that the
days bought fill evenly, plus a day each for the first names with room. WaterFill
extends NameFold and is the loop itself, with `add`, `pool`, `share` and the sweep of
every inner loop (`todo`), and property `OneFill` says that it implements that step:
a run checks it on three names, and a theorem states it for all.

### BlockTree

The blocks that peers may serve, each with the hash of its parent: `Ancestors` is the walk
along `hashPrevBlock` down to the checkpoint, `HeightOf` counts it, `At` is the block of a
chain at a height. ChainSync and MeshSync extend it. Its assumption is that no chain of
parents closes, as a block holds the hash of its parent.

### ChainSync (`S/sync.c`, `S/db.c`, `S/oracle_feed.c`)

| Variable | Code |
|---|---|
| `blocks`, `raws` | tables `blocks` and `raw_blocks` |
| `cursor` | meta `sync_height`, `sync_tip` |
| `proj` | meta `proj_height` and the projection tables |
| `state`, `feed` | `SmState` and `OracleFeed` of the running process |
| `height`, `tip` | the locals of `cmd_sync` |
| `pc`, `block`, `fork` | where the pass is, the block in hand, the height rolled back to |
| `peer` | the chain that the dialled peer, or the stage, offers |

`Boot` is the head of `cmd_sync`: load, warm the feed, recover. `FoldBlock`,
`PutBlock`, `PutRaw`, `SaveCursor` are `connect_block` cut at its commits; `Project`
and `EndPass` the projections; `StartReorg` the fork rule with `block_validate` and
`branch_outweighs`; `PruneBlocks`, `PruneRaws`, `ReplayRaws` are `idx_sync_rollback`
cut at its commits; `ResetCursor` what follows it. `Refold` is the command of that
name and `Crash` ends the process at the points of `CrashAt`. `TurnTo` stands for
phase 0 of a pass, which folds or weighs blocks of other sources from the stage
without projecting between them.

Abstractions. The fold is reduced to one name, which a carrier block claims or
renews and which lapses: what matters is which blocks a state has seen, at which
height and median time. Blocks have equal work, so weight is height; heights count
from the checkpoint. Forks at the checkpoint itself are never followed, since it has
no row. The wallet tables, the epochs and the one-time wallet re-walk are in History;
the serve cache is in MeshSync.

### MeshSync (`S/serve_store.c`, `S/sync.c`)

| Variable | Code |
|---|---|
| `headers`, `window`, `stage` | tables `headers`, `blockwin`, `blockstage` of the serve database |
| `old` | rows of the stage whose `at` is over an hour ago |
| `spoilt` | rows of the stage whose header weighs and whose body `block_validate` refuses |
| `tip` | `height`, `tip` of `cmd_sync` |
| `pc`, `row`, `fork`, `branch` | where phase 0 of a pass is; `sh`/`sraw`, `fork_h`, `bhs`/`raws` |
| `bad` | those of `raws` that were read with a spoilt body |
| `peer`, `floor`, `announced` | the chain in the peer's serve database, the floor of its window, its `announced_tip` |
| `inv`, `net` | messages under way to the node |
| `given` | `gd_blocks` of the node's connection at the peer |

Two processes meet in the serve database. The serve thread is `Pull` (the locator
walk of `idx_serve` and the peer's answer to `getblocks`), `OnInv` (`inv`, the
`getdata` it sends and the peer's answer) and `Receive` (`block`); a question and its
answer are one step, since the peer reads its own store only. The sync thread is phase
0 of `cmd_sync`: `FoldRow`, then `serve_store_put` statement by statement, `SaveCursor`,
`Unstaged`; `Probe`, `WalkRow` (the branch is read row by row while the serve thread
goes on), the verdict (`JudgeHeavier`, `JudgeLighter`, `JudgeNothing`), `Rollback`,
`PruneServed`, `BranchNext`, `Dropped`. The peer runs the same code; it moves to a higher
chain in one step, or falls back when it refuses a branch it rolled back to, and announces
what lies above its mark.

Two checks stand between a staged block and the chain, and they are kept apart.
`branch_weigh` (`Outweighs`) reads headers: linkage, work, Digishield. `block_validate`
(`Take`) reads the whole block: the merkle root of its transactions and the median time as
well. A block of `Invalid` passes neither. A row of `spoilt` passes the first and not the
second; as the stage is keyed by the hash of the header and keeps the row it has
(`StagePut`), such a row stands in for the real block until it is refused. So a branch may
win, cost the node its own blocks above the fork, and then be refused in `Dropped`, with the
node lower than it was (`sync.c:1121-1131`).

Abstractions. There is one peer and every peer is held by the serve plane, so the pass
never opens a socket (`sync.c:1197-1208`). Work is equal per block. A header with a time
that is too old is a block that comes with a spoilt body only. The age of a row is over an
hour or not (`Hour`), and rows of one second keep the order in which they came. The budget
of a `getdata` is 16 blocks in ten seconds, as many as are asked for of an inv, while pulls
may be five seconds apart: `OnInv` cuts the answer at what is left of it and `NewBudget`
ends the ten seconds at any time. The budget of bytes beside it, which bites only when
blocks have a megabyte on average, is left out.
Probing all heights is one step. What the fold does with a block, and crashes, are in
ChainSync.

### Mempool and TxRelay (`S/mempool.c`, the transaction messages of `S/sync.c`)

| Variable | Code |
|---|---|
| `pool[n]` | entries with their age, the prevout index (`owner`), `g_count`, `g_bytes`, the ring `g_seen` |
| `net` | messages on each connection and direction, in order: `inv`, `getdata`, `tx` |
| `hook` | the transaction whose `mempool_on_confirmed_tx` has passed the emptiness test and waits for the lock |
| `confirmed`, `sent` | what a node's fold has seen, what wallets sent |

Mempool has the operations on one pool; `Accepted` is `mempool_accept` whole, with its
early returns, eviction and `note_seen`. TxRelay is three nodes. `Confirm` and
`RemoveConfirmed` are the hook cut where it reads the count without the lock (191), so
an admission may fall between. Not modelled: `malloc` failing, and the standardness test,
which is a set of transactions that are refused. A getdata beyond its budget is the
mishap `Refuse`, where MeshSync counts.

Remarks. A confirmation does not note the transaction as seen, so one that arrives after
its block is admitted and stays until the sweep; `PoolsEmpty` says that it does leave.
Nothing is announced again after a reconnection: hence `SpreadAtRest` asks for no
mishap. The ring (4096) is smaller than the pool (5000); with more transactions in
circulation than the ring holds, neighbours may ask for what they had again. The bounds
keep within the ring, as `Quiesces` and `SpreadAtRest` need.

### Connections and Outreach (`S/sync.c`, `S/net_policy.c`, the peer table of `S/db.c`)

Connections is the table of the serve thread.

| Variable | Code |
|---|---|
| `conns` | `SConn[]`: kind of slot, target, address, socket, handshake done, mark, mesh handle, feeler, redial clock, score |
| `book` | a row of `peers`: known, `dnet`, `agent`, `last_good`, services |
| `attempt` | `last_try` against `last_good`, while the backoff runs |
| `banned` | the ban list, the oldest first |
| `listening`, `world` | the machines outside |

Actions: `Accept`, `Version`, `Verack`, `DnAddr`, `Addr`, `Misbehave`, `Leave`, `Vanish`,
`Cut` (the liveness sweep), `MeshSeat` and `ChainSeat` (the top-ups), `Dial` with one
disjunct per way out of the dial loop (`sync.c:2408-2536`), and `Due`, `Rested`, `Pardon`
for clocks that run out. Outreach extends it with the sync thread, which dials as well:
the candidate ladder of `cmd_sync` (`LadderSkip`, `LadderDial`, `LadderEnd`) and the
crawl (`Kick`, `Connected`, `ReadShake`, `ReadAddr`, `Expire`), over the snapshot that
`Snap` takes. A machine is its address: ports are left out, and a row of `peers` is a
machine. Our own address is known from the start, as after the first handshake.
Pruning of `peers` and the mesh payloads are left out.

What the models made plain, beside section 7:

* The second test for a live host in the dial loop (2495-2505) is never true: nothing
  changes the table between it and the first.
* That a machine is never dialled twice does not hold between threads: the snapshot is
  up to a second old, and the ladder and the crawl do not ask the ban list.
* The crawl closes a probe at the first `addr` it reads in state 3; a peer that announces
  itself there ends the probe before its answer to `getaddr`.
* The crawl stamps a peer as tried even if the serve thread holds it.
* After the connection with the mesh handle drops, another connection of the same
  machine does not get one; a ban drops the connection that earned it only.
* A configured name whose seat is parked is not resolved again until it is unparked.

### Attribution, Payloads, RateOracle, ProofOfWork, History

Modules of operators, without variables, each a translation of pure code:

| Module | Code | What is left out |
|---|---|---|
| Attribution | `S/attrib.c` (which identity an input proves), `S/adapter.c` (which inputs are asked) | DER, curve and hash arithmetic: a signature says whose it is and whether it covers the input |
| Payloads | `C/decode.c`, the OP_RETURN push of `S/chain.c` | the bytes of a field: a width and a class of character |
| RateOracle | `C/oracle.c`, `S/oracle_feed.c` | nothing of the medians; widths |
| ProofOfWork | compact targets, work, retarget, merged mining of `S/pow.c`; merkle root of `S/chain.c` | scrypt, 256-bit words (radix 4, five digits here), the byte cursor; a hash is the pair hashed |
| History | `epochs`, `utxos`, `raw_blocks` of `S/db.c`, and their writers in `S/sync.c` | the fold is one name's claim, gift and lapse |

Algorithms extends WaterFill by a variable `sample`, which takes every input of small
sets in turn; each property compares a function with a definition that does not repeat
it. For History a sample is a chain of three blocks, then a rollback to some height, a
crash with the blocks folded again, a refold or a wallet re-walk, then more blocks.
`HistoryOfChain` says that `owner_at` and the unspent coins are then those of the chain
that is left. One thing it grants: a refold knows of a lapse from the next block of the
substrate on. The chains sampled are those of a real node: nobody is the owner that ends
an epoch (`BlocksAssumption`), and coins are spent once, after they are funded (`Payable`).
Databases that were upgraded in the middle of their history
(`epochs_from > 0`) are not sampled; nor are blocks folded after a crash on another
branch, see section 7.

## 4. Runs

| Run | Asks | Bounds |
|---|---|---|
| `fold_registry` | leases, stamps, and that the fold is a Registry, over COMMIT, CLAIM, RENEW, TRANSFER, RELEASE by bitmap and by name | two names and two owners (symmetric), three blocks, two transactions each, one carrier per transaction, median time to 3; 1.7 million states |
| `fold_market` | nesting, solvency, payments, registry steps, over both kinds of sale, TRADE and AS | two names, two owners, from a state where one owner has just claimed both; three more blocks, one transaction of two carriers each, time to 6; 1.9 million states |
| `algorithms` | that the pure parts and the loop of the water-fill compute what they are for | up to four pushes a script, three inputs and outputs, payload bodies of five characters, histories of four calls, every compact target of five digits, merkle lists of up to eight, coinbases of three chunks, chains of three blocks; every set of three names with five leases, nine burns, three rates; 290,000 states |
| `sync_crash` | that recovery lands on one chain | a tree of eleven blocks with four chains; crashes between any two writes, any number of times; no rollback; 23,000 states |
| `sync_reorg` | that reorganisation and refold keep to one chain, lose no action and catch up | the same tree; a crash after the projection of a rollback; refold of a settled database; 2,400 states |
| `mesh_follow` | that a node follows its peer over the standing connection, and that what it offers can be served | a tree of six blocks, a branch of two, one block without its work; a window of two blocks, a stage of three, two blocks an inv and a budget of two, one block an announcement; one mishap (a block pushed whole or spoilt, a lost connection, an hour, a peer that falls back); 228,000 states |
| `relay` | that pools stay consistent, relaying ends, and confirmed transactions leave | three nodes in a circle, two with three transactions, three in a row; room for two entries or two units of size; a ring of four, ages 0 and 1, one mishap; 126,000 states |
| `seats` | handles, shares, /16s, bans, configured peers, the ends of passes | four worlds of MCOutreach; three slots, two sockets a machine, two seats a pool, one inbound handle, a ban at the second misbehaviour, one ban; two mishaps, or one pass of two probes and two dials; 144,000 states |
| `mesh_deep`, `replay_lapse`, `fresh_crash`, `input_cap` | section 7 | as the passing runs of their modules, with the one behaviour that matters allowed |

Why the bounds are enough. Two names are needed for ranks to shift under a bitmap,
two owners for every operation between parties, and two claims of a block with
commits of different blocks need three blocks. A sale has up to three deadlines; with
windows of 1 to 3 and times to 6 each of them may pass alone, together with the next,
or by more than one at once, and the state before is one the fold reaches in block 2
(`InitHeld`), which spares TLC the way there. The constants keep the relations of the
real ones: the tail of an offer includes the reorganisation margin, a reserve window
may be cut by its offer, legs hit the dust floor.

In the tree of ChainSync, chain `a` is first, `b` leaves it after two blocks and is the
heaviest, `c` leaves it after three and holds a block that is too old, `d` leaves it
after one and its first block is too old; the block with the action `a1` is shared,
`a3`, `d3` and `b4` are each on a branch of their own, and the lease bought in `a1` is
over in a block without an action. A window of three timestamps makes the median
depend on rows on both sides of a fork. In the mesh tree the node may stand on `a3`
when its peer turns to `b4`: then it needs both blocks of the branch in the stage at
once, which one inv can just ask for and one budget can just pay, so that an announcement
answered before cuts it, and a stray block can push one of them out; an announcement of one
block leaves the jump to `b4` to the pull. Any row may be pushed with a spoilt body, the
node's own tip included: with `b3` and `b4` staged on top it is a branch from `a1` that
outweighs the node's chain, and leaves it at `a1`. The stage has room for what then lies
above the node, as its 32 rows do for what the standing connection is for: a gap deeper than
the stage is the socket ladder's (`sync.c:1033-1034`), and with less room the rows that
connect can be pushed out by those above them for ever. In the same way the peer's window
reaches down to where the node may fall to.

In `relay` a circle is where an echo would go round, a line with three transactions where
conflicts, eviction by count and by bytes, and a confirmed rival meet, and a row of three
where the middle has to pass things on and a block takes what it never saw. In `seats` the
configured name is an address that the book, an accepted connection and a vouching peer
name as well; two addresses share a /16 and only one carries the mark; the configured
name may be ourselves; and a pass meets a peer without old blocks before one with them.

`CHECK_DEADLOCK FALSE` in the fold, algorithm, mesh, relay and seats runs: behaviours
stop at the bounds on blocks, time, samples and mishaps. The sync runs check deadlock.

Every property has a mutant in `PROJECT.json`, the definition of the code it is about
with a plausible bug (the operators marked *Variant* in the modules), and TLC finds
it violated with that bug.

## 5. Fairness

`FairSpec` of ChainSync assumes that a pass which has work to do without its peer
goes on (`WF` of its writes), that the host runs one pass after another (`WF` of
`Boot`; `sync` is run from a loop or a timer), and that peers are not *always* lost
before the block asked of them arrives (`SF` of `FoldSome` and `ReorgSome`, since the
end of a pass disables them again and again). `CatchesUp` adds, as hypotheses, that
from some time on passes talk to peers on a heaviest chain and do not crash: without
them no node can catch up. `Spec` of MeshSync assumes that passes are run and go on,
that pulls are repeated (`idx_serve` sends one every 5 or 60 seconds), that messages
arrive, and that the ten seconds of a budget end; a connection is lost only boundedly
often, and nothing is assumed of announcements. `Spec` of TxRelay has `WF` of `Serve` (a poll loop reads what is there),
of `Swept` (the hourly sweep) and of `RemoveConfirmed` (a fold goes on).
`FairReachSpec` has `WF` per slot of `Tend` (each tick visits each seat and each silent
connection), of the steps of a ladder and of a crawl, and of each probe's deadline;
nothing is assumed of machines outside, and `ConfiguredHeld` asks as a hypothesis that
the machine listens and is not banned. The water-fill has `WF` of its step: a function
runs on.

## 6. Proofs

**`NameFoldProofs`** proves, for any sets of names and owners, any constants within the
named assumptions of NameFold, any inputs and no bound on carriers:

* `Inductive`: `IInv` holds in every reachable state. `IInv` says that every row is
  sound by itself (`RowsOK`: typed, owned, its lease running and capped, its sale
  deadlines nested), that the commits, stamps and claim winners are (`FoldOK`), and that
  the clock and the open transaction are typed.
* `TypeCorrect`, `LeaseBounded`, `SalesNest`, `StampsCurrent`: the invariants, each a
  consequence of `IInv`.
* `EveryMutationStamped`: no step changes an owned set without stamping its owner.

Why `IInv`. None of the invariants is inductive by itself. That a lapse stamps the right
party needs `owner = seller` on locked rows, hence the nesting; that a conveyed name
keeps a running lease needs the nesting too; and that a displaced claim, which stamps
only the new owner (`claim.c:88`), leaves the old one stamped needs `StampInv`: the
winner of a claim was stamped in this very block. The water-fill enters through two
lemmas only, an award is a natural number and is at most the headroom, so the proof
does not depend on how days are spread. Rows are dealt with by one lemma per change of
a row (turned by the pre-block, extended, given, put on sale, reserved, conveyed), and
actions by combining them.

About the market it proves `SalesSolvent` and `SalesArePaid`. The legs of a deposit are
products cut at the dust floor; the invariant `PricesOK` adds to `SolvencyInv` what a row
keeps of its price while it is listed, offered and reserved, and one lemma says that a
price at its floor covers both legs and the rest, for any split of at most 100%.

**`RefinementProofs`**, first half, proves `FillIsWaterfill`: `FillSpec => OneFill`, for any set of names,
burn, rate and leases. It is what lets the theorems about NameFold speak of the code, which
has the loop and no `Level`. A day awarded to a name is a cell (`Cells`), so that a sum of
awards is a cardinality: a share given adds as many cells (`FilledStep`), a day to each name
of a set adds one each (`FilledRow`), and `TotalHead` counts the cells under the headroom
(`TotalHeadIs`, by induction on the set, as a sum over it is a recursive function). The
invariant `FillInv` says that between rounds all names stand at one level or at their top
(`Even`), that in a round those visited stand a share higher and the pool still holds the
shares of the others (`Giving`), that days and cells always add up to what the burn bought
(`Flow`), and that the days left over went to the first names above the level of Waterfill
(`Leaving`, `LevelIs`, `AwardRest`). `Days(burn) < TotalHead`, which the first test of the
function establishes, is what keeps a round from starting with no name left to fill.

**`RefinementProofs`**, second half, proves `Refinement`: `Spec => Implements`, for any constants within
the same assumptions. Beside `IInv` it needs `RInv`: the acting identity always signed the
open transaction, and nobody has signed between transactions; a promised row names an
identity. Every action has a lemma that names the step of the Registry it is; where the
fold only changes leases, prices or consumed outputs, `Quiet` says that the registry sees
a stutter. The longest case is the claim: that the earliest of the author's commits is the
pledge that wins, and that a row that left the winner's hands is not taken back. The
mapping has no history or prophecy variable.

`StepsImplemented` is the same of the steps alone.

**`TxRelayProofs`** proves, for any nodes, links, transactions, sizes and limits:
`Inductive` (its `IInv` says of every pool that its fields are typed and its indexes agree,
`PoolOK`, and that messages are about transactions), `IndexesAgree`, `ConflictFree`, which
follows as an output has one owner in the index, and `ConfirmationClears`, from
`OnConfirmedClears`. Each operation of Mempool has a lemma saying that it keeps `PoolOK`.
`LimitsHold` is about a sum over the entries of a pool: `g_bytes` is that sum through
every admission, eviction, confirmation and sweep. `SpreadHolds` needs `SInv`: the ring of
a node holds every transaction that it has seen, an entry of a pool was noted, and
whoever is not told yet has an announcement, a question or an answer under way. Its
hypothesis is that the ring has a place for every transaction in circulation (4096 in the
code); section 3 says what happens otherwise.

**`ConnectionsProofs`** proves `OneGossip`, `Shares`, `OnePerGroup` and `BanHolds` of the
serve thread alone (`TableKept`, `BansHold`) and with the sync thread dialing beside it
(`GossipOnce`, `SharesHold`, `GroupsHold`, `ReachBansHold`), and `LastResort` of the passes.
The shares are cardinalities of sets of slots, so each action has to say by how much it
changes them; `IInv` adds what a slot is apart from the others (`ConnOK`) and states
"at most one" as equality of slots.

**`BlockTreeProofs`**: the equation of `Ancestors`, a function that the module defines
recursively over a tree that need not be a sequence, with induction along parents; that a
chain has exactly one block at every height (`OneAtHeight`), is its parent's with the block
on top (`AtStep`), and contains the chains of its ancestors (`AtBelow`).

**`ChainSyncProofs`** proves, for any tree of blocks and any spans of the medians:

| Theorem | Property | Hypotheses |
|---|---|---|
| `ChainHolds` | `ChainKept` | no refold behind the cursor; with reorganisations, no crash between the pruning of a rollback and its projection |
| `PassesSettle` | `Settled` | the same, and no crash between two blocks, which is what it says passes avoid |
| `SubstrateHolds` | `SubstrateOfChain` | no refold behind the cursor; crashes after the projection of a rollback only |
| `ActionsSeen` | `NoActionLost` | no refold behind the cursor; with a fresh database, reorganisations or refolds, crashes after the projection only |
| `FoldsWholeChain` | `StateOfChain` | nothing is rebuilt from the substrate; with a fresh database, crashes after the projection only |

Each hypothesis is there because the property fails without it: the table and the findings
of section 7 show how. Without reorganisations and refolds, and on a database that has been
projected, all crash points are allowed. `CInv` says at every program point what the rows,
the feed, the cursor, the projection and the running state hold: the rows are those of the
chain of one block, the feed is that of the rows below, the pass stands on an ancestor.
`RawsOK` and `StateOK` add the substrate, and the state as the fold of the blocks below
(`SeenAs`, `FoldAt`); the fold over a chain and the replay of the substrate are recursive
functions over heights, whose equations are proved first.

**`MeshSyncProofs`** proves `ServedHolds`: `Spec => []ServedRun`, without a hypothesis. The
headers are the rows of one block's chain, and the window holds that chain from some floor
up (`StoreIs`). Nothing is assumed of how a branch that won the weighing ends: it may be
refused at its first block, again and again, so that each rollback goes deeper and the fork
comes to lie under the floor. The prune then leaves no raw block at all, which `StoreIs`
expresses by a floor above the chain; the node answers no `getblocks` (`sync.c:1889-1890`),
and the next block that it connects is the new floor (`WindowPut`). What the invariant needs
of the pass is where its branch hangs: on the fork while it is read, on the tip while it is
connected, and nowhere once a block of it is refused (`BranchOK`). The theorem says nothing
of the stage, which the serve thread may change between any two steps of the pass.

**`AlgorithmsProofs`** proves `AlgSpec => []P` for each invariant `P` of Algorithms: what
the pure functions compute, for inputs of any size. Its assumptions on constants are the
named ones of Algorithms, and they only say what an input is: scripts, bodies, coinbases and
chains are lists; an empty identity belongs to nobody; the anchor of a payload has bytes; a
target has an even base and at least three digits, and the clamps of the solve time lie around
the spacing.

| Theorem | Property | Argument |
|---|---|---|
| `AttributedIfHeld` | `Attributed` | the pass gives each signature the first key left that made it: if some increasing choice of keys meets the signatures, the earliest one does; the deletion steps over operations, and drops the pushes alone. Hypothesis `TxIns <= MaxIn`; a larger transaction is the finding of `input_cap` |
| `LazyIsEnough` | `LazyEnough` | the fold asks of the first input and of those a carrier names, which are the ones attributed |
| `FormIsOne` | `OneForm` | forms of one opcode differ in length or in a first byte, and each is put together from what was read of it |
| `TargetIsKept` | `TargetsKept` | compacting is rounding down to a multiple of a power of the base, so it is monotone and keeps what is compact; the bitwise division is given in closed form, bit after bit |
| `RateIsOfChain` | `RateOfChain` | records and rollbacks leave the rows of the chain (`FeedHolds`); sorting is a renumbering, so that a middle has half of the rows on either side |
| `RootIsOfOneList` | `RootBinds` | level by level: without twins, one level is read back from the next |
| `ParentProvesOne` | `OneProof` | a script commits to one root, one depth and one slot, and two branches of one length that end in one hash at one index start from one leaf |
| `HistoryIsOfChain` | `HistoryOfChain` | below |

The longest of them is `HistoryIsOfChain`. While tables are built again the state is behind
them, and rows are written a second time. The invariant `On` says of a node `H` blocks on its
way that its rows of names tell (`Tells`) of the chain up to a height `X`, its coins
(`PaysOf`) up to a height `Y`, neither below `H`, that its state is the fold of the chain up
to `H`, and that the substrate it is built from holds every block of the chain with a carrier
or a watched coin (`RawsOf`). Folding a block below `X` changes no answer, one above adds a
height, and cutting at a fork lowers `X` and `Y` to it. A refold begins with `X = 0` and does
not see the blocks that are not in the substrate, so it tells of a lapse at the next block
that is (`KnownAt`). The walk of the wallet goes back to the oldest coin that seems unspent,
and below it no spend was lost.

Induction is not taken from the library, whose rules have an operator as a parameter: it is
over the set of the numbers for which a claim holds (`NatInduct`, `NatInductTo`), and a function
that a module defines recursively is first shown to exist and to meet its equation. That is how
a climb, a level of a merkle tree, a division, a deletion and a fold of blocks are dealt with.
`SortSeq` is not used (a sort is a renumbering of the places), and `LazyIsEnough` holds whatever
`SelectSeq` makes of the outputs, of which the provers know nothing.

Model-checked only: liveness under fairness (`CatchesUp`, `Follows`, `Ends`, `Quiesces`,
`PoolsEmpty`, `ConfiguredHeld`, `PassesEnd`), as ENABLED is out of the prover's reach. Nothing
is proved of the stage of MeshSync, and what the hypotheses of the theorems about ChainSync
exclude is in the table of section 7. `sample` is one input at a time: the proofs say nothing
of two calls that meet, as these functions keep no state.

## 7. Where code and documentation disagree

Four runs find a behaviour that a comment of the repository says cannot be.

* `replay_lapse`: a rollback replays blocks with carriers only, "because the skipped
  blocks touch no state" (`sync.c:200-201`); yet a lease may lapse in a skipped block.
  The name then lapses later in the rebuilt state and its owner gets another stamp.
* `fresh_crash`: recovery is said never to resume "from a height ahead of the state"
  (`sync.c:972-973`); a new database has no projection to compare with, and a crash
  before its first projection does exactly that.
* `mesh_deep`: "tip follow, catch-up and reorgs all ride the stage"
  (`sync.c:1197-1200`), pulled in "stage-cap-sized batches" (`sync.c:2312`). An inv is
  answered for 16 blocks while the stage keeps 32, and a staged branch that is not
  heavier *yet* is deleted. A fork more than 16 blocks deep is pulled, judged on its
  first part, deleted and pulled again, for ever if every pull is followed by a pass.
* `input_cap`: "the indexer MUST be" capless (`chain.h:16-19`), yet `attrib.c` holds
  256 inputs and 512 outputs and attributes nothing in a larger transaction.

More of the same family shows when a bound of a passing run is lifted. To see a
predicate fail, put it in the named configuration with the given change.

| Behaviour | Predicate | Configuration |
|---|---|---|
| Recovery leaves rows above the height it resumes from; on another branch a raw block of the old one survives where the new one has no action | `SubstrateOfChain` | `sync_crash.cfg`, `CrashAt = {"idle"}` |
| `refold` then replays such a raw block as history of the chain | `NoActionLost` | `sync_reorg.cfg`, `CrashAt = {"idle"}` |
| A rollback deletes rows before it lowers the projection; after a crash between, the next pass misses rows, or stands on the checkpoint's hash at another height | `ChainKept`, `HeightsReal` | `sync_reorg.cfg`, `CrashAt = {"replay"}` |
| `refold` after a crash that followed the projection of a rollback rebuilds from the rows left and stamps the cursor's height, which hides the gap | `NoActionLost`, `ChainKept` | `sync_reorg.cfg`, `Refolds = {"settled", "behind"}` |
| A branch is weighed without its median times and its bodies, though only branches "whose blocks will also validate" are accepted (`sync.c:822-823`); MeshSync has the bodies, and `Follows` and `ServedRun` hold in spite of them | `BranchValidates` | `sync_reorg.cfg` |
| Two configured names of one machine: each seat finds the other pointing there and parks, for ever (`sync.c:2411-2418`) | `ConfiguredHeld` | `seats.cfg`, `Worlds <- Twins`, `Slots = 2` |
| A marked row without a good handshake is never in backoff (`db.c:279`), so its seat is taken again after each failed dial | `BacksOff` | `seats.cfg`, `Worlds <- Pools` |
| Rows of `epochs` and `utxos` above a resumed height stay, and answer for the old branch if the pass after the crash follows another | `HistoryOfChain` | a sample `"resume"` whose later blocks differ from the first ones |

`cmd_index` (`sync.c:273-275`), which folds block files, has no recovery at all: it
resumes after the cursor, whatever the projection holds.

## 8. Not modelled

* Hashing, scrypt, curve arithmetic, DER and the byte cursor: outside what a model
  checker can say, and stateless. The models take their results as inputs; the
  self-tests of `pow.c` and the conformance harness, generator and second attribution of
  the engine (`C/main.c gen.c harness.c attrib.c`) are test tooling around them.
* Failing writes, and blocks that fail to parse half-way: planned.
* The serve database after a crash: recovery lowers the cursor of the fold and leaves
  `headers` as it is, so blocks above count as known and are not pulled. MeshSync has
  no crash; the hazard is listed.
* Torn reads of the connection snapshot: a copy is one step in Outreach. What is
  modelled is that it is old. No property says that a pass never opens a second socket
  to a machine it holds, since with an old copy it does.
* `getheaders` and the payloads of the mesh commands, which belong to the host of the
  indexer; pruning of `peers`; ports.
* The registration of watched addresses and the listings of the wallet, the command
  line, the state digests, and the ports to other languages, which repeat the engine of
  `C/`.
