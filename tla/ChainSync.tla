----------------------------- MODULE ChainSync -----------------------------
(***************************************************************************)
(* How the indexer keeps its fold on disk: the blocks and raw_blocks       *)
(* tables, the sync cursor and the projection of the fold state that a     *)
(* pass of `sync` writes as it connects blocks, the rollback and replay of *)
(* a reorganisation, and the recovery of a pass that follows a crash.      *)
(*                                                                         *)
(* Every statement outside a transaction commits by itself, so a crash may *)
(* come between any two of them.  The fold is reduced to one name: what    *)
(* matters here is which blocks it has seen, at which height and time.     *)
(***************************************************************************)
EXTENDS BlockTree

CONSTANTS
  Time,         \* the timestamp of every block and of the checkpoint
  Carriers,     \* the blocks that hold an action: claim the name, or renew it
  Missing,      \* no row
  Lease,        \* what a claim or a renewal buys
  MtpWindow     \* timestamps of the median, 11

CONSTANTS
  Fresh,        \* the database is new: nothing has been projected
  Reorgs,       \* reorganisations happen
  Refolds,      \* when `refold` is run: on a "settled" database, or on one whose
                \* projection a crash left "behind" the cursor
  CrashAt       \* the program points where a crash happens

ASSUME RowsAssumption == Missing \notin Blocks

Table == [Heights -> Blocks \cup {Missing}]

Empty == [h \in Heights |-> Missing]

\* Variant: the row at the height that is kept goes too.
CutFrom(table, h) == [k \in Heights |-> IF k >= h THEN Missing ELSE table[k]]

\* A table without the rows above height h.
Cut(table, h) == [k \in Heights |-> IF k > h THEN Missing ELSE table[k]]

VARIABLES
  blocks,   \* table blocks: the block recorded at each height
  raws,     \* table raw_blocks: the replay substrate
  cursor,   \* meta sync_height and sync_tip
  proj,     \* the projection: proj_height, -1 if none, and the state
  state,    \* SmState, in memory
  feed,     \* the oracle feed, in memory
  height,   \* the pass's height
  tip,      \* and its tip
  pc,       \* where the pass is; "down" between two processes
  block,    \* the block being connected
  fork,     \* the height being rolled back to
  peer      \* the tip of the chain that the source of blocks serves

disk == <<blocks, raws, cursor, proj>>
memory == <<state, feed, height, tip>>
control == <<pc, block, fork, peer>>
vars == <<blocks, raws, cursor, proj, state, feed, height, tip, pc, block, fork, peer>>

-----------------------------------------------------------------------------
(* The fold of one name *)

\* lease: when it ends, 0 in the pool; stamp: the last mutation height.
EmptyState == [lease |-> 0, stamp |-> 0, at |-> 0]

\* sm_begin_block: a lease that is over lapses in this block.
Begun(s, h, t) ==
  IF s.lease # 0 /\ t >= s.lease THEN [lease |-> 0, stamp |-> h, at |-> h]
                                 ELSE [s EXCEPT !.at = h]

\* A block after its begin: a claim mints the name, a renewal keeps it.
Folded(s, b, h, t) ==
  LET begun == Begun(s, h, t)
  IN  IF b \notin Carriers THEN begun
      ELSE IF begun.lease = 0 THEN [begun EXCEPT !.lease = t + Lease, !.stamp = h]
                              ELSE [begun EXCEPT !.lease = t + Lease]

\* The heights of the newest rows below h that the median is taken over.
Window(table, h) ==
  LET rows == {k \in DOMAIN table : k < h /\ table[k] # Missing}
  IN  {k \in rows : Cardinality({j \in rows : k < j}) < MtpWindow}

\* The upper median of the timestamps of a table below height h; 0 if none.
Median(table, h) ==
  LET W == Window(table, h)
      n == Cardinality(W)
      Below(v) == {k \in W : Time[table[k]] < v}
      UpTo(v) == {k \in W : Time[table[k]] <= v}
      Middle(v) == Cardinality(Below(v)) <= n \div 2 /\ n \div 2 < Cardinality(UpTo(v))
  IN  IF W = {} THEN 0 ELSE CHOOSE v \in {Time[table[k]] : k \in W} : Middle(v)

\* The state after connecting b at height h over the oracle rows f.
Connected(s, f, b, h) == Folded(s, b, h, Median(f, h))

\* The states of a fold of the rows of a table, by height.
Replay(table, f) ==
  LET run[h \in Heights \cup {0}] ==
        IF h = 0 THEN EmptyState
        ELSE IF table[h] = Missing THEN run[h - 1]
        ELSE Connected(run[h - 1], f, table[h], h)
  IN  run

-----------------------------------------------------------------------------
(* A pass of sync *)

Init ==
  /\ blocks = Empty /\ raws = Empty
  /\ cursor = [height |-> 0, tip |-> Start]
  /\ proj = [height |-> IF Fresh THEN -1 ELSE 0, state |-> EmptyState]
  /\ state = EmptyState /\ feed = Empty
  /\ height = 0 /\ tip = Start
  /\ pc = "down" /\ block = Start /\ fork = 0
  /\ peer \in Blocks

\* Variant: the tip stays where the cursor had it.
TipAtCursor(h) == cursor.tip

\* The tip at height h: the recorded block, or the checkpoint if there is none.
TipAt(h) == IF h > 0 /\ blocks[h] # Missing THEN blocks[h] ELSE Start

\* Variant: a projection behind the cursor is not looked for.
ResumeAtCursor == cursor.height

\* Recovery: never ahead of the projection the state is loaded from.
ResumeHeight ==
  IF proj.height >= 0 /\ proj.height < cursor.height THEN proj.height ELSE cursor.height

\* idx_db_load_state and idx_db_oracle_warm: what a process reads from the tables.
\* The feed takes every row, those above the projection included.
Loaded == proj.state
Warmed == blocks

\* A pass starts: it loads the projection, recovers, and dials a peer.
Boot ==
  /\ pc = "down"
  /\ feed' = Warmed
  /\ height' = ResumeHeight
  /\ IF ResumeHeight < cursor.height
       THEN /\ tip' = TipAt(ResumeHeight)
            /\ cursor' = [height |-> ResumeHeight, tip |-> TipAt(ResumeHeight)]
       ELSE /\ tip' = cursor.tip
            /\ UNCHANGED cursor
  /\ state' = [Loaded EXCEPT !.at = ResumeHeight]
  /\ peer' \in Blocks
  /\ pc' = "idle"
  /\ UNCHANGED <<blocks, raws, proj, block, fork>>

\* While no row is missing, the checkpoint and its parent stand below row 1.
Anchored(table, h) ==
  IF \E k \in Heights : k < h /\ table[k] = Missing THEN table
  ELSE [k \in Heights \cup {0, -1} |-> IF k > 0 THEN table[k] ELSE Start]

\* What block_validate asks of a block at height h: a time past the median.
Validates(b, h) == Time[b] > Median(Anchored(blocks, h), h)

\* A block of the peer's chain that extends the tip is folded in memory.
FoldBlock(b) ==
  /\ pc = "idle"
  /\ b \in Ancestors[peer] /\ Parent[b] = tip
  /\ Validates(b, height + 1)
  /\ block' = b
  /\ pc' = "put"
  /\ state' = Connected(state, feed, b, height + 1)
  /\ feed' = [Cut(feed, height) EXCEPT ![height + 1] = b]
  /\ UNCHANGED <<disk, height, tip, fork, peer>>

PutBlock ==
  /\ pc = "put"
  /\ blocks' = [blocks EXCEPT ![height + 1] = block]
  /\ pc' = IF block \in Carriers THEN "raw" ELSE "save"
  /\ UNCHANGED <<raws, cursor, proj, memory, block, fork, peer>>

PutRaw ==
  /\ pc = "raw"
  /\ raws' = [raws EXCEPT ![height + 1] = block]
  /\ pc' = "save"
  /\ UNCHANGED <<blocks, cursor, proj, memory, block, fork, peer>>

SaveCursor ==
  /\ pc = "save"
  /\ cursor' = [height |-> height + 1, tip |-> block]
  /\ height' = height + 1
  /\ tip' = block
  /\ pc' = "idle"
  /\ UNCHANGED <<blocks, raws, proj, state, feed, block, fork, peer>>

\* idx_db_project: one transaction, stamped with the state's own height.
Projection(s) == [height |-> s.at, state |-> s]

\* After a batch of blocks.
Project ==
  /\ pc = "idle"
  /\ proj' = Projection(state)
  /\ UNCHANGED <<blocks, raws, cursor, memory, control>>

\* Blocks of another source come up: the stage, where peers leave blocks of
\* any branch, is folded and weighed before a peer is dialled.
TurnTo(b) ==
  /\ pc = "idle"
  /\ peer' = b
  /\ UNCHANGED <<disk, memory, pc, block, fork>>

\* The peer has nothing more, is lost, or sends a block that does not validate.
EndPass ==
  /\ pc = "idle"
  /\ proj' = Projection(state)
  /\ pc' = "down"
  /\ UNCHANGED <<blocks, raws, cursor, memory, block, fork, peer>>

-----------------------------------------------------------------------------
(* Reorganisations *)

\* Variant: the branch's work is compared with that of our whole chain.
OutweighsWhole(f) ==
  /\ \A h \in f + 1 .. height : blocks[h] # Missing
  /\ HeightOf(peer) - f > height

\* branch_outweighs, with blocks of equal work: our rows above the fork are
\* all there, and the peer's headers above it are strictly more.
Outweighs(f) ==
  /\ \A h \in f + 1 .. height : blocks[h] # Missing
  /\ HeightOf(peer) > height

\* A block of the peer's chain forks off an ancestor of the tip.  From a dialled
\* peer it is validated before; a staged one only when it is connected.
StartReorg(b) ==
  /\ Reorgs
  /\ pc = "idle"
  /\ b \in Ancestors[peer]
  /\ \E f \in Heights :
       /\ f < height
       /\ blocks[f] = Parent[b]
       /\ blocks[f + 1] # b
       /\ Outweighs(f)
       /\ fork' = f
  /\ block' = b
  /\ pc' = "prune"
  /\ UNCHANGED <<disk, memory, peer>>

PruneBlocks ==
  /\ pc = "prune"
  /\ blocks' = Cut(blocks, fork)
  /\ pc' = "pruneRaw"
  /\ UNCHANGED <<raws, cursor, proj, memory, block, fork, peer>>

\* Variant: the substrate is not pruned.
PruneRawsNot ==
  /\ pc = "pruneRaw"
  /\ pc' = "replay"
  /\ UNCHANGED <<disk, memory, block, fork, peer>>

PruneRaws ==
  /\ pc = "pruneRaw"
  /\ raws' = Cut(raws, fork)
  /\ pc' = "replay"
  /\ UNCHANGED <<blocks, cursor, proj, memory, block, fork, peer>>

\* Variant: the replayed state keeps the height of its last carrier.
RebuiltBehind(f, h) == Replay(Cut(raws, h), f)[h]

\* The state rebuilt from the raw rows up to height h, standing at h.
Rebuilt(f, h) == [Replay(Cut(raws, h), f)[h] EXCEPT !.at = h]

\* oracle_rollback, the replay of the raw blocks, and the projection.
ReplayRaws ==
  /\ pc = "replay"
  /\ feed' = Cut(feed, fork)
  /\ state' = Rebuilt(Cut(feed, fork), fork)
  /\ proj' = Projection(Rebuilt(Cut(feed, fork), fork))
  /\ pc' = "reset"
  /\ UNCHANGED <<blocks, raws, cursor, height, tip, block, fork, peer>>

\* The cursor moves to the fork, and the branch's first block is connected if
\* it validates.
ResetCursor ==
  /\ pc = "reset"
  /\ height' = fork
  /\ cursor' = [height |-> fork, tip |-> TipAt(fork)]
  /\ tip' = TipAt(fork)
  /\ IF Validates(block, fork + 1)
       THEN /\ state' = Connected(state, feed, block, fork + 1)
            /\ feed' = [feed EXCEPT ![fork + 1] = block]
            /\ pc' = "put"
       ELSE /\ pc' = "idle"
            /\ UNCHANGED <<state, feed>>
  /\ UNCHANGED <<blocks, raws, proj, block, fork, peer>>

\* `refold`, run while no sync is: a rollback to the cursor itself.
Refold ==
  /\ pc = "down"
  /\ (IF proj.height = cursor.height THEN "settled" ELSE "behind") \in Refolds
  /\ blocks' = Cut(blocks, cursor.height)
  /\ raws' = Cut(raws, cursor.height)
  /\ proj' = Projection(Rebuilt(Cut(blocks, cursor.height), cursor.height))
  /\ UNCHANGED <<cursor, memory, control>>

Crash ==
  /\ pc \in CrashAt
  /\ pc' = "down"
  /\ UNCHANGED <<disk, memory, block, fork, peer>>

-----------------------------------------------------------------------------
(* The specification *)

FoldSome == \E b \in Blocks : FoldBlock(b)
ReorgSome == \E b \in Blocks : StartReorg(b)

\* What a pass does without waiting for its peer.
Proceed ==
  \/ PutBlock
  \/ PutRaw
  \/ SaveCursor
  \/ PruneBlocks
  \/ PruneRaws
  \/ ReplayRaws
  \/ ResetCursor

Next ==
  \/ Boot
  \/ FoldSome
  \/ ReorgSome
  \/ Proceed
  \/ \E b \in Blocks : TurnTo(b)
  \/ Project
  \/ EndPass
  \/ Refold
  \/ Crash

Spec == Init /\ [][Next]_vars

\* The host runs a pass after the other, a pass runs on, and peers are not
\* always lost before the block that a pass asks of them arrives.
FairSpec ==
  /\ Spec
  /\ WF_vars(Boot)
  /\ WF_vars(Proceed)
  /\ SF_vars(FoldSome)
  /\ SF_vars(ReorgSome)

-----------------------------------------------------------------------------
(* Properties *)

FoldState == [lease : Nat, stamp : Nat, at : Heights \cup {0}]

\* Every variable holds a value of its C type; a tip is always a block.
TypeOK ==
  /\ blocks \in Table /\ raws \in Table /\ feed \in Table
  /\ cursor \in [height : Heights \cup {0}, tip : Blocks \cup {Start}]
  /\ proj.height \in Heights \cup {0, -1} /\ proj.state \in FoldState
  /\ state \in FoldState
  /\ height \in Heights \cup {0} /\ tip \in Blocks \cup {Start}
  /\ pc \in {"down", "idle", "put", "raw", "save",
             "prune", "pruneRaw", "replay", "reset"}
  /\ block \in Blocks \cup {Start} /\ fork \in Heights \cup {0} /\ peer \in Blocks

\* The rows of the chain that ends in b, as a node that saw only it has them.
ChainOf(b) == [h \in Heights |-> IF h <= HeightOf(b) THEN At(b, h) ELSE Missing]

\* The fold that sees the blocks of chain b at the heights in S.
FoldAt(b, S) ==
  LET run[h \in Heights \cup {0}] ==
        IF h = 0 THEN EmptyState
        ELSE IF h \notin S THEN [run[h - 1] EXCEPT !.at = h]
        ELSE Folded(run[h - 1], At(b, h), h, Median(ChainOf(b), h))
  IN  run[HeightOf(b)]

\* Between two blocks the height of a pass is the chain height of its tip,
\* whatever happened before: "heights in the fold are real chain heights", on
\* which every expiry and every anchor of the fold relies (sync.c:963-964).
HeightsReal == pc = "idle" => height = HeightOf(tip)

\* Between two blocks the blocks table and the oracle feed hold, up to the
\* height of the pass, exactly the chain that ends in its tip: the locator, the
\* retarget context, the median and the fork rule all read it (sync.c:149-178).
ChainKept ==
  pc = "idle" => /\ height = HeightOf(tip)
                 /\ \A h \in 1 .. height : blocks[h] = At(tip, h) /\ feed[h] = At(tip, h)

\* Between two blocks the state is the fold of every block of the chain, once
\* and in order: whatever a node went through, it holds the state of a node
\* that folded the chain in one go ("a byte-identical refold", sync.c:200-201).
StateOfChain == pc = "idle" => state = FoldAt(tip, Heights)

\* Between two blocks the state has seen every block of the chain that holds
\* an action, at its height: no crash, recovery, rollback or refold ever
\* "silently skip[s] those blocks' actions" (sync.c:970-973).
NoActionLost ==
  pc = "idle" => \E S \in SUBSET (1 .. HeightOf(tip)) :
    /\ {h \in 1 .. HeightOf(tip) : At(tip, h) \in Carriers} \subseteq S
    /\ state = FoldAt(tip, S)

\* Between two blocks the replay substrate holds the chain's carrier blocks and
\* nothing from another branch: a rollback replays what is stored, whatever it
\* is, as the history of the surviving chain (sync.c:161-167, 198-203).
SubstrateOfChain ==
  pc = "idle" => \A h \in 1 .. height :
    raws[h] = IF blocks[h] \in Carriers THEN blocks[h] ELSE Missing

\* A pass that ends by itself, and a refold, leave the projection at the cursor:
\* a projection behind it is what the next pass takes for a crash, dropping
\* the blocks above it (sync.c:1009-1014, 214-217).
Settled ==
  [][pc' = "down" /\ pc \in {"idle", "down"} => proj'.height = cursor'.height]_vars

\* When a reorganisation starts, every block of the branch that was weighed
\* validates at its height: "a branch we accept as heavier is one whose blocks
\* will also validate when we download them" (sync.c:822-823).
BranchValidates ==
  pc = "prune" => \A h \in fork + 1 .. HeightOf(peer) :
    Time[At(peer, h)] > Median(Anchored(ChainOf(peer), h), h)

\* The chains that validate, and the heaviest of them.
Valid(b) ==
  \A h \in 1 .. HeightOf(b) : Time[At(b, h)] > Median(Anchored(ChainOf(b), h), h)

Heaviest ==
  {b \in Blocks : Valid(b) /\ \A c \in Blocks : Valid(c) => HeightOf(c) <= HeightOf(b)}

\* If from some time on the passes dial peers on a heaviest chain, and do not
\* crash, the node ends on a heaviest chain, whatever branch it was on: no
\* weighing, rollback or recovery wedges it on another (sync.c:788-793).
CatchesUp ==
  (<>[](peer \in Heaviest) /\ <>[][~Crash]_vars) => <>[](tip \in Heaviest)
=============================================================================
