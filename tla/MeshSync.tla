------------------------------ MODULE MeshSync ------------------------------
(***************************************************************************)
(* A node that follows the chain over its standing connection alone: the   *)
(* serve thread pulls and receives blocks into the stage, and the sync     *)
(* thread folds them from there, reorganises onto a heavier staged branch, *)
(* and keeps the headers and the window that the serve thread offers.      *)
(*                                                                         *)
(* Every peer the node could dial is held by the serve plane, so a pass    *)
(* never opens a socket.  The fold, its tables, their projection and their *)
(* crashes are in ChainSync; here the fold is its tip.                     *)
(***************************************************************************)
EXTENDS BlockTree, Sequences, SequencesExt

CONSTANTS
  Invalid,     \* blocks whose header lacks the work it needs
  Missing,     \* no row
  First,       \* the block that the node and its peer stand on at first
  Window,      \* SERVE_BLOCK_WINDOW, 288
  StageCap,    \* rows that the stage keeps, 32
  BranchCap,   \* rows of a staged branch that are read, 32
  InvCap,      \* blocks of an inv that are asked for, 16
  Budget,      \* blocks that a peer is served in ten seconds, 16
  AnnounceCap, \* blocks that are announced at a time, 32
  ForkDepth    \* depth at which the stage is probed for a fork, 32

\* Bound on lost connections, hours gone by, blocks nobody asked for and branches
\* that the peer refuses.
CONSTANT MaxMishaps

\* The blocks of the chain that ends in b above height h, in order.
Above(b, h) == [i \in 1 .. HeightOf(b) - h |-> At(b, h + i)]

ASSUME RowsAssumption == Missing \notin Blocks /\ First \in Blocks
ASSUME BoundsAssumption ==
  {Window, StageCap, BranchCap, InvCap, Budget, AnnounceCap, ForkDepth, MaxMishaps}
    \subseteq Nat \ {0}

VARIABLES
  headers,    \* table headers: the chain that peers are offered
  window,     \* table blockwin: the raw blocks that they are served
  stage,      \* table blockstage, oldest row first
  old,        \* the rows of the stage that are over an hour old
  spoilt,     \* its rows with a body that does not validate under a header that weighs
  tip,        \* the tip of the fold
  pc,         \* where the sync pass is; "off" between two
  row,        \* the block it is connecting
  fork,       \* the height it rolls back to
  branch,     \* the staged branch that it reads, then connects
  bad,        \* the rows of the branch that were read with a spoilt body
  peer,       \* the tip of the peer's chain
  floor,      \* the lowest height whose raw block the peer may still have
  announced,  \* the peer's announced_tip
  inv,        \* the blocks of the inv that is under way to the node
  net,        \* the blocks that are under way to it
  given,      \* the blocks that the peer served it in these ten seconds
  mishaps

store == <<headers, window>>
mailbox == <<stage, old, spoilt>>
pass == <<pc, row, fork, branch, bad>>
chain == <<peer, floor, announced>>
link == <<chain, inv, net, given>>
vars == <<headers, window, stage, old, spoilt, tip, pc, row, fork, branch, bad,
          peer, floor, announced, inv, net, given, mishaps>>

RowsOf(b) == [h \in Heights |-> IF h <= HeightOf(b) THEN At(b, h) ELSE Missing]

Init ==
  /\ headers = RowsOf(First) /\ window = RowsOf(First)
  /\ stage = <<>> /\ old = {} /\ spoilt = {}
  /\ tip = First
  /\ pc = "off" /\ row = First /\ fork = 0 /\ branch = <<>> /\ bad = {}
  /\ peer = First /\ floor = 1 /\ announced = HeightOf(First)
  /\ inv = <<>> /\ net = <<>> /\ given = 0
  /\ mishaps = 0

-----------------------------------------------------------------------------
(* The peer: it runs this code too *)

\* Its chain ends in b: in a reorganisation its window loses what is above the fork,
\* and its serve loop may see that and lower the mark.
PeerAt(b) ==
  LET kept == Max({0} \cup {HeightOf(a) : a \in Ancestors[b] \cap Ancestors[peer]})
  IN  /\ Ancestors[b] \cap Invalid = {}
      /\ peer' = b
      /\ floor' = Max({HeightOf(b) - Window, Min({floor, kept + 1})})
      /\ announced' \in {announced, Min({announced, kept})}
      /\ UNCHANGED <<store, mailbox, tip, pass, inv, net, given>>

\* It connects blocks, or reorganises onto a heavier chain.
PeerMoves(b) ==
  /\ HeightOf(b) > HeightOf(peer)
  /\ PeerAt(b)
  /\ UNCHANGED mishaps

\* Its serve loop announces what lies above the mark, unless that is too much.
Announce ==
  /\ inv = <<>>
  /\ HeightOf(peer) > announced
  /\ inv' = IF HeightOf(peer) - announced > AnnounceCap THEN <<>>
            ELSE Above(peer, announced)
  /\ announced' = HeightOf(peer)
  /\ UNCHANGED <<store, mailbox, tip, pass, peer, floor, net, given, mishaps>>

-----------------------------------------------------------------------------
(* The serve thread *)

StoreTip == Max({h \in Heights : headers[h] # Missing})

\* Variant: the locator is the tip alone.
TipOnly == {0}

\* The heights of a locator: four by one, then further and further apart.
Steps == {0, 1, 2, 3, 5, 9, 17}

\* The walk down from the store's tip ends at the first row that is missing.
Locator ==
  {h \in Heights : /\ StoreTip - h \in Steps
                   /\ \A k \in Heights :
                        h <= k /\ StoreTip - k \in Steps => headers[k] # Missing}

\* The locator's rows that are on the peer's chain.
Common == {h \in Locator : headers[h] \in Ancestors[peer]}

\* The peer answers a getblocks with everything above the deepest match, or,
\* if that would leave a gap, with silence.
Pull ==
  /\ inv = <<>> /\ net = <<>>
  /\ Common # {}
  /\ Max(Common) + 1 >= floor
  /\ Max(Common) < HeightOf(peer)
  /\ inv' = Above(peer, Max(Common))
  /\ UNCHANGED <<store, mailbox, tip, pass, chain, net, given, mishaps>>

\* serve_store_have: the block is a header or a row of the stage.
Have(b) == b \in ToSet(stage) \/ \E h \in Heights : headers[h] = b

\* serve_store_block of the peer: a header of its chain with its block in the window.
ServedBlock(b) == b \in Ancestors[peer] /\ HeightOf(b) >= floor

\* The first unknown blocks of an inv are asked for, and the peer sends those
\* that its chain still has, until the node's budget is spent.
OnInv ==
  LET unknown == SelectSeq(inv, LAMBDA b : ~Have(b))
      wanted == SubSeq(unknown, 1, Min({InvCap, Len(unknown)}))
      served == SelectSeq(wanted, ServedBlock)
      sent == Min({Len(served), Budget - given})
  IN  /\ inv # <<>>
      /\ net' = net \o SubSeq(served, 1, sent)
      /\ given' = given + sent
      /\ inv' = <<>>
      /\ UNCHANGED <<store, mailbox, tip, pass, chain, mishaps>>

\* Ten seconds go by, and the peer counts from nothing again.
NewBudget ==
  /\ given # 0
  /\ given' = 0
  /\ UNCHANGED <<store, mailbox, tip, pass, chain, inv, net, mishaps>>

\* The newest n rows.
Newest(rows, n) == SubSeq(rows, Max({1, Len(rows) - n + 1}), Len(rows))

\* serve_store_stage_put: a new row, under the hash of its header alone, so that
\* a row that is there keeps its body; then rows age out, and the freshest stay.
\* Rows count as fresh in the order they came, those of one second included.
StagePut(b, whole) ==
  LET put == IF b \in ToSet(stage) THEN stage ELSE Append(stage, b)
      young == SelectSeq(put, LAMBDA r : r \notin old)
      spoils == IF whole \/ b \in ToSet(stage) THEN {} ELSE {b}
  IN  /\ stage' = Newest(young, StageCap)
      /\ old' = {}
      /\ spoilt' = (spoilt \cup spoils) \cap ToSet(stage')

Receive ==
  /\ net # <<>>
  /\ StagePut(Head(net), TRUE)
  /\ net' = Tail(net)
  /\ UNCHANGED <<store, tip, pass, chain, inv, given, mishaps>>

Mishap == mishaps < MaxMishaps /\ mishaps' = mishaps + 1

\* The peer rolls back to a heavier branch and then refuses it, or a part of it.
PeerFalls(b) ==
  /\ Mishap
  /\ b # peer /\ HeightOf(b) <= HeightOf(peer)
  /\ PeerAt(b)

\* A block that nobody asked for, as it is or with a body that no node connects:
\* other transactions than the header's, or a time the header should not have.
Stray(b) ==
  /\ Mishap
  /\ \E whole \in BOOLEAN : StagePut(b, whole)
  /\ UNCHANGED <<store, tip, pass, link>>

\* The connection is lost and dialled again.
Lose ==
  /\ Mishap
  /\ inv' = <<>> /\ net' = <<>> /\ given' = 0
  /\ UNCHANGED <<store, mailbox, tip, pass, chain>>

\* An hour goes by.
Hour ==
  /\ Mishap
  /\ old' = ToSet(stage)
  /\ UNCHANGED <<store, stage, spoilt, tip, pass, link>>

-----------------------------------------------------------------------------
(* The sync thread: phase 0 of a pass *)

Without(S) == SelectSeq(stage, LAMBDA r : r \notin S)

\* serve_store_stage_del.
Unstage(S) ==
  /\ stage' = Without(S)
  /\ old' = old \ S
  /\ spoilt' = spoilt \ S

StartPass ==
  /\ pc = "off"
  /\ pc' = "fold"
  /\ UNCHANGED <<store, mailbox, tip, row, fork, branch, bad, link, mishaps>>

\* block_validate of a block that was read with this body: all of it is checked,
\* the transactions and the median time as well as the work.
Take(b, body) ==
  /\ row' = b
  /\ pc' = IF b \in Invalid \/ body = "spoilt" THEN "drop" ELSE "put"

\* serve_store_stage_next: the staged blocks that extend the tip.
StageNext == {b \in ToSet(stage) : Parent[b] = tip}

FoldRow(b) ==
  /\ pc = "fold"
  /\ b \in StageNext
  /\ Take(b, IF b \in spoilt THEN "spoilt" ELSE "whole")
  /\ UNCHANGED <<store, mailbox, tip, fork, branch, bad, link, mishaps>>

\* serve_store_put, its first statement.
PutHeader ==
  /\ pc = "put"
  /\ headers' = [headers EXCEPT ![HeightOf(row)] = row]
  /\ pc' = "window"
  /\ UNCHANGED <<window, mailbox, tip, row, fork, branch, bad, link, mishaps>>

\* serve_store_put: the raw block, and the window trimmed behind the tip.
PutWindow ==
  /\ pc = "window"
  /\ window' = [h \in Heights |-> IF h = HeightOf(row) THEN row
                                  ELSE IF h < HeightOf(row) - Window THEN Missing
                                  ELSE window[h]]
  /\ pc' = "save"
  /\ UNCHANGED <<headers, mailbox, tip, row, fork, branch, bad, link, mishaps>>

SaveCursor ==
  /\ pc = "save"
  /\ tip' = row
  /\ pc' = "unstage"
  /\ UNCHANGED <<store, mailbox, row, fork, branch, bad, link, mishaps>>

\* The row leaves the stage; the next of the branch, or of the stage, follows.
Unstaged ==
  /\ pc = "unstage"
  /\ Unstage({row})
  /\ pc' = IF fork = 0 THEN "fold" ELSE "branch"
  /\ UNCHANGED <<store, tip, row, fork, branch, bad, link, mishaps>>

\* A refused row leaves the stage too.  It ends the branch it is in, and the node
\* stays where that got it, be it lower than it was; the branch's other rows stay.
Dropped ==
  /\ pc = "drop"
  /\ Unstage({row})
  /\ pc' = IF fork = 0 THEN "fold" ELSE "branch"
  /\ branch' = <<>> /\ bad' = {}
  /\ UNCHANGED <<store, tip, row, fork, link, mishaps>>

\* serve_store_stage_pending: rows that are no known header.
Pending == {b \in ToSet(stage) : \A h \in Heights : headers[h] # b}

\* The heights below the tip's that a staged block forks off.
Forks ==
  {h \in 1 .. HeightOf(tip) - 1 : /\ h > HeightOf(tip) - ForkDepth
                                  /\ \E b \in ToSet(stage) : Parent[b] = At(tip, h)}

NothingFolds == pc = "fold" /\ StageNext = {}

\* Nothing extends the tip: the highest fork is looked at.
Probe ==
  /\ NothingFolds
  /\ Pending # {} /\ Forks # {}
  /\ fork' = Max(Forks)
  /\ pc' = "walk"
  /\ UNCHANGED <<store, mailbox, tip, row, branch, bad, link, mishaps>>

NoFork ==
  /\ NothingFolds
  /\ Pending = {} \/ Forks = {}
  /\ pc' = "end"
  /\ UNCHANGED <<store, mailbox, tip, row, fork, branch, bad, link, mishaps>>

\* The block that the next row of the branch has to extend.
BranchTip == IF branch = <<>> THEN At(tip, fork) ELSE Last(branch)

\* The branch is read row by row, while the serve thread goes on.
WalkRow(b) ==
  /\ pc = "walk"
  /\ Len(branch) < BranchCap
  /\ b \in ToSet(stage) /\ Parent[b] = BranchTip
  /\ branch' = Append(branch, b)
  /\ bad' = bad \cup ({b} \cap spoilt)
  /\ UNCHANGED <<store, mailbox, tip, pc, row, fork, link, mishaps>>

WalkOver ==
  /\ pc = "walk"
  /\ Len(branch) = BranchCap \/ \A b \in ToSet(stage) : Parent[b] # BranchTip

\* branch_weigh over the headers of the rows that were read: their work is there,
\* and there is more of it than ours above the fork.  No body is looked at.
Outweighs(rows) ==
  /\ ToSet(rows) \cap Invalid = {}
  /\ Len(rows) > HeightOf(tip) - fork

\* A branch that lost, or whose headers do not weigh, is not judged again.
DropJudged(rows) == Unstage(ToSet(rows))

\* The branch is heavier than what we have above the fork.
JudgeHeavier ==
  /\ WalkOver
  /\ branch # <<>> /\ Outweighs(branch)
  /\ pc' = "rollback"
  /\ UNCHANGED <<store, mailbox, tip, row, fork, branch, bad, link, mishaps>>

\* It is not.
JudgeLighter ==
  /\ WalkOver
  /\ branch # <<>> /\ ~Outweighs(branch)
  /\ DropJudged(branch)
  /\ pc' = "end" /\ fork' = 0 /\ branch' = <<>> /\ bad' = {}
  /\ UNCHANGED <<store, tip, row, link, mishaps>>

\* The probed row is gone.
JudgeNothing ==
  /\ WalkOver
  /\ branch = <<>>
  /\ pc' = "end" /\ fork' = 0
  /\ UNCHANGED <<store, mailbox, tip, row, branch, bad, link, mishaps>>

\* idx_sync_rollback: tables and state stand at the fork.
Rollback ==
  /\ pc = "rollback"
  /\ tip' = At(tip, fork)
  /\ pc' = "prune"
  /\ UNCHANGED <<store, mailbox, row, fork, branch, bad, link, mishaps>>

\* Variant: only the window is pruned.
PruneWindowOnly(h) ==
  /\ window' = [k \in Heights |-> IF k > h THEN Missing ELSE window[k]]
  /\ UNCHANGED headers

\* serve_store_prune_above.
PruneAbove(h) ==
  /\ headers' = [k \in Heights |-> IF k > h THEN Missing ELSE headers[k]]
  /\ window' = [k \in Heights |-> IF k > h THEN Missing ELSE window[k]]

PruneServed ==
  /\ pc = "prune"
  /\ PruneAbove(fork)
  /\ pc' = "branch"
  /\ UNCHANGED <<mailbox, tip, row, fork, branch, bad, link, mishaps>>

BranchNext ==
  /\ pc = "branch"
  /\ branch # <<>>
  /\ Take(Head(branch), IF Head(branch) \in bad THEN "spoilt" ELSE "whole")
  /\ branch' = Tail(branch) /\ bad' = bad \ {Head(branch)}
  /\ UNCHANGED <<store, mailbox, tip, fork, link, mishaps>>

BranchDone ==
  /\ pc = "branch"
  /\ branch = <<>>
  /\ pc' = "end"
  /\ fork' = 0
  /\ UNCHANGED <<store, mailbox, tip, row, branch, bad, link, mishaps>>

\* The pass ends without a socket.
EndPass ==
  /\ pc = "end"
  /\ pc' = "off"
  /\ UNCHANGED <<store, mailbox, tip, row, fork, branch, bad, link, mishaps>>

-----------------------------------------------------------------------------
(* The specification *)

SyncThread ==
  \/ StartPass
  \/ \E b \in Blocks : FoldRow(b)
  \/ PutHeader
  \/ PutWindow
  \/ SaveCursor
  \/ Unstaged
  \/ Dropped
  \/ Probe
  \/ NoFork
  \/ \E b \in Blocks : WalkRow(b)
  \/ JudgeHeavier
  \/ JudgeLighter
  \/ JudgeNothing
  \/ Rollback
  \/ PruneServed
  \/ BranchNext
  \/ BranchDone
  \/ EndPass

Next ==
  \/ SyncThread
  \/ Announce
  \/ Pull
  \/ OnInv
  \/ Receive
  \/ NewBudget
  \/ \E b \in Blocks : PeerMoves(b)
  \/ \E b \in Blocks : PeerFalls(b)
  \/ \E b \in Blocks : Stray(b)
  \/ Lose
  \/ Hour

\* Both threads run on, pulls are repeated for as long as the node runs, and time
\* goes by.
Spec ==
  /\ Init /\ [][Next]_vars
  /\ WF_vars(SyncThread)
  /\ WF_vars(Pull)
  /\ WF_vars(OnInv)
  /\ WF_vars(Receive)
  /\ WF_vars(NewBudget)

-----------------------------------------------------------------------------
(* Properties *)

\* Every variable holds a value of its type; the mailbox and the peer's count keep
\* to their caps.
TypeOK ==
  /\ headers \in [Heights -> Blocks \cup {Missing}]
  /\ window \in [Heights -> Blocks \cup {Missing}]
  /\ stage \in Seq(Blocks) /\ Len(stage) <= StageCap
  /\ old \cup spoilt \subseteq ToSet(stage)
  /\ {tip, row, peer} \subseteq Blocks
  /\ {fork, announced} \subseteq Heights \cup {0} /\ floor \in Nat \ {0}
  /\ branch \in Seq(Blocks) /\ Len(branch) <= BranchCap /\ bad \subseteq ToSet(branch)
  /\ inv \in Seq(Blocks) /\ net \in Seq(Blocks)
  /\ given \in 0 .. Budget /\ mishaps \in 0 .. MaxMishaps

\* What the node offers is one chain, and above a raw block that it has it has the
\* raw block of every header that it offers: a gapped or unlinked inv "would feed
\* the requester blocks its sequential fold can't connect" (sync.c:1878-1882).  A
\* branch that is refused after the rollback may leave a window with no block.
ServedRun ==
  LET Offered == {h \in Heights : headers[h] # Missing}
      Held == {h \in Heights : window[h] # Missing}
  IN  /\ \A h \in Offered : h - 1 \in Offered => Parent[headers[h]] = headers[h - 1]
      /\ pc # "window" =>
           \A k \in Held, h \in Offered : k <= h => window[h] = headers[h]

\* If the peer's chain settles, the node ends on it or on one as heavy, over the
\* standing connection alone and whatever was lost, aged out, evicted or pushed in
\* between: "tip follow, catch-up and reorgs all ride the stage" (sync.c:1197-1200).
Follows ==
  <>[][peer' = peer]_vars => <>[](HeightOf(tip) >= HeightOf(peer))
=============================================================================
