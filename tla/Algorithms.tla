---------------------------- MODULE Algorithms ----------------------------
(***************************************************************************)
(* The pure functions of the indexer on samples of their inputs, beside    *)
(* the loop of the water-fill: what the functions compute is compared with *)
(* a definition that says what they are for.                               *)
(***************************************************************************)
EXTENDS WaterFill, SequencesExt

CONSTANTS MaxIn, MaxOut, OffCurve, PushData, Unsigned
CONSTANTS HashLen, AddrLen, PriceLen, WindowLen, AnchorLen, MaxName, MaxBody,
          Letters, Hyphen, Comma, OneByte, TwoBytes, MaxPayload
CONSTANTS TimeSpan, FeeWindow, MinSample, Subsidy, RefSize, RateFloor, RateCap
CONSTANTS Radix, Digits, Spacing, Slowest, Fastest, Damping, ChainId, MaxDepth
CONSTANTS Lease, Never, Lapsed, Unheld, Uncovered

Attr == INSTANCE Attribution
Load == INSTANCE Payloads
Feed == INSTANCE RateOracle
Pow  == INSTANCE ProofOfWork
Past == INSTANCE History

CONSTANTS
  Scripts,    \* scriptSigs to attribute
  TxIns,      \* the inputs of a transaction that is attributed
  Codes,      \* scripts to delete from
  Datas,      \* data whose pushes are deleted
  InSamples,  \* inputs of transactions that are adapted
  OutSamples, \* their outputs
  Bodies,     \* bodies of payloads
  Spks,       \* OP_RETURN scripts
  Histories,  \* what the oracle feed was told
  Heights,    \* heights it is asked for
  Compacts,   \* compact targets
  Limits,     \* limits of targets
  Times,      \* solve times
  IdLists,    \* lists of transaction ids
  Parents,    \* scripts of parent coinbases
  Proofs,     \* headers with a branch and an index, for merged mining
  Firsts,     \* blocks that a node connects
  Rests,      \* blocks that it connects after it turned back
  Titles      \* names in them

\* What the inputs are, as far as the proofs need it.
IsList(s) == Len(s) \in Nat /\ s = [i \in 1..Len(s) |-> s[i]]

ASSUME ScriptsAssumption ==
  \A ss \in Scripts :
    IsList(ss) /\ \A i \in DOMAIN ss : ss[i].kind = "script" => IsList(ss[i].keys)

\* No identity is that of an input that is not attributed.
ASSUME UnsignedAssumption ==
  \A ss \in Scripts :
    Attr!SingleKey(ss) \/ Attr!MultiKey(ss) => Attr!Claimed(ss).id # Unsigned

\* A script code is a list of bytes; the data of a push has a length byte of one.
ASSUME CodesAssumption ==
  /\ \A s \in Codes : IsList(s) /\ \A i \in DOMAIN s : s[i] \in Nat
  /\ \A d \in Datas : IsList(d) /\ \A i \in DOMAIN d : d[i] \in Nat
  /\ PushData \in Nat /\ MaxOut \in Nat

\* An anchor has bytes; a payload has one class of push for each length.
ASSUME FieldsAssumption ==
  /\ {HashLen, AddrLen, PriceLen, WindowLen, AnchorLen} \subseteq Nat
  /\ {OneByte, TwoBytes, MaxPayload} \subseteq Nat
  /\ AnchorLen > 0 /\ 0 < OneByte /\ OneByte <= TwoBytes

\* A body is a list of bytes; a bare OP_RETURN has no push.
ASSUME PayloadsAssumption ==
  /\ \A b \in Bodies : IsList(b)
  /\ \A spk \in Spks :
       /\ spk = [class |-> spk.class, length |-> spk.length, data |-> spk.data]
       /\ spk.class = "bare" => spk.length = 0 /\ spk.data = <<>>

\* A row has a height, a time, a coinbase and a size; a median is of at least one.
ASSUME HistoriesAssumption ==
  /\ {TimeSpan, MinSample} \subseteq Nat \ {0} /\ FeeWindow \in Nat /\ Subsidy \in Int
  /\ Heights \subseteq Int
  /\ \A calls \in Histories :
       /\ IsList(calls)
       /\ \A i \in DOMAIN calls :
            /\ calls[i].height \in Int
            /\ calls[i].call # "rollback" =>
                 {calls[i].time, calls[i].coinbase, calls[i].bytes} \subseteq Int

\* Targets are in an even base, at least as long as a mantissa, and an exact number of
\* bits; the clamps of the solve time are around the spacing.
ASSUME TargetsAssumption ==
  /\ {Radix, Digits, Spacing, Slowest, Fastest, Damping} \subseteq Nat \ {0}
  /\ Radix % 2 = 0 /\ Digits >= 3 /\ Pow!WorkBits # {}
  /\ Fastest <= Spacing /\ Spacing <= Slowest
  /\ Compacts \subseteq Nat /\ Limits \subseteq Nat /\ Times \subseteq Int

ASSUME ParentsAssumption ==
  \A script \in Parents :
    IsList(script) /\ \A i \in DOMAIN script : script[i].kind \in {"mark", "byte", "root", "num"}

\* The branch of a header is a list of hashes.
ASSUME ProofsAssumption == \A x \in Proofs : IsList(x.branch)

\* The id of a transaction is not the hash of two ids.
ASSUME IdListsAssumption ==
  \A ids \in IdLists : IsList(ids) /\ \A i \in DOMAIN ids : ids[i] = Pow!Leaf(ids[i][1])

VARIABLE sample   \* the input at hand, Nothing while the water-fill runs

-----------------------------------------------------------------------------
(* Chains for the tables of the past *)

Until(blocks, h) == SubSeq(blocks, 1, h)
Standing(blocks) == Past!Extended(Past!Fresh, blocks)

\* A database of the builds that kept carriers only in the substrate, and whose
\* rollbacks lost the spends of the other blocks (sync.c:983-987).
Damaged(blocks) ==
  LET carriers == {h \in DOMAIN blocks : Past!Carries(blocks[h])}
  IN  [Standing(blocks) EXCEPT
         !.db.raws = [h \in carriers |-> blocks[h]],
         !.db.utxos = {IF u.spent \in carriers THEN u ELSE [u EXCEPT !.spent = Never] : u \in @}]

Back(s) ==
  CASE s.how = "rollback" -> Past!Rollback(Standing(s.first), s.at)
    [] s.how = "resume" -> Past!Resumed(Standing(s.first), Standing(Until(s.first, s.at)))
    [] s.how = "refold" -> Past!Refolded(Standing(s.first))
    [] s.how = "rewalk" -> Past!Rewalked(Damaged(s.first))

\* The blocks it connects then: after a crash those of the same chain again.
Coming(s) ==
  IF s.how = "resume" THEN SubSeq(s.first, s.at + 1, Len(s.first)) \o s.rest ELSE s.rest
Survivors(s) ==
  LET kept == IF s.how = "rewalk" THEN Back(s).height ELSE s.at
  IN  Until(s.first, kept) \o Coming(s)

\* A coin is funded once, and spent once at most, later or in the same block.
Funds(blocks, c) == {h \in DOMAIN blocks : c \in blocks[h].funds}
Spends(blocks, c) == {h \in DOMAIN blocks : c \in blocks[h].spends}
Coins(blocks) == UNION {b.funds \cup b.spends : b \in Range(blocks)}
Payable(blocks) ==
  \A c \in Coins(blocks) :
    /\ Cardinality(Funds(blocks, c)) = 1 /\ Cardinality(Spends(blocks, c)) <= 1
    /\ \A f \in Funds(blocks, c), s \in Spends(blocks, c) : f <= s

\* Somebody owns what is claimed or given; a coin of the blocks that were connected
\* first is funded once and spent once at most.
ASSUME BlocksAssumption ==
  /\ Lease \in Nat /\ Never \notin Nat
  /\ \A blocks \in Firsts \cup Rests :
       IsList(blocks) /\ \A i \in DOMAIN blocks : blocks[i].owner # Lapsed
  /\ \A blocks \in Firsts : Payable(blocks)

Nothing == [of |-> "nothing"]

\* One input for each question; the fill is over in these states.
Sampled ==
  \/ \E ss \in Scripts : sample = [of |-> "script", ss |-> ss]
  \/ \E s \in Codes, d \in Datas : sample = [of |-> "code", code |-> s, data |-> d]
  \/ \E ins \in InSamples, outs \in OutSamples :
       sample = [of |-> "tx", ins |-> ins, outs |-> outs]
  \/ \E op \in Load!Opcodes, b \in Bodies :
       sample = [of |-> "payload", op |-> op, body |-> b]
  \/ \E spk \in Spks : sample = [of |-> "spk", spk |-> spk]
  \/ \E calls \in Histories : sample = [of |-> "feed", calls |-> calls]
  \/ \E bits \in Compacts, limit \in Limits :
       sample = [of |-> "target", bits |-> bits, limit |-> limit]
  \/ \E ids \in IdLists : sample = [of |-> "merkle", ids |-> ids]
  \/ \E script \in Parents : sample = [of |-> "parent", script |-> script]
  \/ \E first \in Firsts, rest \in Rests : \E at \in 0..Len(first) :
       \E how \in {"rollback", "resume", "refold", "rewalk"} :
         /\ how \in {"refold", "rewalk"} => at = Len(first)
         /\ sample = [of |-> "history", first |-> first, rest |-> rest, at |-> at, how |-> how]
         /\ Payable(Survivors(sample))

\* The fill at its end, for one name that was given nothing.
FillIdle ==
  /\ names = [n \in Names |-> NoRow] /\ commits = {} /\ muts = [o \in Owners |-> 0]
  /\ scratch = [n \in Names |-> NoClaim]
  /\ height = Activation /\ mtp = 0 /\ rate = Min(Rates) /\ txs = 1 /\ cx = NoTx
  /\ set = {} /\ burn = 0 /\ add = <<>> /\ pool = 0 /\ share = 0 /\ todo = {}
  /\ pc = "done"

AlgInit == (FillInit /\ sample = Nothing) \/ (FillIdle /\ Sampled)

AlgSpec ==
  AlgInit /\ [][FillNext /\ UNCHANGED sample]_<<allVars, sample>>
          /\ WF_<<allVars, sample>>(FillNext /\ UNCHANGED sample)

-----------------------------------------------------------------------------
(* Properties *)

\* An input is attributed exactly when it is spent for its identity: the pass over
\* signatures and keys misses no assignment and accepts none that is out of order,
\* whatever the size of its transaction.  Deleting a signature from a script code
\* removes its pushes and no other byte (attrib.c:102-113, 203-270).
Attributed ==
  /\ sample.of = "script" =>
       LET tx == [ins |-> [i \in 1..TxIns |-> sample.ss], outs |-> <<>>]
       IN  (Attr!Attribute(tx, 1).id # Unsigned) <=> Attr!SpentBy(sample.ss)
  /\ sample.of = "code" =>
       LET pat == Attr!EmitPush(sample.data)
       IN  Attr!FindAndDelete(sample.code, pat) = Attr!Without(sample.code, pat)

\* The identities the fold acts for: at each carrier the actor, or the two parties
\* of a trade.
Actors(inputs, carriers) ==
  LET Step(acc, c) ==
        IF c.op = "AS" THEN [acc EXCEPT !.actor = Signer(inputs, c.i)]
        ELSE [acc EXCEPT !.seen = Append(@,
                IF c.op = "TRADE" THEN <<Signer(inputs, c.i), Signer(inputs, c.j)>>
                                  ELSE <<acc.actor>>)]
      After[n \in {0} \cup DOMAIN carriers] ==
        IF n = 0 THEN [actor |-> Signer(inputs, 1), seen |-> <<>>]
                 ELSE Step(After[n - 1], carriers[n])
  IN  After[Len(carriers)].seen

\* The fold acts for the same identities as if every input had been attributed,
\* though the adapter attributes the first and the named ones only
\* (adapter.c:60-80).
LazyEnough ==
  sample.of = "tx" =>
    LET tx == [ins |-> sample.ins, outs |-> sample.outs]
        ad == Attr!Adapted(tx)
        all == [k \in DOMAIN tx.ins |-> Attr!Attribute(tx, k)]
    IN  ~ad.skip => Actors(ad.inputs, ad.carriers) = Actors(all, ad.carriers)

\* A payload has one reading at most, and no two payloads have the same one; no two
\* scripts carry the same payload (decode.c:23-118, chain.c:70-89).
OneForm ==
  /\ sample.of = "payload" =>
       LET p == [mark |-> TRUE, op |-> sample.op, body |-> sample.body]
       IN  /\ Cardinality(Load!Decode(p)) <= 1
           /\ \A a \in Load!Decode(p) : Load!Encode(a) = p
  /\ sample.of = "spk" =>
       \A data \in Load!Extract(sample.spk), other \in Spks :
         data \in Load!Extract(other) => other = sample.spk

\* The chain that a history of calls leaves: the row of a height replaces all rows
\* from there on.
ChainOf(calls) ==
  LET Under(chain, h) == [g \in {f \in DOMAIN chain : f < h} |-> chain[g]]
      Step(chain, c) == IF c.call = "rollback" THEN Under(chain, c.height)
                        ELSE [g \in (DOMAIN Under(chain, c.height)) \cup {c.height} |->
                                IF g = c.height THEN c ELSE chain[g]]
      After[n \in {0} \cup DOMAIN calls] ==
        IF n = 0 THEN <<>> ELSE Step(After[n - 1], calls[n])
  IN  After[Len(calls)]

FeedAfter(calls) ==
  LET Step(feed, c) == IF c.call = "rollback" THEN Feed!Rollback(feed, c.height)
                                              ELSE Feed!Record(feed, c)
      After[n \in {0} \cup DOMAIN calls] ==
        IF n = 0 THEN <<>> ELSE Step(After[n - 1], calls[n])
  IN  After[Len(calls)]

\* After reorganisations and blocks folded again, the medians of every height are
\* those of the chain below it: the time of the newest blocks, and the lower middle
\* of the fees of the blocks that paid (oracle.c:18-57, oracle_feed.c:33-67).
RateOfChain ==
  sample.of = "feed" =>
    LET feed == FeedAfter(sample.calls)
        chain == ChainOf(sample.calls)
    IN  \A h \in Heights :
          /\ Feed!IsMedianTime(Feed!MedianTime(feed, h), chain, h)
          /\ Feed!IsRate(Feed!Rate(feed, h), chain, h)

\* A compact target loses less than a unit of its last digit but one and never grows;
\* the target after it is monotone in the solve time, no further away than the clamps
\* and not above the limit; and its work is the rounded quotient (pow.c:111-212).
TargetsKept ==
  sample.of = "target" =>
    LET t == Pow!BitsToTarget(sample.bits)
        most == Pow!BitsToTarget(sample.limit)
        After(time) == Pow!BitsToTarget(Pow!NextBits(sample.bits, time, sample.limit))
        Loss(n) == n - Pow!BitsToTarget(Pow!TargetToBits(n))
    IN  /\ Pow!Work(sample.bits) = IF t = 0 THEN 0 ELSE Pow!Top \div (t + 1)
        /\ t # 0 => Loss(t) = 0
        /\ t \in 1..most => \A time \in Times :
             /\ After(time) <= most
             /\ Spacing * After(time) <= Slowest * t
             /\ LET least == (Fastest * t) \div Spacing
                IN  least > 0 => After(time) >= least - Loss(least)
             /\ \A later \in Times : time <= later => After(time) <= After(later)

\* The lists that pass the check under the root of their own.
Unmutated == {ids \in IdLists : Pow!MerkleOK(ids, Pow!MerkleRoot(ids))}

\* A root stands for one list of transactions among those that pass the check for
\* supplied twins (chain.c:156-176).
RootBinds ==
  sample.of = "merkle" =>
    \A ids \in Unmutated :
      Pow!MerkleOK(sample.ids, Pow!MerkleRoot(ids)) => ids = sample.ids

\* The work of a parent counts for one header of this chain at most, whatever its
\* coinbase says and whatever tree it commits to (pow.c:348-399).
OneProof ==
  sample.of = "parent" =>
    LET Proof(x) ==
          [place |-> 0, chainBranch |-> x.branch, index |-> x.index, branch |-> <<>>,
           parent |-> [chain |-> ChainId + 1, root |-> Pow!Leaf(0), hash |-> 0],
           coinbase |-> [id |-> Pow!Leaf(0), script |-> sample.script]]
        bits == Pow!TargetToBits(1)
        Header(x) ==
          [id |-> x.id, bits |-> bits, chain |-> ChainId, hash |-> 2, merged |-> TRUE,
           aux |-> Proof(x)]
        proved == {x \in Proofs : Pow!WorkOK(Header(x), bits)}
    IN  \A p, q \in proved : p.id = q.id

\* The last block at or below h whose replay sees the chain.
Replayed(blocks, h) ==
  LET seen == {g \in 1..h : Past!Carries(blocks[g]) \/ blocks[g].funds \cup blocks[g].spends # {}}
  IN  Max({0} \cup seen)

\* After a rollback, a crash, a refold or the walk back of the wallet, the tables
\* say of every height of the surviving chain who held a name, and which coins are
\* unspent: rows of the branch left behind are gone, and blocks folded twice leave no
\* trace.  A refold knows of a lapse from the next block of the substrate on
\* (sync.c:169-174, 191-220, 983-1008, db.c:408-423, 512-621).
HistoryOfChain ==
  sample.of = "history" =>
    LET chain == Survivors(sample)
        node == Past!Extended(Back(sample), Coming(sample))
        HolderAt(h) == LET state == Standing(Until(chain, h)).state
                     IN  [n \in Titles |-> IF Past!Holds(state, n) THEN state[n].owner ELSE Unheld]
        Known(h) == IF sample.how = "refold" /\ h <= Len(sample.first)
                    THEN Replayed(chain, h) ELSE h
    IN  /\ \A h \in 0..Len(chain), n \in Titles :
             Past!OwnerAt(node.db, node.state, n, h) = HolderAt(Known(h))[n]
        /\ Past!Unspent(node.db) = {c \in Coins(chain) : Spends(chain, c) = {}}
=============================================================================
