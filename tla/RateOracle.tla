----------------------------- MODULE RateOracle -----------------------------
(***************************************************************************)
(* The oracle feed (oracle_feed.c) and the two medians the fold is given   *)
(* for a block (oracle.c): the time that has passed for sure, and the rent *)
(* that the fees of recent blocks imply.                                   *)
(***************************************************************************)
EXTENDS Integers, Sequences, FiniteSets

CONSTANTS
  TimeSpan,     \* timestamps of the median time, 11
  FeeWindow,    \* SM_FEE_WINDOW
  MinSample,    \* SM_MIN_FEE_SAMPLE
  Subsidy,      \* what a block may mint; the rest of its coinbase are fees
  RefSize,      \* SM_REF_SIZE
  RateFloor,    \* SM_DUST_FLOOR
  RateCap       \* SM_RATE_CAP

-----------------------------------------------------------------------------
(* The feed: rows of height, time, coinbase and bytes *)

Rollback(feed, h) ==
  LET kept == {n \in 0..Len(feed) : n = 0 \/ feed[n].height < h}
  IN  SubSeq(feed, 1, CHOOSE n \in kept : \A m \in kept : m <= n)

\* Variant: a row is added whatever is there.
RecordBeside(feed, row) == Append(feed, row)

\* The last row written for a height wins, and nothing above it stays.
Record(feed, row) == Append(Rollback(feed, row.height), row)

\* The elements at the places of keep, in order.
Picked(s, keep) ==
  LET From[n \in 0..Len(s)] == IF n = 0 THEN <<>>
                               ELSE IF n \in keep THEN Append(From[n - 1], s[n]) ELSE From[n - 1]
  IN  From[Len(s)]

Between(feed, lo, h) ==
  Picked(feed, {i \in DOMAIN feed : lo <= feed[i].height /\ feed[i].height < h})
Below(feed, h) == Picked(feed, {i \in DOMAIN feed : feed[i].height < h})

LastOf(s, n) == SubSeq(s, IF Len(s) > n THEN Len(s) - n + 1 ELSE 1, Len(s))

-----------------------------------------------------------------------------
(* The medians *)

\* qsort: an order of the places in which the values do not fall.
Ascending(s, order) ==
  /\ \A i, j \in DOMAIN s : order[i] = order[j] => i = j
  /\ \A i, j \in DOMAIN s : i <= j => s[order[i]] <= s[order[j]]
Sorted(s) ==
  LET order == CHOOSE p \in [DOMAIN s -> DOMAIN s] : Ascending(s, p)
  IN  [i \in DOMAIN s |-> s[order[i]]]

\* The middle, the upper of two.
MedianTime(feed, h) ==
  LET times == LastOf([i \in DOMAIN Below(feed, h) |-> Below(feed, h)[i].time], TimeSpan)
  IN  IF times = <<>> THEN 0 ELSE Sorted(times)[Len(times) \div 2 + 1]

\* Whole koinu of fees for a byte; a block that claims less than its subsidy has none.
FeePerByte(row) ==
  LET fees == IF row.coinbase > Subsidy THEN row.coinbase - Subsidy ELSE 0
  IN  fees \div (IF row.bytes > 0 THEN row.bytes ELSE 1)

\* The fees of the blocks of the window that take part.
Participants(feed, h) ==
  LET window == Between(feed, h - FeeWindow, h)
      first  == SubSeq(window, 1, IF Len(window) > FeeWindow THEN FeeWindow ELSE Len(window))
      fees   == [i \in DOMAIN first |-> FeePerByte(first[i])]
  IN  Picked(fees, {i \in DOMAIN fees : fees[i] >= 1})

\* The place of the middle of n, the lower of two.
Middle(n) == (n - 1) \div 2 + 1

Clamp(r) == IF r < RateFloor THEN RateFloor ELSE IF r > RateCap THEN RateCap ELSE r

Rate(feed, h) ==
  LET fees == Participants(feed, h)
  IN  IF Len(fees) < MinSample THEN RateFloor
      ELSE Clamp(Sorted(fees)[Middle(Len(fees))] * RefSize)

-----------------------------------------------------------------------------
(* What they promise, of a chain: a function from heights to rows *)

ChainBelow(chain, h) == {g \in DOMAIN chain : g < h}

\* More than half of the last blocks are not later, and half are not earlier.
IsMedianTime(t, chain, h) ==
  LET last == {g \in ChainBelow(chain, h) :
                 Cardinality({f \in ChainBelow(chain, h) : f > g}) < TimeSpan}
  IN  IF last = {} THEN t = 0
      ELSE /\ \E g \in last : chain[g].time = t
           /\ 2 * Cardinality({g \in last : chain[g].time <= t}) > Cardinality(last)
           /\ 2 * Cardinality({g \in last : chain[g].time >= t}) >= Cardinality(last)

\* The rate follows a fee that a block of the window paid, such that at least half
\* of the paying blocks paid no more and more than half paid no less.
IsRate(r, chain, h) ==
  LET paying == {g \in ChainBelow(chain, h) :
                   g >= h - FeeWindow /\ FeePerByte(chain[g]) >= 1}
      Fee(g) == FeePerByte(chain[g])
  IN  IF Cardinality(paying) < MinSample THEN r = RateFloor
      ELSE \E m \in paying :
             /\ r = Clamp(Fee(m) * RefSize)
             /\ 2 * Cardinality({g \in paying : Fee(g) <= Fee(m)}) >= Cardinality(paying)
             /\ 2 * Cardinality({g \in paying : Fee(g) >= Fee(m)}) > Cardinality(paying)
=============================================================================
