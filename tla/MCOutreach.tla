---------------------------- MODULE MCOutreach ------------------------------
(* Small surroundings for the two threads.  Pinned: the configured name n is  *)
(* the address of a, which the book knows as well, which calls, and vouches   *)
(* for c.  Overlay: no configured peer; b and c share a /16, only b is marked *)
(* and calls.  Twin: two configured names of a.  Seed: the configured name is *)
(* our own, and b is configured by its address.  Hunt: one pass of the sync   *)
(* thread over b, that serves recent blocks, a, and ourselves.                *)
EXTENDS Outreach

CONSTANTS a, b, c, us, n, o

Unknown == [m \in Machines |-> {}]
Both == {"known", "dnet", "net"}

World(peers, dns, rows, callers, vouches) ==
  [peers |-> peers, dns |-> [t \in Names |-> dns], rows |-> rows, callers |-> callers,
   vouches |-> vouches, gossip |-> vouches, marked |-> {a, b, us}, listening |-> {a, b},
   group |-> [m \in Machines |-> IF m = c THEN b ELSE m], self |-> us,
   mishaps |-> 2, passes |-> 0, targets |-> {}, extra |-> {}, archive |-> {}, deep |-> FALSE]

Pinned == World(<<n>>, a, [Unknown EXCEPT ![a] = Both], {a}, {<<a, c>>})
Overlay == World(<<>>, a, [Unknown EXCEPT ![b] = Both, ![c] = Both], {b}, {})
Twin == World(<<n, o>>, a, Unknown, {}, {})
Seed == World(<<n, b>>, us, Unknown, {b}, {})
Hunt ==
  [World(<<>>, us, Unknown, {}, {<<b, us>>}) EXCEPT
     !.mishaps = 0, !.passes = 1, !.targets = {b, a, n}, !.extra = {us, a, b}, !.archive = {a},
     !.deep = TRUE]

Usual == {Pinned, Overlay, Seed, Hunt}
Twins == {Twin}
Pools == {Overlay}
=============================================================================
