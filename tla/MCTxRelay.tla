------------------------------ MODULE MCTxRelay ------------------------------
(* Three nodes that relay one transaction in a circle, or in a row with one   *)
(* that is not standard; and two that relay three: t1 and t2 spend the output *)
(* i2, and the pool has room for two by count, but for t3 alone by bytes.     *)
EXTENDS TxRelay

CONSTANTS t1, t2, t3, t4, i1, i2, i3, a, b, c

SpendsOf == [t \in Txs |-> CASE t = t1 -> {i1, i2} [] t = t2 -> {i2} [] t = t3 -> {i3}
                               [] t = t4 -> {i3}]

SizeOf == [t \in Txs |-> IF t = t3 THEN 2 ELSE 1]

Circle ==
  [links |-> {l \in Nodes \X Nodes : l[1] # l[2]}, wallets |-> {<<a, t1>>},
   mined |-> {<<a, t1>>}]

Line ==
  [links |-> {<<a, b>>, <<b, a>>}, wallets |-> {<<a, t1>>, <<b, t2>>, <<a, t3>>},
   mined |-> {<<b, t2>>}]

Chain ==
  [links |-> {<<a, b>>, <<b, a>>, <<b, c>>, <<c, b>>},
   wallets |-> {<<a, t1>>, <<b, t4>>},
   mined |-> {<<b, t2>>}]

AllWorlds == {Circle, Line, Chain}
=============================================================================
