---------------------------- MODULE MCAlgorithms ----------------------------
(* Samples for the pure functions. *)
EXTENDS Algorithms

\* Sequences of at most n elements of S.
UpTo(S, n) == UNION {[1..k -> S] : k \in 0..n}

MCOffCurve == {"z"}
KeyLists == {<<"a", "b">>, <<"b", "a", "b">>, <<"a", "z">>}
Pushes ==
  {Attr!Zero, Attr!Opcode, Attr!Noise, Attr!Pub("a"), Attr!Pub("z")}
    \cup {Attr!Sig(k, on) : k \in {"a", "b"}, on \in BOOLEAN}
    \cup {Attr!Script(m, ks) : m \in 1..2, ks \in KeyLists}
MCScripts == UpTo(Pushes, 4)

\* 1 and 2 push so many bytes, 3 is OP_PUSHDATA1, 7 an opcode.
MCCodes == UpTo({1, 2, 3, 7}, 5)
MCDatas == UpTo({2, 7}, 3) \ {<<>>}

Spending(k) == <<Attr!Sig(k, TRUE), Attr!Pub(k)>>
MCInSamples == [1..3 -> {Spending("a"), Spending("b"), <<Attr!Noise>>}]
Outs ==
  {[kind |-> "action", op |-> "AS", i |-> i] : i \in 1..4}
    \cup {[kind |-> "action", op |-> "TRADE", i |-> i, j |-> i + 1] : i \in 1..3}
    \cup {[kind |-> "action", op |-> "CLAIM"], [kind |-> "payee"], [kind |-> "other"]}
MCOutSamples == UpTo(Outs, 3)

\* A letter, the hyphen, the comma, and a byte of no name.
MCBodies == UpTo({10, 20, 30, 0}, 5)
MCSpks ==
  {[class |-> "bare", length |-> 0, data |-> <<>>]} \cup
  {[class |-> c, length |-> n, data |-> d] :
     c \in {"direct", "data1", "data2", "other"}, n \in 0..7, d \in UpTo({0}, 7)}

Rows ==
  {[call |-> "record", height |-> h, time |-> r[1], coinbase |-> r[2], bytes |-> r[3]] :
     h \in 1..4, r \in {<<1, 0, 1>>, <<3, 4, 1>>, <<2, 9, 2>>, <<1, 9, 0>>}}
Calls == Rows \cup {[call |-> "rollback", height |-> h] : h \in 1..3}

\* Heights are recorded one after the other, or again.
MCHistories ==
  {calls \in UpTo(Calls, 4) :
     \A i \in DOMAIN calls :
       calls[i].height <= Cardinality(DOMAIN ChainOf(SubSeq(calls, 1, i - 1))) + 1}
MCHeights == 1..5

MCCompacts == 0..(7 * Radix^3 - 1)
MCLimits == {4 * Radix^3 + 20, 3 * Radix^3 + 9}
MCTimes == -9..45
MCIdLists == UpTo({Pow!Leaf(1), Pow!Leaf(2)}, 8) \ {<<>>}

\* Two headers, alone or side by side in a tree of the coinbase.
Ours == {1, 2}
MCProofs ==
  {[id |-> i, branch |-> b, index |-> x] :
     i \in Ours, b \in {<<>>} \cup {<<Pow!Leaf(j)>> : j \in Ours}, x \in 0..1}
Roots == {Pow!Leaf(1), Pow!Leaf(2), Pow!Node(Pow!Leaf(1), Pow!Leaf(2))}
Commitments ==
  {<<Pow!Root(r), Pow!Num(size), Pow!Num(n)>> : r \in Roots, size \in 1..2, n \in 1..2}
Chunks == {<<Pow!Mark>>, <<Pow!Byte>>} \cup Commitments
            \cup {<<Pow!Mark>> \o c : c \in Commitments}
MCParents == {FlattenSeq(chunks) : chunks \in UpTo(Chunks, 3)}

\* One name, claimed by p and given to q, beside one coin.
Moves == {[funds |-> {}, spends |-> {}], [funds |-> {1}, spends |-> {}],
          [funds |-> {}, spends |-> {1}], [funds |-> {1}, spends |-> {1}]}
Acts == {[act |-> "none", owner |-> "p"], [act |-> "claim", owner |-> "p"],
         [act |-> "give", owner |-> "q"]}
Blocks ==
  {[name |-> "n", act |-> a.act, owner |-> a.owner, funds |-> m.funds, spends |-> m.spends] :
     a \in Acts, m \in Moves}
MCFirsts == {blocks \in [1..3 -> Blocks] : Payable(blocks)}
MCRests == {<<>>} \cup {<<b, c>> : b \in Blocks, c \in {d \in Blocks : d.act # "give" /\ d.funds \cup d.spends = {}}}
=============================================================================
