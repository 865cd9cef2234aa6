---------------------------- MODULE ProofOfWork ----------------------------
(***************************************************************************)
(* The integers of the proof of work, and merged mining (pow.c); the       *)
(* merkle root of a block (chain.c).  A target has Digits digits of base   *)
(* Radix, 32 of base 256 in the program; three of them and a count make    *)
(* its compact form.  A hash is the pair of what is hashed.                *)
(***************************************************************************)
EXTENDS Integers, Sequences, FiniteSets

CONSTANTS
  Radix, Digits,
  Spacing, Slowest, Fastest, Damping,  \* 60 s, the clamps 90 and 45, and 8
  ChainId,     \* nAuxpowChainId
  MaxDepth     \* the longest chain branch, 30

\* b shifted by n digits of base b; the program moves bytes and bits.
Power(b, n) == LET Shifted[k \in 0..n] == IF k = 0 THEN 1 ELSE b * Shifted[k - 1] IN Shifted[n]

\* 1 << n.
Bit(n) == Power(2, n)

Top == Power(Radix, Digits)
Mantissas == Power(Radix, 3)
SignBit == Mantissas \div 2

-----------------------------------------------------------------------------
(* Compact targets: the count of digits times Mantissas, and a mantissa *)

\* Variant: the sign bit is read as a digit.
BitsToTargetUnsigned(bits) ==
  LET size == bits \div Mantissas
      mant == bits % Mantissas
      low  == IF size < 3 THEN mant \div Power(Radix, 3 - size) ELSE mant
  IN  IF size > Digits THEN 0 ELSE low * Power(Radix, (IF size < 3 THEN 3 ELSE size) - 3)

\* 0 for what is no positive target of 256 bits.
BitsToTarget(bits) ==
  LET size == bits \div Mantissas
      mant == bits % Mantissas
      low  == IF size < 3 THEN mant \div Power(Radix, 3 - size) ELSE mant
  IN  IF mant >= SignBit \/ size > Digits THEN 0
      ELSE low * Power(Radix, (IF size < 3 THEN 3 ELSE size) - 3)

\* The count of digits of a target.
Size(t) == CHOOSE n \in 0..Digits : t < Power(Radix, n) /\ (n = 0 \/ t >= Power(Radix, n - 1))

\* A mantissa whose sign bit is set gives up its last digit.
TargetToBits(t) ==
  LET size == Size(t)
      mant == IF size >= 3 THEN t \div Power(Radix, size - 3) ELSE t * Power(Radix, 3 - size)
  IN  IF t = 0 THEN 0
      ELSE IF mant >= SignBit THEN (size + 1) * Mantissas + mant \div Radix
      ELSE size * Mantissas + mant

-----------------------------------------------------------------------------
(* Work and retarget *)

WorkBits == {n \in 1..(Radix * Digits) : Bit(n) = Top}   \* one element: the bits of a target

\* Long division, bit after bit of the dividend, in registers that wrap at Top.
Quotient(a, b) ==
  LET width == CHOOSE n \in WorkBits : TRUE
      Step(n, acc) ==
        LET rem == (2 * acc.rem + ((a \div Bit(n)) % 2)) % Top
        IN  IF rem >= b THEN [rem |-> rem - b, quo |-> acc.quo + Bit(n)]
                        ELSE [rem |-> rem, quo |-> acc.quo]
      From[n \in 0..width] ==   \* after the bits from n up
        IF n = width THEN [rem |-> 0, quo |-> 0] ELSE Step(n, From[n + 1])
  IN  From[0].quo

\* The hashes a target stands for; none for a malformed one.
Work(bits) ==
  LET t == BitsToTarget(bits)
  IN  IF t = 0 THEN 0 ELSE (Quotient(Top - 1 - t, t + 1) + 1) % Top

\* Division that truncates, as in C.
Truncated(a, b) == IF a >= 0 THEN a \div b ELSE -((-a) \div b)

\* The solve time, pulled to the spacing and clamped.
Modulated(actual) ==
  LET m == Spacing + Truncated(actual - Spacing, Damping)
  IN  IF m < Fastest THEN Fastest ELSE IF m > Slowest THEN Slowest ELSE m

\* idx_pow_next_bits: the bits after a block of prev that took actual seconds.
NextBits(prev, actual, limit) ==
  LET wide == (BitsToTarget(prev) * Modulated(actual)) \div Spacing
      most == BitsToTarget(limit)
  IN  IF BitsToTarget(prev) = 0 \/ most = 0 THEN 0
      ELSE TargetToBits(IF wide > most THEN most ELSE wide)

-----------------------------------------------------------------------------
(* Merkle trees *)

Leaf(i) == <<i>>
Node(l, r) == <<l, r>>

\* A level of the tree: a last node without a partner is paired with itself.
Level(s) ==
  [i \in 1..((Len(s) + 1) \div 2) |->
     Node(s[2 * i - 1], s[IF 2 * i > Len(s) THEN 2 * i - 1 ELSE 2 * i])]

Twins(s) == \E i \in 1..(Len(s) \div 2) : s[2 * i - 1] = s[2 * i]

\* The levels from the leaves to the root, which is a level of its own from then on.
Levels(ids) ==
  LET From[n \in 0..Len(ids)] ==
        IF n = 0 THEN ids
        ELSE IF Len(From[n - 1]) <= 1 THEN From[n - 1]
        ELSE Level(From[n - 1])
  IN  From

\* Variant: twins are looked for among the transactions only.
MutatedAtLeaves(ids) == Twins(ids)

\* A pair of equal nodes that the block supplies may stand for one that was padded.
Mutated(ids) == \E n \in 0..Len(ids) : Twins(Levels(ids)[n])

MerkleRoot(ids) == Levels(ids)[Len(ids)][1]

\* merkle_ok of a block with these transactions and this root in its header.
MerkleOK(ids, root) == ids # <<>> /\ ~Mutated(ids) /\ MerkleRoot(ids) = root

-----------------------------------------------------------------------------
(* Merged mining.  The script of the parent's coinbase is a sequence of     *)
(* tokens: the merged-mining mark, a root, a number (size or nonce), or one *)
(* other byte.                                                              *)

Climb(leaf, branch, index) ==
  LET At[n \in 0..Len(branch)] ==
        IF n = 0 THEN leaf
        ELSE IF (index \div Bit(n - 1)) % 2 = 1 THEN Node(branch[n], At[n - 1])
        ELSE Node(At[n - 1], branch[n])
  IN  At[Len(branch)]

Mark == [kind |-> "mark"]
Byte == [kind |-> "byte"]
Root(r) == [kind |-> "root", root |-> r]
Num(n) == [kind |-> "num", n |-> n]

TokenBytes(tok) == CASE tok.kind = "mark" -> 4 [] tok.kind = "root" -> 32
                     [] tok.kind = "num"  -> 4 [] tok.kind = "byte" -> 1

\* The bytes of a script before its token i.
Offset(script, i) ==
  LET Before[k \in 1..i] == IF k = 1 THEN 0 ELSE Before[k - 1] + TokenBytes(script[k - 1])
  IN  Before[i]

\* The slot of this chain in a tree of size leaves: Core's generator, whose low
\* bits depend on low bits only, so that 8 of its 32 are enough here.
Slot(nonce, size) ==
  LET Draw(x) == (x * 109 + 57) % 256   \* 1103515245 and 12345, modulo 256
  IN  Draw((Draw(nonce % 256) + ChainId) % 256) % size

\* Variant: any slot of the tree will do.
SlotOKAny(index, nonce, size) == TRUE

SlotOK(index, nonce, size) == index = Slot(nonce, size)

\* The script commits to the root: right after the only mark, or near its start
\* when there is no mark; a size and a nonce follow.
Commits(script, root, depth, index) ==
  LET marks == {i \in DOMAIN script : script[i] = Mark}
      found == {i \in DOMAIN script : script[i] = Root(root)}
      first == CHOOSE i \in found : \A j \in found : i <= j
  IN  /\ found # {}
      /\ IF marks # {} THEN marks = {first - 1} ELSE Offset(script, first) <= 20
      /\ first + 2 <= Len(script)
      /\ script[first + 1] = Num(Bit(depth))
      /\ script[first + 2].kind = "num"
      /\ SlotOK(index, script[first + 2].n, Bit(depth))

\* The proof of a merged-mined header: a coinbase of the parent, the branches from
\* it to the parent's root and from our header to the root it commits to.
AuxOK(header, aux) ==
  /\ Len(aux.chainBranch) <= MaxDepth
  /\ aux.place = 0
  /\ aux.parent.chain # ChainId
  /\ Climb(aux.coinbase.id, aux.branch, 0) = aux.parent.root
  /\ Commits(aux.coinbase.script, Climb(Leaf(header.id), aux.chainBranch, aux.index),
             Len(aux.chainBranch), aux.index)

\* idx_pow_check: the target is sane, the header is of this chain, and the work is
\* its own or that of a parent that commits to it.
WorkOK(header, limit) ==
  LET target == BitsToTarget(header.bits)
  IN  /\ target # 0 /\ BitsToTarget(limit) # 0
      /\ target <= BitsToTarget(limit)
      /\ header.chain = ChainId
      /\ IF header.merged
           THEN AuxOK(header, header.aux) /\ header.aux.parent.hash <= target
           ELSE header.hash <= target
=============================================================================
