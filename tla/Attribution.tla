---------------------------- MODULE Attribution ----------------------------
(***************************************************************************)
(* Who signed an input (attrib.c), and what the fold is told of a          *)
(* transaction (adapter.c).  A scriptSig is a sequence of pushes; a push   *)
(* is what the classifier can tell: a strict signature, a public key, a    *)
(* multisig script, OP_0, other data, or no minimal push at all.  Hashes   *)
(* are the values hashed.                                                  *)
(***************************************************************************)
EXTENDS Naturals, Sequences, SequencesExt, FiniteSets

CONSTANTS
  MaxIn,      \* A_MAX_IN: the inputs the transaction parser holds
  MaxOut,     \* A_MAX_OUT
  OffCurve,   \* well-encoded public keys that are no points of the curve
  PushData,   \* the opcode whose push has a length byte; below it are direct pushes
  Unsigned    \* the identity of an input that is not attributed

-----------------------------------------------------------------------------
(* Classification *)

Zero   == [kind |-> "zero"]
Opcode == [kind |-> "opcode"]   \* no push, a truncated or a padded one
Noise  == [kind |-> "other"]
Sig(k, on) == [kind |-> "sig", by |-> k, on |-> on]  \* on: over this input, SIGHASH_ALL
Pub(k) == [kind |-> "pub", key |-> k]
Script(m, ks) == [kind |-> "script", m |-> m, keys |-> ks]

\* The parser of the attribution has arrays of its own.
Held(tx) == Len(tx.ins) \in 1..MaxIn /\ Len(tx.outs) <= MaxOut

PushesOnly(ss) == \A i \in DOMAIN ss : ss[i] # Opcode

SingleKey(ss) == Len(ss) = 2 /\ ss[1].kind = "sig" /\ ss[2].kind = "pub"

\* OP_0, exactly m signatures, and a script of the m-of-n template.
MultiKey(ss) ==
  /\ Len(ss) >= 3
  /\ ss[1] = Zero
  /\ LET script == Last(ss)
     IN  /\ script.kind = "script"
         /\ script.m \in 1..Len(script.keys)
         /\ Len(ss) - 2 = script.m
  /\ \A i \in 2..(Len(ss) - 1) : ss[i].kind = "sig"

\* What the signatures of an input have to satisfy, and who they speak for.
Claimed(ss) ==
  IF SingleKey(ss)
    THEN [sigs |-> <<ss[1]>>, keys |-> <<ss[2].key>>, id |-> <<ss[2].key>>]
    ELSE [sigs |-> SubSeq(ss, 2, Len(ss) - 1), keys |-> Last(ss).keys,
          id |-> <<Last(ss).m>> \o Last(ss).keys]

Verifies(sig, key) == sig.by = key /\ sig.on

\* Variant: a key that fails is tried again for the next signature.
ScanUnordered(sigs, keys) ==
  \A i \in DOMAIN sigs : \E k \in DOMAIN keys : Verifies(sigs[i], keys[k])

\* One pass over both: a key moves on every time, a signature when it verifies.
ScanKeys(sigs, keys) ==
  LET Met[k \in 0..Len(keys)] ==   \* signatures that the first k keys have met
        IF k = 0 THEN 0
        ELSE IF Met[k - 1] < Len(sigs) /\ Verifies(sigs[Met[k - 1] + 1], keys[k])
        THEN Met[k - 1] + 1
        ELSE Met[k - 1]
  IN  Met[Len(keys)] = Len(sigs)

Status(tx, k) ==
  LET ss == tx.ins[k]
  IN  IF ~(Held(tx) /\ PushesOnly(ss) /\ (SingleKey(ss) \/ MultiKey(ss)))
        THEN "CLASSIFY"
      ELSE IF Range(Claimed(ss).keys) \cap OffCurve # {} THEN "ONCURVE"
      ELSE IF ~ScanKeys(Claimed(ss).sigs, Claimed(ss).keys) THEN "VERIFY"
      ELSE "FOUND"

Attribute(tx, k) ==
  IF Status(tx, k) = "FOUND" THEN [id |-> Claimed(tx.ins[k]).id, all |-> TRUE]
                             ELSE [id |-> Unsigned, all |-> FALSE]

-----------------------------------------------------------------------------
(* FindAndDelete, on bytes *)

\* The place after the operation at p, or 0 if its data runs off the end.
NextOp(s, p) ==
  LET header == IF s[p] = PushData THEN 2 ELSE 1
      data   == IF s[p] < PushData THEN s[p]
                ELSE IF s[p] = PushData /\ p < Len(s) THEN s[p + 1]
                ELSE 0
      next   == p + header + data
  IN  IF next > Len(s) + 1 THEN 0 ELSE next

EmitPush(d) == IF Len(d) < PushData THEN <<Len(d)>> \o d
                                    ELSE <<PushData, Len(d)>> \o d

At(s, p, pat) == SubSeq(s, p, p + Len(pat) - 1) = pat

\* Copies operation by operation and skips the pattern where one begins.
FindAndDelete(s, pat) ==
  LET From[p \in 1..Len(s) + 1] ==
        IF p + Len(pat) - 1 <= Len(s) /\ At(s, p, pat) THEN From[p + Len(pat)]
        ELSE IF p > Len(s) \/ NextOp(s, p) = 0 THEN SubSeq(s, p, Len(s))
        ELSE SubSeq(s, p, NextOp(s, p) - 1) \o From[NextOp(s, p)]
  IN  From[1]

-----------------------------------------------------------------------------
(* The adapter *)

\* Outputs: a carrier with a decoded action, a payment, or neither.
Carriers(tx) == SelectSeq(tx.outs, LAMBDA o : o.kind = "action")
Payments(tx) == SelectSeq(tx.outs, LAMBDA o : o.kind = "payee")

\* Variant: the pair of a trade is not looked at.
NamedByAs(tx) ==
  {c.i : c \in {d \in Range(Carriers(tx)) : d.op = "AS"}} \cap DOMAIN tx.ins

\* The inputs that carriers name: one by AS, two by TRADE.
Named(tx) ==
  (UNION {CASE c.op = "AS"    -> {c.i}
            [] c.op = "TRADE" -> {c.i, c.j}
            [] OTHER          -> {} : c \in Range(Carriers(tx))}) \cap DOMAIN tx.ins

\* Nothing for the fold without a carrier; otherwise every input has its place,
\* and the first and the named ones are attributed.
Adapted(tx) ==
  [skip     |-> Carriers(tx) = <<>>,
   inputs   |-> [k \in DOMAIN tx.ins |->
                   IF k \in {1} \cup Named(tx) THEN Attribute(tx, k)
                   ELSE [id |-> Unsigned, all |-> FALSE]],
   carriers |-> Carriers(tx),
   outs     |-> Payments(tx)]

-----------------------------------------------------------------------------
(* What they promise *)

\* The input is spent for its identity: its keys are points, and its signatures,
\* as many as the script asks, belong to different keys in the order of the script.
SpentBy(ss) ==
  /\ PushesOnly(ss) /\ (SingleKey(ss) \/ MultiKey(ss))
  /\ LET c == Claimed(ss)
     IN  /\ \A k \in DOMAIN c.keys : c.keys[k] \notin OffCurve
         /\ \E f \in [DOMAIN c.sigs -> DOMAIN c.keys] :
              /\ \A i, j \in DOMAIN c.sigs : i < j => f[i] < f[j]
              /\ \A i \in DOMAIN c.sigs : Verifies(c.sigs[i], c.keys[f[i]])

\* FindAndDelete removes the operations that are the pattern and nothing else: what
\* is cut off at the end of a script stays.
Without(s, pat) ==
  LET From[p \in 1..Len(s) + 1] ==
        IF p > Len(s) THEN <<>>
        ELSE IF NextOp(s, p) = 0 THEN SubSeq(s, p, Len(s))
        ELSE IF SubSeq(s, p, NextOp(s, p) - 1) = pat THEN From[NextOp(s, p)]
        ELSE SubSeq(s, p, NextOp(s, p) - 1) \o From[NextOp(s, p)]
  IN  From[1]
=============================================================================
