------------------------------ MODULE Payloads ------------------------------
(***************************************************************************)
(* The wire form of the actions: the one push of an OP_RETURN (chain.c)    *)
(* and the strict parse of its payload (decode.c).  Bytes are numbers; the *)
(* widths of the fields and the limits of a push are parameters.           *)
(***************************************************************************)
EXTENDS Naturals, Sequences, SequencesExt

CONSTANTS
  HashLen, AddrLen, PriceLen, WindowLen, AnchorLen,
  MaxName,          \* SM_NAME_MAX
  MaxBody,          \* SM_BODY_MAX
  Letters,          \* the bytes that stand for a-z and 0-9
  Hyphen, Comma,
  OneByte,          \* the first length that needs OP_PUSHDATA1
  TwoBytes,         \* the first length that needs OP_PUSHDATA2
  MaxPayload        \* SM_CARRIER_MAX

ByName == {"RENEW_NAME", "RELEASE_NAME", "RESERVE", "SETTLE", "PAY"}
Opcodes == ByName \cup {"TRANSFER_NAME", "COMMIT", "CLAIM", "RENEW", "TRANSFER",
                        "SELL", "RELEASE", "SELL_TO", "AS", "TRADE"}

-----------------------------------------------------------------------------
(* Bodies *)

\* A lower-case DNS label that no registry would take for an encoded one.
NameValid(s) ==
  /\ Len(s) \in 1..MaxName
  /\ \A i \in DOMAIN s : s[i] \in Letters \cup {Hyphen}
  /\ s[1] # Hyphen /\ s[Len(s)] # Hyphen
  /\ Len(s) >= 4 => s[3] # Hyphen \/ s[4] # Hyphen

Pair(s) ==
  \E i \in DOMAIN s : /\ s[i] = Comma
                      /\ NameValid(SubSeq(s, 1, i - 1))
                      /\ NameValid(SubSeq(s, i + 1, Len(s)))

Form(fixed, tail) == [fixed |-> fixed, tail |-> tail]

\* What follows the fixed fields.
TailOK(tail, s) ==
  CASE tail = "none"  -> s = <<>>
    [] tail = "name"  -> NameValid(s)
    [] tail = "flags" -> s # <<>>
    [] tail = "pair"  -> Pair(s)

\* The forms of an opcode: RENEW and TRANSFER act on all names, or on a bitmap.
Forms(op) ==
  CASE op = "COMMIT"        -> {Form(<<HashLen>>, "none")}
    [] op = "CLAIM"         -> {Form(<<HashLen>>, "name")}
    [] op = "RENEW"         -> {Form(<<>>, "none"), Form(<<AnchorLen>>, "none"),
                                Form(<<AnchorLen>>, "flags")}
    [] op = "TRANSFER"      -> {Form(<<AddrLen>>, "none"),
                                Form(<<AddrLen, AnchorLen>>, "flags")}
    [] op = "SELL"          -> {Form(<<PriceLen, WindowLen>>, "name")}
    [] op \in ByName        -> {Form(<<>>, "name")}
    [] op = "TRANSFER_NAME" -> {Form(<<AddrLen>>, "name")}
    [] op = "RELEASE"       -> {Form(<<AnchorLen>>, "flags")}
    [] op = "SELL_TO"       -> {Form(<<PriceLen, AddrLen>>, "name")}
    [] op = "AS"            -> {Form(<<1>>, "none")}
    [] op = "TRADE"         -> {Form(<<1, 1>>, "pair")}

\* The bytes of the fixed fields.
Width(fixed) ==
  LET Upto[n \in 0..Len(fixed)] == IF n = 0 THEN 0 ELSE Upto[n - 1] + fixed[n]
  IN  Upto[Len(fixed)]

Fits(form, body) ==
  /\ Width(form.fixed) <= Len(body) /\ Len(body) <= MaxBody
  /\ TailOK(form.tail, SubSeq(body, Width(form.fixed) + 1, Len(body)))

\* The i-th fixed field of a body.
Field(fixed, i, body) ==
  LET start == Width(SubSeq(fixed, 1, i - 1))
  IN  SubSeq(body, start + 1, start + fixed[i])

\* decode_action: the actions a body can be read as, none if it is malformed.
Readings(op, body) ==
  {[op     |-> op,
    fields |-> [i \in DOMAIN form.fixed |-> Field(form.fixed, i, body)],
    tail   |-> SubSeq(body, Width(form.fixed) + 1, Len(body))] :
     form \in {f \in Forms(op) : Fits(f, body)}}

\* A payload is a mark, an opcode and a body; everything else is ignored.
Decode(p) == IF p.mark /\ p.op \in Opcodes THEN Readings(p.op, p.body) ELSE {}

Encode(a) == [mark |-> TRUE, op |-> a.op, body |-> FlattenSeq(a.fields) \o a.tail]

-----------------------------------------------------------------------------
(* The push *)

\* Variant: a push may be longer than it need be.
PushOKPadded(class, length) ==
  CASE class = "direct" -> length \in 1..(OneByte - 1)
    [] class = "data1"  -> length \in 1..(TwoBytes - 1)
    [] class = "data2"  -> length \in TwoBytes..MaxPayload
    [] OTHER            -> FALSE

\* The script is OP_RETURN, a push opcode of the class, its length bytes and
\* data: the class and the stated length are what the extraction looks at.
PushOK(class, length) ==
  CASE class = "direct" -> length \in 1..(OneByte - 1)
    [] class = "data1"  -> length \in OneByte..(TwoBytes - 1)
    [] class = "data2"  -> length \in TwoBytes..MaxPayload
    [] OTHER            -> FALSE

\* idx_op_return_payload: the payloads found in a script, at most one; a bare
\* OP_RETURN has the empty one.
Extract(spk) ==
  IF spk.class = "bare" THEN {<<>>}
  ELSE IF PushOK(spk.class, spk.length) /\ spk.length = Len(spk.data) THEN {spk.data}
  ELSE {}
=============================================================================
