-------------------------- MODULE ConnectionsProofs --------------------------
(***************************************************************************)
(* Theorems of Connections for every value of its constants: whatever      *)
(* connects, drops, is dialed or banned in whatever order, the table of    *)
(* slots keeps its shares.  Then of Outreach, which composes the table     *)
(* with the sync thread: the guarantees survive that thread's dials, and   *)
(* those dials leave nothing open behind them.                             *)
(***************************************************************************)
EXTENDS Outreach, FiniteSetTheorems, TLAPS

\* What a slot is, apart from the others.
ConnOK(c) ==
  /\ c \in Conn
  /\ c.kind = "free" => c = Free
  /\ c.kind = "in" => c.fd
  /\ c.fd => c.ip \in Machines
  /\ c.alive \/ c.up \/ c.handle => c.fd
  /\ c.kind \in Seat => c.host \in Machines \cup Names
  /\ c.kind \in Pool => c.host \in Machines
  /\ c.feeler => c.kind = "mesh"

\* The dialed sockets of a machine and the feelers are one at most: the form
\* of Shares that steps preserve.
OneDialed ==
  \A i, k \in Slot :
    conns[i].fd /\ conns[k].fd /\ Outbound(i) /\ Outbound(k) /\ conns[i].ip = conns[k].ip
       => i = k
OneFeeler == \A i, k \in Slot : conns[i].feeler /\ conns[k].feeler => i = k

Counted ==
  /\ \A m \in Machines : Sockets(m) <= PerHost
  /\ InMesh <= MeshInbound
  /\ Cardinality(Seats({"mesh"})) <= MeshSeats

IInv ==
  /\ world \in Worlds
  /\ conns \in [Slot -> Conn]
  /\ \A i \in Slot : ConnOK(conns[i])
  /\ OneGossip /\ OneDialed /\ OneFeeler /\ Counted /\ OnePerGroup

-----------------------------------------------------------------------------
(* The table *)

\* The slots are finitely many, and so is every set of them.
LEMMA SlotsFinite ==
  ASSUME NEW A \in SUBSET Slot
  PROVE  IsFiniteSet(A) /\ Cardinality(A) \in Nat
<1>1. IsFiniteSet(Slot)
  BY SharesAssumption, FS_Interval DEF Slot
<1> QED
  BY <1>1, FS_Subset, FS_CardinalityType

\* Fewer slots count less, and one more counts one more.
LEMMA SlotsCount ==
  ASSUME NEW A \in SUBSET Slot, NEW B \in SUBSET Slot
  PROVE  /\ A \subseteq B => Cardinality(A) <= Cardinality(B)
         /\ \A i \in Slot : A \subseteq B \cup {i} => Cardinality(A) <= Cardinality(B) + 1
<1>1. IsFiniteSet(A) /\ IsFiniteSet(B) /\ Cardinality(A) \in Nat /\ Cardinality(B) \in Nat
  BY SlotsFinite
<1>2. A \subseteq B => Cardinality(A) <= Cardinality(B)
  BY <1>1, FS_Subset
<1>3. ASSUME NEW i \in Slot, A \subseteq B \cup {i}
      PROVE  Cardinality(A) <= Cardinality(B) + 1
  <2>1. IsFiniteSet(B \cup {i}) /\ Cardinality(B \cup {i}) \in {Cardinality(B), Cardinality(B) + 1}
    BY <1>1, FS_AddElement
  <2>2. Cardinality(A) <= Cardinality(B \cup {i})
    BY <1>3, <2>1, FS_Subset
  <2> QED
    BY <1>1, <2>1, <2>2
<1> QED
  BY <1>2, <1>3

\* A set of numbers that is not empty has a least one.
LEMMA LeastNumber ==
  ASSUME NEW S \in SUBSET Nat, S # {}
  PROVE  \E n \in S : \A k \in S : n <= k
<1> DEFINE T == {1 .. n : n \in S}
<1>1. T \subseteq FiniteSubsetsOf(Nat) /\ T # {}
  <2>1. ASSUME NEW n \in S PROVE IsFiniteSet(1 .. n) /\ 1 .. n \in SUBSET Nat
    BY FS_Interval
  <2> QED
    BY <2>1 DEF FiniteSubsetsOf
<1>2. PICK t \in T : \A u \in T : ~(<<u, t>> \in StrictSubsetOrdering(Nat))
  <2> HIDE DEF T
  <2>1. IsWellFoundedOn(StrictSubsetOrdering(Nat), FiniteSubsetsOf(Nat))
    BY FS_StrictSubsetOrderingWellFounded
  <2> QED
    BY <1>1, <2>1, WFMin
<1>3. PICK n \in S : t = 1 .. n
  OBVIOUS
<1>4. ASSUME NEW k \in S, k < n PROVE FALSE
  <2>1. 1 .. k \in SUBSET Nat /\ 1 .. n \in SUBSET Nat /\ 1 .. k \subseteq 1 .. n
    BY <1>4
  <2>2. n \in 1 .. n /\ n \notin 1 .. k
    BY <1>4
  <2>3. <<1 .. k, 1 .. n>> \in StrictSubsetOrdering(Nat)
    BY <2>1, <2>2 DEF StrictSubsetOrdering
  <2> QED
    BY <1>2, <1>3, <2>3
<1> QED
  BY <1>4

\* The first free slot is free, when there is one (sync.c:2568).
LEMMA RoomIsFree ==
  ASSUME HasRoom
  PROVE  Room \in Slot /\ conns[Room].kind = "free"
<1> DEFINE S == {i \in Slot : conns[i].kind = "free"}
<1>1. S \in SUBSET Nat /\ S # {}
  BY SharesAssumption DEF HasRoom, Slot
<1>2. PICK n \in S : \A k \in S : n <= k
  <2> HIDE DEF S
  <2> QED
    BY <1>1, LeastNumber
<1>3. \A k \in 1 .. n - 1 : conns[k].kind # "free"
  BY <1>2, SharesAssumption DEF Slot
<1>4. \E i \in Slot : conns[i].kind = "free" /\ \A k \in 1 .. i - 1 : conns[k].kind # "free"
  BY <1>2, <1>3
<1> QED
  BY <1>4 DEF Room

-----------------------------------------------------------------------------
(* One slot changes *)

\* Connection d holds nothing that connection c did not hold.
Shrinks(c, d) ==
  /\ d.kind \in {c.kind, "free"}
  /\ d.fd => c.fd /\ d.ip = c.ip
  /\ d.handle => c.handle
  /\ d.feeler => c.feeler
  /\ d.kind \in Pool => d.host = c.host

\* Slot i becomes d, which is a sound connection.
Sets(i, d) == ConnOK(d) /\ conns' = [conns EXCEPT ![i] = d] /\ world' = world

LEMMA SetSlot ==
  ASSUME IInv, NEW i \in Slot, NEW d, Sets(i, d)
  PROVE  /\ world' \in Worlds
         /\ conns' \in [Slot -> Conn]
         /\ \A k \in Slot : conns'[k] = (IF k = i THEN d ELSE conns[k])
         /\ \A k \in Slot : ConnOK(conns[k]) /\ ConnOK(conns'[k])
<1>1. conns \in [Slot -> Conn] /\ d \in Conn
  BY DEF IInv, Sets, ConnOK
<1>2. conns' \in [Slot -> Conn] /\ \A k \in Slot : conns'[k] = (IF k = i THEN d ELSE conns[k])
  BY <1>1 DEF Sets
<1> QED
  BY <1>2 DEF IInv, Sets

\* What the steps below look at: the mesh handles of slots.
LEMMA GossipKept ==
  ASSUME IInv, NEW i \in Slot, NEW d, Sets(i, d),
         d.handle => \/ conns[i].handle /\ d.ip = conns[i].ip
                     \/ \A k \in Slot \ {i} : ~(conns[k].handle /\ conns[k].ip = d.ip)
  PROVE  OneGossip'
  BY SetSlot DEF IInv, OneGossip

\* The dialed sockets of slots.
LEMMA DialedKept ==
  ASSUME IInv, NEW i \in Slot, NEW d, Sets(i, d),
         d.fd /\ d.kind \in Seat =>
            \/ conns[i].fd /\ conns[i].kind \in Seat /\ d.ip = conns[i].ip
            \/ \A k \in Slot \ {i} : ~(conns[k].fd /\ conns[k].ip = d.ip)
  PROVE  OneDialed'
  BY SetSlot DEF IInv, OneDialed, Outbound

\* The feelers.
LEMMA FeelerKept ==
  ASSUME IInv, NEW i \in Slot, NEW d, Sets(i, d),
         d.feeler => conns[i].feeler \/ \A k \in Slot : ~conns[k].feeler
  PROVE  OneFeeler'
  BY SetSlot DEF IInv, OneFeeler

\* The /16 of the seats of each pool.
LEMMA GroupKept ==
  ASSUME IInv, NEW i \in Slot, NEW d, Sets(i, d),
         \/ d.kind \notin Pool
         \/ d.kind = conns[i].kind /\ d.host = conns[i].host
         \/ \A k \in Seats({d.kind}) : world.group[conns[k].host] # world.group[d.host]
  PROVE  OnePerGroup'
<1>1. \A k \in Slot : conns'[k] = (IF k = i THEN d ELSE conns[k])
  BY SetSlot
<1>2. SUFFICES ASSUME NEW kind \in Pool, NEW j \in Slot, NEW k \in Slot, j # k,
                      conns'[j].kind = kind, conns'[k].kind = kind
               PROVE  world.group[conns'[j].host] # world.group[conns'[k].host]
  BY DEF OnePerGroup, Seats, Sets
<1>3. \A x, y \in Slot : x # y /\ conns[x].kind = kind /\ conns[y].kind = kind
         => world.group[conns[x].host] # world.group[conns[y].host]
  BY DEF IInv, OnePerGroup, Seats
<1>4. CASE j # i /\ k # i
  BY <1>1, <1>2, <1>3, <1>4
<1>5. CASE d.kind = conns[i].kind /\ d.host = conns[i].host
  BY <1>1, <1>2, <1>3, <1>5
<1>6. CASE /\ j = i \/ k = i
           /\ \A x \in Seats({d.kind}) : world.group[conns[x].host] # world.group[d.host]
  BY <1>1, <1>2, <1>6 DEF Seats
<1>7. CASE d.kind \notin Pool
  BY <1>1, <1>2, <1>3, <1>7
<1> QED
  BY <1>4, <1>5, <1>6, <1>7

\* The counts: what a slot adds to each of them it added before, or there is
\* room for one more.
LEMMA CountedKept ==
  ASSUME IInv, NEW i \in Slot, NEW d, Sets(i, d),
         d.fd => \/ conns[i].fd /\ d.ip = conns[i].ip
                 \/ Sockets(d.ip) < PerHost,
         d.handle /\ d.kind \notin Seat =>
            \/ conns[i].handle /\ conns[i].kind \notin Seat
            \/ InMesh < MeshInbound,
         d.kind = "mesh" => conns[i].kind = "mesh" \/ Cardinality(Seats({"mesh"})) < MeshSeats
  PROVE  Counted'
<1>1. /\ \A k \in Slot : conns'[k] = (IF k = i THEN d ELSE conns[k])
      /\ \A k \in Slot : ConnOK(conns[k]) /\ ConnOK(conns'[k])
      /\ Counted
  BY SetSlot DEF IInv
<1> USE SharesAssumption
<1>2. ASSUME NEW m \in Machines PROVE Sockets(m)' <= PerHost
  <2> DEFINE A == {k \in Slot : conns[k].fd /\ conns[k].ip = m}
             B == {k \in Slot : conns'[k].fd /\ conns'[k].ip = m}
  <2>1. Sockets(m) = Cardinality(A) /\ Sockets(m)' = Cardinality(B)
    BY DEF Sockets, Live
  <2>2. Cardinality(A) \in Nat /\ Cardinality(B) \in Nat /\ Cardinality(A) <= PerHost
    BY <1>1, <2>1, SlotsFinite DEF Counted
  <2>3. B \subseteq A \cup {i}
    BY <1>1
  <2>4. CASE B \subseteq A
    BY <2>1, <2>2, <2>4, SlotsCount
  <2>5. CASE ~(B \subseteq A)
    <3>1. d.fd /\ d.ip = m /\ ~(conns[i].fd /\ conns[i].ip = m)
      BY <1>1, <2>5
    <3>2. Cardinality(A) < PerHost
      BY <2>1, <3>1
    <3> QED
      BY <2>1, <2>2, <2>3, <3>2, SlotsCount
  <2> QED
    BY <2>4, <2>5
<1>3. InMesh' <= MeshInbound
  <2> DEFINE A == {k \in Slot : conns[k].fd /\ ~(conns[k].kind \in Seat) /\ conns[k].handle}
             B == {k \in Slot : conns'[k].fd /\ ~(conns'[k].kind \in Seat) /\ conns'[k].handle}
  <2>1. InMesh = Cardinality(A) /\ InMesh' = Cardinality(B)
    BY DEF InMesh, Outbound
  <2>2. Cardinality(A) \in Nat /\ Cardinality(B) \in Nat /\ Cardinality(A) <= MeshInbound
    BY <1>1, <2>1, SlotsFinite DEF Counted
  <2>3. B \subseteq A \cup {i}
    BY <1>1
  <2>4. CASE B \subseteq A
    BY <2>1, <2>2, <2>4, SlotsCount
  <2>5. CASE ~(B \subseteq A)
    <3>1. d.handle /\ d.kind \notin Seat /\ ~(conns[i].handle /\ conns[i].kind \notin Seat)
      BY <1>1, <2>5 DEF ConnOK
    <3>2. Cardinality(A) < MeshInbound
      BY <2>1, <3>1
    <3> QED
      BY <2>1, <2>2, <2>3, <3>2, SlotsCount
  <2> QED
    BY <2>4, <2>5
<1>4. Cardinality(Seats({"mesh"}))' <= MeshSeats
  <2> DEFINE A == Seats({"mesh"})
             B == {k \in Slot : conns'[k].kind \in {"mesh"}}
  <2>1. Cardinality(Seats({"mesh"}))' = Cardinality(B) /\ A \in SUBSET Slot
    BY DEF Seats
  <2>2. Cardinality(A) \in Nat /\ Cardinality(B) \in Nat /\ Cardinality(A) <= MeshSeats
    BY <1>1, <2>1, SlotsFinite DEF Counted
  <2>3. B \subseteq A \cup {i}
    BY <1>1 DEF Seats
  <2>4. CASE B \subseteq A
    BY <2>1, <2>2, <2>4, SlotsCount
  <2>5. CASE ~(B \subseteq A)
    <3>1. d.kind = "mesh" /\ conns[i].kind # "mesh"
      BY <1>1, <2>5 DEF Seats
    <3> QED
      BY <2>1, <2>2, <2>3, <3>1, SlotsCount
  <2> QED
    BY <2>4, <2>5
<1> QED
  BY <1>2, <1>3, <1>4 DEF Counted

\* No banned machine gets a socket, or keeps one by another slot.
BanRespected ==
  \A m \in Machines : Banned(m) => \A i \in Slot : Live(i, m)' => Live(i, m)

\* What every step does.
Keeps == IInv' /\ BanRespected

\* The sockets of banned machines.
LEMMA BanKept ==
  ASSUME IInv, NEW i \in Slot, NEW d, Sets(i, d),
         d.fd => \/ conns[i].fd /\ d.ip = conns[i].ip
                 \/ ~Banned(d.ip)
  PROVE  BanRespected
  BY SetSlot DEF BanRespected, Live

\* A connection that ends, waits, is silent or misbehaves takes nothing.
LEMMA ShrinkKeeps ==
  ASSUME IInv, NEW i \in Slot, NEW d, Sets(i, d), Shrinks(conns[i], d)
  PROVE  Keeps
<1>1. ConnOK(conns[i]) /\ ConnOK(d)
  BY DEF IInv, Sets
<1>2. OneGossip'
  BY <1>1, GossipKept DEF Shrinks, ConnOK
<1>3. OneDialed'
  BY <1>1, DialedKept DEF Shrinks, ConnOK, Seat
<1>4. OneFeeler'
  BY FeelerKept DEF Shrinks
<1>5. OnePerGroup'
  BY <1>1, GroupKept DEF Shrinks, Pool
<1>6. Counted'
  BY <1>1, CountedKept DEF Shrinks, ConnOK, Seat, Free
<1>7. BanRespected
  BY BanKept DEF Shrinks
<1> QED
  BY <1>2, <1>3, <1>4, <1>5, <1>6, <1>7, SetSlot DEF IInv, Keeps

\* The fields of a connection.
LEMMA FieldsOf ==
  ASSUME NEW c, c \in Conn
  PROVE  /\ c.kind \in {"free", "in", "cfg", "mesh", "chain"}
         /\ c.host \in Machines \cup Names \cup {Nobody} /\ c.ip \in Machines \cup {Nobody}
         /\ c.fd \in BOOLEAN /\ c.alive \in BOOLEAN /\ c.up \in BOOLEAN
         /\ c.marked \in BOOLEAN /\ c.handle \in BOOLEAN /\ c.feeler \in BOOLEAN
         /\ c.wait \in BOOLEAN /\ c.score \in Nat
         /\ c = [kind |-> c.kind, host |-> c.host, ip |-> c.ip, fd |-> c.fd,
                 alive |-> c.alive, up |-> c.up, marked |-> c.marked, handle |-> c.handle,
                 feeler |-> c.feeler, wait |-> c.wait, score |-> c.score]
  BY DEF Conn, Seat

LEMMA ScoreGrows ==
  ASSUME NEW c, c \in Conn
  PROVE  c.score + 1 \in Nat
  BY DEF Conn

LEMMA FreeFields ==
  /\ Free \in Conn /\ ConnOK(Free)
  /\ Free.kind = "free" /\ Free.host = Nobody /\ ~Free.fd /\ ~Free.alive /\ ~Free.up
  /\ ~Free.handle /\ ~Free.feeler /\ ~Free.wait
  BY DEF Free, Conn, ConnOK, Seat, Pool

\* A slot that is let go.
LEMMA FreeShrinks ==
  ASSUME NEW c, ConnOK(c)
  PROVE  ConnOK(Free) /\ Shrinks(c, Free)
  BY DEF ConnOK, Shrinks, Free, Conn, Seat, Pool

\* serve_drop.
LEMMA DroppedShrinks ==
  ASSUME NEW c, ConnOK(c), c.fd
  PROVE  ConnOK(Dropped(c)) /\ Shrinks(c, Dropped(c))
<1>1. CASE c.kind = "in"
  BY <1>1, FreeShrinks DEF Dropped
<1>2. CASE c.kind # "in"
  <2> DEFINE d == Dropped(c)
  <2>1. c \in Conn /\ c.kind \in Seat
    BY <1>2, FieldsOf DEF ConnOK, Free, Seat
  <2>2. d = [kind |-> c.kind, host |-> c.host, ip |-> c.ip, fd |-> FALSE, alive |-> FALSE,
             up |-> FALSE, marked |-> FALSE, handle |-> FALSE, feeler |-> c.feeler,
             wait |-> TRUE, score |-> 0]
    BY <1>2 DEF Dropped, Free
  <2>3. d \in Conn
    BY <2>1, <2>2, FieldsOf DEF Conn
  <2> QED
    BY <2>1, <2>2, <2>3 DEF ConnOK, Shrinks, Seat
<1> QED
  BY <1>1, <1>2

-----------------------------------------------------------------------------
(* One lemma for each kind of step *)

\* A connection ends: serve_drop on a close, a sweep or a ban.
LEMMA DropStep ==
  ASSUME IInv, NEW i \in Slot, conns[i].fd, Drop(i), world' = world
  PROVE  Keeps
<1>1. ConnOK(Dropped(conns[i])) /\ Shrinks(conns[i], Dropped(conns[i]))
  BY DroppedShrinks DEF IInv
<1>2. Sets(i, Dropped(conns[i]))
  BY <1>1 DEF Sets, Drop
<1> QED
  BY <1>1, <1>2, ShrinkKeeps

\* A flag of a slot in use changes, or the address of one without a socket.
LEMMA FlagStep ==
  ASSUME IInv, NEW i \in Slot, NEW d, world' = world,
         conns' = [conns EXCEPT ![i] = d], conns[i].kind # "free",
         \/ d = [conns[i] EXCEPT !.alive = FALSE]
         \/ d = [conns[i] EXCEPT !.up = TRUE] /\ conns[i].fd
         \/ d = [conns[i] EXCEPT !.wait = FALSE]
         \/ d = [conns[i] EXCEPT !.score = @ + 1]
         \/ /\ \E m \in Machines \cup {Nobody} :
                 d \in {[conns[i] EXCEPT !.ip = m], [conns[i] EXCEPT !.ip = m, !.wait = TRUE]}
            /\ ~conns[i].fd
  PROVE  Keeps
<1> DEFINE c == conns[i]
<1>1. c \in Conn /\ ConnOK(c) /\ c.kind # "free"
  BY DEF IInv
<1>2. /\ d \in Conn /\ d.kind = c.kind /\ d.host = c.host /\ d.handle = c.handle
      /\ d.feeler = c.feeler /\ d.fd = c.fd
      /\ c.fd => d.ip = c.ip
      /\ ~c.fd => ~d.alive /\ ~d.up
  <2> HIDE DEF c
  <2>1. CASE d = [c EXCEPT !.alive = FALSE]
    BY <1>1, <2>1 DEF ConnOK, Conn
  <2>2. CASE d = [c EXCEPT !.up = TRUE] /\ c.fd
    BY <1>1, <2>2 DEF Conn
  <2>3. CASE d = [c EXCEPT !.wait = FALSE]
    BY <1>1, <2>3 DEF ConnOK, Conn
  <2>4. CASE d = [c EXCEPT !.score = @ + 1]
    <3>1. c.score + 1 \in Nat
      BY <1>1, ScoreGrows
    <3> QED
      BY <1>1, <2>4, <3>1 DEF ConnOK, Conn
  <2>5. CASE /\ \E m \in Machines \cup {Nobody} :
                  d \in {[c EXCEPT !.ip = m], [c EXCEPT !.ip = m, !.wait = TRUE]}
             /\ ~c.fd
    BY <1>1, <2>5 DEF ConnOK, Conn
  <2> QED
    BY <2>1, <2>2, <2>3, <2>4, <2>5 DEF c
<1>3. ConnOK(d) /\ Shrinks(c, d)
  <2> HIDE DEF c
  <2> QED
    BY <1>1, <1>2 DEF ConnOK, Shrinks
<1> QED
  BY <1>3, ShrinkKeeps DEF Sets

\* accept: the machine has room for one more socket.
LEMMA AcceptStep ==
  ASSUME IInv, NEW m \in Machines, Accept(m)
  PROVE  Keeps
<1> DEFINE d == [Free EXCEPT !.kind = "in", !.ip = m, !.fd = TRUE, !.alive = TRUE]
           i == Room
<1>1. i \in Slot /\ conns[i].kind = "free"
  BY RoomIsFree DEF Accept
<1>2. /\ d \in Conn /\ d.kind = "in" /\ d.ip = m /\ d.fd
      /\ ~d.handle /\ ~d.feeler
  BY FreeFields DEF Conn
<1> HIDE DEF d
<1>3. ConnOK(d)
  BY <1>2 DEF ConnOK, Seat, Pool
<1>4. Sets(i, d)
  BY <1>3 DEF Sets, Accept, d
<1>5. Sockets(d.ip) < PerHost /\ d.fd /\ ~d.handle /\ ~d.feeler /\ d.kind = "in"
  BY <1>2 DEF Accept, MayAccept
<1> HIDE DEF i
<1>6. OneGossip' /\ OneFeeler'
  BY <1>1, <1>4, <1>5, GossipKept, FeelerKept
<1>7. OneDialed'
  BY <1>1, <1>4, <1>5, DialedKept DEF Seat
<1>8. OnePerGroup'
  BY <1>1, <1>4, <1>5, GroupKept DEF Pool
<1>9. Counted'
  BY <1>1, <1>4, <1>5, CountedKept
<1>10. BanRespected
  BY <1>1, <1>2, <1>4, BanKept DEF Accept, MayAccept
<1> QED
  BY <1>1, <1>4, <1>6, <1>7, <1>8, <1>9, <1>10, SetSlot DEF IInv, Keeps

\* version from a caller: a mesh handle only for a machine without one, while
\* there are some left (sync.c:1780-1792).
LEMMA VersionStep ==
  ASSUME IInv, NEW i \in Slot, Version(i)
  PROVE  Keeps
<1> DEFINE c == conns[i]
           h == Handed(i, c.ip) /\ InMesh < MeshInbound
           d == [c EXCEPT !.up = TRUE, !.marked = Marked(c.ip), !.handle = h]
<1>1. c \in Conn /\ ConnOK(c) /\ c.kind = "in" /\ c.fd
  BY DEF IInv, Version, ConnOK
<1>2. conns' = [conns EXCEPT ![i] = d] /\ world' = world
  BY DEF Version
<1>3. /\ d \in Conn /\ d.kind = "in" /\ d.host = c.host /\ d.handle = h
      /\ d.feeler = c.feeler /\ d.fd /\ d.ip = c.ip
  <2>1. h \in BOOLEAN /\ Marked(c.ip) \in BOOLEAN
    BY DEF Handed, Marked
  <2> HIDE DEF c, h
  <2> QED
    BY <1>1, <2>1 DEF Conn
<1> HIDE DEF d
<1>4. Sets(i, d)
  BY <1>1, <1>2, <1>3 DEF Sets, ConnOK, Seat, Pool
<1>5. OneGossip'
  <2>1. h => \A k \in Slot \ {i} : ~(conns[k].handle /\ conns[k].ip = d.ip)
    BY <1>3 DEF Handed, MeshOnHost, Live, IInv, ConnOK
  <2> QED
    BY <1>3, <1>4, <2>1, GossipKept
<1>6. OneDialed'
  BY <1>3, <1>4, DialedKept DEF Seat
<1>7. OneFeeler'
  BY <1>3, <1>4, FeelerKept
<1>8. OnePerGroup'
  BY <1>3, <1>4, GroupKept DEF Pool
<1>9. Counted'
  BY <1>1, <1>3, <1>4, CountedKept
<1>10. BanRespected
  BY <1>1, <1>3, <1>4, BanKept
<1> QED
  BY <1>4, <1>5, <1>6, <1>7, <1>8, <1>9, <1>10, SetSlot DEF IInv, Keeps

\* A pool points a free slot at a machine of a /16 that it has no seat in.
LEMMA PointStep ==
  ASSUME IInv, HasRoom, NEW kind \in Pool, NEW m \in Machines, NEW f \in BOOLEAN,
         Point(kind, m, f), world' = world,
         kind = "mesh" => Cardinality(Seats({"mesh"})) < MeshSeats,
         ~Clash({kind}, m),
         f => kind = "mesh" /\ \A k \in Slot : ~conns[k].feeler
  PROVE  Keeps
<1> DEFINE d == [SeatAt(kind, m) EXCEPT !.feeler = f]
           i == Room
<1>1. i \in Slot /\ conns[i].kind = "free" /\ conns' = [conns EXCEPT ![i] = d]
  BY RoomIsFree DEF Point
<1>2. /\ d \in Conn /\ d.kind = kind /\ d.host = m /\ ~d.fd /\ ~d.alive /\ ~d.up
      /\ ~d.handle /\ d.feeler = f
  <2>1. kind \in {"free", "in"} \cup Seat
    BY DEF Pool, Seat
  <2> QED
    BY <2>1, FreeFields DEF SeatAt, Conn
<1> HIDE DEF d
<1>3. Sets(i, d)
  BY <1>1, <1>2 DEF Sets, ConnOK, Seat, Pool
<1>4. OneGossip'
  BY <1>1, <1>2, <1>3, GossipKept
<1>5. OneDialed'
  BY <1>1, <1>2, <1>3, DialedKept
<1>6. OneFeeler'
  BY <1>1, <1>2, <1>3, FeelerKept
<1>7. OnePerGroup'
  <2>1. \A k \in Seats({kind}) : conns[k].host \in Machines
    BY DEF IInv, ConnOK, Seats
  <2>2. \A k \in Seats({kind}) : world.group[conns[k].host] # world.group[m]
    BY <2>1 DEF Clash
  <2> QED
    BY <1>1, <1>2, <1>3, <2>2, GroupKept
<1>8. Counted'
  BY <1>1, <1>2, <1>3, CountedKept
<1>9. BanRespected
  BY <1>1, <1>2, <1>3, BanKept
<1> QED
  BY <1>1, <1>3, <1>4, <1>5, <1>6, <1>7, <1>8, <1>9, SetSlot DEF IInv, Keeps

\* The machine a seat names is a machine.
LEMMA ResolveType ==
  ASSUME IInv, NEW i \in Slot, Outbound(i)
  PROVE  Resolve(conns[i].host) \in Machines
<1>1. conns[i].host \in Machines \cup Names /\ world.dns \in [Names -> Machines]
  BY WorldsAssumption DEF IInv, ConnOK, Outbound
<1> QED
  BY <1>1 DEF Resolve

\* serve_dial lands: no other slot holds the machine.
LEMMA LandedStep ==
  ASSUME IInv, NEW i \in Slot, NEW m \in Machines, Ready(i), ~HostLive({i}, m),
         Landed(i, m), world' = world
  PROVE  Keeps
<1> DEFINE c == conns[i]
           h == Handed(i, m)
           d == [c EXCEPT !.ip = m, !.fd = TRUE, !.alive = TRUE, !.up = TRUE,
                          !.marked = Marked(m), !.feeler = FALSE, !.handle = h]
<1>1. c \in Conn /\ ConnOK(c) /\ c.kind \in Seat /\ ~c.fd
  BY DEF IInv, Ready, Outbound
<1>2. CASE c.kind = "mesh" /\ ~Marked(m)
  <2>1. conns' = [conns EXCEPT ![i] = Free]
    BY <1>2 DEF Landed
  <2> QED
    BY <1>1, <2>1, FreeShrinks, ShrinkKeeps DEF Sets
<1>3. CASE ~(c.kind = "mesh" /\ ~Marked(m))
  <2>1. conns' = [conns EXCEPT ![i] = d]
    BY <1>3 DEF Landed
  <2>2. /\ d \in Conn /\ d.kind = c.kind /\ d.host = c.host /\ d.handle = h
        /\ ~d.feeler /\ d.fd /\ d.ip = m
    <3>1. h \in BOOLEAN /\ Marked(m) \in BOOLEAN
      BY DEF Handed, Marked
    <3> HIDE DEF c, h
    <3> QED
      BY <1>1, <3>1 DEF Conn
  <2> HIDE DEF d
  <2>3. Sets(i, d)
    BY <1>1, <2>1, <2>2 DEF Sets, ConnOK, Seat
  <2>4. \A k \in Slot \ {i} : ~(conns[k].fd /\ conns[k].ip = m)
    BY DEF HostLive, Live
  <2>5. OneGossip'
    BY <2>2, <2>3, <2>4, GossipKept DEF IInv, ConnOK
  <2>6. OneDialed'
    BY <2>2, <2>3, <2>4, DialedKept
  <2>7. OneFeeler'
    BY <2>2, <2>3, FeelerKept
  <2>8. OnePerGroup'
    BY <2>2, <2>3, GroupKept
  <2>9. Counted'
    <3>1. Sockets(m) < PerHost
      <4>1. {k \in Slot : Live(k, m)} = {}
        BY <1>1, <2>4 DEF Live
      <4> QED
        BY <4>1, FS_EmptySet, SharesAssumption DEF Sockets
    <3> QED
      BY <1>1, <2>2, <2>3, <3>1, CountedKept
  <2>10. BanRespected
    BY <1>3, <2>2, <2>3, BanKept DEF Landed
  <2> QED
    BY <2>3, <2>5, <2>6, <2>7, <2>8, <2>9, <2>10, SetSlot DEF IInv, Keeps
<1> QED
  BY <1>2, <1>3

\* A seat dials, in each of its outcomes (sync.c:2408-2536).
LEMMA DialStep ==
  ASSUME IInv, NEW i \in Slot, Dial(i)
  PROVE  Keeps
<1> DEFINE m == Resolve(conns[i].host)
<1>1. /\ ConnOK(conns[i]) /\ Outbound(i) /\ ~conns[i].fd /\ world' = world
      /\ conns[i].kind # "free" /\ m \in Machines
  BY ResolveType DEF IInv, Dial, Ready, Outbound, Seat
<1> HIDE DEF m
<1>2. ASSUME conns' = [conns EXCEPT ![i] = Free] PROVE Keeps
  BY <1>1, <1>2, FreeShrinks, ShrinkKeeps DEF Sets
<1>3. ASSUME NEW t \in Machines \cup {Nobody},
             \/ conns' = [conns EXCEPT ![i] = [conns[i] EXCEPT !.ip = t]]
             \/ conns' = [conns EXCEPT ![i] = [conns[i] EXCEPT !.ip = t, !.wait = TRUE]]
      PROVE  Keeps
  BY <1>1, <1>3, FlagStep
<1>4. CASE ParkPool(i)
  BY <1>2, <1>4 DEF ParkPool
<1>5. CASE NoDns(i)
  <2>1. conns' = [conns EXCEPT ![i] = [conns[i] EXCEPT !.ip = Nobody, !.wait = TRUE]]
    BY <1>5 DEF NoDns, IInv
  <2> QED
    BY <1>3, <2>1
<1>6. CASE ParkFresh(i, m)
  BY <1>1, <1>3, <1>6 DEF ParkFresh
<1>7. CASE DropSelf(i, m)
  BY <1>2, <1>7 DEF DropSelf
<1>8. CASE Refused(i, m)
  BY <1>1, <1>2, <1>3, <1>8 DEF Refused, Release
<1>9. CASE Landed(i, m) /\ ~HostLive({i}, m)
  BY <1>1, <1>9, LandedStep DEF Dial
<1> QED
  BY <1>4, <1>5, <1>6, <1>7, <1>8, <1>9 DEF Dial, m

\* A tick points a seat: the overlay's, with one feeler, and the chain's.
LEMMA MeshSeatStep == IInv /\ MeshSeat => Keeps
<1> SUFFICES ASSUME IInv, MeshSeat PROVE Keeps
  OBVIOUS
<1> DEFINE mesh == Seats({"mesh"})
           feelers == {i \in mesh : conns[i].feeler}
           confirmed == MeshPick({m \in Machines : Confirmed(m)})
           vouched == MeshPick({m \in Machines : Vouched(m)})
<1>1. /\ Cardinality(mesh) < MeshSeats /\ HasRoom /\ world' = world
      /\ \/ \E m \in confirmed : Point("mesh", m, FALSE)
         \/ feelers = {} /\ \E m \in vouched : Point("mesh", m, TRUE)
  BY DEF MeshSeat
<1>2. \A k \in Slot : conns[k].feeler => k \in feelers
  BY DEF IInv, ConnOK, Seats
<1>3. ASSUME NEW m \in confirmed, Point("mesh", m, FALSE) PROVE Keeps
  BY <1>1, <1>3, PointStep DEF MeshPick, Pool
<1>4. ASSUME feelers = {}, NEW m \in vouched, Point("mesh", m, TRUE) PROVE Keeps
  BY <1>1, <1>2, <1>4, PointStep DEF MeshPick, Pool
<1> QED
  BY <1>1, <1>3, <1>4

LEMMA ChainSeatStep == IInv /\ ChainSeat => Keeps
<1> SUFFICES ASSUME IInv, ChainSeat PROVE Keeps
  OBVIOUS
<1>1. PICK m \in Machines : ~Clash(Seat, m) /\ Point("chain", m, FALSE)
  BY DEF ChainSeat
<1>2. ~Clash({"chain"}, m)
  BY <1>1 DEF Clash, Seats, Seat
<1> QED
  BY <1>1, <1>2, PointStep DEF ChainSeat, Pool

-----------------------------------------------------------------------------
(* The theorems *)

LEMMA InitInv == Init => IInv
<1> SUFFICES ASSUME Init PROVE IInv
  OBVIOUS
<1>1. world \in Worlds /\ world.peers \in Seq(Machines \cup Names)
  BY WorldsAssumption DEF Init
<1>2. ASSUME NEW t \in Machines \cup Names
      PROVE  LET d == SeatAt("cfg", t)
             IN  ConnOK(d) /\ d.kind = "cfg" /\ ~d.fd /\ ~d.handle /\ ~d.feeler
  <2> DEFINE d == SeatAt("cfg", t)
  <2>1. /\ d \in Conn /\ d.kind = "cfg" /\ d.host = t /\ ~d.fd /\ ~d.alive /\ ~d.up
        /\ ~d.handle /\ ~d.feeler
    BY FreeFields DEF SeatAt, Conn, Seat
  <2> HIDE DEF d
  <2>2. ConnOK(d)
    BY <2>1 DEF ConnOK, Pool, Seat
  <2> QED
    BY <2>1, <2>2 DEF d
<1>3. ASSUME NEW i \in Slot
      PROVE  /\ ConnOK(conns[i]) /\ ~conns[i].fd /\ ~conns[i].handle /\ ~conns[i].feeler
             /\ conns[i].kind \in {"cfg", "free"}
  <2>1. CASE i <= Len(world.peers)
    <3>1. world.peers[i] \in Machines \cup Names
      BY <1>1, <2>1, SharesAssumption DEF Slot
    <3>2. conns[i] = SeatAt("cfg", world.peers[i])
      BY <2>1 DEF Init
    <3> QED
      BY <1>2, <3>1, <3>2
  <2>2. CASE ~(i <= Len(world.peers))
    <3>1. conns[i] = Free
      BY <2>2 DEF Init
    <3> QED
      BY <3>1, FreeFields
  <2> QED
    BY <2>1, <2>2
<1>4. conns \in [Slot -> Conn]
  <2>1. conns = [i \in Slot |-> conns[i]]
    BY DEF Init
  <2> QED
    BY <1>3, <2>1 DEF ConnOK
<1>5. Counted
  <2>1. ASSUME NEW m \in Machines PROVE {i \in Slot : Live(i, m)} = {}
    BY <1>3 DEF Live
  <2>2. {i \in Slot : conns[i].fd /\ ~Outbound(i) /\ conns[i].handle} = {}
    BY <1>3
  <2>3. Seats({"mesh"}) = {}
    BY <1>3 DEF Seats
  <2>4. Cardinality({}) = 0 /\ PerHost \in Nat /\ MeshInbound \in Nat /\ MeshSeats \in Nat
    BY FS_EmptySet, SharesAssumption
  <2>5. \A m \in Machines : Sockets(m) = 0
    BY <2>1, <2>4 DEF Sockets
  <2>6. InMesh = 0
    BY <2>2, <2>4 DEF InMesh
  <2> QED
    BY <2>3, <2>4, <2>5, <2>6 DEF Counted
<1> QED
  BY <1>1, <1>3, <1>4, <1>5 DEF IInv, OneGossip, OneDialed, OneFeeler, OnePerGroup, Seats, Pool

LEMMA StepInv == IInv /\ [Next]_vars => Keeps
<1> SUFFICES ASSUME IInv, [Next]_vars PROVE Keeps
  OBVIOUS
<1>1. ASSUME NEW i \in Slot, Leave(i) \/ Cut(i) PROVE Keeps
  BY <1>1, DropStep DEF Leave, Cut, Silent
<1>2. ASSUME NEW i \in Slot, conns[i].fd PROVE conns[i].kind # "free"
  BY <1>2, FreeFields DEF IInv, ConnOK
<1>3. ASSUME NEW i \in Slot, Vanish(i) PROVE Keeps
  <2>1. conns' = [conns EXCEPT ![i] = [conns[i] EXCEPT !.alive = FALSE]]
    BY <1>3 DEF Vanish
  <2> QED
    BY <1>2, <1>3, <2>1, FlagStep DEF Vanish
<1>4. ASSUME NEW i \in Slot, Misbehave(i) PROVE Keeps
  <2>1. conns[i].fd /\ world' = world
    BY <1>4 DEF Misbehave
  <2>2. CASE conns' = [conns EXCEPT ![i].score = @ + 1]
    <3>1. conns' = [conns EXCEPT ![i] = [conns[i] EXCEPT !.score = @ + 1]]
      BY <2>2
    <3> QED
      BY <1>2, <2>1, <3>1, FlagStep
  <2>3. CASE Drop(i)
    BY <2>1, <2>3, DropStep
  <2> QED
    BY <1>4, <2>2, <2>3 DEF Misbehave
<1>5. ASSUME NEW i \in Slot, Verack(i) PROVE Keeps
  <2>1. /\ conns' = [conns EXCEPT ![i] = [conns[i] EXCEPT !.up = TRUE]]
        /\ conns[i].fd /\ world' = world
    BY <1>5 DEF Verack, IInv, ConnOK
  <2> QED
    BY <1>2, <2>1, FlagStep
<1>6. ASSUME NEW i \in Slot, Due(i) PROVE Keeps
  <2>1. conns' = [conns EXCEPT ![i] = [conns[i] EXCEPT !.wait = FALSE]] /\ world' = world
    BY <1>6 DEF Due
  <2>2. conns[i].kind # "free"
    BY <1>6, FreeFields DEF Due, IInv, ConnOK
  <2> QED
    BY <2>1, <2>2, FlagStep
<1>7. ASSUME UNCHANGED <<conns, world>> PROVE Keeps
  BY <1>7 DEF Keeps, BanRespected, IInv, OneGossip, OneDialed, OneFeeler, Counted, OnePerGroup, Outbound,
              Sockets, Live, InMesh, Seats
<1>8. ASSUME NEW i \in Slot, NEW m \in Machines, DnAddr(i, m) \/ Addr(i, m) PROVE Keeps
  BY <1>7, <1>8 DEF DnAddr, Addr
<1>9. ASSUME NEW m \in Machines, Rested(m) \/ Stop(m) \/ Listen(m) PROVE Keeps
  BY <1>7, <1>9 DEF Rested, Stop, Listen
<1>10. CASE Pardon
  BY <1>7, <1>10 DEF Pardon
<1>11. CASE UNCHANGED vars
  BY <1>7, <1>11 DEF vars
<1> QED
  BY <1>1, <1>3, <1>4, <1>5, <1>6, <1>8, <1>9, <1>10, <1>11, VersionStep, DialStep,
     AcceptStep, MeshSeatStep, ChainSeatStep DEF Next

\* Slots that are all the same one are one at most.
LEMMA AtMostOne ==
  ASSUME NEW A \in SUBSET Slot, \A i, k \in A : i = k
  PROVE  Cardinality(A) <= 1
<1>1. CASE A = {}
  BY <1>1, FS_EmptySet
<1>2. CASE A # {}
  <2>1. PICK i : A = {i}
    BY <1>2
  <2> QED
    BY <2>1, FS_Singleton
<1> QED
  BY <1>1, <1>2

\* The invariant has the shares of the table.
LEMMA SharesOfInv == IInv => Shares
<1> SUFFICES ASSUME IInv PROVE Shares
  OBVIOUS
<1>1. ASSUME NEW m \in Machines
      PROVE  Cardinality({i \in Slot : Live(i, m) /\ Outbound(i)}) <= 1
  <2> DEFINE A == {i \in Slot : Live(i, m) /\ Outbound(i)}
  <2>1. \A i, k \in A : i = k
    BY DEF IInv, OneDialed, Live
  <2> HIDE DEF A
  <2>2. A \in SUBSET Slot
    BY DEF A
  <2>3. Cardinality(A) <= 1
    BY <2>1, <2>2, AtMostOne
  <2> QED
    BY <2>3 DEF A
<1>2. Cardinality({i \in Slot : conns[i].feeler}) <= 1
  <2> DEFINE A == {i \in Slot : conns[i].feeler}
  <2>1. \A i, k \in A : i = k
    BY DEF IInv, OneFeeler
  <2>2. A \in SUBSET Slot
    OBVIOUS
  <2> HIDE DEF A
  <2>3. Cardinality(A) <= 1
    BY <2>1, <2>2, AtMostOne
  <2> QED
    BY <2>3 DEF A
<1> QED
  BY <1>1, <1>2 DEF IInv, Counted, Shares

\* Whatever happens to its slots, the serve thread gossips with a machine over
\* one connection at most, keeps the shares of its table, and has one seat of
\* each pool in a /16: accept, the version handler, mesh_seat_topup,
\* chain_topup and the dials of idx_serve.
THEOREM TableKept == Spec => [](OneGossip /\ Shares /\ OnePerGroup)
<1>1. IInv => OneGossip /\ Shares /\ OnePerGroup
  BY SharesOfInv DEF IInv
<1>2. IInv /\ [Next]_vars => IInv'
  BY StepInv DEF Keeps
<1> QED
  BY InitInv, <1>1, <1>2, PTL DEF Spec

\* A banned address gets no connection while the ban lasts: neither accept
\* nor a dial of idx_serve gives it one.
THEOREM BansHold == Spec => BanHolds
<1>1. IInv /\ [Next]_vars => IInv' /\ BanRespected
  BY StepInv DEF Keeps
<1>2. [][BanRespected]_vars => BanHolds
  BY PTL DEF BanHolds, BanRespected
<1> QED
  BY InitInv, <1>1, <1>2, PTL DEF Spec

-----------------------------------------------------------------------------
(* Outreach: both threads *)

\* The steps of the sync thread leave the table and the bans alone: they meet
\* the serve thread in the peers table and in the snapshot only.
LEMMA ReachLeavesTable ==
  ASSUME ReachNext, ~(Next /\ UNCHANGED reach)
  PROVE  UNCHANGED <<conns, banned, world>>
<1> USE DEF vars, Rest
<1>1. CASE Snap \/ LadderBegin \/ FetchEnd \/ CrawlBegin
  BY <1>1 DEF Snap, LadderBegin, FetchEnd, CrawlBegin, Begin
<1>2. CASE Climb
  BY <1>2 DEF Climb, LadderEnd, LadderSkip, LadderDial
<1>3. CASE Crawl
  BY <1>3 DEF Crawl, CrawlEnd, Expire, Kick
<1>4. CASE Answers
  BY <1>4 DEF Answers, Connected, ReadShake, ReadAddr
<1> QED
  BY <1>1, <1>2, <1>3, <1>4 DEF ReachNext

\* Every step of both threads keeps the invariant of the table and the bans.
LEMMA ReachStep == IInv /\ [ReachNext]_allVars => Keeps
<1> SUFFICES ASSUME IInv, [ReachNext]_allVars PROVE Keeps
  OBVIOUS
<1>1. CASE Next /\ UNCHANGED reach
  BY <1>1, StepInv
<1>2. CASE UNCHANGED <<conns, banned, world>>
  BY <1>2 DEF Keeps, BanRespected, IInv, OneGossip, OneDialed, OneFeeler, Counted,
              OnePerGroup, Outbound, Sockets, Live, InMesh, Seats
<1>3. CASE UNCHANGED allVars
  BY <1>2, <1>3 DEF allVars
<1> QED
  BY <1>1, <1>2, <1>3, ReachLeavesTable

\* The surroundings of the node are given once.
LEMMA WorldStays == Next => world' = world
<1> USE DEF vars
<1>1. ASSUME NEW i \in Slot, Leave(i) \/ Vanish(i) \/ Cut(i) \/ Misbehave(i) \/ Version(i)
                              \/ Verack(i) \/ Dial(i) \/ Due(i)
      PROVE  world' = world
  BY <1>1 DEF Leave, Vanish, Cut, Misbehave, Version, Verack, Dial, Due
<1>2. ASSUME NEW i \in Slot, NEW m \in Machines, DnAddr(i, m) \/ Addr(i, m)
      PROVE  world' = world
  BY <1>2 DEF DnAddr, Addr
<1>3. ASSUME NEW m \in Machines, Accept(m) \/ Rested(m) \/ Stop(m) \/ Listen(m)
      PROVE  world' = world
  BY <1>3 DEF Accept, Rested, Stop, Listen
<1>4. CASE MeshSeat \/ ChainSeat \/ Pardon
  BY <1>4 DEF MeshSeat, ChainSeat, Pardon
<1> QED
  BY <1>1, <1>2, <1>3, <1>4 DEF Next

LEMMA ReachInvariant == ReachSpec => []IInv
<1>1. ReachInit => IInv
  BY InitInv DEF ReachInit
<1>2. IInv /\ [ReachNext]_allVars => IInv'
  BY ReachStep DEF Keeps
<1> QED
  BY <1>1, <1>2, PTL DEF ReachSpec

-----------------------------------------------------------------------------
(* The theorems *)

\* A machine has one mesh handle at most, so what the overlay floods reaches it
\* once from us, whichever side opened its connections (mesh_on_host).
THEOREM GossipOnce == ReachSpec => []OneGossip
<1>1. IInv => OneGossip
  BY DEF IInv
<1> QED
  BY ReachInvariant, <1>1, PTL

\* The table keeps its shares: sockets and dials of a machine, mesh handles of
\* callers, seats of the overlay, one feeler (idx_serve).
THEOREM SharesHold == ReachSpec => []Shares
<1> QED
  BY ReachInvariant, SharesOfInv, PTL

\* Each pool has one seat in a /16 (mesh_try_seat, chain_topup).
THEOREM GroupsHold == ReachSpec => []OnePerGroup
<1>1. IInv => OnePerGroup
  BY DEF IInv
<1> QED
  BY ReachInvariant, <1>1, PTL

\* While a ban lasts no slot gets a socket of that address, whatever the crawl
\* or the ladder write into the peers table (accept, serve_dial).
THEOREM ReachBansHold == ReachSpec => BanHolds
<1>1. IInv /\ [ReachNext]_allVars => [BanRespected]_vars
  BY ReachStep DEF Keeps
<1>2. [][BanRespected]_vars => BanHolds
  BY PTL DEF BanHolds, BanRespected
<1> QED
  BY ReachInvariant, <1>1, <1>2, PTL DEF ReachSpec

\* The ladder takes a peer of recent blocks when it has no candidate left, and
\* leaves no socket behind (sync.c:1225-1256).
THEOREM LastResortHolds == ReachSpec => []LastResort
<1>1. ReachInit => LastResort
  BY DEF ReachInit, LastResort
<1>2. LastResort /\ [ReachNext]_allVars => LastResort'
  <2> SUFFICES ASSUME LastResort, [ReachNext]_allVars PROVE LastResort'
    OBVIOUS
  <2> USE DEF LastResort
  <2>1. CASE Next /\ UNCHANGED reach
    BY <2>1, WorldStays DEF reach
  <2>2. CASE Snap
    BY <2>2 DEF Snap, vars
  <2>3. CASE LadderBegin \/ CrawlBegin
    BY <2>3 DEF LadderBegin, CrawlBegin, Begin, vars
  <2>4. CASE LadderEnd \/ FetchEnd
    BY <2>4 DEF LadderEnd, FetchEnd, vars
  <2>5. ASSUME NEW t \in todo, LadderSkip(t) PROVE LastResort'
    BY <2>5 DEF LadderSkip, Climbing, vars
  <2>6. ASSUME NEW t \in todo, LadderDial(t) PROVE LastResort'
    BY <2>6 DEF LadderDial, Climbing, Limited, Rest
  <2>7. CASE CrawlEnd
    BY <2>7 DEF CrawlEnd, vars
  <2>8. ASSUME NEW i \in DOMAIN probes, Expire(i) \/ \E t \in todo : Kick(i, t)
        PROVE  LastResort'
    BY <2>8 DEF Expire, Kick, Rest, vars
  <2>9. CASE Answers
    BY <2>9 DEF Answers, Connected, ReadShake, ReadAddr, Rest, vars
  <2>10. CASE UNCHANGED allVars
    BY <2>10 DEF allVars
  <2> QED
    BY <2>1, <2>2, <2>3, <2>4, <2>5, <2>6, <2>7, <2>8, <2>9, <2>10
    DEF ReachNext, Climb, Crawl
<1> QED
  BY <1>1, <1>2, PTL DEF ReachSpec
=============================================================================
