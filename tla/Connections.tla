---------------------------- MODULE Connections ----------------------------
(* The connection table of the serve thread (idx_serve): which machine holds  *)
(* which of its slots.  A slot is free, an accepted connection, or a seat: a  *)
(* configured one, one taken from the overlay pool (mesh) or one taken from   *)
(* the address book (chain).  The thread is the only writer of the table; its *)
(* loop is modelled by one action per step of a phase, in any order, and the  *)
(* clock by what the passing of time allows: a seat may dial again, a backed- *)
(* off address may be offered again, a ban ends, a silent connection is cut.  *)
EXTENDS Naturals, Sequences, FiniteSets

CONSTANTS
  Machines,     \* numeric addresses, our own one included
  Names,        \* host names in the list of configured peers
  Nobody,       \* no address
  Slots,        \* how many slots the table has: SERVE_MAX_CONN
  PerHost,      \* SERVE_INBOUND_PER_HOST
  MeshSeats,    \* MESH_DIAL_SEATS
  ChainSeats,   \* CHAIN_DIAL_TARGET
  MeshInbound,  \* MESH_INBOUND_MAX
  BanScore,     \* misbehaviours that make a ban
  BanCap,       \* IDX_BAN_CAP
  Worlds        \* what surrounds the node: see Init

ASSUME SharesAssumption ==
  Slots \in Nat /\ PerHost \in Nat \ {0} /\ {MeshSeats, MeshInbound} \subseteq Nat
ASSUME WorldsAssumption ==
  \A w \in Worlds : w.peers \in Seq(Machines \cup Names) /\ w.dns \in [Names -> Machines]

Seat == {"cfg", "mesh", "chain"}
Pool == {"mesh", "chain"}
Conn == [kind : {"free", "in"} \cup Seat, host : Machines \cup Names \cup {Nobody},
         ip : Machines \cup {Nobody}, fd : BOOLEAN, alive : BOOLEAN, up : BOOLEAN,
         marked : BOOLEAN, handle : BOOLEAN, feeler : BOOLEAN, wait : BOOLEAN,
         score : Nat]

VARIABLES
  conns,      \* the table
  book,       \* machine -> what the peers table says of it
  attempt,    \* machine -> its last dial, while that is recent
  banned,     \* banned machines, the oldest ban first
  listening,  \* machines that accept a connection
  mishaps,
  world

vars == <<conns, book, attempt, banned, listening, mishaps, world>>

Free == [kind |-> "free", host |-> Nobody, ip |-> Nobody, fd |-> FALSE, alive |-> FALSE,
         up |-> FALSE, marked |-> FALSE, handle |-> FALSE, feeler |-> FALSE,
         wait |-> FALSE, score |-> 0]

Slot == 1 .. Slots
Marked(m) == m \in world.marked
Banned(m) == \E k \in DOMAIN banned : banned[k] = m
Resolve(t) == IF t \in Names THEN world.dns[t] ELSE t

(* A slot points at a machine: its socket is there, or its seat waits there.  *)
Outbound(i) == conns[i].kind \in Seat
Live(i, m) == conns[i].fd /\ conns[i].ip = m
HostLive(except, t) ==
  \E i \in Slot \ except :
    \/ Live(i, t)
    \/ ~conns[i].fd /\ Outbound(i) /\ t \in {conns[i].ip, conns[i].host}

MeshOnHost(except, m) == \E i \in Slot \ except : Live(i, m) /\ conns[i].handle

(* The slot a new connection or seat takes: the first that is free.           *)
HasRoom == \E i \in Slot : conns[i].kind = "free"
Room == CHOOSE i \in Slot :
          conns[i].kind = "free" /\ \A k \in 1 .. i - 1 : conns[k].kind # "free"

TypeOK ==
  /\ conns \in [Slot -> Conn]
  /\ book \in [Machines -> SUBSET {"known", "dnet", "agent", "good", "net"}]
  /\ attempt \in [Machines -> {"none", "failed", "landed"}]
  /\ banned \in Seq(Machines) /\ Len(banned) <= BanCap
  /\ listening \subseteq Machines
  /\ mishaps \in 0 .. world.mishaps
  /\ world \in Worlds

(* A configured seat that names an address is pointed there at once, one that *)
(* has a host name when it first dials.                                       *)
SeatAt(kind, t) ==
  [Free EXCEPT !.kind = kind, !.host = t, !.ip = IF t \in Machines THEN t ELSE Nobody]

Init ==
  /\ world \in Worlds
  /\ conns = [i \in Slot |-> IF i <= Len(world.peers) THEN SeatAt("cfg", world.peers[i])
                                                      ELSE Free]
  /\ book = world.rows
  /\ attempt = [m \in Machines |-> "none"]
  /\ banned = <<>>
  /\ listening = world.listening
  /\ mishaps = 0

(* Bound: machines that stop or vanish, misbehaviours, DNS failures.          *)
Mishap == mishaps < world.mishaps /\ mishaps' = mishaps + 1

-----------------------------------------------------------------------------
(* The peers table.                                                           *)

(* A dial that did not land, or landed at a machine the overlay has no use    *)
(* for (idx_db_peer_tried).                                                   *)
Tried(b, m) ==
  /\ book' = [b EXCEPT ![m] = @ \cup {"known"}]
  /\ attempt' = [attempt EXCEPT ![m] = "failed"]

(* A handshake on a connection we dialed (idx_db_peer_seen).                  *)
SeenGood(b, m) ==
  /\ book' = [b EXCEPT ![m] = {"known", "good"} \cup (@ \cap {"dnet"})
                                   \cup (IF Marked(m) THEN {"agent"} ELSE {})]
  /\ attempt' = [attempt EXCEPT ![m] = "landed"]

(* The book once our own address is known: its rows are deleted                *)
(* (idx_db_peers_drop_host).                                                  *)
WithoutUs == [book EXCEPT ![world.self] = {}]

(* Which rows the seats are taken from: overlay peers whose mark we saw,      *)
(* overlay peers somebody vouched for, and block sources.                     *)
Confirmed(m) == "agent" \in book[m] /\ ~("good" \in book[m] /\ attempt[m] = "failed")
Vouched(m) == "dnet" \in book[m] /\ "agent" \notin book[m] /\ attempt[m] = "none"
Source(m) == book[m] \cap {"good", "net"} # {} /\ attempt[m] # "failed"

(* Row m of an addr or dnaddr payload.  Our own address is never harvested.   *)
Harvest(m, mark) ==
  /\ m # world.self
  /\ book' = [book EXCEPT ![m] = @ \cup {"known", mark}]

-----------------------------------------------------------------------------
(* Connections that end.                                                      *)

(* serve_drop: an accepted connection frees its slot, a seat keeps its target *)
(* and waits.                                                                 *)
Dropped(c) ==
  IF c.kind = "in" THEN Free
  ELSE [Free EXCEPT !.kind = c.kind, !.host = c.host, !.ip = c.ip,
                    !.feeler = c.feeler, !.wait = TRUE]

Drop(i) == conns' = [conns EXCEPT ![i] = Dropped(@)]

(* The peer closes the connection.                                            *)
Leave(i) ==
  /\ conns[i].fd /\ conns[i].alive
  /\ Drop(i)
  /\ UNCHANGED <<book, attempt, banned, listening, mishaps, world>>

(* The peer is gone without a FIN: the slot does not notice.                  *)
Vanish(i) ==
  /\ conns[i].fd /\ conns[i].alive
  /\ Mishap
  /\ conns' = [conns EXCEPT ![i].alive = FALSE]
  /\ UNCHANGED <<book, attempt, banned, listening, world>>

(* The liveness sweep: a connection that is not up, or is silent, is cut.     *)
Silent(i) == conns[i].fd /\ (~conns[i].up \/ ~conns[i].alive)
Cut(i) ==
  /\ Silent(i)
  /\ Drop(i)
  /\ UNCHANGED <<book, attempt, banned, listening, mishaps, world>>

(* A message that breaks the rules adds to the score of its connection; at    *)
(* the limit the address is banned and this connection is dropped.            *)
Ban(m) == LET others == SelectSeq(banned, LAMBDA b : b # m)
          IN IF Banned(m) THEN Append(others, m)
             ELSE Append(IF Len(banned) >= BanCap THEN Tail(banned) ELSE banned, m)

Misbehave(i) ==
  /\ conns[i].fd /\ conns[i].alive /\ conns[i].up
  /\ Mishap
  /\ IF conns[i].score + 1 < BanScore
     THEN conns' = [conns EXCEPT ![i].score = @ + 1] /\ UNCHANGED banned
     ELSE Drop(i) /\ banned' = Ban(conns[i].ip)
  /\ UNCHANGED <<book, attempt, listening, world>>

-----------------------------------------------------------------------------
(* Connections that start.                                                    *)

(* accept: the address may not be banned nor hold its share of the slots.     *)
Sockets(m) == Cardinality({i \in Slot : Live(i, m)})
MayAcceptBanned(m) == Sockets(m) < PerHost
MayAcceptInbound(m) ==
  ~Banned(m) /\ Cardinality({i \in Slot : Live(i, m) /\ ~Outbound(i)}) < PerHost
MayAccept(m) == ~Banned(m) /\ Sockets(m) < PerHost
Accept(m) ==
  /\ m \in world.callers
  /\ MayAccept(m) /\ HasRoom
  /\ conns' = [conns EXCEPT ![Room] = [Free EXCEPT !.kind = "in", !.ip = m, !.fd = TRUE,
                                                   !.alive = TRUE]]
  /\ UNCHANGED <<book, attempt, banned, listening, mishaps, world>>

(* The machine of connection i may have a mesh handle: one per machine, and a *)
(* limited number on accepted connections.                                    *)
InMesh == Cardinality({i \in Slot : conns[i].fd /\ ~Outbound(i) /\ conns[i].handle})
HandedTwice(i, m) == Marked(m)
Handed(i, m) == Marked(m) /\ ~MeshOnHost({i}, m)

(* version from a peer that called us.                                        *)
Version(i) ==
  LET m == conns[i].ip
  IN /\ conns[i].kind = "in" /\ conns[i].alive /\ ~conns[i].up
     /\ conns' = [conns EXCEPT ![i].up = TRUE, ![i].marked = Marked(m),
                               ![i].handle = Handed(i, m) /\ InMesh < MeshInbound]
     /\ book' = IF Marked(m) THEN [book EXCEPT ![m] = @ \cup {"known", "agent"}] ELSE book
     /\ UNCHANGED <<attempt, banned, listening, mishaps, world>>

(* A verack that arrives first: the connection is up, and its version will be *)
(* ignored.                                                                   *)
Verack(i) ==
  /\ conns[i].kind = "in" /\ conns[i].alive /\ ~conns[i].up
  /\ Mishap
  /\ conns' = [conns EXCEPT ![i].up = TRUE]
  /\ UNCHANGED <<book, attempt, banned, listening, world>>

(* dnaddr is taken from marked connections, addr from all that are up.        *)
DnAddr(i, m) ==
  /\ conns[i].up /\ conns[i].alive /\ conns[i].marked
  /\ <<conns[i].ip, m>> \in world.vouches
  /\ Harvest(m, "dnet")
  /\ UNCHANGED <<conns, attempt, banned, listening, mishaps, world>>

Addr(i, m) ==
  /\ conns[i].up /\ conns[i].alive
  /\ <<conns[i].ip, m>> \in world.gossip
  /\ Harvest(m, "net")
  /\ UNCHANGED <<conns, attempt, banned, listening, mishaps, world>>

-----------------------------------------------------------------------------
(* Seats.                                                                     *)

Seats(kinds) == {i \in Slot : conns[i].kind \in kinds}

(* What every candidate for a seat has to pass, and the /16 it may not share. *)
NoClash(kinds, m) == FALSE
Clash(kinds, m) ==
  \E i \in Seats(kinds) : conns[i].host \in Machines /\ world.group[conns[i].host] = world.group[m]
Eligible(m) == ~HostLive({}, m) /\ m # world.self /\ ~Banned(m)

Point(kind, m, feeler) ==
  conns' = [conns EXCEPT ![Room] = [SeatAt(kind, m) EXCEPT !.feeler = feeler]]

(* One overlay seat a tick: a confirmed peer first while they leave a seat    *)
(* for a feeler, else a vouched one if no feeler is out.                      *)
MeshPick(rows) == {m \in rows : Eligible(m) /\ ~Clash({"mesh"}, m)}
MeshSeat ==
  LET mesh == Seats({"mesh"})
      feelers == {i \in mesh : conns[i].feeler}
      proven == IF Cardinality(mesh \ feelers) < MeshSeats - 1
                THEN MeshPick({m \in Machines : Confirmed(m)}) ELSE {}
  IN /\ Cardinality(mesh) < MeshSeats /\ HasRoom
     /\ \/ \E m \in proven : Point("mesh", m, FALSE)
        \/ /\ proven = {} /\ feelers = {}
           /\ \E m \in MeshPick({v \in Machines : Vouched(v)}) : Point("mesh", m, TRUE)
     /\ UNCHANGED <<book, attempt, banned, listening, mishaps, world>>

(* One chain seat a tick, in no /16 that another seat points into.            *)
ChainSeat ==
  /\ Cardinality(Seats({"cfg", "chain"})) < ChainSeats /\ HasRoom
  /\ \E m \in Machines :
       /\ Source(m) /\ Eligible(m) /\ ~Clash(Seat, m)
       /\ Point("chain", m, FALSE)
  /\ UNCHANGED <<book, attempt, banned, listening, mishaps, world>>

(* A seat is let go: a pool seat is free, a configured one waits.             *)
ReleaseAll(c) == Free
Release(c) == IF c.kind \in Pool THEN Free ELSE [c EXCEPT !.wait = TRUE]

(* host_is_self, also when no handshake can say so; and serve_dial: somebody  *)
(* answers there, with a handshake.                                           *)
Self(m) == m = world.self
Reachable(m) == m \in listening

(* Seat i dials, unless the machine it names is held by another slot: then a  *)
(* pool seat is free for another candidate and a configured seat is parked.   *)
Held(i) == \E t \in {conns[i].ip, conns[i].host} \ {Nobody} : HostLive({i}, t)
Ready(i) == Outbound(i) /\ ~conns[i].fd /\ ~conns[i].wait

ParkPool(i) ==
  /\ conns[i].kind \in Pool /\ Held(i)
  /\ conns' = [conns EXCEPT ![i] = Free]
  /\ UNCHANGED <<book, attempt, mishaps>>

(* A host name is resolved again each time.                                   *)
NoDns(i) ==
  /\ ~Held(i) /\ conns[i].host \in Names
  /\ Mishap
  /\ conns' = [conns EXCEPT ![i].ip = Nobody, ![i].wait = TRUE]
  /\ UNCHANGED <<book, attempt>>

ParkFresh(i, m) ==
  /\ HostLive({i}, m) /\ conns[i].ip # m
  /\ conns' = [conns EXCEPT ![i].ip = m]
  /\ UNCHANGED <<book, attempt>>

DropSelf(i, m) ==
  /\ Self(m)
  /\ conns' = [conns EXCEPT ![i] = Free]
  /\ UNCHANGED <<book, attempt>>

(* The dial is refused: the address is banned, or nobody answers.             *)
Refused(i, m) ==
  /\ ~Self(m)
  /\ Banned(m) \/ ~Reachable(m)
  /\ conns' = [conns EXCEPT ![i] = Release([@ EXCEPT !.ip = m])]
  /\ LET left == IF Banned(m) THEN book ELSE WithoutUs
     IN  IF conns[i].kind \in Pool THEN Tried(left, m) ELSE book' = left /\ UNCHANGED attempt

(* It lands; an overlay seat has no use for a machine without the mark.       *)
Landed(i, m) ==
  /\ ~Self(m) /\ ~Banned(m) /\ Reachable(m)
  /\ IF conns[i].kind = "mesh" /\ ~Marked(m)
     THEN conns' = [conns EXCEPT ![i] = Free] /\ Tried(WithoutUs, m)
     ELSE /\ conns' = [conns EXCEPT ![i] =
                 [@ EXCEPT !.ip = m, !.fd = TRUE, !.alive = TRUE, !.up = TRUE,
                           !.marked = Marked(m), !.feeler = FALSE,
                           !.handle = Handed(i, m)]]
          /\ SeenGood(WithoutUs, m)

Dial(i) ==
  /\ Ready(i)
  /\ \/ ParkPool(i)
     \/ NoDns(i)
     \/ LET m == Resolve(conns[i].host)
        IN /\ ~Held(i)
           /\ \/ ParkFresh(i, m)
              \/ /\ ~HostLive({i}, m)
                 /\ DropSelf(i, m) \/ Refused(i, m) \/ Landed(i, m)
           /\ UNCHANGED mishaps
  /\ UNCHANGED <<banned, listening, world>>

-----------------------------------------------------------------------------
(* Time, and machines that stop and start to listen.                          *)

Due(i) ==
  /\ conns[i].wait
  /\ conns' = [conns EXCEPT ![i].wait = FALSE]
  /\ UNCHANGED <<book, attempt, banned, listening, mishaps, world>>

Rested(m) ==
  /\ attempt[m] # "none"
  /\ attempt' = [attempt EXCEPT ![m] = "none"]
  /\ UNCHANGED <<conns, book, banned, listening, mishaps, world>>

Pardon ==
  /\ banned # <<>>
  /\ banned' = Tail(banned)
  /\ UNCHANGED <<conns, book, attempt, listening, mishaps, world>>

Stop(m) ==
  /\ m \in listening
  /\ Mishap
  /\ listening' = listening \ {m}
  /\ UNCHANGED <<conns, book, attempt, banned, world>>

Listen(m) ==
  /\ m \notin listening /\ m \in world.listening
  /\ listening' = listening \cup {m}
  /\ UNCHANGED <<conns, book, attempt, banned, mishaps, world>>

Next ==
  \/ \E i \in Slot : Leave(i) \/ Vanish(i) \/ Cut(i) \/ Misbehave(i) \/ Version(i)
                     \/ Verack(i) \/ Dial(i) \/ Due(i)
  \/ \E i \in Slot, m \in Machines : DnAddr(i, m) \/ Addr(i, m)
  \/ \E m \in Machines : Accept(m) \/ Rested(m) \/ Stop(m) \/ Listen(m)
  \/ MeshSeat \/ ChainSeat \/ Pardon

Spec == Init /\ [][Next]_vars

(* The loop comes by every seat in each round, and the sweep by every socket. *)
Tend(i) == Dial(i) \/ Due(i) \/ Cut(i)
FairSpec == Spec /\ \A i \in Slot : WF_vars(Tend(i))

-----------------------------------------------------------------------------
(* A machine gets one mesh handle, however many connections it has and        *)
(* whichever side opened them: with two, each of its messages is gossiped     *)
(* twice (sync.c:1778, mesh_on_host).                                         *)
OneGossip ==
  \A i, k \in Slot :
     conns[i].handle /\ conns[k].handle /\ conns[i].ip = conns[k].ip => i = k

(* The shares of the table: a machine holds PerHost sockets at most, one of   *)
(* them dialed, and accepted connections and pools leave each other their     *)
(* part: the mesh handles of accepted connections, the seats of each pool,    *)
(* one feeler.                                                                *)
Shares ==
  /\ \A m \in Machines :
       /\ Sockets(m) <= PerHost
       /\ Cardinality({i \in Slot : Live(i, m) /\ Outbound(i)}) <= 1
  /\ InMesh <= MeshInbound
  /\ Cardinality(Seats({"mesh"})) <= MeshSeats
  /\ Cardinality({i \in Slot : conns[i].feeler}) <= 1

(* Whoever owns one /16 gets one seat of each pool, whatever its addresses    *)
(* have been dialed, dropped or failed before (sync.c:2126-2130, 2207-2210).  *)
OnePerGroup ==
  \A kind \in Pool : \A i, k \in Seats({kind}) :
     i # k => world.group[conns[i].host] # world.group[conns[k].host]

(* While an address is banned it gets no new connection, neither by calling   *)
(* nor as the target of a seat that was pointed at it before the ban.         *)
BanHolds ==
  [][\A m \in Machines : Banned(m) =>
        \A i \in Slot : Live(i, m)' => Live(i, m)]_vars

(* A pool address whose dial failed is not offered a seat again before its    *)
(* backoff is over (sync.c:2171-2174, 2426-2428).                             *)
BacksOff ==
  [][\A i \in Slot : conns[i].kind = "free" /\ conns'[i].kind \in Pool
                        => attempt[conns'[i].host] # "failed"]_vars

(* A configured machine that listens has a connection again and again, ours   *)
(* or its own, whatever holds its seat back in between: a parked seat, ghosts *)
(* of earlier connections, a pool seat on the same machine (sync.c:2411-2416).*)
Configured == {Resolve(world.peers[k]) : k \in DOMAIN world.peers} \ {world.self}
ConfiguredHeld ==
  \A m \in Machines :
     <>[](m \in Configured /\ m \in listening /\ ~Banned(m))
       => []<>(\E i \in Slot : Live(i, m) /\ conns[i].alive)
=============================================================================
