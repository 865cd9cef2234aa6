------------------------------ MODULE Outreach ------------------------------
(* What the sync thread dials while the serve thread keeps its seats: the     *)
(* candidate ladder of a sync pass (cmd_sync) and the crawl (idx_crawl),      *)
(* which never run at once.  Both threads write the peers table, and the      *)
(* ladder asks the connection snapshot of the serve thread, taken once a      *)
(* second, which machines that one holds.                                     *)
EXTENDS Connections

CONSTANTS
  Probes,     \* how many probes the crawl runs at once: CRAWL_PAR
  MaxDials    \* dials of a crawl pass

Probe == [st : {"free", "connect", "shake", "addr"}, m : Machines \cup {Nobody},
          ver : BOOLEAN, ack : BOOLEAN]

VARIABLES
  snap,     \* the dial targets the serve thread held when it last took the snapshot
  pass,     \* what the sync thread does: "idle", "ladder", "fetch" or "crawl"
  todo,     \* candidates it has not dialed in this pass
  probes,   \* the probes of a crawl
  socket,   \* the machine a sync pass talks to
  spare,    \* a machine that serves recent blocks only, its socket kept as a last resort
  count     \* passes begun; dials and handshakes of this pass

reach == <<snap, pass, todo, probes, socket, spare, count>>
allVars == <<conns, book, attempt, banned, listening, mishaps, world,
             snap, pass, todo, probes, socket, spare, count>>

Idle == [st |-> "free", m |-> Nobody, ver |-> FALSE, ack |-> FALSE]

ReachInit ==
  /\ Init
  /\ snap = {} /\ pass = "idle" /\ todo = {}
  /\ probes = [i \in 1 .. Probes |-> Idle]
  /\ socket = Nobody /\ spare = Nobody
  /\ count = [passes |-> 0, dials |-> 0, up |-> 0]

Rest == <<conns, banned, listening, mishaps, world>>

(* serve_snap: the live remotes, and the targets of the outbound seats.  It   *)
(* is left alone in surroundings without a pass, where nothing asks it.       *)
Snap ==
  /\ world.passes > 0
  /\ snap' = {conns[i].ip : i \in {k \in Slot : conns[k].fd}}
               \cup {conns[i].host : i \in {k \in Slot : Outbound(k)}}
  /\ snap' # snap
  /\ UNCHANGED <<vars, pass, todo, probes, socket, spare, count>>

-----------------------------------------------------------------------------
(* The ladder: explicit peers, the proven and the block-serving rows, and the *)
(* seeds of the chain, in that order, which is left open here.                *)

Begin(kind, targets) ==
  /\ pass = "idle" /\ count.passes < world.passes
  /\ pass' = kind /\ todo' = targets
  /\ count' = [passes |-> count.passes + 1, dials |-> 0, up |-> 0]
  /\ UNCHANGED <<vars, snap, probes, socket, spare>>

(* idx_db_peers_best: machines that shook hands, or are said to have blocks.  *)
Best == {m \in Machines : book[m] \cap {"good", "net"} # {}}
LadderBegin == Begin("ladder", world.targets \cup Best)

Climbing(t) == pass = "ladder" /\ socket = Nobody /\ t \in todo
PeerHeld(t) == t \in snap \/ Resolve(t) \in snap

(* p2p_handshake comes to its end, and not with ourselves.                    *)
Handshakes(m) == Reachable(m) /\ ~Self(m)

(* Skip what the serve thread holds, ourselves, and what does not answer.     *)
LadderSkip(t) ==
  /\ Climbing(t)
  /\ PeerHeld(t) \/ ~Handshakes(Resolve(t))
  /\ todo' = todo \ {t}
  /\ UNCHANGED <<vars, snap, pass, probes, socket, spare, count>>

(* A handshake is recorded.  A peer without NODE_NETWORK cannot feed a node   *)
(* that is further behind than it keeps blocks: the first such is kept, and   *)
(* the ladder goes on.                                                        *)
AnyFeeds(m) == FALSE
Limited(m) == world.deep /\ m \notin world.archive
LadderDial(t) ==
  LET m == Resolve(t)
  IN /\ Climbing(t) /\ ~PeerHeld(t) /\ Handshakes(m)
     /\ SeenGood(book, m)
     /\ todo' = todo \ {t}
     /\ IF Limited(m)
        THEN spare' = (IF spare = Nobody THEN m ELSE spare) /\ UNCHANGED socket
        ELSE socket' = m /\ UNCHANGED spare
     /\ UNCHANGED <<Rest, snap, pass, probes, count>>

(* The ladder ends with the peer that won, else with the spare one, else the  *)
(* pass is over; the spare socket is closed when it is not used.              *)
LadderEnd ==
  /\ pass = "ladder" /\ (socket # Nobody \/ todo = {})
  /\ LET won == IF socket # Nobody THEN socket ELSE spare
     IN /\ socket' = won
        /\ pass' = (IF won = Nobody THEN "idle" ELSE "fetch")
  /\ spare' = Nobody /\ todo' = {}
  /\ UNCHANGED <<vars, snap, probes, count>>

FetchEnd ==
  /\ pass = "fetch"
  /\ pass' = "idle" /\ socket' = Nobody
  /\ UNCHANGED <<vars, snap, todo, probes, spare, count>>

-----------------------------------------------------------------------------
(* The crawl: up to Probes candidates at a time, each with a budget of time   *)
(* for every state.                                                           *)

(* idx_db_peers_crawl: every row.                                             *)
Frontier == {m \in Machines : book[m] # {}}
CrawlBegin == Begin("crawl", world.extra \cup Frontier)

Idles == {i \in DOMAIN probes : probes[i].st = "free"}
Close(i) == probes' = [probes EXCEPT ![i] = Idle]

(* A candidate is dialed once, and stamped as tried before it is: the stamp   *)
(* is what keeps a dead address from the next pass.                           *)
MayKick(t) == t \in todo /\ count.dials < MaxDials
Kick(i, t) ==
  /\ pass = "crawl" /\ i \in Idles /\ MayKick(t)
  /\ todo' = todo \ {t}
  /\ count' = [count EXCEPT !.dials = @ + 1]
  /\ Tried(book, t)
  /\ probes' = [probes EXCEPT ![i] = [Idle EXCEPT !.st = "connect", !.m = t]]
  /\ UNCHANGED <<Rest, snap, pass, socket, spare>>

Connected(i) ==
  /\ probes[i].st = "connect"
  /\ probes[i].m \in listening \cup {world.self}
  /\ probes' = [probes EXCEPT ![i].st = "shake"]
  /\ UNCHANGED <<vars, snap, pass, todo, socket, spare, count>>

(* One read, whatever frames it holds.  A version with our own nonce closes   *)
(* the probe; a handshake that completes is recorded at the end of the read,  *)
(* so an addr counts only from the next one on, and closes the probe.         *)
Ourselves(i, frames) == "version" \in frames /\ probes[i].m = world.self
Shaken(p, frames) == (p.ver \/ "version" \in frames) /\ (p.ack \/ "verack" \in frames)

ReadShake(i, frames) ==
  LET p == probes[i]
  IN /\ p.st = "shake"
     /\ IF Ourselves(i, frames) THEN Close(i) /\ UNCHANGED <<book, attempt, count>>
        ELSE IF Shaken(p, frames)
             THEN /\ probes' = [probes EXCEPT ![i].st = "addr"]
                  /\ count' = [count EXCEPT !.up = @ + 1]
                  /\ SeenGood(book, p.m)
             ELSE /\ probes' = [probes EXCEPT ![i].ver = @ \/ "version" \in frames,
                                              ![i].ack = @ \/ "verack" \in frames]
                  /\ UNCHANGED <<book, attempt, count>>
     /\ UNCHANGED <<Rest, snap, pass, todo, socket, spare>>

ReadAddr(i, m) ==
  /\ probes[i].st = "addr"
  /\ <<probes[i].m, m>> \in world.gossip
  /\ Harvest(m, "net")
  /\ Close(i)
  /\ UNCHANGED <<attempt, Rest, snap, pass, todo, socket, spare, count>>

(* The peer closes or breaks the framing, or the budget of the state is over. *)
ProbeStuck(i) == probes[i].st \in {"connect", "shake"}
ProbeOver(i) == i \notin Idles
Expire(i) ==
  /\ ProbeOver(i) /\ Close(i)
  /\ UNCHANGED <<vars, snap, pass, todo, socket, spare, count>>

CrawlEnd ==
  /\ pass = "crawl" /\ Idles = DOMAIN probes
  /\ ~\E t \in todo : MayKick(t)
  /\ pass' = "idle" /\ todo' = {}
  /\ UNCHANGED <<vars, snap, probes, socket, spare, count>>

Climb == LadderEnd \/ \E t \in todo : LadderSkip(t) \/ LadderDial(t)
Crawl == CrawlEnd \/ \E i \in DOMAIN probes : Expire(i) \/ \E t \in todo : Kick(i, t)

Answers == \E i \in DOMAIN probes :
             \/ Connected(i)
             \/ \E frames \in {{"version"}, {"verack"}, {"version", "verack"}} :
                  ReadShake(i, frames)
             \/ \E m \in Machines : ReadAddr(i, m)

ReachNext ==
  \/ Next /\ UNCHANGED reach
  \/ Snap \/ LadderBegin \/ Climb \/ FetchEnd \/ CrawlBegin \/ Crawl \/ Answers

(* Beside the fairness of the serve thread: the passes go on, and a probe     *)
(* does not outlive its budget.                                               *)
ReachSpec == ReachInit /\ [][ReachNext]_allVars
FairReachSpec ==
  /\ ReachSpec
  /\ \A i \in Slot : WF_allVars(Tend(i) /\ UNCHANGED reach)
  /\ WF_allVars(Climb \/ FetchEnd) /\ WF_allVars(Crawl)
  /\ \A i \in 1 .. Probes : WF_allVars(Expire(i))

-----------------------------------------------------------------------------
(* A peer that keeps recent blocks only is chosen after every candidate had   *)
(* its turn, and no socket outlives the pass that opened it                   *)
(* (sync.c:1225-1256).                                                        *)
LastResort ==
  /\ socket # Nobody /\ world.deep /\ socket \notin world.archive => todo = {}
  /\ pass \in {"idle", "crawl"} => socket = Nobody
  /\ pass # "ladder" => spare = Nobody

(* Every pass of the sync thread ends, whatever the machines answer: a crawl  *)
(* over dead and silent addresses as well (sync.c:2640-2643, 2856-2862).      *)
PassesEnd == []<>(pass = "idle")
=============================================================================
