----------------------------- MODULE WaterFill -----------------------------
(***************************************************************************)
(* The loop of sm_waterfill, statement by statement: NameFold takes its    *)
(* result in one step (Waterfill), and this module shows that the loop     *)
(* ends with it.                                                           *)
(***************************************************************************)
EXTENDS NameFold, FiniteSetsExt, Functions

CONSTANT
  Leases        \* the leases that rows may have when the fill starts

VARIABLES
  set,    \* the names whose leases a burn extends, in strcmp order
  burn,   \* the koinu burned
  add,    \* days awarded so far to each name of the set
  pool,   \* days not handed out yet
  share,  \* days each name receives in this round
  todo,   \* names the running inner loop has not visited
  pc      \* where the fill is

fillVars == <<set, burn, add, pool, share, todo, pc>>
restOfFold == <<commits, muts, scratch, clock, txs, cx>>
allVars == <<vars, fillVars>>

ASSUME LeasesAssumption == Leases \subseteq Nat

-----------------------------------------------------------------------------

\* Headroom of the rows as they were when the fill started: the leases are
\* written only at its end.
Room(n) == Headroom(names[n])

TotalHead == MapThenSumSet(Room, set)

\* Names that can take more.
Active == {n \in set : add[n] < Room(n)}

FillInit ==
  /\ \E lease \in [Names -> Leases], o \in Owners :
       names = [n \in Names |-> OwnedRow(o, lease[n])]
  /\ commits = {} /\ muts = [o \in Owners |-> 0]
  /\ scratch = [n \in Names |-> NoClaim]
  /\ height = Activation /\ mtp = Min(Leases) /\ rate \in Rates /\ txs = 1
  /\ cx = NoTx
  /\ set \in (SUBSET Names) \ {{}} /\ burn \in Values
  /\ add = [n \in set |-> 0] /\ pool = 0 /\ share = 0 /\ todo = {}
  /\ pc = "start"

\* A burn that covers all the headroom fills it, and the surplus is forfeited.
Cap ==
  /\ pc = "start"
  /\ Days(burn) >= TotalHead
  /\ add' = [n \in set |-> Room(n)]
  /\ pc' = "write"
  /\ UNCHANGED <<vars, set, burn, pool, share, todo>>

Start ==
  /\ pc = "start"
  /\ Days(burn) < TotalHead
  /\ pool' = Days(burn)
  /\ pc' = "round"
  /\ UNCHANGED <<vars, set, burn, add, share, todo>>

\* Variant: the rounds go on while days are left.
RoundsOverAtZero == Active = {} \/ pool = 0

\* The rounds end when less than a day is left for each name that has room.
RoundsOver ==
  \/ Active = {}
  \/ pool = 0
  \/ pool < Cardinality(Active)

\* A round shares out the pool evenly among the names that have room.
Round ==
  /\ pc = "round"
  /\ IF RoundsOver THEN pc' = "rest" /\ UNCHANGED share
                   ELSE pc' = "give" /\ share' = pool \div Cardinality(Active)
  /\ todo' = set
  /\ UNCHANGED <<vars, set, burn, add, pool>>

\* Name n receives its share, or what its headroom leaves of it.
GiveShare(n) ==
  LET give == IF Room(n) - add[n] > share THEN share ELSE Room(n) - add[n]
  IN  IF n \in Active
        THEN add' = [add EXCEPT ![n] = @ + give] /\ pool' = pool - give
        ELSE UNCHANGED <<add, pool>>

\* The inner loop of a round, in name order.
Visit ==
  /\ pc = "give"
  /\ GiveShare(Min(todo))
  /\ todo' = todo \ {Min(todo)}
  /\ pc' = IF todo' = {} THEN "round" ELSE "give"
  /\ UNCHANGED <<vars, set, burn, share>>

\* Variant: the days left over go to the last names.
LastOf(S) == Max(S)

FirstOf(S) == Min(S)

\* The days left over, one each, in name order.
HandOut ==
  /\ pc = "rest"
  /\ todo # {} /\ pool > 0
  /\ LET n == FirstOf(todo)
     IN  /\ todo' = todo \ {n}
         /\ IF n \in Active
              THEN add' = [add EXCEPT ![n] = @ + 1] /\ pool' = pool - 1
              ELSE UNCHANGED <<add, pool>>
  /\ UNCHANGED <<vars, set, burn, share, pc>>

RestDone ==
  /\ pc = "rest"
  /\ todo = {} \/ pool = 0
  /\ pc' = "write"
  /\ UNCHANGED <<vars, set, burn, add, pool, share, todo>>

\* The leases take what was awarded.
Write ==
  /\ pc = "write"
  /\ names' = [n \in Names |->
                 IF n \in set THEN [names[n] EXCEPT !.lease = @ + add[n] * Billing]
                              ELSE names[n]]
  /\ pc' = "done"
  /\ UNCHANGED <<restOfFold, set, burn, add, pool, share, todo>>

FillNext == Cap \/ Start \/ Round \/ Visit \/ HandOut \/ RestDone \/ Write

\* The function runs to its end.
FillSpec == FillInit /\ [][FillNext]_allVars /\ WF_allVars(FillNext)

-----------------------------------------------------------------------------
(* Properties *)

\* The loop implements the step that NameFold takes: it writes the leases once,
\* at its end, and they are those of Waterfill, days left over going to the first names
\* in ascending order (lease.c:35-80).
OneFill ==
  [][IF pc' = "done" THEN names' = Waterfill(names, set, burn)
                     ELSE UNCHANGED names]_allVars

\* The fill ends, whatever the burn, the rate and the leases: the even rounds
\* stop when a round would give nothing (lease.c:57-70).
Ends == <>(pc = "done")
=============================================================================
