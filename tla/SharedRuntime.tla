---------------------------- MODULE SharedRuntime ----------------------------
(***************************************************************************)
(* What the comment at lwac/lwac.c:63-74 promises of the WAMR runtime that *)
(* concurrent runs of lwac share, as an abstract specification: a run      *)
(* starts or stops using it in one step, the first start initialises it    *)
(* and the last stop destroys it.  GiveUp is the one exception, a first    *)
(* start whose native modules fail to register after the runtime was       *)
(* initialised: its user goes away and its initialisation stays.           *)
(***************************************************************************)
EXTENDS Naturals

CONSTANT Task

VARIABLES users,   \* the runs that may call into WAMR
          live     \* initialisations of the runtime not yet destroyed

Init == users = {} /\ live = 0

Start(t) ==
    /\ t \notin users
    /\ users' = users \cup {t}
    /\ live' = IF users = {} THEN live + 1 ELSE live

Stop(t) ==
    /\ t \in users
    /\ users' = users \ {t}
    /\ live' = IF users' = {} THEN live - 1 ELSE live

GiveUp ==
    /\ users = {}
    /\ live' = live + 1
    /\ UNCHANGED users

Next == GiveUp \/ \E t \in Task : Start(t) \/ Stop(t)

Spec == Init /\ [][Next]_<<users, live>>
=============================================================================
