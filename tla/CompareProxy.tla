---------------------------- MODULE CompareProxy ----------------------------
(***************************************************************************)
(* qsort and bsearch of libc_bypass.c.  The native functions call a C      *)
(* comparison function that takes no argument of its own, compare_proxy,   *)
(* which finds the application's function and its execution environment in *)
(* two globals.  g_compare_mutex is held from before they are set until    *)
(* the native function has returned, so across every call back into the    *)
(* application.                                                            *)
(***************************************************************************)
EXTENDS Naturals

CONSTANTS Sorters,      \* the threads that sort and search
          Functions,    \* the applications' comparison functions
          Compares,     \* how often a sort compares at most
          Nobody

ASSUME CompareAssumption ==
    /\ Compares \in Nat
    /\ Nobody \notin Sorters

VARIABLES g_compare_mutex,  \* its owner
          g_compare_env,    \* whose environment: a thread's
          g_compare_func,
          stage,            \* where each thread is
          wanted,           \* the function it sorts with
          ran_in,           \* history: the environment of the comparison
          ran,              \* history: the function of the comparison
          comparisons       \* how many it has made

compareGlobals == <<g_compare_mutex, g_compare_env, g_compare_func>>
compareRuns == <<wanted, ran_in, ran, comparisons>>
compareVars == <<compareGlobals, stage, compareRuns>>

Stage == {"idle", "lock", "env", "func", "sorting", "comparing", "nested", "unlock"}

CompareInit ==
    /\ g_compare_mutex = Nobody
    /\ g_compare_env = Nobody
    /\ g_compare_func \in Functions
    /\ stage = [t \in Sorters |-> "idle"]
    /\ wanted = [t \in Sorters |-> g_compare_func]
    /\ ran_in = [t \in Sorters |-> Nobody]
    /\ ran = wanted
    /\ comparisons = [t \in Sorters |-> 0]

Moves(t, from, to) ==
    stage[t] = from /\ stage' = [stage EXCEPT ![t] = to]

SortCalled(t) ==
    /\ Moves(t, "idle", "lock")
    /\ \E f \in Functions : wanted' = [wanted EXCEPT ![t] = f]
    /\ comparisons' = [comparisons EXCEPT ![t] = 0]
    /\ UNCHANGED <<compareGlobals, ran_in, ran>>

(* Bug: the mutex is not waited for.                                       *)
MutexLockSkipped(t) ==
    /\ Moves(t, "lock", "env")
    /\ g_compare_mutex' = t
    /\ UNCHANGED <<g_compare_env, g_compare_func, compareRuns>>

MutexLock(t) ==
    /\ g_compare_mutex = Nobody
    /\ Moves(t, "lock", "env")
    /\ g_compare_mutex' = t
    /\ UNCHANGED <<g_compare_env, g_compare_func, compareRuns>>

SetCompareEnv(t) ==
    /\ Moves(t, "env", "func")
    /\ g_compare_env' = t
    /\ UNCHANGED <<g_compare_mutex, g_compare_func, compareRuns>>

SetCompareFunc(t) ==
    /\ Moves(t, "func", "sorting")
    /\ g_compare_func' = wanted[t]
    /\ UNCHANGED <<g_compare_mutex, g_compare_env, compareRuns>>

CompareProxyCalls(t) ==
    /\ comparisons[t] < Compares
    /\ Moves(t, "sorting", "comparing")
    /\ ran_in' = [ran_in EXCEPT ![t] = g_compare_env]
    /\ ran' = [ran EXCEPT ![t] = g_compare_func]
    /\ comparisons' = [comparisons EXCEPT ![t] = @ + 1]
    /\ UNCHANGED <<compareGlobals, wanted>>

(* The application's function returns; or it sorts or searches itself, and *)
(* waits for the mutex that its own thread holds.                          *)
CompareReturns(t) ==
    Moves(t, "comparing", "sorting") /\ UNCHANGED <<compareGlobals, compareRuns>>

CompareSorts(t) ==
    Moves(t, "comparing", "nested") /\ UNCHANGED <<compareGlobals, compareRuns>>

SortEnds(t) ==
    Moves(t, "sorting", "unlock") /\ UNCHANGED <<compareGlobals, compareRuns>>

(* Bug: an element that is not found is returned without unlocking.        *)
MutexUnlockIfFound(t) ==
    /\ Moves(t, "unlock", "idle")
    /\ g_compare_mutex' \in {Nobody, t}
    /\ UNCHANGED <<g_compare_env, g_compare_func, compareRuns>>

MutexUnlock(t) ==
    /\ Moves(t, "unlock", "idle")
    /\ g_compare_mutex' = Nobody
    /\ UNCHANGED <<g_compare_env, g_compare_func, compareRuns>>

(* What a thread does by itself once it holds the mutex.                   *)
SortGoesOn(t) ==
    \/ SetCompareEnv(t)
    \/ SetCompareFunc(t)
    \/ CompareProxyCalls(t)
    \/ CompareReturns(t)
    \/ SortEnds(t)
    \/ MutexUnlock(t)

CompareNext ==
    \E t \in Sorters : SortCalled(t) \/ MutexLock(t) \/ SortGoesOn(t) \/ CompareSorts(t)

CompareSpec ==
    /\ CompareInit /\ [][CompareNext]_compareVars
    /\ \A t \in Sorters : WF_compareVars(SortGoesOn(t))

----------------------------------------------------------------------------
(* Properties                                                              *)

(* Every variable has its type.                                            *)
CompareTypeOK ==
    /\ g_compare_mutex \in Sorters \cup {Nobody}
    /\ g_compare_env \in Sorters \cup {Nobody}
    /\ g_compare_func \in Functions
    /\ stage \in [Sorters -> Stage]
    /\ wanted \in [Sorters -> Functions]
    /\ ran_in \in [Sorters -> Sorters \cup {Nobody}]
    /\ ran \in [Sorters -> Functions]
    /\ comparisons \in [Sorters -> 0 .. Compares]

(* Whatever the other threads sort meanwhile, a sort is decided by its own *)
(* comparison function, run in the environment of its own thread.          *)
ComparesWithItsOwn ==
    \A t \in Sorters :
        stage[t] = "comparing" => ran[t] = wanted[t] /\ ran_in[t] = t

(* A thread that has taken the mutex gives it back, unless its comparison  *)
(* function sorts or searches: then it never does.                         *)
SortsFinish ==
    \A t \in Sorters :
        g_compare_mutex = t ~> (g_compare_mutex # t \/ stage[t] = "nested")
=============================================================================
