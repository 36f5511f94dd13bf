----------------------------- MODULE PthreadOnce -----------------------------
(***************************************************************************)
(* pthread_once of libc_bypass.c.  The native function calls a C routine   *)
(* without arguments, init_routine_proxy, which finds the application's    *)
(* routine and execution environment in two globals.  glue_pthread_once    *)
(* sets them before it enters the native function, without a lock.         *)
(***************************************************************************)
EXTENDS Naturals, FiniteSets

CONSTANTS Onces,        \* the threads that call pthread_once
          Control,      \* the pthread_once_t variables, each with its routine
          NoThread

ASSUME OnceAssumption == NoThread \notin Onces

(* The routine a control variable stands for is named by it.               *)
VARIABLES pthread_once_env,  \* whose environment: a thread's
          init_routine_idx,
          once,         \* "new", "running" or "done"
          phase,        \* where each thread is
          control,      \* the variable it passes
          ran_routine,  \* history: what the proxy ran for a variable
          ran_env,      \* history: in whose environment
          disturbed     \* history: calls for a variable met one for another

onceGlobals == <<pthread_once_env, init_routine_idx>>
onceHistory == <<ran_routine, ran_env>>
onceVars == <<onceGlobals, once, phase, control, onceHistory, disturbed>>

OnceInit ==
    /\ pthread_once_env = NoThread
    /\ init_routine_idx \in Control
    /\ once = [c \in Control |-> "new"]
    /\ phase = [t \in Onces |-> "outside"]
    /\ control = [t \in Onces |-> init_routine_idx]
    /\ ran_routine = [c \in Control |-> c]
    /\ ran_env = [c \in Control |-> NoThread]
    /\ disturbed = [c \in Control |-> FALSE]

Inside(t) == phase[t] # "outside"

(* A call before the proxy has read the globals can still be disturbed.    *)
Unread(t) == phase[t] \in {"env", "idx", "enter", "start", "call"}

(* A call of t with variable c meets one with another; d is either.        *)
Meets(t, c, d) ==
    \E u \in Onces \ {t} : Unread(u) /\ control[u] # c /\ d \in {c, control[u]}

OnceCalled(t) ==
    /\ phase[t] = "outside"
    /\ \E c \in Control :
        /\ control' = [control EXCEPT ![t] = c]
        /\ disturbed' = [d \in Control |-> disturbed[d] \/ Meets(t, c, d)]
    /\ phase' = [phase EXCEPT ![t] = "env"]
    /\ UNCHANGED <<onceGlobals, once, onceHistory>>

SetOnceEnv(t) ==
    /\ phase[t] = "env"
    /\ pthread_once_env' = t
    /\ phase' = [phase EXCEPT ![t] = "idx"]
    /\ UNCHANGED <<init_routine_idx, once, control, onceHistory, disturbed>>

SetInitRoutine(t) ==
    /\ phase[t] = "idx"
    /\ init_routine_idx' = control[t]
    /\ phase' = [phase EXCEPT ![t] = "enter"]
    /\ UNCHANGED <<pthread_once_env, once, control, onceHistory, disturbed>>

----------------------------------------------------------------------------
(* The native pthread_once: one caller runs the routine, the others return *)
(* when it has.                                                            *)

EnterFirst(t) ==
    /\ phase[t] = "enter" /\ once[control[t]] = "new"
    /\ once' = [once EXCEPT ![control[t]] = "running"]
    /\ phase' = [phase EXCEPT ![t] = "start"]
    /\ UNCHANGED <<onceGlobals, control, onceHistory, disturbed>>

OnceReturns(t) ==
    /\ phase[t] = "enter" /\ once[control[t]] = "done"
    /\ phase' = [phase EXCEPT ![t] = "outside"]
    /\ UNCHANGED <<onceGlobals, once, control, onceHistory, disturbed>>

(* Bug: the globals are cleared before the routine is called.              *)
InitRoutineProxyClears(t) ==
    /\ phase[t] = "start"
    /\ ran_env' = [ran_env EXCEPT ![control[t]] = NoThread]
    /\ phase' = [phase EXCEPT ![t] = "call"]
    /\ UNCHANGED <<onceGlobals, once, control, ran_routine, disturbed>>

(* The proxy reads one global and then the other, for one call of WAMR.    *)
InitRoutineProxy(t) ==
    /\ phase[t] = "start"
    /\ ran_env' = [ran_env EXCEPT ![control[t]] = pthread_once_env]
    /\ phase' = [phase EXCEPT ![t] = "call"]
    /\ UNCHANGED <<onceGlobals, once, control, ran_routine, disturbed>>

CallIndirect(t) ==
    /\ phase[t] = "call"
    /\ ran_routine' = [ran_routine EXCEPT ![control[t]] = init_routine_idx]
    /\ phase' = [phase EXCEPT ![t] = "routine"]
    /\ UNCHANGED <<onceGlobals, once, control, ran_env, disturbed>>

RoutineReturns(t) ==
    /\ phase[t] = "routine"
    /\ once' = [once EXCEPT ![control[t]] = "done"]
    /\ phase' = [phase EXCEPT ![t] = "outside"]
    /\ UNCHANGED <<onceGlobals, control, onceHistory, disturbed>>

OnceNext ==
    \E t \in Onces :
        \/ OnceCalled(t) \/ SetOnceEnv(t) \/ SetInitRoutine(t)
        \/ EnterFirst(t) \/ OnceReturns(t)
        \/ InitRoutineProxy(t) \/ CallIndirect(t) \/ RoutineReturns(t)

OnceSpec == OnceInit /\ [][OnceNext]_onceVars

----------------------------------------------------------------------------
(* Properties                                                              *)

Started(c) ==
    once[c] = "done" \/ \E t \in Onces : phase[t] = "routine" /\ control[t] = c

(* The routine that runs for a control variable is its own, unless a call  *)
(* with another variable came between: then it may be the other's, and its *)
(* own is never run, because the variable is done all the same.            *)
RunsItsOwnRoutine ==
    \A c \in Control : Started(c) /\ ~ disturbed[c] => ran_routine[c] = c

(* While a routine runs, its environment is that of a thread that is       *)
(* itself held in pthread_once for the same variable, so that no two       *)
(* threads run in it; unless a call with another variable came between.    *)
EnvironmentIsHeld ==
    \A c \in Control :
        once[c] = "running" /\ Started(c) /\ ~ disturbed[c] =>
            ran_env[c] # NoThread /\ Inside(ran_env[c]) /\ control[ran_env[c]] = c

(* The proxy calls the routine its control variable stands for, and calls  *)
(* it in an environment that is kept waiting; unless calls with different  *)
(* variables met.                                                          *)
RunsAsCalled == RunsItsOwnRoutine /\ EnvironmentIsHeld
=============================================================================
