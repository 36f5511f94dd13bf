-------------------------------- MODULE Lwac --------------------------------
(***************************************************************************)
(* Concurrent runs of the lwac command, lwac/lwac.c: main(), the reference *)
(* counted WAMR runtime the runs share, and the registry of running        *)
(* modules (ModuleRegistry).  Each Task runs lwac again and again.         *)
(*                                                                         *)
(* pc[t] names the statement task t is about to execute; between two       *)
(* statements any other task may run.  The WAMR runtime and the operating  *)
(* system are external: whenever the code tests a result of theirs, both   *)
(* results are possible.                                                   *)
(***************************************************************************)
EXTENDS ModuleRegistry, FiniteSets

CONSTANT MaxLostInits   \* bound: failed native registrations, over all runs

ASSUME LwacAssumption == IsFiniteSet(Task) /\ MaxLostInits \in Nat

VARIABLES
    pc,
    held,                      \* held[t]: what the run has acquired from
                               \* "file", "module", "module_inst", "exec_env"
    ret,                       \* main()'s ret; see ExitStatus
    g_wasm_runtime_ref_count,
    g_wasm_runtime_mutex,      \* its owner
    runtime,                   \* wasm_runtime_init minus wasm_runtime_destroy
    lost_inits                 \* history: inits whose caller then gave up

runtimeVars == <<g_wasm_runtime_ref_count, g_wasm_runtime_mutex, runtime, lost_inits>>
vars == <<registryVars, pc, held, ret, runtimeVars>>

Init ==
    /\ RegistryInit
    /\ pc = [t \in Task |-> "idle"]
    /\ held = [t \in Task |-> {}]
    /\ ret = [t \in Task |-> "failure"]
    /\ g_wasm_runtime_ref_count = 0
    /\ g_wasm_runtime_mutex = Nobody
    /\ runtime = 0
    /\ lost_inits = 0

\* ret is a number in the code, "failure" being EXIT_FAILURE and the others 0:
\* "parsed" is the 0 of parse_arguments, "done" the 0 of a run that did its job.
ExitStatus(r) == IF r = "failure" THEN 1 ELSE 0

Goto(t, from, to) ==
    /\ pc[t] = from
    /\ pc' = [pc EXCEPT ![t] = to]

Acquire(t, r) == held' = [held EXCEPT ![t] = @ \cup {r}]
Release(t, r) == held' = [held EXCEPT ![t] = @ \ {r}]
Return(t, r)  == ret' = [ret EXCEPT ![t] = r]

----------------------------------------------------------------------------
(* main(): arguments, --ps, the file.                                      *)

ParseArguments(t) ==
    /\ \/ Goto(t, "idle", "exit") /\ Return(t, "failure")   \* bad option, no file
       \/ Goto(t, "idle", "exit") /\ Return(t, "done")      \* -h
       \/ Goto(t, "idle", "ps_lock") /\ Return(t, "parsed")
       \/ Goto(t, "idle", "load_file") /\ Return(t, "parsed")
    /\ UNCHANGED <<registryVars, held, runtimeVars>>

PsLock(t) ==
    /\ Goto(t, "ps_lock", "ps_walk")
    /\ RdLock(t)
    /\ UNCHANGED <<held, ret, runtimeVars>>

\* One row of the table.  It reads the node, the runtime's heap and, when
\* memory profiling is configured, the node's exec_env.
PsPrintRow(t) ==
    /\ pc[t] = "ps_walk"
    /\ Advance(t)
    /\ UNCHANGED <<pc, held, ret, runtimeVars>>

PsUnlock(t) ==
    /\ current[t] = Nobody
    /\ Goto(t, "ps_walk", "exit")
    /\ RdUnlock(t)
    /\ Return(t, "done")
    /\ UNCHANGED <<held, runtimeVars>>

\* open, fstat and malloc + read or mmap; every failure closes and frees what
\* it opened.  The file is held mapped or copied to RAM, as --no-mmap says.
LoadFile(t) ==
    /\ \/ Goto(t, "load_file", "init_lock") /\ Acquire(t, "file")
       \/ Goto(t, "load_file", "free_file") /\ UNCHANGED held
    /\ UNCHANGED <<registryVars, ret, runtimeVars>>

FreeFileContent(t) ==
    /\ Goto(t, "free_file", "exit")
    /\ Release(t, "file")
    /\ UNCHANGED <<registryVars, ret, runtimeVars>>

\* The process ends; the next run starts with ret = EXIT_FAILURE.
Exit(t) ==
    /\ Goto(t, "exit", "idle")
    /\ Return(t, "failure")
    /\ UNCHANGED <<registryVars, held, runtimeVars>>

----------------------------------------------------------------------------
(* lwac_runtime_init and lwac_runtime_destroy.                             *)

MutexLock(t, from, to) ==
    /\ Goto(t, from, to)
    /\ g_wasm_runtime_mutex = Nobody
    /\ g_wasm_runtime_mutex' = t
    /\ UNCHANGED <<registryVars, held, ret, g_wasm_runtime_ref_count, runtime, lost_inits>>

MutexUnlock(t, from, to) ==
    /\ Goto(t, from, to)
    /\ g_wasm_runtime_mutex' = Nobody
    /\ UNCHANGED <<registryVars, held, ret, g_wasm_runtime_ref_count, runtime, lost_inits>>

InitLock(t) == MutexLock(t, "init_lock", "init_runtime")

\* Bug: a run that finds the runtime up returns before it counts itself.
InitReturnsEarly(t) ==
    /\ \/ /\ g_wasm_runtime_ref_count > 0
          /\ Goto(t, "init_runtime", "init_unlock")
          /\ UNCHANGED runtime
       \/ /\ g_wasm_runtime_ref_count = 0
          /\ \/ Goto(t, "init_runtime", "init_natives") /\ runtime' = runtime + 1
             \/ Goto(t, "init_runtime", "init_failed") /\ UNCHANGED runtime
    /\ UNCHANGED <<registryVars, held, ret, g_wasm_runtime_ref_count,
                   g_wasm_runtime_mutex, lost_inits>>

WasmRuntimeInit(t) ==
    /\ \/ /\ g_wasm_runtime_ref_count > 0
          /\ Goto(t, "init_runtime", "init_count")
          /\ UNCHANGED runtime
       \/ /\ g_wasm_runtime_ref_count = 0
          /\ \/ Goto(t, "init_runtime", "init_natives") /\ runtime' = runtime + 1
             \/ Goto(t, "init_runtime", "init_failed") /\ UNCHANGED runtime
    /\ UNCHANGED <<registryVars, held, ret, g_wasm_runtime_ref_count,
                   g_wasm_runtime_mutex, lost_inits>>

\* The loop over g_wamr_modules; one failure leaves it, and the runtime is not
\* destroyed on that way out.
RegisterNatives(t) ==
    /\ \/ Goto(t, "init_natives", "init_count") /\ UNCHANGED lost_inits
       \/ /\ lost_inits < MaxLostInits
          /\ Goto(t, "init_natives", "init_failed")
          /\ lost_inits' = lost_inits + 1
    /\ UNCHANGED <<registryVars, held, ret, g_wasm_runtime_ref_count,
                   g_wasm_runtime_mutex, runtime>>

CountIn(t) ==
    /\ Goto(t, "init_count", "init_unlock")
    /\ g_wasm_runtime_ref_count' = g_wasm_runtime_ref_count + 1
    /\ UNCHANGED <<registryVars, held, ret, g_wasm_runtime_mutex, runtime, lost_inits>>

\* Bug: after a failed init, main goes to cleanup_runtime.
InitFailsToCleanup(t) ==
    \/ MutexUnlock(t, "init_unlock", "check_xip")
    \/ MutexUnlock(t, "init_failed", "destroy_lock")

InitUnlock(t) ==
    \/ MutexUnlock(t, "init_unlock", "check_xip")
    \/ MutexUnlock(t, "init_failed", "free_file")

DestroyLock(t) == MutexLock(t, "destroy_lock", "count_out")

\* Bug: the count is tested before it is decremented.
TestThenCountOut(t) ==
    /\ g_wasm_runtime_ref_count' = g_wasm_runtime_ref_count - 1
    /\ IF g_wasm_runtime_ref_count = 0
       THEN Goto(t, "count_out", "destroy_runtime")
       ELSE Goto(t, "count_out", "destroy_unlock")
    /\ UNCHANGED <<registryVars, held, ret, g_wasm_runtime_mutex, runtime, lost_inits>>

CountOut(t) ==
    /\ g_wasm_runtime_ref_count' = g_wasm_runtime_ref_count - 1
    /\ IF g_wasm_runtime_ref_count' = 0
       THEN Goto(t, "count_out", "destroy_runtime")
       ELSE Goto(t, "count_out", "destroy_unlock")
    /\ UNCHANGED <<registryVars, held, ret, g_wasm_runtime_mutex, runtime, lost_inits>>

WasmRuntimeDestroy(t) ==
    /\ Goto(t, "destroy_runtime", "destroy_unlock")
    /\ runtime' = runtime - 1
    /\ UNCHANGED <<registryVars, held, ret, g_wasm_runtime_ref_count,
                   g_wasm_runtime_mutex, lost_inits>>

DestroyUnlock(t) == MutexUnlock(t, "destroy_unlock", "free_file")

----------------------------------------------------------------------------
(* The XIP check of main(), then execute_wasm_module.                      *)

\* A file that is not XIP runs only from RAM: mapped, the run goes to
\* cleanup_runtime with the ret of parse_arguments.
CheckXip(t) ==
    /\ \/ Goto(t, "check_xip", "load")
       \/ Goto(t, "check_xip", "destroy_lock")
    /\ UNCHANGED <<registryVars, held, ret, runtimeVars>>

\* A WAMR call that yields r, or fails and leaves for the cleanup label.
Make(t, from, r, next, cleanup) ==
    /\ \/ Goto(t, from, next) /\ Acquire(t, r) /\ UNCHANGED ret
       \/ Goto(t, from, cleanup) /\ UNCHANGED held /\ Return(t, "failure")
    /\ UNCHANGED <<registryVars, runtimeVars>>

\* Bug: a failed wasm_runtime_create_exec_env leaves for cleanup_module.
CreateSkipsInst(t) == Make(t, "create_env", "exec_env", "lookup", "unload")

Load(t)          == Make(t, "load", "module", "instantiate", "destroy_lock")
Instantiate(t)   == Make(t, "instantiate", "module_inst", "create_env", "unload")
CreateExecEnv(t) == Make(t, "create_env", "exec_env", "lookup", "deinstantiate")

\* Bug: no entry function leaves for the label after cleanup_env.
LookupSkipsEnv(t) ==
    /\ \/ Goto(t, "lookup", "alloc_info") /\ UNCHANGED ret
       \/ Goto(t, "lookup", "unregister_lock") /\ Return(t, "failure")
    /\ UNCHANGED <<registryVars, held, runtimeVars>>

\* Bug: no entry function is printed and not reported.
LookupFailsQuietly(t) ==
    /\ \/ Goto(t, "lookup", "alloc_info")
       \/ Goto(t, "lookup", "destroy_env")
    /\ UNCHANGED <<registryVars, held, ret, runtimeVars>>

\* The function of -f, else __main_argc_argv, _main or main.
LookupEntry(t) ==
    /\ \/ Goto(t, "lookup", "alloc_info") /\ UNCHANGED ret
       \/ Goto(t, "lookup", "destroy_env") /\ Return(t, "failure")
    /\ UNCHANGED <<registryVars, held, runtimeVars>>

\* lwac__register_wasm_module; main only warns when its malloc fails.
AllocInfo(t) ==
    /\ \/ Goto(t, "alloc_info", "register_lock")
       \/ Goto(t, "alloc_info", "call")
    /\ UNCHANGED <<registryVars, held, ret, runtimeVars>>

RegisterLock(t) ==
    /\ Goto(t, "register_lock", "register_link")
    /\ WrLock(t)
    /\ UNCHANGED <<held, ret, runtimeVars>>

RegisterLink(t) ==
    /\ Goto(t, "register_link", "register_unlock")
    /\ Link(t)
    /\ UNCHANGED <<held, ret, runtimeVars>>

\* Bug: lwac__register_wasm_module returns without pthread_rwlock_unlock.
RegisterKeepsLock(t) ==
    /\ Goto(t, "register_unlock", "call")
    /\ UNCHANGED <<registryVars, held, ret, runtimeVars>>

RegisterUnlock(t) ==
    /\ Goto(t, "register_unlock", "call")
    /\ WrUnlock(t)
    /\ UNCHANGED <<held, ret, runtimeVars>>

\* The entry function returns, or traps with an exception.
CallWasm(t) ==
    /\ Goto(t, "call", "destroy_env")
    /\ Return(t, "done") \/ Return(t, "failure")
    /\ UNCHANGED <<registryVars, held, runtimeVars>>

\* A cleanup call that gives r back.
Drop(t, from, r, next) ==
    /\ Goto(t, from, next)
    /\ Release(t, r)
    /\ UNCHANGED <<registryVars, ret, runtimeVars>>

DestroyExecEnv(t) == Drop(t, "destroy_env", "exec_env", "unregister_lock")

\* lwac__unregister_wasm_module, also when the entry was never registered.
UnregisterLock(t) ==
    /\ Goto(t, "unregister_lock", "unregister_unlink")
    /\ WrLock(t)
    /\ UNCHANGED <<held, ret, runtimeVars>>

UnregisterUnlink(t) ==
    /\ Goto(t, "unregister_unlink", "unregister_unlock")
    /\ Unlink(t)
    /\ UNCHANGED <<held, ret, runtimeVars>>

UnregisterUnlock(t) ==
    /\ Goto(t, "unregister_unlock", "deinstantiate")
    /\ WrUnlock(t)
    /\ UNCHANGED <<held, ret, runtimeVars>>

Deinstantiate(t) == Drop(t, "deinstantiate", "module_inst", "unload")
Unload(t)        == Drop(t, "unload", "module", "destroy_lock")

----------------------------------------------------------------------------

\* Steps that wait for a lock, and the steps that only need the processor.
Locking(t) ==
    \/ InitLock(t) \/ DestroyLock(t)
    \/ PsLock(t) \/ RegisterLock(t) \/ UnregisterLock(t)

Computing(t) ==
    \/ PsPrintRow(t) \/ PsUnlock(t) \/ LoadFile(t) \/ FreeFileContent(t) \/ Exit(t)
    \/ WasmRuntimeInit(t) \/ RegisterNatives(t) \/ CountIn(t) \/ InitUnlock(t)
    \/ CountOut(t) \/ WasmRuntimeDestroy(t) \/ DestroyUnlock(t)
    \/ CheckXip(t) \/ Load(t) \/ Instantiate(t) \/ CreateExecEnv(t) \/ LookupEntry(t)
    \/ AllocInfo(t) \/ RegisterLink(t) \/ RegisterUnlock(t)
    \/ DestroyExecEnv(t) \/ UnregisterUnlink(t) \/ UnregisterUnlock(t)
    \/ Deinstantiate(t) \/ Unload(t)

Next == \E t \in Task : ParseArguments(t) \/ CallWasm(t) \/ Locking(t) \/ Computing(t)

Spec == Init /\ [][Next]_vars

\* A task that can run runs, and NuttX hands a lock that is free again and
\* again to each of its waiters in turn.  Nobody has to type a command, and
\* wasm code may run for ever.
Fairness ==
    \A t \in Task : WF_vars(Computing(t)) /\ SF_vars(Locking(t))

FairSpec == Spec /\ Fairness

----------------------------------------------------------------------------
(* Properties.                                                             *)

Resource == {"file", "module", "module_inst", "exec_env"}

\* A task between its lwac_runtime_init that succeeded and its
\* lwac_runtime_destroy is a user of the runtime.
UserLabel == {"init_unlock", "check_xip", "load", "instantiate", "create_env",
              "lookup", "alloc_info", "register_lock", "register_link",
              "register_unlock", "call", "destroy_env", "unregister_lock",
              "unregister_unlink", "unregister_unlock", "deinstantiate",
              "unload", "destroy_lock", "count_out"}

\* The critical sections in which the runtime is up on nobody's account.
HandoverLabel == {"init_natives", "init_count", "destroy_runtime"}

Label == UserLabel \cup HandoverLabel \cup
         {"idle", "ps_lock", "ps_walk", "load_file", "free_file", "exit",
          "init_lock", "init_runtime", "init_failed", "destroy_unlock"}

TypeOK ==
    /\ RegistryTypeOK
    /\ pc \in [Task -> Label]
    /\ held \in [Task -> SUBSET Resource]
    /\ ret \in [Task -> {"failure", "parsed", "done"}]
    /\ g_wasm_runtime_ref_count \in Nat
    /\ g_wasm_runtime_mutex \in Task \cup {Nobody}
    /\ runtime \in Nat
    /\ lost_inits \in 0 .. MaxLostInits

Users == {t \in Task : pc[t] \in UserLabel}

Handover == \E t \in Task : pc[t] \in HandoverLabel

\* The reference count of lwac.c:76 is the number of runs that use the
\* runtime, at every statement and not only while the mutex is free.
RefCountIsUsers == g_wasm_runtime_ref_count = Cardinality(Users)

\* The runtime is initialised once for all its users and destroyed with the
\* last of them (lwac.c:63-74): besides the inits whose native modules failed
\* to register, one is outstanding exactly while somebody uses the runtime or
\* is about to, or the last user is about to destroy it.
RuntimeAccounted ==
    runtime = lost_inits + (IF Users # {} \/ Handover THEN 1 ELSE 0)

\* What lwac --ps shows runs: every listed module is listed once, by a run that
\* still has its instance and is counted as a user, so
\* wasm_runtime_get_mem_alloc_info (registry:217) is asked of a live runtime.
ListedModulesRun ==
    /\ \A j, k \in DOMAIN g_module_list :
          g_module_list[j].module_inst = g_module_list[k].module_inst => j = k
    /\ \A t \in Listed : "module_inst" \in held[t] /\ t \in Users

\* Teardown in execute_wasm_module follows the order of dependence on every
\* path: no exec_env without its instance, no instance without its module, no
\* module without the file it was loaded from (an XIP module runs from the
\* mapping) and the runtime.
DependenciesHeld ==
    \A t \in Task :
        /\ "exec_env" \in held[t] => "module_inst" \in held[t]
        /\ "module_inst" \in held[t] => "module" \in held[t]
        /\ "module" \in held[t] => "file" \in held[t] /\ t \in Users

\* Whatever failed on its way, a run that is over has given back all it took,
\* left no node in the list and holds no lock: every goto of main and of
\* execute_wasm_module lands on the right cleanup label.
NothingLeftBehind ==
    \A t \in Task : pc[t] \in {"exit", "idle"} =>
        /\ held[t] = {}
        /\ t \notin Listed
        /\ t \notin {writer, g_wasm_runtime_mutex}
        /\ t \notin readers

\* tests/lwac_test.c:228: "Expecting non-zero return code for error".  A run
\* that unwinds through the labels of execute_wasm_module ends with status 0
\* only when its entry function has returned.  (A run that fails before that,
\* in load_file, lwac_runtime_init or the XIP check, keeps the 0 of
\* parse_arguments.)
UnwindsWithItsStatus ==
    \A t \in Task :
        /\ pc[t] \in {"destroy_env", "unregister_lock", "unregister_unlink",
                      "unregister_unlock", "deinstantiate", "unload"}
        /\ ExitStatus(ret[t]) = 0
        => ret[t] = "done"

\* A run comes to its entry function or to its end, and after the entry
\* function to its end: no combination of the mutex and the read-write lock
\* blocks it.  A stream of --ps commands that overlap for ever may starve the
\* writers, as POSIX lets readers go first; that is excluded.
RunsFinish ==
    []<>(readers = {}) =>
        \A t \in Task : pc[t] \notin {"idle", "call"} ~> pc[t] \in {"idle", "call"}

----------------------------------------------------------------------------
(* The shared runtime, as its users see it: see SharedRuntime.             *)

Shared == INSTANCE SharedRuntime WITH
    users <- Users,
    live  <- runtime - (IF Users = {} /\ Handover THEN 1 ELSE 0)

\* The steps under g_wasm_runtime_mutex amount to atomic starts and stops.
ImplementsSharedRuntime == Shared!Spec

----------------------------------------------------------------------------
(* What the comments and tests promise and the code does not keep.         *)

\* lwac.c:74: "This prevents both resource leaks and crashes from multiple
\* init/destroy calls".  Without users, the runtime is down.
LastUserDestroysRuntime ==
    Users = {} /\ g_wasm_runtime_mutex = Nobody => runtime = 0

\* lwac_module_registry.c:28: "Read-write lock for thread-safe access to the
\* module list".  The row that --ps prints reads current->exec_env (registry:
\* 234), which must not have been destroyed.
PsReadsLiveEnv ==
    \A t \in readers : current[t] # Nobody => "exec_env" \in held[current[t]]
=============================================================================
