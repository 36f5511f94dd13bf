----------------------------- MODULE LwacProofs -----------------------------
(***************************************************************************)
(* Proofs about Lwac, for any number of tasks: the runtime and its         *)
(* counter, the list of running modules and its lock, and what each run    *)
(* holds.                                                                  *)
(***************************************************************************)
EXTENDS Lwac, RegistryProofs

----------------------------------------------------------------------------
(* The inductive invariant.                                                *)

\* The statements between pthread_mutex_lock and pthread_mutex_unlock.
MutexLabel == HandoverLabel \cup
    {"init_runtime", "init_unlock", "init_failed", "count_out", "destroy_unlock"}

MutexInv == \A t \in Task : pc[t] \in MutexLabel <=> g_wasm_runtime_mutex = t

\* The runtime is initialised and destroyed only when nobody uses it.
AloneInv == \A t \in Task : pc[t] \in {"init_natives", "destroy_runtime"} => Users = {}

RuntimeInv == MutexInv /\ AloneInv /\ RefCountIsUsers /\ RuntimeAccounted

\* The statements at which a task holds the write lock.
WriterLabel == {"register_link", "register_unlock", "unregister_unlink", "unregister_unlock"}

LockInv ==
    /\ \A t \in Task : pc[t] \in WriterLabel <=> writer = t
    /\ \A t \in Task : pc[t] = "ps_walk" <=> t \in readers
    /\ writer # Nobody => readers = {}
    /\ WalkerSeesLiveNode

\* The statements at which a task's node may be in the list.
ListedLabel == {"register_unlock", "call", "destroy_env", "unregister_lock",
                "unregister_unlink"}

ListedInv ==
    /\ \A t \in Listed : pc[t] \in ListedLabel
    /\ \A j, k \in DOMAIN g_module_list :
          g_module_list[j].module_inst = g_module_list[k].module_inst => j = k

\* What a task holds is read off its place in execute_wasm_module; only at
\* free_file_content the file may be there or not.
EnvLabel == {"lookup", "alloc_info", "register_lock", "register_link",
             "register_unlock", "call", "destroy_env"}
InstLabel == EnvLabel \cup {"create_env", "unregister_lock", "unregister_unlink",
                            "unregister_unlock", "deinstantiate"}
ModuleLabel == InstLabel \cup {"instantiate", "unload"}
FileLabel == UserLabel \cup HandoverLabel \cup
             {"init_lock", "init_runtime", "init_failed", "destroy_unlock"}
NoFileLabel == {"idle", "ps_lock", "ps_walk", "load_file", "exit"}

HeldInv ==
    \A t \in Task :
        /\ "exec_env" \in held[t] <=> pc[t] \in EnvLabel
        /\ "module_inst" \in held[t] <=> pc[t] \in InstLabel
        /\ "module" \in held[t] <=> pc[t] \in ModuleLabel
        /\ pc[t] \in FileLabel => "file" \in held[t]
        /\ pc[t] \in NoFileLabel => "file" \notin held[t]

IInv == TypeOK /\ RuntimeInv /\ LockInv /\ ListedInv /\ HeldInv

----------------------------------------------------------------------------

(* There are finitely many tasks, so their users can be counted.           *)
LEMMA UsersFinite == IsFiniteSet(Users)
<1>1. Users \in SUBSET Task  BY DEF Users
<1>. QED  BY <1>1, FS_Subset, LwacAssumption

(* No run has begun: nothing is held, counted or listed.                   *)
LEMMA InitIInv == Init => IInv
<1> SUFFICES ASSUME Init PROVE IInv
  OBVIOUS
<1>1. Users = {}
  BY DEF Init, Users, UserLabel
<1>2. ~Handover
  BY DEF Init, Handover, HandoverLabel
<1>3. TypeOK
  BY RegistryInitTypeOK, LwacAssumption DEF Init, TypeOK, Label
<1>4. RuntimeInv
  <2>1. MutexInv
    BY RegistryAssumption DEF Init, MutexInv, MutexLabel, HandoverLabel
  <2>2. AloneInv
    BY <1>1 DEF AloneInv
  <2>3. RefCountIsUsers
    BY <1>1, FS_EmptySet DEF Init, RefCountIsUsers
  <2>4. RuntimeAccounted
    BY <1>1, <1>2 DEF Init, RuntimeAccounted
  <2>. QED  BY <2>1, <2>2, <2>3, <2>4 DEF RuntimeInv
<1>5. LockInv
  BY RegistryAssumption
     DEF Init, RegistryInit, LockInv, WriterLabel, WalkerSeesLiveNode
<1>6. ListedInv
  BY DEF Init, RegistryInit, ListedInv, Listed
<1>7. HeldInv
  BY DEF Init, HeldInv, EnvLabel, InstLabel, ModuleLabel, FileLabel, UserLabel, HandoverLabel
<1>. QED  BY <1>3, <1>4, <1>5, <1>6, <1>7 DEF IInv

----------------------------------------------------------------------------
(* Types, one lemma per group of actions.                                  *)

\* What the types of the lwac variables are worth after a step that moves t.
LwacTypeOK ==
    /\ pc \in [Task -> Label]
    /\ held \in [Task -> SUBSET Resource]
    /\ ret \in [Task -> {"failure", "parsed", "done"}]

(* Every step of a run keeps the types of what the runs hold.              *)
LEMMA LwacTypeStep ==
  ASSUME TypeOK, NEW t \in Task,
         ParseArguments(t) \/ CallWasm(t) \/ Locking(t) \/ Computing(t)
  PROVE  LwacTypeOK'
<1> USE DEF TypeOK, LwacTypeOK, Goto, Return, Acquire, Release,
            Label, UserLabel, HandoverLabel, Resource
<1>1. CASE ParseArguments(t)  BY <1>1 DEF ParseArguments
<1>2. CASE CallWasm(t)        BY <1>2 DEF CallWasm
<1>3. CASE Locking(t)
  BY <1>3 DEF Locking, InitLock, DestroyLock, MutexLock, PsLock,
              RegisterLock, UnregisterLock
<1>4. CASE PsPrintRow(t) \/ PsUnlock(t) \/ LoadFile(t) \/ FreeFileContent(t) \/ Exit(t)
  BY <1>4 DEF PsPrintRow, PsUnlock, LoadFile, FreeFileContent, Exit
<1>5. CASE WasmRuntimeInit(t) \/ RegisterNatives(t) \/ CountIn(t) \/ InitUnlock(t)
  BY <1>5 DEF WasmRuntimeInit, RegisterNatives, CountIn, InitUnlock, MutexUnlock
<1>6. CASE CountOut(t) \/ WasmRuntimeDestroy(t) \/ DestroyUnlock(t)
  BY <1>6 DEF CountOut, WasmRuntimeDestroy, DestroyUnlock, MutexUnlock
<1>7. CASE CheckXip(t) \/ LookupEntry(t) \/ AllocInfo(t)
  BY <1>7 DEF CheckXip, LookupEntry, AllocInfo
<1>8. CASE Load(t) \/ Instantiate(t) \/ CreateExecEnv(t)
  BY <1>8 DEF Load, Instantiate, CreateExecEnv, Make
<1>9. CASE RegisterLink(t) \/ RegisterUnlock(t) \/ UnregisterUnlink(t) \/ UnregisterUnlock(t)
  BY <1>9 DEF RegisterLink, RegisterUnlock, UnregisterUnlink, UnregisterUnlock
<1>10. CASE DestroyExecEnv(t) \/ Deinstantiate(t) \/ Unload(t)
  BY <1>10 DEF DestroyExecEnv, Deinstantiate, Unload, Drop
<1>. QED
  BY <1>1, <1>2, <1>3, <1>4, <1>5, <1>6, <1>7, <1>8, <1>9, <1>10 DEF Computing

(* Every step of a run keeps the types of the registry: unregistering      *)
(* finds the list and the lock as their invariant says.                    *)
LEMMA RegistryTypeStep ==
  ASSUME TypeOK, LockInv, NEW t \in Task,
         ParseArguments(t) \/ CallWasm(t) \/ Locking(t) \/ Computing(t)
  PROVE  RegistryTypeOK'
<1>1. RegistryTypeOK
  BY DEF TypeOK
<1>2. ASSUME UNCHANGED registryVars PROVE RegistryTypeOK'
  BY <1>1, <1>2 DEF registryVars, RegistryTypeOK
<1>3. ASSUME WrLock(t) \/ WrUnlock(t) PROVE RegistryTypeOK'
  BY <1>1, <1>3 DEF WrLock, WrUnlock, RegistryTypeOK
<1>4. ASSUME RdLock(t) PROVE RegistryTypeOK'
  BY <1>1, <1>4, FirstNodeType DEF RdLock, RegistryTypeOK
<1>5. ASSUME RdUnlock(t) PROVE RegistryTypeOK'
  BY <1>1, <1>5 DEF RdUnlock, RegistryTypeOK
<1>6. ASSUME Advance(t), t \in readers PROVE RegistryTypeOK'
  <2>1. current[t] \in Listed
    BY <1>6 DEF LockInv, WalkerSeesLiveNode, Advance
  <2>2. NextOf(current[t]) \in Task \cup {Nobody}
    BY <1>1, <2>1, NextOfType, FirstNodeType
  <2>. QED  BY <1>1, <1>6, <2>2 DEF Advance, RegistryTypeOK
<1>7. CASE ParseArguments(t) \/ CallWasm(t)
  BY <1>2, <1>7 DEF ParseArguments, CallWasm
<1>8. CASE Locking(t)
  BY <1>2, <1>3, <1>4, <1>8
     DEF Locking, InitLock, DestroyLock, MutexLock, PsLock, RegisterLock, UnregisterLock
<1>9. CASE PsPrintRow(t) \/ PsUnlock(t)
  BY <1>5, <1>6, <1>9 DEF PsPrintRow, PsUnlock, LockInv, Goto
<1>10. CASE RegisterLink(t) \/ UnregisterUnlink(t)
  BY <1>1, <1>10, LinkType, UnlinkType DEF RegisterLink, UnregisterUnlink
<1>11. CASE RegisterUnlock(t) \/ UnregisterUnlock(t)
  BY <1>3, <1>11 DEF RegisterUnlock, UnregisterUnlock
<1>12. CASE \/ LoadFile(t) \/ FreeFileContent(t) \/ Exit(t)
            \/ WasmRuntimeInit(t) \/ RegisterNatives(t) \/ CountIn(t) \/ InitUnlock(t)
            \/ CountOut(t) \/ WasmRuntimeDestroy(t) \/ DestroyUnlock(t)
  BY <1>2, <1>12 DEF LoadFile, FreeFileContent, Exit, WasmRuntimeInit, RegisterNatives,
     CountIn, InitUnlock, CountOut, WasmRuntimeDestroy, DestroyUnlock, MutexUnlock
<1>13. CASE \/ CheckXip(t) \/ Load(t) \/ Instantiate(t) \/ CreateExecEnv(t)
            \/ LookupEntry(t) \/ AllocInfo(t)
            \/ DestroyExecEnv(t) \/ Deinstantiate(t) \/ Unload(t)
  BY <1>2, <1>13 DEF CheckXip, Load, Instantiate, CreateExecEnv, Make, LookupEntry,
     AllocInfo, DestroyExecEnv, Deinstantiate, Unload, Drop
<1>. QED
  BY <1>7, <1>8, <1>9, <1>10, <1>11, <1>12, <1>13 DEF Computing

----------------------------------------------------------------------------
(* The runtime and its reference count.                                    *)

\* A step of t that neither touches the runtime, nor makes t a user or ceases
\* to, nor takes t into or out of a critical section.
LEMMA QuietMove ==
  ASSUME TypeOK, RuntimeInv, NEW t \in Task, NEW l,
         pc' = [pc EXCEPT ![t] = l],
         pc[t] \in UserLabel <=> l \in UserLabel,
         pc[t] \notin MutexLabel, l \notin MutexLabel,
         UNCHANGED runtimeVars
  PROVE  RuntimeInv'
<1> USE DEF TypeOK, runtimeVars
<1>1. Users' = Users
  BY DEF Users
<1>2. Handover' = Handover
  BY DEF Handover, MutexLabel
<1>3. MutexInv'
  BY DEF RuntimeInv, MutexInv
<1>4. AloneInv'
  BY <1>1 DEF RuntimeInv, AloneInv, MutexLabel, HandoverLabel
<1>. QED
  BY <1>1, <1>2, <1>3, <1>4 DEF RuntimeInv, RefCountIsUsers, RuntimeAccounted

\* Taking and giving back g_wasm_runtime_mutex.
LEMMA MutexMove ==
  ASSUME TypeOK, RuntimeInv, NEW t \in Task,
         InitLock(t) \/ DestroyLock(t) \/ InitUnlock(t) \/ DestroyUnlock(t)
  PROVE  RuntimeInv'
<1> USE DEF TypeOK, InitLock, DestroyLock, InitUnlock, DestroyUnlock,
            MutexLock, MutexUnlock, Goto
<1>1. Users' = Users
  BY DEF Users, UserLabel
<1>2. Handover' = Handover
  BY DEF Handover, HandoverLabel
<1>3. MutexInv'
  BY RegistryAssumption DEF RuntimeInv, MutexInv, MutexLabel, HandoverLabel
<1>4. AloneInv'
  BY <1>1 DEF RuntimeInv, AloneInv
<1>. QED
  BY <1>1, <1>2, <1>3, <1>4 DEF RuntimeInv, RefCountIsUsers, RuntimeAccounted

\* In a critical section of t no other task is in one.
LEMMA OnlyInSection ==
  ASSUME MutexInv, NEW t \in Task, pc[t] \in MutexLabel, NEW u \in Task, u # t
  PROVE  pc[u] \notin MutexLabel
BY DEF MutexInv

(* lwac_runtime_init and lwac_runtime_destroy ask whether the count is 0,  *)
(* which tells whether anybody uses the runtime.                           *)
LEMMA NoUsersCount ==
  ASSUME RefCountIsUsers
  PROVE  g_wasm_runtime_ref_count = 0 <=> Users = {}
BY UsersFinite, FS_EmptySet DEF RefCountIsUsers

(* wasm_runtime_init of the first user, under the mutex.                   *)
LEMMA WasmRuntimeInitStep ==
  ASSUME TypeOK, RuntimeInv, NEW t \in Task, WasmRuntimeInit(t)
  PROVE  RuntimeInv'
<1> USE DEF TypeOK, WasmRuntimeInit, Goto
<1>1. Users' = Users
  BY DEF Users, UserLabel
<1>2. MutexInv'
  BY DEF RuntimeInv, MutexInv, MutexLabel, HandoverLabel
<1>3. g_wasm_runtime_ref_count = 0 <=> Users = {}
  BY NoUsersCount DEF RuntimeInv
<1>4. ~Handover
  BY OnlyInSection DEF RuntimeInv, Handover, MutexLabel, HandoverLabel
<1>5. AloneInv'
  BY <1>1, <1>3 DEF RuntimeInv, AloneInv
<1>6. RuntimeAccounted'
  <2>1. CASE g_wasm_runtime_ref_count > 0
    BY <1>1, <1>3, <2>1 DEF RuntimeInv, RuntimeAccounted
  <2>2. CASE /\ g_wasm_runtime_ref_count = 0
             /\ pc' = [pc EXCEPT ![t] = "init_natives"] /\ runtime' = runtime + 1
    <3>1. Handover'
      BY <2>2 DEF Handover, HandoverLabel
    <3>. QED  BY <1>1, <1>3, <1>4, <2>2, <3>1 DEF RuntimeInv, RuntimeAccounted
  <2>3. CASE /\ g_wasm_runtime_ref_count = 0
             /\ pc' = [pc EXCEPT ![t] = "init_failed"] /\ UNCHANGED runtime
    <3>1. ~Handover'
      BY <1>4, <2>3 DEF Handover, HandoverLabel
    <3>. QED  BY <1>1, <1>3, <1>4, <2>3, <3>1 DEF RuntimeInv, RuntimeAccounted
  <2>. QED  BY <2>1, <2>2, <2>3
<1>. QED  BY <1>1, <1>2, <1>5, <1>6 DEF RuntimeInv, RefCountIsUsers

(* Registering the native modules, or failing to: the runtime that was     *)
(* initialised is then lost.                                               *)
LEMMA RegisterNativesStep ==
  ASSUME TypeOK, RuntimeInv, NEW t \in Task, RegisterNatives(t)
  PROVE  RuntimeInv'
<1> USE DEF TypeOK, RegisterNatives, Goto
<1>1. Users' = Users /\ Users = {}
  BY DEF Users, UserLabel, RuntimeInv, AloneInv
<1>2. MutexInv'
  BY DEF RuntimeInv, MutexInv, MutexLabel, HandoverLabel
<1>3. Handover
  BY DEF Handover, HandoverLabel
<1>4. AloneInv'
  BY <1>1 DEF AloneInv
<1>5. CASE pc' = [pc EXCEPT ![t] = "init_count"] /\ UNCHANGED lost_inits
  <2>1. Handover'
    BY <1>5 DEF Handover, HandoverLabel
  <2>. QED
    BY <1>1, <1>2, <1>3, <1>4, <1>5, <2>1 DEF RuntimeInv, RefCountIsUsers, RuntimeAccounted
<1>6. CASE pc' = [pc EXCEPT ![t] = "init_failed"] /\ lost_inits' = lost_inits + 1
  <2>1. ~Handover'
    BY <1>6, OnlyInSection DEF RuntimeInv, Handover, MutexLabel, HandoverLabel
  <2>. QED
    BY <1>1, <1>2, <1>3, <1>4, <1>6, <2>1 DEF RuntimeInv, RefCountIsUsers, RuntimeAccounted
<1>. QED  BY <1>5, <1>6

(* g_wasm_runtime_ref_count++ makes the task a user.                       *)
LEMMA CountInStep ==
  ASSUME TypeOK, RuntimeInv, NEW t \in Task, CountIn(t)
  PROVE  RuntimeInv'
<1> USE DEF TypeOK, CountIn, Goto
<1>1. Users' = Users \cup {t} /\ t \notin Users
  BY DEF Users, UserLabel
<1>2. MutexInv'
  BY DEF RuntimeInv, MutexInv, MutexLabel, HandoverLabel
<1>3. Handover
  BY DEF Handover, HandoverLabel
<1>4. AloneInv'
  BY OnlyInSection DEF RuntimeInv, AloneInv, MutexLabel, HandoverLabel
<1>5. RefCountIsUsers'
  BY <1>1, UsersFinite, FS_AddElement DEF RuntimeInv, RefCountIsUsers
<1>6. RuntimeAccounted'
  BY <1>1, <1>3 DEF RuntimeInv, RuntimeAccounted
<1>. QED  BY <1>2, <1>4, <1>5, <1>6 DEF RuntimeInv

(* g_wasm_runtime_ref_count-- of a user: the count was positive.           *)
LEMMA CountOutStep ==
  ASSUME TypeOK, RuntimeInv, NEW t \in Task, CountOut(t)
  PROVE  RuntimeInv' /\ g_wasm_runtime_ref_count' \in Nat
<1> USE DEF TypeOK, CountOut, Goto
<1>1. Users' = Users \ {t} /\ t \in Users
  BY DEF Users, UserLabel
<1>2. MutexInv'
  BY DEF RuntimeInv, MutexInv, MutexLabel, HandoverLabel
<1>3. IsFiniteSet(Users')
  BY <1>1, UsersFinite, FS_RemoveElement
<1>4. RefCountIsUsers'
  BY <1>1, UsersFinite, FS_RemoveElement DEF RuntimeInv, RefCountIsUsers
<1>5. g_wasm_runtime_ref_count' = 0 <=> Users' = {}
  BY <1>3, <1>4, FS_EmptySet DEF RefCountIsUsers
<1>6. g_wasm_runtime_ref_count' \in Nat
  BY <1>3, <1>4, FS_CardinalityType DEF RefCountIsUsers
<1>7. AloneInv'
  BY <1>5, OnlyInSection DEF RuntimeInv, AloneInv, MutexLabel, HandoverLabel
<1>8. RuntimeAccounted'
  <2>1. CASE Users' = {}
    <3>1. Handover'
      BY <1>5, <2>1 DEF Handover, HandoverLabel
    <3>. QED  BY <1>1, <2>1, <3>1 DEF RuntimeInv, RuntimeAccounted
  <2>2. CASE Users' # {}
    BY <1>1, <2>2 DEF RuntimeInv, RuntimeAccounted
  <2>. QED  BY <2>1, <2>2
<1>. QED  BY <1>2, <1>4, <1>6, <1>7, <1>8 DEF RuntimeInv

(* wasm_runtime_destroy after the last user, under the mutex: there is a   *)
(* runtime to destroy.                                                     *)
LEMMA WasmRuntimeDestroyStep ==
  ASSUME TypeOK, RuntimeInv, NEW t \in Task, WasmRuntimeDestroy(t)
  PROVE  RuntimeInv' /\ runtime' \in Nat
<1> USE DEF TypeOK, WasmRuntimeDestroy, Goto
<1>1. Users' = Users /\ Users = {}
  BY DEF Users, UserLabel, RuntimeInv, AloneInv
<1>2. MutexInv'
  BY DEF RuntimeInv, MutexInv, MutexLabel, HandoverLabel
<1>3. Handover
  BY DEF Handover, HandoverLabel
<1>4. ~Handover'
  BY OnlyInSection DEF RuntimeInv, Handover, MutexLabel, HandoverLabel
<1>5. AloneInv'
  BY <1>1 DEF AloneInv
<1>6. RuntimeAccounted' /\ runtime' \in Nat
  BY <1>1, <1>3, <1>4 DEF RuntimeInv, RuntimeAccounted
<1>. QED  BY <1>1, <1>2, <1>5, <1>6 DEF RuntimeInv, RefCountIsUsers

\* Every step keeps the runtime's invariant and the types of its counters.
LEMMA RuntimeStep ==
  ASSUME TypeOK, RuntimeInv, NEW t \in Task,
         ParseArguments(t) \/ CallWasm(t) \/ Locking(t) \/ Computing(t)
  PROVE  /\ RuntimeInv'
         /\ g_wasm_runtime_ref_count' \in Nat
         /\ g_wasm_runtime_mutex' \in Task \cup {Nobody}
         /\ runtime' \in Nat
         /\ lost_inits' \in 0 .. MaxLostInits
<1> DEFINE Counters == /\ g_wasm_runtime_ref_count' \in Nat
                       /\ g_wasm_runtime_mutex' \in Task \cup {Nobody}
                       /\ runtime' \in Nat
                       /\ lost_inits' \in 0 .. MaxLostInits
<1>1. ASSUME NEW l, pc' = [pc EXCEPT ![t] = l],
             pc[t] \in UserLabel <=> l \in UserLabel,
             pc[t] \notin MutexLabel, l \notin MutexLabel,
             UNCHANGED runtimeVars
      PROVE  RuntimeInv' /\ Counters
  BY <1>1, QuietMove DEF TypeOK, runtimeVars
<1> USE DEF Goto, UserLabel, MutexLabel, HandoverLabel
<1>2. CASE ParseArguments(t) \/ CallWasm(t)
  BY <1>1, <1>2 DEF ParseArguments, CallWasm
<1>3. CASE PsLock(t) \/ RegisterLock(t) \/ UnregisterLock(t)
  BY <1>1, <1>3 DEF PsLock, RegisterLock, UnregisterLock
<1>4. CASE PsPrintRow(t)
  <2>1. pc' = pc /\ UNCHANGED runtimeVars
    BY <1>4 DEF PsPrintRow
  <2>2. Users' = Users
    BY <2>1 DEF Users
  <2>3. Handover' = Handover
    BY <2>1 DEF Handover
  <2>4. MutexInv' /\ AloneInv'
    BY <2>1, <2>2 DEF RuntimeInv, MutexInv, AloneInv, runtimeVars
  <2>5. RefCountIsUsers' /\ RuntimeAccounted'
    BY <2>1, <2>2, <2>3 DEF RuntimeInv, RefCountIsUsers, RuntimeAccounted, runtimeVars
  <2>6. Counters
    BY <2>1 DEF TypeOK, runtimeVars
  <2>. QED  BY <2>4, <2>5, <2>6 DEF RuntimeInv
<1>5. CASE PsUnlock(t) \/ LoadFile(t) \/ FreeFileContent(t) \/ Exit(t)
  BY <1>1, <1>5 DEF PsUnlock, LoadFile, FreeFileContent, Exit
<1>6. CASE InitLock(t) \/ DestroyLock(t) \/ InitUnlock(t) \/ DestroyUnlock(t)
  BY <1>6, MutexMove DEF InitLock, DestroyLock, InitUnlock, DestroyUnlock,
                         MutexLock, MutexUnlock, TypeOK
<1>7. CASE WasmRuntimeInit(t)
  BY <1>7, WasmRuntimeInitStep DEF WasmRuntimeInit, TypeOK
<1>8. CASE RegisterNatives(t)
  BY <1>8, RegisterNativesStep, LwacAssumption DEF RegisterNatives, TypeOK
<1>9. CASE CountIn(t)
  <2>1. RuntimeInv'
    BY <1>9, CountInStep
  <2>2. Counters
    BY <1>9, <2>1 DEF CountIn, TypeOK
  <2>. QED  BY <2>1, <2>2
<1>10. CASE CountOut(t)
  <2>1. RuntimeInv' /\ g_wasm_runtime_ref_count' \in Nat
    BY <1>10, CountOutStep
  <2>2. Counters
    BY <1>10, <2>1 DEF CountOut, TypeOK
  <2>. QED  BY <2>1, <2>2
<1>11. CASE WasmRuntimeDestroy(t)
  <2>1. RuntimeInv' /\ runtime' \in Nat
    BY <1>11, WasmRuntimeDestroyStep
  <2>2. Counters
    BY <1>11, <2>1 DEF WasmRuntimeDestroy, TypeOK
  <2>. QED  BY <2>1, <2>2
<1>12. CASE CheckXip(t) \/ LookupEntry(t) \/ AllocInfo(t)
  BY <1>1, <1>12 DEF CheckXip, LookupEntry, AllocInfo
<1>13. CASE Load(t) \/ Instantiate(t) \/ CreateExecEnv(t)
  BY <1>1, <1>13 DEF Load, Instantiate, CreateExecEnv, Make
<1>14. CASE RegisterLink(t) \/ RegisterUnlock(t) \/ UnregisterUnlink(t) \/ UnregisterUnlock(t)
  BY <1>1, <1>14 DEF RegisterLink, RegisterUnlock, UnregisterUnlink, UnregisterUnlock
<1>15. CASE DestroyExecEnv(t) \/ Deinstantiate(t) \/ Unload(t)
  BY <1>1, <1>15 DEF DestroyExecEnv, Deinstantiate, Unload, Drop
<1>. QED
  BY <1>2, <1>3, <1>4, <1>5, <1>6, <1>7, <1>8, <1>9, <1>10, <1>11, <1>12, <1>13,
     <1>14, <1>15 DEF Locking, Computing

----------------------------------------------------------------------------
(* What a run holds: each action acquires or gives back what its label     *)
(* says.                                                                   *)

(* Every step of a run keeps what is held at each label: an action         *)
(* acquires or gives back exactly what the label it goes to says.          *)
LEMMA HeldStep ==
  ASSUME TypeOK, HeldInv, NEW t \in Task,
         ParseArguments(t) \/ CallWasm(t) \/ Locking(t) \/ Computing(t)
  PROVE  HeldInv'
<1> USE DEF TypeOK, HeldInv, Goto, Acquire, Release, EnvLabel, InstLabel, ModuleLabel,
            FileLabel, NoFileLabel, UserLabel, HandoverLabel, Resource
<1>1. CASE ParseArguments(t) \/ CallWasm(t)
  BY <1>1 DEF ParseArguments, CallWasm
<1>2. CASE Locking(t)
  BY <1>2 DEF Locking, InitLock, DestroyLock, MutexLock, PsLock,
              RegisterLock, UnregisterLock
<1>3. CASE PsPrintRow(t) \/ PsUnlock(t) \/ Exit(t)
  BY <1>3 DEF PsPrintRow, PsUnlock, Exit
<1>4. CASE LoadFile(t)
  BY <1>4 DEF LoadFile
<1>5. CASE FreeFileContent(t)
  BY <1>5 DEF FreeFileContent
<1>6. CASE WasmRuntimeInit(t) \/ RegisterNatives(t) \/ CountIn(t) \/ InitUnlock(t)
  BY <1>6 DEF WasmRuntimeInit, RegisterNatives, CountIn, InitUnlock, MutexUnlock
<1>7. CASE CountOut(t) \/ WasmRuntimeDestroy(t) \/ DestroyUnlock(t)
  BY <1>7 DEF CountOut, WasmRuntimeDestroy, DestroyUnlock, MutexUnlock
<1>8. CASE CheckXip(t) \/ LookupEntry(t) \/ AllocInfo(t)
  BY <1>8 DEF CheckXip, LookupEntry, AllocInfo
<1>9. CASE Load(t)
  BY <1>9 DEF Load, Make
<1>10. CASE Instantiate(t)
  BY <1>10 DEF Instantiate, Make
<1>11. CASE CreateExecEnv(t)
  BY <1>11 DEF CreateExecEnv, Make
<1>12. CASE RegisterLink(t) \/ RegisterUnlock(t) \/ UnregisterUnlink(t) \/ UnregisterUnlock(t)
  BY <1>12 DEF RegisterLink, RegisterUnlock, UnregisterUnlink, UnregisterUnlock
<1>13. CASE DestroyExecEnv(t)
  BY <1>13 DEF DestroyExecEnv, Drop
<1>14. CASE Deinstantiate(t)
  BY <1>14 DEF Deinstantiate, Drop
<1>15. CASE Unload(t)
  BY <1>15 DEF Unload, Drop
<1>. QED
  BY <1>1, <1>2, <1>3, <1>4, <1>5, <1>6, <1>7, <1>8, <1>9, <1>10, <1>11, <1>12,
     <1>13, <1>14, <1>15 DEF Computing

----------------------------------------------------------------------------
(* The lock of the list, and who is in the list.                           *)

RegistryInv == LockInv /\ ListedInv

\* A step of t outside the critical sections that leaves the registry alone.
LEMMA QuietRegistry ==
  ASSUME TypeOK, RegistryInv, NEW t \in Task, NEW l,
         pc' = [pc EXCEPT ![t] = l],
         pc[t] \notin WriterLabel \cup {"ps_walk"},
         l \notin WriterLabel \cup {"ps_walk"},
         pc[t] \in ListedLabel => l \in ListedLabel,
         UNCHANGED registryVars
  PROVE  RegistryInv'
<1> USE DEF TypeOK, registryVars
<1>1. Listed' = Listed
  BY DEF Listed
<1>2. LockInv'
  BY <1>1 DEF RegistryInv, LockInv, WalkerSeesLiveNode
<1>3. ListedInv'
  <2>1. Listed \subseteq Task
    BY FirstNodeType
  <2>2. \A u \in Listed' : pc'[u] \in ListedLabel
    BY <1>1, <2>1 DEF RegistryInv, ListedInv
  <2>. QED  BY <2>2 DEF RegistryInv, ListedInv
<1>. QED  BY <1>2, <1>3 DEF RegistryInv

\* Taking and giving back the write lock.
LEMMA WriteLockMove ==
  ASSUME TypeOK, RegistryInv, NEW t \in Task,
         RegisterLock(t) \/ RegisterUnlock(t) \/ UnregisterLock(t) \/ UnregisterUnlock(t)
  PROVE  RegistryInv'
<1> USE DEF TypeOK, RegisterLock, RegisterUnlock, UnregisterLock, UnregisterUnlock,
            WrLock, WrUnlock, Goto
<1>1. Listed' = Listed /\ Listed \subseteq Task
  BY FirstNodeType DEF Listed
<1>2. \A u \in Task : pc'[u] \in WriterLabel <=> writer' = u
  BY RegistryAssumption DEF RegistryInv, LockInv, WriterLabel
<1>3. \A u \in Task : pc'[u] = "ps_walk" <=> u \in readers'
  BY DEF RegistryInv, LockInv
<1>4. writer' # Nobody => readers' = {}
  BY DEF RegistryInv, LockInv
<1>5. WalkerSeesLiveNode'
  BY <1>1 DEF RegistryInv, LockInv, WalkerSeesLiveNode
<1>6. ListedInv'
  <2>1. \A u \in Listed' : pc'[u] \in ListedLabel
    BY <1>1 DEF RegistryInv, ListedInv, ListedLabel
  <2>. QED  BY <2>1 DEF RegistryInv, ListedInv
<1>. QED  BY <1>2, <1>3, <1>4, <1>5, <1>6 DEF RegistryInv, LockInv

\* --ps: the read lock, and the walk under it.
LEMMA WalkMove ==
  ASSUME TypeOK, RegistryInv, NEW t \in Task,
         PsLock(t) \/ PsPrintRow(t) \/ PsUnlock(t)
  PROVE  RegistryInv'
<1> USE DEF TypeOK, PsLock, PsPrintRow, PsUnlock, RdLock, RdUnlock, Advance, Goto
<1>1. Listed' = Listed /\ Listed \subseteq Task
  BY FirstNodeType DEF Listed
<1>2. \A u \in Task : pc'[u] \in WriterLabel <=> writer' = u
  BY DEF RegistryInv, LockInv, WriterLabel
<1>3. \A u \in Task : pc'[u] = "ps_walk" <=> u \in readers'
  BY DEF RegistryInv, LockInv
<1>4. writer' # Nobody => readers' = {}
  BY DEF RegistryInv, LockInv
<1>5. WalkerSeesLiveNode'
  <2>1. CASE PsLock(t)
    BY <1>1, <2>1, FirstNodeType DEF RegistryInv, LockInv, WalkerSeesLiveNode, RegistryTypeOK
  <2>2. CASE PsPrintRow(t)
    <3>1. t \in readers /\ current[t] \in Listed
      BY <2>2 DEF RegistryInv, LockInv, WalkerSeesLiveNode
    <3>2. NextOf(current[t]) \in Listed \cup {Nobody}
      BY <3>1, NextOfType
    <3>. QED
      BY <1>1, <2>2, <3>2 DEF RegistryInv, LockInv, WalkerSeesLiveNode, RegistryTypeOK
  <2>3. CASE PsUnlock(t)
    BY <1>1, <2>3 DEF RegistryInv, LockInv, WalkerSeesLiveNode, RegistryTypeOK
  <2>. QED  BY <2>1, <2>2, <2>3
<1>6. ListedInv'
  <2>1. \A u \in Listed' : pc'[u] \in ListedLabel
    BY <1>1 DEF RegistryInv, ListedInv, ListedLabel
  <2>2. g_module_list' = g_module_list
    OBVIOUS
  <2>. QED  BY <2>1, <2>2 DEF RegistryInv, ListedInv
<1>. QED  BY <1>2, <1>3, <1>4, <1>5, <1>6 DEF RegistryInv, LockInv

\* Linking and unlinking: the writer is alone, and moves its own node only.
LEMMA LinkMove ==
  ASSUME TypeOK, RegistryInv, NEW t \in Task, RegisterLink(t) \/ UnregisterUnlink(t)
  PROVE  RegistryInv'
<1> USE DEF TypeOK, RegisterLink, UnregisterUnlink, Goto
<1>1. UNCHANGED <<writer, readers>>
  BY DEF Link, Unlink
<1>2. readers = {}
  BY RegistryAssumption DEF RegistryInv, LockInv, WriterLabel
<1>3. LockInv'
  <2>1. \A u \in Task : pc'[u] \in WriterLabel <=> writer' = u
    BY <1>1 DEF RegistryInv, LockInv, WriterLabel
  <2>2. \A u \in Task : pc'[u] = "ps_walk" <=> u \in readers'
    BY <1>1 DEF RegistryInv, LockInv
  <2>. QED  BY <1>1, <1>2, <2>1, <2>2 DEF LockInv, WalkerSeesLiveNode
<1>4. Listed \subseteq Task /\ OneNodeEach
  BY FirstNodeType DEF RegistryInv, ListedInv, OneNodeEach
<1>5. CASE RegisterLink(t)
  <2>1. t \notin Listed
    BY <1>5 DEF RegistryInv, ListedInv, ListedLabel
  <2>2. Listed' = Listed \cup {t} /\ OneNodeEach'
    BY <1>4, <1>5, <2>1, LinkListed
  <2>3. \A u \in Listed' : pc'[u] \in ListedLabel
    BY <1>4, <1>5, <2>2 DEF RegistryInv, ListedInv, ListedLabel
  <2>. QED  BY <1>3, <2>2, <2>3 DEF RegistryInv, ListedInv, OneNodeEach
<1>6. CASE UnregisterUnlink(t)
  <2>1. Listed' = Listed \ {t} /\ OneNodeEach'
    BY <1>4, <1>6, UnlinkListed
  <2>2. \A u \in Listed' : pc'[u] \in ListedLabel
    BY <1>4, <1>6, <2>1 DEF RegistryInv, ListedInv, ListedLabel
  <2>. QED  BY <1>3, <2>1, <2>2 DEF RegistryInv, ListedInv, OneNodeEach
<1>. QED  BY <1>5, <1>6

(* Every step of a run keeps the registry's part of the invariant: its     *)
(* lock, its list and who is listed.                                       *)
LEMMA RegistryStep ==
  ASSUME TypeOK, RegistryInv, NEW t \in Task,
         ParseArguments(t) \/ CallWasm(t) \/ Locking(t) \/ Computing(t)
  PROVE  RegistryInv'
<1>1. ASSUME NEW l, pc' = [pc EXCEPT ![t] = l],
             pc[t] \notin WriterLabel \cup {"ps_walk"},
             l \notin WriterLabel \cup {"ps_walk"},
             pc[t] \in ListedLabel => l \in ListedLabel,
             UNCHANGED registryVars
      PROVE  RegistryInv'
  BY <1>1, QuietRegistry
<1> USE DEF Goto, WriterLabel, ListedLabel
<1>2. CASE ParseArguments(t) \/ CallWasm(t)
  BY <1>1, <1>2 DEF ParseArguments, CallWasm
<1>3. CASE InitLock(t) \/ DestroyLock(t) \/ InitUnlock(t) \/ DestroyUnlock(t)
  BY <1>1, <1>3 DEF InitLock, DestroyLock, InitUnlock, DestroyUnlock, MutexLock, MutexUnlock
<1>4. CASE RegisterLock(t) \/ RegisterUnlock(t) \/ UnregisterLock(t) \/ UnregisterUnlock(t)
  BY <1>4, WriteLockMove
<1>5. CASE PsLock(t) \/ PsPrintRow(t) \/ PsUnlock(t)
  BY <1>5, WalkMove
<1>6. CASE RegisterLink(t) \/ UnregisterUnlink(t)
  BY <1>6, LinkMove
<1>7. CASE LoadFile(t) \/ FreeFileContent(t) \/ Exit(t)
  BY <1>1, <1>7 DEF LoadFile, FreeFileContent, Exit
<1>8. CASE \/ WasmRuntimeInit(t) \/ RegisterNatives(t) \/ CountIn(t)
           \/ CountOut(t) \/ WasmRuntimeDestroy(t)
  BY <1>1, <1>8 DEF WasmRuntimeInit, RegisterNatives, CountIn, CountOut, WasmRuntimeDestroy
<1>9. CASE CheckXip(t) \/ LookupEntry(t) \/ AllocInfo(t)
  BY <1>1, <1>9 DEF CheckXip, LookupEntry, AllocInfo
<1>10. CASE Load(t) \/ Instantiate(t) \/ CreateExecEnv(t)
  BY <1>1, <1>10 DEF Load, Instantiate, CreateExecEnv, Make
<1>11. CASE DestroyExecEnv(t) \/ Deinstantiate(t) \/ Unload(t)
  BY <1>1, <1>11 DEF DestroyExecEnv, Deinstantiate, Unload, Drop
<1>. QED
  BY <1>2, <1>3, <1>4, <1>5, <1>6, <1>7, <1>8, <1>9, <1>10, <1>11 DEF Locking, Computing

----------------------------------------------------------------------------
(* The invariant, and what follows from it.                                *)

(* Every step keeps the five parts of the invariant together.              *)
LEMMA IInvStep == IInv /\ [Next]_vars => IInv'
<1> SUFFICES ASSUME IInv, [Next]_vars PROVE IInv'
  OBVIOUS
<1>1. CASE Next
  <2>1. PICK t \in Task : ParseArguments(t) \/ CallWasm(t) \/ Locking(t) \/ Computing(t)
    BY <1>1 DEF Next
  <2>2. RegistryTypeOK'
    BY <2>1, RegistryTypeStep DEF IInv
  <2>3. LwacTypeOK'
    BY <2>1, LwacTypeStep DEF IInv
  <2>4. /\ RuntimeInv'
        /\ g_wasm_runtime_ref_count' \in Nat
        /\ g_wasm_runtime_mutex' \in Task \cup {Nobody}
        /\ runtime' \in Nat
        /\ lost_inits' \in 0 .. MaxLostInits
    BY <2>1, RuntimeStep DEF IInv
  <2>5. RegistryInv'
    BY <2>1, RegistryStep DEF IInv, RegistryInv
  <2>6. HeldInv'
    BY <2>1, HeldStep DEF IInv
  <2>7. TypeOK'
    BY <2>2, <2>3, <2>4 DEF TypeOK, LwacTypeOK
  <2>. QED  BY <2>4, <2>5, <2>6, <2>7 DEF IInv, RegistryInv
<1>2. CASE UNCHANGED vars
  <2> USE <1>2 DEF vars, registryVars, runtimeVars
  <2>1. TypeOK'
    BY DEF IInv, TypeOK, RegistryTypeOK
  <2>2. Users' = Users /\ Handover' = Handover /\ Listed' = Listed
    BY DEF Users, Handover, Listed
  <2>3. RuntimeInv'
    BY <2>2 DEF IInv, RuntimeInv, MutexInv, AloneInv, RefCountIsUsers, RuntimeAccounted
  <2>4. LockInv'
    BY <2>2 DEF IInv, LockInv, WalkerSeesLiveNode
  <2>5. ListedInv'
    BY <2>2 DEF IInv, ListedInv
  <2>6. HeldInv'
    BY DEF IInv, HeldInv
  <2>. QED  BY <2>1, <2>3, <2>4, <2>5, <2>6 DEF IInv
<1>. QED  BY <1>1, <1>2

\* The five parts of the invariant hold together in every reachable state.
THEOREM Invariance == Spec => []IInv
<1>1. Init => IInv
  BY InitIInv
<1>2. IInv /\ [Next]_vars => IInv'
  BY IInvStep
<1>. QED  BY <1>1, <1>2, PTL DEF Spec

\* Every variable of the runs, of the shared runtime and of the registry keeps
\* its type; for the reference count, which lwac_runtime_destroy decrements
\* without a test, that is that it never falls below zero.
THEOREM TypeCorrect == Spec => []TypeOK
<1>1. IInv => TypeOK  BY DEF IInv
<1>. QED  BY <1>1, Invariance, PTL

\* lwac_runtime_init and lwac_runtime_destroy keep g_wasm_runtime_ref_count
\* equal to the number of runs between the two, for any number of tasks.
THEOREM RefCountCorrect == Spec => []RefCountIsUsers
<1>1. IInv => RefCountIsUsers  BY DEF IInv, RuntimeInv
<1>. QED  BY <1>1, Invariance, PTL

\* wasm_runtime_init and wasm_runtime_destroy alternate, but for the inits
\* whose native modules failed to register.
THEOREM RuntimeCorrect == Spec => []RuntimeAccounted
<1>1. IInv => RuntimeAccounted  BY DEF IInv, RuntimeInv
<1>. QED  BY <1>1, Invariance, PTL

\* lwac__print_running_modules never follows a pointer to a node that
\* lwac__unregister_wasm_module has freed.
THEOREM WalkersSafe == Spec => []WalkerSeesLiveNode
<1>1. IInv => WalkerSeesLiveNode  BY DEF IInv, LockInv
<1>. QED  BY <1>1, Invariance, PTL

\* A module in the list is there once, and its instance and the runtime are
\* there as long as it is.
THEOREM ListedCorrect == Spec => []ListedModulesRun
<1>1. IInv => ListedModulesRun
  <2> SUFFICES ASSUME IInv PROVE ListedModulesRun
    OBVIOUS
  <2>1. Listed \subseteq Task
    BY FirstNodeType DEF IInv, TypeOK
  <2>. QED
    BY <2>1 DEF IInv, ListedInv, HeldInv, ListedModulesRun, Users, ListedLabel,
                InstLabel, EnvLabel, UserLabel
<1>. QED  BY <1>1, Invariance, PTL

\* execute_wasm_module takes down what it set up in the order of dependence,
\* on every path through its cleanup labels.
THEOREM TeardownOrdered == Spec => []DependenciesHeld
<1>1. IInv => DependenciesHeld
  BY DEF IInv, HeldInv, DependenciesHeld, Users, ModuleLabel, InstLabel, EnvLabel,
         FileLabel, UserLabel
<1>. QED  BY <1>1, Invariance, PTL

\* Every path of main and execute_wasm_module gives back what it took.
THEOREM CleanupComplete == Spec => []NothingLeftBehind
<1>1. IInv => NothingLeftBehind
  <2> SUFFICES ASSUME IInv, NEW t \in Task, pc[t] \in {"exit", "idle"}
               PROVE  /\ held[t] = {}
                      /\ t \notin Listed
                      /\ t \notin {writer, g_wasm_runtime_mutex}
                      /\ t \notin readers
    BY DEF NothingLeftBehind
  <2>1. held[t] \subseteq Resource
    BY DEF IInv, TypeOK
  <2>2. held[t] = {}
    BY <2>1 DEF IInv, HeldInv, Resource, NoFileLabel, ModuleLabel, InstLabel, EnvLabel
  <2>3. t \notin Listed
    BY DEF IInv, ListedInv, ListedLabel
  <2>4. t # writer /\ t \notin readers
    BY DEF IInv, LockInv, WriterLabel
  <2>5. t # g_wasm_runtime_mutex
    BY DEF IInv, RuntimeInv, MutexInv, MutexLabel, HandoverLabel
  <2>. QED  BY <2>2, <2>3, <2>4, <2>5
<1>. QED  BY <1>1, Invariance, PTL

\* What ret says at a cleanup label of execute_wasm_module.
UnwindLabel == {"destroy_env", "unregister_lock", "unregister_unlink",
                "unregister_unlock", "deinstantiate", "unload"}

StatusInv == \A t \in Task : pc[t] \in UnwindLabel => ret[t] \in {"failure", "done"}

\* Who unwinds has failed, or its entry function has returned: a step that
\* comes to a cleanup label from outside sets the status, and the cleanup
\* calls leave it.
LEMMA StatusStep ==
  ASSUME TypeOK, StatusInv, NEW t \in Task,
         ParseArguments(t) \/ CallWasm(t) \/ Locking(t) \/ Computing(t)
  PROVE  StatusInv'
<1> USE DEF TypeOK, StatusInv, UnwindLabel, Goto, Return
<1>1. CASE ParseArguments(t) \/ CallWasm(t)
  BY <1>1 DEF ParseArguments, CallWasm
<1>2. CASE Locking(t)
  BY <1>2 DEF Locking, InitLock, DestroyLock, MutexLock, PsLock,
              RegisterLock, UnregisterLock
<1>3. CASE PsPrintRow(t) \/ PsUnlock(t) \/ Exit(t) \/ LoadFile(t) \/ FreeFileContent(t)
  BY <1>3 DEF PsPrintRow, PsUnlock, Exit, LoadFile, FreeFileContent
<1>4. CASE WasmRuntimeInit(t) \/ RegisterNatives(t) \/ CountIn(t) \/ InitUnlock(t)
  BY <1>4 DEF WasmRuntimeInit, RegisterNatives, CountIn, InitUnlock, MutexUnlock
<1>5. CASE CountOut(t) \/ WasmRuntimeDestroy(t) \/ DestroyUnlock(t)
  BY <1>5 DEF CountOut, WasmRuntimeDestroy, DestroyUnlock, MutexUnlock
<1>6. CASE CheckXip(t) \/ LookupEntry(t) \/ AllocInfo(t)
  BY <1>6 DEF CheckXip, LookupEntry, AllocInfo
<1>7. CASE Load(t) \/ Instantiate(t) \/ CreateExecEnv(t)
  BY <1>7 DEF Load, Instantiate, CreateExecEnv, Make
<1>8. CASE RegisterLink(t) \/ RegisterUnlock(t) \/ UnregisterUnlink(t) \/ UnregisterUnlock(t)
  BY <1>8 DEF RegisterLink, RegisterUnlock, UnregisterUnlink, UnregisterUnlock
<1>9. CASE DestroyExecEnv(t) \/ Deinstantiate(t) \/ Unload(t)
  BY <1>9 DEF DestroyExecEnv, Deinstantiate, Unload, Drop
<1>. QED
  BY <1>1, <1>2, <1>3, <1>4, <1>5, <1>6, <1>7, <1>8, <1>9 DEF Computing

\* Whatever fails in execute_wasm_module is still in ret at the label it
\* unwinds through, and nothing but the end of the entry function puts 0 there.
THEOREM StatusReported == Spec => []UnwindsWithItsStatus
<1>1. Init => StatusInv
  BY DEF Init, StatusInv, UnwindLabel
<1>2. TypeOK /\ StatusInv /\ [Next]_vars => StatusInv'
  <2>1. ASSUME StatusInv, UNCHANGED vars PROVE StatusInv'
    BY <2>1 DEF vars, StatusInv
  <2>. QED  BY <2>1, StatusStep DEF Next
<1>3. StatusInv => UnwindsWithItsStatus
  BY DEF StatusInv, UnwindsWithItsStatus, UnwindLabel, ExitStatus
<1>. QED  BY <1>1, <1>2, <1>3, TypeCorrect, PTL DEF Spec

----------------------------------------------------------------------------
(* The runs of lwac implement SharedRuntime.                               *)

\* The initialisations a user can see: those lost, and one for the users.
Live == lost_inits + IF Users # {} THEN 1 ELSE 0

\* Under the invariant this is the refinement mapping of Lwac.
LEMMA LiveIsMapped ==
  ASSUME IInv
  PROVE  runtime - (IF Users = {} /\ Handover THEN 1 ELSE 0) = Live
<1>1. runtime = lost_inits + (IF Users # {} \/ Handover THEN 1 ELSE 0)
  BY DEF IInv, RuntimeInv, RuntimeAccounted
<1>2. lost_inits \in Int
  BY LwacAssumption DEF IInv, TypeOK
<1>. QED  BY <1>1, <1>2 DEF Live

\* One step changes the users by at most one task, or loses an initialisation
\* while there are none.
LEMMA UsersStep ==
  ASSUME IInv, NEW t \in Task,
         ParseArguments(t) \/ CallWasm(t) \/ Locking(t) \/ Computing(t)
  PROVE  \/ Users' = Users /\ lost_inits' = lost_inits
         \/ Users' = Users /\ Users = {} /\ lost_inits' = lost_inits + 1
         \/ t \notin Users /\ Users' = Users \cup {t} /\ lost_inits' = lost_inits
         \/ t \in Users /\ Users' = Users \ {t} /\ lost_inits' = lost_inits
<1>1. ASSUME NEW l, pc' = [pc EXCEPT ![t] = l],
             pc[t] \in UserLabel <=> l \in UserLabel
      PROVE  Users' = Users
  BY <1>1 DEF IInv, TypeOK, Users
<1> USE DEF Goto, UserLabel, runtimeVars
<1>2. CASE RegisterNatives(t)
  <2>1. Users = {}
    BY <1>2 DEF RegisterNatives, IInv, RuntimeInv, AloneInv
  <2>. QED  BY <1>1, <1>2, <2>1 DEF RegisterNatives
<1>3. CASE CountIn(t)
  BY <1>3 DEF CountIn, Users, IInv, TypeOK
<1>4. CASE CountOut(t)
  BY <1>4 DEF CountOut, Users, IInv, TypeOK
<1>5. CASE ParseArguments(t) \/ CallWasm(t)
  BY <1>1, <1>5 DEF ParseArguments, CallWasm
<1>6. CASE Locking(t)
  BY <1>1, <1>6 DEF Locking, InitLock, DestroyLock, MutexLock, PsLock,
                    RegisterLock, UnregisterLock
<1>7. CASE PsPrintRow(t)
  BY <1>7 DEF PsPrintRow, Users
<1>8. CASE PsUnlock(t) \/ LoadFile(t) \/ FreeFileContent(t) \/ Exit(t)
  BY <1>1, <1>8 DEF PsUnlock, LoadFile, FreeFileContent, Exit
<1>9. CASE InitUnlock(t) \/ DestroyUnlock(t)
  BY <1>1, <1>9 DEF InitUnlock, DestroyUnlock, MutexUnlock
<1>10. CASE WasmRuntimeInit(t) \/ WasmRuntimeDestroy(t)
  BY <1>1, <1>10 DEF WasmRuntimeInit, WasmRuntimeDestroy
<1>11. CASE CheckXip(t) \/ LookupEntry(t) \/ AllocInfo(t)
  BY <1>1, <1>11 DEF CheckXip, LookupEntry, AllocInfo
<1>12. CASE Load(t) \/ Instantiate(t) \/ CreateExecEnv(t)
  BY <1>1, <1>12 DEF Load, Instantiate, CreateExecEnv, Make
<1>13. CASE RegisterLink(t) \/ RegisterUnlock(t) \/ UnregisterUnlink(t) \/ UnregisterUnlock(t)
  BY <1>1, <1>13 DEF RegisterLink, RegisterUnlock, UnregisterUnlink, UnregisterUnlock
<1>14. CASE DestroyExecEnv(t) \/ Deinstantiate(t) \/ Unload(t)
  BY <1>1, <1>14 DEF DestroyExecEnv, Deinstantiate, Unload, Drop
<1>. QED
  BY <1>2, <1>3, <1>4, <1>5, <1>6, <1>7, <1>8, <1>9, <1>10, <1>11, <1>12, <1>13,
     <1>14 DEF Computing

\* lwac_runtime_init and lwac_runtime_destroy, a mutex and a counter around
\* wasm_runtime_init and wasm_runtime_destroy, amount to atomic starts and
\* stops: the first starts the runtime and the last stops it.
THEOREM SharedRuntimeImplemented == Spec => ImplementsSharedRuntime
<1> DEFINE m == runtime - (IF Users = {} /\ Handover THEN 1 ELSE 0)
<1>1. Init => Shared!Init
  <2> SUFFICES ASSUME Init PROVE Shared!Init
    OBVIOUS
  <2>1. Users = {}
    BY DEF Init, Users, UserLabel
  <2>2. ~Handover
    BY DEF Init, Handover, HandoverLabel
  <2>3. runtime = 0
    BY DEF Init
  <2> DEFINE d == IF Users = {} /\ Handover THEN 1 ELSE 0
  <2>4. d = 0
    BY <2>2
  <2> HIDE DEF d
  <2>5. runtime - d = 0
    BY <2>3, <2>4
  <2>6. m = 0
    BY <2>5 DEF d
  <2>. QED  BY <2>1, <2>6 DEF Shared!Init
<1>2. IInv /\ IInv' /\ [Next]_vars => [Shared!Next]_<<Users, m>>
  <2> SUFFICES ASSUME IInv, IInv', [Next]_vars
               PROVE  Shared!Next \/ (Users' = Users /\ m' = m)
    OBVIOUS
  <2>1. CASE UNCHANGED vars
    BY <2>1 DEF vars, runtimeVars, Users, Handover
  <2>2. CASE Next
    <3>1. PICK t \in Task : ParseArguments(t) \/ CallWasm(t) \/ Locking(t) \/ Computing(t)
      BY <2>2 DEF Next
    <3>2. m = Live
      BY LiveIsMapped
    <3>3. m' = Live'
      <4>1. runtime' = lost_inits' + (IF Users' # {} \/ Handover' THEN 1 ELSE 0)
        BY DEF IInv, RuntimeInv, RuntimeAccounted
      <4>2. lost_inits' \in Int
        BY LwacAssumption DEF IInv, TypeOK
      <4>. QED  BY <4>1, <4>2 DEF Live
    <3> HIDE DEF m
    <3>4. lost_inits \in Int
      BY LwacAssumption DEF IInv, TypeOK
    <3>5. CASE Users' = Users /\ lost_inits' = lost_inits
      BY <3>2, <3>3, <3>5 DEF Live
    <3>6. CASE Users' = Users /\ Users = {} /\ lost_inits' = lost_inits + 1
      <4>1. m' = m + 1
        BY <3>2, <3>3, <3>4, <3>6 DEF Live
      <4>. QED  BY <3>6, <4>1 DEF Shared!Next, Shared!GiveUp, m
    <3>7. CASE t \notin Users /\ Users' = Users \cup {t} /\ lost_inits' = lost_inits
      <4>1. m' = IF Users = {} THEN m + 1 ELSE m
        BY <3>2, <3>3, <3>4, <3>7 DEF Live
      <4>. QED  BY <3>1, <3>7, <4>1 DEF Shared!Next, Shared!Start, m
    <3>8. CASE t \in Users /\ Users' = Users \ {t} /\ lost_inits' = lost_inits
      <4>1. m' = IF Users' = {} THEN m - 1 ELSE m
        BY <3>2, <3>3, <3>4, <3>8 DEF Live
      <4>. QED  BY <3>1, <3>8, <4>1 DEF Shared!Next, Shared!Stop, m
    <3>. QED  BY <3>1, <3>5, <3>6, <3>7, <3>8, UsersStep
  <2>. QED  BY <2>1, <2>2
<1>. QED
  BY <1>1, <1>2, Invariance, PTL DEF Spec, ImplementsSharedRuntime, Shared!Spec
=============================================================================
