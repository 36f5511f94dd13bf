--------------------------- MODULE ModuleRegistry ---------------------------
(***************************************************************************)
(* The table of running wasm modules, lwac/lwac_module_registry.c: a       *)
(* singly linked list behind a read-write lock, and the counter that       *)
(* numbers the modules.  The flat build puts them in memory that every     *)
(* lwac task shares.                                                       *)
(*                                                                         *)
(* The module has state and steps but no control: Lwac and RegistryApi     *)
(* extend it and say which task takes which step when.  A task that owns   *)
(* a module instance owns at most one, so the task stands for its          *)
(* wasm_module_inst_t, and for the wasm_module_info_t that describes it.   *)
(***************************************************************************)
EXTENDS Naturals, Sequences, SequencesExt

CONSTANTS Task,       \* the tasks of the shared address space
          Nobody,     \* no task: an unowned lock, a null list pointer
          IdModulus   \* 2^32 in the code, where module_id is a uint32_t

ASSUME RegistryAssumption ==
    /\ Nobody \notin Task
    /\ IdModulus \in Nat \ {0}

VARIABLES
    g_module_list,        \* from g_module_list_head on, the newest first
    g_module_id_counter,
    wrapped,              \* history: the counter has gone round
    writer, readers,      \* g_module_list_rwlock
    current               \* the list pointer of each task that walks

registryVars == <<g_module_list, g_module_id_counter, wrapped,
                  writer, readers, current>>

Node == [module_inst : Task, module_id : 0 .. IdModulus - 1]

RegistryInit ==
    /\ g_module_list = << >>
    /\ g_module_id_counter = 0
    /\ wrapped = FALSE
    /\ writer = Nobody
    /\ readers = {}
    /\ current = [t \in Task |-> Nobody]

Listed == {g_module_list[k].module_inst : k \in DOMAIN g_module_list}

FirstNode == IF g_module_list = << >> THEN Nobody ELSE g_module_list[1].module_inst

\* current->next, for a node that is linked.
NextOf(t) ==
    LET k == CHOOSE j \in DOMAIN g_module_list : g_module_list[j].module_inst = t
    IN  IF k = Len(g_module_list) THEN Nobody ELSE g_module_list[k + 1].module_inst

----------------------------------------------------------------------------
(* The lock. *)

\* Bug: the writer does not wait for the readers.
WrLockAmongReaders(t) ==
    /\ writer = Nobody
    /\ writer' = t
    /\ UNCHANGED <<g_module_list, g_module_id_counter, wrapped, readers, current>>

WrLock(t) ==
    /\ writer = Nobody /\ readers = {}
    /\ writer' = t
    /\ UNCHANGED <<g_module_list, g_module_id_counter, wrapped, readers, current>>

RdLock(t) ==
    /\ writer = Nobody
    /\ readers' = readers \cup {t}
    /\ current' = [current EXCEPT ![t] = FirstNode]
    /\ UNCHANGED <<g_module_list, g_module_id_counter, wrapped, writer>>

WrUnlock(t) ==
    /\ writer' = Nobody
    /\ UNCHANGED <<g_module_list, g_module_id_counter, wrapped, readers, current>>

\* The walking pointer is a local of the function that unlocks and returns.
RdUnlock(t) ==
    /\ readers' = readers \ {t}
    /\ current' = [current EXCEPT ![t] = Nobody]
    /\ UNCHANGED <<g_module_list, g_module_id_counter, wrapped, writer>>

----------------------------------------------------------------------------
(* What is done while the lock is held. *)

\* Bug: a counter wider than the 32 bits of module_id.
LinkWide(t) ==
    /\ g_module_id_counter' = g_module_id_counter + 1
    /\ g_module_list' = <<[module_inst |-> t,
                           module_id |-> (g_module_id_counter + 1) % IdModulus]>>
                        \o g_module_list
    /\ UNCHANGED <<wrapped, writer, readers, current>>

\* Bug: the new node goes to the tail.
LinkAtTail(t) ==
    LET id == (g_module_id_counter + 1) % IdModulus
    IN  /\ g_module_id_counter' = id
        /\ wrapped' = (wrapped \/ id = 0)
        /\ g_module_list' = Append(g_module_list, [module_inst |-> t, module_id |-> id])
        /\ UNCHANGED <<writer, readers, current>>

\* Number the new node and push it in front.
Link(t) ==
    LET id == (g_module_id_counter + 1) % IdModulus
    IN  /\ g_module_id_counter' = id
        /\ wrapped' = (wrapped \/ id = 0)
        /\ g_module_list' = <<[module_inst |-> t, module_id |-> id]>> \o g_module_list
        /\ UNCHANGED <<writer, readers, current>>

\* Bug: the head goes, whichever node was found.
UnlinkHead(t) ==
    /\ IF t \in Listed THEN g_module_list' = Tail(g_module_list)
       ELSE UNCHANGED g_module_list
    /\ UNCHANGED <<g_module_id_counter, wrapped, writer, readers, current>>

\* Unlink and free the first node of the instance; none may be there.
Unlink(t) ==
    /\ \/ \E k \in DOMAIN g_module_list :
             /\ g_module_list[k].module_inst = t
             /\ \A j \in 1 .. k - 1 : g_module_list[j].module_inst # t
             /\ g_module_list' = RemoveAt(g_module_list, k)
       \/ /\ t \notin Listed
          /\ UNCHANGED g_module_list
    /\ UNCHANGED <<g_module_id_counter, wrapped, writer, readers, current>>

\* One turn of a walk that looks at current and moves to current->next.
Advance(t) ==
    /\ current[t] # Nobody
    /\ current' = [current EXCEPT ![t] = NextOf(current[t])]
    /\ UNCHANGED <<g_module_list, g_module_id_counter, wrapped, writer, readers>>

----------------------------------------------------------------------------

RegistryTypeOK ==
    /\ g_module_list \in Seq(Node)
    /\ g_module_id_counter \in 0 .. IdModulus - 1
    /\ wrapped \in BOOLEAN
    /\ writer \in Task \cup {Nobody}
    /\ readers \subseteq Task
    /\ current \in [Task -> Task \cup {Nobody}]

\* The node a walker looks at is still linked, so it has not been freed: the
\* read lock held by lwac__print_running_modules and the finders keeps every
\* free(current) of lwac__unregister_wasm_module out for the whole walk.
WalkerSeesLiveNode ==
    \A t \in readers : current[t] \in Listed \cup {Nobody}

\* Until the 32-bit counter goes round, the list is ordered by registration:
\* the ids fall strictly from the head on, so no two modules that run share an
\* id and lwac__find_wasm_module_by_id has at most one answer.
IdsFallUntilWrapped ==
    ~wrapped =>
        \A j, k \in DOMAIN g_module_list :
            j < k => g_module_list[j].module_id > g_module_list[k].module_id
=============================================================================
