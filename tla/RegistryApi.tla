---------------------------- MODULE RegistryApi ----------------------------
(***************************************************************************)
(* The whole interface of lwac/lwac_module_registry.h, called by tasks     *)
(* that register and unregister a module each and ask about the others.    *)
(* Lwac uses a part of it in the order of main(); here every order is      *)
(* possible in which a task unregisters what it registered.                *)
(***************************************************************************)
EXTENDS ModuleRegistry

CONSTANTS ModuleName,   \* the file each task's module comes from
          StoredName,   \* what strlcpy keeps of a name in char name[64]
          Asker         \* the tasks that ask

ASSUME AskerAssumption ==
    /\ Asker \subseteq Task
    /\ \A t \in Task : ModuleName[t] \in DOMAIN StoredName

VARIABLES pc,
          request,      \* the question a task is inside of, or Nobody
          answer,       \* the last answer it got
          count         \* lwac__get_running_module_count's local

vars == <<registryVars, pc, request, answer, count>>

Init ==
    /\ RegistryInit
    /\ pc = [t \in Task |-> "out"]
    /\ request = [t \in Task |-> Nobody]
    /\ answer = [t \in Task |-> Nobody]
    /\ count = [t \in Task |-> 0]

Goto(t, from, to) ==
    /\ pc[t] = from
    /\ pc' = [pc EXCEPT ![t] = to]

----------------------------------------------------------------------------
(* lwac__register_wasm_module.  A failed malloc returns before the lock,   *)
(* which changes nothing here.                                             *)

Register(t) ==
    /\ \/ t \notin Listed /\ Goto(t, "out", "link") /\ WrLock(t)
       \/ Goto(t, "link", "wr_unlock") /\ Link(t)
    /\ UNCHANGED <<request, answer, count>>

(* lwac__unregister_wasm_module.                                           *)
Unregister(t) ==
    /\ \/ Goto(t, "out", "unlink") /\ WrLock(t)
       \/ Goto(t, "unlink", "wr_unlock") /\ Unlink(t)
    /\ UNCHANGED <<request, answer, count>>

Unlock(t) ==
    /\ Goto(t, "wr_unlock", "out")
    /\ WrUnlock(t)
    /\ UNCHANGED <<request, answer, count>>

----------------------------------------------------------------------------
(* lwac__find_wasm_module_by_id, lwac__find_wasm_module_by_name and        *)
(* lwac__get_running_module_count: a walk under the read lock.             *)

Names == {ModuleName[t] : t \in Task}

Question ==
    [what : {"by_id"}, key : 0 .. IdModulus - 1]
    \cup [what : {"by_name"}, key : Names]
    \cup [what : {"count"}, key : {0}]

\* No task waits on an answer when its request is Nobody.
ASSUME QuestionAssumption == Nobody \notin Question

(* The finds and the count.  A NULL name or a NULL result is refused with   *)
(* -EINVAL before the lock and changes nothing: it is no question here.    *)
Ask(t) ==
    /\ t \in Asker
    /\ Goto(t, "out", "walk")
    /\ \E q \in Question : request' = [request EXCEPT ![t] = q]
    /\ answer' = [answer EXCEPT ![t] = Nobody]
    /\ count' = [count EXCEPT ![t] = 0]
    /\ RdLock(t)

IdOf(t) ==
    g_module_list[CHOOSE k \in DOMAIN g_module_list :
                      g_module_list[k].module_inst = t].module_id

\* Bug: the result of strncmp taken for a truth value.
MatchesOtherName(t) ==
    /\ current[t] # Nobody
    /\ \/ request[t].what = "by_id" /\ IdOf(current[t]) = request[t].key
       \/ request[t].what = "by_name" /\ StoredName[ModuleName[current[t]]] # request[t].key

Matches(t) ==
    /\ current[t] # Nobody
    /\ \/ request[t].what = "by_id" /\ IdOf(current[t]) = request[t].key
       \/ request[t].what = "by_name" /\ StoredName[ModuleName[current[t]]] = request[t].key

Step(t) ==
    /\ pc[t] = "walk"
    /\ ~Matches(t)
    /\ Advance(t)
    /\ count' = [count EXCEPT ![t] = IF request[t].what = "count" THEN @ + 1 ELSE @]
    /\ UNCHANGED <<pc, request, answer>>

\* Unlock and return: the pointer or the copy that was found, NULL or -ENOENT
\* at the end of the list, or the count.
Reply(t) ==
    /\ Matches(t) \/ current[t] = Nobody
    /\ Goto(t, "walk", "out")
    /\ RdUnlock(t)
    /\ answer' = [answer EXCEPT ![t] =
                     IF request[t].what = "count" THEN count[t] ELSE current[t]]
    /\ request' = [request EXCEPT ![t] = Nobody]
    /\ count' = [count EXCEPT ![t] = 0]

----------------------------------------------------------------------------

Next == \E t \in Task :
            Register(t) \/ Unregister(t) \/ Unlock(t) \/ Ask(t) \/ Step(t) \/ Reply(t)

Spec == Init /\ [][Next]_vars

----------------------------------------------------------------------------

TypeOK ==
    /\ RegistryTypeOK
    /\ pc \in [Task -> {"out", "link", "unlink", "wr_unlock", "walk"}]
    /\ request \in [Task -> Question \cup {Nobody}]
    /\ answer \in [Task -> Task \cup Nat \cup {Nobody}]
    /\ count \in [Task -> Nat]

\* Each call has its effect, and each question its answer, at one instant
\* between the call and the return, although the list is walked node by node
\* while other tasks come and go.
Atomic == INSTANCE AtomicRegistry WITH
    running <- g_module_list,
    last_id <- g_module_id_counter

ImplementsAtomicRegistry == Atomic!Spec

=============================================================================
