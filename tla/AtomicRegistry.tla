--------------------------- MODULE AtomicRegistry ---------------------------
(***************************************************************************)
(* What lwac/lwac_module_registry.h promises, as an abstract               *)
(* specification: registering, unregistering and each question about the   *)
(* running modules take effect in one step, and an answer is the true one  *)
(* at that step.                                                           *)
(***************************************************************************)
EXTENDS Naturals, Sequences, SequencesExt

CONSTANTS Task, Nobody, IdModulus,
          ModuleName    \* the name each task's module is registered under

VARIABLES running,      \* the registered modules, newest first
          last_id,      \* the id given out last
          request,      \* the question each task waits on, or Nobody
          answer        \* the last answer each task got

\* The first running module that passes a test, or Nobody.
First(Test(_)) ==
    LET hits == {k \in DOMAIN running : Test(running[k])}
    IN  IF hits = {} THEN Nobody
        ELSE running[CHOOSE k \in hits : \A j \in hits : k <= j].module_inst

TrueAnswer(q) ==
    CASE q.what = "count"   -> Len(running)
      [] q.what = "by_id"   -> First(LAMBDA m : m.module_id = q.key)
      [] q.what = "by_name" -> First(LAMBDA m : ModuleName[m.module_inst] = q.key)

Init ==
    /\ running = << >>
    /\ last_id = 0
    /\ request = [t \in Task |-> Nobody]
    /\ answer = [t \in Task |-> Nobody]

Register(t) ==
    /\ last_id' = (last_id + 1) % IdModulus
    /\ running' = <<[module_inst |-> t, module_id |-> last_id']>> \o running
    /\ UNCHANGED <<request, answer>>

\* The module of t goes, if there is one.
Unregister(t) ==
    /\ \/ \E k \in DOMAIN running :
             /\ running[k].module_inst = t
             /\ running' = RemoveAt(running, k)
       \/ /\ \A k \in DOMAIN running : running[k].module_inst # t
          /\ UNCHANGED running
    /\ UNCHANGED <<last_id, request, answer>>

Ask(t) ==
    /\ request[t] = Nobody
    /\ \E what \in {"count", "by_id", "by_name"},
          key \in 0 .. IdModulus - 1 \cup {ModuleName[u] : u \in Task} :
            request' = [request EXCEPT ![t] = [what |-> what, key |-> key]]
    /\ answer' = [answer EXCEPT ![t] = Nobody]
    /\ UNCHANGED <<running, last_id>>

Reply(t) ==
    /\ request[t] # Nobody
    /\ answer' = [answer EXCEPT ![t] = TrueAnswer(request[t])]
    /\ request' = [request EXCEPT ![t] = Nobody]
    /\ UNCHANGED <<running, last_id>>

\* A task lets go of its last answer.
Forget(t) ==
    /\ answer' = [answer EXCEPT ![t] = Nobody]
    /\ UNCHANGED <<running, last_id, request>>

Next == \E t \in Task :
            Register(t) \/ Unregister(t) \/ Ask(t) \/ Reply(t) \/ Forget(t)

Spec == Init /\ [][Next]_<<running, last_id, request, answer>>
=============================================================================
