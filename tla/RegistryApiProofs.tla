-------------------------- MODULE RegistryApiProofs --------------------------
(***************************************************************************)
(* Proofs about RegistryApi, for any number of tasks, names and ids: the   *)
(* list is walked node by node under the read lock, and yet each question  *)
(* is answered as if it were asked in one step.                            *)
(***************************************************************************)
EXTENDS RegistryApi, RegistryProofs

----------------------------------------------------------------------------
(* The inductive invariant.                                                *)

\* Where a task holds the write lock.
WriterLabel == {"link", "unlink", "wr_unlock"}

\* Who holds the lock is where it is held, and nobody reads while somebody
\* writes.
LockInv ==
    /\ \A t \in Task : pc[t] \in WriterLabel <=> writer = t
    /\ \A t \in Task : pc[t] = "walk" <=> t \in readers
    /\ writer # Nobody => readers = {}

\* A task that is about to link its node has none in the list.
NotListedYet == \A t \in Task : pc[t] = "link" => t \notin Listed

\* A question is open while its task walks.
Asked == \A t \in Task : request[t] \in Question <=> pc[t] = "walk"

(* The node at place k answers the question q.                             *)
Answers(q, k) ==
    \/ q.what = "by_id" /\ g_module_list[k].module_id = q.key
    \/ q.what = "by_name" /\ StoredName[ModuleName[g_module_list[k].module_inst]] = q.key

(* A walker looks at the node at place p, or has passed the last one, and  *)
(* none before it answers its question.                                    *)
WalkedTo(t, p) ==
    /\ current[t] = IF p \in DOMAIN g_module_list THEN g_module_list[p].module_inst ELSE Nobody
    /\ \A j \in 1 .. p - 1 : ~ Answers(request[t], j)
    /\ request[t].what = "count" => count[t] = p - 1

\* Every reader is at some place of the list.
WalkInv == \A t \in readers : \E p \in 1 .. Len(g_module_list) + 1 : WalkedTo(t, p)

ApiInv ==
    /\ TypeOK
    /\ LockInv
    /\ OneNodeEach
    /\ NotListedYet
    /\ Asked
    /\ WalkInv
    /\ IdsInv

(* Nobody is listed, waits or walks at first.                              *)
LEMMA ApiInitInv == Init => ApiInv
<1> SUFFICES ASSUME Init PROVE ApiInv
  OBVIOUS
<1>1. TypeOK
  BY RegistryInitTypeOK DEF Init, TypeOK
<1>2. LockInv
  BY RegistryAssumption DEF Init, RegistryInit, LockInv, WriterLabel
<1>3. OneNodeEach /\ NotListedYet /\ IdsInv
  BY DEF Init, RegistryInit, OneNodeEach, NotListedYet, IdsInv
<1>4. Asked /\ WalkInv
  BY QuestionAssumption DEF Init, RegistryInit, Asked, WalkInv
<1>. QED
  BY <1>1, <1>2, <1>3, <1>4 DEF ApiInv

(* A node of g_module_list is the node of a task.                          *)
LEMMA ListTyped ==
  ASSUME RegistryTypeOK
  PROVE  /\ Len(g_module_list) \in Nat
         /\ DOMAIN g_module_list = 1 .. Len(g_module_list)
         /\ \A k \in DOMAIN g_module_list :
              /\ g_module_list[k].module_inst \in Task
              /\ g_module_list[k].module_inst # Nobody
<1>1. \A k \in DOMAIN g_module_list : g_module_list[k] \in Node
  BY DEF RegistryTypeOK
<1>. QED
  BY <1>1, RegistryAssumption DEF RegistryTypeOK, Node

(* What the walk compares the node it looks at with.                       *)
LEMMA MatchesThePlace ==
  ASSUME ApiInv, NEW t \in readers, NEW p \in 1 .. Len(g_module_list) + 1, WalkedTo(t, p)
  PROVE  /\ current[t] = Nobody <=> p = Len(g_module_list) + 1
         /\ Matches(t) <=> p \in DOMAIN g_module_list /\ Answers(request[t], p)
<1>1. RegistryTypeOK /\ OneNodeEach
  BY DEF ApiInv, TypeOK
<1>2. p \in DOMAIN g_module_list <=> p # Len(g_module_list) + 1
  BY <1>1, ListTyped
<1>3. current[t] = Nobody <=> p = Len(g_module_list) + 1
  BY <1>1, <1>2, ListTyped DEF WalkedTo
<1>4. CASE p \in DOMAIN g_module_list
  <2>1. current[t] = g_module_list[p].module_inst
    BY <1>4 DEF WalkedTo
  <2> DEFINE c == CHOOSE k \in DOMAIN g_module_list : g_module_list[k].module_inst = current[t]
  <2>2. c \in DOMAIN g_module_list /\ g_module_list[c].module_inst = g_module_list[p].module_inst
    BY <1>4, <2>1
  <2>3. c = p
    BY <1>1, <1>4, <2>2 DEF OneNodeEach
  <2>4. IdOf(current[t]) = g_module_list[c].module_id
    BY DEF IdOf
  <2> HIDE DEF c
  <2>. QED
    BY <1>2, <1>3, <1>4, <2>1, <2>3, <2>4 DEF Matches, Answers
<1>5. CASE p \notin DOMAIN g_module_list
  BY <1>2, <1>3, <1>5 DEF Matches
<1>. QED
  BY <1>3, <1>4, <1>5

----------------------------------------------------------------------------
(* Every action keeps it.                                                  *)

(* lwac__register_wasm_module and lwac__unregister_wasm_module take the    *)
(* write lock: no walk is under way, and nobody has a question open.       *)
LEMMA RegisterInv ==
  ASSUME ApiInv, NEW t \in Task, Register(t) \/ Unregister(t)
  PROVE  ApiInv'
<1> USE DEF ApiInv
<1>1. RegistryTypeOK
  BY DEF TypeOK
<1>2. UNCHANGED <<request, answer, count>>
  BY DEF Register, Unregister
<1>3. CASE /\ WrLock(t)
           /\ pc[t] = "out"
           /\ \/ t \notin Listed /\ pc' = [pc EXCEPT ![t] = "link"]
              \/ pc' = [pc EXCEPT ![t] = "unlink"]
  <2>1. UNCHANGED <<g_module_list, g_module_id_counter, wrapped, readers, current>>
        /\ writer' = t /\ writer = Nobody /\ readers = {}
    BY <1>3 DEF WrLock
  <2>2. /\ \A u \in Task : u # t => pc'[u] = pc[u]
        /\ pc'[t] \in {"link", "unlink"}
        /\ pc'[t] = "link" => t \notin Listed
        /\ pc' \in [Task -> {"out", "link", "unlink", "wr_unlock", "walk"}]
    BY <1>3 DEF TypeOK
  <2>3. TypeOK'
    BY <1>2, <2>1, <2>2 DEF TypeOK, RegistryTypeOK
  <2>4. LockInv'
    BY <2>1, <2>2, RegistryAssumption DEF LockInv, WriterLabel
  <2>5. NotListedYet' /\ OneNodeEach' /\ IdsInv'
    BY <2>1, <2>2 DEF NotListedYet, Listed, OneNodeEach, IdsInv
  <2>6. Asked'
    BY <1>2, <1>3, <2>2 DEF Asked
  <2>7. WalkInv'
    BY <2>1 DEF WalkInv
  <2>. QED
    BY <2>3, <2>4, <2>5, <2>6, <2>7
<1>4. CASE \/ pc[t] = "link" /\ Link(t)
           \/ pc[t] = "unlink" /\ Unlink(t)
  <2>1. pc' = [pc EXCEPT ![t] = "wr_unlock"]
    BY <1>4 DEF Register, Unregister, Goto
  <2>2. UNCHANGED <<writer, readers, current>>
    BY <1>4 DEF Link, Unlink
  <2>3. writer = t /\ readers = {}
    BY <1>4, RegistryAssumption DEF LockInv, WriterLabel
  <2>4. RegistryTypeOK' /\ IdsInv'
    BY <1>1, <1>4, LinkType, UnlinkType, LinkIds, UnlinkIds
  <2>5. OneNodeEach' /\ Listed' \subseteq Listed \cup {t}
    BY <1>1, <1>4, LinkListed, UnlinkListed DEF NotListedYet
  <2>6. /\ \A u \in Task : u # t => pc'[u] = pc[u]
        /\ pc'[t] = "wr_unlock"
        /\ pc' \in [Task -> {"out", "link", "unlink", "wr_unlock", "walk"}]
    BY <2>1 DEF TypeOK
  <2>7. TypeOK'
    BY <1>2, <2>4, <2>6 DEF TypeOK
  <2>8. LockInv'
    BY <1>4, <2>2, <2>6 DEF LockInv, WriterLabel
  <2>9. NotListedYet'
    BY <2>5, <2>6 DEF NotListedYet
  <2>10. Asked'
    BY <1>2, <1>4, <2>6 DEF Asked
  <2>11. WalkInv'
    BY <2>2, <2>3 DEF WalkInv
  <2>. QED
    BY <2>4, <2>5, <2>7, <2>8, <2>9, <2>10, <2>11
<1>. QED
  BY <1>3, <1>4 DEF Register, Unregister, Goto

(* Giving the write lock back leaves the list as it is.                    *)
LEMMA UnlockInv ==
  ASSUME ApiInv, NEW t \in Task, Unlock(t)
  PROVE  ApiInv'
<1> USE DEF ApiInv
<1>1. UNCHANGED <<g_module_list, g_module_id_counter, wrapped, readers, current, request, answer, count>>
      /\ writer' = Nobody /\ pc[t] = "wr_unlock"
  BY DEF Unlock, WrUnlock, Goto
<1>2. /\ \A u \in Task : u # t => pc'[u] = pc[u]
      /\ pc'[t] = "out"
      /\ pc' \in [Task -> {"out", "link", "unlink", "wr_unlock", "walk"}]
  BY DEF Unlock, Goto, TypeOK
<1>3. writer = t
  BY <1>1 DEF LockInv, WriterLabel
<1>4. TypeOK'
  BY <1>1, <1>2 DEF TypeOK, RegistryTypeOK
<1>5. LockInv'
  BY <1>1, <1>2, <1>3, RegistryAssumption DEF LockInv, WriterLabel
<1>6. NotListedYet' /\ OneNodeEach' /\ IdsInv'
  BY <1>1, <1>2 DEF NotListedYet, Listed, OneNodeEach, IdsInv
<1>7. Asked'
  BY <1>1, <1>2 DEF Asked
<1>8. WalkInv'
  BY <1>1 DEF WalkInv, WalkedTo, Answers
<1>. QED
  BY <1>4, <1>5, <1>6, <1>7, <1>8

(* A finder that has the read lock starts at the first node; nothing has   *)
(* been passed.                                                            *)
LEMMA AskInv ==
  ASSUME ApiInv, NEW t \in Task, Ask(t)
  PROVE  ApiInv'
<1> USE DEF ApiInv
<1>1. PICK q \in Question : request' = [request EXCEPT ![t] = q]
  BY DEF Ask
<1>2. /\ UNCHANGED <<g_module_list, g_module_id_counter, wrapped, writer>>
      /\ readers' = readers \cup {t}
      /\ current' = [current EXCEPT ![t] = FirstNode]
      /\ writer = Nobody
  BY DEF Ask, RdLock
<1>3. /\ pc[t] = "out"
      /\ pc' = [pc EXCEPT ![t] = "walk"]
      /\ answer' = [answer EXCEPT ![t] = Nobody]
      /\ count' = [count EXCEPT ![t] = 0]
  BY DEF Ask, Goto
<1>4. RegistryTypeOK
  BY DEF TypeOK
<1>5. /\ \A u \in Task : u # t => /\ pc'[u] = pc[u]
                                  /\ request'[u] = request[u]
                                  /\ count'[u] = count[u]
                                  /\ current'[u] = current[u]
      /\ pc'[t] = "walk"
      /\ request'[t] = q
      /\ count'[t] = 0
      /\ current'[t] = FirstNode
  BY <1>1, <1>2, <1>3 DEF TypeOK, RegistryTypeOK
<1>6. TypeOK'
  <2>1. FirstNode \in Task \cup {Nobody}
    BY <1>4, FirstNodeType
  <2>2. RegistryTypeOK'
    BY <1>2, <2>1 DEF TypeOK, RegistryTypeOK
  <2>3. pc' \in [Task -> {"out", "link", "unlink", "wr_unlock", "walk"}]
    BY <1>3 DEF TypeOK
  <2>4. request' \in [Task -> Question \cup {Nobody}]
    BY <1>1 DEF TypeOK
  <2>5. answer' \in [Task -> Task \cup Nat \cup {Nobody}]
    BY <1>3 DEF TypeOK
  <2>6. count' \in [Task -> Nat]
    BY <1>3 DEF TypeOK
  <2>. QED
    BY <2>2, <2>3, <2>4, <2>5, <2>6 DEF TypeOK
<1>7. LockInv'
  BY <1>2, <1>3, <1>5 DEF LockInv, WriterLabel
<1>8. NotListedYet' /\ OneNodeEach' /\ IdsInv'
  BY <1>2, <1>5 DEF NotListedYet, Listed, OneNodeEach, IdsInv
<1>9. Asked'
  BY <1>5 DEF Asked
<1>10. WalkInv'
  <2>1. \A u \in readers : u \in Task
    BY <1>4 DEF RegistryTypeOK
  <2>2. ASSUME NEW u \in readers, u # t
        PROVE  \E p \in 1 .. Len(g_module_list') + 1 : WalkedTo(u, p)'
    <3>1. PICK p \in 1 .. Len(g_module_list) + 1 : WalkedTo(u, p)
      BY DEF WalkInv
    <3>2. WalkedTo(u, p)'
      BY <1>2, <1>5, <2>1, <2>2, <3>1 DEF WalkedTo, Answers
    <3>. QED
      BY <1>2, <3>1, <3>2
  <2>3. 1 \in 1 .. Len(g_module_list) + 1 /\ WalkedTo(t, 1)'
    <3>1. FirstNode = IF 1 \in DOMAIN g_module_list THEN g_module_list[1].module_inst ELSE Nobody
      BY <1>4, ListTyped DEF FirstNode, RegistryTypeOK
    <3>. QED
      BY <1>2, <1>4, <1>5, <3>1, ListTyped DEF WalkedTo
  <2>. QED
    BY <1>2, <2>2, <2>3 DEF WalkInv
<1>. QED
  BY <1>6, <1>7, <1>8, <1>9, <1>10

(* A finder that does not find what it asks for at a node passes it: no    *)
(* node up to there answers the question.                                  *)
LEMMA StepInv ==
  ASSUME ApiInv, NEW t \in Task, Step(t)
  PROVE  ApiInv'
<1> USE DEF ApiInv
<1>1. /\ UNCHANGED <<g_module_list, g_module_id_counter, wrapped, writer, readers, pc, request, answer>>
      /\ current[t] # Nobody
      /\ current' = [current EXCEPT ![t] = NextOf(current[t])]
      /\ count' = [count EXCEPT ![t] = IF request[t].what = "count" THEN @ + 1 ELSE @]
      /\ ~ Matches(t)
  BY DEF Step, Advance
<1>2. RegistryTypeOK /\ OneNodeEach
  BY DEF TypeOK
<1>3. t \in readers
  BY DEF Step, LockInv
<1>4. PICK p \in 1 .. Len(g_module_list) + 1 : WalkedTo(t, p)
  BY <1>3 DEF WalkInv
<1>5. p \in DOMAIN g_module_list /\ ~ Answers(request[t], p)
  BY <1>1, <1>2, <1>3, <1>4, MatchesThePlace, ListTyped
<1>6. current[t] = g_module_list[p].module_inst
  BY <1>4, <1>5 DEF WalkedTo
<1>7. NextOf(current[t]) =
          IF p + 1 \in DOMAIN g_module_list THEN g_module_list[p + 1].module_inst ELSE Nobody
  BY <1>2, <1>5, <1>6, NextOfPlace, ListTyped
<1>8. NextOf(current[t]) \in Task \cup {Nobody}
  BY <1>2, <1>7, ListTyped
<1>9. /\ current'[t] = NextOf(current[t])
      /\ count'[t] = IF request[t].what = "count" THEN count[t] + 1 ELSE count[t]
      /\ \A u \in Task : u # t => current'[u] = current[u] /\ count'[u] = count[u]
  BY <1>1 DEF TypeOK, RegistryTypeOK
<1>10. TypeOK'
  <2>1. RegistryTypeOK'
    BY <1>1, <1>8 DEF TypeOK, RegistryTypeOK
  <2>2. count' \in [Task -> Nat]
    BY <1>1 DEF TypeOK
  <2>. QED
    BY <1>1, <2>1, <2>2 DEF TypeOK
<1>11. LockInv' /\ NotListedYet' /\ OneNodeEach' /\ IdsInv' /\ Asked'
  BY <1>1 DEF LockInv, NotListedYet, Listed, OneNodeEach, IdsInv, Asked
<1>12. WalkInv'
  <2>1. \A u \in readers : u \in Task
    BY <1>2 DEF RegistryTypeOK
  <2>2. ASSUME NEW u \in readers, u # t
        PROVE  \E r \in 1 .. Len(g_module_list) + 1 : WalkedTo(u, r)'
    <3>1. PICK r \in 1 .. Len(g_module_list) + 1 : WalkedTo(u, r)
      BY DEF WalkInv
    <3>2. WalkedTo(u, r)'
      BY <1>1, <1>9, <2>1, <2>2, <3>1 DEF WalkedTo, Answers
    <3>. QED
      BY <3>2
  <2>3. p + 1 \in 1 .. Len(g_module_list) + 1 /\ WalkedTo(t, p + 1)'
    <3>1. p \in 1 .. Len(g_module_list) /\ Len(g_module_list) \in Nat
      BY <1>2, <1>5, ListTyped
    <3>2. \A j \in 1 .. (p + 1) - 1 : ~ Answers(request[t], j)
      <4>1. \A j \in 1 .. (p + 1) - 1 : j \in 1 .. p - 1 \/ j = p
        BY <3>1
      <4>. QED
        BY <1>4, <1>5, <4>1 DEF WalkedTo
    <3>3. request[t].what = "count" => count'[t] = (p + 1) - 1
      BY <1>4, <1>9, <3>1 DEF WalkedTo
    <3>4. p + 1 \in 1 .. Len(g_module_list) + 1
      BY <3>1
    <3>. QED
      BY <1>1, <1>7, <1>9, <3>2, <3>3, <3>4 DEF WalkedTo, Answers
  <2>. QED
    BY <1>1, <2>2, <2>3 DEF WalkInv
<1>. QED
  BY <1>10, <1>11, <1>12

(* A finder answers with the node it stands at, or with NULL behind the    *)
(* last one, and gives the read lock back.                                 *)
LEMMA ReplyInv ==
  ASSUME ApiInv, NEW t \in Task, Reply(t)
  PROVE  ApiInv'
<1> USE DEF ApiInv
<1>1. /\ UNCHANGED <<g_module_list, g_module_id_counter, wrapped, writer>>
      /\ readers' = readers \ {t}
      /\ current' = [current EXCEPT ![t] = Nobody]
      /\ pc[t] = "walk"
      /\ pc' = [pc EXCEPT ![t] = "out"]
      /\ request' = [request EXCEPT ![t] = Nobody]
      /\ count' = [count EXCEPT ![t] = 0]
      /\ answer' = [answer EXCEPT ![t] =
                       IF request[t].what = "count" THEN count[t] ELSE current[t]]
  BY DEF Reply, RdUnlock, Goto
<1>2. /\ \A u \in Task : u # t => /\ pc'[u] = pc[u]
                                  /\ request'[u] = request[u]
                                  /\ count'[u] = count[u]
                                  /\ current'[u] = current[u]
      /\ pc'[t] = "out"
      /\ request'[t] = Nobody
  BY <1>1 DEF TypeOK, RegistryTypeOK
<1>3. TypeOK'
  <2>1. RegistryTypeOK'
    BY <1>1 DEF TypeOK, RegistryTypeOK
  <2>2. pc' \in [Task -> {"out", "link", "unlink", "wr_unlock", "walk"}]
    BY <1>1 DEF TypeOK
  <2>3. request' \in [Task -> Question \cup {Nobody}]
    BY <1>1 DEF TypeOK
  <2>4. answer' \in [Task -> Task \cup Nat \cup {Nobody}]
    <3>1. count[t] \in Nat /\ current[t] \in Task \cup {Nobody}
      BY DEF TypeOK, RegistryTypeOK
    <3>. QED
      BY <1>1, <3>1 DEF TypeOK
  <2>5. count' \in [Task -> Nat]
    BY <1>1 DEF TypeOK
  <2>. QED
    BY <2>1, <2>2, <2>3, <2>4, <2>5 DEF TypeOK
<1>4. LockInv'
  BY <1>1, <1>2 DEF LockInv, WriterLabel
<1>5. NotListedYet' /\ OneNodeEach' /\ IdsInv'
  BY <1>1, <1>2 DEF NotListedYet, Listed, OneNodeEach, IdsInv
<1>6. Asked'
  BY <1>2, QuestionAssumption DEF Asked
<1>7. WalkInv'
  <2> SUFFICES ASSUME NEW u \in readers, u # t
               PROVE  \E p \in 1 .. Len(g_module_list) + 1 : WalkedTo(u, p)'
    BY <1>1 DEF WalkInv
  <2>1. PICK p \in 1 .. Len(g_module_list) + 1 : WalkedTo(u, p)
    BY DEF WalkInv
  <2>2. u \in Task
    BY DEF TypeOK, RegistryTypeOK
  <2>3. WalkedTo(u, p)'
    BY <1>1, <1>2, <2>1, <2>2 DEF WalkedTo, Answers
  <2>. QED
    BY <2>3
<1>. QED
  BY <1>3, <1>4, <1>5, <1>6, <1>7

(* Every step keeps the invariant, one case for each function.             *)
LEMMA ApiStepInv == ApiInv /\ [Next]_vars => ApiInv'
<1> SUFFICES ASSUME ApiInv, [Next]_vars PROVE ApiInv'
  OBVIOUS
<1>1. CASE Next
  BY <1>1, RegisterInv, UnlockInv, AskInv, StepInv, ReplyInv DEF Next
<1>2. CASE UNCHANGED vars
  BY <1>2 DEF vars, registryVars, ApiInv, TypeOK, RegistryTypeOK, LockInv, OneNodeEach, NotListedYet,
              Listed, Asked, WalkInv, WalkedTo, Answers, IdsInv
<1>. QED
  BY <1>1, <1>2

(* The invariant holds in every reachable state.                           *)
LEMMA ApiInvariance == Spec => []ApiInv
BY ApiInitInv, ApiStepInv, PTL DEF Spec

----------------------------------------------------------------------------
(* The theorems.                                                           *)

(* The list, the counter and the lock of lwac_module_registry.c keep their *)
(* types, whatever tasks register, unregister and search at the same time; *)
(* that nobody reads while somebody writes is a part of it.                *)
THEOREM RegistryTypeCorrect == Spec => []TypeOK
<1>1. ApiInv => TypeOK
  BY DEF ApiInv
<1>. QED
  BY <1>1, ApiInvariance, PTL

(* While lwac__find_module_by_id or lwac__find_module_by_name walks the    *)
(* list, the node it looks at is linked, so not freed: register and        *)
(* unregister wait for the read lock.                                      *)
THEOREM FindersSafe == Spec => []WalkerSeesLiveNode
<1>1. ApiInv => WalkerSeesLiveNode
  BY DEF ApiInv, WalkInv, WalkedTo, WalkerSeesLiveNode, Listed
<1>. QED
  BY <1>1, ApiInvariance, PTL

(* lwac__register_wasm_module inserts at the head and counts up, so that   *)
(* until the counter wraps the ids fall along the list and none is given   *)
(* twice.                                                                  *)
THEOREM IdsFall == Spec => []IdsFallUntilWrapped
<1>1. ApiInv => IdsFallUntilWrapped
  BY DEF ApiInv, IdsInv, IdsFallUntilWrapped
<1>. QED
  BY <1>1, ApiInvariance, PTL

----------------------------------------------------------------------------
(* The refinement.                                                         *)

NamesFit == \A u \in Task : StoredName[ModuleName[u]] = ModuleName[u]

(* The answer of a walk that has come to its end is the true one.          *)
LEMMA ReplyIsTrue ==
  ASSUME ApiInv, NamesFit, NEW t \in Task, Reply(t)
  PROVE  /\ request[t] # Nobody
         /\ answer' = [answer EXCEPT ![t] = Atomic!TrueAnswer(request[t])]
<1> USE DEF ApiInv
<1> DEFINE q == request[t]
           n == Len(g_module_list)
<1>1. /\ Matches(t) \/ current[t] = Nobody
      /\ pc[t] = "walk"
      /\ answer' = [answer EXCEPT ![t] = IF q.what = "count" THEN count[t] ELSE current[t]]
  BY DEF Reply, Goto
<1>2. t \in readers /\ q \in Question /\ q # Nobody
  BY <1>1, QuestionAssumption DEF LockInv, Asked
<1>3. PICK p \in 1 .. n + 1 : WalkedTo(t, p)
  BY <1>2 DEF WalkInv
<1>4. /\ n \in Nat
      /\ DOMAIN g_module_list = 1 .. n
      /\ \A k \in DOMAIN g_module_list : g_module_list[k].module_inst \in Task
  BY ListTyped DEF TypeOK
<1>5. \/ p \in DOMAIN g_module_list /\ Answers(q, p) /\ current[t] = g_module_list[p].module_inst
      \/ p = n + 1 /\ current[t] = Nobody
  BY <1>1, <1>2, <1>3, MatchesThePlace DEF WalkedTo
<1>6. \A j \in 1 .. p - 1 : ~ Answers(q, j)
  BY <1>3 DEF WalkedTo
<1> DEFINE hits == {k \in DOMAIN g_module_list : Answers(q, k)}
<1>7. current[t] = IF hits = {} THEN Nobody
                   ELSE g_module_list[CHOOSE k \in hits : \A j \in hits : k <= j].module_inst
  <2>1. CASE p \in DOMAIN g_module_list /\ Answers(q, p) /\ current[t] = g_module_list[p].module_inst
    <3>1. p \in hits /\ \A j \in hits : p <= j
      BY <1>4, <1>6, <2>1
    <3>2. \A k \in hits : (\A j \in hits : k <= j) => k = p
      BY <1>4, <3>1
    <3>3. (CHOOSE k \in hits : \A j \in hits : k <= j) = p
      <4> DEFINE P(k) == \A j \in hits : k <= j
      <4>1. P(p) /\ \A k \in hits : P(k) => k = p
        BY <3>1, <3>2
      <4> HIDE DEF P
      <4>2. (CHOOSE k \in hits : P(k)) = p
        BY <3>1, <4>1, Zenon
      <4>. QED
        BY <4>2 DEF P
    <3>. QED
      BY <2>1, <3>1, <3>3
  <2>2. CASE p = n + 1 /\ current[t] = Nobody
    <3>1. hits = {}
      BY <1>4, <1>6, <2>2
    <3>. QED
      BY <2>2, <3>1
  <2>. QED
    BY <1>5, <2>1, <2>2
<1>8. CASE q.what = "count"
  <2>1. \A k : ~ Answers(q, k)
    BY <1>8 DEF Answers
  <2>2. p = n + 1 /\ count[t] = p - 1
    BY <1>3, <1>5, <1>8, <2>1 DEF WalkedTo
  <2>3. count[t] = n
    BY <1>4, <2>2
  <2>4. Atomic!TrueAnswer(q) = n
    BY <1>8 DEF Atomic!TrueAnswer
  <2>. QED
    BY <1>1, <1>2, <1>8, <2>3, <2>4
<1>9. CASE q.what = "by_id"
  <2>1. hits = {k \in DOMAIN g_module_list : g_module_list[k].module_id = q.key}
    BY <1>9 DEF Answers
  <2> HIDE DEF hits
  <2>2. Atomic!TrueAnswer(q) =
            IF hits = {} THEN Nobody
            ELSE g_module_list[CHOOSE k \in hits : \A j \in hits : k <= j].module_inst
    BY <1>9, <2>1 DEF Atomic!TrueAnswer, Atomic!First
  <2>. QED
    BY <1>1, <1>2, <1>7, <1>9, <2>2
<1>10. CASE q.what = "by_name"
  <2>1. hits = {k \in DOMAIN g_module_list : ModuleName[g_module_list[k].module_inst] = q.key}
    BY <1>4, <1>10 DEF Answers, NamesFit
  <2> HIDE DEF hits
  <2>2. Atomic!TrueAnswer(q) =
            IF hits = {} THEN Nobody
            ELSE g_module_list[CHOOSE k \in hits : \A j \in hits : k <= j].module_inst
    BY <1>10, <2>1 DEF Atomic!TrueAnswer, Atomic!First
  <2>. QED
    BY <1>1, <1>2, <1>7, <1>10, <2>2
<1>. QED
  BY <1>2, <1>8, <1>9, <1>10 DEF Question

(* Every step of the registry is a step of the atomic one, or none:        *)
(* registering and unregistering take effect where the node is linked and  *)
(* unlinked, a question where it is answered.                              *)
LEMMA AtomicStep ==
  ASSUME ApiInv, NamesFit, [Next]_vars
  PROVE  [Atomic!Next]_<<g_module_list, g_module_id_counter, request, answer>>
<1> USE DEF ApiInv
<1> SUFFICES ASSUME ~ UNCHANGED <<g_module_list, g_module_id_counter, request, answer>>
             PROVE  Atomic!Next
  OBVIOUS
<1>1. PICK t \in Task : Register(t) \/ Unregister(t) \/ Unlock(t) \/ Ask(t) \/ Step(t) \/ Reply(t)
  BY DEF vars, registryVars, Next
<1>2. CASE Register(t)
  <2>1. Link(t) /\ UNCHANGED <<request, answer>>
    BY <1>2 DEF Register, WrLock
  <2>2. Atomic!Register(t)
    BY <2>1 DEF Link, Atomic!Register
  <2>. QED
    BY <2>2 DEF Atomic!Next
<1>3. CASE Unregister(t)
  <2>1. Unlink(t) /\ UNCHANGED <<request, answer>>
    BY <1>3 DEF Unregister, WrLock
  <2>2. UNCHANGED <<g_module_id_counter, request, answer>>
    BY <2>1 DEF Unlink
  <2>3. \E k \in DOMAIN g_module_list :
          /\ g_module_list[k].module_inst = t
          /\ g_module_list' = RemoveAt(g_module_list, k)
    BY <2>1, <2>2 DEF Unlink
  <2>4. Atomic!Unregister(t)
    BY <2>2, <2>3 DEF Atomic!Unregister, Atomic!RemoveAt, RemoveAt
  <2>. QED
    BY <2>4 DEF Atomic!Next
<1>4. CASE Ask(t)
  <2>1. request[t] = Nobody
    BY <1>4 DEF Ask, Goto, Asked, TypeOK
  <2>2. PICK q \in Question : request' = [request EXCEPT ![t] = q]
    BY <1>4 DEF Ask
  <2>3. PICK what \in {"count", "by_id", "by_name"},
             key \in 0 .. IdModulus - 1 \cup {ModuleName[u] : u \in Task} :
                q = [what |-> what, key |-> key]
    <3>1. 0 \in 0 .. IdModulus - 1
      BY RegistryAssumption
    <3>2. CASE q \in [what : {"by_id"}, key : 0 .. IdModulus - 1]
      BY <3>2
    <3>3. CASE q \in [what : {"by_name"}, key : Names]
      BY <3>3 DEF Names
    <3>4. CASE q \in [what : {"count"}, key : {0}]
      BY <3>1, <3>4
    <3>. QED
      BY <3>2, <3>3, <3>4 DEF Question
  <2>4. Atomic!Ask(t)
    BY <1>4, <2>1, <2>2, <2>3 DEF Ask, RdLock, Atomic!Ask
  <2>. QED
    BY <2>4 DEF Atomic!Next
<1>5. CASE Reply(t)
  <2>1. UNCHANGED <<g_module_list, g_module_id_counter>>
        /\ request' = [request EXCEPT ![t] = Nobody]
    BY <1>5 DEF Reply, RdUnlock
  <2>2. Atomic!Reply(t)
    BY <1>5, <2>1, ReplyIsTrue DEF Atomic!Reply
  <2>. QED
    BY <2>2 DEF Atomic!Next
<1>6. CASE Unlock(t) \/ Step(t)
  BY <1>6 DEF Unlock, WrUnlock, Step, Advance
<1>. QED
  BY <1>1, <1>2, <1>3, <1>4, <1>5, <1>6

(* The registry with its lock and its walks behaves as one that does each  *)
(* call in one step: a finder answers what is true of the whole list at    *)
(* one moment of the call, though it sees one node at a time. The names    *)
(* must fit the 64 bytes of module_name: strlcpy cuts what is longer, and  *)
(* the finder compares with what is stored.                                *)
THEOREM AtomicRegistryImplemented ==
  ASSUME NamesFit
  PROVE  Spec => ImplementsAtomicRegistry
<1>1. Init => Atomic!Init
  BY DEF Init, RegistryInit, Atomic!Init
<1>2. ApiInv /\ [Next]_vars =>
          [Atomic!Next]_<<g_module_list, g_module_id_counter, request, answer>>
  BY AtomicStep
<1>. QED
  BY <1>1, <1>2, ApiInvariance, PTL DEF Spec, ImplementsAtomicRegistry, Atomic!Spec
==============================================================================
