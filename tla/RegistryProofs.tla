--------------------------- MODULE RegistryProofs ---------------------------
(***************************************************************************)
(* Lemmas about the list of running modules, for those who take its steps. *)
(***************************************************************************)
EXTENDS ModuleRegistry, DataLemmas

(* The list is empty at first and the counter 0.                           *)
LEMMA RegistryInitTypeOK == RegistryInit => RegistryTypeOK
<1> SUFFICES ASSUME RegistryInit PROVE RegistryTypeOK
  OBVIOUS
<1> USE DEF RegistryInit
<1>1. g_module_list \in Seq(Node)
  OBVIOUS
<1>2. g_module_id_counter \in 0 .. IdModulus - 1
  BY RegistryAssumption
<1>. QED  BY <1>1, <1>2 DEF RegistryTypeOK

(* lwac__register_wasm_module links a node of the list's type; the id is   *)
(* taken modulo its width.                                                 *)
LEMMA LinkType ==
  ASSUME RegistryTypeOK, NEW t \in Task, Link(t)
  PROVE  RegistryTypeOK'
<1> DEFINE id == (g_module_id_counter + 1) % IdModulus
<1>1. id \in 0 .. IdModulus - 1
  BY RegistryAssumption DEF RegistryTypeOK
<1>2. [module_inst |-> t, module_id |-> id] \in Node
  BY <1>1 DEF Node
<1>3. g_module_list' \in Seq(Node)
  BY <1>2 DEF Link, RegistryTypeOK
<1>. QED  BY <1>1, <1>3 DEF Link, RegistryTypeOK

(* lwac__unregister_wasm_module leaves a list of nodes.                    *)
LEMMA UnlinkType ==
  ASSUME RegistryTypeOK, NEW t \in Task, Unlink(t)
  PROVE  RegistryTypeOK'
<1>1. ASSUME NEW k \in DOMAIN g_module_list,
             g_module_list' = RemoveAt(g_module_list, k)
      PROVE  g_module_list' \in Seq(Node)
  BY <1>1 DEF RegistryTypeOK, RemoveAt
<1>2. g_module_list' \in Seq(Node)
  BY <1>1 DEF Unlink, RegistryTypeOK
<1>. QED  BY <1>2 DEF Unlink, RegistryTypeOK

(* SLIST_FIRST is a linked node or NULL.                                   *)
LEMMA FirstNodeType ==
  ASSUME RegistryTypeOK
  PROVE  FirstNode \in Listed \cup {Nobody} /\ Listed \subseteq Task
<1>1. Listed \subseteq Task
  <2>1. ASSUME NEW k \in DOMAIN g_module_list
        PROVE  g_module_list[k] \in Node
    BY DEF RegistryTypeOK
  <2>. QED  BY <2>1 DEF Listed, Node
<1>2. CASE g_module_list = << >>
  BY <1>1, <1>2 DEF FirstNode
<1>3. CASE g_module_list # << >>
  <2>1. 1 \in DOMAIN g_module_list
    BY <1>3 DEF RegistryTypeOK
  <2>. QED  BY <1>1, <1>3, <2>1 DEF FirstNode, Listed
<1>. QED  BY <1>1, <1>2, <1>3

\* The place of a listed task's node, and what follows it.
LEMMA NextOfType ==
  ASSUME RegistryTypeOK, NEW t \in Listed
  PROVE  NextOf(t) \in Listed \cup {Nobody}
<1> DEFINE k == CHOOSE j \in DOMAIN g_module_list : g_module_list[j].module_inst = t
<1>1. k \in DOMAIN g_module_list
  BY DEF Listed
<1>2. CASE k = Len(g_module_list)
  BY <1>2 DEF NextOf
<1>3. CASE k # Len(g_module_list)
  <2>1. k + 1 \in DOMAIN g_module_list
    BY <1>1, <1>3 DEF RegistryTypeOK
  <2>. QED  BY <1>3, <2>1 DEF NextOf, Listed
<1>. QED  BY <1>2, <1>3

\* No task has two nodes.
OneNodeEach ==
    \A j, k \in DOMAIN g_module_list :
        g_module_list[j].module_inst = g_module_list[k].module_inst => j = k

(* Linking the node of a task that has none adds that task to those        *)
(* listed, and each still has one node.                                    *)
LEMMA LinkListed ==
  ASSUME RegistryTypeOK, NEW t \in Task, Link(t), t \notin Listed, OneNodeEach
  PROVE  Listed' = Listed \cup {t} /\ OneNodeEach'
<1> DEFINE n == [module_inst |-> t, module_id |-> (g_module_id_counter + 1) % IdModulus]
<1>1. g_module_list' = <<n>> \o g_module_list
  BY DEF Link
<1>2. /\ DOMAIN g_module_list = 1 .. Len(g_module_list)
      /\ DOMAIN g_module_list' = 1 .. Len(g_module_list) + 1
      /\ g_module_list'[1] = n
      /\ \A j \in 1 .. Len(g_module_list) : g_module_list'[j + 1] = g_module_list[j]
      /\ Len(g_module_list) \in Nat
  BY <1>1 DEF RegistryTypeOK
<1>3. \A j \in 2 .. Len(g_module_list) + 1 :
         j - 1 \in 1 .. Len(g_module_list) /\ g_module_list'[j] = g_module_list[j - 1]
  <2>1. ASSUME NEW j \in 2 .. Len(g_module_list) + 1
        PROVE  j - 1 \in 1 .. Len(g_module_list) /\ (j - 1) + 1 = j
    BY <1>2
  <2>. QED  BY <1>2, <2>1
<1>4. Listed' = Listed \cup {t}
  <2>1. ASSUME NEW u \in Listed PROVE u \in Listed'
    <3>1. PICK k \in 1 .. Len(g_module_list) : g_module_list[k].module_inst = u
      BY <1>2 DEF Listed
    <3>2. k + 1 \in DOMAIN g_module_list' /\ g_module_list'[k + 1].module_inst = u
      BY <1>2, <3>1
    <3>. QED  BY <3>2 DEF Listed
  <2>2. t \in Listed'
    BY <1>2 DEF Listed
  <2>3. ASSUME NEW u \in Listed' PROVE u \in Listed \cup {t}
    <3>1. PICK k \in 1 .. Len(g_module_list) + 1 : g_module_list'[k].module_inst = u
      BY <1>2 DEF Listed
    <3>2. CASE k = 1
      BY <1>2, <3>1, <3>2
    <3>3. CASE k # 1
      <4>1. k \in 2 .. Len(g_module_list) + 1
        BY <1>2, <3>3
      <4>. QED  BY <1>2, <1>3, <3>1, <4>1 DEF Listed
    <3>. QED  BY <3>2, <3>3
  <2>. QED  BY <2>1, <2>2, <2>3
<1>5. OneNodeEach'
  <2> SUFFICES ASSUME NEW j \in 1 .. Len(g_module_list) + 1,
                      NEW k \in 1 .. Len(g_module_list) + 1,
                      g_module_list'[j].module_inst = g_module_list'[k].module_inst
               PROVE  j = k
    BY <1>2 DEF OneNodeEach
  <2>1. ASSUME NEW i \in 2 .. Len(g_module_list) + 1
        PROVE  g_module_list'[i].module_inst # t
    BY <1>2, <1>3, <2>1 DEF Listed
  <2>2. CASE j = 1 \/ k = 1
    BY <1>2, <2>1, <2>2
  <2>3. CASE j # 1 /\ k # 1
    <3>1. j \in 2 .. Len(g_module_list) + 1 /\ k \in 2 .. Len(g_module_list) + 1
      BY <1>2, <2>3
    <3>2. j - 1 = k - 1
      BY <1>2, <1>3, <3>1 DEF OneNodeEach
    <3>. QED  BY <3>1, <3>2
  <2>. QED  BY <2>2, <2>3
<1>. QED  BY <1>4, <1>5

(* Unlinking takes the one node of the task out, and no other.             *)
LEMMA UnlinkListed ==
  ASSUME RegistryTypeOK, NEW t \in Task, Unlink(t), OneNodeEach
  PROVE  Listed' = Listed \ {t} /\ OneNodeEach'
<1>1. CASE t \notin Listed /\ UNCHANGED g_module_list
  BY <1>1 DEF Listed, OneNodeEach
<1>2. CASE \E k \in DOMAIN g_module_list :
              /\ g_module_list[k].module_inst = t
              /\ g_module_list' = RemoveAt(g_module_list, k)
  <2>1. PICK k \in 1 .. Len(g_module_list) :
              /\ g_module_list[k].module_inst = t
              /\ g_module_list' = RemoveAt(g_module_list, k)
    BY <1>2 DEF RegistryTypeOK
  <2>2. /\ DOMAIN g_module_list = 1 .. Len(g_module_list)
        /\ DOMAIN g_module_list' = 1 .. Len(g_module_list) - 1
        /\ \A j \in 1 .. Len(g_module_list) - 1 :
              g_module_list'[j] = IF j < k THEN g_module_list[j] ELSE g_module_list[j + 1]
        /\ Len(g_module_list) \in Nat
    <3>1. g_module_list \in Seq(Node)
      BY DEF RegistryTypeOK
    <3>2. /\ g_module_list' \in Seq(Node)
          /\ Len(g_module_list') = Len(g_module_list) - 1
          /\ \A j \in 1 .. Len(g_module_list) - 1 :
                g_module_list'[j] = IF j < k THEN g_module_list[j] ELSE g_module_list[j + 1]
      BY <2>1, <3>1, RemoveAtElements
    <3>. QED  BY <3>1, <3>2
  <2>3. ASSUME NEW u \in Listed, u # t PROVE u \in Listed'
    <3>1. PICK j \in 1 .. Len(g_module_list) : g_module_list[j].module_inst = u
      BY <2>2 DEF Listed
    <3>2. CASE j < k
      <4>1. j \in 1 .. Len(g_module_list) - 1
        BY <2>1, <2>2, <3>2
      <4>. QED  BY <2>2, <3>1, <3>2, <4>1 DEF Listed
    <3>3. CASE j > k
      <4>1. j - 1 \in 1 .. Len(g_module_list) - 1 /\ ~(j - 1 < k) /\ (j - 1) + 1 = j
        BY <2>1, <2>2, <3>3
      <4>2. g_module_list'[j - 1] = g_module_list[j]
        BY <2>2, <4>1
      <4>. QED  BY <2>2, <3>1, <4>1, <4>2 DEF Listed
    <3>. QED  BY <2>1, <2>3, <3>1, <3>2, <3>3
  <2>4. ASSUME NEW u \in Listed' PROVE u \in Listed /\ u # t
    <3>1. PICK j \in 1 .. Len(g_module_list) - 1 : g_module_list'[j].module_inst = u
      BY <2>2 DEF Listed
    <3>2. PICK i \in 1 .. Len(g_module_list) : i # k /\ g_module_list'[j] = g_module_list[i]
      <4>1. CASE j < k
        BY <2>2, <4>1
      <4>2. CASE ~(j < k)
        BY <2>2, <4>2
      <4>. QED  BY <4>1, <4>2
    <3>. QED  BY <2>1, <2>2, <3>1, <3>2 DEF Listed, OneNodeEach
  <2>5. OneNodeEach'
    <3> SUFFICES ASSUME NEW i \in 1 .. Len(g_module_list) - 1,
                        NEW j \in 1 .. Len(g_module_list) - 1,
                        g_module_list'[i].module_inst = g_module_list'[j].module_inst
                 PROVE  i = j
      BY <2>2 DEF OneNodeEach
    <3> DEFINE p(x) == IF x < k THEN x ELSE x + 1
    <3>1. /\ p(i) \in 1 .. Len(g_module_list)
          /\ p(j) \in 1 .. Len(g_module_list)
          /\ g_module_list'[i] = g_module_list[p(i)]
          /\ g_module_list'[j] = g_module_list[p(j)]
      BY <2>2
    <3>2. p(i) = p(j)
      BY <2>2, <3>1 DEF OneNodeEach
    <3>. QED  BY <3>2
  <2>. QED  BY <2>3, <2>4, <2>5
<1>. QED  BY <1>1, <1>2 DEF Unlink

(* The node after the one a walker looks at.                               *)
LEMMA NextOfPlace ==
  ASSUME RegistryTypeOK, OneNodeEach, NEW k \in DOMAIN g_module_list
  PROVE  NextOf(g_module_list[k].module_inst) =
            IF k = Len(g_module_list) THEN Nobody ELSE g_module_list[k + 1].module_inst
<1> DEFINE u == g_module_list[k].module_inst
           c == CHOOSE j \in DOMAIN g_module_list : g_module_list[j].module_inst = u
<1>1. c \in DOMAIN g_module_list /\ g_module_list[c].module_inst = u
  OBVIOUS
<1>2. c = k
  BY <1>1 DEF OneNodeEach
<1>3. NextOf(u) = IF c = Len(g_module_list) THEN Nobody ELSE g_module_list[c + 1].module_inst
  BY DEF NextOf
<1> HIDE DEF c
<1>. QED
  BY <1>2, <1>3

(* The ids fall from the head on and none is above the counter, until the  *)
(* counter wraps.                                                          *)
IdsInv ==
    ~ wrapped =>
        /\ \A k \in DOMAIN g_module_list :
              g_module_list[k].module_id <= g_module_id_counter
        /\ \A j, k \in DOMAIN g_module_list :
              j < k => g_module_list[j].module_id > g_module_list[k].module_id

(* Linking at the head keeps the ids falling along the list: the id that   *)
(* is given is larger than all before it, until the counter wraps.         *)
LEMMA LinkIds ==
  ASSUME RegistryTypeOK, IdsInv, NEW t \in Task, Link(t)
  PROVE  IdsInv'
<1> DEFINE id == (g_module_id_counter + 1) % IdModulus
           n == [module_inst |-> t, module_id |-> id]
<1>1. /\ g_module_list' = <<n>> \o g_module_list
      /\ g_module_id_counter' = id
      /\ wrapped' = (wrapped \/ id = 0)
  BY DEF Link
<1>2. /\ DOMAIN g_module_list = 1 .. Len(g_module_list)
      /\ DOMAIN g_module_list' = 1 .. Len(g_module_list) + 1
      /\ g_module_list'[1] = n
      /\ \A j \in 1 .. Len(g_module_list) : g_module_list'[j + 1] = g_module_list[j]
      /\ Len(g_module_list) \in Nat
  BY <1>1 DEF RegistryTypeOK
<1>3. \A j \in 2 .. Len(g_module_list) + 1 :
         j - 1 \in 1 .. Len(g_module_list) /\ g_module_list'[j] = g_module_list[j - 1]
  <2>1. ASSUME NEW j \in 2 .. Len(g_module_list) + 1
        PROVE  j - 1 \in 1 .. Len(g_module_list) /\ (j - 1) + 1 = j
    BY <1>2
  <2>. QED
    BY <1>2, <2>1
<1>4. \A k \in DOMAIN g_module_list : g_module_list[k].module_id \in Nat
  <2>1. ASSUME NEW k \in DOMAIN g_module_list PROVE g_module_list[k] \in Node
    BY DEF RegistryTypeOK
  <2>. QED
    BY <2>1, RegistryAssumption DEF Node
<1>5. n.module_id = id
  OBVIOUS
<1>6. id # 0 => id = g_module_id_counter + 1
  BY RegistryAssumption DEF RegistryTypeOK
<1>7. g_module_id_counter \in Nat
  BY RegistryAssumption DEF RegistryTypeOK
<1> HIDE DEF n, id
<1> SUFFICES ASSUME ~ wrapped'
             PROVE  /\ \A k \in DOMAIN g_module_list' : g_module_list'[k].module_id <= id
                    /\ \A j, k \in DOMAIN g_module_list' :
                          j < k => g_module_list'[j].module_id > g_module_list'[k].module_id
  BY <1>1 DEF IdsInv
<1>8. id = g_module_id_counter + 1 /\ ~ wrapped
  BY <1>1, <1>6
<1>9. \A k \in 2 .. Len(g_module_list) + 1 :
         g_module_list'[k].module_id < id /\ g_module_list'[k].module_id \in Nat
  BY <1>2, <1>3, <1>4, <1>7, <1>8 DEF IdsInv
<1>10. \A k \in DOMAIN g_module_list' : k = 1 \/ k \in 2 .. Len(g_module_list) + 1
  BY <1>2
<1>11. \A k \in DOMAIN g_module_list' : g_module_list'[k].module_id <= id
  BY <1>2, <1>5, <1>7, <1>8, <1>9, <1>10
<1>12. ASSUME NEW j \in DOMAIN g_module_list', NEW k \in DOMAIN g_module_list', j < k
       PROVE  g_module_list'[j].module_id > g_module_list'[k].module_id
  <2>1. k \in 2 .. Len(g_module_list) + 1
    BY <1>2, <1>12
  <2>2. CASE j = 1
    BY <1>2, <1>5, <1>7, <1>8, <1>9, <2>1, <2>2
  <2>3. CASE j # 1
    <3>1. j \in 2 .. Len(g_module_list) + 1 /\ j - 1 < k - 1
      BY <1>2, <1>12, <2>3
    <3>. QED
      BY <1>2, <1>3, <1>8, <2>1, <3>1 DEF IdsInv
  <2>. QED
    BY <2>2, <2>3
<1>. QED
  BY <1>11, <1>12

(* Unlinking keeps the order of the nodes that stay, so their ids fall     *)
(* along the list as before.                                               *)
LEMMA UnlinkIds ==
  ASSUME RegistryTypeOK, IdsInv, NEW t \in Task, Unlink(t)
  PROVE  IdsInv'
<1>1. g_module_id_counter' = g_module_id_counter /\ wrapped' = wrapped
  BY DEF Unlink
<1>2. CASE UNCHANGED g_module_list
  BY <1>1, <1>2 DEF IdsInv
<1>3. CASE \E k \in DOMAIN g_module_list : g_module_list' = RemoveAt(g_module_list, k)
  <2>1. g_module_list \in Seq(Node)
    BY DEF RegistryTypeOK
  <2>2. PICK k \in 1 .. Len(g_module_list) : g_module_list' = RemoveAt(g_module_list, k)
    BY <1>3, <2>1
  <2> DEFINE at(j) == IF j < k THEN j ELSE j + 1
  <2>3. /\ DOMAIN g_module_list = 1 .. Len(g_module_list)
        /\ DOMAIN g_module_list' = 1 .. Len(g_module_list) - 1
        /\ \A j \in 1 .. Len(g_module_list) - 1 : g_module_list'[j] = g_module_list[at(j)]
        /\ Len(g_module_list) \in Nat
    <3>1. /\ g_module_list' \in Seq(Node)
          /\ Len(g_module_list') = Len(g_module_list) - 1
          /\ \A j \in 1 .. Len(g_module_list) - 1 :
                g_module_list'[j] = IF j < k THEN g_module_list[j] ELSE g_module_list[j + 1]
      BY <2>1, <2>2, RemoveAtElements
    <3>. QED
      BY <2>1, <3>1
  <2>4. /\ \A j \in DOMAIN g_module_list' : at(j) \in DOMAIN g_module_list
        /\ \A i, j \in DOMAIN g_module_list' : i < j => at(i) < at(j)
    BY <2>3
  <2> HIDE DEF at
  <2>. QED
    BY <1>1, <2>3, <2>4 DEF IdsInv
<1>. QED
  BY <1>2, <1>3 DEF Unlink
=============================================================================
