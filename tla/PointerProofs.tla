---------------------------- MODULE PointerProofs ----------------------------
(***************************************************************************)
(* The natives whose arguments point to memory that holds pointers itself, *)
(* for every length of list and array: type correctness and the three      *)
(* properties of NativePointers.                                           *)
(*                                                                         *)
(* None of them is inductive. That a native function finds every pointer   *)
(* converted once, and the application every pointer turned back, takes    *)
(* that at each step of a call one knows, of each place in memory, whether *)
(* it has been converted: for a list or array the elements on one side of  *)
(* the walk have, the others not. PointersInv says so for each shape the   *)
(* glue has: a structure or cells converted without a loop; a list or an   *)
(* array the native function makes; a list or an array it is given.        *)
(***************************************************************************)
EXTENDS NativePointers, DataLemmas

(* The length of the list or array that an application passes.             *)
Size == was[Arg("a")].to

(* The natives by the shape of their glue: lists and arrays they are       *)
(* given; cells and structures, converted without a loop; lists and arrays *)
(* that the native function makes.                                         *)
GivenLists == ListNatives \cup {"dbus_free_string_array"}
Messages == {"sendmsg", "recvmsg"}
Straight == {"strtol", "strtod", "iconv", "versionsort", "ioctl", "wapi_unload_config",
             "dbus_connection_get_object_path_data", "dbus_message_iter_append_basic"}
                \cup WconfigNatives \cup Messages
MakesLists == {"getaddrinfo", "getifaddrs"}
MakesArrays == {"dbus_connection_list_registered", "scandir"}

(* What the application has passed, which stays.                           *)
Passed ==
    /\ native \in ListNatives \cup ArrayNatives \cup WconfigNatives \cup CellNatives
    /\ \E first \in {Arg("a"), Zero}, second \in {Arg("a"), Arg("b"), Zero} :
          args = <<first, second>>
    /\ args[2] = Zero => native = "ioctl"
    /\ args[1] = Zero => native \in MayBeNull
    /\ args[1] = args[2] => native \in {"iconv", "versionsort", "ioctl"}
    /\ was \in [Place -> {App(k) : k \in 0 .. Nodes}]
    /\ was[Zero] = Nil /\ was[Datum(0)] = Nil
    /\ native \in NeedNonNull => was[Arg("a")] # Nil
    /\ native \in GivenLists =>
           /\ Size \in 0 .. Nodes /\ was[Arg("a")] = App(Size)
           /\ args[1] = Zero => Size = 0
           /\ \A k \in 1 .. Nodes : was[Next(k)] = IF k <= Size THEN App(k - 1) ELSE Nil
           /\ \A k \in 1 .. Nodes + 1 : was[Datum(k)] = IF k <= Size THEN App(k) ELSE Nil
    /\ native = "freeifaddrs" /\ Size = 0 => args[1] = Zero
    /\ native \in CellNatives =>
           /\ \A k \in 1 .. Nodes : was[Next(k)] = Nil
           /\ \A k \in 1 .. Nodes + 1 : was[Datum(k)] = Nil

(* What a native without a loop leaves alone.                              *)
Quiet == cur = Nil /\ ok = TRUE /\ freed = {}

(* What holds of every native. The last two conjuncts are the two parts of *)
(* AppSeesItsOwn.                                                          *)
Kept ==
    /\ count \in 0 .. Nodes
    /\ lens \in [{"b", "c"} -> BOOLEAN]
    /\ mem \in [Place -> Pointer]
    /\ cur \in Pointer
    /\ ok \in BOOLEAN
    /\ freed \subseteq Pointer
    /\ step \in {"called", "in", "native", "out", "returned"}
    /\ step = "called" => mem = was /\ Quiet
    /\ native \in GivenLists /\ (native = "wapi_scan_coll" => step \in {"called", "in", "native"})
           => count = Size
    /\ AppSeesApp
    /\ NullLeftAlone

(* The memory the native function finds is the application's but for these *)
(* places.                                                                 *)
Converted(places) == mem = AppToNativeAddrs(was, places)

(* A message whose lengths are in lens: recvmsg may have reset them since  *)
(* name and control were converted.                                        *)
MessageConverted ==
    /\ mem[Arg("a")] = AppToNativeAddr(was[Arg("a")])
    /\ mem[Arg("d")] = was[Arg("d")]
    /\ \A f \in {"b", "c"} :
           /\ lens[f] => mem[Arg(f)] = IF was[Arg(f)] = Nil THEN Nil
                                       ELSE AppToNativeAddr(was[Arg(f)])
           /\ ~lens[f] => mem[Arg(f)] = was[Arg(f)] \/ native = "recvmsg"
    /\ \A k \in 0 .. Nodes : mem[Next(k)] = was[Next(k)]
    /\ \A k \in 0 .. Nodes + 1 :
           mem[Datum(k)] = IF k \in 1 .. count THEN AppToNativeAddr(was[Datum(k)])
                           ELSE was[Datum(k)]

(* Natives without a loop: what is converted while the native function     *)
(* runs is what is turned back when it returns.                            *)
StraightInv ==
    native \in Straight =>
        /\ step \in {"called", "native", "returned"}
        /\ Quiet
        /\ step = "native" =>
            /\ native \in {"strtol", "dbus_connection_get_object_path_data",
                           "dbus_message_iter_append_basic", "wapi_unload_config"}
                  => Converted({args[1]})
            /\ native = "strtod" => mem = was
            /\ native \in {"iconv", "versionsort"}
                  => mem = AppToNativeAddrs(AppToNativeAddrs(was, {args[1]}), {args[2]})
            /\ native = "ioctl" => Converted({p \in {args[1]} : was[p] # Nil})
            /\ native \in {"ioctl", "wapi_unload_config"} \cup WconfigNatives => args[1] # Zero
            /\ native \in WconfigNatives =>
                  \/ Converted({p \in WconfigPtrs : was[p] # Nil})
                  \/ /\ native = "wapi_load_config"
                     /\ mem = [p \in Place |-> IF p \in WconfigPtrs THEN Native(1) ELSE was[p]]
            /\ native \in Messages => MessageConverted

(* Lists made by the native function: the walk goes from the last element, *)
(* which is count, to the first. The elements it has passed, and no        *)
(* others, are the application's.                                          *)
MakesListInv ==
    native \in MakesLists =>
        /\ step \in {"called", "native", "out", "returned"}
        /\ freed = {}
        /\ step = "native" => mem = was /\ Quiet
        /\ step = "out" =>
            /\ \A f \in {"b", "c", "d"} : mem[Arg(f)] = was[Arg(f)]
            /\ mem[Zero] = Nil /\ mem[Datum(0)] = Nil /\ mem[Datum(Nodes + 1)] = Nil
            /\ ok => /\ cur = Nil \/ cur \in {Native(k) : k \in 1 .. count}
                     /\ mem[Arg("a")] \in {Nil} \cup {Native(k) : k \in 1 .. Nodes}
                     /\ \A k \in 1 .. Nodes :
                          /\ mem[Next(k)] = IF k = 1 \/ k > count THEN Nil
                                            ELSE IF cur # Nil /\ k <= cur.to THEN Native(k - 1)
                                            ELSE App(k - 1)
                          /\ mem[Datum(k)] \in
                                {Nil, IF cur # Nil /\ k <= cur.to THEN Native(k) ELSE App(k)}
            /\ ~ok => /\ cur.conv = 0 /\ mem[Arg("a")].conv = 0
                      /\ \A k \in 1 .. Nodes : mem[Next(k)] = Nil /\ mem[Datum(k)] = Nil
        /\ step = "returned" => cur = Nil

(* Arrays made by the native function: the walk goes from the first string *)
(* to the NULL after the last. scandir has no walk of its own.             *)
MakesArrayInv ==
    native \in MakesArrays =>
        /\ step \in {"called", "native", "out", "returned"}
        /\ freed = {}
        /\ step = "native" => mem = was /\ Quiet
        /\ step \in {"out", "returned"} => cur \in {Native(k) : k \in 1 .. count + 1} \/ ~ok
        /\ step = "out" =>
            /\ \A f \in {"b", "c", "d"} : mem[Arg(f)] = was[Arg(f)]
            /\ \A k \in 0 .. Nodes : mem[Next(k)] = Nil
            /\ mem[Datum(0)] = Nil
            /\ ok => /\ mem[Arg("a")] = Native(1)
                     /\ native = "scandir" => cur = Native(1)
                     /\ \A k \in 1 .. Nodes + 1 :
                          mem[Datum(k)] = IF k > count THEN Nil
                                          ELSE IF k < cur.to THEN App(k) ELSE Native(k)
            /\ ~ok => /\ native = "scandir" \/ cur = Nil
                      /\ mem[Arg("a")].conv = 0
                      /\ \A k \in 1 .. Nodes + 1 : mem[Datum(k)] = Nil

(* Lists given to the native function. On the way in the next pointers     *)
(* behind the walk are native and those before it the application's; the   *)
(* native function adds elements in front; on the way out it is the other  *)
(* way round.                                                              *)
GivenListInv ==
    native \in ListNatives =>
        /\ ok = TRUE
        /\ step # "called" => args[1] # Zero \/ native = "freeifaddrs" \/ step = "returned"
        /\ step = "out" => native = "wapi_scan_coll"
        /\ step \in {"called", "in", "native", "out"} \/ native = "wapi_scan_coll" => freed = {}
        /\ step = "in" =>
            /\ cur \in {Native(k) : k \in 0 .. Size}
            /\ cur.to = 0 => Size = 0
            /\ \A k \in 1 .. Nodes :
                  mem[Next(k)] = IF k > cur.to /\ k <= Size THEN Native(k - 1) ELSE was[Next(k)]
        /\ step = "native" =>
            /\ cur = Native(IF Size = 0 THEN 0 ELSE 1)
            /\ \A k \in 1 .. Nodes :
                  mem[Next(k)] = IF k \in 2 .. Size THEN Native(k - 1) ELSE Nil
        /\ step \in {"in", "native"} =>
            /\ \A f \in {"b", "c", "d"} : mem[Arg(f)] = was[Arg(f)]
            /\ mem[Arg("a")] = IF native = "wapi_scan_coll" THEN Native(Size) ELSE App(Size)
            /\ mem[Zero] = Nil
            /\ native # "freeifaddrs" => \A k \in 0 .. Nodes + 1 : mem[Datum(k)] = was[Datum(k)]
            /\ step = "in" => \A k \in 0 .. cur.to : mem[Datum(k)] = was[Datum(k)]
            /\ args[1] # Zero => mem[Datum(0)] = Nil
        /\ step = "out" =>
            /\ cur = Nil \/ cur \in {Native(k) : k \in 0 .. Nodes}
            /\ \A f \in Field : mem[Arg(f)].conv = 0
            /\ \A k \in 0 .. Nodes + 1 : mem[Datum(k)] = was[Datum(k)]
            /\ mem[Zero] = Nil
            /\ \A k \in 1 .. Nodes :
                  IF cur # Nil /\ k <= cur.to
                  THEN mem[Next(k)] = Native(k - 1) \/ (k = 1 /\ mem[Next(k)] = Nil)
                  ELSE mem[Next(k)].conv = 0
        /\ step = "returned" =>
            /\ cur = Nil \/ cur.conv = 1
            /\ freed # {} => 
                 /\ native = "freeifaddrs" => freed \in {{Native(Size)} \cup {Native(k) : k \in 1 .. Size}}
                 /\ native = "wapi_scan_coll_free" => freed = {Native(IF Size = 0 THEN 0 ELSE 1)}

(* Arrays given to the native function: the strings behind the walk are    *)
(* native.                                                                 *)
GivenArrayInv ==
    native = "dbus_free_string_array" =>
        /\ ok = TRUE
        /\ step \in {"called", "in", "native", "returned"}
        /\ step \in {"in", "native"} =>
            /\ freed = {}
            /\ cur \in {Native(k) : k \in 0 .. Size + 1}
            /\ cur.to = 0 <=> args[1] = Zero
            /\ step = "native" => cur.to = 0 \/ cur.to = Size + 1
            /\ \A f \in Field : mem[Arg(f)] = was[Arg(f)]
            /\ \A k \in 0 .. Nodes : mem[Next(k)] = was[Next(k)]
            /\ \A k \in 0 .. Nodes + 1 :
                 mem[Datum(k)] = IF k \in 1 .. Size /\ k < cur.to THEN Native(k) ELSE was[Datum(k)]
        /\ step = "returned" =>
            /\ cur = Nil \/ cur.conv = 1
            /\ args[1] # Zero => freed = {Native(1)} \cup {Native(k) : k \in 1 .. Size}

(* The strengthening of the four properties that every step keeps.         *)
PointersInv ==
    /\ Passed
    /\ Kept
    /\ StraightInv
    /\ MakesListInv
    /\ MakesArrayInv
    /\ GivenListInv
    /\ GivenArrayInv

----------------------------------------------------------------------------
(* Every place is an argument's, an element's next or its datum.           *)
LEMMA PlaceFacts ==
  /\ \A f \in Field : Arg(f) \in Place
  /\ \A k \in 0 .. Nodes : Next(k) \in Place
  /\ \A k \in 0 .. Nodes + 1 : Datum(k) \in Place
  /\ Zero = Next(0) /\ Zero \in Place
  /\ \A p \in Place :
        \/ \E f \in Field : p = Arg(f)
        \/ \E k \in 0 .. Nodes : p = Next(k)
        \/ \E k \in 0 .. Nodes + 1 : p = Datum(k)
<1>. USE NodesAssumption DEF Place, Elements, Zero
<1>1. \A k \in 0 .. Nodes : k = 0 \/ k \in 1 .. Nodes
  OBVIOUS
<1>2. 0 \in 0 .. Nodes /\ \A k \in 1 .. Nodes : k \in 0 .. Nodes
  OBVIOUS
<1>. QED
  BY <1>1, <1>2

(* Places of different kinds, or with different numbers, are different.    *)
LEMMA PlacesDiffer ==
  /\ \A f, g \in Field : Arg(f) = Arg(g) <=> f = g
  /\ \A i, j \in Nat : Next(i) = Next(j) <=> i = j
  /\ \A i, j \in Nat : Datum(i) = Datum(j) <=> i = j
  /\ \A f \in Field, i \in Nat : Arg(f) # Next(i) /\ Arg(f) # Datum(i)
  /\ \A i, j \in Nat : Next(i) # Datum(j)
<1>1. \A f, g \in Field : Arg(f) = Arg(g) <=> f = g
  BY DEF Arg
<1>2. \A i, j \in Nat : Next(i) = Next(j) <=> i = j
  BY DEF Next
<1>3. \A i, j \in Nat : Datum(i) = Datum(j) <=> i = j
  BY DEF Datum
<1>4. \A f \in Field, i \in Nat : Arg(f) # Next(i) /\ Arg(f) # Datum(i)
  BY DEF Arg, Next, Datum, Field
<1>5. \A i, j \in Nat : Next(i) # Datum(j)
  BY DEF Next, Datum
<1>. QED  BY <1>1, <1>2, <1>3, <1>4, <1>5

(* The application's pointers, the native ones and NULL, and what a        *)
(* conversion makes of each.                                               *)
LEMMA PointerFacts ==
  /\ Nil = App(0) /\ Base = Native(0)
  /\ \A k \in 0 .. Nodes + 1 :
        /\ App(k) \in Pointer /\ App(k).to = k /\ App(k).conv = 0
        /\ Native(k) \in Pointer /\ Native(k).to = k /\ Native(k).conv = 1
        /\ Native(k) # Nil
        /\ AppToNativeAddr(App(k)) = Native(k)
        /\ NativeToAppAddr(Native(k)) = App(k)
        /\ AppToNativeAddr(Native(k)) \in Pointer
        /\ AppToNativeAddr(Native(k)) # Nil
        /\ NativeToAppAddr(AppToNativeAddr(Native(k))) = Native(k)
        /\ NativeToAppAddr(App(k)) \in Pointer
        /\ App(k) = Nil <=> k = 0
  /\ \A i, j \in 0 .. Nodes + 1 : App(i) # Native(j)
  /\ \A i, j \in 0 .. Nodes + 1 : App(i) = App(j) <=> i = j
  /\ \A i, j \in 0 .. Nodes + 1 : Native(i) = Native(j) <=> i = j
  /\ NativeToAppAddr(Nil) = Nil
<1>. USE NodesAssumption DEF Nil, Base
<1>1. \A k \in 0 .. Nodes + 1 :
        /\ App(k) \in Pointer /\ App(k).to = k /\ App(k).conv = 0
        /\ Native(k) \in Pointer /\ Native(k).to = k /\ Native(k).conv = 1
        /\ Native(k) # Nil
        /\ App(k) = Nil <=> k = 0
  BY DEF App, Native, Pointer
<1>2. \A k \in 0 .. Nodes + 1 :
        /\ AppToNativeAddr(App(k)) = Native(k)
        /\ NativeToAppAddr(Native(k)) = App(k)
  BY DEF App, Native, AppToNativeAddr, NativeToAppAddr
<1>3. \A k \in 0 .. Nodes + 1 :
        /\ AppToNativeAddr(Native(k)) = [to |-> k, conv |-> 2]
        /\ NativeToAppAddr([to |-> k, conv |-> 2]) = Native(k)
  BY DEF App, Native, AppToNativeAddr, NativeToAppAddr
<1>4. \A k \in 0 .. Nodes + 1 :
        [to |-> k, conv |-> 2] \in Pointer /\ [to |-> k, conv |-> 2] # Nil
  BY DEF Pointer, App
<1>5. \A k \in 0 .. Nodes + 1 :
        NativeToAppAddr(App(k)) = IF k = 0 THEN Nil ELSE [to |-> k, conv |-> -1]
  BY DEF App, NativeToAppAddr
<1>6. \A k \in 0 .. Nodes + 1 : [to |-> k, conv |-> -1] \in Pointer
  BY DEF Pointer
<1>7. Nil \in Pointer
  BY DEF Pointer, App
<1>8. NativeToAppAddr(Nil) = Nil
  BY DEF NativeToAppAddr
<1>9. \A i, j \in 0 .. Nodes + 1 : App(i) # Native(j)
  BY DEF App, Native
<1>10. \A i, j \in 0 .. Nodes + 1 : (App(i) = App(j) <=> i = j) /\ (Native(i) = Native(j) <=> i = j)
  BY DEF App, Native
<1>11. \A k \in 0 .. Nodes + 1 :
        /\ AppToNativeAddr(Native(k)) \in Pointer
        /\ AppToNativeAddr(Native(k)) # Nil
        /\ NativeToAppAddr(AppToNativeAddr(Native(k))) = Native(k)
  BY <1>3, <1>4, Zenon
<1>12. \A k \in 0 .. Nodes + 1 : NativeToAppAddr(App(k)) \in Pointer
  BY <1>5, <1>6, <1>7, Zenon
<1>13. Nil = App(0) /\ Base = Native(0)
  OBVIOUS
<1>. QED  BY <1>1, <1>2, <1>8, <1>9, <1>10, <1>11, <1>12, <1>13, Zenon

(* The memory an application passes, place by place.                       *)
LEMMA AppMemoryIs ==
  ASSUME NEW n \in 0 .. Nodes, NEW values \in [Field -> {Nil, App(1)}], NEW nulls
  PROVE  LET m == AppMemory(n, values, nulls)
         IN  /\ m \in [Place -> {App(k) : k \in 0 .. Nodes}]
             /\ m[Arg("a")] = IF n > 0 THEN App(n) ELSE values["a"]
             /\ \A f \in {"b", "c", "d"} : m[Arg(f)] = values[f]
             /\ m[Zero] = Nil
             /\ \A k \in 1 .. Nodes : m[Next(k)] = IF k <= n THEN App(k - 1) ELSE Nil
             /\ \A k \in 0 .. Nodes + 1 :
                   m[Datum(k)] = IF k <= n /\ k \notin nulls THEN App(k) ELSE Nil
<1> DEFINE m == AppMemory(n, values, nulls)
<1>. USE NodesAssumption
<1>0. Nil \in {App(k) : k \in 0 .. Nodes} /\ App(1) \in {App(k) : k \in 0 .. Nodes}
  BY DEF Nil
<1>1. m[Arg("a")] = IF n > 0 THEN App(n) ELSE values["a"]
  <2>1. Arg("a") \in Place
    BY PlaceFacts DEF Field
  <2>. QED  BY <2>1 DEF AppMemory, Arg, Field
<1>2. ASSUME NEW f \in {"b", "c", "d"} PROVE m[Arg(f)] = values[f]
  <2>1. Arg(f) \in Place
    BY PlaceFacts DEF Field
  <2>2. f \in Field /\ Arg(f) # Arg("a") /\ Arg(f)[1] = f
    BY DEF Arg, Field
  <2>. QED  BY <2>1, <2>2 DEF AppMemory, Arg, Field
<1>3. m[Zero] = Nil
  BY PlaceFacts DEF AppMemory, Arg, Field, Zero, Next
<1>4. ASSUME NEW k \in 1 .. Nodes PROVE m[Next(k)] = IF k <= n THEN App(k - 1) ELSE Nil
  <2>1. k \in 0 .. Nodes /\ Next(k) = <<"next", k>>
    BY DEF Next
  <2>2. Next(k) \in Place
    BY <2>1, PlaceFacts
  <2>. QED  BY <2>1, <2>2 DEF AppMemory, Field
<1>5. ASSUME NEW k \in 0 .. Nodes + 1
      PROVE  m[Datum(k)] = IF k <= n /\ k \notin nulls THEN App(k) ELSE Nil
  <2>1. Datum(k) = <<"data", k>> /\ Datum(k) \in Place
    BY PlaceFacts DEF Datum
  <2>. QED  BY <2>1 DEF AppMemory, Field
<1>6. m \in [Place -> {App(k) : k \in 0 .. Nodes}]
  <2>1. m = [p \in Place |-> m[p]]
    BY DEF AppMemory
  <2>2. ASSUME NEW p \in Place PROVE m[p] \in {App(k) : k \in 0 .. Nodes}
    <3> HIDE DEF m
    <3>1. CASE \E f \in Field : p = Arg(f)
      <4>1. PICK f \in Field : p = Arg(f)
        BY <3>1
      <4>2. values[f] \in {Nil, App(1)} /\ (f = "a" \/ f \in {"b", "c", "d"})
        BY DEF Field
      <4>. QED  BY <1>0, <1>1, <1>2, <4>1, <4>2
    <3>2. CASE \E k \in 0 .. Nodes : p = Next(k)
      <4>1. PICK k \in 0 .. Nodes : p = Next(k)
        BY <3>2
      <4>2. CASE k = 0
        BY <1>0, <1>3, <4>1, <4>2, PlaceFacts
      <4>3. CASE k \in 1 .. Nodes
        <5>1. k - 1 \in 0 .. Nodes
          BY <4>3
        <5>. QED  BY <1>0, <1>4, <4>1, <4>3, <5>1, Zenon
      <4>. QED  BY <4>2, <4>3
    <3>3. CASE \E k \in 0 .. Nodes + 1 : p = Datum(k)
      <4>1. PICK k \in 0 .. Nodes + 1 : p = Datum(k)
        BY <3>3
      <4>2. k <= n => k \in 0 .. Nodes
        OBVIOUS
      <4>. QED  BY <1>0, <1>5, <4>1, <4>2, Zenon
    <3>. QED  BY <3>1, <3>2, <3>3, PlaceFacts
  <2> HIDE DEF m
  <2>. QED  BY <2>1, <2>2
<1>. QED  BY <1>1, <1>2, <1>3, <1>4, <1>5, <1>6

(* All natives of the model.                                               *)
Natives == ListNatives \cup ArrayNatives \cup WconfigNatives \cup CellNatives

(* A call of one native function, with what its documentation lets an      *)
(* application pass, starts in the invariant.                              *)
LEMMA StartInv ==
  ASSUME NEW n \in Natives, NEW k \in 0 .. Nodes,
         NEW values \in [Field -> {Nil, App(1)}], NEW nulls,
         NEW first \in {Arg("a"), Zero}, NEW second \in {Arg("a"), Arg("b"), Zero},
         k > 0 => n \in ListNatives \cup ArrayNatives,
         nulls # {} => n \in Messages,
         first = Zero => n \in MayBeNull /\ k = 0,
         n \in ListNatives \cup ArrayNatives => values["a"] = Nil,
         first = second => n \in {"iconv", "versionsort", "ioctl"},
         second = Zero => n = "ioctl",
         n \in NeedNonNull => k = 0 /\ values["a"] # Nil,
         n = "freeifaddrs" /\ k = 0 => first = Zero,
         PointerStart(n, k, values, nulls, first, second)
  PROVE  PointersInv
<1>. USE NodesAssumption
<1>1. /\ native = n /\ count = k /\ args = <<first, second>>
      /\ mem = AppMemory(k, values, nulls) /\ was = mem
      /\ lens \in [{"b", "c"} -> BOOLEAN]
      /\ cur = Nil /\ step = "called" /\ ok = TRUE /\ freed = {}
  BY DEF PointerStart
<1>2. /\ was \in [Place -> {App(i) : i \in 0 .. Nodes}]
      /\ was[Arg("a")] = IF k > 0 THEN App(k) ELSE values["a"]
      /\ was[Zero] = Nil
      /\ \A i \in 1 .. Nodes : was[Next(i)] = IF i <= k THEN App(i - 1) ELSE Nil
      /\ \A i \in 0 .. Nodes + 1 : was[Datum(i)] = IF i <= k /\ i \notin nulls THEN App(i) ELSE Nil
  BY <1>1, AppMemoryIs
<1>3. Nil = App(0) /\ \A i \in 0 .. Nodes : App(i).to = i /\ App(i) \in Pointer
  BY PointerFacts
<1>4. was[Datum(0)] = Nil
  BY <1>2, <1>3
<1>5. n \in GivenLists => was[Arg("a")] = App(k) /\ Size = k /\ nulls = {}
  BY <1>2, <1>3 DEF GivenLists, Size, ListNatives, ArrayNatives, Messages
<1>6. n \in CellNatives => k = 0
  BY DEF CellNatives, ListNatives, ArrayNatives
<1>7. \A i \in 1 .. Nodes + 1 : n \in GivenLists => was[Datum(i)] = IF i <= k THEN App(i) ELSE Nil
  BY <1>2, <1>5
<1>8. n \in CellNatives => /\ \A i \in 1 .. Nodes : was[Next(i)] = Nil
                           /\ \A i \in 1 .. Nodes + 1 : was[Datum(i)] = Nil
  BY <1>2, <1>6
<1>9. Passed
  <2>1. native \in GivenLists =>
           /\ Size \in 0 .. Nodes /\ was[Arg("a")] = App(Size)
           /\ args[1] = Zero => Size = 0
           /\ \A i \in 1 .. Nodes : was[Next(i)] = IF i <= Size THEN App(i - 1) ELSE Nil
           /\ \A i \in 1 .. Nodes + 1 : was[Datum(i)] = IF i <= Size THEN App(i) ELSE Nil
    BY <1>1, <1>2, <1>5, <1>7, Zenon
  <2>2. native = "freeifaddrs" /\ Size = 0 => args[1] = Zero
    BY <1>1, <1>5 DEF GivenLists, ListNatives
  <2>3. args = <<first, second>> /\ args[1] = first /\ args[2] = second
    BY <1>1
  <2>4. /\ args[1] = Zero => native \in MayBeNull
        /\ args[1] = args[2] => native \in {"iconv", "versionsort", "ioctl"}
        /\ args[2] = Zero => native = "ioctl"
        /\ native \in NeedNonNull => was[Arg("a")] # Nil
    BY <1>1, <1>2, <2>3
  <2>. QED  BY <1>1, <1>2, <1>4, <1>8, <2>1, <2>2, <2>3, <2>4, Zenon DEF Passed, Natives
<1>10. Kept
  <2>1. was \in [Place -> Pointer]
    BY <1>2, <1>3
  <2>2. Nil \in Pointer
    BY PointerFacts
  <2>. QED  BY <1>1, <1>2, <1>4, <1>5, <2>1, <2>2 DEF Kept, Quiet, AppSeesApp, NullLeftAlone
<1>. QED
  BY <1>1, <1>9, <1>10 DEF PointersInv, StraightInv, MakesListInv, MakesArrayInv, GivenListInv,
     GivenArrayInv, Quiet, MakesLists, MakesArrays

(* Every call the model starts with is one of those.                       *)
THEOREM PointerStarts == PointerInit => PointersInv
<1>. USE NodesAssumption
<1>0. NoCells \in [Field -> {Nil, App(1)}] /\ NoCells["a"] = Nil
  BY DEF NoCells, Field
<1>1. Arg("a") # Arg("b") /\ Zero # Arg("a") /\ Zero # Arg("b")
  BY PlacesDiffer, PlaceFacts DEF Field
<1>2. ASSUME NEW n \in ListNatives \cup ArrayNatives, NEW k \in 0 .. Nodes,
             \E nulls \in SUBSET (1 .. k), b, c \in {Nil, App(1)}, first \in {Arg("a"), Zero} :
                /\ nulls # {} => n \in {"sendmsg", "recvmsg"}
                /\ (b # Nil \/ c # Nil) => n \in {"sendmsg", "recvmsg"}
                /\ first = Zero => n \in MayBeNull /\ k = 0
                /\ n = "freeifaddrs" /\ k = 0 => first = Zero
                /\ PointerStart(n, k, [NoCells EXCEPT !["b"] = b, !["c"] = c], nulls,
                                first, Arg("b"))
      PROVE  PointersInv
  <2>1. PICK nulls \in SUBSET (1 .. k), b \in {Nil, App(1)}, c \in {Nil, App(1)},
             first \in {Arg("a"), Zero} :
                /\ nulls # {} => n \in {"sendmsg", "recvmsg"}
                /\ first = Zero => n \in MayBeNull /\ k = 0
                /\ n = "freeifaddrs" /\ k = 0 => first = Zero
                /\ PointerStart(n, k, [NoCells EXCEPT !["b"] = b, !["c"] = c], nulls,
                                first, Arg("b"))
    BY <1>2, Zenon
  <2> DEFINE values == [NoCells EXCEPT !["b"] = b, !["c"] = c]
  <2>2. values \in [Field -> {Nil, App(1)}] /\ values["a"] = Nil
    BY <1>0 DEF Field
  <2>3. first # Arg("b") /\ n \in Natives /\ n \notin NeedNonNull
    BY <1>1 DEF Natives, NeedNonNull, ListNatives, ArrayNatives
  <2>4. PointerStart(n, k, values, nulls, first, Arg("b"))
    BY <2>1
  <2> HIDE DEF values
  <2>. QED  BY <1>1, <2>1, <2>2, <2>3, <2>4, StartInv DEF Messages
<1>3. ASSUME NEW n \in WconfigNatives, NEW values \in [Field -> {Nil, App(1)}],
             NEW first \in {Arg("a"), Zero},
             PointerStart(n, 0, values, {}, first, Arg("b"))
      PROVE  PointersInv
  <2>1. first # Arg("b") /\ n \in Natives /\ n \in MayBeNull /\ n \notin NeedNonNull
    BY <1>1 DEF Natives, MayBeNull, NeedNonNull, WconfigNatives
  <2>2. n \notin ListNatives \cup ArrayNatives /\ n # "freeifaddrs"
    BY DEF ListNatives, ArrayNatives, WconfigNatives
  <2>. QED  BY <1>1, <1>3, <2>1, <2>2, StartInv
<1>4. ASSUME \E n \in CellNatives, a, b \in {Nil, App(1)}, first \in {Arg("a"), Zero},
                second \in {Arg("a"), Arg("b"), Zero} :
                /\ first = Zero => n \in MayBeNull
                /\ Nil \in {a, b} => n \notin NeedNonNull
                /\ second = Arg("a") => n \in {"iconv", "versionsort", "ioctl"}
                /\ second = Zero => n = "ioctl"
                /\ PointerStart(n, 0, [NoCells EXCEPT !["a"] = a, !["b"] = b], {}, first, second)
      PROVE  PointersInv
  <2>1. PICK n \in CellNatives, a, b \in {Nil, App(1)}, first \in {Arg("a"), Zero},
             second \in {Arg("a"), Arg("b"), Zero} :
                /\ first = Zero => n \in MayBeNull
                /\ Nil \in {a, b} => n \notin NeedNonNull
                /\ second = Arg("a") => n \in {"iconv", "versionsort", "ioctl"}
                /\ second = Zero => n = "ioctl"
                /\ PointerStart(n, 0, [NoCells EXCEPT !["a"] = a, !["b"] = b], {}, first, second)
    BY <1>4, Zenon
  <2> DEFINE values == [NoCells EXCEPT !["a"] = a, !["b"] = b]
  <2>2. values \in [Field -> {Nil, App(1)}]
    BY <1>0 DEF Field
  <2>6. n \in NeedNonNull => values["a"] # Nil
    BY <1>0, <2>1 DEF Field
  <2>3. (first = second => n \in {"iconv", "versionsort", "ioctl"}) /\ n \in Natives
    BY <1>1, <2>1 DEF Natives
  <2>4. n \notin ListNatives \cup ArrayNatives /\ n # "freeifaddrs"
    BY DEF ListNatives, ArrayNatives, CellNatives
  <2>5. PointerStart(n, 0, values, {}, first, second)
    BY <2>1
  <2> HIDE DEF values
  <2>. QED  BY <2>1, <2>2, <2>3, <2>4, <2>5, <2>6, StartInv
<1>. QED
  BY <1>2, <1>3, <1>4, Zenon DEF PointerInit

(* The arguments point to the first two cells, or are NULL, which is not   *)
(* the place of an element's datum; the second is NULL for ioctl only.     *)
LEMMA ArgPlaces ==
  ASSUME Passed
  PROVE  /\ args[1] \in {Arg("a"), Zero} /\ args[2] \in {Arg("a"), Arg("b"), Zero}
         /\ args[1] \in Place /\ args[2] \in Place
         /\ args[1] # Datum(0) /\ args[2] # Datum(0) /\ (args[2] = Zero => native = "ioctl")
         /\ Arg("a") # Zero /\ Datum(0) # Zero /\ Datum(0) \in Place /\ Zero \in Place
<1>1. PICK first \in {Arg("a"), Zero}, second \in {Arg("a"), Arg("b"), Zero} :
        /\ args = <<first, second>>
        /\ args[2] = Zero => native = "ioctl"
  BY DEF Passed
<1>2. args[1] = first /\ args[2] = second
  BY <1>1
<1>3. "a" \in Field /\ "b" \in Field /\ 0 \in Nat /\ 0 \in 0 .. Nodes + 1
  BY NodesAssumption DEF Field
<1>4. Zero = Next(0)
  BY PlaceFacts
<1>5. /\ Arg("a") # Zero /\ Arg("b") # Zero /\ Zero # Datum(0)
      /\ Arg("a") # Datum(0) /\ Arg("b") # Datum(0)
  BY <1>3, <1>4, PlacesDiffer
<1>6. Arg("a") \in Place /\ Arg("b") \in Place /\ Zero \in Place /\ Datum(0) \in Place
  BY <1>3, PlaceFacts
<1>. QED  BY <1>1, <1>2, <1>5, <1>6

(* The natives, by the shape of their glue.                                *)
LEMMA NativeIsOne ==
  ASSUME Passed
  PROVE  \/ native \in Straight
         \/ native \in MakesLists
         \/ native \in MakesArrays
         \/ native \in ListNatives
         \/ native = "dbus_free_string_array"
BY DEF Passed, Straight, MakesLists, MakesArrays, ListNatives, ArrayNatives, CellNatives,
       WconfigNatives, Messages

(* What the application had in memory were pointers of its own.            *)
LEMMA WasApp ==
  ASSUME Passed
  PROVE  \A p \in Place : /\ was[p] \in Pointer /\ was[p].conv = 0
                          /\ was[p].to \in 0 .. Nodes /\ was[p] = App(was[p].to)
<1>1. ASSUME NEW p \in Place
      PROVE  /\ was[p] \in Pointer /\ was[p].conv = 0
             /\ was[p].to \in 0 .. Nodes /\ was[p] = App(was[p].to)
  <2>1. PICK k \in 0 .. Nodes : was[p] = App(k)
    BY DEF Passed
  <2>2. k \in 0 .. Nodes + 1
    BY NodesAssumption
  <2>. QED  BY <2>1, <2>2, PointerFacts
<1>. QED  BY <1>1

(* In the invariant the loops of the glue follow native pointers: a list's *)
(* by its length, an array's up to the NULL that ends it.                  *)
LEMMA PointersWalkNative ==
  ASSUME PointersInv
  PROVE  WalksNative
<1>. USE NodesAssumption DEF PointersInv
<1>1. /\ step \in {"called", "in", "native", "out", "returned"}
      /\ step = "called" => Quiet
      /\ ok \in BOOLEAN
  BY DEF Kept
<1>2. \A k \in 0 .. Nodes + 1 : Native(k).conv = 1
  BY PointerFacts
<1>3. CASE native \in Straight
  BY <1>3 DEF StraightInv, Quiet, WalksNative
<1>4. CASE native \in MakesLists
  <2>1. CASE step = "out"
    <3>1. count \in 0 .. Nodes
      BY DEF Kept
    <3>2. cur = Nil \/ (\E k \in 1 .. count : cur = Native(k)) \/ ~ok
      BY <1>1, <1>4, <2>1 DEF MakesListInv
    <3>. QED  BY <1>2, <3>1, <3>2 DEF WalksNative
  <2>. QED  BY <1>1, <1>4, <2>1 DEF MakesListInv, Quiet, WalksNative
<1>5. CASE native \in MakesArrays
  <2>1. CASE step \in {"out", "returned"}
    <3>1. count \in 0 .. Nodes
      BY DEF Kept
    <3>2. (\E k \in 1 .. count + 1 : cur = Native(k)) \/ ~ok
      BY <1>1, <1>5, <2>1 DEF MakesArrayInv
    <3>. QED  BY <1>2, <3>1, <3>2 DEF WalksNative
  <2>. QED  BY <1>1, <1>5, <2>1 DEF MakesArrayInv, Quiet, WalksNative
<1>6. CASE native \in ListNatives
  <2>1. Size \in 0 .. Nodes
    BY <1>6 DEF Passed, GivenLists
  <2>2. CASE step \in {"in", "native", "out"}
    <3>1. cur = Nil \/ (\E k \in 0 .. Nodes : cur = Native(k))
      BY <1>6, <2>1, <2>2 DEF GivenListInv
    <3>. QED  BY <1>2, <3>1 DEF WalksNative
  <2>. QED  BY <1>1, <1>6, <2>2 DEF GivenListInv, Quiet, WalksNative
<1>7. CASE native = "dbus_free_string_array"
  <2>1. Size \in 0 .. Nodes
    BY <1>7 DEF Passed, GivenLists
  <2>2. CASE step \in {"in", "native"}
    <3>1. \E k \in 0 .. Size + 1 : cur = Native(k)
      BY <1>7, <2>2 DEF GivenArrayInv
    <3>. QED  BY <1>2, <2>1, <3>1 DEF WalksNative
  <2>. QED  BY <1>1, <1>7, <2>2 DEF GivenArrayInv, Quiet, WalksNative
<1>. QED  BY <1>3, <1>4, <1>5, <1>6, <1>7, NativeIsOne

(* In the invariant the native function finds each pointer it follows      *)
(* converted exactly once: it says of every place what was done to it.     *)
LEMMA PointersConverted ==
  ASSUME PointersInv
  PROVE  ConvertedOnce
<1>. USE NodesAssumption DEF PointersInv
<1>1. SUFFICES ASSUME step = "native", NEW p \in Reads,
                      native \in {"iconv", "versionsort"} => args[1] # args[2]
               PROVE  IF was[p] # Nil THEN mem[p] \in {Native(was[p].to), Native(1)}
                      ELSE mem[p] = Nil \/ native \in BlindToNull \cup {"wapi_load_config"}
  BY DEF ConvertedOnce
<1>2. /\ Nil = App(0)
      /\ \A k \in 0 .. Nodes : AppToNativeAddr(App(k)) = Native(k)
      /\ \A k \in 0 .. Nodes : App(k).to = k
      /\ \A k \in 0 .. Nodes : App(k) = Nil <=> k = 0
  BY PointerFacts
<1>3. \A q \in Place : AppToNativeAddr(was[q]) = Native(was[q].to)
  BY <1>2, WasApp
<1>4. /\ \A f \in Field : Arg(f) \in Place
      /\ \A k \in 1 .. Nodes : Next(k) \in Place
      /\ \A k \in 1 .. Nodes + 1 : Datum(k) \in Place
      /\ "a" \in Field /\ "b" \in Field /\ "c" \in Field
  BY PlaceFacts DEF Field
<1>5. args[1] \in Place /\ args[2] \in Place
  BY ArgPlaces
<1>6. CASE native \in {"iconv", "versionsort"}
  <2>1. p \in {args[1], args[2]} /\ native \in BlindToNull
    BY <1>1, <1>6 DEF Reads, BlindToNull, WconfigNatives, ListNatives
  <2>2. mem = AppToNativeAddrs(AppToNativeAddrs(was, {args[1]}), {args[2]})
    BY <1>1, <1>6 DEF StraightInv, Straight
  <2>3. mem[p] = AppToNativeAddr(was[p])
    BY <1>1, <1>5, <1>6, <2>1, <2>2 DEF AppToNativeAddrs
  <2>. QED  BY <1>3, <1>5, <2>1, <2>3
<1>7. CASE native \in {"wapi_unload_config", "dbus_message_iter_append_basic"}
  <2>1. p = args[1]
    BY <1>1, <1>7 DEF Reads, WconfigNatives, ListNatives
  <2>2. mem = AppToNativeAddrs(was, {args[1]})
    BY <1>1, <1>7 DEF StraightInv, Straight, Converted
  <2>3. mem[p] = Native(was[p].to)
    BY <1>3, <1>5, <2>1, <2>2 DEF AppToNativeAddrs
  <2>4. was[p] # Nil \/ native \in BlindToNull
    <3>1. CASE native = "dbus_message_iter_append_basic"
      BY <2>1, <3>1, ArgPlaces DEF Passed, NeedNonNull, MayBeNull, ListNatives, WconfigNatives
    <3>2. CASE native = "wapi_unload_config"
      BY <3>2 DEF BlindToNull
    <3>. QED  BY <1>7, <3>1, <3>2
  <2>. QED  BY <2>3, <2>4
<1>8. CASE native = "ioctl"
  <2>1. p = args[1]
    BY <1>1, <1>8 DEF Reads, WconfigNatives, ListNatives
  <2>2. mem = AppToNativeAddrs(was, {q \in {args[1]} : was[q] # Nil})
    BY <1>1, <1>8 DEF StraightInv, Straight, Converted
  <2>3. mem[p] = IF was[p] # Nil THEN Native(was[p].to) ELSE Nil
    BY <1>3, <1>5, <2>1, <2>2 DEF AppToNativeAddrs
  <2>. QED  BY <2>3
<1>9. CASE native \in WconfigNatives
  <2>1. p \in WconfigPtrs /\ p \in Place
    BY <1>1, <1>4, <1>9 DEF Reads, WconfigPtrs, WconfigNatives, ListNatives
  <2>2. CASE mem = AppToNativeAddrs(was, {q \in WconfigPtrs : was[q] # Nil})
    <3>1. mem[p] = IF was[p] # Nil THEN Native(was[p].to) ELSE Nil
      BY <1>3, <2>1, <2>2 DEF AppToNativeAddrs
    <3>. QED  BY <3>1
  <2>3. CASE /\ native = "wapi_load_config"
             /\ mem = [q \in Place |-> IF q \in WconfigPtrs THEN Native(1) ELSE was[q]]
    BY <2>1, <2>3
  <2>. QED  BY <1>1, <1>9, <2>2, <2>3 DEF StraightInv, Straight, Converted
<1>10. CASE native \in Messages
  <2>1. MessageConverted /\ native \in BlindToNull
    BY <1>1, <1>10 DEF StraightInv, Straight, BlindToNull, Messages
  <2>2. p \in {Arg("a")} \cup {Datum(k) : k \in 1 .. count}
                \cup {Arg(f) : f \in {g \in {"b", "c"} : lens[g]}}
    BY <1>1, <1>10 DEF Reads, Messages, WconfigNatives, ListNatives
  <2>3. CASE p = Arg("a")
    BY <1>3, <1>4, <2>1, <2>3 DEF MessageConverted
  <2>4. CASE \E k \in 1 .. count : p = Datum(k)
    <3>1. PICK k \in 1 .. count : p = Datum(k)
      BY <2>4
    <3>2. k \in 1 .. Nodes + 1 /\ k \in 0 .. Nodes + 1
      BY DEF Kept
    <3>. QED  BY <1>3, <1>4, <2>1, <3>1, <3>2 DEF MessageConverted
  <2>5. CASE \E f \in {"b", "c"} : lens[f] /\ p = Arg(f)
    <3>1. PICK f \in {"b", "c"} : lens[f] /\ p = Arg(f)
      BY <2>5
    <3>2. mem[p] = IF was[p] = Nil THEN Nil ELSE AppToNativeAddr(was[p])
      BY <2>1, <3>1 DEF MessageConverted
    <3>3. p \in Place
      BY <1>4, <3>1
    <3>. QED  BY <1>3, <3>2, <3>3
  <2>. QED  BY <2>2, <2>3, <2>4, <2>5
<1>11. CASE native = "dbus_free_string_array"
  <2>1. PICK k \in 1 .. Nodes + 1 : p = Datum(k)
    BY <1>1, <1>11 DEF Reads, WconfigNatives, ListNatives
  <2>2. /\ Size \in 0 .. Nodes /\ (args[1] = Zero => Size = 0)
        /\ was[p] = IF k <= Size THEN App(k) ELSE Nil
    BY <1>11, <2>1 DEF Passed, GivenLists
  <2>3. /\ cur.to = 0 \/ cur.to = Size + 1
        /\ cur.to = 0 <=> args[1] = Zero
        /\ mem[p] = IF k \in 1 .. Size /\ k < cur.to THEN Native(k) ELSE was[p]
    BY <1>1, <1>11, <2>1 DEF GivenArrayInv
  <2>4. mem[p] = IF k <= Size THEN Native(k) ELSE Nil
    BY <2>2, <2>3
  <2>. QED  BY <1>2, <2>2, <2>4
<1>12. CASE native \in ListNatives
  <2>1. Size \in 0 .. Nodes
    BY <1>12 DEF Passed, GivenLists
  <2>2. CASE p = Arg("a") /\ native = "wapi_scan_coll"
    <3>1. was[p] = App(Size) /\ mem[p] = Native(Size)
      BY <1>1, <1>12, <2>2 DEF Passed, GivenLists, GivenListInv
    <3>. QED  BY <1>2, <2>1, <2>2, <3>1 DEF BlindToNull
  <2>3. CASE \E k \in 1 .. Nodes : p = Next(k)
    <3>1. PICK k \in 1 .. Nodes : p = Next(k)
      BY <2>3
    <3>2. was[p] = IF k <= Size THEN App(k - 1) ELSE Nil
      BY <1>12, <3>1 DEF Passed, GivenLists
    <3>3. mem[p] = IF k \in 2 .. Size THEN Native(k - 1) ELSE Nil
      BY <1>1, <1>12, <3>1 DEF GivenListInv
    <3>4. k - 1 \in 0 .. Nodes
      OBVIOUS
    <3>5. CASE k \in 2 .. Size
      <4>1. was[p] = App(k - 1) /\ App(k - 1).to = k - 1 /\ mem[p] = Native(k - 1)
        BY <1>2, <3>2, <3>3, <3>4, <3>5, <2>1
      <4>2. was[p] # Nil
        BY <1>2, <3>4, <3>5, <4>1
      <4>. QED  BY <4>1, <4>2
    <3>6. CASE k \notin 2 .. Size
      <4>1. k > Size \/ k = 1
        BY <2>1, <3>6
      <4>. QED  BY <1>2, <3>2, <3>3, <3>6, <4>1, <2>1
    <3>. QED  BY <3>5, <3>6
  <2>4. native \notin {"iconv", "versionsort", "ioctl", "wapi_unload_config",
            "dbus_message_iter_append_basic", "sendmsg", "recvmsg", "dbus_free_string_array"}
            \cup WconfigNatives
    BY <1>12 DEF ListNatives, WconfigNatives
  <2>. QED  BY <1>1, <1>12, <2>2, <2>3, <2>4 DEF Reads, WconfigNatives, ListNatives
<1>13. CASE native \in MakesLists \cup MakesArrays \cup
              {"strtol", "strtod", "dbus_connection_get_object_path_data"}
  BY <1>1, <1>13 DEF Reads, MakesLists, MakesArrays, WconfigNatives, ListNatives
<1>. QED
  BY <1>6, <1>7, <1>8, <1>9, <1>10, <1>11, <1>12, <1>13, NativeIsOne DEF Straight

(* In the invariant what has been freed is what was given, and for         *)
(* wapi_scan_coll_free its last element.                                   *)
LEMMA PointersFreed ==
  ASSUME PointersInv
  PROVE  FreesWhatItIsGiven
<1>. USE NodesAssumption DEF PointersInv
<1>1. SUFFICES ASSUME freed # {}, args[1] # Zero, native \in ListNatives => count > 0
               PROVE  /\ freed \subseteq {Native(k) : k \in 1 .. Nodes}
                      /\ \A k \in 1 .. count :
                            Native(k) \in freed \/ native = "wapi_scan_coll_free"
  BY DEF FreesWhatItIsGiven
<1>2. step \in {"called", "in", "native", "out", "returned"} /\ (step = "called" => freed = {})
  BY DEF Kept, Quiet
<1>3. CASE native \in ListNatives
  <2>1. step = "returned" /\ native \in {"freeifaddrs", "wapi_scan_coll_free"}
    BY <1>1, <1>2, <1>3 DEF GivenListInv, ListNatives
  <2>2. count = Size /\ Size \in 1 .. Nodes
    BY <1>1, <1>3, <2>1 DEF Kept, Passed, GivenLists
  <2>3. CASE native = "freeifaddrs"
    <3>1. freed = {Native(Size)} \cup {Native(k) : k \in 1 .. Size}
      BY <1>1, <1>3, <2>1, <2>3 DEF GivenListInv
    <3>. QED  BY <2>2, <3>1
  <2>4. CASE native = "wapi_scan_coll_free"
    <3>1. freed = {Native(1)}
      BY <1>1, <1>3, <2>1, <2>2, <2>4 DEF GivenListInv
    <3>. QED  BY <2>2, <2>4, <3>1
  <2>. QED  BY <2>1, <2>3, <2>4
<1>4. CASE native = "dbus_free_string_array"
  <2>1. step = "returned"
    BY <1>1, <1>2, <1>4 DEF GivenArrayInv
  <2>2. freed = {Native(1)} \cup {Native(k) : k \in 1 .. Size}
    BY <1>1, <1>4, <2>1 DEF GivenArrayInv
  <2>3. count = Size /\ Size \in 0 .. Nodes
    BY <1>4 DEF Kept, Passed, GivenLists
  <2>. QED  BY <2>2, <2>3
<1>. QED
  BY <1>1, <1>3, <1>4, NativeIsOne DEF StraightInv, MakesListInv, MakesArrayInv, Quiet

----------------------------------------------------------------------------
(* No step changes what has been passed.                                   *)
LEMMA PassedStays ==
  ASSUME Passed, UNCHANGED pointerArgs
  PROVE  Passed'
BY DEF Passed, Size, pointerArgs

(* Nor does anything change when nothing happens.                          *)
LEMMA PointersStutter ==
  ASSUME PointersInv, UNCHANGED pointerVars
  PROVE  PointersInv'
<1>1. /\ UNCHANGED pointerArgs
      /\ native' = native /\ args' = args /\ was' = was /\ count' = count /\ lens' = lens
      /\ mem' = mem /\ cur' = cur /\ step' = step /\ ok' = ok /\ freed' = freed
  BY DEF pointerVars, pointerArgs
<1>2. Passed'
  BY <1>1, PassedStays DEF PointersInv
<1>3. Kept'
  BY <1>1 DEF PointersInv, Kept, Quiet, AppSeesApp, NullLeftAlone, Unreliable, Size
<1>4. StraightInv'
  BY <1>1 DEF PointersInv, StraightInv, Quiet, Converted, MessageConverted
<1>5. MakesListInv' /\ MakesArrayInv'
  BY <1>1 DEF PointersInv, MakesListInv, MakesArrayInv, Quiet
<1>6. GivenListInv' /\ GivenArrayInv'
  BY <1>1 DEF PointersInv, GivenListInv, GivenArrayInv, Size
<1>. QED  BY <1>2, <1>3, <1>4, <1>5, <1>6 DEF PointersInv

(* A native's glue has one shape, so the invariants of the other shapes    *)
(* say nothing of it.                                                      *)
LEMMA NativesApart ==
  /\ \A n \in Straight : /\ n \notin MakesLists /\ n \notin MakesArrays
                          /\ n \notin ListNatives /\ n # "dbus_free_string_array"
                          /\ n \notin GivenLists
  /\ \A n \in MakesLists : /\ n \notin Straight /\ n \notin MakesArrays
                          /\ n \notin ListNatives /\ n # "dbus_free_string_array"
                          /\ n \notin GivenLists
  /\ \A n \in MakesArrays : /\ n \notin Straight /\ n \notin MakesLists
                          /\ n \notin ListNatives /\ n # "dbus_free_string_array"
                          /\ n \notin GivenLists
  /\ \A n \in ListNatives : /\ n \notin Straight /\ n \notin MakesLists
                          /\ n \notin MakesArrays /\ n # "dbus_free_string_array"
                          /\ n \in GivenLists
  /\ /\ "dbus_free_string_array" \notin Straight
     /\ "dbus_free_string_array" \notin MakesLists
     /\ "dbus_free_string_array" \notin MakesArrays
     /\ "dbus_free_string_array" \notin ListNatives
     /\ "dbus_free_string_array" \in GivenLists
BY DEF Straight, MakesLists, MakesArrays, ListNatives, WconfigNatives, Messages, GivenLists

(* What a conversion does to a pointer in memory.                          *)
LEMMA ConversionFacts ==
  /\ \A p \in Pointer : p.conv = 0 => /\ AppToNativeAddr(p) \in Pointer
                                      /\ AppToNativeAddr(p).conv = 1
                                      /\ AppToNativeAddr(p) # Nil
                                      /\ NativeToAppAddr(AppToNativeAddr(p)) = p
                                      /\ NativeToAppAddr(p) \in Pointer
  /\ \A p \in Pointer : p.conv = 1 => /\ AppToNativeAddr(p) \in Pointer
                                      /\ NativeToAppAddr(p) \in Pointer
                                      /\ NativeToAppAddr(p).conv = 0
                                      /\ NativeToAppAddr(AppToNativeAddr(p)) = p
  /\ NativeToAppAddr(Nil) = Nil
  /\ Nil \in Pointer /\ Nil.conv = 0
<1>. USE NodesAssumption
<1>1. \A p \in Pointer : p.conv = 0 => \E k \in 0 .. Nodes + 1 : p = App(k)
  BY DEF Pointer, App
<1>2. \A p \in Pointer : p.conv = 1 => \E k \in 0 .. Nodes + 1 : p = Native(k)
  BY DEF Pointer, Native
<1>3. 0 \in 0 .. Nodes + 1
  OBVIOUS
<1>. QED  BY <1>1, <1>2, <1>3, PointerFacts

(* A native without a loop begins: what is left to show is what it         *)
(* converts.                                                               *)
LEMMA StraightBegins ==
  ASSUME PointersInv, native \in Straight, step' = "native", step = "called",
         UNCHANGED <<pointerArgs, count, lens, cur, ok, freed>>,
         mem' \in [Place -> Pointer],
         NullLeftAlone', StraightInv'
  PROVE  PointersInv'
<1>1. /\ UNCHANGED pointerArgs
      /\ native' = native /\ args' = args /\ was' = was /\ count' = count /\ lens' = lens
      /\ cur' = cur /\ ok' = ok /\ freed' = freed
  BY DEF pointerArgs
<1>2. Passed'
  BY <1>1, PassedStays DEF PointersInv
<1>3. Kept'
  BY <1>1, NativesApart DEF PointersInv, Kept, AppSeesApp
<1>. QED
  BY <1>1, <1>2, <1>3, NativesApart DEF PointersInv, MakesListInv, MakesArrayInv, GivenListInv, GivenArrayInv

(* A native without a loop returns: what is left to show is that the       *)
(* pointers are the application's again.                                   *)
LEMMA StraightReturns ==
  ASSUME PointersInv, native \in Straight, step' = "returned", step \in {"called", "native"},
         UNCHANGED <<pointerArgs, count, lens, cur, ok, freed>>,
         mem' \in [Place -> Pointer],
         \A p \in Place \ Unreliable' : mem'[p].conv = 0,
         NullLeftAlone'
  PROVE  PointersInv'
<1>1. /\ UNCHANGED pointerArgs
      /\ native' = native /\ args' = args /\ was' = was /\ count' = count /\ lens' = lens
      /\ cur' = cur /\ ok' = ok /\ freed' = freed
  BY DEF pointerArgs
<1>2. Passed'
  BY <1>1, PassedStays DEF PointersInv
<1>3. Kept'
  BY <1>1, NativesApart DEF PointersInv, Kept, AppSeesApp
<1>4. StraightInv'
  BY <1>1 DEF PointersInv, StraightInv, Quiet
<1>. QED
  BY <1>1, <1>2, <1>3, <1>4, NativesApart DEF PointersInv, MakesListInv, MakesArrayInv, GivenListInv, GivenArrayInv

(* The memory of the application is as it was, but for a cell perhaps.     *)
LEMMA StraightRestores ==
  ASSUME PointersInv, native \in Straight, step' = "returned", step \in {"called", "native"},
         UNCHANGED <<pointerArgs, count, lens, cur, ok, freed>>,
         NEW S \in SUBSET {Arg(f) : f \in Field}, NEW q \in {Nil, App(1)},
         mem' = [p \in Place |-> IF p \in S THEN q ELSE was[p]]
  PROVE  PointersInv'
<1>. USE NodesAssumption
<1>1. App(1) \in Pointer /\ App(1).conv = 0 /\ Nil \in Pointer /\ Nil.conv = 0
  BY PointerFacts, ConversionFacts
<1>2. \A p \in Place : was[p] \in Pointer /\ was[p].conv = 0
  BY WasApp DEF PointersInv
<1>3. mem' \in [Place -> Pointer] /\ \A p \in Place : mem'[p].conv = 0
  BY <1>1, <1>2
<1>4. Zero \notin S /\ Datum(0) \notin S
  BY PlaceFacts, PlacesDiffer
<1>5. mem'[Zero] = Nil /\ mem'[Datum(0)] = Nil
  BY <1>4, ArgPlaces DEF PointersInv, Passed
<1>. QED  BY <1>3, <1>5, StraightReturns DEF NullLeftAlone

(* The application's memory, from the invariant.                           *)
LEMMA WasFacts ==
  ASSUME PointersInv
  PROVE  /\ was \in [Place -> Pointer]
         /\ \A p \in Place : was[p] \in Pointer /\ was[p].conv = 0
         /\ was[Zero] = Nil /\ was[Datum(0)] = Nil
BY WasApp DEF PointersInv, Passed

(* The memory of the application is as it was.                             *)
LEMMA StraightRestoresAll ==
  ASSUME PointersInv, native \in Straight, step' = "returned", step \in {"called", "native"},
         UNCHANGED <<pointerArgs, count, lens, cur, ok, freed>>,
         mem' = was
  PROVE  PointersInv'
<1>1. mem' \in [Place -> Pointer] /\ \A p \in Place : mem'[p].conv = 0
  BY WasFacts
<1>2. mem'[Zero] = Nil /\ mem'[Datum(0)] = Nil
  BY WasFacts
<1>. QED  BY <1>1, <1>2, StraightReturns DEF NullLeftAlone

(* What has been converted is turned back.                                 *)
LEMMA TurnsBack ==
  ASSUME PointersInv, NEW S
  PROVE  /\ NativeToAppAddrs(AppToNativeAddrs(was, S), S) = was
         /\ AppToNativeAddrs(was, S) \in [Place -> Pointer]
         /\ \A p \in Place : AppToNativeAddrs(was, S)[p] # Nil <=> was[p] # Nil \/ p \in S
         /\ Zero \notin S => AppToNativeAddrs(was, S)[Zero] = Nil
         /\ Datum(0) \notin S => AppToNativeAddrs(was, S)[Datum(0)] = Nil
<1>1. \A p \in Place : /\ was[p] \in Pointer /\ was[p].conv = 0
                       /\ AppToNativeAddr(was[p]) \in Pointer
                       /\ AppToNativeAddr(was[p]) # Nil
                       /\ NativeToAppAddr(AppToNativeAddr(was[p])) = was[p]
  BY WasFacts, ConversionFacts
<1>2. \A p \in Place : AppToNativeAddrs(was, S)[p] = IF p \in S THEN AppToNativeAddr(was[p]) ELSE was[p]
  BY DEF AppToNativeAddrs
<1>3. AppToNativeAddrs(was, S) = [p \in Place |-> AppToNativeAddrs(was, S)[p]]
  BY DEF AppToNativeAddrs
<1>4. was[Zero] = Nil /\ was[Datum(0)] = Nil /\ Zero \in Place /\ Datum(0) \in Place
  BY WasFacts, ArgPlaces DEF PointersInv
<1>5. AppToNativeAddrs(was, S) \in [Place -> Pointer]
  BY <1>1, <1>2, <1>3
<1>6. was = [p \in Place |-> was[p]]
  BY WasFacts
<1>7. NativeToAppAddrs(AppToNativeAddrs(was, S), S) = was
  BY <1>1, <1>2, <1>6 DEF NativeToAppAddrs
<1>. QED  BY <1>1, <1>2, <1>4, <1>5, <1>7

(* One cell, which is converted whatever it holds.                         *)
LEMMA OneCellBegins ==
  ASSUME PointersInv, GlueBegins(native, {args[1]}),
         native \in {"strtol", "dbus_connection_get_object_path_data",
                     "dbus_message_iter_append_basic", "wapi_unload_config"},
         args[1] = Zero => native = "strtol"
  PROVE  PointersInv'
<1>1. /\ step = "called" /\ step' = "native" /\ mem = was
      /\ mem' = AppToNativeAddrs(was, {args[1]})
      /\ UNCHANGED <<pointerArgs, count, lens, cur, ok, freed>>
      /\ native' = native /\ args' = args /\ was' = was
  BY DEF GlueBegins, Go, PointersInv, Kept, pointerArgs
<1>2. mem' \in [Place -> Pointer]
  BY <1>1, WasFacts, ConversionFacts DEF AppToNativeAddrs
<1>3. NullLeftAlone'
  BY <1>1, ArgPlaces, WasFacts DEF PointersInv, NullLeftAlone, AppToNativeAddrs
<1>4. native \in Straight
  BY DEF Straight
<1>5. StraightInv'
  <2>1. native \notin WconfigNatives \cup Messages \cup {"strtod", "iconv", "versionsort", "ioctl"}
    BY DEF WconfigNatives, Messages
  <2>. QED
    BY <1>1, <1>4, <2>1 DEF StraightInv, PointersInv, Quiet, Converted
<1>. QED  BY <1>1, <1>2, <1>3, <1>4, <1>5, StraightBegins

(* The cell is turned back.                                                *)
LEMMA OneCellEnds ==
  ASSUME PointersInv, GlueEnds(native, {args[1]}),
         native \in {"dbus_message_iter_append_basic", "wapi_unload_config"}
  PROVE  PointersInv'
<1>1. /\ step = "native" /\ step' = "returned"
      /\ mem' = NativeToAppAddrs(mem, {args[1]})
      /\ UNCHANGED <<pointerArgs, count, lens, cur, ok, freed>>
  BY DEF GlueEnds, Go
<1>2. native \in Straight
  BY DEF Straight
<1>3. mem = AppToNativeAddrs(was, {args[1]})
  BY <1>1, <1>2 DEF PointersInv, StraightInv, Converted
<1>4. mem' = was
  BY <1>1, <1>3, TurnsBack
<1>. QED  BY <1>1, <1>2, <1>4, StraightRestoresAll

(* A native function that stores p in its cell.                            *)
LEMMA CellStored ==
  ASSUME PointersInv, NEW p \in {Nil, Native(1)}, Stored(native, args[1], p),
         native \in {"strtol", "strtod", "dbus_connection_get_object_path_data"},
         args[1] = Zero => native = "strtol"
  PROVE  PointersInv'
<1>. USE NodesAssumption
<1>1. /\ step = "native" /\ step' = "returned"
      /\ mem' = [mem EXCEPT ![args[1]] = NativeToAppAddr(p)]
      /\ UNCHANGED <<pointerArgs, count, lens, cur, ok, freed>>
  BY DEF Stored, Go
<1>2. native \in Straight
  BY DEF Straight
<1>3. mem = was \/ mem = AppToNativeAddrs(was, {args[1]})
  BY <1>1, <1>2 DEF PointersInv, StraightInv, Converted
<1>4. NativeToAppAddr(p) \in {Nil, App(1)}
  BY PointerFacts
<1>5. mem' = [q \in Place |-> IF q = args[1] THEN NativeToAppAddr(p) ELSE was[q]]
  BY <1>1, <1>3, WasFacts, ArgPlaces DEF AppToNativeAddrs, PointersInv
<1>6. mem' \in [Place -> Pointer] /\ \A q \in Place : mem'[q].conv = 0
  <2>1. App(1) \in Pointer /\ App(1).conv = 0 /\ Nil \in Pointer /\ Nil.conv = 0
    BY PointerFacts, ConversionFacts
  <2>. QED  BY <1>4, <1>5, <2>1, WasFacts
<1>7. NullLeftAlone'
  <2>1. CASE args[1] = Zero
    BY <1>1, <2>1 DEF NullLeftAlone, pointerArgs
  <2>2. CASE args[1] # Zero
    BY <1>5, <2>2, WasFacts, ArgPlaces DEF NullLeftAlone, PointersInv
  <2>. QED  BY <2>1, <2>2
<1>. QED  BY <1>1, <1>2, <1>6, <1>7, StraightReturns

(* A native whose glue converts nothing when it begins.                    *)
LEMMA StrtodStep ==
  ASSUME PointersInv, Strtod
  PROVE  PointersInv'
<1>0. native = "strtod" /\ native \in Straight
  BY DEF Strtod, GlueBegins, GlueEnds, Stored, Go, Straight
<1>1. CASE GlueBegins("strtod", {})
  <2>1. /\ step = "called" /\ step' = "native" /\ mem = was
        /\ mem' = [p \in Place |-> was[p]]
        /\ UNCHANGED <<pointerArgs, count, lens, cur, ok, freed>>
        /\ native' = native /\ was' = was
    BY <1>1 DEF GlueBegins, Go, PointersInv, Kept, pointerArgs, AppToNativeAddrs
  <2>2. was = [p \in Place |-> was[p]]
    BY WasFacts
  <2>3. StraightInv'
    <3>1. native \notin WconfigNatives \cup Messages
      BY <1>0 DEF WconfigNatives, Messages
    <3>. QED
      BY <1>0, <2>1, <2>2, <3>1 DEF StraightInv, PointersInv, Quiet
  <2>4. mem' \in [Place -> Pointer] /\ NullLeftAlone'
    BY <2>1, <2>2, WasFacts DEF NullLeftAlone
  <2>. QED  BY <1>0, <2>1, <2>3, <2>4, StraightBegins
<1>2. CASE args[1] # Zero /\ Stored("strtod", args[1], Native(1))
  BY <1>0, <1>2, CellStored
<1>3. CASE args[1] = Zero /\ GlueEnds("strtod", {})
  <2>1. /\ step = "native" /\ step' = "returned" /\ mem = was
        /\ mem' = [p \in Place |-> mem[p]]
        /\ UNCHANGED <<pointerArgs, count, lens, cur, ok, freed>>
    BY <1>0, <1>3 DEF GlueEnds, Go, PointersInv, StraightInv, NativeToAppAddrs
  <2>2. mem' = was
    BY <2>1, WasFacts
  <2>. QED  BY <1>0, <2>1, <2>2, StraightRestoresAll
<1>. QED  BY <1>1, <1>2, <1>3 DEF Strtod

(* iconv and versionsort: two cells, or one that is converted twice.       *)
LEMMA TwoCellsStep ==
  ASSUME PointersInv, native \in {"iconv", "versionsort"},
         TwoCellsBegin(native) \/ TwoCellsEnd(native)
  PROVE  PointersInv'
<1>0. native \in Straight
  BY DEF Straight
<1> DEFINE m1 == AppToNativeAddrs(was, {args[1]})
           m2 == AppToNativeAddrs(m1, {args[2]})
<1>1. /\ args[1] \in Place /\ args[2] \in Place
      /\ \A p \in Place : was[p] \in Pointer /\ was[p].conv = 0
  BY WasFacts, ArgPlaces DEF PointersInv
<1>2. \A p \in Place : m1[p] = IF p = args[1] THEN AppToNativeAddr(was[p]) ELSE was[p]
  BY DEF AppToNativeAddrs
<1>3. \A p \in Place : m2[p] = IF p = args[2] THEN AppToNativeAddr(m1[p]) ELSE m1[p]
  BY DEF AppToNativeAddrs
<1>4. \A p \in Place : m1[p] \in Pointer /\ m1[p].conv \in {0, 1}
  <2> HIDE DEF m1
  <2>. QED  BY <1>1, <1>2, ConversionFacts
<1>5. m2 = [p \in Place |-> m2[p]]
  BY DEF AppToNativeAddrs
<1>6. m2 \in [Place -> Pointer] /\ \A p \in Place : NativeToAppAddr(AppToNativeAddr(m1[p])) = m1[p]
  <2> HIDE DEF m1, m2
  <2>. QED  BY <1>3, <1>4, <1>5, ConversionFacts
<1>7. CASE TwoCellsBegin(native)
  <2>1. /\ step = "called" /\ step' = "native" /\ mem = was /\ mem' = m2
        /\ UNCHANGED <<pointerArgs, count, lens, cur, ok, freed>>
        /\ native' = native /\ was' = was /\ args' = args
    BY <1>7 DEF TwoCellsBegin, Go, PointersInv, Kept, pointerArgs
  <2>2. StraightInv'
    <3>1. native \notin WconfigNatives \cup Messages \cup {"strtol", "strtod", "ioctl",
             "dbus_connection_get_object_path_data",
             "dbus_message_iter_append_basic", "wapi_unload_config"}
      BY DEF WconfigNatives, Messages
    <3>. QED
      BY <1>0, <2>1, <3>1 DEF StraightInv, PointersInv, Quiet
  <2>3. NullLeftAlone'
    <3>1. CASE args[1] = Zero
      <4>1. native = "iconv"
        BY <3>1 DEF PointersInv, Passed, MayBeNull, ListNatives, WconfigNatives
      <4>. QED  BY <3>1, <4>1, <2>1 DEF NullLeftAlone
    <3>2. CASE args[1] # Zero
      <4>1. m2[Zero] = Nil /\ m2[Datum(0)] = Nil
        <5> HIDE DEF m1, m2
        <5>. QED  BY <1>2, <1>3, <3>2, ArgPlaces, WasFacts DEF PointersInv
      <4>. QED  BY <2>1, <4>1 DEF NullLeftAlone
    <3>. QED  BY <3>1, <3>2
  <2>4. mem' \in [Place -> Pointer]
    BY <1>6, <2>1
  <2>. QED  BY <1>0, <2>1, <2>2, <2>3, <2>4, StraightBegins
<1>8. CASE TwoCellsEnd(native)
  <2>1. /\ step = "native" /\ step' = "returned"
        /\ mem' = NativeToAppAddrs(NativeToAppAddrs(mem, {args[1]}), {args[2]})
        /\ UNCHANGED <<pointerArgs, count, lens, cur, ok, freed>>
    BY <1>8 DEF TwoCellsEnd, Go
  <2>2. mem = m2
    BY <1>0, <2>1 DEF PointersInv, StraightInv
  <2> DEFINE m3 == NativeToAppAddrs(mem, {args[1]})
  <2>3. \A p \in Place : m3[p] = IF p = args[1] THEN NativeToAppAddr(mem[p]) ELSE mem[p]
    BY DEF NativeToAppAddrs
  <2>4. mem' = [p \in Place |-> IF p = args[2] THEN NativeToAppAddr(m3[p]) ELSE m3[p]]
    BY <2>1 DEF NativeToAppAddrs
  <2> HIDE DEF m1, m2, m3
  <2>5. \A p \in Place : NativeToAppAddr(AppToNativeAddr(was[p])) = was[p]
    BY <1>1, ConversionFacts
  <2>6. ASSUME NEW p \in Place
        PROVE  (IF p = args[2] THEN NativeToAppAddr(m3[p]) ELSE m3[p]) = was[p]
    <3>1. CASE p = args[1] /\ p = args[2]
      <4>1. m1[p] = AppToNativeAddr(was[p]) /\ m2[p] = AppToNativeAddr(m1[p])
        BY <1>2, <1>3, <3>1
      <4>2. m3[p] = m1[p]
        BY <1>6, <2>2, <2>3, <3>1, <4>1
      <4>. QED  BY <2>5, <3>1, <4>1, <4>2
    <3>2. CASE p = args[1] /\ p # args[2]
      BY <1>2, <1>3, <2>2, <2>3, <2>5, <3>2
    <3>3. CASE p # args[1] /\ p = args[2]
      BY <1>2, <1>3, <2>2, <2>3, <2>5, <3>3
    <3>4. CASE p # args[1] /\ p # args[2]
      BY <1>2, <1>3, <2>2, <2>3, <3>4
    <3>. QED  BY <3>1, <3>2, <3>3, <3>4
  <2>7. mem' = was
    BY <2>4, <2>6, WasFacts
  <2>. QED  BY <1>0, <2>1, <2>7, StraightRestoresAll
<1>. QED  BY <1>7, <1>8

(* ioctl: its cell is converted unless it is NULL. The conversion back     *)
(* touches the two places that Unreliable names, and restores the cell     *)
(* when they are one.                                                      *)
LEMMA IoctlStep ==
  ASSUME PointersInv, native = "ioctl", LibcIoctlArgsConv
  PROVE  PointersInv'
<1>0. native \in Straight
  BY DEF Straight
<1>1. native \notin WconfigNatives \cup Messages \cup {"strtol", "strtod", "iconv",
             "versionsort", "dbus_connection_get_object_path_data",
             "dbus_message_iter_append_basic", "wapi_unload_config"}
  BY DEF WconfigNatives, Messages
<1>2. /\ args[1] \in {Arg("a"), Zero} /\ args[2] \in {Arg("a"), Arg("b"), Zero}
      /\ args[1] \in Place /\ args[2] \in Place
      /\ args[1] # Datum(0) /\ args[2] # Datum(0)
      /\ Zero \in Place /\ Datum(0) \in Place /\ Datum(0) # Zero
  BY ArgPlaces DEF PointersInv
<1>3. CASE ReturnsAtOnce("ioctl")
  <2>1. /\ step = "called" /\ step' = "returned" /\ mem' = was
        /\ UNCHANGED <<pointerArgs, count, lens, cur, ok, freed>>
    BY <1>3 DEF ReturnsAtOnce, Go, PointersInv, Kept
  <2>. QED  BY <1>0, <2>1, StraightRestoresAll
<1>4. CASE args[1] # Zero /\ GlueBegins("ioctl", NotNil({args[1]}))
  <2> DEFINE T == {p \in {args[1]} : was[p] # Nil}
  <2>1. /\ step = "called" /\ step' = "native" /\ mem = was
        /\ mem' = AppToNativeAddrs(was, T)
        /\ UNCHANGED <<pointerArgs, count, lens, cur, ok, freed>>
        /\ native' = native /\ was' = was /\ args' = args
    BY <1>4 DEF GlueBegins, Go, PointersInv, Kept, pointerArgs, NotNil
  <2>2. Zero \notin T /\ Datum(0) \notin T
    BY <1>2, <1>4
  <2>3. mem' \in [Place -> Pointer] /\ NullLeftAlone'
    BY <2>1, <2>2, TurnsBack DEF NullLeftAlone
  <2>4. StraightInv'
    <3>1. Quiet'
      BY <1>0, <2>1 DEF PointersInv, StraightInv, Quiet
    <3>. QED  BY <1>0, <1>1, <1>4, <2>1, <3>1 DEF StraightInv, Converted
  <2>. QED  BY <1>0, <2>1, <2>3, <2>4, StraightBegins
<1>5. CASE GlueEnds("ioctl", NotNil({args[2]} \ {Zero}))
  <2> DEFINE T == {p \in {args[1]} : was[p] # Nil}
             P == {p \in {args[2]} \ {Zero} : mem[p] # Nil}
  <2>1. /\ step = "native" /\ step' = "returned" /\ mem' = NativeToAppAddrs(mem, P)
        /\ UNCHANGED <<pointerArgs, count, lens, cur, ok, freed>>
        /\ native' = native /\ args' = args
    BY <1>5 DEF GlueEnds, Go, NotNil, pointerArgs
  <2>2. mem = AppToNativeAddrs(was, T) /\ args[1] # Zero
    BY <1>0, <2>1 DEF PointersInv, StraightInv, Converted
  <2>3. CASE args[1] = args[2]
    <3>1. mem[args[1]] # Nil <=> was[args[1]] # Nil
      BY <1>2, <2>2, TurnsBack
    <3>2. P = T
      BY <2>2, <2>3, <3>1
    <3>3. NativeToAppAddrs(AppToNativeAddrs(was, T), T) = was
      BY TurnsBack
    <3> HIDE DEF P, T
    <3>. QED  BY <1>0, <2>1, <2>2, <3>2, <3>3, StraightRestoresAll
  <2>4. CASE args[1] # args[2]
    <3>1. \A p \in Place : p \notin T => mem[p] = was[p]
      BY <2>2 DEF AppToNativeAddrs
    <3>2. \A p \in Place : mem'[p] = IF p \in P THEN NativeToAppAddr(mem[p]) ELSE mem[p]
      BY <2>1 DEF NativeToAppAddrs
    <3>3. \A p \in Place : p \notin {args[1], args[2]} => mem'[p] = was[p] /\ mem'[p].conv = 0
      BY <3>1, <3>2, WasFacts
    <3>4. mem' \in [Place -> Pointer]
      <4>1. \A p \in P : NativeToAppAddr(mem[p]) \in Pointer
        BY <1>2, <2>4, <3>1, WasFacts, ConversionFacts
      <4>2. mem' = [p \in Place |-> mem'[p]]
        BY <2>1 DEF NativeToAppAddrs
      <4>. QED  BY <3>2, <4>1, <4>2 DEF PointersInv, Kept
    <3>5. \A p \in Place \ Unreliable' : mem'[p].conv = 0
      <4>1. {args[1], args[2]} \subseteq Unreliable'
        BY <2>1, <2>4 DEF Unreliable
      <4>. QED  BY <3>3, <4>1
    <3>6. NullLeftAlone'
      <4>1. Zero \notin P /\ Zero \notin T /\ Datum(0) \notin {args[1], args[2]}
        BY <1>2, <2>2
      <4>2. mem'[Zero] = Nil
        BY <1>2, <3>1, <3>2, <4>1, WasFacts
      <4>3. mem'[Datum(0)] = Nil
        BY <1>2, <3>3, <4>1, WasFacts
      <4>. QED  BY <4>2, <4>3 DEF NullLeftAlone
    <3>. QED  BY <1>0, <2>1, <3>4, <3>5, <3>6, StraightReturns
  <2>. QED  BY <2>3, <2>4
<1>. QED  BY <1>3, <1>4, <1>5 DEF LibcIoctlArgsConv

(* The four pointers of struct wpa_wconfig_s, unless they are NULL.        *)
LEMMA WconfigStep ==
  ASSUME PointersInv, native \in WconfigNatives, NEW S, S = WconfigPtrs,
         \/ ReturnsAtOnce(native)
         \/ args[1] # Zero /\ GlueBegins(native, NotNil(S))
         \/ GlueEnds(native, NotNil(S))
  PROVE  PointersInv'
<1>0. native \in Straight
  BY DEF Straight
<1>1. native \notin Messages \cup {"strtol", "strtod", "iconv", "versionsort",
             "dbus_connection_get_object_path_data",
             "dbus_message_iter_append_basic", "wapi_unload_config", "ioctl"}
  BY DEF WconfigNatives, Messages
<1>2. S \in SUBSET {Arg(f) : f \in Field}
  BY DEF WconfigPtrs
<1>3. Zero \notin {Arg(f) : f \in Field} /\ Datum(0) \notin {Arg(f) : f \in Field}
  BY PlaceFacts, PlacesDiffer
<1>4. CASE ReturnsAtOnce(native)
  <2>1. /\ step = "called" /\ step' = "returned" /\ mem' = was
        /\ UNCHANGED <<pointerArgs, count, lens, cur, ok, freed>>
    BY <1>4 DEF ReturnsAtOnce, Go, PointersInv, Kept
  <2>. QED  BY <1>0, <2>1, StraightRestoresAll
<1>5. CASE args[1] # Zero /\ GlueBegins(native, NotNil(S))
  <2> DEFINE T == {p \in S : was[p] # Nil}
  <2>1. /\ step = "called" /\ step' = "native" /\ mem = was
        /\ mem' = AppToNativeAddrs(was, T)
        /\ UNCHANGED <<pointerArgs, count, lens, cur, ok, freed>>
        /\ native' = native /\ was' = was /\ args' = args
    BY <1>5 DEF GlueBegins, Go, PointersInv, Kept, pointerArgs, NotNil
  <2>2. Zero \notin T /\ Datum(0) \notin T
    BY <1>2, <1>3, <1>5
  <2>3. mem' \in [Place -> Pointer] /\ NullLeftAlone'
    BY <2>1, <2>2, TurnsBack DEF NullLeftAlone
  <2>4. StraightInv'
    <3>1. (mem = AppToNativeAddrs(was, {p \in WconfigPtrs : was[p] # Nil}))'
      BY <2>1 DEF WconfigPtrs
    <3>2. Quiet'
      BY <1>0, <2>1 DEF PointersInv, StraightInv, Quiet
    <3>. QED
      BY <1>0, <1>1, <1>5, <2>1, <3>1, <3>2 DEF StraightInv, Converted
  <2>. QED  BY <1>0, <2>1, <2>3, <2>4, StraightBegins
<1>6. CASE GlueEnds(native, NotNil(S))
  <2>1. /\ step = "native" /\ step' = "returned"
        /\ mem' = NativeToAppAddrs(mem, {p \in S : mem[p] # Nil})
        /\ UNCHANGED <<pointerArgs, count, lens, cur, ok, freed>>
    BY <1>6 DEF GlueEnds, Go, NotNil
  <2>2. CASE mem = AppToNativeAddrs(was, {p \in S : was[p] # Nil})
    <3> DEFINE T == {p \in S : was[p] # Nil}
    <3>1. \A p \in Place : mem[p] # Nil <=> was[p] # Nil
      BY <2>2, TurnsBack
    <3>2. S \subseteq Place
      BY <1>2, PlaceFacts
    <3>3. {p \in S : mem[p] # Nil} = T
      BY <3>1, <3>2
    <3>4. NativeToAppAddrs(AppToNativeAddrs(was, T), T) = was
      BY TurnsBack
    <3> HIDE DEF T
    <3>5. mem = AppToNativeAddrs(was, T)
      BY <2>2 DEF T
    <3>6. mem' = was
      BY <2>1, <3>3, <3>4, <3>5
    <3>. QED  BY <1>0, <2>1, <3>6, StraightRestoresAll
  <2>3. CASE /\ native = "wapi_load_config"
             /\ mem = [p \in Place |-> IF p \in WconfigPtrs THEN Native(1) ELSE was[p]]
    <3>1. WconfigPtrs \in SUBSET {Arg(f) : f \in Field} /\ S = WconfigPtrs /\ WconfigPtrs \subseteq Place
      BY PlaceFacts DEF WconfigPtrs
    <3>2. Native(1) # Nil /\ NativeToAppAddr(Native(1)) = App(1)
      BY NodesAssumption, PointerFacts
    <3>3. mem' = [p \in Place |-> IF p \in WconfigPtrs THEN App(1) ELSE was[p]]
      BY <2>1, <2>3, <3>1, <3>2 DEF NativeToAppAddrs
    <3>. QED  BY <1>0, <2>1, <3>1, <3>3, StraightRestores
  <2>4. \/ mem = AppToNativeAddrs(was, {p \in S : was[p] # Nil})
        \/ /\ native = "wapi_load_config"
           /\ mem = [p \in Place |-> IF p \in WconfigPtrs THEN Native(1) ELSE was[p]]
    BY <1>0, <2>1 DEF PointersInv, StraightInv, Converted
  <2>. QED  BY <2>2, <2>3, <2>4
<1>. QED  BY <1>4, <1>5, <1>6

(* When it finds the network, wapi_load_config sets all four.              *)
LEMMA WapiLoadConfigStep ==
  ASSUME PointersInv, native = "wapi_load_config", step = "native",
         mem' = [p \in Place |-> IF p[1] \in Field THEN Native(1) ELSE mem[p]],
         UNCHANGED <<pointerArgs, count, lens, cur, step, ok, freed>>
  PROVE  PointersInv'
<1>0. native \in Straight /\ native \in WconfigNatives
  BY DEF Straight, WconfigNatives
<1>1. \A p \in Place : p[1] \in Field <=> p \in WconfigPtrs
  <2>1. \A f \in Field : Arg(f)[1] \in Field
    BY DEF Arg
  <2>2. \A k \in 0 .. Nodes : Next(k)[1] \notin Field
    BY DEF Next, Field
  <2>3. \A k \in 0 .. Nodes + 1 : Datum(k)[1] \notin Field
    BY DEF Datum, Field
  <2>4. \A p \in Place :
          \/ \E f \in Field : p = Arg(f)
          \/ \E k \in 0 .. Nodes : p = Next(k)
          \/ \E k \in 0 .. Nodes + 1 : p = Datum(k)
    BY PlaceFacts
  <2>5. \A p \in WconfigPtrs : \E f \in Field : p = Arg(f)
    BY DEF WconfigPtrs
  <2>6. \A f \in Field : Arg(f) \in WconfigPtrs
    BY DEF WconfigPtrs
  <2>. QED  BY <2>1, <2>2, <2>3, <2>4, <2>5, <2>6, Zenon
<1>2. /\ native' = native /\ args' = args /\ was' = was /\ count' = count /\ lens' = lens
      /\ step' = "native" /\ cur' = cur /\ ok' = ok /\ freed' = freed
  BY DEF pointerArgs
<1>3. \/ mem = AppToNativeAddrs(was, {p \in WconfigPtrs : was[p] # Nil})
      \/ mem = [p \in Place |-> IF p \in WconfigPtrs THEN Native(1) ELSE was[p]]
  BY <1>0 DEF PointersInv, StraightInv, Converted
<1>4. \A p \in Place : p \notin WconfigPtrs => mem[p] = was[p]
  BY <1>3 DEF AppToNativeAddrs
<1>5. mem' = [p \in Place |-> IF p \in WconfigPtrs THEN Native(1) ELSE was[p]]
  BY <1>1, <1>4
<1>6. Native(1) \in Pointer /\ Zero \notin WconfigPtrs /\ Datum(0) \notin WconfigPtrs
  BY NodesAssumption, PointerFacts, PlaceFacts, PlacesDiffer DEF WconfigPtrs
<1>7. mem' \in [Place -> Pointer] /\ mem'[Zero] = Nil /\ mem'[Datum(0)] = Nil
  BY <1>5, <1>6, WasFacts, ArgPlaces DEF PointersInv
<1>8. Passed'
  BY <1>2, PassedStays DEF PointersInv
<1>9. Kept'
  BY <1>2, <1>7, <1>0, NativesApart DEF PointersInv, Kept, AppSeesApp, NullLeftAlone
<1>10. StraightInv'
  BY <1>0, <1>2, <1>5 DEF PointersInv, StraightInv, Quiet, Converted, Messages, WconfigPtrs
<1>. QED
  BY <1>0, <1>2, <1>8, <1>9, <1>10, NativesApart
  DEF PointersInv, MakesListInv, MakesArrayInv, GivenListInv, GivenArrayInv

(* The pointers of a message: its array, the buffers, and name and control *)
(* when they have a length.                                                *)
LEMMA MsghdrPlaces ==
  ASSUME count \in 0 .. Nodes
  PROVE  /\ Arg("a") \in Msghdr /\ Arg("d") \notin Msghdr
         /\ \A f \in {"b", "c"} : Arg(f) \in Msghdr <=> mem[Arg(f)] # Nil /\ lens[f]
         /\ \A k \in 0 .. Nodes : Next(k) \notin Msghdr
         /\ \A k \in 0 .. Nodes + 1 : Datum(k) \in Msghdr <=> k \in 1 .. count
<1>. USE NodesAssumption
<1> DEFINE T == {g \in {"b", "c"} : mem[Arg(g)] # Nil /\ lens[g]}
           D == {Datum(k) : k \in 1 .. count}
           W == {Arg(f) : f \in T}
<1>1. /\ "a" \in Field /\ "d" \in Field
      /\ \A f \in {"b", "c"} : f \in Field /\ f # "a" /\ f # "d"
  BY DEF Field
<1>2. Msghdr = {Arg("a")} \cup D \cup W
  BY DEF Msghdr, WithLength
<1>3. \A f \in {"b", "c"} : f \in T <=> mem[Arg(f)] # Nil /\ lens[f]
  BY Zenon
<1>4. T \subseteq {"b", "c"}
  OBVIOUS
<1> HIDE DEF T
<1>5. \A f \in Field : Arg(f) \in D => FALSE
  BY PlacesDiffer
<1>6. \A f \in Field : Arg(f) \in W <=> f \in T
  BY <1>1, <1>4, PlacesDiffer
<1>7. \A k \in Nat : Next(k) \notin W /\ Next(k) \notin D /\ Next(k) # Arg("a")
  BY <1>1, <1>4, PlacesDiffer
<1>8. \A k \in Nat : Datum(k) \notin W /\ Datum(k) # Arg("a") /\ (Datum(k) \in D <=> k \in 1 .. count)
  BY <1>1, <1>4, PlacesDiffer
<1>9. "a" \notin T /\ "d" \notin T
  BY <1>4
<1>10. Arg("d") # Arg("a") /\ \A f \in {"b", "c"} : Arg(f) # Arg("a")
  BY <1>1, PlacesDiffer
<1> HIDE DEF D, W
<1>11. Arg("a") \in Msghdr /\ Arg("d") \notin Msghdr
  BY <1>1, <1>2, <1>5, <1>6, <1>9, <1>10
<1>12. \A f \in {"b", "c"} : Arg(f) \in Msghdr <=> f \in T
  BY <1>1, <1>2, <1>5, <1>6, <1>10
<1>13. \A f \in {"b", "c"} : Arg(f) \in Msghdr <=> mem[Arg(f)] # Nil /\ lens[f]
  BY <1>3, <1>12, Zenon
<1>14. \A k \in 0 .. Nodes : Next(k) \notin Msghdr
  BY <1>2, <1>7
<1>15. \A k \in 0 .. Nodes + 1 : Datum(k) \in Msghdr <=> k \in 1 .. count
  BY <1>2, <1>8
<1>. QED  BY <1>11, <1>13, <1>14, <1>15, Zenon

(* sendmsg and recvmsg convert them.                                       *)
LEMMA MessageBegins ==
  ASSUME PointersInv, native \in Messages, GlueBegins(native, Msghdr)
  PROVE  PointersInv'
<1>. USE NodesAssumption
<1>0. native \in Straight /\ native \notin WconfigNatives
  BY DEF Straight, Messages, WconfigNatives
<1>1. /\ step = "called" /\ step' = "native" /\ mem = was
      /\ mem' = AppToNativeAddrs(was, Msghdr)
      /\ UNCHANGED <<pointerArgs, count, lens, cur, ok, freed>>
      /\ native' = native /\ was' = was /\ args' = args /\ count' = count /\ lens' = lens
  BY DEF GlueBegins, Go, PointersInv, Kept, pointerArgs
<1>2. count \in 0 .. Nodes
  BY DEF PointersInv, Kept
<1>3. /\ \A f \in Field : Arg(f) \in Place
      /\ \A k \in 0 .. Nodes : Next(k) \in Place
      /\ \A k \in 0 .. Nodes + 1 : Datum(k) \in Place
      /\ \A f \in {"a", "b", "c", "d"} : f \in Field
      /\ Zero = Next(0) /\ 0 \in 0 .. Nodes /\ 0 \in 0 .. Nodes + 1 /\ 0 \notin 1 .. count
  BY PlaceFacts DEF Field
<1>4. Zero \notin Msghdr /\ Datum(0) \notin Msghdr
  BY <1>2, <1>3, MsghdrPlaces
<1>5. mem' \in [Place -> Pointer] /\ NullLeftAlone'
  BY <1>1, <1>4, TurnsBack DEF NullLeftAlone
<1>6. \A p \in Place : mem'[p] = IF p \in Msghdr THEN AppToNativeAddr(was[p]) ELSE was[p]
  BY <1>1 DEF AppToNativeAddrs
<1>7. MessageConverted'
  BY <1>1, <1>2, <1>3, <1>6, MsghdrPlaces DEF MessageConverted
<1>8. StraightInv'
  <2>1. native \notin {"strtol", "strtod", "iconv", "versionsort", "ioctl",
             "dbus_connection_get_object_path_data",
             "dbus_message_iter_append_basic", "wapi_unload_config"}
    BY DEF Messages
  <2>. QED  BY <1>0, <1>1, <1>7, <2>1 DEF PointersInv, StraightInv, Quiet
<1>. QED  BY <1>0, <1>1, <1>5, <1>8, StraightBegins

(* They turn back the same ones, except what recvmsg has left without a    *)
(* length: the application does not rely on that.                          *)
LEMMA MessageEnds ==
  ASSUME PointersInv, native \in Messages, GlueEnds(native, Msghdr)
  PROVE  PointersInv'
<1>. USE NodesAssumption
<1>0. native \in Straight
  BY DEF Straight
<1>1. /\ step = "native" /\ step' = "returned"
      /\ mem' = NativeToAppAddrs(mem, Msghdr)
      /\ UNCHANGED <<pointerArgs, count, lens, cur, ok, freed>>
      /\ native' = native /\ lens' = lens /\ freed' = freed /\ ok' = ok
  BY DEF GlueEnds, Go, pointerArgs
<1>2. count \in 0 .. Nodes /\ lens \in [{"b", "c"} -> BOOLEAN] /\ mem \in [Place -> Pointer]
  BY DEF PointersInv, Kept
<1>3. /\ \A f \in Field : Arg(f) \in Place
      /\ \A k \in 0 .. Nodes : Next(k) \in Place
      /\ \A k \in 0 .. Nodes + 1 : Datum(k) \in Place
      /\ \A f \in {"a", "b", "c", "d"} : f \in Field
      /\ \A f \in Field : f \in {"a", "b", "c", "d"}
      /\ Zero = Next(0) /\ 0 \in 0 .. Nodes /\ 0 \in 0 .. Nodes + 1 /\ 0 \notin 1 .. count
  BY PlaceFacts DEF Field
<1>4. MessageConverted /\ freed = {} /\ ok = TRUE
  BY <1>0, <1>1 DEF PointersInv, StraightInv, Quiet
<1>5. \A p \in Place : mem'[p] = IF p \in Msghdr THEN NativeToAppAddr(mem[p]) ELSE mem[p]
  BY <1>1 DEF NativeToAppAddrs
<1>6. \A p \in Place : /\ was[p] \in Pointer /\ was[p].conv = 0
                       /\ NativeToAppAddr(AppToNativeAddr(was[p])) = was[p]
                       /\ AppToNativeAddr(was[p]) # Nil
  BY WasFacts, ConversionFacts
<1>7. mem'[Arg("a")] = was[Arg("a")] /\ mem'[Arg("d")] = was[Arg("d")]
  BY <1>2, <1>3, <1>4, <1>5, <1>6, MsghdrPlaces DEF MessageConverted
<1>8. \A k \in 0 .. Nodes : mem'[Next(k)] = was[Next(k)]
  BY <1>2, <1>3, <1>4, <1>5, MsghdrPlaces DEF MessageConverted
<1>9. \A k \in 0 .. Nodes + 1 : mem'[Datum(k)] = was[Datum(k)]
  BY <1>2, <1>3, <1>4, <1>5, <1>6, MsghdrPlaces DEF MessageConverted
<1>10. ASSUME NEW f \in {"b", "c"}
       PROVE  /\ lens[f] => mem'[Arg(f)] = was[Arg(f)]
              /\ ~lens[f] => mem'[Arg(f)] = mem[Arg(f)]
              /\ ~lens[f] => mem'[Arg(f)] = was[Arg(f)] \/ native = "recvmsg"
  <2>1. Arg(f) \in Place
    BY <1>3
  <2>2. Arg(f) \in Msghdr <=> mem[Arg(f)] # Nil /\ lens[f]
    BY <1>2, MsghdrPlaces
  <2>3. /\ lens[f] => mem[Arg(f)] = IF was[Arg(f)] = Nil THEN Nil ELSE AppToNativeAddr(was[Arg(f)])
        /\ ~lens[f] => mem[Arg(f)] = was[Arg(f)] \/ native = "recvmsg"
    BY <1>4 DEF MessageConverted
  <2>. QED  BY <1>5, <1>6, <2>1, <2>2, <2>3
<1>11. \A p \in Place : mem'[p] \in Pointer
  <2>1. \A f \in {"b", "c"} : mem'[Arg(f)] \in Pointer
    BY <1>2, <1>3, <1>6, <1>10
  <2>2. \A f \in Field : mem'[Arg(f)] \in Pointer
    BY <1>3, <1>6, <1>7, <2>1
  <2>. QED  BY <1>3, <1>6, <1>8, <1>9, <2>2, PlaceFacts
<1>12. ASSUME NEW p \in Place \ Unreliable'
       PROVE  mem'[p].conv = 0
  <2>1. CASE \E f \in {"b", "c"} : p = Arg(f)
    <3>1. PICK f \in {"b", "c"} : p = Arg(f)
      BY <2>1
    <3>2. ~lens[f] => native # "recvmsg"
      BY <1>1, <3>1 DEF Unreliable
    <3>3. mem'[p] = was[p]
      BY <1>10, <3>1, <3>2
    <3>. QED  BY <1>6, <3>3
  <2>2. CASE \E f \in {"a", "d"} : p = Arg(f)
    BY <1>6, <1>7, <2>2
  <2>3. CASE \E k \in 0 .. Nodes : p = Next(k)
    BY <1>6, <1>8, <2>3
  <2>4. CASE \E k \in 0 .. Nodes + 1 : p = Datum(k)
    BY <1>6, <1>9, <2>4
  <2>. QED  BY <1>3, <2>1, <2>2, <2>3, <2>4, PlaceFacts
<1>13. NullLeftAlone'
  BY <1>3, <1>8, <1>9, WasFacts DEF NullLeftAlone
<1>14. mem' \in [Place -> Pointer]
  BY <1>1, <1>11 DEF NativeToAppAddrs
<1>. QED  BY <1>0, <1>1, <1>12, <1>13, <1>14, StraightReturns

(* recvmsg sets a length to 0 while it is native: that pointer stays       *)
(* native.                                                                 *)
LEMMA RecvmsgSetsLengthsStep ==
  ASSUME PointersInv, RecvmsgSetsLengths
  PROVE  PointersInv'
<1>1. /\ native = "recvmsg" /\ step = "native" /\ step' = "native"
      /\ UNCHANGED pointerArgs
      /\ native' = native /\ args' = args /\ was' = was /\ count' = count
      /\ mem' = mem /\ cur' = cur /\ ok' = ok /\ freed' = freed
  BY DEF RecvmsgSetsLengths, pointerArgs
<1>2. PICK f \in {"b", "c"} : lens[f] /\ lens' = [lens EXCEPT ![f] = FALSE]
  BY DEF RecvmsgSetsLengths
<1>3. /\ lens' \in [{"b", "c"} -> BOOLEAN]
      /\ \A g \in {"b", "c"} : lens'[g] => lens[g]
  BY <1>2 DEF PointersInv, Kept
<1>0. native \in Straight /\ native \in Messages /\ native \notin WconfigNatives
  BY <1>1 DEF Straight, Messages, WconfigNatives
<1>4. MessageConverted'
  BY <1>0, <1>1, <1>3 DEF PointersInv, StraightInv, MessageConverted
<1>5. StraightInv'
  BY <1>0, <1>1, <1>4 DEF PointersInv, StraightInv, Quiet
<1>6. Kept'
  BY <1>0, <1>1, <1>3, NativesApart DEF PointersInv, Kept, AppSeesApp, NullLeftAlone
<1>7. Passed'
  BY <1>1, PassedStays DEF PointersInv
<1>. QED
  BY <1>0, <1>1, <1>5, <1>6, <1>7, NativesApart
  DEF PointersInv, MakesListInv, MakesArrayInv, GivenListInv, GivenArrayInv


(* Every action is of one native.                                          *)
LEMMA StepIsOfNative ==
  ASSUME PointerNext
  PROVE  /\ native = "strtol" => Strtol
         /\ native = "strtod" => Strtod
         /\ native = "iconv" => Iconv
         /\ native = "versionsort" => Versionsort
         /\ native = "ioctl" => LibcIoctlArgsConv
         /\ native = "sendmsg" => Sendmsg
         /\ native = "recvmsg" => Recvmsg
         /\ native = "scandir" => Scandir
         /\ native = "getaddrinfo" => Getaddrinfo
         /\ native = "getifaddrs" => Getifaddrs
         /\ native = "freeifaddrs" => Freeifaddrs
         /\ native = "wapi_scan_coll" => WapiScanColl
         /\ native = "wapi_scan_coll_free" => WapiScanCollFree
         /\ native = "wpa_driver_wext_associate" => WpaDriverWextAssociate
         /\ native = "wapi_load_config" => WapiLoadConfig
         /\ native = "wapi_save_config" => WapiSaveConfig
         /\ native = "wapi_unload_config" => WapiUnloadConfig
         /\ native = "dbus_connection_get_object_path_data" => DbusConnectionGetObjectPathData
         /\ native = "dbus_message_iter_append_basic" => DbusMessageIterAppendBasic
         /\ native = "dbus_connection_list_registered" => DbusConnectionListRegistered
         /\ native = "dbus_free_string_array" => DbusFreeStringArray
<1>1. /\ Strtol => native = "strtol"
      /\ Strtod => native = "strtod"
      /\ Iconv => native = "iconv"
      /\ Versionsort => native = "versionsort"
      /\ LibcIoctlArgsConv => native = "ioctl"
  BY DEF Strtol, Strtod, Iconv, Versionsort, LibcIoctlArgsConv, GlueBegins, GlueEnds, Stored,
         TwoCellsBegin, TwoCellsEnd, ReturnsAtOnce, Go
<1>2. /\ Sendmsg => native = "sendmsg"
      /\ Recvmsg => native = "recvmsg"
      /\ WpaDriverWextAssociate => native = "wpa_driver_wext_associate"
      /\ WapiLoadConfig => native = "wapi_load_config"
      /\ WapiSaveConfig => native = "wapi_save_config"
      /\ WapiUnloadConfig => native = "wapi_unload_config"
      /\ DbusConnectionGetObjectPathData => native = "dbus_connection_get_object_path_data"
      /\ DbusMessageIterAppendBasic => native = "dbus_message_iter_append_basic"
  BY DEF Sendmsg, Recvmsg, RecvmsgSetsLengths, GlueMsghdrBegin, GlueMsghdrEnd,
         WpaDriverWextAssociate, WapiLoadConfig, WapiSaveConfig, WapiUnloadConfig, Wconfig,
         WconfigPtrsToNative, WconfigPtrsToApp,
         DbusConnectionGetObjectPathData, DbusMessageIterAppendBasic, GlueBegins, GlueEnds,
         Stored, ReturnsAtOnce, Go
<1>3. /\ Scandir => native = "scandir"
      /\ Getaddrinfo => native = "getaddrinfo"
      /\ Getifaddrs => native = "getifaddrs"
      /\ Freeifaddrs => native = "freeifaddrs"
  BY DEF Scandir, Getaddrinfo, Getifaddrs, Freeifaddrs, Gives, Leave, Addrinfo2App, Ifaddrsinfo2App,
         Ifaddrsinfo2Native, VisitToNative, VisitToApp, Visiting, Walk, Frees, GlueBegins, Go
<1>4. /\ WapiScanColl => native = "wapi_scan_coll"
      /\ WapiScanCollFree => native = "wapi_scan_coll_free"
      /\ DbusConnectionListRegistered => native = "dbus_connection_list_registered"
      /\ DbusFreeStringArray => native = "dbus_free_string_array"
  BY DEF WapiScanColl, WapiScanCollFree, DbusConnectionListRegistered, DbusFreeStringArray,
         WapiScanCollBegin, WapiScanCollAdds, VisitToNative, VisitToApp, Leave, Visiting, Walk,
         Frees, ReturnsAtOnce, StringArrayAppToNative, StringArrayNativeToApp, Gives, GlueBegins, Go
<1>. QED
  BY <1>1, <1>2, <1>3, <1>4 DEF PointerNext

(* Natives without a loop keep the invariant: each turns back exactly what *)
(* it has converted, except where the native function has stored something *)
(* itself.                                                                 *)
THEOREM StraightStep ==
  ASSUME PointersInv, native \in Straight, PointerNext
  PROVE  PointersInv'
<1>. USE StepIsOfNative
<1>1. CASE native = "strtol"
  BY <1>1, OneCellBegins, CellStored DEF Strtol
<1>2. CASE native = "strtod"
  BY <1>2, StrtodStep
<1>3. CASE native \in {"iconv", "versionsort"}
  BY <1>3, TwoCellsStep DEF Iconv, Versionsort
<1>4. CASE native = "ioctl"
  BY <1>4, IoctlStep
<1>5. CASE native \in WconfigNatives
  <2>1. Wconfig(native) \/ (native = "wapi_load_config" /\ WapiLoadConfig)
    BY <1>5 DEF WconfigNatives, WpaDriverWextAssociate, WapiSaveConfig
  <2>2. CASE Wconfig(native)
    <3>1. \/ ReturnsAtOnce(native)
          \/ args[1] # Zero /\ GlueBegins(native, NotNil(WconfigPtrs))
          \/ GlueEnds(native, NotNil(WconfigPtrs))
      BY <2>2 DEF Wconfig, WconfigPtrsToNative, WconfigPtrsToApp, WconfigPtrs
    <3>. QED  BY <1>5, <3>1, WconfigStep
  <2>3. CASE native = "wapi_load_config" /\ WapiLoadConfig /\ ~ Wconfig(native)
    BY <2>3, WapiLoadConfigStep DEF WapiLoadConfig
  <2>. QED  BY <2>1, <2>2, <2>3
<1>6. CASE native \in {"wapi_unload_config", "dbus_message_iter_append_basic"}
  <2>1. native = "dbus_message_iter_append_basic" => args[1] # Zero
    BY DEF PointersInv, Passed, MayBeNull, ListNatives, WconfigNatives
  <2>2. \/ ReturnsAtOnce(native)
        \/ args[1] # Zero /\ GlueBegins(native, {args[1]})
        \/ GlueEnds(native, {args[1]})
    BY <1>6, <2>1 DEF WapiUnloadConfig, DbusMessageIterAppendBasic
  <2>3. CASE ReturnsAtOnce(native)
    <3>1. /\ step = "called" /\ step' = "returned" /\ mem' = was
          /\ UNCHANGED <<pointerArgs, count, lens, cur, ok, freed>>
      BY <2>3 DEF ReturnsAtOnce, Go, PointersInv, Kept
    <3>. QED  BY <3>1, StraightRestoresAll
  <2>. QED  BY <1>6, <2>2, <2>3, OneCellBegins, OneCellEnds
<1>7. CASE native = "dbus_connection_get_object_path_data"
  <2>1. args[1] # Zero
    BY <1>7 DEF PointersInv, Passed, MayBeNull, ListNatives, WconfigNatives
  <2>. QED  BY <1>7, <2>1, OneCellBegins, CellStored DEF DbusConnectionGetObjectPathData
<1>8. CASE native \in Messages
  BY <1>8, MessageBegins, MessageEnds, RecvmsgSetsLengthsStep
  DEF Messages, Sendmsg, Recvmsg, GlueMsghdrBegin, GlueMsghdrEnd
<1>. QED
  BY <1>1, <1>2, <1>3, <1>4, <1>5, <1>6, <1>7, <1>8 DEF Straight

----------------------------------------------------------------------------
(* Lists and arrays that the native function makes.                        *)

(* The list or array that a native function has made, place by place.      *)
LEMMA NativeMemoryIs ==
  ASSUME PointersInv, args[1] = Arg("a"), NEW k \in 0 .. Nodes, NEW nulls, NEW first \in Pointer
  PROVE  LET m == NativeMemory(k, nulls, first)
         IN  /\ m \in [Place -> Pointer]
             /\ m[Arg("a")] = first
             /\ \A f \in {"b", "c", "d"} : m[Arg(f)] = mem[Arg(f)]
             /\ m[Next(0)] = mem[Next(0)]
             /\ \A i \in 1 .. Nodes :
                   m[Next(i)] = IF native \in MakesLists /\ i \in 2 .. k THEN Native(i - 1)
                                ELSE mem[Next(i)]
             /\ \A i \in 0 .. Nodes + 1 :
                   m[Datum(i)] = IF i \in (1 .. k) \ nulls THEN Native(i) ELSE mem[Datum(i)]
<1> DEFINE m == NativeMemory(k, nulls, first)
<1>. USE NodesAssumption
<1>0. mem \in [Place -> Pointer]
  BY DEF PointersInv, Kept
<1>1. m[Arg("a")] = first
  <2>1. Arg("a") \in Place /\ Arg("a")[1] # "next" /\ Arg("a")[1] # "data"
    BY PlaceFacts DEF Arg, Field
  <2>. QED  BY <2>1 DEF NativeMemory
<1>2. ASSUME NEW f \in {"b", "c", "d"} PROVE m[Arg(f)] = mem[Arg(f)]
  <2>1. Arg(f) \in Place /\ Arg(f) # Arg("a")
    BY PlaceFacts, PlacesDiffer DEF Field
  <2>2. Arg(f)[1] # "next" /\ Arg(f)[1] # "data"
    BY DEF Arg
  <2>. QED  BY <2>1, <2>2 DEF NativeMemory
<1>3. m[Next(0)] = mem[Next(0)]
  <2>1. Next(0) \in Place /\ Next(0) # Arg("a")
    BY PlaceFacts, PlacesDiffer DEF Field
  <2>2. Next(0)[1] # "next" /\ Next(0)[1] # "data"
    BY DEF Next
  <2>. QED  BY <2>1, <2>2 DEF NativeMemory
<1>4. ASSUME NEW i \in 1 .. Nodes
      PROVE  m[Next(i)] = IF native \in MakesLists /\ i \in 2 .. k THEN Native(i - 1) ELSE mem[Next(i)]
  <2>1. i \in 0 .. Nodes /\ "a" \in Field
    BY DEF Field
  <2>2. Next(i) \in Place /\ Next(i) # Arg("a")
    BY <2>1, PlaceFacts, PlacesDiffer
  <2>3. Next(i) = <<"next", i>>
    BY DEF Next
  <2>. QED  BY <2>2, <2>3 DEF NativeMemory, MakesLists
<1>5. ASSUME NEW i \in 0 .. Nodes + 1
      PROVE  m[Datum(i)] = IF i \in (1 .. k) \ nulls THEN Native(i) ELSE mem[Datum(i)]
  <2>2. Datum(i) \in Place /\ Datum(i) # Arg("a")
    BY PlaceFacts, PlacesDiffer DEF Field
  <2>3. Datum(i) = <<"data", i>>
    BY DEF Datum
  <2>. QED  BY <2>2, <2>3 DEF NativeMemory
<1>6. m = [p \in Place |-> m[p]]
  BY DEF NativeMemory
<1> HIDE DEF m
<1>7. \A i \in 0 .. Nodes + 1 : Native(i) \in Pointer
  BY PointerFacts
<1>8. ASSUME NEW p \in Place PROVE m[p] \in Pointer
  <2>1. CASE \E f \in Field : p = Arg(f)
    BY <1>0, <1>1, <1>2, <2>1 DEF Field
  <2>2. CASE \E i \in 0 .. Nodes : p = Next(i)
    <3>1. PICK i \in 0 .. Nodes : p = Next(i)
      BY <2>2
    <3>2. CASE i = 0
      BY <1>0, <1>3, <3>1, <3>2
    <3>3. CASE i \in 1 .. Nodes
      <4>1. i - 1 \in 0 .. Nodes + 1
        BY <3>3
      <4>. QED  BY <1>0, <1>4, <1>7, <3>1, <3>3, <4>1
    <3>. QED  BY <3>2, <3>3
  <2>3. CASE \E i \in 0 .. Nodes + 1 : p = Datum(i)
    BY <1>0, <1>5, <1>7, <2>3
  <2>. QED  BY <2>1, <2>2, <2>3, PlaceFacts
<1>9. m \in [Place -> Pointer]
  BY <1>6, <1>8
<1>. QED  BY <1>1, <1>2, <1>3, <1>4, <1>5, <1>9 DEF m

(* A native that makes a list or an array is given a cell and nothing      *)
(* else.                                                                   *)
LEMMA CellNativeFacts ==
  ASSUME PointersInv, native \in MakesLists \cup MakesArrays
  PROVE  /\ args[1] = Arg("a")
         /\ \A k \in 0 .. Nodes : was[Next(k)] = Nil
         /\ \A k \in 0 .. Nodes + 1 : was[Datum(k)] = Nil
         /\ \A f \in {"b", "c", "d"} : was[Arg(f)].conv = 0
<1>1. native \in CellNatives /\ native \notin MayBeNull
  BY DEF MakesLists, MakesArrays, CellNatives, MayBeNull, ListNatives, WconfigNatives
<1>2. args[1] = Arg("a")
  BY <1>1, ArgPlaces DEF PointersInv, Passed
<1>3. /\ \A k \in 1 .. Nodes : was[Next(k)] = Nil
      /\ \A k \in 1 .. Nodes + 1 : was[Datum(k)] = Nil
      /\ was[Zero] = Nil /\ was[Datum(0)] = Nil
  BY <1>1 DEF PointersInv, Passed
<1>4. /\ \A k \in 0 .. Nodes : k = 0 \/ k \in 1 .. Nodes
      /\ \A k \in 0 .. Nodes + 1 : k = 0 \/ k \in 1 .. Nodes + 1
  BY NodesAssumption
<1>5. \A f \in {"b", "c", "d"} : was[Arg(f)].conv = 0
  BY WasFacts, PlaceFacts DEF Field
<1>. QED  BY <1>2, <1>3, <1>4, <1>5, PlaceFacts

(* Nothing is converted when it begins.                                    *)
LEMMA MakesBegins ==
  ASSUME PointersInv, native \in MakesLists \cup MakesArrays, GlueBegins(native, {})
  PROVE  PointersInv'
<1>1. /\ step = "called" /\ step' = "native" /\ mem = was
      /\ mem' = [p \in Place |-> was[p]]
      /\ native' = native /\ args' = args /\ was' = was /\ count' = count /\ lens' = lens
      /\ cur' = cur /\ ok' = ok /\ freed' = freed
      /\ Quiet /\ UNCHANGED pointerArgs
  BY DEF GlueBegins, Go, PointersInv, Kept, pointerArgs, AppToNativeAddrs
<1>2. mem' = was
  BY <1>1, WasFacts
<1>3. Passed'
  BY <1>1, PassedStays DEF PointersInv
<1>4. Kept'
  BY <1>1, <1>2, NativesApart, WasFacts DEF PointersInv, Kept, AppSeesApp, NullLeftAlone
<1>5. MakesListInv' /\ MakesArrayInv'
  BY <1>1, <1>2 DEF MakesListInv, MakesArrayInv, Quiet
<1>. QED
  BY <1>1, <1>3, <1>4, <1>5, NativesApart DEF PointersInv, StraightInv, GivenListInv, GivenArrayInv

(* The native function has made a list, or has failed.                     *)
LEMMA MakesListGives ==
  ASSUME PointersInv, native \in MakesLists,
         Gives(native, ListOf, 1 .. Nodes, {Nil, mem[args[1]]})
  PROVE  PointersInv'
<1>. USE NodesAssumption
<1>1. /\ step = "native" /\ step' = "out" /\ mem = was
      /\ native' = native /\ args' = args /\ was' = was /\ lens' = lens /\ freed' = freed
      /\ cur' = mem'[args[1]] /\ freed = {}
      /\ UNCHANGED pointerArgs
  BY DEF Gives, Go, pointerArgs, PointersInv, MakesListInv, Quiet
<1>2. /\ args[1] = Arg("a")
      /\ \A i \in 0 .. Nodes : was[Next(i)] = Nil
      /\ \A i \in 0 .. Nodes + 1 : was[Datum(i)] = Nil
  BY CellNativeFacts
<1>3. Zero = Next(0) /\ 0 \in 0 .. Nodes /\ 0 \in 0 .. Nodes + 1
  BY PlaceFacts
<1>4. Nil \in Pointer /\ Nil.conv = 0 /\ \A i \in 0 .. Nodes + 1 :
          /\ Native(i) \in Pointer /\ Native(i).to = i /\ Native(i) # Nil
  BY PointerFacts, ConversionFacts
<1>5. Passed'
  BY <1>1, PassedStays DEF PointersInv
<1>6. CASE /\ \E p \in {Nil, mem[args[1]]} : mem' = [mem EXCEPT ![args[1]] = p]
           /\ count' = count /\ ok' = FALSE
  <2>1. PICK p \in {Nil, was[Arg("a")]} : mem' = [was EXCEPT ![Arg("a")] = p]
    BY <1>1, <1>2, <1>6
  <2>2. Arg("a") \in Place
    BY PlaceFacts DEF Field
  <2>3. p \in Pointer /\ p.conv = 0
    BY <1>4, <2>1, <2>2, WasFacts
  <2>4. mem' \in [Place -> Pointer] /\ cur' = p
    BY <1>1, <1>2, <2>1, <2>2, <2>3, WasFacts
  <2>5. /\ \A f \in {"b", "c", "d"} : mem'[Arg(f)] = was[Arg(f)]
        /\ \A i \in 0 .. Nodes : mem'[Next(i)] = was[Next(i)]
        /\ \A i \in 0 .. Nodes + 1 : mem'[Datum(i)] = was[Datum(i)]
    <3>1. \A q \in Place : q # Arg("a") => mem'[q] = was[q]
      BY <2>1
    <3>2. /\ \A f \in {"b", "c", "d"} : Arg(f) \in Place /\ Arg(f) # Arg("a")
          /\ \A i \in 0 .. Nodes : Next(i) \in Place /\ Next(i) # Arg("a")
          /\ \A i \in 0 .. Nodes + 1 : Datum(i) \in Place /\ Datum(i) # Arg("a")
      BY PlaceFacts, PlacesDiffer DEF Field
    <3>. QED  BY <3>1, <3>2
  <2>6. mem'[Zero] = Nil /\ mem'[Datum(0)] = Nil /\ mem'[Datum(Nodes + 1)] = Nil
    BY <1>2, <1>3, <2>5
  <2>7. Kept'
    BY <1>1, <1>6, <2>3, <2>4, <2>6, NativesApart DEF PointersInv, Kept, AppSeesApp, NullLeftAlone
  <2>8. mem'[Arg("a")] = p
    BY <2>1, <2>2, WasFacts
  <2>9. \A k \in 1 .. Nodes : mem'[Next(k)] = Nil /\ mem'[Datum(k)] = Nil
    BY <1>2, <2>5
  <2>10. MakesListInv'
    BY <1>1, <1>6, <2>3, <2>4, <2>5, <2>6, <2>8, <2>9 DEF MakesListInv
  <2>. QED
    BY <1>1, <1>5, <2>7, <2>10, NativesApart
    DEF PointersInv, StraightInv, MakesArrayInv, GivenListInv, GivenArrayInv
<1>7. CASE \E k \in 0 .. Nodes, nulls \in SUBSET (1 .. Nodes) :
              /\ nulls \subseteq (1 .. Nodes) \cap 1 .. k
              /\ mem' = NativeMemory(k, nulls, ListOf[k])
              /\ count' = k /\ ok' = TRUE
  <2>1. PICK k \in 0 .. Nodes, nulls \in SUBSET (1 .. Nodes) :
              mem' = NativeMemory(k, nulls, ListOf[k]) /\ count' = k /\ ok' = TRUE
    BY <1>7, Zenon
  <2> DEFINE first == ListOf[k]
  <2>2. first = IF k = 0 THEN Nil ELSE Native(k)
    BY DEF ListOf
  <2>3. first \in Pointer
    BY <1>4, <2>2
  <2> HIDE DEF first
  <2>4. mem' = NativeMemory(k, nulls, first)
    BY <2>1 DEF first
  <2>5. /\ mem' \in [Place -> Pointer]
        /\ mem'[Arg("a")] = first
        /\ \A f \in {"b", "c", "d"} : mem'[Arg(f)] = was[Arg(f)]
        /\ mem'[Next(0)] = was[Next(0)]
        /\ \A i \in 1 .. Nodes : mem'[Next(i)] = IF i \in 2 .. k THEN Native(i - 1) ELSE was[Next(i)]
        /\ \A i \in 0 .. Nodes + 1 :
              mem'[Datum(i)] = IF i \in (1 .. k) \ nulls THEN Native(i) ELSE was[Datum(i)]
    BY <1>1, <1>2, <2>3, <2>4, NativeMemoryIs
  <2>6. mem'[Zero] = Nil /\ mem'[Datum(0)] = Nil /\ mem'[Datum(Nodes + 1)] = Nil
    <3>1. 0 \notin 1 .. k /\ Nodes + 1 \notin 1 .. k /\ Nodes + 1 \in 0 .. Nodes + 1
      OBVIOUS
    <3>. QED  BY <1>2, <1>3, <2>5, <3>1
  <2>7. Kept'
    BY <1>1, <1>2, <2>1, <2>3, <2>5, <2>6, NativesApart DEF PointersInv, Kept, AppSeesApp, NullLeftAlone
  <2>8. cur' = first /\ (cur' # Nil => cur'.to = k) /\ (k # 0 => cur' # Nil)
    BY <1>1, <1>2, <1>4, <2>2, <2>5
  <2>9. ASSUME NEW i \in 1 .. Nodes
        PROVE  /\ mem'[Next(i)] = IF i = 1 \/ i > k THEN Nil
                                  ELSE IF cur' # Nil /\ i <= cur'.to THEN Native(i - 1)
                                  ELSE App(i - 1)
               /\ mem'[Datum(i)] \in {Nil, IF cur' # Nil /\ i <= cur'.to THEN Native(i) ELSE App(i)}
    <3>1. mem'[Next(i)] = IF i \in 2 .. k THEN Native(i - 1) ELSE Nil
      BY <1>2, <2>5
    <3>2. mem'[Datum(i)] = IF i \in (1 .. k) \ nulls THEN Native(i) ELSE Nil
      <4>1. i \in 0 .. Nodes + 1
        OBVIOUS
      <4>. QED  BY <1>2, <2>5, <4>1
    <3>3. CASE i <= k
      BY <2>8, <3>1, <3>2, <3>3
    <3>4. CASE i > k
      BY <2>8, <3>1, <3>2, <3>4
    <3>. QED  BY <3>3, <3>4
  <2>10. cur' = Nil \/ cur' \in {Native(i) : i \in 1 .. k}
    BY <2>2, <2>8
  <2>11. mem'[Arg("a")] \in {Nil} \cup {Native(i) : i \in 1 .. Nodes}
    BY <2>2, <2>5
  <2>12. MakesListInv'
    BY <1>1, <2>1, <2>5, <2>6, <2>9, <2>10, <2>11 DEF MakesListInv
  <2>. QED
    BY <1>1, <1>5, <2>7, <2>12, NativesApart
    DEF PointersInv, StraightInv, MakesArrayInv, GivenListInv, GivenArrayInv
<1>. QED  BY <1>6, <1>7 DEF Gives

(* Which places are an element's.                                          *)
LEMMA ElementPlaces ==
  /\ \A f \in Field, j \in Nat : Arg(f) \notin {Datum(j)} /\ Arg(f) \notin {Next(j)}
  /\ \A k, j \in Nat : (Next(k) \in {Next(j)} <=> k = j) /\ Next(k) \notin {Datum(j)}
  /\ \A k, j \in Nat : (Datum(k) \in {Datum(j)} <=> k = j) /\ Datum(k) \notin {Next(j)}
BY PlacesDiffer

(* The walk turns back an element's datum and its next, and goes on by the *)
(* native pointer it has saved: the elements before are the application's, *)
(* the others still native.                                                *)
LEMMA MakesListVisits ==
  ASSUME PointersInv, native \in MakesLists, cur # Nil, VisitToApp(native, {Datum(cur.to)})
  PROVE  PointersInv'
<1>. USE NodesAssumption
<1> DEFINE j == cur.to
           S == {Datum(j)} \cup {Next(j)}
<1>1. /\ step = "out" /\ step' = "out" /\ cur.conv = 1
      /\ mem' = NativeToAppAddrs(mem, S) /\ cur' = mem[Next(j)]
      /\ native' = native /\ args' = args /\ was' = was /\ lens' = lens /\ freed' = freed
      /\ count' = count /\ ok' = ok
      /\ UNCHANGED pointerArgs
  BY DEF VisitToApp, Visiting, pointerArgs
<1>2. ok = TRUE
  BY <1>1 DEF PointersInv, MakesListInv, Kept
<1>3. /\ freed = {} /\ mem \in [Place -> Pointer] /\ count \in 0 .. Nodes
      /\ lens \in [{"b", "c"} -> BOOLEAN]
      /\ \A f \in {"b", "c", "d"} : mem[Arg(f)] = was[Arg(f)]
      /\ mem[Zero] = Nil /\ mem[Datum(0)] = Nil /\ mem[Datum(Nodes + 1)] = Nil
      /\ cur \in {Native(k) : k \in 1 .. count}
      /\ mem[Arg("a")] \in {Nil} \cup {Native(k) : k \in 1 .. Nodes}
      /\ \A k \in 1 .. Nodes :
           /\ mem[Next(k)] = IF k = 1 \/ k > count THEN Nil
                             ELSE IF k <= j THEN Native(k - 1) ELSE App(k - 1)
           /\ mem[Datum(k)] \in {Nil, IF k <= j THEN Native(k) ELSE App(k)}
  BY <1>1, <1>2 DEF PointersInv, MakesListInv, Kept
<1>4. /\ \A k \in 0 .. Nodes + 1 : /\ Native(k) \in Pointer /\ App(k) \in Pointer
                                  /\ Native(k).to = k /\ Native(k) # Nil
                                  /\ NativeToAppAddr(Native(k)) = App(k)
      /\ Nil \in Pointer /\ NativeToAppAddr(Nil) = Nil
  BY PointerFacts, ConversionFacts
<1>5. j \in 1 .. count /\ j \in 1 .. Nodes
  BY <1>3, <1>4
<1>6. \A p \in Place : mem'[p] = IF p \in S THEN NativeToAppAddr(mem[p]) ELSE mem[p]
  BY <1>1 DEF NativeToAppAddrs
<1>7. /\ \A f \in Field : Arg(f) \notin S /\ Arg(f) \in Place
      /\ \A k \in 0 .. Nodes : Next(k) \in Place /\ (Next(k) \in S <=> k = j)
      /\ \A k \in 0 .. Nodes + 1 : Datum(k) \in Place /\ (Datum(k) \in S <=> k = j)
      /\ \A f \in {"a", "b", "c", "d"} : f \in Field
      /\ 0 \in 0 .. Nodes /\ 0 \in 0 .. Nodes + 1 /\ Nodes + 1 \in 0 .. Nodes + 1
      /\ Zero = Next(0) /\ j # 0 /\ j # Nodes + 1
      /\ \A k \in 1 .. Nodes : k \in 0 .. Nodes /\ k \in 0 .. Nodes + 1 /\ k - 1 \in 0 .. Nodes + 1
  <2>1. /\ \A f \in Field : Arg(f) \notin S
        /\ \A k \in 0 .. Nodes : Next(k) \in S <=> k = j
        /\ \A k \in 0 .. Nodes + 1 : Datum(k) \in S <=> k = j
    BY <1>5, ElementPlaces
  <2>. QED  BY <1>5, <2>1, PlaceFacts DEF Field
<1>8. cur' = IF j = 1 THEN Nil ELSE Native(j - 1)
  BY <1>1, <1>3, <1>5
<1>9. cur' = Nil \/ cur' \in {Native(k) : k \in 1 .. count}
  <2>1. j # 1 => j - 1 \in 1 .. count
    BY <1>3, <1>5
  <2>. QED  BY <1>8, <2>1
<1> HIDE DEF S
<1>10. ASSUME NEW k \in 1 .. Nodes
       PROVE  /\ mem'[Next(k)] = IF k = 1 \/ k > count THEN Nil
                                 ELSE IF k <= j - 1 THEN Native(k - 1) ELSE App(k - 1)
              /\ mem'[Datum(k)] \in {Nil, IF k <= j - 1 THEN Native(k) ELSE App(k)}
              /\ mem'[Next(k)] \in Pointer /\ mem'[Datum(k)] \in Pointer
  <2>0. k \in 0 .. Nodes /\ k \in 0 .. Nodes + 1 /\ k - 1 \in 0 .. Nodes + 1
    OBVIOUS
  <2>1. CASE k = j
    <3>1. mem'[Next(k)] = NativeToAppAddr(mem[Next(k)]) /\ mem'[Datum(k)] = NativeToAppAddr(mem[Datum(k)])
      BY <1>6, <1>7, <2>0, <2>1
    <3>2. mem'[Next(k)] = IF k = 1 THEN Nil ELSE App(k - 1)
      BY <1>3, <1>4, <1>5, <2>0, <2>1, <3>1
    <3>3. mem'[Datum(k)] \in {Nil, App(k)}
      BY <1>3, <1>4, <1>5, <2>0, <2>1, <3>1
    <3>4. k <= count /\ ~(k <= j - 1)
      BY <1>3, <1>5, <2>1
    <3>5. App(k) \in Pointer /\ App(k - 1) \in Pointer /\ Nil \in Pointer
      BY <1>4, <2>0
    <3>6. ~(k > count)
      BY <1>3, <3>4
    <3>. QED  BY <3>2, <3>3, <3>4, <3>5, <3>6, Zenon
  <2>2. CASE k # j
    <3>1. mem'[Next(k)] = mem[Next(k)] /\ mem'[Datum(k)] = mem[Datum(k)]
      BY <1>6, <1>7, <2>0, <2>2
    <3>2. k <= j <=> k <= j - 1
      BY <1>5, <2>2
    <3>. QED  BY <1>3, <1>4, <2>0, <3>1, <3>2
  <2>. QED  BY <2>1, <2>2
<1>11. /\ mem'[Zero] = Nil /\ mem'[Datum(0)] = Nil /\ mem'[Datum(Nodes + 1)] = Nil
       /\ \A f \in Field : mem'[Arg(f)] = mem[Arg(f)]
  BY <1>3, <1>6, <1>7
<1>12. mem' \in [Place -> Pointer]
  <2>1. \A p \in Place : mem'[p] \in Pointer
    <3>1. \A k \in 0 .. Nodes : mem'[Next(k)] \in Pointer
      <4>1. \A k \in 0 .. Nodes : k = 0 \/ k \in 1 .. Nodes
        OBVIOUS
      <4>. QED  BY <1>4, <1>7, <1>10, <1>11, <4>1
    <3>2. \A k \in 0 .. Nodes + 1 : mem'[Datum(k)] \in Pointer
      <4>1. \A k \in 0 .. Nodes + 1 : k = 0 \/ k \in 1 .. Nodes \/ k = Nodes + 1
        OBVIOUS
      <4>. QED  BY <1>4, <1>10, <1>11, <4>1
    <3>. QED  BY <1>3, <1>7, <1>11, <3>1, <3>2, PlaceFacts
  <2>. QED  BY <1>1, <2>1 DEF NativeToAppAddrs
<1>13. cur' # Nil => cur'.to = j - 1
  BY <1>4, <1>5, <1>7, <1>8
<1>14. cur' = Nil => j = 1
  BY <1>4, <1>5, <1>7, <1>8
<1>15. cur' \in Pointer
  BY <1>4, <1>5, <1>7, <1>8
<1>16. ASSUME NEW k \in 1 .. Nodes
       PROVE  /\ mem'[Next(k)] = IF k = 1 \/ k > count THEN Nil
                                 ELSE IF cur' # Nil /\ k <= cur'.to THEN Native(k - 1) ELSE App(k - 1)
              /\ mem'[Datum(k)] \in {Nil, IF cur' # Nil /\ k <= cur'.to THEN Native(k) ELSE App(k)}
  <2>1. k <= j - 1 <=> cur' # Nil /\ k <= cur'.to
    BY <1>5, <1>13, <1>14
  <2>. QED  BY <1>10, <2>1
<1>17. Passed'
  BY <1>1, PassedStays DEF PointersInv
<1>18. Kept'
  BY <1>1, <1>2, <1>3, <1>11, <1>12, <1>15, NativesApart DEF PointersInv, Kept, AppSeesApp, NullLeftAlone
<1>19. MakesListInv'
  <2>1. /\ \A f \in {"b", "c", "d"} : mem'[Arg(f)] = was[Arg(f)]
        /\ mem'[Arg("a")] \in {Nil} \cup {Native(k) : k \in 1 .. Nodes}
    BY <1>3, <1>7, <1>11
  <2>. QED  BY <1>1, <1>2, <1>3, <1>9, <1>11, <1>16, <2>1 DEF MakesListInv
<1>. QED
  BY <1>1, <1>17, <1>18, <1>19, NativesApart
  DEF PointersInv, StraightInv, MakesArrayInv, GivenListInv, GivenArrayInv

(* A loop is left: the cell that points to what has been made is           *)
(* converted, and perhaps more.                                            *)
LEMMA MakesLeaves ==
  ASSUME PointersInv, native \in MakesLists \cup MakesArrays, NEW S, Leave(native, S),
         S \subseteq Place, args[1] \in S, Zero \notin S, Datum(0) \notin S,
         native \in MakesLists => cur = Nil,
         \A p \in S : mem[p].conv = 1 \/ mem[p] = Nil \/ (p = args[1] /\ ~ok /\ mem[p].conv = 0),
         \A p \in Place \ S : mem[p].conv = 0
  PROVE  PointersInv'
<1>1. /\ step = "out" /\ step' = "returned"
      /\ mem' = NativeToAppAddrs(mem, S)
      /\ native' = native /\ args' = args /\ was' = was /\ lens' = lens /\ freed' = freed
      /\ count' = count /\ ok' = ok /\ cur' = cur
      /\ UNCHANGED pointerArgs
  BY DEF Leave, Go, pointerArgs
<1>2. \A p \in Place : mem'[p] = IF p \in S THEN NativeToAppAddr(mem[p]) ELSE mem[p]
  BY <1>1 DEF NativeToAppAddrs
<1>3. mem \in [Place -> Pointer] /\ ok \in BOOLEAN
  BY DEF PointersInv, Kept
<1>4. ASSUME NEW p \in Place
      PROVE  mem'[p] \in Pointer /\ (mem'[p].conv = 0 \/ (p = args[1] /\ ~ok))
  <2>1. mem[p] \in Pointer
    BY <1>3
  <2>2. CASE p \in S /\ mem[p].conv = 1
    <3>1. mem'[p] = NativeToAppAddr(mem[p])
      BY <1>2, <2>2
    <3>2. mem'[p] \in Pointer /\ mem'[p].conv = 0
      BY <2>1, <2>2, <3>1, ConversionFacts
    <3>. QED  BY <3>2, Zenon
  <2>3. CASE p \in S /\ mem[p] = Nil
    <3>1. mem'[p] = Nil
      BY <1>2, <2>3, ConversionFacts
    <3>2. mem'[p] \in Pointer /\ mem'[p].conv = 0
      BY <3>1, ConversionFacts
    <3>. QED  BY <3>2, Zenon
  <2>4. CASE p \in S /\ p = args[1] /\ ~ok /\ mem[p].conv = 0
    BY <1>2, <2>1, <2>4, ConversionFacts
  <2>5. CASE p \notin S
    <3>1. mem'[p] = mem[p]
      BY <1>2, <2>5
    <3>2. mem[p].conv = 0
      BY <2>5, Zenon
    <3>. QED  BY <2>1, <3>1, <3>2, Zenon
  <2>. QED  BY <2>2, <2>3, <2>4, <2>5
<1>5. mem' \in [Place -> Pointer]
  BY <1>1, <1>4 DEF NativeToAppAddrs
<1>6. mem'[Zero] = mem[Zero] /\ mem'[Datum(0)] = mem[Datum(0)]
  BY <1>2, ArgPlaces DEF PointersInv
<1>7. mem[Zero] = Nil /\ mem[Datum(0)] = Nil
  <2>1. native \notin {"strtol", "iconv", "freeifaddrs"}
    BY DEF MakesLists, MakesArrays
  <2>. QED  BY <2>1 DEF PointersInv, Kept, NullLeftAlone
<1>8. AppSeesApp'
  BY <1>1, <1>3, <1>4 DEF AppSeesApp, Unreliable
<1>9. Passed'
  BY <1>1, PassedStays DEF PointersInv
<1>10. Kept'
  BY <1>1, <1>5, <1>6, <1>7, <1>8, NativesApart DEF PointersInv, Kept, NullLeftAlone
<1>11. MakesListInv' /\ MakesArrayInv'
  BY <1>1 DEF PointersInv, MakesListInv, MakesArrayInv
<1>. QED
  BY <1>1, <1>9, <1>10, <1>11, NativesApart
  DEF PointersInv, StraightInv, GivenListInv, GivenArrayInv

(* getaddrinfo and getifaddrs keep the invariant. A walk ends only at the  *)
(* last element, so that all of them are the application's when the cell   *)
(* is turned back.                                                         *)
THEOREM MakesListStep ==
  ASSUME PointersInv, native \in MakesLists, PointerNext
  PROVE  PointersInv'
<1>. USE NodesAssumption
<1>1. \/ GlueBegins(native, {})
      \/ Gives(native, ListOf, 1 .. Nodes, {Nil, mem[args[1]]})
      \/ cur # Nil /\ VisitToApp(native, {Datum(cur.to)})
      \/ cur = Nil /\ Leave(native, {args[1]})
  BY StepIsOfNative DEF MakesLists, Getaddrinfo, Getifaddrs, Addrinfo2App, Ifaddrsinfo2App
<1>2. CASE cur = Nil /\ Leave(native, {args[1]})
  <2>1. step = "out"
    BY <1>2 DEF Leave, Go
  <2>2. args[1] = Arg("a")
    BY CellNativeFacts
  <2>3. args[1] \in Place /\ Zero \notin {args[1]} /\ Datum(0) \notin {args[1]}
    BY <2>2, ArgPlaces DEF PointersInv
  <2>4. /\ Nil.conv = 0 /\ \A k \in 0 .. Nodes + 1 : Native(k).conv = 1 /\ App(k).conv = 0
    BY PointerFacts, ConversionFacts
  <2>5. /\ \A f \in {"b", "c", "d"} : mem[Arg(f)] = was[Arg(f)]
        /\ mem[Zero] = Nil /\ mem[Datum(0)] = Nil /\ mem[Datum(Nodes + 1)] = Nil
        /\ ok => /\ mem[Arg("a")] \in {Nil} \cup {Native(k) : k \in 1 .. Nodes}
                 /\ \A k \in 1 .. Nodes : /\ mem[Next(k)] \in {Nil, App(k - 1)}
                                         /\ mem[Datum(k)] \in {Nil, App(k)}
        /\ ~ok => /\ mem[Arg("a")].conv = 0
                  /\ \A k \in 1 .. Nodes : mem[Next(k)] = Nil /\ mem[Datum(k)] = Nil
        /\ ok \in BOOLEAN
    BY <1>2, <2>1 DEF PointersInv, MakesListInv, Kept
  <2>6. /\ ok => mem[Arg("a")].conv = 1 \/ mem[Arg("a")] = Nil
        /\ \A k \in 1 .. Nodes : mem[Next(k)].conv = 0 /\ mem[Datum(k)].conv = 0
        /\ mem[Next(0)].conv = 0 /\ mem[Datum(0)].conv = 0 /\ mem[Datum(Nodes + 1)].conv = 0
        /\ \A f \in {"b", "c", "d"} : mem[Arg(f)].conv = 0
    <3>1. \A k \in 1 .. Nodes : k \in 0 .. Nodes + 1 /\ k - 1 \in 0 .. Nodes + 1
      OBVIOUS
    <3>2. \A k \in 1 .. Nodes : mem[Next(k)].conv = 0 /\ mem[Datum(k)].conv = 0
      BY <2>4, <2>5, <3>1
    <3>3. ok => mem[Arg("a")].conv = 1 \/ mem[Arg("a")] = Nil
      BY <2>4, <2>5, <3>1
    <3>4. \A f \in {"b", "c", "d"} : mem[Arg(f)].conv = 0
      BY <2>5, CellNativeFacts
    <3>. QED  BY <2>4, <2>5, <3>2, <3>3, <3>4, PlaceFacts
  <2>7. ASSUME NEW p \in Place \ {args[1]} PROVE mem[p].conv = 0
    <3>1. CASE \E f \in Field : p = Arg(f)
      BY <2>2, <2>6, <3>1 DEF Field
    <3>2. CASE \E k \in 0 .. Nodes : p = Next(k)
      <4>1. \A k \in 0 .. Nodes : k = 0 \/ k \in 1 .. Nodes
        OBVIOUS
      <4>. QED  BY <2>6, <3>2, <4>1
    <3>3. CASE \E k \in 0 .. Nodes + 1 : p = Datum(k)
      <4>1. \A k \in 0 .. Nodes + 1 : k = 0 \/ k \in 1 .. Nodes \/ k = Nodes + 1
        OBVIOUS
      <4>. QED  BY <2>6, <3>3, <4>1
    <3>. QED  BY <3>1, <3>2, <3>3, PlaceFacts
  <2>8. mem[args[1]].conv = 1 \/ mem[args[1]] = Nil \/ (~ok /\ mem[args[1]].conv = 0)
    BY <2>2, <2>5, <2>6
  <2>9. \A p \in {args[1]} :
           mem[p].conv = 1 \/ mem[p] = Nil \/ (p = args[1] /\ ~ok /\ mem[p].conv = 0)
    BY <2>8
  <2>. QED  BY <1>2, <2>3, <2>7, <2>9, MakesLeaves
<1>. QED  BY <1>1, <1>2, MakesBegins, MakesListGives, MakesListVisits

(* The native function has made an array, or has failed.                   *)
LEMMA MakesArrayGives ==
  ASSUME PointersInv, native \in MakesArrays,
         NEW failed, Gives(native, ArrayOf, {}, {failed}),
         failed = IF native = "scandir" THEN mem[args[1]] ELSE Nil
  PROVE  PointersInv'
<1>. USE NodesAssumption
<1>1. /\ step = "native" /\ step' = "out" /\ mem = was
      /\ native' = native /\ args' = args /\ was' = was /\ lens' = lens /\ freed' = freed
      /\ cur' = mem'[args[1]] /\ freed = {}
      /\ UNCHANGED pointerArgs
  BY DEF Gives, Go, pointerArgs, PointersInv, MakesArrayInv, Quiet
<1>2. /\ args[1] = Arg("a")
      /\ \A i \in 0 .. Nodes : was[Next(i)] = Nil
      /\ \A i \in 0 .. Nodes + 1 : was[Datum(i)] = Nil
  BY CellNativeFacts
<1>3. Zero = Next(0) /\ 0 \in 0 .. Nodes /\ 0 \in 0 .. Nodes + 1
  BY PlaceFacts
<1>4. Nil \in Pointer /\ Nil.conv = 0 /\ \A i \in 0 .. Nodes + 1 :
          /\ Native(i) \in Pointer /\ Native(i).to = i /\ Native(i) # Nil
  BY PointerFacts, ConversionFacts
<1>5. Passed'
  BY <1>1, PassedStays DEF PointersInv
<1>6. CASE /\ mem' = [mem EXCEPT ![args[1]] = failed]
           /\ count' = count /\ ok' = FALSE
  <2>1. mem' = [was EXCEPT ![Arg("a")] = failed]
    BY <1>1, <1>2, <1>6
  <2>2. Arg("a") \in Place
    BY PlaceFacts DEF Field
  <2>3. failed \in Pointer /\ failed.conv = 0
    BY <1>1, <1>2, <1>4, <2>2, WasFacts
  <2>4. mem' \in [Place -> Pointer] /\ cur' = failed /\ mem'[Arg("a")] = failed
    BY <1>1, <1>2, <2>1, <2>2, <2>3, WasFacts
  <2>5. /\ \A f \in {"b", "c", "d"} : mem'[Arg(f)] = was[Arg(f)]
        /\ \A i \in 0 .. Nodes : mem'[Next(i)] = was[Next(i)]
        /\ \A i \in 0 .. Nodes + 1 : mem'[Datum(i)] = was[Datum(i)]
    <3>1. \A q \in Place : q # Arg("a") => mem'[q] = was[q]
      BY <2>1
    <3>2. /\ \A f \in {"b", "c", "d"} : Arg(f) \in Place /\ Arg(f) # Arg("a")
          /\ \A i \in 0 .. Nodes : Next(i) \in Place /\ Next(i) # Arg("a")
          /\ \A i \in 0 .. Nodes + 1 : Datum(i) \in Place /\ Datum(i) # Arg("a")
      BY PlaceFacts, PlacesDiffer DEF Field
    <3>. QED  BY <3>1, <3>2
  <2>6. mem'[Zero] = Nil /\ mem'[Datum(0)] = Nil
    BY <1>2, <1>3, <2>5
  <2>7. Kept'
    BY <1>1, <1>6, <2>3, <2>4, <2>6, NativesApart DEF PointersInv, Kept, AppSeesApp, NullLeftAlone
  <2>8. \A k \in 1 .. Nodes + 1 : mem'[Datum(k)] = Nil
    BY <1>2, <2>5
  <2>9. \A k \in 0 .. Nodes : mem'[Next(k)] = Nil
    BY <1>2, <2>5
  <2>10. MakesArrayInv'
    BY <1>1, <1>6, <2>3, <2>4, <2>5, <2>6, <2>8, <2>9 DEF MakesArrayInv
  <2>. QED
    BY <1>1, <1>5, <2>7, <2>10, NativesApart
    DEF PointersInv, StraightInv, MakesListInv, GivenListInv, GivenArrayInv
<1>7. CASE \E k \in 0 .. Nodes, nulls \in SUBSET (1 .. Nodes) :
              /\ nulls \subseteq {} \cap 1 .. k
              /\ mem' = NativeMemory(k, nulls, ArrayOf[k])
              /\ count' = k /\ ok' = TRUE
  <2>1. PICK k \in 0 .. Nodes, nulls \in SUBSET (1 .. Nodes) :
              /\ nulls \subseteq {} \cap 1 .. k
              /\ mem' = NativeMemory(k, nulls, ArrayOf[k])
              /\ count' = k /\ ok' = TRUE
    BY <1>7, Zenon
  <2>2. nulls = {}
    BY <2>1
  <2>3. ArrayOf[k] = Native(1) /\ Native(1) \in Pointer /\ Native(1).to = 1 /\ Native(1) # Nil
    BY <1>4 DEF ArrayOf
  <2>4. mem' = NativeMemory(k, nulls, Native(1))
    BY <2>1, <2>3
  <2>5. /\ mem' \in [Place -> Pointer]
        /\ mem'[Arg("a")] = Native(1)
        /\ \A f \in {"b", "c", "d"} : mem'[Arg(f)] = was[Arg(f)]
        /\ mem'[Next(0)] = was[Next(0)]
        /\ \A i \in 1 .. Nodes : mem'[Next(i)] = was[Next(i)]
        /\ \A i \in 0 .. Nodes + 1 :
              mem'[Datum(i)] = IF i \in (1 .. k) \ nulls THEN Native(i) ELSE was[Datum(i)]
    <3>1. native \notin MakesLists
      BY NativesApart
    <3> DEFINE m == NativeMemory(k, nulls, Native(1))
    <3>2. /\ m \in [Place -> Pointer]
          /\ m[Arg("a")] = Native(1)
          /\ \A f \in {"b", "c", "d"} : m[Arg(f)] = mem[Arg(f)]
          /\ m[Next(0)] = mem[Next(0)]
          /\ \A i \in 1 .. Nodes :
                m[Next(i)] = IF native \in MakesLists /\ i \in 2 .. k THEN Native(i - 1)
                             ELSE mem[Next(i)]
          /\ \A i \in 0 .. Nodes + 1 :
                m[Datum(i)] = IF i \in (1 .. k) \ nulls THEN Native(i) ELSE mem[Datum(i)]
      BY <1>2, <2>3, NativeMemoryIs
    <3>3. mem' = m
      BY <2>4
    <3> HIDE DEF m
    <3>. QED  BY <1>1, <3>1, <3>2, <3>3
  <2>6. mem'[Zero] = Nil /\ mem'[Datum(0)] = Nil
    <3>1. 0 \notin 1 .. k
      OBVIOUS
    <3>. QED  BY <1>2, <1>3, <2>5, <3>1
  <2>7. Kept'
    BY <1>1, <1>2, <2>1, <2>3, <2>5, <2>6, NativesApart DEF PointersInv, Kept, AppSeesApp, NullLeftAlone
  <2>8. cur' = Native(1) /\ cur'.to = 1
    BY <1>1, <1>2, <2>3, <2>5
  <2>9. ASSUME NEW i \in 1 .. Nodes + 1
        PROVE  mem'[Datum(i)] = IF i > k THEN Nil ELSE IF i < cur'.to THEN App(i) ELSE Native(i)
    <3>1. i \in 0 .. Nodes + 1 /\ ~(i < 1)
      OBVIOUS
    <3>2. mem'[Datum(i)] = IF i \in 1 .. k THEN Native(i) ELSE Nil
      BY <1>2, <2>2, <2>5, <3>1
    <3>. QED  BY <2>8, <3>1, <3>2
  <2>10. cur' \in {Native(i) : i \in 1 .. k + 1}
    BY <2>8
  <2>11. \A i \in 0 .. Nodes : mem'[Next(i)] = Nil
    <3>1. \A i \in 0 .. Nodes : i = 0 \/ i \in 1 .. Nodes
      OBVIOUS
    <3>. QED  BY <1>2, <2>5, <3>1
  <2>12. MakesArrayInv'
    BY <1>1, <2>1, <2>5, <2>6, <2>8, <2>9, <2>10, <2>11 DEF MakesArrayInv
  <2>. QED
    BY <1>1, <1>5, <2>7, <2>12, NativesApart
    DEF PointersInv, StraightInv, MakesListInv, GivenListInv, GivenArrayInv
<1>8. \/ \E k \in 0 .. Nodes, nulls \in SUBSET (1 .. Nodes) :
              /\ nulls \subseteq {} \cap 1 .. k
              /\ mem' = NativeMemory(k, nulls, ArrayOf[k])
              /\ count' = k /\ ok' = TRUE
      \/ /\ \E p \in {failed} : mem' = [mem EXCEPT ![args[1]] = p]
         /\ count' = count /\ ok' = FALSE
  BY Zenon DEF Gives
<1>. QED  BY <1>6, <1>7, <1>8

(* A memory is typed when it is at each kind of place.                     *)
LEMMA EveryPlace ==
  ASSUME NEW m, m = [p \in Place |-> m[p]],
         \A f \in Field : m[Arg(f)] \in Pointer,
         \A k \in 0 .. Nodes : m[Next(k)] \in Pointer,
         \A k \in 0 .. Nodes + 1 : m[Datum(k)] \in Pointer
  PROVE  m \in [Place -> Pointer]
<1>1. \A p \in Place : m[p] \in Pointer
  BY PlaceFacts
<1>. QED  BY <1>1

(* Where the walk over an array that was made is.                          *)
LEMMA ArrayFacts ==
  ASSUME PointersInv, native \in MakesArrays, step = "out"
  PROVE  /\ mem \in [Place -> Pointer] /\ count \in 0 .. Nodes /\ ok \in BOOLEAN /\ freed = {}
         /\ lens \in [{"b", "c"} -> BOOLEAN] /\ cur \in Pointer
         /\ \A f \in {"b", "c", "d"} : mem[Arg(f)] = was[Arg(f)]
         /\ \A k \in 0 .. Nodes : mem[Next(k)] = Nil
         /\ mem[Datum(0)] = Nil
         /\ ok => /\ cur \in {Native(k) : k \in 1 .. count + 1}
                  /\ mem[Arg("a")] = Native(1)
                  /\ native = "scandir" => cur = Native(1)
                  /\ \A k \in 1 .. Nodes + 1 :
                       mem[Datum(k)] = IF k > count THEN Nil
                                       ELSE IF k < cur.to THEN App(k) ELSE Native(k)
         /\ ~ok => /\ native = "scandir" \/ cur = Nil
                   /\ mem[Arg("a")].conv = 0
                   /\ \A k \in 1 .. Nodes + 1 : mem[Datum(k)] = Nil
BY DEF PointersInv, Kept, MakesArrayInv

(* The walk turns back a string, which is there, so that the next element  *)
(* is in the array or is the NULL that ends it.                            *)
LEMMA MakesArrayVisits ==
  ASSUME PointersInv, native = "dbus_connection_list_registered",
         Visiting(native, "out"), cur # Nil, mem[Datum(cur.to)] # Nil,
         mem' = NativeToAppAddrs(mem, {Datum(cur.to)}),
         cur' = Native(cur.to + 1),
         UNCHANGED <<pointerArgs, count, lens, step, ok, freed>>
  PROVE  PointersInv'
<1>. USE NodesAssumption
<1> DEFINE j == cur.to
           S == {Datum(j)}
<1>1. /\ step = "out" /\ step' = "out"
      /\ mem' = NativeToAppAddrs(mem, S) /\ cur' = Native(j + 1)
      /\ native' = native /\ args' = args /\ was' = was /\ lens' = lens /\ freed' = freed
      /\ count' = count /\ ok' = ok
      /\ UNCHANGED pointerArgs
  BY DEF Visiting, pointerArgs
<1>2. native \in MakesArrays /\ native # "scandir"
  BY DEF MakesArrays
<1>3. ok = TRUE
  BY <1>1, <1>2, ArrayFacts
<1>4. /\ cur \in {Native(k) : k \in 1 .. count + 1} /\ count \in 0 .. Nodes
      /\ mem[Arg("a")] = Native(1)
      /\ \A k \in 1 .. Nodes + 1 :
           mem[Datum(k)] = IF k > count THEN Nil ELSE IF k < j THEN App(k) ELSE Native(k)
  BY <1>1, <1>2, <1>3, ArrayFacts
<1>5. \A k \in 0 .. Nodes + 1 : /\ Native(k) \in Pointer /\ App(k) \in Pointer
                                /\ Native(k).to = k /\ NativeToAppAddr(Native(k)) = App(k)
  BY PointerFacts
<1>6. j \in 1 .. count
  <2>1. PICK k \in 1 .. count + 1 : cur = Native(k)
    BY <1>4
  <2>2. k \in 0 .. Nodes + 1 /\ k \in 1 .. Nodes + 1
    BY <1>4
  <2>3. j = k
    BY <1>5, <2>1, <2>2
  <2>4. ~(k > count)
    BY <1>4, <2>2, <2>3
  <2>. QED  BY <1>4, <2>3, <2>4
<1>7. \A p \in Place : mem'[p] = IF p \in S THEN NativeToAppAddr(mem[p]) ELSE mem[p]
  BY <1>1 DEF NativeToAppAddrs
<1>8. mem' = [p \in Place |-> mem'[p]]
  BY <1>1 DEF NativeToAppAddrs
<1>9. /\ \A f \in Field : Arg(f) \notin S /\ Arg(f) \in Place
      /\ \A k \in 0 .. Nodes : Next(k) \in Place /\ Next(k) \notin S
      /\ \A k \in 0 .. Nodes + 1 : Datum(k) \in Place /\ (Datum(k) \in S <=> k = j)
      /\ \A f \in {"a", "b", "c", "d"} : f \in Field
      /\ 0 \in 0 .. Nodes /\ 0 \in 0 .. Nodes + 1
      /\ Zero = Next(0) /\ j # 0
  <2>1. j \in Nat /\ j # 0
    BY <1>4, <1>6
  <2>. QED  BY <2>1, ElementPlaces, PlaceFacts DEF Field
<1> HIDE DEF S
<1>10. /\ \A f \in Field : mem'[Arg(f)] = mem[Arg(f)]
       /\ \A k \in 0 .. Nodes : mem'[Next(k)] = mem[Next(k)]
       /\ mem'[Datum(0)] = mem[Datum(0)]
  BY <1>7, <1>9
<1>11. ASSUME NEW k \in 1 .. Nodes + 1
       PROVE  /\ mem'[Datum(k)] = IF k > count THEN Nil
                                  ELSE IF k < j + 1 THEN App(k) ELSE Native(k)
              /\ mem'[Datum(k)] \in Pointer
  <2>1. k \in 0 .. Nodes + 1
    OBVIOUS
  <2>2. CASE k = j
    <3>1. mem[Datum(k)] = Native(k) /\ ~(k > count) /\ k < j + 1
      BY <1>4, <1>6, <2>2
    <3>2. mem'[Datum(k)] = App(k)
      BY <1>5, <1>7, <1>9, <2>1, <2>2, <3>1
    <3>. QED  BY <1>5, <2>1, <3>1, <3>2
  <2>3. CASE k # j
    <3>1. mem'[Datum(k)] = mem[Datum(k)]
      BY <1>7, <1>9, <2>1, <2>3
    <3>2. k < j <=> k < j + 1
      BY <1>4, <1>6, <2>3
    <3>3. mem[Datum(k)] \in Pointer
      BY <1>1, <1>2, <1>9, <2>1, ArrayFacts
    <3>. QED  BY <1>4, <3>1, <3>2, <3>3
  <2>. QED  BY <2>2, <2>3
<1>12. j + 1 \in 1 .. count + 1 /\ j + 1 \in 0 .. Nodes + 1
  BY <1>4, <1>6
<1>13. cur' \in {Native(k) : k \in 1 .. count + 1} /\ cur' \in Pointer /\ cur'.to = j + 1
  BY <1>1, <1>5, <1>12
<1>14. mem' \in [Place -> Pointer]
  <2>1. \A k \in 0 .. Nodes + 1 : k = 0 \/ k \in 1 .. Nodes + 1
    OBVIOUS
  <2>2. mem \in [Place -> Pointer]
    BY <1>1, <1>2, ArrayFacts
  <2>3. \A k \in 0 .. Nodes + 1 : mem'[Datum(k)] \in Pointer
    BY <1>9, <1>10, <1>11, <2>1, <2>2
  <2>. QED  BY <1>8, <1>9, <1>10, <2>2, <2>3, EveryPlace
<1>15. /\ \A f \in {"b", "c", "d"} : mem'[Arg(f)] = was[Arg(f)]
       /\ \A k \in 0 .. Nodes : mem'[Next(k)] = Nil
       /\ mem'[Datum(0)] = Nil /\ mem'[Zero] = Nil
       /\ mem'[Arg("a")] = Native(1)
  BY <1>1, <1>2, <1>4, <1>9, <1>10, ArrayFacts
<1>16. Passed'
  BY <1>1, PassedStays DEF PointersInv
<1>17. Kept'
  BY <1>1, <1>2, <1>13, <1>14, <1>15, NativesApart DEF PointersInv, Kept, AppSeesApp, NullLeftAlone
<1>18. MakesArrayInv'
  <2>1. freed = {}
    BY <1>1, <1>2, ArrayFacts
  <2>. QED  BY <1>1, <1>2, <1>3, <1>11, <1>13, <1>15, <2>1 DEF MakesArrayInv
<1>. QED
  BY <1>1, <1>2, <1>16, <1>17, <1>18, NativesApart
  DEF PointersInv, StraightInv, MakesListInv, GivenListInv, GivenArrayInv

(* The call returns with the strings turned back: by the loop, or, for     *)
(* scandir, all at once by their number.                                   *)
LEMMA MakesArrayLeaves ==
  ASSUME PointersInv, native \in MakesArrays, NEW n \in 0 .. Nodes,
         Leave(native, {Datum(k) : k \in 1 .. n} \cup {args[1]}),
         \A k \in 1 .. n : mem[Datum(k)].conv = 1,
         \A k \in 1 .. Nodes + 1 : k > n => mem[Datum(k)].conv = 0
  PROVE  PointersInv'
<1>. USE NodesAssumption
<1> DEFINE S == {Datum(k) : k \in 1 .. n} \cup {args[1]}
<1>1. step = "out"
  BY DEF Leave, Go
<1>2. args[1] = Arg("a") /\ args[1] \in Place /\ Arg("a") # Zero /\ Datum(0) # Arg("a")
  BY CellNativeFacts, ArgPlaces DEF PointersInv
<1>3. \A k \in 1 .. n : k \in 0 .. Nodes + 1 /\ k # 0
  OBVIOUS
<1>4. 0 \in Nat /\ Zero = Next(0)
  BY PlaceFacts
<1>5. S \subseteq Place /\ args[1] \in S
  BY <1>2, <1>3, PlaceFacts
<1>6. Zero \notin S /\ Datum(0) \notin S
  <2>1. \A k \in 1 .. n : k \in Nat
    OBVIOUS
  <2>. QED  BY <1>2, <1>3, <1>4, <2>1, PlacesDiffer
<1>7. ASSUME NEW p \in S
      PROVE  mem[p].conv = 1 \/ mem[p] = Nil \/ (p = args[1] /\ ~ok /\ mem[p].conv = 0)
  <2>1. CASE \E k \in 1 .. n : p = Datum(k)
    BY <2>1
  <2>2. CASE p = args[1]
    <3>1. ok => mem[p] = Native(1)
      BY <1>1, <1>2, <2>2, ArrayFacts
    <3>2. ~ok => mem[p].conv = 0
      BY <1>1, <1>2, <2>2, ArrayFacts
    <3>3. Native(1).conv = 1
      BY PointerFacts
    <3>. QED  BY <2>2, <3>1, <3>2, <3>3
  <2>. QED  BY <2>1, <2>2
<1>8. ASSUME NEW p \in Place \ S
      PROVE  mem[p].conv = 0
  <2>0. Nil.conv = 0
    BY ConversionFacts
  <2>1. CASE \E f \in Field : p = Arg(f)
    <3>1. PICK f \in Field : p = Arg(f)
      BY <2>1
    <3>2. f \in {"b", "c", "d"}
      BY <1>2, <3>1 DEF Field
    <3>3. mem[p] = was[p]
      BY <1>1, <3>1, <3>2, ArrayFacts
    <3>. QED  BY <3>3, WasFacts
  <2>2. CASE \E k \in 0 .. Nodes : p = Next(k)
    BY <1>1, <2>0, <2>2, ArrayFacts
  <2>3. CASE \E k \in 0 .. Nodes + 1 : p = Datum(k)
    <3>1. PICK k \in 0 .. Nodes + 1 : p = Datum(k)
      BY <2>3
    <3>2. CASE k = 0
      BY <1>1, <2>0, <3>1, <3>2, ArrayFacts
    <3>3. CASE k # 0
      <4>1. k \notin 1 .. n
        BY <3>1
      <4>2. k \in 1 .. Nodes + 1 /\ k > n
        BY <3>3, <4>1
      <4>. QED  BY <3>1, <4>2
    <3>. QED  BY <3>2, <3>3
  <2>. QED  BY <2>1, <2>2, <2>3, PlaceFacts
<1>9. Leave(native, S)
  OBVIOUS
<1> HIDE DEF S
<1>10. native \notin MakesLists
  BY NativesApart
<1>. QED  BY <1>5, <1>6, <1>7, <1>8, <1>9, <1>10, MakesLeaves

(* scandir and dbus_connection_list_registered keep the invariant: the     *)
(* loop of the second stops at the NULL that ends the array and not        *)
(* before.                                                                 *)
THEOREM MakesArrayStep ==
  ASSUME PointersInv, native \in MakesArrays, PointerNext
  PROVE  PointersInv'
<1>. USE NodesAssumption
<1>0. Nil.conv = 0 /\ \A k \in 0 .. Nodes + 1 : /\ App(k).conv = 0 /\ Native(k).conv = 1
                                                /\ Native(k) # Nil /\ Native(k).to = k
  BY PointerFacts, ConversionFacts
<1>1. CASE native = "dbus_connection_list_registered"
  <2>1. \/ GlueBegins(native, {})
        \/ Gives(native, ArrayOf, {}, {Nil})
        \/ StringArrayNativeToApp(native)
    BY <1>1, StepIsOfNative DEF DbusConnectionListRegistered
  <2>2. CASE Gives(native, ArrayOf, {}, {Nil})
    BY <1>1, <2>2, MakesArrayGives
  <2>3. CASE StringArrayNativeToApp(native)
    <3>1. CASE cur # Nil /\ mem[Datum(cur.to)] # Nil
      <4>1. /\ Visiting(native, "out")
            /\ mem' = NativeToAppAddrs(mem, {Datum(cur.to)})
            /\ cur' = Native(cur.to + 1)
            /\ UNCHANGED <<pointerArgs, count, lens, step, ok, freed>>
        BY <2>3, <3>1 DEF StringArrayNativeToApp
      <4>. QED  BY <1>1, <3>1, <4>1, MakesArrayVisits
    <3>2. CASE ~(cur # Nil /\ mem[Datum(cur.to)] # Nil)
      <4>1. Leave(native, {args[1]}) /\ step = "out"
        BY <2>3, <3>2 DEF StringArrayNativeToApp, Leave, Go
      <4>2. ASSUME NEW k \in 1 .. Nodes + 1 PROVE mem[Datum(k)].conv = 0
        <5>1. CASE ~ok
          BY <1>0, <4>1, <5>1, ArrayFacts
        <5>2. CASE ok
          <6>1. PICK j \in 1 .. count + 1 : cur = Native(j)
            BY <4>1, <5>2, ArrayFacts
          <6>2. count \in 0 .. Nodes
            BY <4>1, ArrayFacts
          <6>3. j \in 1 .. Nodes + 1 /\ j \in 0 .. Nodes + 1
            BY <6>2
          <6>4. cur.to = j /\ cur # Nil
            BY <1>0, <6>1, <6>3
          <6>5. mem[Datum(j)] = Nil
            BY <3>2, <6>4
          <6>6. mem[Datum(j)] = IF j > count THEN Nil ELSE Native(j)
            BY <4>1, <5>2, <6>3, <6>4, ArrayFacts
          <6>7. j > count
            BY <1>0, <6>3, <6>5, <6>6
          <6>8. mem[Datum(k)] = IF k > count THEN Nil ELSE App(k)
            <7>1. k > count \/ k < j
              BY <6>2, <6>7
            <7>. QED  BY <4>1, <5>2, <6>4, <7>1, ArrayFacts
          <6>9. k \in 0 .. Nodes + 1
            OBVIOUS
          <6>. QED  BY <1>0, <6>8, <6>9
        <5>. QED  BY <5>1, <5>2
      <4>3. {Datum(k) : k \in 1 .. 0} \cup {args[1]} = {args[1]}
        OBVIOUS
      <4>4. Leave(native, {Datum(k) : k \in 1 .. 0} \cup {args[1]})
        BY <4>1, <4>3
      <4>5. 0 \in 0 .. Nodes /\ (\A k \in 1 .. 0 : mem[Datum(k)].conv = 1)
        OBVIOUS
      <4>. QED  BY <4>2, <4>4, <4>5, MakesArrayLeaves
    <3>. QED  BY <3>1, <3>2
  <2>. QED  BY <2>1, <2>2, <2>3, MakesBegins
<1>2. CASE native = "scandir"
  <2>1. \/ GlueBegins(native, {})
        \/ Gives(native, ArrayOf, {}, {mem[args[1]]})
        \/ Leave(native, {Datum(k) : k \in 1 .. (IF ok THEN count ELSE 0)} \cup {args[1]})
    BY <1>2, StepIsOfNative DEF Scandir
  <2>2. CASE Gives(native, ArrayOf, {}, {mem[args[1]]})
    BY <1>2, <2>2, MakesArrayGives
  <2>3. CASE Leave(native, {Datum(k) : k \in 1 .. (IF ok THEN count ELSE 0)} \cup {args[1]})
    <3> DEFINE n == IF ok THEN count ELSE 0
    <3>1. step = "out"
      BY <2>3 DEF Leave, Go
    <3>2. n \in 0 .. Nodes
      BY <3>1, ArrayFacts
    <3>3. ASSUME NEW k \in 1 .. Nodes + 1
          PROVE  mem[Datum(k)] = IF k > n THEN Nil ELSE Native(k)
      <4>1. CASE ~ok
        BY <3>1, <4>1, ArrayFacts
      <4>2. CASE ok
        <5>1. cur.to = 1 /\ ~(k < 1)
          BY <1>0, <1>2, <3>1, <4>2, ArrayFacts
        <5>2. n = count
          BY <4>2
        <5>. QED  BY <3>1, <4>2, <5>1, <5>2, ArrayFacts
      <4>. QED  BY <4>1, <4>2
    <3>4. Leave(native, {Datum(k) : k \in 1 .. n} \cup {args[1]})
      BY <2>3
    <3> HIDE DEF n
    <3>5. \A k \in 1 .. n : mem[Datum(k)].conv = 1
      <4>1. \A k \in 1 .. n : k \in 1 .. Nodes + 1 /\ k \in 0 .. Nodes + 1 /\ ~(k > n)
        BY <3>2
      <4>. QED  BY <1>0, <3>3, <4>1
    <3>6. \A k \in 1 .. Nodes + 1 : k > n => mem[Datum(k)].conv = 0
      BY <1>0, <3>3
    <3>. QED  BY <3>2, <3>4, <3>5, <3>6, MakesArrayLeaves
  <2>. QED  BY <2>1, <2>2, <2>3, MakesBegins
<1>. QED  BY <1>1, <1>2 DEF MakesArrays

----------------------------------------------------------------------------
(* Lists that are given to the native function.                            *)

(* The list that was passed.                                               *)
LEMMA ListPassed ==
  ASSUME PointersInv, native \in ListNatives
  PROVE  /\ Size \in 0 .. Nodes /\ was[Arg("a")] = App(Size)
         /\ args[1] = Zero => Size = 0
         /\ native = "freeifaddrs" /\ Size = 0 => args[1] = Zero
         /\ \A k \in 1 .. Nodes : was[Next(k)] = IF k <= Size THEN App(k - 1) ELSE Nil
         /\ step \in {"called", "in", "native"} => count = Size
         /\ ok = TRUE
         /\ step \in {"called", "in", "native", "out"} => freed = {}
         /\ mem \in [Place -> Pointer] /\ count \in 0 .. Nodes
         /\ lens \in [{"b", "c"} -> BOOLEAN]
BY NativesApart DEF PointersInv, Passed, Kept, GivenListInv

(* NULL instead of a list.                                                 *)
LEMMA ListReturnsAtOnce ==
  ASSUME PointersInv, native \in ListNatives, ReturnsAtOnce(native)
  PROVE  PointersInv'
<1>1. /\ step = "called" /\ step' = "returned" /\ mem' = was /\ mem' = mem
      /\ native' = native /\ args' = args /\ was' = was /\ lens' = lens /\ freed' = freed
      /\ count' = count /\ ok' = ok /\ cur' = cur /\ cur = Nil /\ freed = {}
      /\ UNCHANGED pointerArgs
  BY DEF ReturnsAtOnce, Go, pointerArgs, PointersInv, Kept, Quiet
<1>2. Passed'
  BY <1>1, PassedStays DEF PointersInv
<1>3. Size' = Size
  BY <1>1 DEF Size
<1>4. Kept'
  BY <1>1, <1>3, WasFacts, ListPassed DEF PointersInv, Kept, AppSeesApp, NullLeftAlone
<1>5. GivenListInv'
  BY <1>1, ListPassed DEF GivenListInv
<1>. QED
  BY <1>1, <1>2, <1>4, <1>5, NativesApart
  DEF PointersInv, StraightInv, MakesListInv, MakesArrayInv, GivenArrayInv

(* The walk starts with the first element; wapi_scan_coll's list is known  *)
(* to the native function by a pointer that has been converted.            *)
LEMMA ListWalkStarts ==
  ASSUME PointersInv, native \in ListNatives, step = "called", step' = "in",
         args[1] # Zero \/ native = "freeifaddrs",
         mem' = IF native = "wapi_scan_coll" THEN AppToNativeAddrs(mem, {Arg("a")}) ELSE mem,
         cur' = Native(Size),
         UNCHANGED <<pointerArgs, count, lens, ok, freed>>
  PROVE  PointersInv'
<1>. USE NodesAssumption
<1>1. /\ native' = native /\ args' = args /\ was' = was /\ lens' = lens /\ freed' = freed
      /\ count' = count /\ ok' = ok /\ freed = {} /\ ok = TRUE
      /\ UNCHANGED pointerArgs /\ mem = was
  BY DEF pointerArgs, PointersInv, Kept, Quiet
<1>2. /\ Size \in 0 .. Nodes /\ was[Arg("a")] = App(Size) /\ Size' = Size
      /\ \A k \in 1 .. Nodes : was[Next(k)] = IF k <= Size THEN App(k - 1) ELSE Nil
  BY <1>1, ListPassed DEF Size
<1>3. /\ cur' \in Pointer /\ cur'.to = Size /\ AppToNativeAddr(App(Size)) = Native(Size)
      /\ Native(Size) \in Pointer
  <2>1. Size \in 0 .. Nodes + 1
    BY <1>2
  <2>. QED  BY <2>1, PointerFacts
<1>4. /\ \A f \in {"b", "c", "d"} : mem'[Arg(f)] = was[Arg(f)]
      /\ mem'[Arg("a")] = IF native = "wapi_scan_coll" THEN Native(Size) ELSE App(Size)
      /\ \A k \in 0 .. Nodes : mem'[Next(k)] = was[Next(k)]
      /\ \A k \in 0 .. Nodes + 1 : mem'[Datum(k)] = was[Datum(k)]
      /\ mem' \in [Place -> Pointer]
  <2>1. CASE native # "wapi_scan_coll"
    BY <1>1, <1>2, <2>1, WasFacts
  <2>2. CASE native = "wapi_scan_coll"
    <3>1. \A p \in Place : mem'[p] = IF p \in {Arg("a")} THEN AppToNativeAddr(was[p]) ELSE was[p]
      BY <1>1, <2>2 DEF AppToNativeAddrs
    <3>2. /\ Arg("a") \in Place
          /\ \A f \in {"b", "c", "d"} : Arg(f) \in Place /\ Arg(f) # Arg("a")
          /\ \A k \in 0 .. Nodes : Next(k) \in Place /\ Next(k) # Arg("a")
          /\ \A k \in 0 .. Nodes + 1 : Datum(k) \in Place /\ Datum(k) # Arg("a")
      BY PlaceFacts, PlacesDiffer DEF Field
    <3>3. mem' = [p \in Place |-> mem'[p]]
      BY <1>1, <2>2 DEF AppToNativeAddrs
    <3>4. mem'[Arg("a")] = Native(Size)
      BY <1>2, <1>3, <3>1, <3>2
    <3>5. \A p \in Place : mem'[p] \in Pointer
      BY <1>3, <3>1, <3>4, WasFacts
    <3>6. mem' \in [Place -> Pointer]
      BY <3>3, <3>5
    <3>. QED  BY <2>2, <3>1, <3>2, <3>4, <3>6
  <2>. QED  BY <2>1, <2>2
<1>5. mem'[Zero] = Nil /\ mem'[Datum(0)] = Nil
  <2>1. Zero = Next(0) /\ 0 \in 0 .. Nodes /\ 0 \in 0 .. Nodes + 1
    BY PlaceFacts
  <2>. QED  BY <1>4, <2>1, WasFacts
<1>6. Passed'
  BY <1>1, PassedStays DEF PointersInv
<1>7. Kept'
  BY <1>1, <1>2, <1>3, <1>4, <1>5, ListPassed DEF PointersInv, Kept, AppSeesApp, NullLeftAlone
<1>8. GivenListInv'
  <2>1. cur' \in {Native(k) : k \in 0 .. Size}
    BY <1>2
  <2>2. \A k \in 1 .. Nodes :
          mem'[Next(k)] = IF k > cur'.to /\ k <= Size THEN Native(k - 1) ELSE was[Next(k)]
    <3>1. \A k \in 1 .. Nodes : k \in 0 .. Nodes /\ ~(k > Size /\ k <= Size)
      BY <1>2
    <3>. QED  BY <1>3, <1>4, <3>1
  <2>3. \A k \in 0 .. cur'.to : mem'[Datum(k)] = was[Datum(k)]
    <3>1. \A k \in 0 .. cur'.to : k \in 0 .. Nodes + 1
      BY <1>2, <1>3
    <3>. QED  BY <1>4, <3>1
  <2>. QED  BY <1>1, <1>2, <1>3, <1>4, <1>5, <2>1, <2>2, <2>3 DEF GivenListInv
<1>. QED
  BY <1>1, <1>6, <1>7, <1>8, NativesApart
  DEF PointersInv, StraightInv, MakesListInv, MakesArrayInv, GivenArrayInv

(* Where the walk towards the native side is.                              *)
LEMMA ListWalk ==
  ASSUME PointersInv, native \in ListNatives, step = "in"
  PROVE  /\ cur.to \in 0 .. Size /\ cur = Native(cur.to) /\ (cur.to = 0 => Size = 0)
         /\ \A k \in 1 .. Nodes :
               mem[Next(k)] = IF k > cur.to /\ k <= Size THEN Native(k - 1) ELSE was[Next(k)]
         /\ \A f \in {"b", "c", "d"} : mem[Arg(f)] = was[Arg(f)]
         /\ mem[Arg("a")] = IF native = "wapi_scan_coll" THEN Native(Size) ELSE App(Size)
         /\ mem[Zero] = Nil
         /\ native # "freeifaddrs" => \A k \in 0 .. Nodes + 1 : mem[Datum(k)] = was[Datum(k)]
         /\ \A k \in 0 .. cur.to : mem[Datum(k)] = was[Datum(k)]
         /\ args[1] # Zero => mem[Datum(0)] = Nil
         /\ args[1] # Zero \/ native = "freeifaddrs"
<1>1. PICK j \in 0 .. Size : cur = Native(j)
  BY DEF PointersInv, GivenListInv
<1>2. j \in 0 .. Nodes + 1
  BY NodesAssumption, ListPassed
<1>3. cur.to = j
  BY <1>1, <1>2, PointerFacts
<1>4. cur.to \in 0 .. Size /\ cur = Native(cur.to)
  BY <1>1, <1>3
<1>. QED  BY <1>4 DEF PointersInv, GivenListInv

(* One element: its next is converted when there is one, and for           *)
(* freeifaddrs its data.                                                   *)
LEMMA ListVisits ==
  ASSUME PointersInv, native \in ListNatives, NEW data, VisitToNative(native, data),
         data = IF native = "freeifaddrs" THEN {Datum(cur.to)} ELSE {}
  PROVE  PointersInv'
<1>. USE NodesAssumption
<1> DEFINE j == cur.to
           T == {Next(j)}
           S == data \cup NotNil(T)
<1>1. /\ step = "in" /\ mem' = AppToNativeAddrs(mem, S)
      /\ native' = native /\ args' = args /\ was' = was /\ lens' = lens /\ freed' = freed
      /\ count' = count /\ ok' = ok
      /\ UNCHANGED pointerArgs
      /\ IF mem[Next(j)] = Nil THEN step' = "native" /\ cur' = cur
                               ELSE step' = "in" /\ cur' = AppToNativeAddr(mem[Next(j)])
  BY DEF VisitToNative, Visiting, pointerArgs
<1>2. /\ Size \in 0 .. Nodes /\ was[Arg("a")] = App(Size) /\ Size' = Size
      /\ \A k \in 1 .. Nodes : was[Next(k)] = IF k <= Size THEN App(k - 1) ELSE Nil
      /\ native = "freeifaddrs" /\ Size = 0 => args[1] = Zero
      /\ freed = {} /\ ok = TRUE /\ mem \in [Place -> Pointer]
  BY <1>1, ListPassed DEF Size
<1>3. /\ j \in 0 .. Size /\ cur = Native(j) /\ (j = 0 => Size = 0)
      /\ \A k \in 1 .. Nodes :
            mem[Next(k)] = IF k > j /\ k <= Size THEN Native(k - 1) ELSE was[Next(k)]
      /\ \A f \in {"b", "c", "d"} : mem[Arg(f)] = was[Arg(f)]
      /\ mem[Arg("a")] = IF native = "wapi_scan_coll" THEN Native(Size) ELSE App(Size)
      /\ mem[Zero] = Nil
      /\ native # "freeifaddrs" => \A k \in 0 .. Nodes + 1 : mem[Datum(k)] = was[Datum(k)]
      /\ \A k \in 0 .. j : mem[Datum(k)] = was[Datum(k)]
      /\ args[1] # Zero => mem[Datum(0)] = Nil
  BY <1>1, ListWalk
<1>4. /\ Nil = App(0)
      /\ \A k \in 0 .. Nodes + 1 : /\ Native(k) \in Pointer /\ Native(k).to = k
                                   /\ App(k) = Nil <=> k = 0
                                   /\ AppToNativeAddr(App(k)) = Native(k)
  BY PointerFacts
<1>5. /\ j \in 0 .. Nodes /\ j \in 0 .. Nodes + 1 /\ j \in Nat
      /\ 0 \in 0 .. Nodes /\ 0 \in 0 .. Nodes + 1 /\ Zero = Next(0)
      /\ \A k \in 1 .. Nodes : k \in 0 .. Nodes /\ k - 1 \in 0 .. Nodes + 1 /\ k - 1 \in 0 .. Nodes
      /\ \A f \in {"a", "b", "c", "d"} : f \in Field
  BY <1>2, <1>3, PlaceFacts DEF Field
<1>6. mem[Next(j)] = IF j = 0 THEN Nil ELSE App(j - 1)
  <2>1. CASE j = 0
    BY <1>3, <1>5, <2>1
  <2>2. CASE j # 0
    <3>1. j \in 1 .. Nodes /\ ~(j > j) /\ j <= Size
      BY <1>2, <1>3, <2>2
    <3>2. mem[Next(j)] = was[Next(j)]
      BY <1>3, <3>1
    <3>. QED  BY <1>2, <2>2, <3>1, <3>2
  <2>. QED  BY <2>1, <2>2
<1>7. mem[Next(j)] = Nil <=> j \in {0, 1}
  <2>1. j # 0 => j - 1 \in 0 .. Nodes + 1
    BY <1>2, <1>3
  <2>2. j # 0 => (j - 1 = 0 <=> j = 1)
    BY <1>5
  <2>3. j # 0 => (App(j - 1) = Nil <=> j = 1)
    BY <1>4, <2>1, <2>2
  <2>. QED  BY <1>6, <2>3, Zenon
<1>8. /\ \A f \in Field : Arg(f) \notin S /\ Arg(f) \in Place
      /\ \A k \in 0 .. Nodes : Next(k) \in Place /\ (Next(k) \in S <=> k = j /\ j \notin {0, 1})
      /\ \A k \in 0 .. Nodes + 1 : Datum(k) \in Place /\ (Datum(k) \in S <=> k = j /\ native = "freeifaddrs")
  <2>1. NotNil(T) = IF j \in {0, 1} THEN {} ELSE {Next(j)}
    BY <1>7 DEF NotNil
  <2> HIDE DEF T
  <2>2. S = (IF native = "freeifaddrs" THEN {Datum(j)} ELSE {})
                  \cup (IF j \in {0, 1} THEN {} ELSE {Next(j)})
    BY <2>1
  <2>3. /\ \A f \in Field : Arg(f) \notin {Datum(j)} /\ Arg(f) \notin {Next(j)}
        /\ \A k \in 0 .. Nodes : (Next(k) \in {Next(j)} <=> k = j) /\ Next(k) \notin {Datum(j)}
        /\ \A k \in 0 .. Nodes + 1 : (Datum(k) \in {Datum(j)} <=> k = j) /\ Datum(k) \notin {Next(j)}
    <3>1. (\A k \in 0 .. Nodes : k \in Nat) /\ (\A k \in 0 .. Nodes + 1 : k \in Nat)
      OBVIOUS
    <3>. QED  BY <1>5, <3>1, ElementPlaces
  <2> HIDE DEF S
  <2>4. \A f \in Field : Arg(f) \notin S
    BY <2>2, <2>3
  <2>5. \A k \in 0 .. Nodes : Next(k) \in S <=> k = j /\ j \notin {0, 1}
    BY <2>2, <2>3
  <2>6. \A k \in 0 .. Nodes + 1 : Datum(k) \in S <=> k = j /\ native = "freeifaddrs"
    BY <2>2, <2>3
  <2>. QED  BY <2>4, <2>5, <2>6, PlaceFacts, Zenon
<1>9. \A p \in Place : mem'[p] = IF p \in S THEN AppToNativeAddr(mem[p]) ELSE mem[p]
  BY <1>1 DEF AppToNativeAddrs
<1>10. mem' = [p \in Place |-> mem'[p]]
  BY <1>1 DEF AppToNativeAddrs
<1> HIDE DEF S
<1>11. \A k \in 0 .. Nodes :
          mem'[Next(k)] = IF k = j /\ j \notin {0, 1} THEN Native(j - 1) ELSE mem[Next(k)]
  <2>1. j \notin {0, 1} => j - 1 \in 0 .. Nodes + 1
    BY <1>2, <1>3
  <2>2. j \notin {0, 1} => AppToNativeAddr(mem[Next(j)]) = Native(j - 1)
    BY <1>4, <1>6, <2>1
  <2>. QED  BY <1>8, <1>9, <2>2
<1>12. /\ \A f \in Field : mem'[Arg(f)] = mem[Arg(f)]
       /\ \A k \in 0 .. Nodes + 1 : k # j \/ native # "freeifaddrs" => mem'[Datum(k)] = mem[Datum(k)]
       /\ mem'[Zero] = Nil
  BY <1>3, <1>5, <1>8, <1>9
<1>13. mem' \in [Place -> Pointer]
  <2>1. \A k \in 0 .. Nodes : mem'[Next(k)] \in Pointer
    <3>1. j \notin {0, 1} => j - 1 \in 0 .. Nodes + 1
      BY <1>2, <1>3
    <3>. QED  BY <1>2, <1>4, <1>8, <1>11, <3>1
  <2>2. ASSUME NEW k \in 0 .. Nodes + 1 PROVE mem'[Datum(k)] \in Pointer
    <3>1. CASE k = j
      <4>1. mem[Datum(k)] = was[Datum(k)]
        BY <1>3, <3>1
      <4>2. was[Datum(k)] \in Pointer /\ AppToNativeAddr(was[Datum(k)]) \in Pointer
        BY <1>8, WasFacts, ConversionFacts
      <4>. QED  BY <1>8, <1>9, <4>1, <4>2
    <3>2. CASE k # j
      BY <1>2, <1>8, <1>12, <3>2
    <3>. QED  BY <3>1, <3>2
  <2>. QED  BY <1>2, <1>8, <1>10, <1>12, <2>1, <2>2, EveryPlace
<1>14. args[1] # Zero => mem'[Datum(0)] = Nil
  <2>1. CASE j # 0 \/ native # "freeifaddrs"
    BY <1>3, <1>5, <1>12, <2>1
  <2>2. CASE j = 0 /\ native = "freeifaddrs"
    BY <1>2, <1>3, <2>2
  <2>. QED  BY <2>1, <2>2
<1>15. native # "freeifaddrs" => \A k \in 0 .. Nodes + 1 : mem'[Datum(k)] = was[Datum(k)]
  BY <1>3, <1>12
<1>16. cur' = IF j \in {0, 1} THEN Native(j) ELSE Native(j - 1)
  <2>1. j \notin {0, 1} => j - 1 \in 0 .. Nodes + 1
    BY <1>2, <1>3
  <2>. QED  BY <1>1, <1>3, <1>4, <1>6, <1>7, <2>1
<1>17. step' = IF j \in {0, 1} THEN "native" ELSE "in"
  BY <1>1, <1>7
<1>18. cur' \in Pointer /\ cur'.to = (IF j \in {0, 1} THEN j ELSE j - 1)
  <2>1. j \notin {0, 1} => j - 1 \in 0 .. Nodes + 1
    BY <1>2, <1>3
  <2>. QED  BY <1>4, <1>5, <1>16, <2>1
<1>19. Passed'
  BY <1>1, PassedStays DEF PointersInv
<1>20. NullLeftAlone'
  <2>1. args[1] # Zero \/ native = "freeifaddrs"
    BY <1>1, ListWalk
  <2>. QED  BY <1>1, <1>12, <1>14, <2>1 DEF NullLeftAlone
<1>21. Kept'
  BY <1>1, <1>2, <1>13, <1>17, <1>18, <1>20, ListPassed DEF PointersInv, Kept, AppSeesApp
<1>22. /\ \A f \in {"b", "c", "d"} : mem'[Arg(f)] = was[Arg(f)]
       /\ mem'[Arg("a")] = IF native = "wapi_scan_coll" THEN Native(Size) ELSE App(Size)
  BY <1>3, <1>5, <1>12
<1>23. args[1] # Zero \/ native = "freeifaddrs"
  BY <1>1, ListWalk
<1>24. CASE j \in {0, 1}
  <2>1. j = IF Size = 0 THEN 0 ELSE 1
    BY <1>3, <1>24
  <2>2. ASSUME NEW k \in 1 .. Nodes
        PROVE  mem'[Next(k)] = IF k \in 2 .. Size THEN Native(k - 1) ELSE Nil
    <3>1. mem'[Next(k)] = IF k > j /\ k <= Size THEN Native(k - 1) ELSE was[Next(k)]
      BY <1>3, <1>5, <1>11, <1>24
    <3>2. CASE k \in 2 .. Size
      <4>1. k > j /\ k <= Size
        BY <1>2, <1>24, <3>2
      <4>. QED  BY <3>1, <3>2, <4>1
    <3>3. CASE k \notin 2 .. Size
      <4>1. ~(k > j /\ k <= Size) /\ (k <= Size => k - 1 = 0)
        BY <1>2, <2>1, <3>3
      <4>2. was[Next(k)] = Nil
        BY <1>2, <1>4, <4>1
      <4>. QED  BY <3>1, <3>3, <4>1, <4>2
    <3>. QED  BY <3>2, <3>3
  <2>3. cur' = Native(IF Size = 0 THEN 0 ELSE 1)
    BY <1>16, <1>24, <2>1
  <2>4. step' = "native"
    BY <1>17, <1>24
  <2>5. GivenListInv'
    BY <1>1, <1>2, <1>12, <1>14, <1>15, <1>22, <1>23, <2>2, <2>3, <2>4 DEF GivenListInv
  <2>. QED
    BY <1>1, <1>19, <1>21, <2>5, NativesApart
    DEF PointersInv, StraightInv, MakesListInv, MakesArrayInv, GivenArrayInv
<1>25. CASE j \notin {0, 1}
  <2>1. cur' = Native(j - 1) /\ cur'.to = j - 1 /\ step' = "in"
    BY <1>16, <1>17, <1>18, <1>25
  <2>2. j - 1 \in 0 .. Size /\ j - 1 # 0
    BY <1>2, <1>3, <1>25
  <2>3. ASSUME NEW k \in 1 .. Nodes
        PROVE  mem'[Next(k)] = IF k > j - 1 /\ k <= Size THEN Native(k - 1) ELSE was[Next(k)]
    <3>1. CASE k = j
      <4>1. k > j - 1 /\ k <= Size
        BY <1>2, <1>3, <3>1
      <4>. QED  BY <1>5, <1>11, <1>25, <3>1, <4>1
    <3>2. CASE k # j
      <4>1. k > j - 1 <=> k > j
        BY <1>5, <3>2
      <4>. QED  BY <1>3, <1>5, <1>11, <3>2, <4>1
    <3>. QED  BY <3>1, <3>2
  <2>4. ASSUME NEW k \in 0 .. j - 1 PROVE mem'[Datum(k)] = was[Datum(k)]
    <3>1. k \in 0 .. Nodes + 1 /\ k \in 0 .. j /\ k # j
      BY <1>5
    <3>. QED  BY <1>3, <1>12, <3>1
  <2>5. cur' \in {Native(k) : k \in 0 .. Size}
    BY <2>1, <2>2
  <2>6. GivenListInv'
    BY <1>1, <1>2, <1>12, <1>14, <1>15, <1>22, <1>23, <2>1, <2>2, <2>3, <2>4, <2>5 DEF GivenListInv
  <2>. QED
    BY <1>1, <1>19, <1>21, <2>6, NativesApart
    DEF PointersInv, StraightInv, MakesListInv, MakesArrayInv, GivenArrayInv
<1>. QED  BY <1>24, <1>25

(* What a native function that follows next finds from an element on, when *)
(* the pointers to there are native.                                       *)
LEMMA ChainIs ==
  ASSUME NEW n \in 0 .. Nodes,
         \A i \in 2 .. n : mem[Next(i)] = Native(i - 1)
  PROVE  Chain(Native(n)) = {Native(n)} \cup {Native(k) : k \in 1 .. n}
<1>1. Native(n).to = n
  BY NodesAssumption, PointerFacts
<1>2. {j \in 1 .. n - 1 : \A i \in j + 1 .. n : mem[Next(i)] = Native(i - 1)} = 1 .. n - 1
  <2>1. ASSUME NEW j \in 1 .. n - 1, NEW i \in j + 1 .. n PROVE i \in 2 .. n
    OBVIOUS
  <2>. QED  BY <2>1
<1>3. \A k \in 1 .. n : k \in 1 .. n - 1 \/ k = n
  OBVIOUS
<1>4. \A k \in 1 .. n - 1 : k \in 1 .. n
  OBVIOUS
<1>5. Chain(Native(n)) = {Native(n)} \cup {Native(k) : k \in 1 .. n - 1}
  BY <1>1, <1>2 DEF Chain
<1>. QED  BY <1>3, <1>4, <1>5

(* The native function frees what it finds, which is what was given, or    *)
(* its last element, and the cell is NULL.                                 *)
LEMMA ListFrees ==
  ASSUME PointersInv, native \in {"freeifaddrs", "wapi_scan_coll_free"},
         NEW pointers, Frees(native, pointers, Arg("a")),
         pointers = IF native = "freeifaddrs" THEN Chain(PassedList) ELSE Chain(cur)
  PROVE  PointersInv'
<1>. USE NodesAssumption
<1>0. native \in ListNatives /\ native # "wapi_scan_coll"
  BY DEF ListNatives
<1>1. /\ step = "native" /\ step' = "returned"
      /\ freed' = pointers /\ mem' = [mem EXCEPT ![Arg("a")] = Nil]
      /\ native' = native /\ args' = args /\ was' = was /\ lens' = lens
      /\ count' = count /\ ok' = ok /\ cur' = cur
      /\ UNCHANGED pointerArgs
  BY DEF Frees, Go, pointerArgs
<1>2. Size \in 0 .. Nodes /\ Size' = Size /\ count = Size /\ (args[1] = Zero => Size = 0)
      /\ ok = TRUE /\ mem \in [Place -> Pointer]
  BY <1>0, <1>1, ListPassed DEF Size
<1>3. /\ cur = Native(IF Size = 0 THEN 0 ELSE 1)
      /\ \A k \in 1 .. Nodes : mem[Next(k)] = IF k \in 2 .. Size THEN Native(k - 1) ELSE Nil
      /\ \A f \in {"b", "c", "d"} : mem[Arg(f)] = was[Arg(f)]
      /\ mem[Zero] = Nil
      /\ args[1] # Zero => mem[Datum(0)] = Nil
      /\ args[1] # Zero \/ native = "freeifaddrs"
  BY <1>0, <1>1 DEF PointersInv, GivenListInv
<1>4. pointers = IF native = "freeifaddrs" THEN {Native(Size)} \cup {Native(k) : k \in 1 .. Size}
                 ELSE {Native(IF Size = 0 THEN 0 ELSE 1)}
  <2>1. CASE native = "freeifaddrs"
    <3>1. PassedList = Native(Size)
      BY <1>2 DEF PassedList, Base
    <3>2. \A i \in 2 .. Size : mem[Next(i)] = Native(i - 1)
      BY <1>2, <1>3
    <3>. QED  BY <1>2, <2>1, <3>1, <3>2, ChainIs
  <2>2. CASE native # "freeifaddrs"
    <3> DEFINE n == IF Size = 0 THEN 0 ELSE 1
    <3>1. n \in 0 .. Nodes /\ n \in {0, 1}
      BY <1>2
    <3>2. \A i \in 2 .. n : mem[Next(i)] = Native(i - 1)
      BY <3>1
    <3>3. Chain(Native(n)) = {Native(n)} \cup {Native(k) : k \in 1 .. n}
      BY <3>1, <3>2, ChainIs
    <3>4. \A k \in 1 .. n : k = n
      BY <3>1
    <3>. QED  BY <1>3, <2>2, <3>3, <3>4
  <2>. QED  BY <2>1, <2>2
<1>5. pointers \subseteq Pointer /\ pointers # {}
  <2>1. \A k \in 0 .. Nodes : Native(k) \in Pointer
    BY PointerFacts
  <2>2. \A k \in 1 .. Size : k \in 0 .. Nodes
    BY <1>2
  <2>3. pointers = {Native(Size)} \cup {Native(k) : k \in 1 .. Size}
        \/ pointers = {Native(0)} \/ pointers = {Native(1)}
    BY <1>4
  <2>4. 0 \in 0 .. Nodes /\ 1 \in 0 .. Nodes
    OBVIOUS
  <2>. QED  BY <1>2, <2>1, <2>2, <2>3, <2>4
<1>6. /\ Arg("a") \in Place /\ Zero \in Place /\ Datum(0) \in Place
      /\ Arg("a") # Zero /\ Arg("a") # Datum(0) /\ Nil \in Pointer /\ Nil.conv = 0
  <2>1. "a" \in Field /\ 0 \in Nat
    BY DEF Field
  <2>2. Arg("a") \in Place /\ Arg("a") # Datum(0)
    BY <2>1, PlaceFacts, PlacesDiffer
  <2>. QED  BY <2>2, ArgPlaces, ConversionFacts DEF PointersInv
<1>7. mem' \in [Place -> Pointer] /\ mem'[Arg("a")] = Nil
      /\ \A p \in Place : p # Arg("a") => mem'[p] = mem[p]
  BY <1>1, <1>2, <1>6
<1>8. NullLeftAlone'
  BY <1>1, <1>3, <1>6, <1>7 DEF NullLeftAlone
<1>9. AppSeesApp'
  <2>1. Elements \subseteq Unreliable'
    BY <1>1, <1>5 DEF Unreliable
  <2>2. ASSUME NEW p \in Place, p \notin Elements PROVE mem'[p].conv = 0
    <3>1. p = Zero \/ \E f \in Field : p = Arg(f)
      BY <2>2 DEF Place
    <3>2. CASE p = Zero
      BY <1>3, <1>6, <1>7, <3>2
    <3>3. CASE p = Arg("a")
      BY <1>6, <1>7, <3>3
    <3>4. CASE \E f \in {"b", "c", "d"} : p = Arg(f)
      <4>1. PICK f \in {"b", "c", "d"} : p = Arg(f)
        BY <3>4
      <4>2. p # Arg("a")
        BY <4>1, PlacesDiffer DEF Field
      <4>3. mem'[p] = was[p]
        BY <1>3, <1>7, <4>1, <4>2
      <4>. QED  BY <4>3, WasFacts
    <3>. QED  BY <3>1, <3>2, <3>3, <3>4 DEF Field
  <2>. QED  BY <2>1, <2>2 DEF AppSeesApp
<1>10. Passed'
  BY <1>1, PassedStays DEF PointersInv
<1>11. Kept'
  BY <1>1, <1>2, <1>5, <1>7, <1>8, <1>9 DEF PointersInv, Kept
<1>12. cur.conv = 1
  <2>1. (IF Size = 0 THEN 0 ELSE 1) \in 0 .. Nodes + 1
    OBVIOUS
  <2>. QED  BY <1>3, <2>1, PointerFacts
<1>13. GivenListInv'
  BY <1>0, <1>1, <1>2, <1>3, <1>4, <1>12 DEF GivenListInv
<1>. QED
  BY <1>0, <1>1, <1>10, <1>11, <1>13, NativesApart
  DEF PointersInv, StraightInv, MakesListInv, MakesArrayInv, GivenArrayInv

(* wapi_scan_coll: the native function puts elements in front.             *)
LEMMA ScanCollAdds ==
  ASSUME PointersInv, native = "wapi_scan_coll", WapiScanCollAdds
  PROVE  PointersInv'
<1>. USE NodesAssumption
<1>0. native \in ListNatives
  BY DEF ListNatives
<1> DEFINE first == IF count' = count THEN mem[Arg("a")] ELSE Native(count')
           m == [p \in Place |->
                   CASE p = Arg("a") -> NativeToAppAddr(first)
                     [] p[1] = "next" /\ p[2] \in count + 1 .. count' ->
                            IF p[2] = count + 1 THEN mem[Arg("a")] ELSE Native(p[2] - 1)
                     [] OTHER -> mem[p]]
<1>1. /\ step = "native" /\ step' = "out"
      /\ count' \in count .. Nodes /\ mem' = m /\ cur' = first
      /\ native' = native /\ args' = args /\ was' = was /\ lens' = lens
      /\ ok' = ok /\ freed' = freed
      /\ UNCHANGED pointerArgs
  BY DEF WapiScanCollAdds, Go, pointerArgs
<1>2. /\ Size \in 0 .. Nodes /\ Size' = Size /\ count = Size /\ (args[1] = Zero => Size = 0)
      /\ ok = TRUE /\ freed = {} /\ mem \in [Place -> Pointer]
  BY <1>0, <1>1, ListPassed DEF Size
<1>3. /\ \A k \in 1 .. Nodes : mem[Next(k)] = IF k \in 2 .. Size THEN Native(k - 1) ELSE Nil
      /\ \A f \in {"b", "c", "d"} : mem[Arg(f)] = was[Arg(f)]
      /\ mem[Arg("a")] = Native(Size)
      /\ mem[Zero] = Nil
      /\ \A k \in 0 .. Nodes + 1 : mem[Datum(k)] = was[Datum(k)]
      /\ args[1] # Zero
  BY <1>0, <1>1 DEF PointersInv, GivenListInv
<1>4. count' \in 0 .. Nodes /\ count' \in 0 .. Nodes + 1
  BY <1>1, <1>2
<1>5. first = Native(count') /\ first \in Pointer /\ first.to = count' /\ first # Nil
      /\ NativeToAppAddr(first) = App(count') /\ App(count') \in Pointer /\ App(count').conv = 0
  BY <1>2, <1>3, <1>4, PointerFacts
<1> HIDE DEF first
<1>6. mem'[Arg("a")] = App(count')
  <2>1. Arg("a") \in Place
    BY PlaceFacts DEF Field
  <2>2. Arg("a")[1] # "next"
    BY DEF Arg
  <2>. QED  BY <1>1, <1>5, <2>1, <2>2
<1>7. ASSUME NEW f \in {"b", "c", "d"} PROVE mem'[Arg(f)] = was[Arg(f)]
  <2>1. Arg(f) \in Place /\ Arg(f) # Arg("a")
    BY PlaceFacts, PlacesDiffer DEF Field
  <2>2. Arg(f)[1] # "next"
    BY DEF Arg
  <2>. QED  BY <1>1, <1>3, <2>1, <2>2
<1>8. ASSUME NEW k \in 0 .. Nodes + 1 PROVE mem'[Datum(k)] = was[Datum(k)]
  <2>1. Datum(k) \in Place /\ Datum(k) # Arg("a")
    BY PlaceFacts, PlacesDiffer DEF Field
  <2>2. Datum(k)[1] # "next"
    BY DEF Datum
  <2>. QED  BY <1>1, <1>3, <2>1, <2>2
<1>9. mem'[Zero] = Nil
  <2>1. Zero \in Place /\ Zero # Arg("a")
    BY ArgPlaces DEF PointersInv
  <2>2. Zero[1] # "next"
    BY DEF Zero, Next
  <2>. QED  BY <1>1, <1>3, <2>1, <2>2
<1>10. ASSUME NEW k \in 1 .. Nodes
       PROVE  mem'[Next(k)] = IF k \in Size + 1 .. count' THEN Native(k - 1) ELSE mem[Next(k)]
  <2>0. k \in 0 .. Nodes /\ "a" \in Field
    BY DEF Field
  <2>1. Next(k) \in Place /\ Next(k) # Arg("a")
    BY <2>0, PlaceFacts, PlacesDiffer
  <2>2. Next(k)[1] = "next" /\ Next(k)[2] = k
    BY DEF Next
  <2>3. k = Size + 1 => k - 1 = Size
    BY <1>2
  <2>4. mem'[Next(k)] = IF k \in Size + 1 .. count'
                        THEN IF k = Size + 1 THEN Native(Size) ELSE Native(k - 1)
                        ELSE mem[Next(k)]
    BY <1>1, <1>2, <1>3, <2>1, <2>2
  <2>. QED  BY <2>3, <2>4
<1>11. ASSUME NEW k \in 1 .. Nodes
       PROVE  mem'[Next(k)] = IF k <= count' /\ (k # 1 \/ Size = 0) THEN Native(k - 1) ELSE Nil
  <2>1. CASE k \in Size + 1 .. count'
    <3>1. k <= count' /\ (k # 1 \/ Size = 0)
      BY <1>2, <2>1
    <3>. QED  BY <1>10, <2>1, <3>1
  <2>2. CASE k \notin Size + 1 .. count'
    <3>1. k \in 2 .. Size <=> k <= count' /\ (k # 1 \/ Size = 0)
      BY <1>1, <1>2, <2>2
    <3>. QED  BY <1>3, <1>10, <2>2, <3>1
  <2>. QED  BY <2>1, <2>2
<1>12. mem' = [p \in Place |-> mem'[p]]
  BY <1>1
<1> HIDE DEF m
<1>13. mem' \in [Place -> Pointer]
  <2>1. \A f \in Field : mem'[Arg(f)] \in Pointer
    BY <1>5, <1>6, <1>7, PlaceFacts, WasFacts DEF Field
  <2>2. \A k \in 0 .. Nodes + 1 : mem'[Datum(k)] \in Pointer
    BY <1>8, PlaceFacts, WasFacts
  <2>3. \A k \in 1 .. Nodes : mem'[Next(k)] \in Pointer
    <3>1. \A k \in 1 .. Nodes : k - 1 \in 0 .. Nodes + 1
      OBVIOUS
    <3>. QED  BY <1>11, <3>1, PointerFacts, ConversionFacts
  <2>4. mem'[Next(0)] \in Pointer
    BY <1>9, PlaceFacts, ConversionFacts
  <2>5. \A k \in 0 .. Nodes : k = 0 \/ k \in 1 .. Nodes
    OBVIOUS
  <2>6. \A k \in 0 .. Nodes : mem'[Next(k)] \in Pointer
    BY <2>3, <2>4, <2>5
  <2>. QED  BY <1>12, <2>1, <2>2, <2>6, EveryPlace
<1>14. Passed'
  BY <1>1, PassedStays DEF PointersInv
<1>15. mem'[Datum(0)] = Nil
  BY <1>8, WasFacts
<1>16. cur' \in Pointer /\ cur' = Native(count') /\ cur'.to = count' /\ cur' # Nil
  BY <1>1, <1>5
<1>17. Kept'
  BY <1>1, <1>2, <1>4, <1>9, <1>13, <1>15, <1>16 DEF PointersInv, Kept, AppSeesApp, NullLeftAlone
<1>18. GivenListInv'
  <2>1. \A f \in Field : mem'[Arg(f)].conv = 0
    BY <1>5, <1>6, <1>7, PlaceFacts, WasFacts DEF Field
  <2>2. \A k \in 1 .. Nodes :
           IF cur' # Nil /\ k <= cur'.to
           THEN mem'[Next(k)] = Native(k - 1) \/ (k = 1 /\ mem'[Next(k)] = Nil)
           ELSE mem'[Next(k)].conv = 0
    BY <1>11, <1>16, ConversionFacts
  <2>3. cur' = Nil \/ cur' \in {Native(k) : k \in 0 .. Nodes}
    BY <1>4, <1>16
  <2>. QED  BY <1>1, <1>2, <1>3, <1>8, <1>9, <2>1, <2>2, <2>3 DEF GivenListInv
<1>. QED
  BY <1>0, <1>1, <1>14, <1>17, <1>18, NativesApart
  DEF PointersInv, StraightInv, MakesListInv, MakesArrayInv, GivenArrayInv

(* Where the walk back of wapi_scan_coll is.                               *)
LEMMA ScanCollOut ==
  ASSUME PointersInv, native = "wapi_scan_coll", step = "out"
  PROVE  /\ cur = Nil \/ (cur.to \in 0 .. Nodes /\ cur = Native(cur.to))
         /\ \A f \in Field : mem[Arg(f)].conv = 0
         /\ \A k \in 0 .. Nodes + 1 : mem[Datum(k)] = was[Datum(k)]
         /\ mem[Zero] = Nil
         /\ \A k \in 1 .. Nodes :
               IF cur # Nil /\ k <= cur.to
               THEN mem[Next(k)] = Native(k - 1) \/ (k = 1 /\ mem[Next(k)] = Nil)
               ELSE mem[Next(k)].conv = 0
<1>1. native \in ListNatives
  BY DEF ListNatives
<1>2. cur = Nil \/ \E k \in 0 .. Nodes : cur = Native(k)
  BY <1>1 DEF PointersInv, GivenListInv
<1>3. \A k \in 0 .. Nodes : Native(k).to = k
  BY NodesAssumption, PointerFacts
<1>4. cur = Nil \/ (cur.to \in 0 .. Nodes /\ cur = Native(cur.to))
  BY <1>2, <1>3
<1>. QED  BY <1>1, <1>4 DEF PointersInv, GivenListInv

(* wapi_scan_coll: the walk back, which goes on by the pointer it has      *)
(* saved.                                                                  *)
LEMMA ScanCollVisits ==
  ASSUME PointersInv, native = "wapi_scan_coll", cur # Nil, VisitToApp(native, {})
  PROVE  PointersInv'
<1>. USE NodesAssumption
<1>0. native \in ListNatives
  BY DEF ListNatives
<1> DEFINE j == cur.to
<1>1. /\ step = "out" /\ step' = "out"
      /\ mem' = NativeToAppAddrs(mem, {Next(j)}) /\ cur' = mem[Next(j)]
      /\ native' = native /\ args' = args /\ was' = was /\ lens' = lens
      /\ count' = count /\ ok' = ok /\ freed' = freed
      /\ UNCHANGED pointerArgs
  <2>1. {} \cup {Next(j)} = {Next(j)}
    OBVIOUS
  <2>. QED  BY <2>1 DEF VisitToApp, Visiting, pointerArgs
<1>2. ok = TRUE /\ freed = {} /\ mem \in [Place -> Pointer]
  BY <1>0, <1>1, ListPassed
<1>3. /\ j \in 0 .. Nodes /\ cur = Native(j)
      /\ \A f \in Field : mem[Arg(f)].conv = 0
      /\ \A k \in 0 .. Nodes + 1 : mem[Datum(k)] = was[Datum(k)]
      /\ mem[Zero] = Nil
      /\ \A k \in 1 .. Nodes :
            IF k <= j THEN mem[Next(k)] = Native(k - 1) \/ (k = 1 /\ mem[Next(k)] = Nil)
            ELSE mem[Next(k)].conv = 0
  BY <1>1, ScanCollOut
<1>4. /\ \A k \in 0 .. Nodes + 1 : /\ Native(k) \in Pointer /\ Native(k).to = k
                                   /\ App(k) \in Pointer /\ App(k).conv = 0
                                   /\ NativeToAppAddr(Native(k)) = App(k)
                                   /\ Native(k) # Nil
      /\ Nil \in Pointer /\ Nil.conv = 0 /\ NativeToAppAddr(Nil) = Nil
  BY PointerFacts, ConversionFacts
<1>5. /\ Zero = Next(0) /\ 0 \in 0 .. Nodes /\ 0 \in 0 .. Nodes + 1
      /\ \A k \in 0 .. Nodes : k = 0 \/ k \in 1 .. Nodes
      /\ \A k \in 1 .. Nodes : k - 1 \in 0 .. Nodes + 1 /\ k - 1 \in 0 .. Nodes
  BY PlaceFacts
<1>6. mem[Next(j)] = Nil \/ (j # 0 /\ mem[Next(j)] = Native(j - 1))
  <2>1. CASE j = 0
    BY <1>3, <1>5, <2>1
  <2>2. CASE j \in 1 .. Nodes
    <3>1. j <= j
      BY <2>2
    <3>. QED  BY <1>3, <2>2, <3>1
  <2>. QED  BY <1>3, <1>5, <2>1, <2>2
<1>7. mem[Next(j)] = Nil => j = 0 \/ j = 1
  <2>1. CASE j \in 1 .. Nodes
    <3>1. j <= j /\ j - 1 \in 0 .. Nodes + 1
      BY <2>1
    <3>. QED  BY <1>3, <1>4, <2>1, <3>1
  <2>. QED  BY <1>3, <1>5, <2>1
<1>8. j # 0 => j - 1 \in 0 .. Nodes /\ j - 1 \in 0 .. Nodes + 1
  BY <1>3
<1>9. \A p \in Place : mem'[p] = IF p \in {Next(j)} THEN NativeToAppAddr(mem[p]) ELSE mem[p]
  BY <1>1 DEF NativeToAppAddrs
<1>10. mem' = [p \in Place |-> mem'[p]]
  BY <1>1 DEF NativeToAppAddrs
<1>11. /\ \A f \in Field : mem'[Arg(f)] = mem[Arg(f)]
       /\ \A k \in 0 .. Nodes + 1 : mem'[Datum(k)] = mem[Datum(k)]
       /\ \A k \in 0 .. Nodes : k # j => mem'[Next(k)] = mem[Next(k)]
       /\ mem'[Next(j)] = NativeToAppAddr(mem[Next(j)])
  <2>1. /\ \A f \in Field : Arg(f) \in Place /\ Arg(f) \notin {Next(j)}
        /\ \A k \in 0 .. Nodes + 1 : Datum(k) \in Place /\ Datum(k) \notin {Next(j)}
        /\ \A k \in 0 .. Nodes : Next(k) \in Place /\ (Next(k) \in {Next(j)} <=> k = j)
    BY <1>3, ElementPlaces, PlaceFacts
  <2>. QED  BY <1>3, <1>9, <2>1
<1>12. mem'[Next(j)] \in Pointer /\ mem'[Next(j)].conv = 0 /\ (j = 0 => mem'[Next(j)] = Nil)
  <2>1. CASE mem[Next(j)] = Nil
    BY <1>4, <1>11, <2>1
  <2>2. CASE j # 0 /\ mem[Next(j)] = Native(j - 1)
    <3>1. mem'[Next(j)] = App(j - 1)
      BY <1>4, <1>8, <1>11, <2>2
    <3>. QED  BY <1>4, <1>8, <2>2, <3>1
  <2>. QED  BY <1>6, <2>1, <2>2
<1>13. mem' \in [Place -> Pointer]
  <2>1. /\ \A f \in Field : mem[Arg(f)] \in Pointer
        /\ \A k \in 0 .. Nodes + 1 : mem[Datum(k)] \in Pointer
        /\ \A k \in 0 .. Nodes : mem[Next(k)] \in Pointer
    BY <1>2, PlaceFacts
  <2>2. \A k \in 0 .. Nodes : mem'[Next(k)] \in Pointer
    BY <1>11, <1>12, <2>1
  <2>. QED  BY <1>10, <1>11, <2>1, <2>2, EveryPlace
<1>14. mem'[Zero] = Nil /\ mem'[Datum(0)] = Nil
  BY <1>3, <1>5, <1>11, <1>12, WasFacts
<1>15. IF cur' = Nil THEN j = 0 \/ j = 1 ELSE j # 0 /\ cur' = Native(j - 1) /\ cur'.to = j - 1
  BY <1>1, <1>4, <1>6, <1>7, <1>8
<1>16. cur' = Nil \/ cur' \in {Native(k) : k \in 0 .. Nodes}
  BY <1>8, <1>15
<1>17. cur' \in Pointer
  BY <1>4, <1>8, <1>15
<1>18. ASSUME NEW k \in 1 .. Nodes
       PROVE  IF cur' # Nil /\ k <= cur'.to
              THEN mem'[Next(k)] = Native(k - 1) \/ (k = 1 /\ mem'[Next(k)] = Nil)
              ELSE mem'[Next(k)].conv = 0
  <2>0. k \in 0 .. Nodes
    OBVIOUS
  <2>1. CASE k = j
    <3>1. ~(cur' # Nil /\ k <= cur'.to)
      BY <1>3, <1>15, <2>1
    <3>. QED  BY <1>12, <2>1, <3>1
  <2>2. CASE k # j
    <3>1. cur' # Nil /\ k <= cur'.to <=> k <= j
      BY <1>3, <1>15, <2>2
    <3>2. mem'[Next(k)] = mem[Next(k)]
      BY <1>11, <2>0, <2>2
    <3>. QED  BY <1>3, <3>1, <3>2
  <2>. QED  BY <2>1, <2>2
<1>19. Passed'
  BY <1>1, PassedStays DEF PointersInv
<1>20. Kept'
  BY <1>1, <1>2, <1>13, <1>14, <1>17 DEF PointersInv, Kept, AppSeesApp, NullLeftAlone
<1>21. GivenListInv'
  <2>1. args[1] # Zero
    BY <1>0, <1>1 DEF PointersInv, GivenListInv
  <2>2. \A f \in Field : mem'[Arg(f)].conv = 0
    BY <1>3, <1>11
  <2>3. \A k \in 0 .. Nodes + 1 : mem'[Datum(k)] = was[Datum(k)]
    BY <1>3, <1>11
  <2>. QED  BY <1>1, <1>2, <1>14, <1>16, <1>18, <2>1, <2>2, <2>3 DEF GivenListInv
<1>. QED
  BY <1>0, <1>1, <1>19, <1>20, <1>21, NativesApart
  DEF PointersInv, StraightInv, MakesListInv, MakesArrayInv, GivenArrayInv

(* The walk back has ended: every element is the application's.            *)
LEMMA ScanCollLeaves ==
  ASSUME PointersInv, native = "wapi_scan_coll", cur = Nil, Leave(native, {})
  PROVE  PointersInv'
<1>. USE NodesAssumption
<1>0. native \in ListNatives
  BY DEF ListNatives
<1>1. /\ step = "out" /\ step' = "returned"
      /\ mem' = NativeToAppAddrs(mem, {})
      /\ native' = native /\ args' = args /\ was' = was /\ lens' = lens
      /\ count' = count /\ ok' = ok /\ freed' = freed /\ cur' = cur
      /\ UNCHANGED pointerArgs
  BY DEF Leave, Go, pointerArgs
<1>2. ok = TRUE /\ freed = {} /\ mem \in [Place -> Pointer]
  BY <1>0, <1>1, ListPassed
<1>3. mem' = [p \in Place |-> mem[p]]
  BY <1>1 DEF NativeToAppAddrs
<1>4. mem' = mem
  BY <1>2, <1>3
<1>5. /\ \A f \in Field : mem[Arg(f)].conv = 0
      /\ \A k \in 0 .. Nodes + 1 : mem[Datum(k)] = was[Datum(k)]
      /\ mem[Zero] = Nil
      /\ \A k \in 1 .. Nodes : mem[Next(k)].conv = 0
  BY <1>1, ScanCollOut
<1>6. \A p \in Place : mem[p].conv = 0
  <2>1. \A k \in 0 .. Nodes + 1 : mem[Datum(k)].conv = 0
    BY <1>5, WasFacts, PlaceFacts
  <2>2. \A k \in 0 .. Nodes : mem[Next(k)].conv = 0
    <3>1. Zero = Next(0) /\ Nil.conv = 0 /\ \A k \in 0 .. Nodes : k = 0 \/ k \in 1 .. Nodes
      BY PlaceFacts, ConversionFacts
    <3>. QED  BY <1>5, <3>1
  <2>. QED  BY <1>5, <2>1, <2>2, PlaceFacts
<1>7. Passed'
  BY <1>1, PassedStays DEF PointersInv
<1>8. Kept'
  BY <1>0, <1>1, <1>2, <1>4, <1>6 DEF PointersInv, Kept, AppSeesApp, NullLeftAlone
<1>9. GivenListInv'
  BY <1>1, <1>2 DEF GivenListInv
<1>. QED
  BY <1>0, <1>1, <1>7, <1>8, <1>9, NativesApart
  DEF PointersInv, StraightInv, MakesListInv, MakesArrayInv, GivenArrayInv

(* freeifaddrs, wapi_scan_coll and wapi_scan_coll_free keep the invariant: *)
(* a walk converts the next of an element before it goes on, and stops at  *)
(* the last, whose next is NULL.                                           *)
THEOREM GivenListStep ==
  ASSUME PointersInv, native \in ListNatives, PointerNext
  PROVE  PointersInv'
<1>1. CASE native = "freeifaddrs"
  <2>1. \/ Walk(native, PassedList)
        \/ VisitToNative(native, {Datum(cur.to)})
        \/ Frees(native, Chain(PassedList), Arg("a"))
    BY <1>1, StepIsOfNative DEF Freeifaddrs, Ifaddrsinfo2Native
  <2>2. CASE Walk(native, PassedList)
    <3>1. /\ step = "called" /\ step' = "in" /\ cur' = PassedList /\ mem' = mem
          /\ UNCHANGED <<pointerArgs, count, lens, ok, freed>>
      BY <2>2 DEF Walk, Go
    <3>2. PassedList = Native(Size)
      BY <3>1, ListPassed DEF PassedList, Base
    <3>. QED  BY <1>1, <3>1, <3>2, ListWalkStarts
  <2>. QED  BY <1>1, <2>1, <2>2, ListVisits, ListFrees
<1>2. CASE native = "wapi_scan_coll_free"
  <2>1. \/ ReturnsAtOnce(native)
        \/ args[1] # Zero /\ Walk(native, PassedList)
        \/ VisitToNative(native, {})
        \/ Frees(native, Chain(cur), Arg("a"))
    BY <1>2, StepIsOfNative DEF WapiScanCollFree
  <2>2. CASE args[1] # Zero /\ Walk(native, PassedList)
    <3>1. /\ step = "called" /\ step' = "in" /\ cur' = PassedList /\ mem' = mem
          /\ UNCHANGED <<pointerArgs, count, lens, ok, freed>>
      BY <2>2 DEF Walk, Go
    <3>2. PassedList = Native(Size)
      BY <2>2, <3>1, ListPassed DEF PassedList
    <3>. QED  BY <1>2, <2>2, <3>1, <3>2, ListWalkStarts
  <2>. QED  BY <1>2, <2>1, <2>2, ListReturnsAtOnce, ListVisits, ListFrees
<1>3. CASE native = "wapi_scan_coll"
  <2>1. \/ ReturnsAtOnce(native)
        \/ WapiScanCollBegin
        \/ VisitToNative(native, {})
        \/ WapiScanCollAdds
        \/ cur # Nil /\ VisitToApp(native, {})
        \/ cur = Nil /\ Leave(native, {})
    BY <1>3, StepIsOfNative DEF WapiScanColl
  <2>2. CASE WapiScanCollBegin
    <3>1. /\ step = "called" /\ step' = "in" /\ args[1] # Zero
          /\ mem' = AppToNativeAddrs(mem, {Arg("a")}) /\ cur' = mem'[Arg("a")]
          /\ UNCHANGED <<pointerArgs, count, lens, ok, freed>>
      BY <2>2 DEF WapiScanCollBegin, Go
    <3>2. /\ Size \in 0 .. Nodes + 1 /\ was[Arg("a")] = App(Size) /\ mem = was
      <4>1. Size \in 0 .. Nodes /\ was[Arg("a")] = App(Size)
        BY ListPassed
      <4>2. mem = was
        BY <3>1 DEF PointersInv, Kept
      <4>. QED  BY <4>1, <4>2, NodesAssumption
    <3>3. mem'[Arg("a")] = AppToNativeAddr(was[Arg("a")])
      BY <3>1, <3>2, PlaceFacts DEF AppToNativeAddrs, Field
    <3>4. cur' = Native(Size)
      BY <3>1, <3>2, <3>3, PointerFacts
    <3>. QED  BY <1>3, <3>1, <3>4, ListWalkStarts
  <2>. QED
    BY <1>3, <2>1, <2>2, ListReturnsAtOnce, ListVisits, ScanCollAdds, ScanCollVisits, ScanCollLeaves
<1>. QED  BY <1>1, <1>2, <1>3 DEF ListNatives

----------------------------------------------------------------------------
(* The array that is given to dbus_free_string_array.                      *)

(* The array that was passed.                                              *)
LEMMA ArrayPassed ==
  ASSUME PointersInv, native = "dbus_free_string_array"
  PROVE  /\ Size \in 0 .. Nodes /\ (args[1] = Zero => Size = 0)
         /\ \A k \in 0 .. Nodes + 1 : was[Datum(k)] = IF k \in 1 .. Size THEN App(k) ELSE Nil
         /\ count = Size /\ ok = TRUE /\ mem \in [Place -> Pointer]
         /\ lens \in [{"b", "c"} -> BOOLEAN]
         /\ native \in GivenLists /\ native \notin ListNatives /\ native \notin Straight
         /\ native \notin MakesLists /\ native \notin MakesArrays
<1>1. /\ Size \in 0 .. Nodes /\ (args[1] = Zero => Size = 0)
      /\ \A k \in 1 .. Nodes + 1 : was[Datum(k)] = IF k <= Size THEN App(k) ELSE Nil
      /\ was[Datum(0)] = Nil
  BY NativesApart DEF PointersInv, Passed
<1>2. ASSUME NEW k \in 0 .. Nodes + 1
      PROVE  was[Datum(k)] = IF k \in 1 .. Size THEN App(k) ELSE Nil
  <2>1. CASE k = 0
    <3>1. k \notin 1 .. Size
      BY <2>1
    <3>. QED  BY <1>1, <2>1, <3>1
  <2>2. CASE k # 0
    <3>1. k \in 1 .. Nodes + 1 /\ (k \in 1 .. Size <=> k <= Size)
      BY NodesAssumption, <1>1, <2>2
    <3>. QED  BY <1>1, <3>1
  <2>. QED  BY <2>1, <2>2
<1>3. /\ count = Size /\ ok = TRUE /\ mem \in [Place -> Pointer]
      /\ lens \in [{"b", "c"} -> BOOLEAN]
  BY NativesApart DEF PointersInv, Kept, GivenArrayInv
<1>. QED  BY <1>1, <1>2, <1>3, NativesApart

(* Where the walk over it is.                                              *)
LEMMA ArrayWalk ==
  ASSUME PointersInv, native = "dbus_free_string_array", step \in {"in", "native"}
  PROVE  /\ cur.to \in 0 .. Size + 1 /\ cur = Native(cur.to)
         /\ cur.to = 0 <=> args[1] = Zero
         /\ step = "native" => cur.to = 0 \/ cur.to = Size + 1
         /\ freed = {}
         /\ \A f \in Field : mem[Arg(f)] = was[Arg(f)]
         /\ \A k \in 0 .. Nodes : mem[Next(k)] = was[Next(k)]
         /\ \A k \in 0 .. Nodes + 1 :
              mem[Datum(k)] = IF k \in 1 .. Size /\ k < cur.to THEN Native(k) ELSE was[Datum(k)]
<1>1. PICK j \in 0 .. Size + 1 : cur = Native(j)
  BY DEF PointersInv, GivenArrayInv
<1>2. j \in 0 .. Nodes + 1
  BY NodesAssumption, ArrayPassed
<1>3. cur.to = j
  BY <1>1, <1>2, PointerFacts
<1>. QED  BY <1>1, <1>3 DEF PointersInv, GivenArrayInv

(* The walk starts with the first string; from NULL it starts with the     *)
(* base.                                                                   *)
LEMMA ArrayWalkStarts ==
  ASSUME PointersInv, native = "dbus_free_string_array", Walk(native, PassedArray)
  PROVE  PointersInv'
<1>. USE NodesAssumption
<1>1. /\ step = "called" /\ step' = "in" /\ cur' = PassedArray /\ mem' = mem
      /\ native' = native /\ args' = args /\ was' = was /\ lens' = lens
      /\ count' = count /\ ok' = ok /\ freed' = freed
      /\ UNCHANGED pointerArgs /\ mem = was /\ freed = {}
  BY DEF Walk, Go, pointerArgs, PointersInv, Kept, Quiet
<1>2. PassedArray = Native(IF args[1] = Zero THEN 0 ELSE 1)
  BY DEF PassedArray, Base
<1>3. cur' \in Pointer /\ cur'.to = (IF args[1] = Zero THEN 0 ELSE 1)
  <2>1. (IF args[1] = Zero THEN 0 ELSE 1) \in 0 .. Nodes + 1
    OBVIOUS
  <2>. QED  BY <1>1, <1>2, <2>1, PointerFacts
<1>4. Size' = Size
  BY <1>1 DEF Size
<1>5. Passed'
  BY <1>1, PassedStays DEF PointersInv
<1>6. Kept'
  BY <1>1, <1>3, <1>4, WasFacts, ArrayPassed DEF PointersInv, Kept, AppSeesApp, NullLeftAlone
<1>7. GivenArrayInv'
  <2>1. cur' \in {Native(k) : k \in 0 .. Size + 1}
    <3>1. (IF args[1] = Zero THEN 0 ELSE 1) \in 0 .. Size + 1
      BY ArrayPassed
    <3>. QED  BY <1>1, <1>2, <3>1
  <2>2. \A k \in 0 .. Nodes + 1 : ~(k \in 1 .. Size /\ k < cur'.to)
    BY <1>3, ArrayPassed
  <2>3. cur'.to = 0 <=> args[1] = Zero
    BY <1>3
  <2>. QED  BY <1>1, <1>4, <2>1, <2>2, <2>3, ArrayPassed DEF GivenArrayInv
<1>. QED
  BY <1>1, <1>5, <1>6, <1>7, ArrayPassed
  DEF PointersInv, StraightInv, MakesListInv, MakesArrayInv, GivenListInv

(* A string is converted, or the walk stops at the NULL that ends the      *)
(* array.                                                                  *)
LEMMA ArrayVisits ==
  ASSUME PointersInv, native = "dbus_free_string_array", StringArrayAppToNative(native)
  PROVE  PointersInv'
<1>. USE NodesAssumption
<1> DEFINE j == cur.to
           T == {Datum(j)}
           S == NotNil(T)
<1>1. /\ step = "in" /\ mem' = AppToNativeAddrs(mem, S)
      /\ native' = native /\ args' = args /\ was' = was /\ lens' = lens
      /\ count' = count /\ ok' = ok /\ freed' = freed
      /\ UNCHANGED pointerArgs
      /\ IF mem[Datum(j)] = Nil THEN step' = "native" /\ cur' = cur
                                ELSE step' = "in" /\ cur' = Native(j + 1)
  BY DEF StringArrayAppToNative, Visiting, pointerArgs
<1>2. /\ Size \in 0 .. Nodes /\ Size' = Size /\ (args[1] = Zero => Size = 0)
      /\ \A k \in 0 .. Nodes + 1 : was[Datum(k)] = IF k \in 1 .. Size THEN App(k) ELSE Nil
      /\ count = Size /\ ok = TRUE /\ mem \in [Place -> Pointer]
  BY <1>1, ArrayPassed DEF Size
<1>3. /\ j \in 0 .. Size + 1 /\ cur = Native(j) /\ (j = 0 <=> args[1] = Zero)
      /\ freed = {}
      /\ \A f \in Field : mem[Arg(f)] = was[Arg(f)]
      /\ \A k \in 0 .. Nodes : mem[Next(k)] = was[Next(k)]
      /\ \A k \in 0 .. Nodes + 1 :
           mem[Datum(k)] = IF k \in 1 .. Size /\ k < j THEN Native(k) ELSE was[Datum(k)]
  BY <1>1, ArrayWalk
<1>4. \A k \in 0 .. Nodes + 1 : /\ Native(k) \in Pointer /\ Native(k).to = k
                                /\ App(k) = Nil <=> k = 0
                                /\ AppToNativeAddr(App(k)) = Native(k)
  BY PointerFacts
<1>5. j \in 0 .. Nodes + 1 /\ ~(j < j)
  BY <1>2, <1>3
<1>6. mem[Datum(j)] = IF j \in 1 .. Size THEN App(j) ELSE Nil
  BY <1>2, <1>3, <1>5
<1>7. mem[Datum(j)] = Nil <=> j \notin 1 .. Size
  <2>1. j \in 1 .. Size => j # 0
    OBVIOUS
  <2>. QED  BY <1>4, <1>5, <1>6, <2>1
<1>8. S = IF j \in 1 .. Size THEN {Datum(j)} ELSE {}
  BY <1>7 DEF NotNil
<1>9. /\ \A f \in Field : Arg(f) \in Place /\ Arg(f) \notin S
      /\ \A k \in 0 .. Nodes : Next(k) \in Place /\ Next(k) \notin S
      /\ \A k \in 0 .. Nodes + 1 : Datum(k) \in Place /\ (Datum(k) \in S <=> k = j /\ j \in 1 .. Size)
  <2> HIDE DEF S
  <2>1. /\ \A f \in Field : Arg(f) \notin {Datum(j)}
        /\ \A k \in 0 .. Nodes : Next(k) \notin {Datum(j)}
        /\ \A k \in 0 .. Nodes + 1 : Datum(k) \in {Datum(j)} <=> k = j
    BY <1>5, ElementPlaces
  <2>2. \A f \in Field : Arg(f) \notin S
    BY <1>8, <2>1
  <2>3. \A k \in 0 .. Nodes : Next(k) \notin S
    BY <1>8, <2>1
  <2>4. \A k \in 0 .. Nodes + 1 : Datum(k) \in S <=> k = j /\ j \in 1 .. Size
    BY <1>8, <2>1
  <2>. QED  BY <2>2, <2>3, <2>4, PlaceFacts, Zenon
<1>10. \A p \in Place : mem'[p] = IF p \in S THEN AppToNativeAddr(mem[p]) ELSE mem[p]
  BY <1>1 DEF AppToNativeAddrs
<1>11. mem' = [p \in Place |-> mem'[p]]
  BY <1>1 DEF AppToNativeAddrs
<1> HIDE DEF S, T
<1>12. /\ \A f \in Field : mem'[Arg(f)] = was[Arg(f)]
       /\ \A k \in 0 .. Nodes : mem'[Next(k)] = was[Next(k)]
  BY <1>3, <1>9, <1>10
<1>13. \A k \in 0 .. Nodes + 1 :
          mem'[Datum(k)] = IF k = j /\ j \in 1 .. Size THEN Native(k) ELSE mem[Datum(k)]
  BY <1>4, <1>5, <1>6, <1>9, <1>10
<1>14. mem' \in [Place -> Pointer]
  <2>1. /\ \A f \in Field : mem'[Arg(f)] \in Pointer
        /\ \A k \in 0 .. Nodes : mem'[Next(k)] \in Pointer
    BY <1>9, <1>12, WasFacts
  <2>2. \A k \in 0 .. Nodes + 1 : mem'[Datum(k)] \in Pointer
    BY <1>2, <1>4, <1>9, <1>13
  <2>. QED  BY <1>11, <2>1, <2>2, EveryPlace
<1>15. mem'[Zero] = Nil /\ mem'[Datum(0)] = Nil
  <2>1. Zero = Next(0) /\ 0 \in 0 .. Nodes /\ 0 \in 0 .. Nodes + 1 /\ 0 \notin 1 .. Size
    BY PlaceFacts
  <2>2. mem'[Datum(0)] = mem[Datum(0)]
    BY <1>13, <2>1
  <2>. QED  BY <1>3, <1>12, <2>1, <2>2, WasFacts
<1>16. j \in 1 .. Size => j + 1 \in 0 .. Size + 1 /\ j + 1 \in 0 .. Nodes + 1 /\ j + 1 # 0 /\ j # 0
  BY <1>2
<1>17. /\ cur' = IF j \in 1 .. Size THEN Native(j + 1) ELSE Native(j)
       /\ step' = IF j \in 1 .. Size THEN "in" ELSE "native"
       /\ cur'.to = IF j \in 1 .. Size THEN j + 1 ELSE j
       /\ cur' \in Pointer
       /\ cur' \in {Native(k) : k \in 0 .. Size + 1}
  BY <1>1, <1>3, <1>4, <1>5, <1>7, <1>16
<1>18. ASSUME NEW k \in 0 .. Nodes + 1
       PROVE  mem'[Datum(k)] = IF k \in 1 .. Size /\ k < cur'.to THEN Native(k) ELSE was[Datum(k)]
  <2>1. CASE k = j /\ j \in 1 .. Size
    <3>1. k \in 1 .. Size /\ k < cur'.to
      BY <1>17, <2>1
    <3>. QED  BY <1>13, <2>1, <3>1
  <2>2. CASE ~(k = j /\ j \in 1 .. Size)
    <3>1. k \in 1 .. Size /\ k < cur'.to <=> k \in 1 .. Size /\ k < j
      BY <1>5, <1>17, <2>2
    <3>. QED  BY <1>3, <1>13, <2>2, <3>1
  <2>. QED  BY <2>1, <2>2
<1>19. Passed'
  BY <1>1, PassedStays DEF PointersInv
<1>20. Kept'
  BY <1>1, <1>2, <1>3, <1>14, <1>15, <1>17, ArrayPassed
  DEF PointersInv, Kept, AppSeesApp, NullLeftAlone
<1>21. GivenArrayInv'
  <2>1. cur'.to = 0 <=> args[1] = Zero
    BY <1>3, <1>16, <1>17
  <2>2. step' = "native" => cur'.to = 0 \/ cur'.to = Size + 1
    BY <1>2, <1>3, <1>17
  <2>. QED  BY <1>1, <1>2, <1>3, <1>12, <1>17, <1>18, <2>1, <2>2 DEF GivenArrayInv
<1>. QED
  BY <1>1, <1>19, <1>20, <1>21, ArrayPassed
  DEF PointersInv, StraightInv, MakesListInv, MakesArrayInv, GivenListInv

(* libdbus frees the strings it finds and the array.                       *)
LEMMA ArrayFrees ==
  ASSUME PointersInv, native = "dbus_free_string_array",
         Frees(native,
               {PassedArray} \cup {mem[Datum(k)] : k \in {j \in 1 .. Nodes : mem[Datum(j)] # Nil}},
               Arg("a"))
  PROVE  PointersInv'
<1>. USE NodesAssumption
<1> DEFINE found == {mem[Datum(k)] : k \in {j \in 1 .. Nodes : mem[Datum(j)] # Nil}}
<1>1. /\ step = "native" /\ step' = "returned"
      /\ freed' = {PassedArray} \cup found /\ mem' = [mem EXCEPT ![Arg("a")] = Nil]
      /\ native' = native /\ args' = args /\ was' = was /\ lens' = lens
      /\ count' = count /\ ok' = ok /\ cur' = cur
      /\ UNCHANGED pointerArgs
  BY DEF Frees, Go, pointerArgs
<1>2. /\ Size \in 0 .. Nodes /\ Size' = Size /\ (args[1] = Zero => Size = 0)
      /\ \A k \in 0 .. Nodes + 1 : was[Datum(k)] = IF k \in 1 .. Size THEN App(k) ELSE Nil
      /\ count = Size /\ ok = TRUE /\ mem \in [Place -> Pointer]
  BY <1>1, ArrayPassed DEF Size
<1>3. /\ cur.to \in 0 .. Size + 1 /\ cur = Native(cur.to)
      /\ cur.to = 0 <=> args[1] = Zero
      /\ cur.to = 0 \/ cur.to = Size + 1
      /\ \A f \in Field : mem[Arg(f)] = was[Arg(f)]
      /\ \A k \in 0 .. Nodes : mem[Next(k)] = was[Next(k)]
      /\ \A k \in 0 .. Nodes + 1 :
           mem[Datum(k)] = IF k \in 1 .. Size /\ k < cur.to THEN Native(k) ELSE was[Datum(k)]
  BY <1>1, ArrayWalk
<1>4. ASSUME NEW k \in 0 .. Nodes + 1
      PROVE  mem[Datum(k)] = IF k \in 1 .. Size THEN Native(k) ELSE Nil
  <2>1. k \in 1 .. Size => k < cur.to
    BY <1>2, <1>3
  <2>. QED  BY <1>2, <1>3, <2>1
<1>5. /\ Nil \in Pointer /\ Nil.conv = 0
      /\ \A k \in 0 .. Nodes + 1 : /\ Native(k) \in Pointer /\ Native(k) # Nil
                                   /\ Native(k).conv = 1
  BY PointerFacts, ConversionFacts
<1>6. found = {Native(k) : k \in 1 .. Size}
  <2>1. \A k \in 1 .. Nodes : mem[Datum(k)] = IF k \in 1 .. Size THEN Native(k) ELSE Nil
    BY <1>4
  <2>2. \A k \in 1 .. Nodes : Native(k) # Nil
    BY <1>5
  <2>3. \A k \in 1 .. Size : k \in 1 .. Nodes
    BY <1>2
  <2>4. {j \in 1 .. Nodes : mem[Datum(j)] # Nil} = 1 .. Size
    BY <2>1, <2>2, <2>3
  <2>. QED  BY <2>1, <2>3, <2>4
<1> HIDE DEF found
<1>7. PassedArray = IF args[1] = Zero THEN Native(0) ELSE Native(1)
  BY DEF PassedArray, Base
<1>8. freed' \subseteq Pointer /\ freed' # {}
  <2>1. 0 \in 0 .. Nodes + 1 /\ 1 \in 0 .. Nodes + 1 /\ \A k \in 1 .. Size : k \in 0 .. Nodes + 1
    BY <1>2
  <2>. QED  BY <1>1, <1>5, <1>6, <1>7, <2>1
<1>9. Arg("a") \in Place
  BY PlaceFacts DEF Field
<1>10. /\ mem' \in [Place -> Pointer] /\ mem'[Arg("a")] = Nil
       /\ \A p \in Place : p # Arg("a") => mem'[p] = mem[p]
  BY <1>1, <1>2, <1>5, <1>9
<1>11. mem[Zero] = Nil /\ mem[Datum(0)] = Nil
  <2>1. Zero = Next(0) /\ 0 \in 0 .. Nodes /\ 0 \in 0 .. Nodes + 1 /\ 0 \notin 1 .. Size
    BY PlaceFacts
  <2>. QED  BY <1>3, <1>4, <2>1, WasFacts
<1>12. mem'[Zero] = Nil /\ mem'[Datum(0)] = Nil
  <2>1. Zero \in Place /\ Datum(0) \in Place /\ Zero # Arg("a")
    BY ArgPlaces DEF PointersInv
  <2>2. Datum(0) # Arg("a")
    BY PlacesDiffer DEF Field
  <2>. QED  BY <1>10, <1>11, <2>1, <2>2
<1>13. AppSeesApp'
  <2>1. Elements \subseteq Unreliable'
    BY <1>1, <1>8 DEF Unreliable
  <2>2. ASSUME NEW p \in Place, p \notin Elements PROVE mem'[p].conv = 0
    <3>1. p = Zero \/ \E f \in Field : p = Arg(f)
      BY <2>2 DEF Place
    <3>2. CASE p = Zero
      BY <1>5, <1>12, <3>2
    <3>3. CASE p = Arg("a")
      BY <1>5, <1>10, <3>3
    <3>4. CASE p # Arg("a") /\ \E f \in Field : p = Arg(f)
      BY <1>3, <1>10, <3>4, WasFacts
    <3>. QED  BY <3>1, <3>2, <3>3, <3>4
  <2>. QED  BY <2>1, <2>2 DEF AppSeesApp
<1>14. Passed'
  BY <1>1, PassedStays DEF PointersInv
<1>15. Kept'
  BY <1>1, <1>2, <1>8, <1>10, <1>12, <1>13, ArrayPassed DEF PointersInv, Kept, NullLeftAlone
<1>16. GivenArrayInv'
  <2>1. cur.conv = 1
    <3>1. cur.to \in 0 .. Nodes + 1
      BY <1>2, <1>3
    <3>. QED  BY <1>3, <1>5, <3>1
  <2>. QED  BY <1>1, <1>2, <1>6, <1>7, <2>1 DEF GivenArrayInv
<1>. QED
  BY <1>1, <1>14, <1>15, <1>16, ArrayPassed
  DEF PointersInv, StraightInv, MakesListInv, MakesArrayInv, GivenListInv

(* dbus_free_string_array keeps the invariant.                             *)
THEOREM GivenArrayStep ==
  ASSUME PointersInv, native = "dbus_free_string_array", PointerNext
  PROVE  PointersInv'
<1>1. DbusFreeStringArray
  BY StepIsOfNative
<1>. QED  BY <1>1, ArrayWalkStarts, ArrayVisits, ArrayFrees DEF DbusFreeStringArray

(* Every step of every native keeps the invariant.                         *)
LEMMA PointersStep ==
  ASSUME PointersInv, [PointerNext]_pointerVars PROVE PointersInv'
<1>1. CASE PointerNext
  <2>1. Passed
    BY DEF PointersInv
  <2>. QED
    BY <1>1, <2>1, NativeIsOne, StraightStep, MakesListStep, MakesArrayStep,
       GivenListStep, GivenArrayStep
<1>2. CASE UNCHANGED pointerVars
  BY <1>2, PointersStutter
<1>. QED
  BY <1>1, <1>2

(* The invariant, for every length of list or array and every native: what *)
(* has been converted and what has not is known at each step of a call.    *)
THEOREM PointersInvariant == PointerSpec => []PointersInv
<1>1. PointerInit => PointersInv
  BY PointerStarts
<1>2. PointersInv /\ [PointerNext]_pointerVars => PointersInv'
  BY PointersStep
<1>. QED  BY <1>1, <1>2, PTL DEF PointerSpec

(* Type correctness: no pointer is converted out of range, no loop of the  *)
(* glue runs past the end of an array, for every number of elements.       *)
THEOREM PointerTypeCorrect == PointerSpec => []PointerTypeOK
<1>1. PointersInv => PointerTypeOK
  BY DEF PointersInv, Kept, PointerTypeOK
<1>. QED  BY <1>1, PointersInvariant, PTL

(* NativeSeesNative: the pointers a native function follows, and those the *)
(* glue's own loops follow, have been converted exactly once, wherever in  *)
(* a list, array or structure they lie.                                    *)
THEOREM NativeReadsNative == PointerSpec => []NativeSeesNative
<1>1. PointersInv => NativeSeesNative
  BY PointersConverted, PointersWalkNative DEF NativeSeesNative
<1>. QED  BY <1>1, PointersInvariant, PTL

(* AppSeesItsOwn: when a call returns, every pointer the application may   *)
(* rely on is its own again, the native function's results included, and   *)
(* address 0 has not been written to except by the natives that do not     *)
(* ask.                                                                    *)
THEOREM AppReadsItsOwn == PointerSpec => []AppSeesItsOwn
<1>1. PointersInv => AppSeesItsOwn
  BY DEF PointersInv, Kept, AppSeesItsOwn
<1>. QED  BY <1>1, PointersInvariant, PTL

(* FreesWhatItIsGiven: freeifaddrs and dbus_free_string_array free the     *)
(* whole list or array and nothing else; wapi_scan_coll_free frees one of  *)
(* its elements only.                                                      *)
THEOREM FreesOnlyGiven == PointerSpec => []FreesWhatItIsGiven
<1>1. PointersInv => FreesWhatItIsGiven
  BY PointersFreed
<1>. QED  BY <1>1, PointersInvariant, PTL
=============================================================================
