--------------------------- MODULE NativePointers ---------------------------
(***************************************************************************)
(* Natives whose arguments point to memory that holds pointers itself.     *)
(* WAMR has converted the arguments; the glue converts what they point to  *)
(* before the native function follows it, and back before the application  *)
(* does.  The application's memory and the native function's are the same  *)
(* bytes, so a pointer that is converted twice, or not at all, is followed *)
(* to somewhere else.                                                      *)
(*                                                                         *)
(* With WAMR's bounds checks off, as CONFIG_WASM_LIBC_BYPASS demands, the  *)
(* conversions add and subtract the base of linear memory.  The            *)
(* application's NULL becomes the base, which the glue tells from NULL     *)
(* only where it compares with it; the native NULL becomes the             *)
(* application's.                                                          *)
(***************************************************************************)
EXTENDS Integers

CONSTANT Nodes          \* elements of the longest list or array

ASSUME NodesAssumption == Nodes \in Nat \ {0}

(* conv counts conversions: 0 in an application's pointer, 1 in a native one. *)
Pointer == [to : 0 .. Nodes + 1, conv : -1 .. 2]

App(k) == [to |-> k, conv |-> 0]
Native(k) == [to |-> k, conv |-> 1]
Nil == App(0)
Base == Native(0)

AppToNativeAddr(p) == [p EXCEPT !.conv = @ + 1]
NativeToAppAddr(p) == IF p = Nil THEN Nil ELSE [p EXCEPT !.conv = @ - 1]

(* Up to four pointers in the arguments: of struct wpa_wconfig_s ifname,   *)
(* ssid, bssid and passphrase; of struct msghdr iov, name and control; of  *)
(* other natives the cells their arguments point to.  Then the pointers in *)
(* the elements of a list, which ends with element 1, or of an array,      *)
(* which ends with Nil.  Element 0 is what lies at the application's       *)
(* address 0: zeros, until somebody writes there.                          *)
Field == {"a", "b", "c", "d"}
Next(k) == IF k = 0 THEN <<"zero", 0>> ELSE <<"next", k>>
Datum(k) == <<"data", k>>
Elements == {Next(k) : k \in 1 .. Nodes} \cup {Datum(k) : k \in 0 .. Nodes + 1}
Arg(f) == <<f, 0>>
Zero == Next(0)
Place == {Arg(f) : f \in Field} \cup {Zero} \cup Elements

ListNatives == {"wapi_scan_coll", "wapi_scan_coll_free", "freeifaddrs"}
ArrayNatives == {"dbus_free_string_array", "sendmsg", "recvmsg"}
WconfigNatives == {"wpa_driver_wext_associate", "wapi_load_config", "wapi_save_config"}
CellNatives == {"strtol", "strtod", "iconv", "versionsort", "scandir", "ioctl",
                "wapi_unload_config", "getaddrinfo", "getifaddrs",
                "dbus_connection_get_object_path_data",
                "dbus_connection_list_registered", "dbus_message_iter_append_basic"}

VARIABLES native,       \* the native that is called
          args,         \* where its first two arguments point
          count,        \* the length of the list or the array
          lens,         \* whether msg_namelen and msg_controllen are positive
          mem,          \* the pointers in memory
          was,          \* history: the same when the application made the call
          cur,          \* the loops: the element to visit
          step,         \* where the call is
          ok,           \* whether the native function succeeded
          freed         \* history: what the native function was given to free

pointerArgs == <<native, args, was>>
pointerVars == <<pointerArgs, count, lens, mem, cur, step, ok, freed>>

(* The application's memory: the list or array it passes, or cells.        *)
AppMemory(n, values, nulls) ==
    [p \in Place |->
        CASE p[1] = "next" -> IF p[2] <= n THEN App(p[2] - 1) ELSE Nil
          [] p[1] = "data" -> IF p[2] <= n /\ p[2] \notin nulls THEN App(p[2]) ELSE Nil
          [] p[1] \in Field -> IF p[1] = "a" /\ n > 0 THEN App(n) ELSE values[p[1]]
          [] OTHER -> Nil]

PointerStart(n, k, values, nulls, first, second) ==
    /\ native = n
    /\ count = k
    /\ args = <<first, second>>
    /\ mem = AppMemory(k, values, nulls)
    /\ was = mem
    /\ lens \in [{"b", "c"} -> IF n \in {"sendmsg", "recvmsg"} THEN BOOLEAN ELSE {TRUE}]
    /\ cur = Nil /\ step = "called" /\ ok = TRUE /\ freed = {}

NoCells == [f \in Field |-> Nil]

(* What the functions' own documentation lets an application pass.         *)
MayBeNull == {"strtol", "strtod", "iconv", "ioctl", "wapi_unload_config",
              "dbus_free_string_array"} \cup ListNatives \cup WconfigNatives

NeedNonNull == {"versionsort", "dbus_message_iter_append_basic"}

(* A list or an array with elements or empty; a structure of four pointers; *)
(* one or two cells, NULL instead of the first, or one for both.  Of the   *)
(* arrays' pointers only a message's may be NULL: it ends the other one.   *)
(* The second argument of ioctl is none: it is the word that happens to lie *)
(* behind the first, NULL or an address in the application's memory.       *)
PointerInit ==
    \/ \E n \in ListNatives \cup ArrayNatives, k \in 0 .. Nodes :
        \E nulls \in SUBSET (1 .. k), b, c \in {Nil, App(1)}, first \in {Arg("a"), Zero} :
            /\ nulls # {} => n \in {"sendmsg", "recvmsg"}
            /\ (b # Nil \/ c # Nil) => n \in {"sendmsg", "recvmsg"}
            /\ first = Zero => n \in MayBeNull /\ k = 0
            /\ n = "freeifaddrs" /\ k = 0 => first = Zero
            /\ PointerStart(n, k, [NoCells EXCEPT !["b"] = b, !["c"] = c], nulls,
                            first, Arg("b"))
    \/ \E n \in WconfigNatives, values \in [Field -> {Nil, App(1)}], first \in {Arg("a"), Zero} :
           PointerStart(n, 0, values, {}, first, Arg("b"))
    \/ \E n \in CellNatives, a, b \in {Nil, App(1)}, first \in {Arg("a"), Zero},
          second \in {Arg("a"), Arg("b"), Zero} :
        /\ first = Zero => n \in MayBeNull
        /\ Nil \in {a, b} => n \notin NeedNonNull
        /\ second = Arg("a") => n \in {"iconv", "versionsort", "ioctl"}
        /\ second = Zero => n = "ioctl"
        /\ PointerStart(n, 0, [NoCells EXCEPT !["a"] = a, !["b"] = b], {}, first, second)

----------------------------------------------------------------------------
(* Conversions of several pointers.                                        *)

AppToNativeAddrs(m, places) ==
    [p \in Place |-> IF p \in places THEN AppToNativeAddr(m[p]) ELSE m[p]]

NativeToAppAddrs(m, places) ==
    [p \in Place |-> IF p \in places THEN NativeToAppAddr(m[p]) ELSE m[p]]

NotNil(places) == {p \in places : mem[p] # Nil}

Go(n, from, to) == native = n /\ step = from /\ step' = to

(* A call begins, and a native function without a loop in its glue ends.   *)
GlueBegins(n, places) ==
    /\ Go(n, "called", "native")
    /\ mem' = AppToNativeAddrs(mem, places)
    /\ UNCHANGED <<pointerArgs, count, lens, cur, ok, freed>>

GlueEnds(n, places) ==
    /\ Go(n, "native", "returned")
    /\ mem' = NativeToAppAddrs(mem, places)
    /\ UNCHANGED <<pointerArgs, count, lens, cur, ok, freed>>

(* The native function stores p where its argument points, then returns.   *)
Stored(n, place, p) ==
    /\ Go(n, "native", "returned")
    /\ mem' = [mem EXCEPT ![place] = NativeToAppAddr(p)]
    /\ UNCHANGED <<pointerArgs, count, lens, cur, ok, freed>>

ReturnsAtOnce(n) ==
    /\ args[1] = Zero
    /\ Go(n, "called", "returned")
    /\ UNCHANGED <<pointerArgs, count, lens, mem, cur, ok, freed>>

----------------------------------------------------------------------------
(* Natives with cells.                                                     *)

(* strtol, strtoll, strtoul and strtoull do not ask whether endptr is NULL. *)
Strtol ==
    \/ GlueBegins("strtol", {args[1]})
    \/ Stored("strtol", args[1], Native(1))

Strtod ==
    \/ GlueBegins("strtod", {})
    \/ args[1] # Zero /\ Stored("strtod", args[1], Native(1))
    \/ args[1] = Zero /\ GlueEnds("strtod", {})

(* Two cells are converted one after the other, though they be one.        *)
TwoCellsBegin(n) ==
    /\ Go(n, "called", "native")
    /\ mem' = AppToNativeAddrs(AppToNativeAddrs(mem, {args[1]}), {args[2]})
    /\ UNCHANGED <<pointerArgs, count, lens, cur, ok, freed>>

TwoCellsEnd(n) ==
    /\ Go(n, "native", "returned")
    /\ mem' = NativeToAppAddrs(NativeToAppAddrs(mem, {args[1]}), {args[2]})
    /\ UNCHANGED <<pointerArgs, count, lens, cur, ok, freed>>

Iconv == TwoCellsBegin("iconv") \/ TwoCellsEnd("iconv")

Versionsort == TwoCellsBegin("versionsort") \/ TwoCellsEnd("versionsort")

DbusConnectionGetObjectPathData ==
    \/ GlueBegins("dbus_connection_get_object_path_data", {args[1]})
    \/ \E p \in {Nil, Native(1)} :
           Stored("dbus_connection_get_object_path_data", args[1], p)

(* For the type of a string; the value of another type is left alone.      *)
DbusMessageIterAppendBasic ==
    \/ GlueBegins("dbus_message_iter_append_basic", {args[1]})
    \/ GlueEnds("dbus_message_iter_append_basic", {args[1]})

(* SIOCGIFCONF's struct ifconf.  The call of ioctl takes the argument off  *)
(* the list, so the conversion back reads the word behind it, and turns    *)
(* back the pointer which that one leads to, if any.                       *)
LibcIoctlArgsConv ==
    \/ ReturnsAtOnce("ioctl")
    \/ args[1] # Zero /\ GlueBegins("ioctl", NotNil({args[1]}))
    \/ GlueEnds("ioctl", NotNil({args[2]} \ {Zero}))

(* cJSON_Delete follows next and frees.                                    *)
WapiUnloadConfig ==
    \/ ReturnsAtOnce("wapi_unload_config")
    \/ args[1] # Zero /\ GlueBegins("wapi_unload_config", {args[1]})
    \/ GlueEnds("wapi_unload_config", {args[1]})

----------------------------------------------------------------------------
(* struct wpa_wconfig_s.                                                   *)

(* Bug: the passphrase is forgotten.                                       *)
WconfigPtrsOfThree == {Arg("a"), Arg("b"), Arg("c")}

WconfigPtrs == {Arg(f) : f \in Field}

WconfigPtrsToNative(n) ==
    \/ ReturnsAtOnce(n)
    \/ args[1] # Zero /\ GlueBegins(n, NotNil(WconfigPtrs))

WconfigPtrsToApp(n) == GlueEnds(n, NotNil({Arg(f) : f \in Field}))

Wconfig(n) == WconfigPtrsToNative(n) \/ WconfigPtrsToApp(n)

WpaDriverWextAssociate == Wconfig("wpa_driver_wext_associate")

(* When it finds the network, the native function sets all four.           *)
WapiLoadConfig ==
    \/ Wconfig("wapi_load_config")
    \/ /\ native = "wapi_load_config" /\ step = "native"
       /\ mem' = [p \in Place |-> IF p[1] \in Field THEN Native(1) ELSE mem[p]]
       /\ mem' # mem
       /\ UNCHANGED <<pointerArgs, count, lens, cur, step, ok, freed>>

WapiSaveConfig == Wconfig("wapi_save_config")

----------------------------------------------------------------------------
(* struct msghdr: the array of buffers, and name and control by their      *)
(* lengths, which recvmsg sets and may set to 0.                           *)

WithLength == {Arg(f) : f \in {g \in {"b", "c"} : mem[Arg(g)] # Nil /\ lens[g]}}

Msghdr == {Arg("a")} \cup {Datum(k) : k \in 1 .. count} \cup WithLength

GlueMsghdrBegin(n) == GlueBegins(n, Msghdr)

(* Bug: only the array is converted back, not its buffers.                 *)
GlueMsghdrEndArray(n) == GlueEnds(n, {Arg("a")})

GlueMsghdrEnd(n) == GlueEnds(n, Msghdr)

Sendmsg == GlueMsghdrBegin("sendmsg") \/ GlueMsghdrEnd("sendmsg")

RecvmsgSetsLengths ==
    /\ native = "recvmsg" /\ step = "native"
    /\ \E f \in {"b", "c"} : lens[f] /\ lens' = [lens EXCEPT ![f] = FALSE]
    /\ UNCHANGED <<pointerArgs, count, mem, cur, step, ok, freed>>

Recvmsg == GlueMsghdrBegin("recvmsg") \/ RecvmsgSetsLengths \/ GlueMsghdrEnd("recvmsg")

----------------------------------------------------------------------------
(* Loops over a list or an array, an element a step.  What a pointer that  *)
(* is not native leads to is not known, and no step follows it.            *)

Visiting(n, s) == native = n /\ step = s /\ cur.conv = 1

(* Towards the native side: stops at the last element.                     *)
VisitToNative(n, data) ==
    LET next == mem[Next(cur.to)]
    IN  /\ Visiting(n, "in")
        /\ mem' = AppToNativeAddrs(mem, data \cup NotNil({Next(cur.to)}))
        /\ IF next = Nil THEN step' = "native" /\ cur' = cur
                         ELSE step' = step /\ cur' = AppToNativeAddr(next)
        /\ UNCHANGED <<pointerArgs, count, lens, ok, freed>>

(* Towards the application: goes on by the pointer it has saved.           *)
VisitToApp(n, data) ==
    /\ Visiting(n, "out")
    /\ mem' = NativeToAppAddrs(mem, data \cup {Next(cur.to)})
    /\ cur' = mem[Next(cur.to)]
    /\ UNCHANGED <<pointerArgs, count, lens, step, ok, freed>>

(* At the end, the cell that points to the first element.                  *)
Leave(n, places) ==
    /\ Go(n, "out", "returned")
    /\ mem' = NativeToAppAddrs(mem, places)
    /\ UNCHANGED <<pointerArgs, count, lens, cur, ok, freed>>

(* The native function has made a list of k elements or an array, or fails. *)
ListOf == [k \in 0 .. Nodes |-> IF k = 0 THEN Nil ELSE Native(k)]
ArrayOf == [k \in 0 .. Nodes |-> Native(1)]

NativeMemory(k, nulls, first) ==
    [p \in Place |->
        CASE p = args[1] -> first
          [] p[1] = "next" /\ p[2] \in 2 .. k /\ native \in {"getaddrinfo", "getifaddrs"} ->
                 Native(p[2] - 1)
          [] p[1] = "data" /\ p[2] \in (1 .. k) \ nulls -> Native(p[2])
          [] OTHER -> mem[p]]

Gives(n, first, nullable, failed) ==
    /\ Go(n, "native", "out")
    /\ \/ \E k \in 0 .. Nodes, nulls \in SUBSET (1 .. Nodes) :
              /\ nulls \subseteq nullable \cap 1 .. k
              /\ mem' = NativeMemory(k, nulls, first[k])
              /\ count' = k /\ ok' = TRUE
       \/ /\ \E p \in failed : mem' = [mem EXCEPT ![args[1]] = p]
          /\ count' = count /\ ok' = FALSE
    /\ cur' = mem'[args[1]]
    /\ UNCHANGED <<pointerArgs, lens, freed>>

----------------------------------------------------------------------------
(* Natives with lists.                                                     *)

Addrinfo2App(n) ==
    \/ cur # Nil /\ VisitToApp(n, {Datum(cur.to)})
    \/ cur = Nil /\ Leave(n, {args[1]})

Getaddrinfo ==
    \/ GlueBegins("getaddrinfo", {})
    \/ Gives("getaddrinfo", ListOf, 1 .. Nodes, {Nil, mem[args[1]]})
    \/ Addrinfo2App("getaddrinfo")

Ifaddrsinfo2App(n) ==
    \/ cur # Nil /\ VisitToApp(n, {Datum(cur.to)})
    \/ cur = Nil /\ Leave(n, {args[1]})

Getifaddrs ==
    \/ GlueBegins("getifaddrs", {})
    \/ Gives("getifaddrs", ListOf, 1 .. Nodes, {Nil, mem[args[1]]})
    \/ Ifaddrsinfo2App("getifaddrs")

(* The list an argument points to; the application's NULL is the base.     *)
PassedList == IF args[1] = Zero THEN Base ELSE Native(count)
PassedArray == IF args[1] = Zero THEN Base ELSE Native(1)

Walk(n, first) ==
    /\ Go(n, "called", "in")
    /\ cur' = first
    /\ UNCHANGED <<pointerArgs, count, lens, mem, ok, freed>>

(* The elements a native function finds when it starts with p.             *)
Chain(p) ==
    {p} \cup {Native(k) : k \in {j \in 1 .. p.to - 1 :
                                  \A i \in j + 1 .. p.to : mem[Next(i)] = Native(i - 1)}}

Frees(n, pointers, place) ==
    /\ Go(n, "native", "returned")
    /\ freed' = pointers
    /\ mem' = [mem EXCEPT ![place] = Nil]
    /\ UNCHANGED <<pointerArgs, count, lens, cur, ok>>

Ifaddrsinfo2Native == VisitToNative("freeifaddrs", {Datum(cur.to)})

Freeifaddrs ==
    \/ Walk("freeifaddrs", PassedList)
    \/ Ifaddrsinfo2Native
    \/ Frees("freeifaddrs", Chain(PassedList), Arg("a"))

(* The list as it is, to which the native function adds elements in front; *)
(* an element's next is converted as soon as there is one.                 *)
WapiScanCollBegin ==
    /\ args[1] # Zero
    /\ Go("wapi_scan_coll", "called", "in")
    /\ mem' = AppToNativeAddrs(mem, {Arg("a")})
    /\ cur' = mem'[Arg("a")]
    /\ UNCHANGED <<pointerArgs, count, lens, ok, freed>>

WapiScanCollAdds ==
    /\ Go("wapi_scan_coll", "native", "out")
    /\ count' \in count .. Nodes
    /\ LET first == IF count' = count THEN mem[Arg("a")] ELSE Native(count')
       IN  /\ mem' = [p \in Place |->
                 CASE p = Arg("a") -> NativeToAppAddr(first)
                   [] p[1] = "next" /\ p[2] \in count + 1 .. count' ->
                          IF p[2] = count + 1 THEN mem[Arg("a")] ELSE Native(p[2] - 1)
                   [] OTHER -> mem[p]]
           /\ cur' = first
    /\ UNCHANGED <<pointerArgs, lens, ok, freed>>

WapiScanColl ==
    \/ ReturnsAtOnce("wapi_scan_coll")
    \/ WapiScanCollBegin
    \/ VisitToNative("wapi_scan_coll", {})
    \/ WapiScanCollAdds
    \/ cur # Nil /\ VisitToApp("wapi_scan_coll", {})
    \/ cur = Nil /\ Leave("wapi_scan_coll", {})

(* Bug: the application's pointer is passed on.                            *)
WapiScanCollFreeAsPassed ==
    \/ ReturnsAtOnce("wapi_scan_coll_free")
    \/ args[1] # Zero /\ Walk("wapi_scan_coll_free", PassedList)
    \/ VisitToNative("wapi_scan_coll_free", {})
    \/ Frees("wapi_scan_coll_free", {mem[Arg("a")]}, Arg("a"))

(* The walk leaves the last element as the list that is passed on.         *)
WapiScanCollFree ==
    \/ ReturnsAtOnce("wapi_scan_coll_free")
    \/ args[1] # Zero /\ Walk("wapi_scan_coll_free", PassedList)
    \/ VisitToNative("wapi_scan_coll_free", {})
    \/ Frees("wapi_scan_coll_free", Chain(cur), Arg("a"))

----------------------------------------------------------------------------
(* Natives with arrays.                                                    *)

StringArrayAppToNative(n) ==
    LET element == Datum(cur.to)
    IN  /\ Visiting(n, "in")
        /\ mem' = AppToNativeAddrs(mem, NotNil({element}))
        /\ IF mem[element] = Nil THEN step' = "native" /\ cur' = cur
                                 ELSE step' = step /\ cur' = Native(cur.to + 1)
        /\ UNCHANGED <<pointerArgs, count, lens, ok, freed>>

(* Bug: the loop does not see the NULL that ends the array.                *)
StringArrayNativeToAppOn(n) ==
    IF cur # Nil
    THEN /\ Visiting(n, "out")
         /\ mem' = NativeToAppAddrs(mem, {Datum(cur.to)})
         /\ cur' = Native(cur.to + 1)
         /\ UNCHANGED <<pointerArgs, count, lens, step, ok, freed>>
    ELSE Leave(n, {args[1]})

StringArrayNativeToApp(n) ==
    LET element == Datum(cur.to)
    IN  IF cur # Nil /\ mem[element] # Nil
        THEN /\ Visiting(n, "out")
             /\ mem' = NativeToAppAddrs(mem, {element})
             /\ cur' = Native(cur.to + 1)
             /\ UNCHANGED <<pointerArgs, count, lens, step, ok, freed>>
        ELSE Leave(n, {args[1]})

(* libdbus clears the cell before it can fail.                             *)
DbusConnectionListRegistered ==
    \/ GlueBegins("dbus_connection_list_registered", {})
    \/ Gives("dbus_connection_list_registered", ArrayOf, {}, {Nil})
    \/ StringArrayNativeToApp("dbus_connection_list_registered")

DbusFreeStringArray ==
    \/ Walk("dbus_free_string_array", PassedArray)
    \/ StringArrayAppToNative("dbus_free_string_array")
    \/ Frees("dbus_free_string_array",
             {PassedArray} \cup {mem[Datum(k)] : k \in {j \in 1 .. Nodes : mem[Datum(j)] # Nil}},
             Arg("a"))

(* The entries are counted; the array's own pointer is converted whatever  *)
(* the result.                                                             *)
Scandir ==
    \/ GlueBegins("scandir", {})
    \/ Gives("scandir", ArrayOf, {}, {mem[args[1]]})
    \/ Leave("scandir", {Datum(k) : k \in 1 .. (IF ok THEN count ELSE 0)} \cup {args[1]})

PointerNext ==
    \/ Strtol \/ Strtod \/ Iconv \/ Versionsort \/ LibcIoctlArgsConv
    \/ Sendmsg \/ Recvmsg \/ Scandir
    \/ Getaddrinfo \/ Getifaddrs \/ Freeifaddrs
    \/ WapiScanColl \/ WapiScanCollFree
    \/ WpaDriverWextAssociate \/ WapiLoadConfig \/ WapiSaveConfig \/ WapiUnloadConfig
    \/ DbusConnectionGetObjectPathData \/ DbusMessageIterAppendBasic
    \/ DbusConnectionListRegistered \/ DbusFreeStringArray

PointerSpec == PointerInit /\ [][PointerNext]_pointerVars

----------------------------------------------------------------------------
(* Properties                                                              *)

(* Every variable has its type: no loop runs past the end of an array.     *)
PointerTypeOK ==
    /\ mem \in [Place -> Pointer]
    /\ count \in 0 .. Nodes
    /\ cur \in Pointer
    /\ step \in {"called", "in", "native", "out", "returned"}
    /\ freed \subseteq Pointer

(* The pointers the native function follows.                               *)
Reads ==
    CASE native \in {"iconv", "versionsort"} -> {args[1], args[2]}
      [] native \in {"ioctl", "wapi_unload_config", "dbus_message_iter_append_basic"} ->
             {args[1]}
      [] native \in WconfigNatives -> {Arg(f) : f \in Field}
      [] native \in {"sendmsg", "recvmsg"} ->
             {Arg("a")} \cup {Datum(k) : k \in 1 .. count}
                 \cup {Arg(f) : f \in {g \in {"b", "c"} : lens[g]}}
      [] native = "dbus_free_string_array" -> {Datum(k) : k \in 1 .. Nodes + 1}
      [] native = "wapi_scan_coll" -> {Arg("a")} \cup {Next(k) : k \in 1 .. Nodes}
      [] native \in ListNatives -> {Next(k) : k \in 1 .. Nodes}
      [] OTHER -> {}

(* Natives whose NULL pointers in memory arrive as the base.               *)
BlindToNull == {"iconv", "versionsort", "wapi_unload_config", "sendmsg", "recvmsg",
                "wapi_scan_coll"}

(* Each pointer a native function follows has been converted exactly once, *)
(* wherever in a list, an array or a structure it lies, and NULL is still  *)
(* NULL but for the natives above; unless both cells of a call are one.    *)
ConvertedOnce ==
    step = "native" /\ (native \in {"iconv", "versionsort"} => args[1] # args[2]) =>
        \A p \in Reads :
            IF was[p] # Nil THEN mem[p] \in {Native(was[p].to), Native(1)}
            ELSE mem[p] = Nil \/ native \in BlindToNull \cup {"wapi_load_config"}

(* Memory that is no longer the application's when the call returns, or    *)
(* whose contents it cannot rely on: what has been freed, what a failed    *)
(* call was to set; and, though it may, what the glue leaves native or     *)
(* turns back unasked: a name or control buffer of recvmsg whose length    *)
(* has become 0; and of ioctl, unless the word behind the argument repeats *)
(* it, the buffer of its structure and what that word leads to.            *)
Unreliable ==
    (IF freed # {} THEN Elements ELSE {})
        \cup (IF ok THEN {} ELSE {args[1]})
        \cup {Arg(f) : f \in {g \in {"b", "c"} : native = "recvmsg" /\ ~ lens[g]}}
        \cup (IF native = "ioctl" /\ args[1] # args[2] THEN {args[1], args[2]} ELSE {})

(* When a native returns, every pointer in memory is the application's:    *)
(* those it has passed and those the native function has made.             *)
AppSeesApp ==
    step = "returned" => \A p \in Place \ Unreliable : mem[p].conv = 0

(* The glue's own loops follow native pointers only, from first to last,   *)
(* except through what a failed call has left of a stale pointer.          *)
WalksNative == cur = Nil \/ cur.conv = 1 \/ ~ ok

(* NULL is not written through: the first words of linear memory stay as   *)
(* they are, except by the natives that do not ask.                        *)
NullLeftAlone ==
    \/ mem[Zero] = Nil /\ mem[Datum(0)] = Nil
    \/ native \in {"strtol", "iconv", "freeifaddrs"} /\ args[1] = Zero

(* A native that frees frees what it was given and nothing else: of lists  *)
(* and arrays everything, except that wapi_scan_coll_free has only the     *)
(* last element left.  (Given nothing, all of them free the base.)         *)
FreesWhatItIsGiven ==
    freed # {} /\ args[1] # Zero /\ (native \in ListNatives => count > 0) =>
        /\ freed \subseteq {Native(k) : k \in 1 .. Nodes}
        /\ \A k \in 1 .. count :
               Native(k) \in freed \/ native = "wapi_scan_coll_free"

(* What native code reads, the glue's own loops included, is native.       *)
NativeSeesNative == ConvertedOnce /\ WalksNative

(* What the application may rely on when a call returns is its own:        *)
(* pointers in its addresses, those in lists, arrays and structures that   *)
(* it has passed or been given, and the words at address 0 as they were.   *)
AppSeesItsOwn == AppSeesApp /\ NullLeftAlone
=============================================================================
