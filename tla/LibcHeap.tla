------------------------------ MODULE LibcHeap ------------------------------
(***************************************************************************)
(* posix_memalign and free of libc_bypass.c.  A block that is aligned in   *)
(* native memory need not be in the application's, so posix_memalign       *)
(* allocates more, gives the application an aligned address inside, and    *)
(* notes that address with the block's own in a static map; free looks     *)
(* there for the block to free.  The map has one semaphore and serves      *)
(* every application, though its keys are addresses of one application's   *)
(* linear memory.                                                          *)
(*                                                                         *)
(* A pointer is a block and a place in it: 0 is its start, which malloc    *)
(* gives, 1 is inside.                                                     *)
(***************************************************************************)
EXTENDS Naturals, FiniteSets, Sequences

CONSTANTS Callers,      \* threads
          AppOf,        \* the application of each
          Heap,         \* the blocks of the native heap
          MapSize       \* CONFIG_LIBC_BYPASS_POSIXMEMALIGN_MAP_SIZE

Nowhere == "nowhere"

ASSUME HeapAssumption ==
    /\ DOMAIN AppOf = Callers
    /\ Nowhere \notin Callers
    /\ MapSize \in Nat \ {0}

Ptr == Heap \X {0, 1}
Start(b) == <<b, 0>>

(* A pointer as its application sees it, which is what the map is asked by: *)
(* blocks of two applications are taken to lie at different addresses.     *)
AppAddr(app, p) == <<app, p>>

Empty == <<>>
NoIndex == 0

VARIABLES live,         \* the blocks that are allocated
          g_aligned_memory_map,
          map_sem,      \* who has the semaphore
          caller,       \* where each thread is, with its pointer and index
          held,         \* what the applications have to free
          dangling,     \* pointers an application wrongly believes its own
          misfreed      \* history: a block that was not meant was freed

heapVars == <<live, g_aligned_memory_map, map_sem, caller, held, dangling, misfreed>>

AnyBlock == CHOOSE b \in Heap : TRUE
Idle == [at |-> "idle", ptr |-> Start(AnyBlock), index |-> NoIndex, raw |-> AnyBlock]

HeapInit ==
    /\ live = {}
    /\ g_aligned_memory_map = [i \in 1 .. MapSize |-> Empty]
    /\ map_sem = Nowhere
    /\ caller = [t \in Callers |-> Idle]
    /\ held = {} /\ dangling = {}
    /\ misfreed = FALSE

Application(t) == AppOf[t]
At(t) == caller[t].at
Key(t) == AppAddr(Application(t), caller[t].ptr)
Goes(t, from, to) == At(t) = from /\ caller' = [caller EXCEPT ![t].at = to]
Ends(t) == caller' = [caller EXCEPT ![t] = Idle]

----------------------------------------------------------------------------
(* malloc goes to the native heap directly.                                *)
Malloc(t) ==
    /\ At(t) = "idle"
    /\ \E b \in Heap \ live :
        /\ live' = live \cup {b}
        /\ held' = held \cup {[app |-> Application(t), ptr |-> Start(b)]}
    /\ UNCHANGED <<g_aligned_memory_map, map_sem, caller, dangling, misfreed>>

(* posix_memalign, as far as the native function.  When that fails the     *)
(* result is NULL, that is 0, which means success: the application takes   *)
(* what happens to be in its cell for the block.                           *)
PosixMemalign(t) ==
    /\ At(t) = "idle"
    /\ \/ \E b \in Heap \ live, place \in {0, 1} :
              /\ live' = live \cup {b}
              /\ caller' = [caller EXCEPT ![t] =
                     [at |-> "add", ptr |-> <<b, place>>, index |-> NoIndex, raw |-> b]]
              /\ UNCHANGED <<held, dangling>>
       \/ \E p \in Ptr :
              /\ held' = held \cup {[app |-> Application(t), ptr |-> p]}
              /\ dangling' = dangling \cup {p}
              /\ UNCHANGED <<live, caller>>
    /\ UNCHANGED <<g_aligned_memory_map, map_sem, misfreed>>

Least(S) == IF S = {} THEN NoIndex ELSE CHOOSE i \in S : \A j \in S : i <= j

FirstFree == Least({i \in 1 .. MapSize : g_aligned_memory_map[i] = Empty})

FirstWith(key) ==
    Least({i \in 1 .. MapSize : g_aligned_memory_map[i] # Empty
                                    /\ g_aligned_memory_map[i].key = key})

(* Bug: the map is searched without waiting.                               *)
SemWaitNot(t, from, to, found) ==
    /\ At(t) = from
    /\ map_sem' = t
    /\ caller' = [caller EXCEPT ![t].at = to, ![t].index = found]
    /\ UNCHANGED <<live, g_aligned_memory_map, held, dangling, misfreed>>

(* sem_wait, and the loop up to the slot it looks for.                     *)
SemWait(t, from, to, found) ==
    /\ At(t) = from
    /\ map_sem = Nowhere
    /\ map_sem' = t
    /\ caller' = [caller EXCEPT ![t].at = to, ![t].index = found]
    /\ UNCHANGED <<live, g_aligned_memory_map, held, dangling, misfreed>>

AddFinds(t) == SemWait(t, "add", "adding", FirstFree)

RemoveFinds(t) == SemWait(t, "remove", "removing", FirstWith(Key(t)))

AddToAlignedMap(t) ==
    /\ IF caller[t].index = NoIndex
       THEN Goes(t, "adding", "full") /\ UNCHANGED g_aligned_memory_map
       ELSE /\ Goes(t, "adding", "added")
            /\ g_aligned_memory_map' =
                   [g_aligned_memory_map EXCEPT ![caller[t].index] =
                        [key |-> Key(t), raw |-> caller[t].raw]]
    /\ map_sem' = Nowhere
    /\ UNCHANGED <<live, held, dangling, misfreed>>

(* With the map full the block is freed; but the application's pointer has *)
(* been set already, and the result is 0, which means success.             *)
MemalignReturns(t) ==
    /\ At(t) \in {"added", "full"} /\ Ends(t)
    /\ held' = held \cup {[app |-> Application(t), ptr |-> caller[t].ptr]}
    /\ IF At(t) = "full"
       THEN live' = live \ {caller[t].raw} /\ dangling' = dangling \cup {caller[t].ptr}
       ELSE UNCHANGED <<live, dangling>>
    /\ UNCHANGED <<g_aligned_memory_map, map_sem, misfreed>>

(* Any thread of an application frees what the application has.            *)
GlueFree(t) ==
    /\ At(t) = "idle"
    /\ \E h \in held :
        /\ h.app = Application(t)
        /\ held' = held \ {h}
        /\ caller' = [caller EXCEPT ![t] =
               [at |-> "remove", ptr |-> h.ptr, index |-> NoIndex, raw |-> h.ptr[1]]]
    /\ UNCHANGED <<live, g_aligned_memory_map, map_sem, dangling, misfreed>>

(* Bug: the block is read from the entry that has just been cleared.       *)
RemoveReadsLate(t) ==
    LET i == caller[t].index
    IN  /\ Goes(t, "removing", "free")
        /\ g_aligned_memory_map' =
               [j \in 1 .. MapSize |-> IF j = i THEN Empty ELSE g_aligned_memory_map[j]]
        /\ map_sem' = Nowhere
        /\ UNCHANGED <<live, held, dangling, misfreed>>

RemoveFromAlignedMap(t) ==
    LET i == caller[t].index
    IN  /\ At(t) = "removing"
        /\ IF i = NoIndex
           THEN Goes(t, "removing", "free") /\ UNCHANGED g_aligned_memory_map
           ELSE /\ caller' = [caller EXCEPT ![t].at = "free",
                                            ![t].ptr = Start(g_aligned_memory_map[i].raw)]
                /\ g_aligned_memory_map' = [g_aligned_memory_map EXCEPT ![i] = Empty]
        /\ map_sem' = Nowhere
        /\ UNCHANGED <<live, held, dangling, misfreed>>

(* The native free: of the start of the block that was meant, or of what   *)
(* may belong to somebody else or to nobody.                               *)
NativeFree(t) ==
    /\ At(t) = "free" /\ Ends(t)
    /\ LET p == caller[t].ptr
       IN  /\ live' = IF p[2] = 0 THEN live \ {p[1]} ELSE live
           /\ misfreed' = (misfreed \/ p # Start(caller[t].raw) \/ p[1] \notin live)
    /\ UNCHANGED <<g_aligned_memory_map, map_sem, held, dangling>>

(* What follows a wrong free is undefined.  With the map full, or the heap *)
(* exhausted, the application has a pointer that is none of its blocks and *)
(* believes it its own: nothing is claimed of what it does with it.        *)
HeapNext ==
    \E t \in Callers :
        /\ ~ misfreed /\ dangling = {}
        /\ \/ Malloc(t)
           \/ PosixMemalign(t) \/ AddFinds(t) \/ AddToAlignedMap(t) \/ MemalignReturns(t)
           \/ GlueFree(t) \/ RemoveFinds(t) \/ RemoveFromAlignedMap(t) \/ NativeFree(t)

HeapSpec == HeapInit /\ [][HeapNext]_heapVars

----------------------------------------------------------------------------
(* Properties                                                              *)

(* DEBUGASSERT(g_aligned_memory_map[i][0] != mapped): whoever adds an      *)
(* address does not meet it before the first free slot, or at all.         *)
AssertionHolds ==
    \A t \in Callers : At(t) = "adding" => FirstWith(Key(t)) = NoIndex

(* Whatever threads allocate and free at the same time, free frees the     *)
(* block of the pointer it was given, and only while it is allocated.      *)
FreesItsOwn == ~ misfreed

(* The map has one entry for each aligned block that an application has    *)
(* or is about to be given or to give back, and no slot is lost.           *)
MapAccounts ==
    LET used == {i \in 1 .. MapSize : g_aligned_memory_map[i] # Empty}
        entries == {g_aligned_memory_map[i] : i \in used}
        inside == {[key |-> AppAddr(h.app, h.ptr), raw |-> h.ptr[1]] :
                       h \in {g \in held : g.ptr[2] = 1}}
        moving == {[key |-> Key(t), raw |-> caller[t].raw] :
                       t \in {u \in Callers :
                           \/ At(u) = "added"
                           \/ At(u) = "remove" /\ caller[u].ptr[2] = 1
                           \/ At(u) = "removing" /\ caller[u].index # NoIndex}}
    IN  dangling = {} =>
            /\ Cardinality(used) = Cardinality(entries)
            /\ inside \cup moving \subseteq entries
            /\ {e.raw : e \in entries} \subseteq live

(* The map is exact: it accounts for every aligned block, and an address   *)
(* that is added is not there yet, as the code asserts.                    *)
MapIsExact == AssertionHolds /\ MapAccounts
=============================================================================
