----------------------------- MODULE GlueProofs -----------------------------
(***************************************************************************)
(* The glue around the native functions, but for the pointers (see         *)
(* PointerProofs): the glue that keeps its state in globals, CompareProxy, *)
(* PthreadOnce and LibcHeap, and the glue that rewrites arguments in place *)
(* or reads them by a format, ScanfArgs, DbusArgs and FormatArgs, for      *)
(* every number of threads, functions, control variables, applications,    *)
(* blocks, entries of the map, words and arguments and for every format;   *)
(* and the parts together, as MCNativeGlue puts them.                      *)
(*                                                                         *)
(* A sort.  That it is decided by its own function is not inductive: it    *)
(* takes that whoever is between lock and unlock owns the mutex, and what  *)
(* each has stored in the globals by then.                                 *)
(*                                                                         *)
(* A pthread_once.  The two properties follow from what the globals hold   *)
(* while calls that none with another variable has met are on their way to *)
(* the proxy: their own routine, and the environment of one of them.  That *)
(* a held environment stays held takes that a variable's routine runs in   *)
(* one thread at most and that nobody returns before it has.               *)
(*                                                                         *)
(* The heap.  That free gives the allocator the block it came from takes   *)
(* that an entry is somebody's: of an application that holds the pointer,  *)
(* or of a thread that is about to hand it out or to take it out; that no  *)
(* two hold one block; and that what a loop found under map_sem is still   *)
(* so when the thread acts on it.                                          *)
(*                                                                         *)
(* The scanf family.  What scanf stored survives scanf_end takes that all  *)
(* words from the arguments to the first zero are native when scanf_end    *)
(* begins, so that a zero before the variables still stops it.             *)
(*                                                                         *)
(* D-Bus arguments.  What has been turned when a walk is at a word is what *)
(* it has passed: it never takes a type for an address.                    *)
(*                                                                         *)
(* Formats.  A walk stands at a place of a directive, and from there       *)
(* the grammar says what the next character is and which argument a        *)
(* conversion takes; so the walk is at the word behind the arguments       *)
(* before it, as the compiler has laid them out.  The two walks of         *)
(* va_list_string2conv agree in all but the words, so that the second      *)
(* takes back what the first has added, whatever the format.               *)
(***************************************************************************)
EXTENDS MCNativeGlue, PointerProofs

Holding == {"env", "func", "sorting", "comparing", "nested", "unlock"}

HolderOwns == \A t \in Sorters : stage[t] \in Holding => g_compare_mutex = t

GlobalsAreHolders ==
    \A t \in Sorters :
        /\ stage[t] \in {"func", "sorting", "comparing"} => g_compare_env = t
        /\ stage[t] \in {"sorting", "comparing"} => g_compare_func = wanted[t]

CompareInv ==
    CompareTypeOK /\ HolderOwns /\ GlobalsAreHolders /\ ComparesWithItsOwn

(* The initial state: nobody sorts.                                        *)
LEMMA CompareInitInv == CompareInit => CompareInv
<1> SUFFICES ASSUME CompareInit
             PROVE  CompareInv
  OBVIOUS
<1> QED
  BY CompareAssumption DEF CompareInit, CompareInv, CompareTypeOK, HolderOwns,
     GlobalsAreHolders, ComparesWithItsOwn, Holding, Stage

(* Every step keeps the invariant: only the owner of the mutex touches the *)
(* globals.                                                                *)
LEMMA CompareStepInv == CompareInv /\ [CompareNext]_compareVars => CompareInv'
<1> SUFFICES ASSUME CompareInv, [CompareNext]_compareVars
             PROVE  CompareInv'
  OBVIOUS
<1> USE CompareAssumption
<1> USE DEF CompareInv, CompareTypeOK, HolderOwns, GlobalsAreHolders,
            ComparesWithItsOwn, Holding, Stage, compareGlobals, compareRuns
<1>1. ASSUME NEW t \in Sorters, SortCalled(t)
      PROVE  CompareInv'
  BY <1>1 DEF SortCalled, Moves
<1>2. ASSUME NEW t \in Sorters, MutexLock(t)
      PROVE  CompareInv'
  BY <1>2 DEF MutexLock, Moves
<1>3. ASSUME NEW t \in Sorters, SetCompareEnv(t)
      PROVE  CompareInv'
  BY <1>3 DEF SetCompareEnv, Moves
<1>4. ASSUME NEW t \in Sorters, SetCompareFunc(t)
      PROVE  CompareInv'
  BY <1>4 DEF SetCompareFunc, Moves
<1>5. ASSUME NEW t \in Sorters, CompareProxyCalls(t)
      PROVE  CompareInv'
  BY <1>5 DEF CompareProxyCalls, Moves
<1>6. ASSUME NEW t \in Sorters, CompareReturns(t)
      PROVE  CompareInv'
  BY <1>6 DEF CompareReturns, Moves
<1>7. ASSUME NEW t \in Sorters, CompareSorts(t)
      PROVE  CompareInv'
  BY <1>7 DEF CompareSorts, Moves
<1>8. ASSUME NEW t \in Sorters, SortEnds(t)
      PROVE  CompareInv'
  BY <1>8 DEF SortEnds, Moves
<1>9. ASSUME NEW t \in Sorters, MutexUnlock(t)
      PROVE  CompareInv'
  BY <1>9 DEF MutexUnlock, Moves
<1>10. CASE UNCHANGED compareVars
  BY <1>10 DEF compareVars
<1> QED
  BY <1>1, <1>2, <1>3, <1>4, <1>5, <1>6, <1>7, <1>8, <1>9, <1>10
     DEF CompareNext, SortGoesOn

(* Whatever the other threads do, a sort is decided by its own comparison  *)
(* function in its own thread's environment (glue_qsort, glue_bsearch and  *)
(* compare_proxy), and the globals never hold anything else.               *)
THEOREM ComparesWithItsOwnAlways == CompareSpec => [](CompareTypeOK /\ ComparesWithItsOwn)
<1>1. CompareInv => CompareTypeOK /\ ComparesWithItsOwn
  BY DEF CompareInv
<1> QED
  BY CompareInitInv, CompareStepInv, <1>1, PTL DEF CompareSpec
-----------------------------------------------------------------------------
Phase == {"outside", "env", "idx", "enter", "start", "call", "routine"}

OnceTypeOK ==
    /\ pthread_once_env \in Onces \cup {NoThread}
    /\ init_routine_idx \in Control
    /\ once \in [Control -> {"new", "running", "done"}]
    /\ phase \in [Onces -> Phase]
    /\ control \in [Onces -> Control]
    /\ ran_routine \in [Control -> Control]
    /\ ran_env \in [Control -> Onces \cup {NoThread}]
    /\ disturbed \in [Control -> BOOLEAN]

(* Calls on their way with different variables have disturbed each other.  *)
MeetingsCounted ==
    \A t, u \in Onces :
        Unread(t) /\ Unread(u) /\ control[t] # control[u] => disturbed[control[t]]

Runs(t) == phase[t] \in {"start", "call", "routine"}

OneRunner ==
    /\ \A t \in Onces : Runs(t) => once[control[t]] = "running"
    /\ \A t, u \in Onces : Runs(t) /\ Runs(u) /\ control[t] = control[u] => t = u

RoutineSet ==
    \A t \in Onces :
        phase[t] \in {"enter", "start", "call"} /\ ~ disturbed[control[t]] =>
            init_routine_idx = control[t]

HeldFor(env, c) == env \in Onces /\ Inside(env) /\ control[env] = c

EnvironmentSet ==
    \A t \in Onces :
        phase[t] \in {"idx", "enter", "start"} /\ ~ disturbed[control[t]]
            /\ once[control[t]] # "done" =>
                HeldFor(pthread_once_env, control[t])

EnvironmentUsed ==
    \A t \in Onces :
        phase[t] \in {"call", "routine"} /\ ~ disturbed[control[t]] =>
            HeldFor(ran_env[control[t]], control[t])

OnceInv ==
    /\ OnceTypeOK /\ MeetingsCounted /\ OneRunner
    /\ RoutineSet /\ EnvironmentSet /\ EnvironmentUsed
    /\ RunsItsOwnRoutine

(* The initial state: every thread is outside.                             *)
LEMMA OnceInitInv == OnceInit => OnceInv
BY DEF OnceInit, OnceInv, OnceTypeOK, Phase, MeetingsCounted, OneRunner, Runs,
   RoutineSet, EnvironmentSet, EnvironmentUsed, HeldFor, RunsItsOwnRoutine,
   Started, Unread, Inside

(* Every step keeps the types.                                             *)
LEMMA OnceStepTypes == OnceTypeOK /\ [OnceNext]_onceVars => OnceTypeOK'
<1> SUFFICES ASSUME OnceTypeOK, [OnceNext]_onceVars
             PROVE  OnceTypeOK'
  OBVIOUS
<1> USE DEF OnceTypeOK, Phase, onceGlobals, onceHistory
<1>1. ASSUME NEW t \in Onces, OnceCalled(t)
      PROVE  OnceTypeOK'
  <2> USE <1>1 DEF OnceCalled
  <2>1. disturbed' \in [Control -> BOOLEAN]
    <3>1. PICK c \in Control :
               disturbed' = [d \in Control |-> disturbed[d] \/ Meets(t, c, d)]
      OBVIOUS
    <3>2. \A d \in Control : (disturbed[d] \/ Meets(t, c, d)) \in BOOLEAN
      OBVIOUS
    <3> QED
      BY <3>1, <3>2
  <2> QED
    BY <2>1
<1>2. ASSUME NEW t \in Onces,
             SetOnceEnv(t) \/ SetInitRoutine(t) \/ EnterFirst(t) \/ OnceReturns(t)
                 \/ InitRoutineProxy(t) \/ CallIndirect(t) \/ RoutineReturns(t)
      PROVE  OnceTypeOK'
  BY <1>2 DEF SetOnceEnv, SetInitRoutine, EnterFirst, OnceReturns,
     InitRoutineProxy, CallIndirect, RoutineReturns
<1>3. CASE UNCHANGED onceVars
  BY <1>3 DEF onceVars
<1> QED
  BY <1>1, <1>2, <1>3 DEF OnceNext

(* Every step keeps the invariant: only a call that is on its way changes  *)
(* the globals, and meeting one with another variable is counted.          *)
LEMMA OnceStepInv == OnceInv /\ [OnceNext]_onceVars => OnceInv'
<1> SUFFICES ASSUME OnceInv, [OnceNext]_onceVars
             PROVE  OnceInv'
  OBVIOUS
<1> USE OnceAssumption DEF OnceInv, onceGlobals, onceHistory
<1>0. OnceTypeOK'
  BY OnceStepTypes
<1>1. ASSUME NEW t \in Onces, OnceCalled(t)
      PROVE  OnceInv'
  <2> USE <1>1 DEF OnceCalled, OnceTypeOK
  <2>1. MeetingsCounted'
    <3> SUFFICES ASSUME NEW u \in Onces, NEW v \in Onces, Unread(u)', Unread(v)',
                        control'[u] # control'[v]
                 PROVE  disturbed'[control'[u]]
      BY DEF MeetingsCounted
    <3>1. CASE u # t /\ v # t
      <4>1. Unread(u) /\ Unread(v) /\ control'[u] = control[u] /\ control'[v] = control[v]
        BY <3>1 DEF Unread
      <4>2. disturbed[control[u]] /\ control[u] \in Control
        BY <4>1 DEF MeetingsCounted
      <4> QED
        BY <4>1, <4>2
    <3>2. CASE u = t \/ v = t
      <4>1. PICK c \in Control :
                /\ control' = [control EXCEPT ![t] = c]
                /\ disturbed' = [d \in Control |-> disturbed[d] \/ Meets(t, c, d)]
        OBVIOUS
      <4>2. PICK w \in Onces \ {t} : w \in {u, v} /\ Unread(w)' /\ control'[w] # control'[t]
        BY <3>2
      <4>3. Unread(w) /\ control[w] # c /\ control'[u] \in {c, control[w]}
        BY <4>1, <4>2, <3>2 DEF Unread
      <4>4. Meets(t, c, control'[u]) /\ control'[u] \in Control
        BY <4>3 DEF Meets
      <4> QED
        BY <4>1, <4>4
    <3> QED
      BY <3>1, <3>2
  <2>2. OneRunner'
    BY DEF OneRunner, Runs
  <2>3. RoutineSet'
    BY DEF RoutineSet
  <2>4. EnvironmentSet'
    BY DEF EnvironmentSet, HeldFor, Inside
  <2>5. EnvironmentUsed'
    BY DEF EnvironmentUsed, HeldFor, Inside
  <2>6. RunsItsOwnRoutine'
    BY DEF RunsItsOwnRoutine, Started
  <2> QED
    BY <1>0, <2>1, <2>2, <2>3, <2>4, <2>5, <2>6
<1>2. ASSUME NEW t \in Onces, SetOnceEnv(t)
      PROVE  OnceInv'
  BY <1>0, <1>2 DEF SetOnceEnv, OnceTypeOK, MeetingsCounted, OneRunner, Runs,
     RoutineSet, EnvironmentSet, EnvironmentUsed, HeldFor, RunsItsOwnRoutine,
     Started, Unread, Inside
<1>3. ASSUME NEW t \in Onces, SetInitRoutine(t)
      PROVE  OnceInv'
  BY <1>0, <1>3 DEF SetInitRoutine, OnceTypeOK, MeetingsCounted, OneRunner, Runs,
     RoutineSet, EnvironmentSet, EnvironmentUsed, HeldFor, RunsItsOwnRoutine,
     Started, Unread, Inside
<1>4. ASSUME NEW t \in Onces, EnterFirst(t)
      PROVE  OnceInv'
  BY <1>0, <1>4 DEF EnterFirst, OnceTypeOK, MeetingsCounted, OneRunner, Runs,
     RoutineSet, EnvironmentSet, EnvironmentUsed, HeldFor, RunsItsOwnRoutine,
     Started, Unread, Inside
<1>5. ASSUME NEW t \in Onces, OnceReturns(t)
      PROVE  OnceInv'
  BY <1>0, <1>5 DEF OnceReturns, OnceTypeOK, MeetingsCounted, OneRunner, Runs,
     RoutineSet, EnvironmentSet, EnvironmentUsed, HeldFor, RunsItsOwnRoutine,
     Started, Unread, Inside
<1>6. ASSUME NEW t \in Onces, InitRoutineProxy(t)
      PROVE  OnceInv'
  BY <1>0, <1>6 DEF InitRoutineProxy, OnceTypeOK, MeetingsCounted, OneRunner, Runs,
     RoutineSet, EnvironmentSet, EnvironmentUsed, HeldFor, RunsItsOwnRoutine,
     Started, Unread, Inside
<1>7. ASSUME NEW t \in Onces, CallIndirect(t)
      PROVE  OnceInv'
  BY <1>0, <1>7 DEF CallIndirect, OnceTypeOK, MeetingsCounted, OneRunner, Runs,
     RoutineSet, EnvironmentSet, EnvironmentUsed, HeldFor, RunsItsOwnRoutine,
     Started, Unread, Inside
<1>8. ASSUME NEW t \in Onces, RoutineReturns(t)
      PROVE  OnceInv'
  BY <1>0, <1>8 DEF RoutineReturns, OnceTypeOK, MeetingsCounted, OneRunner, Runs,
     RoutineSet, EnvironmentSet, EnvironmentUsed, HeldFor, RunsItsOwnRoutine,
     Started, Unread, Inside
<1>9. CASE UNCHANGED onceVars
  BY <1>0, <1>9 DEF onceVars, MeetingsCounted, OneRunner, Runs,
     RoutineSet, EnvironmentSet, EnvironmentUsed, HeldFor, RunsItsOwnRoutine,
     Started, Unread, Inside
<1> QED
  BY <1>1, <1>2, <1>3, <1>4, <1>5, <1>6, <1>7, <1>8, <1>9 DEF OnceNext

(* The environment a routine runs in is held, from the invariant.          *)
LEMMA OnceInvHeld == OnceInv => EnvironmentIsHeld
<1> SUFFICES ASSUME OnceInv, NEW c \in Control, once[c] = "running", Started(c),
                    ~ disturbed[c]
             PROVE  ran_env[c] # NoThread /\ Inside(ran_env[c]) /\ control[ran_env[c]] = c
  BY DEF EnvironmentIsHeld
<1>1. PICK t \in Onces : phase[t] = "routine" /\ control[t] = c
  BY DEF Started
<1> QED
  BY <1>1, OnceAssumption DEF OnceInv, EnvironmentUsed, HeldFor

(* A routine that runs is the one its control variable stands for, and it  *)
(* runs in the environment of a thread that pthread_once holds, unless     *)
(* calls with another variable have met it (glue_pthread_once and          *)
(* init_routine_proxy).                                                    *)
THEOREM OnceRunsItsOwn == OnceSpec => []RunsAsCalled
<1>1. OnceInv => RunsAsCalled
  BY OnceInvHeld DEF OnceInv, RunsAsCalled
<1> QED
  BY OnceInitInv, OnceStepInv, <1>1, PTL DEF OnceSpec
-----------------------------------------------------------------------------
Apps == {AppOf[t] : t \in Callers}

Entry == [key : Apps \X Ptr, raw : Heap]

CallerAt == {"idle", "add", "adding", "added", "full", "remove", "removing", "free"}

HeapTypeOK ==
    /\ live \subseteq Heap
    /\ g_aligned_memory_map \in [1 .. MapSize -> Entry \cup {Empty}]
    /\ map_sem \in Callers \cup {Nowhere}
    /\ caller \in [Callers -> [at : CallerAt, ptr : Ptr \cup {Start(AnyBlock)},
                               index : 0 .. MapSize, raw : Heap \cup {AnyBlock}]]
    /\ held \subseteq [app : Apps, ptr : Ptr]
    /\ dangling \subseteq Ptr
    /\ misfreed \in BOOLEAN

SemHeld == \A t \in Callers : At(t) \in {"adding", "removing"} => map_sem = t

\* A thread inside posix_memalign or free has a block to itself: the one of
\* its pointer, that is allocated.
Busy(t) == At(t) # "idle"

BlocksLive ==
    /\ \A t \in Callers : Busy(t) =>
           /\ caller[t].raw \in live /\ caller[t].ptr \in Ptr
           /\ caller[t].ptr[1] = caller[t].raw
           /\ At(t) = "free" => caller[t].ptr[2] = 0
    /\ \A h \in held : h.ptr \in dangling \/ h.ptr[1] \in live

BlocksApart ==
    dangling = {} =>
        /\ \A t, u \in Callers : Busy(t) /\ Busy(u) /\ caller[t].raw = caller[u].raw => t = u
        /\ \A t \in Callers, h \in held : Busy(t) => h.ptr[1] # caller[t].raw
        /\ \A g, h \in held : g.ptr[1] = h.ptr[1] => g = h

Used(i) == g_aligned_memory_map[i] # Empty
Keyed(i, key) == Used(i) /\ g_aligned_memory_map[i].key = key
Mapped(key) == \E i \in 1 .. MapSize : Keyed(i, key)

\* Whose pointer an entry is for.
Owned(key) ==
    \/ \E h \in held : AppAddr(h.app, h.ptr) = key
    \/ \E t \in Callers : At(t) \in {"added", "remove", "removing"} /\ Key(t) = key

EntriesOwned ==
    \A i \in 1 .. MapSize : Used(i) =>
        /\ g_aligned_memory_map[i].raw = g_aligned_memory_map[i].key[2][1]
        /\ Owned(g_aligned_memory_map[i].key)

KeysDiffer ==
    \A i, j \in 1 .. MapSize :
        Used(i) /\ Used(j) /\ g_aligned_memory_map[i].key = g_aligned_memory_map[j].key => i = j

InsideMapped ==
    /\ \A h \in held : h.ptr[2] = 1 => h.ptr \in dangling \/ Mapped(AppAddr(h.app, h.ptr))
    /\ \A t \in Callers :
           At(t) = "added" \/ (At(t) = "remove" /\ caller[t].ptr[2] = 1) => Mapped(Key(t))

\* What the loops under the semaphore have found is still so.
Found ==
    \A t \in Callers :
        /\ At(t) = "adding" =>
               /\ ~ Mapped(Key(t))
               /\ caller[t].index # NoIndex => ~ Used(caller[t].index)
        /\ At(t) = "removing" =>
               IF caller[t].index = NoIndex
               THEN caller[t].ptr[2] = 0 /\ ~ Mapped(Key(t))
               ELSE Keyed(caller[t].index, Key(t))

HeapInv ==
    /\ HeapTypeOK /\ SemHeld /\ BlocksLive /\ BlocksApart
    /\ EntriesOwned /\ KeysDiffer /\ InsideMapped /\ Found
    /\ FreesItsOwn

(* What the loops over the map find: a slot, if there is one.              *)
LEMMA LeastFinds ==
  ASSUME NEW S \in SUBSET (1 .. MapSize)
  PROVE  /\ Least(S) \in 0 .. MapSize
         /\ IF Least(S) = NoIndex THEN S = {} ELSE Least(S) \in S
<1>1. CASE S = {}
  BY <1>1, HeapAssumption DEF Least, NoIndex
<1>2. CASE S # {}
  <2>1. S \in SUBSET Nat
    BY HeapAssumption
  <2>2. \E i \in S : \A j \in S : i <= j
    BY <1>2, <2>1, LeastExists
  <2>3. Least(S) \in S
    BY <1>2, <2>2 DEF Least
  <2>4. Least(S) \in 1 .. MapSize
    BY <2>3
  <2>. QED
    BY <1>2, <2>3, <2>4, HeapAssumption DEF NoIndex
<1>. QED
  BY <1>1, <1>2

(* What add_to_aligned_map finds is an index of the map whose entry is     *)
(* free, or none.                                                          *)
LEMMA FindsFree ==
  ASSUME HeapTypeOK
  PROVE  FirstFree \in 0 .. MapSize /\ (FirstFree # NoIndex => ~ Used(FirstFree))
BY LeastFinds DEF FirstFree, Used

(* What remove_from_aligned_map finds is an entry with the address it      *)
(* looks for; when it finds none, there is none.                           *)
LEMMA FindsKey ==
  ASSUME HeapTypeOK, NEW key
  PROVE  /\ FirstWith(key) \in 0 .. MapSize
         /\ IF FirstWith(key) = NoIndex THEN ~ Mapped(key) ELSE Keyed(FirstWith(key), key)
BY LeastFinds DEF FirstWith, Mapped, Keyed, Used

(* The pointer that posix_memalign is about to note is not in the map: its *)
(* block is its own, and an entry is that of somebody who has the block.   *)
LEMMA AddedIsNew ==
  ASSUME HeapInv, dangling = {},
         NEW t \in Callers, At(t) \in {"add", "adding", "full", "free"}
  PROVE  ~ Mapped(Key(t))
<1> SUFFICES ASSUME Mapped(Key(t))
             PROVE  FALSE
  OBVIOUS
<1>1. Owned(Key(t))
  BY DEF HeapInv, EntriesOwned, Mapped, Keyed
<1>2. Busy(t) /\ caller[t].ptr[1] = caller[t].raw
  BY DEF HeapInv, BlocksLive, Busy
<1>3. ASSUME NEW h \in held, AppAddr(h.app, h.ptr) = Key(t)
      PROVE  FALSE
  BY <1>2, <1>3 DEF HeapInv, BlocksApart, AppAddr, Key
<1>4. ASSUME NEW u \in Callers, At(u) \in {"added", "remove", "removing"}, Key(u) = Key(t)
      PROVE  FALSE
  <2>1. caller[u].ptr = caller[t].ptr /\ Busy(u) /\ caller[u].ptr[1] = caller[u].raw
    BY <1>4 DEF Key, AppAddr, HeapInv, BlocksLive, Busy
  <2>. QED
    BY <1>2, <1>4, <2>1 DEF HeapInv, BlocksApart
<1>. QED
  BY <1>1, <1>3, <1>4 DEF Owned

(* Nothing is allocated, and the map is empty.                             *)
LEMMA HeapInitInv == HeapInit => HeapInv
<1> SUFFICES ASSUME HeapInit
             PROVE  HeapInv
  OBVIOUS
<1> USE HeapAssumption DEF HeapInit
<1>1. HeapTypeOK
  <2>1. Idle \in [at : CallerAt, ptr : Ptr \cup {Start(AnyBlock)}, index : 0 .. MapSize,
                  raw : Heap \cup {AnyBlock}]
    BY DEF Idle, CallerAt, NoIndex
  <2>. QED
    BY <2>1 DEF HeapTypeOK
<1>2. \A t \in Callers : At(t) = "idle"
  BY DEF At, Idle
<1>. QED
  BY <1>1, <1>2 DEF HeapInv, SemHeld, BlocksLive, BlocksApart, Busy, EntriesOwned, KeysDiffer,
     Used, InsideMapped, Found, FreesItsOwn

(* malloc and posix_memalign take a block that nobody has.                 *)
LEMMA FreshBlock ==
  ASSUME HeapInv, dangling = {}, NEW b \in Heap \ live
  PROVE  /\ \A h \in held : h.ptr[1] # b
         /\ \A t \in Callers : Busy(t) => caller[t].raw # b
BY DEF HeapInv, BlocksLive

(* malloc hands out a block that nobody has, and does not touch the map.   *)
LEMMA MallocInv ==
  ASSUME HeapInv, NEW t \in Callers, dangling = {}, Malloc(t)
  PROVE  HeapInv'
<1>1. PICK b \in Heap \ live :
          /\ live' = live \cup {b}
          /\ held' = held \cup {[app |-> Application(t), ptr |-> Start(b)]}
  BY DEF Malloc
<1> DEFINE new == [app |-> Application(t), ptr |-> Start(b)]
<1>2. /\ held' = held \cup {new} /\ new \in [app : Apps, ptr : Ptr]
      /\ new.ptr[1] = b /\ new.ptr[2] = 0
  BY <1>1 DEF Start, Application, Apps, Ptr
<1> HIDE DEF new
<1>3. UNCHANGED <<g_aligned_memory_map, map_sem, caller, dangling, misfreed>>
  BY DEF Malloc
<1> USE <1>1, <1>2, <1>3, FreshBlock DEF HeapInv, At, Busy
<1>4. HeapTypeOK'
  BY DEF HeapTypeOK
<1>5. SemHeld' /\ KeysDiffer' /\ Found' /\ FreesItsOwn'
  BY DEF SemHeld, KeysDiffer, Used, Found, Keyed, Mapped, Key, FreesItsOwn
<1>6. BlocksLive'
  BY DEF BlocksLive
<1>7. BlocksApart'
  BY DEF BlocksApart
<1>8. EntriesOwned'
  BY DEF EntriesOwned, Owned, Used, Key
<1>9. InsideMapped'
  BY DEF InsideMapped, Mapped, Keyed, Used, Key
<1>. QED
  BY <1>4, <1>5, <1>6, <1>7, <1>8, <1>9

(* posix_memalign has a block that nobody has, which is not in the map     *)
(* yet.                                                                    *)
LEMMA MemalignAllocatesInv ==
  ASSUME HeapInv, NEW t \in Callers, dangling = {}, At(t) = "idle",
         NEW b \in Heap \ live, NEW place \in {0, 1},
         live' = live \cup {b},
         caller' = [caller EXCEPT ![t] =
                [at |-> "add", ptr |-> <<b, place>>, index |-> NoIndex, raw |-> b]],
         UNCHANGED <<g_aligned_memory_map, map_sem, held, dangling, misfreed>>
  PROVE  HeapInv'
<1>1. /\ live' = live \cup {b}
      /\ caller' = [caller EXCEPT ![t] =
             [at |-> "add", ptr |-> <<b, place>>, index |-> NoIndex, raw |-> b]]
  OBVIOUS
<1>2. /\ At(t) = "idle"
      /\ UNCHANGED <<g_aligned_memory_map, map_sem, held, dangling, misfreed>>
  OBVIOUS
<1>3. HeapTypeOK'
  <2>1. [at |-> "add", ptr |-> <<b, place>>, index |-> NoIndex, raw |-> b] \in
            [at : CallerAt, ptr : Ptr \cup {Start(AnyBlock)}, index : 0 .. MapSize,
             raw : Heap \cup {AnyBlock}]
    BY HeapAssumption DEF CallerAt, Ptr, NoIndex
  <2>. QED
    BY <1>1, <1>2, <2>1 DEF HeapInv, HeapTypeOK
<1>4. /\ caller'[t].at = "add" /\ caller'[t].raw = b
      /\ caller'[t].ptr \in Ptr /\ caller'[t].ptr[1] = b
      /\ \A u \in Callers : u # t => caller'[u] = caller[u]
  BY <1>1 DEF HeapInv, HeapTypeOK, Ptr
<1>5. live' = live \cup {b}
  BY <1>1
<1> USE <1>2, <1>4, <1>5, FreshBlock DEF HeapInv, At, Busy
<1>6. SemHeld' /\ KeysDiffer' /\ Found' /\ FreesItsOwn'
  BY DEF SemHeld, KeysDiffer, Used, Found, Keyed, Mapped, Key, FreesItsOwn
<1>7. BlocksLive'
  BY DEF BlocksLive
<1>8. BlocksApart'
  BY DEF BlocksApart
<1>9. EntriesOwned'
  BY DEF EntriesOwned, Owned, Used, Key
<1>10. InsideMapped'
  BY DEF InsideMapped, Mapped, Keyed, Used, Key
<1>. QED
  BY <1>3, <1>6, <1>7, <1>8, <1>9, <1>10

(* When it has no block the application has a pointer more that dangles.   *)
LEMMA MemalignFailsInv ==
  ASSUME HeapInv, NEW t \in Callers, NEW p \in Ptr,
         held' = held \cup {[app |-> Application(t), ptr |-> p]},
         dangling' = dangling \cup {p},
         UNCHANGED <<live, caller, g_aligned_memory_map, map_sem, misfreed>>
  PROVE  HeapInv'
<1> DEFINE new == [app |-> Application(t), ptr |-> p]
<1>1. new \in [app : Apps, ptr : Ptr] /\ new.ptr = p /\ dangling' # {}
  BY DEF Apps, Application
<1>2. held' = held \cup {new} /\ dangling' = dangling \cup {p}
      /\ UNCHANGED <<live, caller, g_aligned_memory_map, map_sem, misfreed>>
  OBVIOUS
<1> HIDE DEF new
<1>3. HeapTypeOK'
  BY <1>1, <1>2 DEF HeapInv, HeapTypeOK
<1> USE <1>1, <1>2 DEF HeapInv, At, Busy
<1>4. SemHeld' /\ KeysDiffer' /\ FreesItsOwn' /\ BlocksApart'
  BY DEF SemHeld, KeysDiffer, Used, FreesItsOwn, BlocksApart
<1>5. Found'
  BY DEF Found, Keyed, Mapped, Used, Key, Application
<1>6. BlocksLive'
  BY DEF BlocksLive
<1>7. EntriesOwned'
  BY DEF EntriesOwned, Owned, Used, Key, Application
<1>8. InsideMapped'
  BY DEF InsideMapped, Mapped, Keyed, Used, Key, Application
<1>. QED
  BY <1>3, <1>4, <1>5, <1>6, <1>7, <1>8

(* posix_memalign either has a block or has none.                          *)
LEMMA PosixMemalignInv ==
  ASSUME HeapInv, NEW t \in Callers, dangling = {}, PosixMemalign(t)
  PROVE  HeapInv'
<1>1. /\ At(t) = "idle"
      /\ UNCHANGED <<g_aligned_memory_map, map_sem, misfreed>>
  BY DEF PosixMemalign
<1>2. CASE \E b \in Heap \ live, place \in {0, 1} :
              /\ live' = live \cup {b}
              /\ caller' = [caller EXCEPT ![t] =
                     [at |-> "add", ptr |-> <<b, place>>, index |-> NoIndex, raw |-> b]]
              /\ UNCHANGED <<held, dangling>>
  BY <1>1, <1>2, MemalignAllocatesInv, Zenon
<1>3. CASE \E p \in Ptr :
              /\ held' = held \cup {[app |-> Application(t), ptr |-> p]}
              /\ dangling' = dangling \cup {p}
              /\ UNCHANGED <<live, caller>>
  BY <1>1, <1>3, MemalignFailsInv, Zenon
<1>. QED  BY <1>2, <1>3 DEF PosixMemalign

(* add_to_aligned_map takes map_sem and looks for a free entry: it stays   *)
(* free while the semaphore is held.                                       *)
LEMMA AddFindsInv ==
  ASSUME HeapInv, NEW t \in Callers, dangling = {}, AddFinds(t)
  PROVE  HeapInv'
<1>1. /\ At(t) = "add" /\ map_sem = Nowhere /\ map_sem' = t
      /\ caller' = [caller EXCEPT ![t].at = "adding", ![t].index = FirstFree]
      /\ UNCHANGED <<live, g_aligned_memory_map, held, dangling, misfreed>>
  BY DEF AddFinds, SemWait
<1>2. FirstFree \in 0 .. MapSize /\ (FirstFree # NoIndex => ~ Used(FirstFree))
  BY FindsFree DEF HeapInv
<1>3. HeapTypeOK'
  BY <1>1, <1>2, ZenonT(60) DEF HeapInv, HeapTypeOK, CallerAt
<1>4. /\ caller'[t].at = "adding" /\ caller'[t].index = FirstFree
      /\ caller'[t].ptr = caller[t].ptr /\ caller'[t].raw = caller[t].raw
      /\ \A u \in Callers : u # t => caller'[u] = caller[u]
  BY <1>1 DEF HeapInv, HeapTypeOK
<1>5. /\ At(t) = "add" /\ map_sem = Nowhere /\ map_sem' = t
      /\ UNCHANGED <<live, g_aligned_memory_map, held, dangling, misfreed>>
  BY <1>1
<1> USE <1>2, <1>4, <1>5, HeapAssumption DEF HeapInv, At, Busy
<1>6. SemHeld' /\ KeysDiffer' /\ FreesItsOwn'
  BY DEF SemHeld, KeysDiffer, Used, FreesItsOwn
<1>7. Found'
  <2>1. \A key : Mapped(key)' <=> Mapped(key)
    BY DEF Mapped, Keyed, Used
  <2>2. \A u \in Callers : Key(u)' = Key(u)
    BY DEF Key, Application
  <2>3. ~ Mapped(Key(t))
    BY AddedIsNew
  <2>4. \A u \in Callers : u # t => At(u) \notin {"adding", "removing"}
    BY DEF SemHeld, HeapTypeOK
  <2>5. ~ Mapped(Key(t))'
    BY <2>1, <2>2, <2>3
  <2>6. \A i : Used(i)' <=> Used(i)
    BY DEF Used
  <2>7. \A u \in Callers : u # t => caller'[u].at \notin {"adding", "removing"}
    BY <2>4
  <2>. QED
    BY <2>5, <2>6, <2>7 DEF Found
<1>8. BlocksLive' /\ BlocksApart'
  BY DEF BlocksLive, BlocksApart
<1>9. EntriesOwned'
  BY DEF EntriesOwned, Owned, Used, Key
<1>10. InsideMapped'
  BY DEF InsideMapped, Mapped, Keyed, Used, Key
<1>. QED
  BY <1>3, <1>6, <1>7, <1>8, <1>9, <1>10

(* remove_from_aligned_map takes map_sem and looks for its address: an     *)
(* address inside a block is there, the start of a block is not.           *)
LEMMA RemoveFindsInv ==
  ASSUME HeapInv, NEW t \in Callers, dangling = {}, RemoveFinds(t)
  PROVE  HeapInv'
<1> DEFINE i == FirstWith(Key(t))
<1>1. /\ At(t) = "remove" /\ map_sem = Nowhere /\ map_sem' = t
      /\ caller' = [caller EXCEPT ![t].at = "removing", ![t].index = i]
      /\ UNCHANGED <<live, g_aligned_memory_map, held, dangling, misfreed>>
  BY DEF RemoveFinds, SemWait
<1>2. i \in 0 .. MapSize /\ IF i = NoIndex THEN ~ Mapped(Key(t)) ELSE Keyed(i, Key(t))
  BY FindsKey DEF HeapInv
<1> HIDE DEF i
<1>3. HeapTypeOK'
  BY <1>1, <1>2, ZenonT(60) DEF HeapInv, HeapTypeOK, CallerAt
<1>4. /\ caller'[t].at = "removing" /\ caller'[t].index = i
      /\ caller'[t].ptr = caller[t].ptr /\ caller'[t].raw = caller[t].raw
      /\ \A u \in Callers : u # t => caller'[u] = caller[u]
  BY <1>1 DEF HeapInv, HeapTypeOK
<1>5. /\ At(t) = "remove" /\ map_sem = Nowhere /\ map_sem' = t
      /\ UNCHANGED <<live, g_aligned_memory_map, held, dangling, misfreed>>
  BY <1>1
<1>6. i = NoIndex => caller[t].ptr[2] = 0
  <2>1. caller[t].ptr[2] \in {0, 1}
    BY <1>5 DEF HeapInv, BlocksLive, Busy, Ptr
  <2>. QED
    BY <1>2, <1>5, <2>1 DEF HeapInv, InsideMapped
<1> USE <1>2, <1>4, <1>5, <1>6, HeapAssumption DEF HeapInv, At, Busy
<1>7. SemHeld' /\ KeysDiffer' /\ FreesItsOwn'
  BY DEF SemHeld, KeysDiffer, Used, FreesItsOwn
<1>8. Found'
  BY DEF SemHeld, Found, Keyed, Mapped, Used, Key, Application
<1>9. BlocksLive' /\ BlocksApart'
  BY DEF BlocksLive, BlocksApart
<1>10. EntriesOwned'
  BY DEF EntriesOwned, Owned, Used, Key
<1>11. InsideMapped'
  BY DEF InsideMapped, Mapped, Keyed, Used, Key
<1>. QED
  BY <1>3, <1>7, <1>8, <1>9, <1>10, <1>11

(* The entry found is filled with the address of the thread's own block,   *)
(* or the map is full.                                                     *)
LEMMA AddToAlignedMapInv ==
  ASSUME HeapInv, NEW t \in Callers, dangling = {}, AddToAlignedMap(t)
  PROVE  HeapInv'
<1> DEFINE i == caller[t].index
           entry == [key |-> Key(t), raw |-> caller[t].raw]
<1>1. /\ At(t) = "adding" /\ map_sem' = Nowhere
      /\ UNCHANGED <<live, held, dangling, misfreed>>
  BY DEF AddToAlignedMap, Goes
<1>2. i \in 0 .. MapSize /\ caller[t].ptr \in Ptr /\ caller[t].raw \in Heap
  BY <1>1 DEF HeapInv, HeapTypeOK, BlocksLive, Busy
<1>3. entry \in Entry /\ entry # Empty
  BY <1>2 DEF Entry, Empty, Key, AppAddr, Application, Apps
<1>4. CASE i = NoIndex
  <2>1. /\ caller' = [caller EXCEPT ![t].at = "full"]
        /\ UNCHANGED g_aligned_memory_map
    BY <1>4 DEF AddToAlignedMap, Goes
  <2>2. HeapTypeOK'
    BY <1>1, <2>1, ZenonT(60) DEF HeapInv, HeapTypeOK, CallerAt
  <2>3. /\ caller'[t].at = "full" /\ caller'[t].index = i
        /\ caller'[t].ptr = caller[t].ptr /\ caller'[t].raw = caller[t].raw
        /\ \A u \in Callers : u # t => caller'[u] = caller[u]
    BY <2>1 DEF HeapInv, HeapTypeOK
  <2>4. UNCHANGED g_aligned_memory_map
    BY <2>1
  <2> USE <1>1, <2>3, <2>4, HeapAssumption DEF HeapInv, At, Busy
  <2>5. SemHeld' /\ KeysDiffer' /\ FreesItsOwn'
    BY DEF SemHeld, KeysDiffer, Used, FreesItsOwn
  <2>6. Found'
    BY DEF Found, Keyed, Mapped, Used, Key, Application
  <2>7. BlocksLive' /\ BlocksApart'
    BY DEF BlocksLive, BlocksApart
  <2>8. EntriesOwned'
    BY DEF EntriesOwned, Owned, Used, Key
  <2>9. InsideMapped'
    BY DEF InsideMapped, Mapped, Keyed, Used, Key
  <2>. QED
    BY <2>2, <2>5, <2>6, <2>7, <2>8, <2>9
<1>5. CASE i # NoIndex
  <2>1. /\ caller' = [caller EXCEPT ![t].at = "added"]
        /\ g_aligned_memory_map' = [g_aligned_memory_map EXCEPT ![i] = entry]
    BY <1>5 DEF AddToAlignedMap, Goes
  <2>2. i \in 1 .. MapSize
    BY <1>2, <1>5, HeapAssumption DEF NoIndex
  <2>3. HeapTypeOK'
    BY <1>1, <1>3, <2>1, <2>2, ZenonT(60) DEF HeapInv, HeapTypeOK, CallerAt
  <2>4. /\ caller'[t].at = "added"
        /\ caller'[t].ptr = caller[t].ptr /\ caller'[t].raw = caller[t].raw
        /\ \A u \in Callers : u # t => caller'[u] = caller[u]
    BY <2>1 DEF HeapInv, HeapTypeOK
  <2>5. /\ g_aligned_memory_map'[i] = entry
        /\ \A j \in 1 .. MapSize : j # i => g_aligned_memory_map'[j] = g_aligned_memory_map[j]
    BY <2>1, <2>2 DEF HeapInv, HeapTypeOK
  <2>6. /\ entry.key = Key(t) /\ entry.raw = caller[t].raw
        /\ Key(t)[2][1] = caller[t].raw
    BY <1>1 DEF Key, AppAddr, HeapInv, BlocksLive, Busy
  <2> HIDE DEF entry
  <2>7. ~ Used(i) /\ ~ Mapped(Key(t))
    BY <1>1, <1>5, AddedIsNew DEF HeapInv, Found
  <2>8. \A u \in Callers : u # t => At(u) \notin {"adding", "removing"}
    BY <1>1 DEF HeapInv, SemHeld
  <2> HIDE DEF i
  <2> USE <1>1, <1>3, <2>2, <2>4, <2>5, <2>6, <2>7, <2>8, HeapAssumption DEF HeapInv, At, Busy
  <2>9. SemHeld' /\ FreesItsOwn'
    BY DEF SemHeld, FreesItsOwn
  <2>10. KeysDiffer'
    BY DEF KeysDiffer, Used, Mapped, Keyed
  <2>11. Found'
    BY DEF Found
  <2>12. BlocksLive' /\ BlocksApart'
    BY DEF BlocksLive, BlocksApart
  <2>13. EntriesOwned'
    BY DEF EntriesOwned, Owned, Used, Key, Application
  <2>14. InsideMapped'
    <3>1. \A j \in 1 .. MapSize : \A key : Keyed(j, key) => Keyed(j, key)'
      BY DEF Keyed, Used
    <3>. QED
      BY <3>1 DEF InsideMapped, Mapped, Keyed, Used, Key, Application
  <2>. QED
    BY <2>3, <2>9, <2>10, <2>11, <2>12, <2>13, <2>14
<1>. QED
  BY <1>4, <1>5

(* A thread that is done with its block, with its locals as at the start.  *)
LEMMA IdleTyped ==
  ASSUME HeapTypeOK, NEW t \in Callers, Ends(t)
  PROVE  /\ caller' \in [Callers -> [at : CallerAt, ptr : Ptr \cup {Start(AnyBlock)},
                                    index : 0 .. MapSize, raw : Heap \cup {AnyBlock}]]
         /\ caller'[t].at = "idle"
         /\ \A u \in Callers : u # t => caller'[u] = caller[u]
<1>1. Idle \in [at : CallerAt, ptr : Ptr \cup {Start(AnyBlock)}, index : 0 .. MapSize,
                raw : Heap \cup {AnyBlock}] /\ Idle.at = "idle"
  BY HeapAssumption DEF Idle, CallerAt, NoIndex
<1>. QED
  BY <1>1 DEF HeapTypeOK, Ends

(* posix_memalign hands the address out: its entry changes hands from the  *)
(* thread to the application. With the map full the address dangles.       *)
LEMMA MemalignReturnsInv ==
  ASSUME HeapInv, NEW t \in Callers, dangling = {}, MemalignReturns(t)
  PROVE  HeapInv'
<1> DEFINE new == [app |-> Application(t), ptr |-> caller[t].ptr]
           p == caller[t].ptr
<1>1. /\ At(t) \in {"added", "full"} /\ Ends(t) /\ held' = held \cup {new}
      /\ IF At(t) = "full"
         THEN live' = live \ {caller[t].raw} /\ dangling' = dangling \cup {p}
         ELSE UNCHANGED <<live, dangling>>
      /\ UNCHANGED <<g_aligned_memory_map, map_sem, misfreed>>
  BY DEF MemalignReturns
<1>2. p \in Ptr /\ p[1] = caller[t].raw /\ p[2] \in {0, 1}
  BY <1>1 DEF HeapInv, BlocksLive, Busy, Ptr
<1>3. /\ new \in [app : Apps, ptr : Ptr] /\ new.app = Application(t) /\ new.ptr = p
  BY <1>2 DEF Application, Apps
<1>4. AppAddr(new.app, new.ptr) = Key(t)
  BY <1>3 DEF Key
<1> HIDE DEF new, p
<1>5. HeapTypeOK'
  BY <1>1, <1>2, <1>3, IdleTyped DEF HeapInv, HeapTypeOK
<1>6. /\ caller'[t].at = "idle" /\ \A u \in Callers : u # t => caller'[u] = caller[u]
  BY <1>1, IdleTyped DEF HeapInv
<1> USE <1>1, <1>2, <1>3, <1>4, <1>6, HeapAssumption DEF HeapInv, At, Busy
<1>7. SemHeld' /\ KeysDiffer' /\ FreesItsOwn'
  BY DEF SemHeld, KeysDiffer, Used, FreesItsOwn
<1>8. Found'
  BY DEF Found, Keyed, Mapped, Used, Key, Application
<1>9. BlocksLive'
  <2>1. \A u \in Callers : Busy(u)' => u # t /\ Busy(u) /\ caller'[u] = caller[u]
    OBVIOUS
  <2>2. \A u \in Callers : u # t /\ Busy(u) => caller[u].raw # caller[t].raw
    BY DEF BlocksApart
  <2>3. \A h \in held : h.ptr[1] \in live /\ h.ptr[1] # caller[t].raw
    BY DEF BlocksApart, BlocksLive
  <2>4. caller[t].raw \in live
    BY DEF BlocksLive
  <2>5. ASSUME NEW u \in Callers, Busy(u)'
        PROVE  /\ caller'[u].raw \in live' /\ caller'[u].ptr \in Ptr
               /\ caller'[u].ptr[1] = caller'[u].raw
               /\ At(u)' = "free" => caller'[u].ptr[2] = 0
    BY <2>1, <2>2, <2>5 DEF BlocksLive
  <2>6. ASSUME NEW h \in held'
        PROVE  h.ptr \in dangling' \/ h.ptr[1] \in live'
    <3>1. CASE h = new
      <4>1. CASE At(t) = "full"
        BY <3>1, <4>1
      <4>2. CASE At(t) # "full"
        BY <2>4, <3>1, <4>2
      <4>. QED
        BY <4>1, <4>2
    <3>2. CASE h \in held
      BY <2>3, <3>2
    <3>. QED
      BY <3>1, <3>2
  <2>. QED
    BY <2>5, <2>6 DEF BlocksLive
<1>10. BlocksApart'
  BY DEF BlocksApart
<1>11. EntriesOwned'
  BY DEF EntriesOwned, Owned, Used, Key
<1>12. InsideMapped'
  <2>1. At(t) = "added" => Mapped(Key(t))
    BY DEF InsideMapped
  <2>2. UNCHANGED g_aligned_memory_map
    OBVIOUS
  <2>3. \A key : Mapped(key) => Mapped(key)'
    BY <2>2 DEF Mapped, Keyed, Used
  <2>4. ASSUME NEW h \in held', h.ptr[2] = 1
        PROVE  h.ptr \in dangling' \/ Mapped(AppAddr(h.app, h.ptr))'
    <3>1. CASE h = new
      BY <2>1, <2>3, <3>1
    <3>2. CASE h \in held
      BY <2>3, <2>4, <3>2 DEF InsideMapped
    <3>. QED
      BY <3>1, <3>2
  <2>5. ASSUME NEW u \in Callers, At(u)' = "added" \/ (At(u)' = "remove" /\ caller'[u].ptr[2] = 1)
        PROVE  Mapped(Key(u))'
    <3>1. u # t /\ caller'[u] = caller[u]
      BY <2>5
    <3>2. Mapped(Key(u))
      BY <2>5, <3>1 DEF InsideMapped
    <3>3. Key(u)' = Key(u)
      BY <3>1 DEF Key, Application
    <3>. QED
      BY <2>3, <3>2, <3>3
  <2>. QED
    BY <2>4, <2>5 DEF InsideMapped
<1>. QED
  BY <1>5, <1>7, <1>8, <1>9, <1>10, <1>11, <1>12

(* free takes the address from the application: its entry changes hands    *)
(* back.                                                                   *)
LEMMA GlueFreeInv ==
  ASSUME HeapInv, NEW t \in Callers, dangling = {}, GlueFree(t)
  PROVE  HeapInv'
<1>1. PICK h \in held :
          /\ h.app = Application(t)
          /\ held' = held \ {h}
          /\ caller' = [caller EXCEPT ![t] =
                 [at |-> "remove", ptr |-> h.ptr, index |-> NoIndex, raw |-> h.ptr[1]]]
  BY DEF GlueFree
<1>2. /\ At(t) = "idle"
      /\ UNCHANGED <<live, g_aligned_memory_map, map_sem, dangling, misfreed>>
  BY DEF GlueFree
<1>3. /\ h.ptr \in Ptr /\ h.ptr[1] \in live /\ h.ptr[1] \in Heap
  BY DEF HeapInv, HeapTypeOK, BlocksLive, Ptr
<1>4. HeapTypeOK'
  <2>1. [at |-> "remove", ptr |-> h.ptr, index |-> NoIndex, raw |-> h.ptr[1]] \in
            [at : CallerAt, ptr : Ptr \cup {Start(AnyBlock)}, index : 0 .. MapSize,
             raw : Heap \cup {AnyBlock}]
    BY <1>3, HeapAssumption DEF CallerAt, NoIndex
  <2>. QED
    BY <1>1, <1>2, <2>1 DEF HeapInv, HeapTypeOK
<1>5. /\ caller'[t].at = "remove" /\ caller'[t].raw = h.ptr[1] /\ caller'[t].ptr = h.ptr
      /\ \A u \in Callers : u # t => caller'[u] = caller[u]
  BY <1>1 DEF HeapInv, HeapTypeOK
<1>6. Key(t)' = AppAddr(h.app, h.ptr) /\ held' = held \ {h}
  BY <1>1, <1>5 DEF Key, Application
<1>7. \A key : Mapped(key) => Mapped(key)'
  BY <1>2 DEF Mapped, Keyed, Used
<1> USE <1>2, <1>3, <1>5, <1>6, <1>7, HeapAssumption DEF HeapInv, At, Busy
<1>8. SemHeld' /\ KeysDiffer' /\ FreesItsOwn'
  BY DEF SemHeld, KeysDiffer, Used, FreesItsOwn
<1>9. Found'
  BY DEF Found, Keyed, Mapped, Used, Key, Application
<1>10. BlocksLive' /\ BlocksApart'
  BY DEF BlocksLive, BlocksApart
<1>11. EntriesOwned'
  <2> SUFFICES ASSUME NEW i \in 1 .. MapSize, Used(i)
               PROVE  Owned(g_aligned_memory_map[i].key)'
    BY DEF EntriesOwned, Used
  <2>1. Owned(g_aligned_memory_map[i].key)
    BY DEF EntriesOwned
  <2>2. CASE \E g \in held : AppAddr(g.app, g.ptr) = g_aligned_memory_map[i].key
    BY <2>2 DEF Owned
  <2>3. CASE \E u \in Callers : At(u) \in {"added", "remove", "removing"}
                                 /\ Key(u) = g_aligned_memory_map[i].key
    BY <2>3 DEF Owned, Key, Application
  <2>. QED
    BY <2>1, <2>2, <2>3 DEF Owned
<1>12. InsideMapped'
  <2>1. ASSUME NEW g \in held', g.ptr[2] = 1
        PROVE  Mapped(AppAddr(g.app, g.ptr))'
    BY <2>1 DEF InsideMapped
  <2>2. ASSUME NEW u \in Callers, At(u)' = "added" \/ (At(u)' = "remove" /\ caller'[u].ptr[2] = 1)
        PROVE  Mapped(Key(u))'
    <3>1. CASE u = t
      BY <2>2, <3>1 DEF InsideMapped
    <3>2. CASE u # t
      <4>1. Key(u)' = Key(u) /\ caller'[u] = caller[u]
        BY <3>2 DEF Key, Application
      <4>. QED
        BY <2>2, <4>1 DEF InsideMapped
    <3>. QED
      BY <3>1, <3>2
  <2>. QED
    BY <2>1, <2>2 DEF InsideMapped
<1>. QED
  BY <1>4, <1>8, <1>9, <1>10, <1>11, <1>12

(* The entry found is emptied and free has the start of the block; an      *)
(* address without an entry is a start itself.                             *)
LEMMA RemoveFromAlignedMapInv ==
  ASSUME HeapInv, NEW t \in Callers, dangling = {}, RemoveFromAlignedMap(t)
  PROVE  HeapInv'
<1> DEFINE i == caller[t].index
<1>1. /\ At(t) = "removing" /\ map_sem' = Nowhere
      /\ UNCHANGED <<live, held, dangling, misfreed>>
  BY DEF RemoveFromAlignedMap
<1>2. /\ i \in 0 .. MapSize /\ caller[t].ptr \in Ptr /\ caller[t].raw \in Heap
      /\ caller[t].ptr[1] = caller[t].raw
  BY <1>1 DEF HeapInv, HeapTypeOK, BlocksLive, Busy
<1>3. \A u \in Callers : u # t => At(u) \notin {"adding", "removing"}
  BY <1>1 DEF HeapInv, SemHeld
<1>4. CASE i = NoIndex
  <2>1. caller' = [caller EXCEPT ![t].at = "free"] /\ UNCHANGED g_aligned_memory_map
    BY <1>4 DEF RemoveFromAlignedMap, Goes
  <2>2. HeapTypeOK'
    BY <1>1, <2>1, ZenonT(60) DEF HeapInv, HeapTypeOK, CallerAt
  <2>3. /\ caller'[t].at = "free" /\ caller'[t].index = i
        /\ caller'[t].ptr = caller[t].ptr /\ caller'[t].raw = caller[t].raw
        /\ \A u \in Callers : u # t => caller'[u] = caller[u]
    BY <2>1 DEF HeapInv, HeapTypeOK
  <2>4. caller[t].ptr[2] = 0 /\ ~ Mapped(Key(t))
    BY <1>1, <1>4 DEF HeapInv, Found
  <2>5. UNCHANGED g_aligned_memory_map
    BY <2>1
  <2> USE <1>1, <1>2, <2>3, <2>4, <2>5, HeapAssumption DEF HeapInv, At, Busy
  <2>6. SemHeld' /\ KeysDiffer' /\ FreesItsOwn'
    BY <1>3 DEF SemHeld, KeysDiffer, Used, FreesItsOwn
  <2>7. Found'
    BY <1>3 DEF Found
  <2>8. BlocksLive' /\ BlocksApart'
    BY DEF BlocksLive, BlocksApart
  <2>9. EntriesOwned'
    <3> SUFFICES ASSUME NEW j \in 1 .. MapSize, Used(j)
                 PROVE  Owned(g_aligned_memory_map[j].key)'
      BY DEF EntriesOwned, Used
    <3>1. Owned(g_aligned_memory_map[j].key) /\ g_aligned_memory_map[j].key # Key(t)
      BY DEF EntriesOwned, Mapped, Keyed
    <3>. QED
      BY <3>1 DEF Owned, Key, Application
  <2>10. InsideMapped'
    BY DEF InsideMapped, Mapped, Keyed, Used, Key
  <2>. QED
    BY <2>2, <2>6, <2>7, <2>8, <2>9, <2>10
<1>5. CASE i # NoIndex
  <2> DEFINE p == Start(g_aligned_memory_map[i].raw)
  <2>1. /\ caller' = [caller EXCEPT ![t].at = "free", ![t].ptr = p]
        /\ g_aligned_memory_map' = [g_aligned_memory_map EXCEPT ![i] = Empty]
    BY <1>5 DEF RemoveFromAlignedMap
  <2>2. i \in 1 .. MapSize /\ Keyed(i, Key(t))
    BY <1>1, <1>2, <1>5, HeapAssumption DEF HeapInv, Found, NoIndex
  <2>3. g_aligned_memory_map[i].raw = caller[t].raw
    <3>1. Key(t)[2][1] = caller[t].ptr[1]
      BY DEF Key, AppAddr
    <3>. QED
      BY <1>2, <2>2, <3>1 DEF HeapInv, EntriesOwned, Keyed
  <2>4. p \in Ptr /\ p[1] = caller[t].raw /\ p[2] = 0
    BY <1>2, <2>3 DEF Start, Ptr
  <2> HIDE DEF p
  <2>5. HeapTypeOK'
    <3>1. g_aligned_memory_map' \in [1 .. MapSize -> Entry \cup {Empty}]
      BY <2>1, <2>2 DEF HeapInv, HeapTypeOK
    <3>2. [caller[t] EXCEPT !.at = "free", !.ptr = p] \in
              [at : CallerAt, ptr : Ptr \cup {Start(AnyBlock)}, index : 0 .. MapSize,
               raw : Heap \cup {AnyBlock}]
      BY <2>4, ZenonT(60) DEF HeapInv, HeapTypeOK, CallerAt
    <3>3. caller' = [caller EXCEPT ![t] = [caller[t] EXCEPT !.at = "free", !.ptr = p]]
      BY <2>1 DEF HeapInv, HeapTypeOK
    <3>4. caller' \in [Callers -> [at : CallerAt, ptr : Ptr \cup {Start(AnyBlock)},
                                  index : 0 .. MapSize, raw : Heap \cup {AnyBlock}]]
      BY <3>2, <3>3 DEF HeapInv, HeapTypeOK
    <3>. QED
      BY <1>1, <3>1, <3>4 DEF HeapInv, HeapTypeOK
  <2>6. /\ caller'[t].at = "free" /\ caller'[t].ptr = p /\ caller'[t].raw = caller[t].raw
        /\ \A u \in Callers : u # t => caller'[u] = caller[u]
    BY <2>1 DEF HeapInv, HeapTypeOK
  <2>7. /\ g_aligned_memory_map'[i] = Empty
        /\ \A j \in 1 .. MapSize : j # i => g_aligned_memory_map'[j] = g_aligned_memory_map[j]
    BY <2>1, <2>2 DEF HeapInv, HeapTypeOK
  <2> HIDE DEF i
  <2> USE <1>1, <1>2, <1>3, <2>2, <2>4, <2>6, <2>7, HeapAssumption DEF HeapInv, At, Busy
  <2>8. SemHeld' /\ FreesItsOwn' /\ KeysDiffer'
    BY DEF SemHeld, FreesItsOwn, KeysDiffer, Used
  <2>9. Found'
    BY DEF Found
  <2>10. BlocksLive' /\ BlocksApart'
    BY DEF BlocksLive, BlocksApart
  <2>11. EntriesOwned'
    <3> SUFFICES ASSUME NEW j \in 1 .. MapSize, Used(j)'
                 PROVE  /\ g_aligned_memory_map'[j].raw = g_aligned_memory_map'[j].key[2][1]
                        /\ Owned(g_aligned_memory_map[j].key)'
      BY DEF EntriesOwned
    <3>1. j # i /\ Used(j) /\ g_aligned_memory_map'[j] = g_aligned_memory_map[j]
      BY DEF Used
    <3>2. /\ Owned(g_aligned_memory_map[j].key) /\ g_aligned_memory_map[j].key # Key(t)
          /\ g_aligned_memory_map[j].raw = g_aligned_memory_map[j].key[2][1]
      BY <3>1 DEF EntriesOwned, KeysDiffer, Keyed
    <3>. QED
      BY <3>1, <3>2 DEF Owned, Key, Application
  <2>12. \A key : Mapped(key) /\ key # Key(t) => Mapped(key)'
    BY DEF Mapped, Keyed, Used
  <2>13. InsideMapped'
    <3>1. ASSUME NEW h \in held', h.ptr[2] = 1
          PROVE  Mapped(AppAddr(h.app, h.ptr))'
      <4>1. Mapped(AppAddr(h.app, h.ptr)) /\ h.ptr[1] # caller[t].raw
        BY <3>1 DEF InsideMapped, BlocksApart
      <4>2. AppAddr(h.app, h.ptr) # Key(t)
        BY <4>1 DEF Key, AppAddr
      <4>. QED
        BY <2>12, <4>1, <4>2
    <3>2. ASSUME NEW u \in Callers, At(u)' = "added" \/ (At(u)' = "remove" /\ caller'[u].ptr[2] = 1)
          PROVE  Mapped(Key(u))'
      <4>1. u # t /\ caller'[u] = caller[u] /\ Mapped(Key(u)) /\ Key(u)' = Key(u)
        BY <3>2 DEF InsideMapped, Key, Application
      <4>2. caller[u].ptr[1] = caller[u].raw /\ caller[u].raw # caller[t].raw
        BY <3>2, <4>1 DEF BlocksApart, BlocksLive
      <4>3. Key(u) # Key(t)
        BY <4>2 DEF Key, AppAddr
      <4>. QED
        BY <2>12, <4>1, <4>3
    <3>. QED
      BY <3>1, <3>2 DEF InsideMapped
  <2>. QED
    BY <2>5, <2>8, <2>9, <2>10, <2>11, <2>13
<1>. QED
  BY <1>4, <1>5

(* The native free is given the start of the thread's own block, which is  *)
(* allocated.                                                              *)
LEMMA NativeFreeInv ==
  ASSUME HeapInv, NEW t \in Callers, dangling = {}, NativeFree(t)
  PROVE  HeapInv'
<1>1. /\ At(t) = "free" /\ Ends(t)
      /\ UNCHANGED <<g_aligned_memory_map, map_sem, held, dangling>>
      /\ LET p == caller[t].ptr
         IN  /\ live' = IF p[2] = 0 THEN live \ {p[1]} ELSE live
             /\ misfreed' = (misfreed \/ p # Start(caller[t].raw) \/ p[1] \notin live)
  BY DEF NativeFree
<1>2. /\ caller[t].ptr \in Ptr /\ caller[t].ptr[1] = caller[t].raw /\ caller[t].ptr[2] = 0
      /\ caller[t].raw \in live
  BY <1>1 DEF HeapInv, BlocksLive, Busy
<1>3. caller[t].ptr = Start(caller[t].raw)
  BY <1>2 DEF Start, Ptr
<1>4. live' = live \ {caller[t].raw} /\ misfreed' = FALSE
  BY <1>1, <1>2, <1>3 DEF HeapInv, FreesItsOwn
<1>5. /\ At(t) = "free" /\ Ends(t)
      /\ UNCHANGED <<g_aligned_memory_map, map_sem, held, dangling>>
  BY <1>1
<1>6. HeapTypeOK'
  BY <1>4, <1>5, IdleTyped DEF HeapInv, HeapTypeOK
<1>7. /\ caller'[t].at = "idle" /\ \A u \in Callers : u # t => caller'[u] = caller[u]
  BY <1>5, IdleTyped DEF HeapInv
<1> USE <1>4, <1>5, <1>7, HeapAssumption DEF HeapInv, At, Busy
<1>8. SemHeld' /\ KeysDiffer' /\ FreesItsOwn'
  BY DEF SemHeld, KeysDiffer, Used, FreesItsOwn
<1>9. Found'
  BY DEF Found, Keyed, Mapped, Used, Key, Application
<1>10. BlocksApart'
  BY DEF BlocksApart
<1>11. BlocksLive'
  BY DEF BlocksLive, BlocksApart
<1>12. EntriesOwned'
  BY DEF EntriesOwned, Owned, Used, Key, Application
<1>13. InsideMapped'
  BY DEF InsideMapped, Mapped, Keyed, Used, Key, Application
<1>. QED
  BY <1>6, <1>8, <1>9, <1>10, <1>11, <1>12, <1>13

(* Every step keeps the invariant.                                         *)
LEMMA HeapStepInv == HeapInv /\ [HeapNext]_heapVars => HeapInv'
<1> SUFFICES ASSUME HeapInv, [HeapNext]_heapVars
             PROVE  HeapInv'
  OBVIOUS
<1>1. CASE HeapNext
  BY <1>1, MallocInv, PosixMemalignInv, AddFindsInv, AddToAlignedMapInv, MemalignReturnsInv,
     GlueFreeInv, RemoveFindsInv, RemoveFromAlignedMapInv, NativeFreeInv DEF HeapNext
<1>2. CASE UNCHANGED heapVars
  BY <1>2 DEF heapVars, HeapInv, HeapTypeOK, SemHeld, BlocksLive, BlocksApart, EntriesOwned,
     Owned, KeysDiffer, InsideMapped, Found, Mapped, Keyed, Used, Key, At, Application, Busy,
     FreesItsOwn
<1>. QED
  BY <1>1, <1>2

(* The invariant says what the map is for.                                 *)
LEMMA HeapInvExact == HeapInv => MapIsExact
<1> SUFFICES ASSUME HeapInv
             PROVE  AssertionHolds /\ MapAccounts
  BY DEF MapIsExact
<1>1. AssertionHolds
  <2> SUFFICES ASSUME NEW t \in Callers, At(t) = "adding"
               PROVE  FirstWith(Key(t)) = NoIndex
    BY DEF AssertionHolds
  <2>1. ~ Mapped(Key(t))
    BY DEF HeapInv, Found
  <2>2. FirstWith(Key(t)) # NoIndex => Keyed(FirstWith(Key(t)), Key(t))
                                          /\ FirstWith(Key(t)) \in 0 .. MapSize
    BY FindsKey DEF HeapInv
  <2>. QED
    BY <2>1, <2>2, HeapAssumption DEF Mapped, NoIndex
<1>2. MapAccounts
  <2> SUFFICES ASSUME dangling = {}
               PROVE  MapAccounts
    BY DEF MapAccounts
  <2> DEFINE used == {i \in 1 .. MapSize : g_aligned_memory_map[i] # Empty}
             entries == {g_aligned_memory_map[i] : i \in used}
             inside == {[key |-> AppAddr(h.app, h.ptr), raw |-> h.ptr[1]] :
                            h \in {g \in held : g.ptr[2] = 1}}
             moving == {[key |-> Key(t), raw |-> caller[t].raw] :
                            t \in {u \in Callers :
                                \/ At(u) = "added"
                                \/ At(u) = "remove" /\ caller[u].ptr[2] = 1
                                \/ At(u) = "removing" /\ caller[u].index # NoIndex}}
  <2>1. Cardinality(used) = Cardinality(entries)
    <3>1. IsFiniteSet(used)
      <4>1. IsFiniteSet(1 .. MapSize)
        BY FS_Interval, HeapAssumption
      <4>. QED
        BY <4>1, FS_Subset
    <3>2. \A i, j \in used : g_aligned_memory_map[i] = g_aligned_memory_map[j] => i = j
      BY DEF HeapInv, KeysDiffer, Used
    <3>. QED
      BY <3>1, <3>2, DistinctValues
  <2>2. \A key, b : Mapped(key) /\ key[2][1] = b => [key |-> key, raw |-> b] \in entries
    <3> SUFFICES ASSUME NEW i \in 1 .. MapSize, Used(i)
                 PROVE  g_aligned_memory_map[i] =
                            [key |-> g_aligned_memory_map[i].key,
                             raw |-> g_aligned_memory_map[i].key[2][1]]
      BY DEF Mapped, Keyed, Used
    <3>1. g_aligned_memory_map[i] \in Entry
      BY DEF HeapInv, HeapTypeOK, Used
    <3>2. g_aligned_memory_map[i].raw = g_aligned_memory_map[i].key[2][1]
      BY DEF HeapInv, EntriesOwned
    <3>. QED
      BY <3>1, <3>2 DEF Entry
  <2>3. inside \subseteq entries
    <3> SUFFICES ASSUME NEW h \in held, h.ptr[2] = 1
                 PROVE  [key |-> AppAddr(h.app, h.ptr), raw |-> h.ptr[1]] \in entries
      OBVIOUS
    <3>1. Mapped(AppAddr(h.app, h.ptr)) /\ AppAddr(h.app, h.ptr)[2][1] = h.ptr[1]
      BY DEF HeapInv, InsideMapped, AppAddr
    <3>. QED
      BY <2>2, <3>1
  <2>4. moving \subseteq entries
    <3> SUFFICES ASSUME NEW t \in Callers,
                        \/ At(t) = "added"
                        \/ At(t) = "remove" /\ caller[t].ptr[2] = 1
                        \/ At(t) = "removing" /\ caller[t].index # NoIndex
                 PROVE  [key |-> Key(t), raw |-> caller[t].raw] \in entries
      OBVIOUS
    <3>1. Key(t)[2][1] = caller[t].raw
      BY DEF HeapInv, BlocksLive, Busy, Key, AppAddr
    <3>2. caller[t].index \in 0 .. MapSize
      BY DEF HeapInv, HeapTypeOK
    <3>3. Mapped(Key(t))
      BY <3>2, HeapAssumption DEF HeapInv, InsideMapped, Found, Mapped, NoIndex
    <3>. QED
      BY <2>2, <3>1, <3>3
  <2>5. {e.raw : e \in entries} \subseteq live
    <3> SUFFICES ASSUME NEW i \in 1 .. MapSize, Used(i)
                 PROVE  g_aligned_memory_map[i].raw \in live
      BY DEF Used
    <3> DEFINE key == g_aligned_memory_map[i].key
    <3>1. g_aligned_memory_map[i].raw = key[2][1] /\ Owned(key)
      BY DEF HeapInv, EntriesOwned
    <3>2. CASE \E h \in held : AppAddr(h.app, h.ptr) = key
      BY <3>1, <3>2 DEF HeapInv, BlocksLive, AppAddr
    <3>3. CASE \E t \in Callers : At(t) \in {"added", "remove", "removing"} /\ Key(t) = key
      BY <3>1, <3>3 DEF HeapInv, BlocksLive, Busy, Key, AppAddr
    <3>. QED
      BY <3>1, <3>2, <3>3 DEF Owned
  <2>. QED
    BY <2>1, <2>3, <2>4, <2>5 DEF MapAccounts
<1>. QED
  BY <1>1, <1>2

(* Whatever threads allocate and free at the same time, glue_free gives    *)
(* the native free the start of the block that its pointer came from, and  *)
(* only while that block is allocated (posix_memalign, add_to_aligned_map, *)
(* remove_from_aligned_map).                                               *)
THEOREM FreesItsOwnAlways == HeapSpec => []FreesItsOwn
<1>1. HeapInv => FreesItsOwn
  BY DEF HeapInv
<1>. QED
  BY HeapInitInv, HeapStepInv, <1>1, PTL DEF HeapSpec

(* g_aligned_memory_map accounts for every aligned block, until the map    *)
(* has been full or the heap exhausted once; no slot is lost, and the      *)
(* DEBUGASSERT of add_to_aligned_map holds, for maps of any size.          *)
THEOREM MapStaysExact == HeapSpec => []MapIsExact
  BY HeapInitInv, HeapStepInv, HeapInvExact, PTL DEF HeapSpec
-----------------------------------------------------------------------------
(* No word up to i is zero.                                                *)
Unbroken(i) == \A j \in 1 .. i : ~ IsZero(scan_words[j])

(* Words before every variable that scanf may store into.                  *)
Before(i) == i \in 1 .. ScanWords /\ \A t \in targets : i < t

ScanTypeOK ==
    /\ scan_args \in 1 .. ScanWords
    /\ targets \in SUBSET Behind
    /\ scan_words \in [1 .. ScanWords -> ScanWord]
    /\ scan_step \in {"called", "native", "stored", "returned"}

(* Nothing is native when the application calls; then its arguments are.   *)
ArgumentsTurned ==
    /\ scan_step = "called" => \A i \in 1 .. ScanWords : scan_words[i].native_by = 0
    /\ \A i \in 1 .. scan_args :
        /\ scan_step \in {"called", "native", "stored"} => scan_words[i].number = "other"
        /\ scan_step \in {"native", "stored"} => scan_words[i].native_by = 1

(* Up to the first zero that is no variable scanf stores into, scanf_begin *)
(* has left native words only: scanf_end, if it comes by, finds them, and  *)
(* makes none of them zero.                                                *)
NativeUpToZero ==
    scan_step \in {"native", "stored"} =>
        \A i \in 1 .. ScanWords :
            Before(i) /\ Unbroken(i) =>
                scan_words[i].native_by = 1 /\ scan_words[i].number # "zero"

(* What scanf has stored is still there when scanf_end begins.             *)
StoredStands ==
    scan_step = "stored" =>
        /\ DOMAIN scanned \subseteq targets
        /\ \A i \in DOMAIN scanned : scan_words[i] = Word(scanned[i])

ScanInv ==
    /\ ScanTypeOK
    /\ ArgumentsTurned
    /\ NativeUpToZero
    /\ StoredStands
    /\ StoredSurvives

(* A call of scanf finds what the application has passed.                  *)
LEMMA ScanInitInv == ScanInit => ScanInv
<1> SUFFICES ASSUME ScanInit PROVE ScanInv
  OBVIOUS
<1> USE ScanAssumption DEF ScanInit, Behind
<1>0. \A n \in Number : Word(n) \in ScanWord /\ Word(n).native_by = 0 /\ Word(n).number = n
  BY DEF Word, ScanWord
<1>1. ScanTypeOK
  <2>1. PICK rest \in [Behind -> Number] :
          scan_words = [i \in 1 .. ScanWords |->
                           Word(IF i <= scan_args THEN "other" ELSE rest[i])]
    OBVIOUS
  <2>2. \A i \in 1 .. ScanWords : (IF i <= scan_args THEN "other" ELSE rest[i]) \in Number
    <3>1. "other" \in Number
      BY DEF Number
    <3>2. \A i \in 1 .. ScanWords : i <= scan_args \/ i \in Behind
      OBVIOUS
    <3>. QED
      BY <2>1, <3>1, <3>2
  <2>3. scan_words \in [1 .. ScanWords -> ScanWord]
    BY <1>0, <2>1, <2>2
  <2>. QED
    BY <2>3 DEF ScanTypeOK
<1>2. ArgumentsTurned
  BY <1>1 DEF ArgumentsTurned, ScanTypeOK, Word
<1>3. NativeUpToZero /\ StoredStands /\ StoredSurvives
  BY DEF NativeUpToZero, StoredStands, StoredSurvives
<1>. QED
  BY <1>1, <1>2, <1>3 DEF ScanInv

(* A conversion changes what a word has been added, not its number.        *)
LEMMA WordFacts ==
  ASSUME NEW w \in ScanWord
  PROVE  /\ WordToNative(w) \in ScanWord /\ WordToApp(w) \in ScanWord
         /\ WordToNative(w).number = w.number /\ WordToApp(w).number = w.number
         /\ WordToNative(w).native_by = w.native_by + 1
         /\ WordToApp(w).native_by = w.native_by - 1
         /\ w = [number |-> w.number, native_by |-> w.native_by]
         /\ w.native_by = 0 => (IsZero(w) <=> w.number = "zero")
<1>1. PICK n \in Number, k \in Int : w = [number |-> n, native_by |-> k]
  BY DEF ScanWord
<1>2. /\ WordToNative(w) = [number |-> n, native_by |-> k + 1]
      /\ WordToApp(w) = [number |-> n, native_by |-> k - 1]
  BY <1>1 DEF WordToNative, WordToApp
<1>3. k = 0 => (IsZero(w) <=> n = "zero")
  BY <1>1 DEF IsZero
<1>. QED
  BY <1>1, <1>2, <1>3 DEF ScanWord

(* The loop of scanf_begin and scanf_end (534-536, 547-549): a word with a *)
(* zero at it or before it is left alone, every other is converted once.   *)
LEMMA RewrittenWords ==
  ASSUME ScanTypeOK, NEW side \in {"native", "app"}
  PROVE  /\ Rewritten(side) \in [1 .. ScanWords -> ScanWord]
         /\ \A i \in 1 .. ScanWords :
              Rewritten(side)[i] = IF ~ Unbroken(i) THEN scan_words[i]
                                   ELSE IF side = "native" THEN WordToNative(scan_words[i])
                                   ELSE WordToApp(scan_words[i])
<1>1. \A i \in 1 .. ScanWords :
        Rewritten(side)[i] = IF ~ Unbroken(i) THEN scan_words[i]
                             ELSE IF side = "native" THEN WordToNative(scan_words[i])
                             ELSE WordToApp(scan_words[i])
  BY DEF Rewritten, Walked, Unbroken
<1>2. \A i \in 1 .. ScanWords : Rewritten(side)[i] \in ScanWord
  BY <1>1, WordFacts DEF ScanTypeOK
<1>3. Rewritten(side) = [i \in 1 .. ScanWords |-> Rewritten(side)[i]]
  BY DEF Rewritten
<1>. QED
  BY <1>1, <1>2, <1>3

(* scanf_begin (527-538) makes native every word before the first zero;    *)
(* the arguments are among them, since none of them is NULL. A word it has *)
(* made zero ends the walk back.                                           *)
LEMMA ScanfBeginInv ==
  ASSUME ScanInv, ScanfBegin
  PROVE  ScanInv'
<1> USE ScanAssumption DEF ScanInv, ScanfBegin
<1>1. /\ scan_words' \in [1 .. ScanWords -> ScanWord]
      /\ \A i \in 1 .. ScanWords :
           scan_words'[i] = IF ~ Unbroken(i) THEN scan_words[i] ELSE WordToNative(scan_words[i])
  BY RewrittenWords
<1>2. ScanTypeOK'
  BY <1>1 DEF ScanTypeOK, Behind
<1>3. \A i \in 1 .. ScanWords :
        /\ scan_words[i] \in ScanWord /\ scan_words[i].native_by = 0
        /\ IsZero(scan_words[i]) <=> scan_words[i].number = "zero"
  BY WordFacts DEF ArgumentsTurned, ScanTypeOK
<1>4. \A i \in 1 .. scan_args : i \in 1 .. ScanWords /\ Unbroken(i)
  BY <1>3 DEF Unbroken, ArgumentsTurned, ScanTypeOK
<1>5. ArgumentsTurned'
  BY <1>1, <1>3, <1>4, WordFacts DEF ArgumentsTurned
<1>6. NativeUpToZero'
  <2> SUFFICES ASSUME NEW i \in 1 .. ScanWords, Unbroken(i)'
               PROVE  scan_words'[i].native_by = 1 /\ scan_words'[i].number # "zero"
    BY DEF NativeUpToZero
  <2>1. \A j \in 1 .. i : j \in 1 .. ScanWords
    OBVIOUS
  <2>2. ASSUME NEW j \in 1 .. i PROVE ~ IsZero(scan_words[j])
    <3>1. CASE Unbroken(j)
      <4>1. j \in 1 .. j
        BY <2>1
      <4>. QED
        BY <3>1, <4>1 DEF Unbroken
    <3>2. CASE ~ Unbroken(j)
      <4>1. scan_words'[j] = scan_words[j]
        BY <1>1, <2>1, <3>2
      <4>2. ~ IsZero(scan_words'[j])
        BY DEF Unbroken, IsZero
      <4>. QED
        BY <4>1, <4>2
    <3>. QED
      BY <3>1, <3>2
  <2>3. Unbroken(i) /\ ~ IsZero(scan_words[i])
    BY <2>2 DEF Unbroken
  <2>. QED
    BY <1>1, <1>3, <2>3, WordFacts
<1>7. StoredStands' /\ StoredSurvives'
  BY DEF StoredStands, StoredSurvives
<1>. QED
  BY <1>2, <1>5, <1>6, <1>7

(* vscanf stores into variables, which are no arguments, and leaves what   *)
(* lies before the first of them.                                          *)
LEMMA ScanfStoresInv ==
  ASSUME ScanInv, ScanfStores
  PROVE  ScanInv'
<1> USE ScanAssumption DEF ScanInv
<1>0. PICK T \in SUBSET targets : \E v \in [T -> Number] :
        /\ scanned' = v
        /\ scan_words' = [i \in 1 .. ScanWords |->
               IF i \in T THEN Word(v[i]) ELSE scan_words[i]]
  BY DEF ScanfStores
<1>1. PICK v \in [T -> Number] :
        /\ scanned' = v
        /\ scan_words' = [i \in 1 .. ScanWords |->
               IF i \in T THEN Word(v[i]) ELSE scan_words[i]]
  BY <1>0
<1>2. /\ scan_step = "native" /\ scan_step' = "stored"
      /\ scan_args' = scan_args /\ targets' = targets
  BY DEF ScanfStores
<1>3. /\ DOMAIN scanned' = T
      /\ \A i \in T : i \in 1 .. ScanWords /\ scan_args < i
  BY <1>1 DEF ScanTypeOK, Behind
<1>4. \A i \in 1 .. ScanWords :
        scan_words'[i] = IF i \in T THEN Word(v[i]) ELSE scan_words[i]
  BY <1>1
<1>5. ScanTypeOK'
  <2>1. \A i \in T : Word(v[i]) \in ScanWord
    BY DEF ScanWord, Word
  <2>. QED
    BY <1>1, <1>2, <2>1 DEF ScanTypeOK, Behind
<1>6. ArgumentsTurned'
  <2>1. \A i \in 1 .. scan_args : i \in 1 .. ScanWords /\ i \notin T
    BY <1>3 DEF ScanTypeOK
  <2>2. \A i \in 1 .. scan_args : scan_words'[i] = scan_words[i]
    BY <1>4, <2>1
  <2>. QED
    BY <1>2, <2>2 DEF ArgumentsTurned
<1>7. NativeUpToZero'
  <2> SUFFICES ASSUME NEW i \in 1 .. ScanWords, Before(i)', Unbroken(i)'
               PROVE  scan_words'[i].native_by = 1 /\ scan_words'[i].number # "zero"
    BY DEF NativeUpToZero
  <2>1. Before(i)
    BY <1>2 DEF Before
  <2>2. \A j \in 1 .. i : j \in 1 .. ScanWords /\ j \notin T
    BY <1>3, <2>1 DEF Before
  <2>3. \A j \in 1 .. i : scan_words'[j] = scan_words[j]
    BY <1>4, <2>2
  <2>4. Unbroken(i)
    BY <2>3 DEF Unbroken
  <2>. QED
    BY <1>2, <2>1, <2>3, <2>4 DEF NativeUpToZero
<1>8. StoredStands' /\ StoredSurvives'
  BY <1>1, <1>2, <1>3, <1>4 DEF StoredStands, StoredSurvives
<1>. QED
  BY <1>5, <1>6, <1>7, <1>8

(* scanf_end (540-551) turns the arguments back.  Where a zero lies before *)
(* the variables it stops there at the latest: had scanf_begin come by,    *)
(* the word would be native now, and no zero after the turn.               *)
LEMMA ScanfEndInv ==
  ASSUME ScanInv, ScanfEnd
  PROVE  ScanInv'
<1> USE ScanAssumption DEF ScanInv, ScanfEnd
<1>1. /\ scan_words' \in [1 .. ScanWords -> ScanWord]
      /\ \A i \in 1 .. ScanWords :
           scan_words'[i] = IF ~ Unbroken(i) THEN scan_words[i] ELSE WordToApp(scan_words[i])
  BY RewrittenWords
<1>2. ScanTypeOK'
  BY <1>1 DEF ScanTypeOK, Behind
<1>3. ArgumentsTurned' /\ NativeUpToZero' /\ StoredStands'
  BY DEF ArgumentsTurned, NativeUpToZero, StoredStands
<1>4. StoredSurvives'
  <2> SUFFICES ASSUME NEW z \in Behind \ targets, IsZero(scan_words'[z]),
                      \A t \in targets : z < t
               PROVE  /\ \A i \in 1 .. scan_args : scan_words'[i].native_by = 0
                      /\ \A i \in DOMAIN scanned : scan_words'[i] = Word(scanned[i])
    BY DEF StoredSurvives, Behind, IsZero
  <2>1. \A i \in 1 .. scan_args : scan_words'[i].native_by = 0
    <3>1. \A i \in 1 .. scan_args : i \in 1 .. ScanWords /\ Unbroken(i)
      <4>1. \A w : w.number = "other" => ~ IsZero(w)
        BY DEF IsZero
      <4>2. \A i \in 1 .. scan_args : ~ IsZero(scan_words[i])
        BY <4>1 DEF ArgumentsTurned
      <4>. QED
        BY <4>2 DEF Unbroken, ScanTypeOK
    <3>2. \A i \in 1 .. scan_args : scan_words[i].native_by = 1 /\ scan_words[i] \in ScanWord
      BY <3>1 DEF ArgumentsTurned, ScanTypeOK
    <3>. QED
      BY <1>1, <3>1, <3>2, WordFacts
  <2>2. z \in 1 .. ScanWords /\ Before(z)
    BY DEF Before, Behind, ScanTypeOK
  <2>3. ~ Unbroken(z)
    <3> SUFFICES ASSUME Unbroken(z) PROVE FALSE
      OBVIOUS
    <3>1. /\ scan_words[z].native_by = 1 /\ scan_words[z].number # "zero"
          /\ scan_words[z] \in ScanWord
      BY <2>2 DEF NativeUpToZero, ScanTypeOK
    <3>2. scan_words'[z].native_by = 0 /\ scan_words'[z].number # "zero"
      BY <1>1, <2>2, <3>1, WordFacts
    <3>. QED
      BY <1>1, <2>2, <3>2, WordFacts
  <2>4. \A i \in DOMAIN scanned : i \in 1 .. ScanWords /\ ~ Unbroken(i)
    <3> SUFFICES ASSUME NEW i \in DOMAIN scanned
                 PROVE  i \in 1 .. ScanWords /\ ~ Unbroken(i)
      OBVIOUS
    <3>1. i \in targets /\ i \in 1 .. ScanWords /\ z < i
      <4>1. i \in targets
        BY DEF StoredStands
      <4>2. i \in 1 .. ScanWords
        BY <4>1 DEF ScanTypeOK, Behind
      <4>. QED
        BY <4>1, <4>2
    <3>2. \A j \in 1 .. z : j \in 1 .. i
      BY <2>2, <3>1
    <3>. QED
      BY <2>3, <3>1, <3>2 DEF Unbroken
  <2>5. \A i \in DOMAIN scanned : scan_words'[i] = Word(scanned[i])
    BY <1>1, <2>4 DEF StoredStands
  <2>. QED
    BY <2>1, <2>5
<1>. QED
  BY <1>2, <1>3, <1>4

(* The three steps of the wrapper in order, and stuttering.                *)
LEMMA ScanStepInv == ScanInv /\ [ScanNext]_scanVars => ScanInv'
<1> SUFFICES ASSUME ScanInv, [ScanNext]_scanVars PROVE ScanInv'
  OBVIOUS
<1>1. CASE ScanNext
  BY <1>1, ScanfBeginInv, ScanfStoresInv, ScanfEndInv DEF ScanNext
<1>2. CASE UNCHANGED scanVars
  BY <1>2 DEF scanVars, ScanInv, ScanTypeOK, Behind, ArgumentsTurned, NativeUpToZero, Before,
              Unbroken, StoredStands, StoredSurvives
<1>. QED
  BY <1>1, <1>2

(* scanf gets native addresses, and after scanf_end the arguments are the  *)
(* application's and what scanf stored is there, where a zero lies between *)
(* the arguments and the variables: for blocks and memory of any size.     *)
THEOREM ScanfStoresItsOwnAlways == ScanSpec => []ScanfStoresItsOwn
<1>1. ScanInv => ScanfStoresItsOwn
  <2> SUFFICES ASSUME ScanInv PROVE ScanfSeesNative
    BY DEF ScanInv, ScanfStoresItsOwn
  <2>. QED
    BY DEF ScanInv, ArgumentsTurned, ScanfSeesNative
<1>. QED
  BY <1>1, ScanInitInv, ScanStepInv, PTL DEF ScanSpec
-----------------------------------------------------------------------------
ArgsTypeOK ==
    /\ types \in Seq(Kind)
    /\ cell_of \in [DOMAIN types -> Cells]
    /\ address \in [DOMAIN types -> Int]
    /\ cells \in [Cells -> Int]
    /\ args_step \in ArgsWalking \cup {"native", "returned", "lost"}
    /\ pos \in 1 .. WordCount + 1

(* The walk has passed the address of argument i.                          *)
WalkPassed(i) == 2 * i - 1 < pos

(* The value of argument i is native.                                      *)
NativeAt(i) ==
    CASE args_step = "to native" -> WalkPassed(i)
      [] args_step = "to app" -> ~ WalkPassed(i)
      [] OTHER -> args_step = "native"

(* The address of a value is native where the walk has passed it.          *)
AddressesTurned ==
    args_step # "lost" =>
        \A i \in DOMAIN types :
            address[i] = IF types[i] \in Taking /\ NativeAt(i) THEN 1 ELSE 0

(* And so is a string in a cell of its own.                                *)
CellsTurned ==
    args_step # "lost" =>
        \A c \in Cells : ~ SharedCell(c) =>
            /\ \A i \in DOMAIN types :
                  types[i] = "string" /\ cell_of[i] = c =>
                      cells[c] \in IF NativeAt(i) THEN {1, Null + 1} ELSE {0, Null}
            /\ (\A i \in DOMAIN types : ~ (types[i] = "string" /\ cell_of[i] = c)) =>
                  cells[c] \in {0, Null}

ArgsInv == ArgsTypeOK /\ AddressesTurned /\ CellsTurned

(* addr_app_to_native and addr_native_to_app: a pointer that was converted *)
(* once is itself again when it is converted back; the NULL too.           *)
LEMMA Conversions ==
  /\ Null \in Int /\ Null + 1 \in Int /\ Null + 1 # Null
  /\ \A side \in ArgsWalking : \A n \in Int : ArgsTo(side, n) \in Int
  /\ \A n \in {0, Null} : ArgsTo("to native", n) \in {1, Null + 1}
  /\ \A n \in {1, Null + 1} : ArgsTo("to app", n) \in {0, Null}
  /\ ArgsTo("to native", 0) = 1 /\ ArgsTo("to app", 1) = 0
<1>1. Null \in Int /\ Null + 1 \in Int /\ Null + 1 # Null /\ Null # 0 /\ Null # 1
  BY DEF Null
<1>2. /\ \A n \in Int : ArgsToNative(n) \in Int /\ ArgsToApp(n) \in Int
      /\ ArgsToNative(0) = 1 /\ ArgsToNative(Null) = Null + 1
      /\ ArgsToApp(1) = 0 /\ ArgsToApp(Null + 1) = Null
  BY <1>1 DEF ArgsToNative, ArgsToApp
<1>. QED
  BY <1>1, <1>2 DEF ArgsTo, ArgsWalking

(* A call finds what the application has passed: nothing is native yet.    *)
LEMMA ArgsInitInv == ArgsInit => ArgsInv
<1> SUFFICES ASSUME ArgsInit PROVE ArgsInv
  OBVIOUS
<1>1. types \in Seq(Kind)
  BY ListsAssumption DEF ArgsInit
<1>2. DOMAIN types = 1 .. Len(types) /\ Len(types) \in Nat
  BY <1>1
<1>3. ArgsTypeOK
  <2>0. args_step \in ArgsWalking
    BY DEF ArgsInit, ArgsWalking
  <2>1. {0, Null} \subseteq Int
    <3>1. Null \in Int
      BY Conversions
    <3>. QED
      BY <3>1
  <2>2. 1 \in 1 .. 2 * Len(types) + 1
    BY <1>2
  <2>3. address \in [DOMAIN types -> Int] /\ cells \in [Cells -> Int]
    BY <2>1 DEF ArgsInit
  <2>. QED
    BY <1>1, <2>0, <2>1, <2>2, <2>3 DEF ArgsInit, ArgsTypeOK, WordCount
<1>4. \A i \in DOMAIN types : ~ NativeAt(i)
  <2>1. \A i \in DOMAIN types : ~ WalkPassed(i)
    <3>1. pos = 1
      BY DEF ArgsInit
    <3>2. \A i \in 1 .. Len(types) : ~ WalkPassed(i)
      BY <1>2, <3>1 DEF WalkPassed
    <3>. QED
      BY <1>2, <3>2
  <2>. QED
    BY <2>1 DEF ArgsInit, NativeAt
<1>5. AddressesTurned /\ CellsTurned
  BY <1>4 DEF ArgsInit, AddressesTurned, CellsTurned
<1>. QED
  BY <1>3, <1>5 DEF ArgsInv

(* What stands before pos: a type that is followed by its address (or by   *)
(* the next type), an address, or the type that ends the list.             *)
LEMMA WordRead ==
  ASSUME ArgsTypeOK
  PROVE  /\ Len(types) \in Nat /\ DOMAIN types = 1 .. Len(types)
         /\ pos \in 1 .. 2 * Len(types) + 1
         /\ spec_type \in Kind =>
               \E i \in DOMAIN types : /\ pos = 2 * i - 1 /\ i = ArgAt(pos)
                                       /\ spec_type = types[i]
         /\ spec_type = "address" => \E i \in DOMAIN types : pos = 2 * i
         /\ spec_type = "invalid" => pos = WordCount + 1
         /\ spec_type \in Kind \cup {"address", "invalid"}
<1>1. Len(types) \in Nat /\ DOMAIN types = 1 .. Len(types)
  BY DEF ArgsTypeOK
<1>2. pos \in Nat /\ 1 <= pos /\ pos <= 2 * Len(types) + 1
  BY <1>1 DEF ArgsTypeOK, WordCount
<1>3. CASE (pos - 1) % 2 = 1
  <2>1. spec_type = "address"
    BY <1>3 DEF spec_type, TypeAt
  <2>2. PICK i \in Int : pos = 2 * i
    BY <1>2, <1>3
  <2>3. i \in DOMAIN types
    BY <1>1, <1>2, <2>2
  <2>. QED
    BY <1>1, <1>2, <2>1, <2>2, <2>3 DEF Kind
<1>4. CASE (pos - 1) % 2 # 1 /\ pos - 1 = WordCount
  <2>1. spec_type = "invalid"
    BY <1>4 DEF spec_type, TypeAt
  <2>2. pos = WordCount + 1
    BY <1>1, <1>2, <1>4 DEF WordCount
  <2>. QED
    BY <1>1, <1>2, <2>1, <2>2 DEF Kind
<1>5. CASE (pos - 1) % 2 # 1 /\ pos - 1 # WordCount
  <2>1. spec_type = types[ArgAt(pos - 1) + 1]
    BY <1>5 DEF spec_type, TypeAt
  <2>2. PICK i \in Int : pos = 2 * i - 1
    <3>1. (pos - 1) % 2 = 0
      BY <1>2, <1>5
    <3>. QED
      BY <1>2, <3>1
  <2>3. i \in DOMAIN types
    BY <1>1, <1>2, <1>5, <2>2 DEF WordCount
  <2>4. ArgAt(pos) = i /\ ArgAt(pos - 1) + 1 = i
    BY <2>2 DEF ArgAt
  <2>5. types[i] \in Kind
    BY <1>1, <2>3 DEF ArgsTypeOK
  <2>. QED
    <3>1. \E j \in DOMAIN types : pos = 2 * j - 1 /\ j = ArgAt(pos) /\ spec_type = types[j]
      BY <2>1, <2>2, <2>3, <2>4
    <3>2. spec_type \in Kind
      BY <2>1, <2>4, <2>5
    <3>3. spec_type \notin {"address", "invalid"}
      BY <3>2 DEF Kind
    <3>. QED
      BY <1>1, <1>2, <3>1, <3>2, <3>3
<1>. QED
  BY <1>3, <1>4, <1>5

(* A round of the loop with a type the glue knows (264-276, 315-322): the  *)
(* walk passes the argument's address and turns it, with the string.       *)
LEMMA TakeAddressInv ==
  ASSUME ArgsInv, ArgsWalk, TakeAddress
  PROVE  ArgsInv'
<1> USE DEF ArgsInv
<1>1. PICK i \in DOMAIN types : /\ pos = 2 * i - 1 /\ i = ArgAt(pos)
                                /\ spec_type = types[i]
  BY WordRead DEF TakeAddress, Taking, Kind
<1>2. /\ Len(types) \in Nat /\ DOMAIN types = 1 .. Len(types)
      /\ i \in Nat /\ 1 <= i /\ i <= Len(types) /\ cell_of[i] \in Cells
      /\ \A j \in DOMAIN types : j \in Nat
  BY WordRead, SMTT(30) DEF ArgsTypeOK
<1>3. /\ types[i] \in Taking
      /\ address' = [address EXCEPT ![i] = ArgsTo(args_step, address[i])]
      /\ cells' = IF types[i] = "string"
                  THEN [cells EXCEPT ![cell_of[i]] = ArgsTo(args_step, cells[cell_of[i]])]
                  ELSE cells
      /\ pos' = pos + 2
      /\ args_step \in ArgsWalking
      /\ types' = types /\ cell_of' = cell_of /\ args_step' = args_step
  BY <1>1 DEF TakeAddress, ArgsWalk
<1>0. pos = 2 * i - 1 /\ pos' = 2 * i + 1
  <2>1. pos' = pos + 2 /\ pos = 2 * i - 1 /\ i \in Nat
    BY <1>1, <1>2, <1>3
  <2>. QED
    BY <2>1
<1>4. \A n \in Int : ArgsTo(args_step, n) \in Int
  BY <1>3, Conversions
<1>5. ArgsTypeOK'
  <2>1. pos' \in 1 .. 2 * Len(types) + 1
    BY <1>0, <1>2
  <2>2. address' \in [DOMAIN types -> Int] /\ cells' \in [Cells -> Int]
    BY <1>2, <1>3, <1>4 DEF ArgsTypeOK
  <2>. QED
    BY <1>3, <2>1, <2>2 DEF ArgsTypeOK, WordCount
<1>6. /\ \A j \in DOMAIN types : j # i => (NativeAt(j)' <=> NativeAt(j))
      /\ NativeAt(i) <=> args_step = "to app"
      /\ NativeAt(i)' <=> args_step = "to native"
  <2>2. \A j \in DOMAIN types : j # i => (WalkPassed(j)' <=> WalkPassed(j))
    BY <1>0, <1>2 DEF WalkPassed
  <2>3. ~ WalkPassed(i) /\ WalkPassed(i)'
    BY <1>0, <1>2 DEF WalkPassed
  <2>. QED
    BY <1>3, <2>2, <2>3 DEF NativeAt, ArgsWalking
<1>7. AddressesTurned'
  <2> SUFFICES ASSUME NEW j \in DOMAIN types
               PROVE  address'[j] = IF types[j] \in Taking /\ NativeAt(j)' THEN 1 ELSE 0
    BY <1>3 DEF AddressesTurned
  <2>1. address[j] = IF types[j] \in Taking /\ NativeAt(j) THEN 1 ELSE 0
    BY <1>3 DEF AddressesTurned, ArgsWalking
  <2>2. CASE j # i
    BY <1>2, <1>3, <1>6, <2>1, <2>2 DEF ArgsTypeOK
  <2>3. CASE j = i
    <3>1. address'[i] = ArgsTo(args_step, address[i])
      BY <1>2, <1>3 DEF ArgsTypeOK
    <3>2. CASE args_step = "to native"
      BY <1>3, <1>6, <2>1, <2>3, <3>1, <3>2, Conversions
    <3>3. CASE args_step = "to app"
      BY <1>3, <1>6, <2>1, <2>3, <3>1, <3>3, Conversions
    <3>. QED
      BY <1>3, <3>2, <3>3 DEF ArgsWalking
  <2>. QED
    BY <2>2, <2>3
<1>8. CellsTurned'
  <2> SUFFICES ASSUME NEW c \in Cells, ~ SharedCell(c)
               PROVE  /\ \A j \in DOMAIN types :
                            types[j] = "string" /\ cell_of[j] = c =>
                              cells'[c] \in IF NativeAt(j)' THEN {1, Null + 1} ELSE {0, Null}
                      /\ (\A j \in DOMAIN types : ~ (types[j] = "string" /\ cell_of[j] = c)) =>
                            cells'[c] \in {0, Null}
    BY <1>3 DEF CellsTurned, SharedCell
  <2>1. /\ \A j \in DOMAIN types :
              types[j] = "string" /\ cell_of[j] = c =>
                cells[c] \in IF NativeAt(j) THEN {1, Null + 1} ELSE {0, Null}
        /\ (\A j \in DOMAIN types : ~ (types[j] = "string" /\ cell_of[j] = c)) =>
              cells[c] \in {0, Null}
    BY <1>3 DEF CellsTurned, ArgsWalking
  <2>2. CASE types[i] = "string" /\ cell_of[i] = c
    <3>1. \A j \in DOMAIN types : types[j] = "string" /\ cell_of[j] = c => j = i
      BY <2>2 DEF SharedCell
    <3>2. cells'[c] = ArgsTo(args_step, cells[c])
      BY <1>3, <2>2 DEF ArgsTypeOK
    <3>3. cells[c] \in IF NativeAt(i) THEN {1, Null + 1} ELSE {0, Null}
      BY <2>1, <2>2
    <3>4. cells'[c] \in IF NativeAt(i)' THEN {1, Null + 1} ELSE {0, Null}
      <4>1. CASE args_step = "to native"
        BY <1>6, <3>2, <3>3, <4>1, Conversions
      <4>2. CASE args_step = "to app"
        BY <1>6, <3>2, <3>3, <4>2, Conversions
      <4>. QED
        BY <1>3, <4>1, <4>2 DEF ArgsWalking
    <3>. QED
      BY <2>2, <3>1, <3>4
  <2>3. CASE ~ (types[i] = "string" /\ cell_of[i] = c)
    <3>1. cells'[c] = cells[c]
      BY <1>2, <1>3, <2>3 DEF ArgsTypeOK
    <3>. QED
      BY <1>6, <2>1, <2>3, <3>1
  <2>. QED
    BY <2>2, <2>3
<1>. QED
  BY <1>5, <1>7, <1>8

(* A round with another word (324-325): the walk passes no address of a    *)
(* type that it knows.                                                     *)
LEMMA PassWordInv ==
  ASSUME ArgsInv, ArgsWalk, PassWord
  PROVE  ArgsInv'
<1> USE DEF ArgsInv
<1>1. /\ Len(types) \in Nat /\ DOMAIN types = 1 .. Len(types)
      /\ pos \in 1 .. 2 * Len(types)
      /\ \A i \in DOMAIN types : pos = 2 * i - 1 => types[i] \notin Taking
  <2>1. CASE spec_type = "address"
    <3>1. PICK i \in DOMAIN types : pos = 2 * i
      BY <2>1, WordRead
    <3>. QED
      BY <3>1, WordRead
  <2>2. CASE spec_type \in Kind
    <3>1. PICK i \in DOMAIN types : pos = 2 * i - 1 /\ spec_type = types[i]
      BY <2>2, WordRead
    <3>2. spec_type \notin Taking
      BY DEF PassWord
    <3>. QED
      BY <3>1, <3>2, WordRead
  <2>. QED
    BY <2>1, <2>2, WordRead DEF PassWord
<1>2. /\ pos' = pos + 1 /\ address' = address /\ cells' = cells
      /\ types' = types /\ cell_of' = cell_of /\ args_step' = args_step
      /\ args_step \in ArgsWalking
  BY DEF PassWord, ArgsWalk
<1>3. ArgsTypeOK'
  BY <1>1, <1>2 DEF ArgsTypeOK, WordCount
<1>4. \A i \in DOMAIN types : types[i] \in Taking => (NativeAt(i)' <=> NativeAt(i))
  <2>1. \A i \in DOMAIN types : types[i] \in Taking => (WalkPassed(i)' <=> WalkPassed(i))
    BY <1>1, <1>2 DEF WalkPassed
  <2>. QED
    BY <1>2, <2>1 DEF NativeAt
<1>5. AddressesTurned'
  BY <1>2, <1>4 DEF AddressesTurned
<1>6. CellsTurned'
  BY <1>2, <1>4 DEF CellsTurned, SharedCell, Taking
<1>. QED
  BY <1>3, <1>5, <1>6

(* Between the walks all that was passed is native (338-341), and after    *)
(* the second nothing is.                                                  *)
LEMMA ArgsCallInv ==
  ASSUME ArgsInv, GoAstray \/ ArgsCall \/ ArgsBack \/ ArgsReturn
  PROVE  ArgsInv'
<1> USE DEF ArgsInv
<1>1. /\ Len(types) \in Nat /\ DOMAIN types = 1 .. Len(types)
      /\ pos \in Nat /\ \A i \in DOMAIN types : i \in 1 .. Len(types)
  BY WordRead
<1>2. CASE GoAstray
  BY <1>2 DEF GoAstray, ArgsTypeOK, AddressesTurned, CellsTurned, WordCount
<1>3. CASE ArgsCall
  <2>1. pos = 2 * Len(types) + 1
    BY <1>3, WordRead DEF ArgsCall, WordCount
  <2>2. \A i \in DOMAIN types : WalkPassed(i)
    BY <1>1, <2>1 DEF WalkPassed
  <2>3. \A i \in DOMAIN types : NativeAt(i) /\ NativeAt(i)'
    BY <1>3, <2>2 DEF ArgsCall, NativeAt
  <2>. QED
    BY <1>3, <2>3, ZenonT(60)
       DEF ArgsCall, ArgsTypeOK, AddressesTurned, CellsTurned, SharedCell, WordCount
<1>4. CASE ArgsBack
  <2>0. \A i \in DOMAIN types : ~ WalkPassed(i)'
    <3>1. pos' = 1
      BY <1>4 DEF ArgsBack
    <3>2. \A i \in 1 .. Len(types) : ~ WalkPassed(i)'
      BY <1>1, <3>1 DEF WalkPassed
    <3>. QED
      BY <1>1, <3>2
  <2>1. \A i \in DOMAIN types : NativeAt(i) /\ NativeAt(i)'
    BY <1>4, <2>0 DEF ArgsBack, NativeAt
  <2>2. 1 \in 1 .. 2 * Len(types) + 1
    BY <1>1
  <2>3. ArgsTypeOK'
    BY <1>4, <2>2 DEF ArgsBack, ArgsTypeOK, WordCount, ArgsWalking
  <2>. QED
    BY <1>4, <2>1, <2>3, ZenonT(60) DEF ArgsBack, AddressesTurned, CellsTurned, SharedCell
<1>5. CASE ArgsReturn
  <2>1. pos = 2 * Len(types) + 1
    BY <1>5, WordRead DEF ArgsReturn, WordCount
  <2>2. \A i \in DOMAIN types : WalkPassed(i)
    BY <1>1, <2>1 DEF WalkPassed
  <2>3. \A i \in DOMAIN types : ~ NativeAt(i) /\ ~ NativeAt(i)'
    BY <1>5, <2>2 DEF ArgsReturn, NativeAt
  <2>. QED
    BY <1>5, <2>3, ZenonT(60)
       DEF ArgsReturn, ArgsTypeOK, AddressesTurned, CellsTurned, SharedCell, WordCount
<1>. QED
  BY <1>2, <1>3, <1>4, <1>5

(* A string that dbus_message_get_args_valist sets is native.              *)
LEMMA GetArgsSetsInv ==
  ASSUME ArgsInv, GetArgsSets
  PROVE  ArgsInv'
<1> USE DEF ArgsInv
<1>1. PICK n \in 0 .. Len(types) :
        cells' = [c \in Cells |->
            IF \E i \in 1 .. n : types[i] = "string" /\ cell_of[i] = c THEN 1 ELSE cells[c]]
  BY DEF GetArgsSets
<1>2. /\ args_step = "native" /\ args_step' = args_step
      /\ types' = types /\ cell_of' = cell_of /\ address' = address /\ pos' = pos
  BY DEF GetArgsSets
<1>3. Len(types) \in Nat /\ DOMAIN types = 1 .. Len(types)
  BY WordRead
<1>4. ArgsTypeOK'
  BY <1>1, <1>2 DEF ArgsTypeOK, WordCount
<1>5. \A i \in DOMAIN types : NativeAt(i) /\ NativeAt(i)'
  BY <1>2 DEF NativeAt
<1>6. AddressesTurned'
  BY <1>2, <1>5 DEF AddressesTurned
<1>7. CellsTurned'
  <2> SUFFICES ASSUME NEW c \in Cells, ~ SharedCell(c)
               PROVE  /\ \A j \in DOMAIN types :
                            types[j] = "string" /\ cell_of[j] = c => cells'[c] \in {1, Null + 1}
                      /\ (\A j \in DOMAIN types : ~ (types[j] = "string" /\ cell_of[j] = c)) =>
                            cells'[c] \in {0, Null}
    BY <1>2, <1>5 DEF CellsTurned, SharedCell
  <2>1. cells'[c] = IF \E i \in 1 .. n : types[i] = "string" /\ cell_of[i] = c
                    THEN 1 ELSE cells[c]
    BY <1>1
  <2>2. \A i \in 1 .. n : i \in DOMAIN types
    BY <1>3
  <2>. QED
    BY <1>2, <1>5, <2>1, <2>2 DEF CellsTurned
<1>. QED
  BY <1>4, <1>6, <1>7

(* Every step of the three natives, and stuttering.                        *)
LEMMA ArgsStepInv == ArgsInv /\ [ArgsNext]_argsVars => ArgsInv'
<1> SUFFICES ASSUME ArgsInv, [ArgsNext]_argsVars PROVE ArgsInv'
  OBVIOUS
<1>1. CASE ArgsNext
  <2>1. CASE ArgsWalk
    BY <2>1, TakeAddressInv, PassWordInv DEF ArgsWalk
  <2>. QED
    BY <1>1, <2>1, ArgsCallInv, GetArgsSetsInv DEF ArgsNext
<1>2. CASE UNCHANGED argsVars
  BY <1>2, ZenonT(60)
  DEF argsVars, ArgsInv, ArgsTypeOK, AddressesTurned, CellsTurned, NativeAt, WalkPassed,
              SharedCell, WordCount
<1>. QED
  BY <1>1, <1>2

(* dbus_message_args_conv makes native what libdbus will follow and makes  *)
(* it the application's afterwards, in lists of any length and any order   *)
(* of types it knows and does not know, unless one cell is passed twice.   *)
THEOREM ArgsTurnedAlways == ArgsSpec => []ArgsTurned
<1>1. ArgsInv => ArgsTurned
  <2> SUFFICES ASSUME ArgsInv PROVE ArgsTurned
    OBVIOUS
  <2> USE DEF ArgsInv
  <2>1. ArgsConverted
    <3> SUFFICES ASSUME args_step = "native" PROVE ArgsConverted
      BY DEF ArgsConverted
    <3>1. \A i \in DOMAIN types : NativeAt(i) /\ cell_of[i] \in Cells
      BY DEF NativeAt, ArgsTypeOK
    <3>. QED
      BY <3>1 DEF ArgsConverted, AddressesTurned, CellsTurned
  <2>2. ArgsRestored
    <3> SUFFICES ASSUME args_step = "returned" PROVE ArgsRestored
      BY DEF ArgsRestored
    <3>1. \A i \in DOMAIN types : ~ NativeAt(i)
      BY DEF NativeAt
    <3>. QED
      BY <3>1 DEF ArgsRestored, AddressesTurned, CellsTurned
  <2>. QED
    BY <2>1, <2>2 DEF ArgsTurned
<1>. QED
  BY <1>1, ArgsInitInv, ArgsStepInv, PTL DEF ArgsSpec

(***************************************************************************)
(* What sprintf_out leaves in a buffer.                                    *)
(***************************************************************************)

(* A buffer of max bytes after that many characters.                           *)
Printed(max, given) ==
    [str |-> [i \in 1 .. IF given < max THEN given ELSE max |->
                  IF i = max THEN "0" ELSE "c"],
     max |-> max, count |-> given]

(* One character more.                                                     *)
LEMMA PrintedOne ==
  ASSUME NEW max \in Nat, NEW given \in Nat, NEW b, b = Printed(max, given)
  PROVE  Printed(max, given + 1) =
            IF b.count >= b.max THEN [b EXCEPT !.count = @ + 1]
            ELSE [b EXCEPT !.str = Append(@, IF b.count = b.max - 1 THEN "0" ELSE "c"),
                           !.count = @ + 1]
<1>1. b.count = given /\ b.max = max
  BY DEF Printed
<1>2. CASE given >= max
  <2>1. ~ (given < max) /\ ~ (given + 1 < max)
    BY <1>2
  <2>. QED
    BY <1>1, <1>2, <2>1 DEF Printed
<1>3. CASE ~ (given >= max)
  <2> DEFINE s == [i \in 1 .. given |-> IF i = max THEN "0" ELSE "c"]
             e == IF given = max - 1 THEN "0" ELSE "c"
             t == [i \in 1 .. given + 1 |-> IF i = max THEN "0" ELSE "c"]
  <2>1. b.str = s
    BY <1>3 DEF Printed
  <2>2. s \in Seq({"0", "c"}) /\ Len(s) = given
    OBVIOUS
  <2>3. Append(s, e) = t
    <3>1. t \in Seq({"0", "c"}) /\ Len(t) = given + 1
      OBVIOUS
    <3>2. Append(s, e) \in Seq({"0", "c"}) /\ Len(Append(s, e)) = given + 1
      <4>1. e \in {"0", "c"}
        OBVIOUS
      <4> HIDE DEF s, e
      <4>. QED
        BY <2>2, <4>1, AppendProperties
    <3>3. ASSUME NEW i \in 1 .. given + 1 PROVE Append(s, e)[i] = t[i]
      <4>1. CASE i = given + 1
        <5>1. Append(s, e)[i] = e
          <6> HIDE DEF s, e
          <6>. QED
            BY <2>2, <4>1, AppendProperties
        <5>2. t[i] = e
          BY <4>1
        <5>. QED
          BY <5>1, <5>2, Zenon
      <4>2. CASE i \in 1 .. given
        <5>1. Append(s, e)[i] = s[i]
          <6> HIDE DEF s, e
          <6>. QED
            BY <2>2, <4>2, AppendProperties
        <5>2. s[i] = t[i]
          BY <4>2
        <5>. QED
          BY <5>1, <5>2, Zenon
      <4>. QED
        BY <4>1, <4>2
    <3> HIDE DEF s, e, t
    <3>. QED
      BY <3>1, <3>2, <3>3, SeqEqual
  <2>4. Printed(max, given + 1) = [str |-> t, max |-> max, count |-> given + 1]
    <3>1. (IF given + 1 < max THEN given + 1 ELSE max) = given + 1
      BY <1>3
    <3>. QED
      BY <3>1, Zenon DEF Printed
  <2>5. b = [str |-> s, max |-> max, count |-> given]
    <3>1. (IF given < max THEN given ELSE max) = given
      BY <1>3
    <3>. QED
      BY <3>1, Zenon DEF Printed
  <2>6. (IF b.count = b.max - 1 THEN "0" ELSE "c") = e
    BY <1>1
  <2> HIDE DEF s, t, e
  <2>7. [b EXCEPT !.str = Append(@, e), !.count = @ + 1]
           = [str |-> Append(s, e), max |-> max, count |-> given + 1]
    <3> DEFINE a == Append(s, e)
               l == given + 1
               u == [str |-> s, max |-> max, count |-> given]
               v == [str |-> a, max |-> max, count |-> given]
    <3> HIDE DEF a, l
    <3>3. [u EXCEPT !.str = a] = v
      OBVIOUS
    <3>4. [v EXCEPT !.count = l] = [str |-> a, max |-> max, count |-> l]
      OBVIOUS
    <3>5. [u EXCEPT !.str = a, !.count = l] = [[u EXCEPT !.str = a] EXCEPT !.count = l]
      OBVIOUS
    <3>1. [[str |-> s, max |-> max, count |-> given] EXCEPT !.str = Append(s, e), !.count = given + 1]
             = [str |-> Append(s, e), max |-> max, count |-> given + 1]
      BY <3>3, <3>4, <3>5, Zenon DEF a, l
    <3>2. b.str = s /\ b.count = given
      BY <2>5
    <3>. QED
      BY <2>5, <3>1, <3>2, Zenon
  <2>. QED
    BY <1>1, <1>3, <2>3, <2>4, <2>6, <2>7
<1>. QED
  BY <1>2, <1>3

(* And n.                                                                  *)
LEMMA PrintedMore ==
  ASSUME NEW max \in Nat, NEW given \in Nat, NEW n \in Nat
  PROVE  SprintfOut(Printed(max, given), n) = Printed(max, given + n)
<1> DEFINE c == Printed(max, given)
           Then(b) == IF b.count >= b.max THEN [b EXCEPT !.count = @ + 1]
                      ELSE [b EXCEPT !.str = Append(@, IF b.count = b.max - 1 THEN "0" ELSE "c"),
                                     !.count = @ + 1]
           Is(f) == f = [k \in 0 .. n |-> IF k = 0 THEN c ELSE Then(f[k - 1])]
           g == [k \in 0 .. n |-> Printed(max, given + k)]
           put == CHOOSE f : Is(f)
<1>1. \A k \in 1 .. n : Printed(max, given + k) = Then(Printed(max, given + (k - 1)))
  <2> TAKE k \in 1 .. n
  <2>1. given + (k - 1) \in Nat /\ (given + (k - 1)) + 1 = given + k
    OBVIOUS
  <2> HIDE DEF c
  <2>2. Printed(max, (given + (k - 1)) + 1) = Then(Printed(max, given + (k - 1)))
    <3> DEFINE m == given + (k - 1)
    <3>1. m \in Nat
      BY <2>1
    <3> HIDE DEF m
    <3>2. Printed(max, m + 1) = Then(Printed(max, m))
      BY <3>1, PrintedOne
    <3>. QED
      BY <3>2 DEF m
  <2>. QED
    BY <2>1, <2>2
<1>2. SprintfOut(c, n) = put[n]
  BY DEF SprintfOut
<1> HIDE DEF Then
<1>3. Is(g)
  <2>1. \A k \in 0 .. n : Printed(max, given + k) = IF k = 0 THEN c ELSE Then(g[k - 1])
    <3> TAKE k \in 0 .. n
    <3>1. CASE k = 0
      <4>1. given + 0 = given
        OBVIOUS
      <4>. QED
        BY <3>1, <4>1
    <3>2. CASE k # 0
      <4>1. k \in 1 .. n /\ k - 1 \in 0 .. n
        BY <3>2
      <4>2. g[k - 1] = Printed(max, given + (k - 1))
        BY <4>1
      <4> HIDE DEF g, c
      <4>. QED
        BY <3>2, <4>1, <4>2, <1>1
    <3>. QED
      BY <3>1, <3>2
  <2> HIDE DEF c
  <2>. QED
    BY <2>1
<1>4. Is(put)
  <2> HIDE DEF Is, g
  <2>. QED
    BY <1>3
<1> HIDE DEF put, c
<1>5. \A k \in 0 .. n : put[k] = IF k = 0 THEN c ELSE Then(put[k - 1])
  BY <1>4
<1> HIDE DEF Is, g
<1> DEFINE R == {k \in 0 .. n : put[k] = Printed(max, given + k)}
<1>6. 0 \in R
  <2>1. given + 0 = given /\ 0 \in 0 .. n
    OBVIOUS
  <2>2. put[0] = c
    BY <1>5, <2>1
  <2>. QED
    BY <2>1, <2>2 DEF c
<1>7. ASSUME NEW k \in 0 .. n - 1, k \in R PROVE k + 1 \in R
  <2>1. k + 1 \in 0 .. n /\ k + 1 \in 1 .. n /\ k + 1 # 0 /\ (k + 1) - 1 = k
    OBVIOUS
  <2>2. put[k + 1] = Then(put[k])
    BY <1>5, <2>1
  <2>3. put[k] = Printed(max, given + k)
    BY <1>7
  <2>. QED
    BY <1>1, <2>1, <2>2, <2>3
<1>8. n \in R
  <2>1. n \in 0 .. n
    OBVIOUS
  <2> HIDE DEF R
  <2>. QED
    BY <1>6, <1>7, <2>1, InductionTo
<1>. QED
  BY <1>2, <1>8 DEF c

(* sprintf_out has been given the output so far; PrintEnds terminates what *)
(* there is room to terminate, and nothing is printed after it.            *)
OutputInv ==
    /\ printed \in Nat
    /\ result = "count" => pc = "returned"
    /\ \E max \in Nat :
          ctx = IF result = "count" /\ printed < max
                THEN [Printed(max, printed) EXCEPT !.str = Append(@, "0")]
                ELSE Printed(max, printed)

(* sprintf_out keeps it, and with it every conversion that prints.         *)
LEMMA OutKeepsOutput ==
  ASSUME OutputInv, pc = "formatting", NEW n \in Nat, Out(n),
         pc' = pc \/ pc' = "returned", result' = result \/ result' = "0"
  PROVE  OutputInv'
<1>1. PICK max \in Nat : ctx = Printed(max, printed)
  BY DEF OutputInv
<1>2. printed \in Nat /\ printed' = printed + n /\ result' # "count"
  BY DEF OutputInv, Out
<1>3. ctx' = Printed(max, printed')
  <2>1. ctx' = SprintfOut(ctx, n)
    BY DEF Out
  <2>. QED
    BY <1>1, <1>2, <2>1, PrintedMore
<1>4. printed' \in Nat
  BY <1>2
<1>. QED
  BY <1>2, <1>3, <1>4 DEF OutputInv

(* So does a step that prints nothing.                                     *)
LEMMA QuietKeepsOutput ==
  ASSUME OutputInv, UNCHANGED output, result # "count", result' # "count"
  PROVE  OutputInv'
BY DEF OutputInv, output

(* The buffer is empty at first.                                           *)
LEMMA OutputStarts ==
  ASSUME FormatInit PROVE OutputInv
<1>1. printed = 0 /\ result = "none" /\ pc = "called"
  BY DEF FormatInit
<1>2. PICK max \in Nat : ctx = [str |-> <<>>, max |-> max, count |-> 0]
  <2>1. PICK max \in (IF call = "snprintf" THEN Sizes ELSE {NoLimit}) :
           ctx = [str |-> <<>>, max |-> max, count |-> 0]
    BY DEF FormatInit
  <2>2. max \in Nat
    BY FormatAssumption DEF NoLimit
  <2>. QED
    BY <2>1, <2>2
<1>3. Printed(max, 0) = [str |-> <<>>, max |-> max, count |-> 0]
  <2> DEFINE s == [i \in 1 .. IF 0 < max THEN 0 ELSE max |-> IF i = max THEN "0" ELSE "c"]
  <2>1. s = <<>>
    <3>1. (1 .. IF 0 < max THEN 0 ELSE max) = {}
      OBVIOUS
    <3>2. s \in Seq({"0", "c"}) /\ Len(s) = 0
      BY <3>1
    <3> HIDE DEF s
    <3>. QED
      BY <3>2, EmptySeq
  <2> HIDE DEF s
  <2>2. Printed(max, 0) = [str |-> s, max |-> max, count |-> 0]
    BY Zenon DEF Printed, s
  <2>. QED
    BY <2>1, <2>2
<1>. QED
  BY <1>1, <1>2, <1>3 DEF OutputInv

(* Every step keeps what sprintf_out has left in the buffer.               *)
LEMMA OutputStep ==
  ASSUME OutputInv, [FormatNext]_formatVars PROVE OutputInv'
<1> USE DEF Conversion, Fetch
<1>1. CASE NativeReturns
  BY <1>1, QuietKeepsOutput DEF NativeReturns, OutputInv
<1>2. CASE Printf
  BY <1>2, QuietKeepsOutput DEF Printf, ToNative, ToApp, OutputInv
<1>3. CASE Vasprintf
  BY <1>3, QuietKeepsOutput DEF Vasprintf, ToNative, OutputInv
<1>4. CASE SendEventMisightF
  BY <1>4, QuietKeepsOutput DEF SendEventMisightF, ToNative, ToApp, OutputInv
<1>5. CASE DbusSetError
  BY <1>5, QuietKeepsOutput DEF DbusSetError, ToNative, ToApp, OutputInv
<1>6. CASE PrintBegins
  BY <1>6, QuietKeepsOutput DEF PrintBegins, OutputInv
<1>7. CASE PrintEnds
  <2>1. PICK max \in Nat : ctx = Printed(max, printed)
    BY <1>7 DEF PrintEnds, OutputInv
  <2>2. ctx' = [ctx EXCEPT !.str = IF ctx.count < ctx.max THEN Append(@, "0") ELSE @]
    BY <1>7 DEF PrintEnds
  <2>3. /\ result' = "count" /\ pc' = "returned" /\ printed' = printed /\ printed \in Nat
    BY <1>7 DEF PrintEnds, OutputInv
  <2>4. ctx.count = printed /\ ctx.max = max
    BY <2>1 DEF Printed
  <2>5. CASE printed < max
    <3>1. ctx' = [Printed(max, printed) EXCEPT !.str = Append(@, "0")]
      <4>1. ctx.count < ctx.max
        BY <2>4, <2>5
      <4>. QED
        BY <2>1, <2>2, <4>1, Zenon
    <3>. QED
      BY <2>3, <2>5, <3>1 DEF OutputInv
  <2>6. CASE ~ (printed < max)
    <3>1. ctx' = Printed(max, printed)
      <4>1. ~ (ctx.count < ctx.max)
        BY <2>4, <2>6
      <4>2. ctx' = [ctx EXCEPT !.str = @]
        BY <2>2, <4>1, Zenon
      <4>3. [Printed(max, printed) EXCEPT !.str = @] = Printed(max, printed)
        BY DEF Printed
      <4>. QED
        BY <2>1, <4>2, <4>3, Zenon
    <3>. QED
      BY <2>3, <2>6, <3>1 DEF OutputInv
  <2>. QED
    BY <2>5, <2>6
<1>8. CASE Literal
  <2>1. pc = "formatting" /\ pc' = pc /\ result' = result
    BY <1>8 DEF Literal
  <2>2. Out(1) \/ UNCHANGED output
    BY <1>8 DEF Literal, output
  <2>. QED
    BY <2>1, <2>2, OutKeepsOutput, QuietKeepsOutput DEF OutputInv
<1>9. CASE Modify
  BY <1>9, QuietKeepsOutput DEF Modify, OutputInv
<1>10. CASE PrepareTempFormatFails
  <2>1. pc = "formatting" /\ pc' = pc /\ result' = result /\ Out(3)
    BY <1>10 DEF PrepareTempFormatFails, PrintErr
  <2>. QED
    BY <2>1, OutKeepsOutput
<1>11. CASE Integer \/ Double \/ String
  <2>1. pc = "formatting"
    BY <1>11 DEF Integer, Double, String
  <2>2. \/ Give0
        \/ OutputTempFormat
        \/ PrintErr /\ UNCHANGED <<pc, starved, result>>
    BY <1>11 DEF Integer, Double, String, CheckVaArg
  <2>3. CASE Give0
    BY <2>1, <2>3, QuietKeepsOutput DEF Give0, OutputInv, output
  <2>4. CASE OutputTempFormat
    <3>1. PICK n \in Emit : Out(n)
      BY <2>4 DEF OutputTempFormat
    <3>2. n \in Nat /\ pc' = pc /\ result' = result
      BY <2>4, FormatAssumption DEF OutputTempFormat
    <3>. QED
      BY <2>1, <3>1, <3>2, OutKeepsOutput
  <2>5. CASE PrintErr /\ UNCHANGED <<pc, starved, result>>
    BY <2>1, <2>5, OutKeepsOutput DEF PrintErr
  <2>. QED
    BY <2>2, <2>3, <2>4, <2>5
<1>12. CASE Other
  <2>1. pc = "formatting" /\ pc' = pc /\ result' = result
    BY <1>12 DEF Other
  <2>2. Out(1) \/ Out(0) \/ Out(2)
    BY <1>12 DEF Other
  <2>. QED
    BY <2>1, <2>2, OutKeepsOutput
<1>13. CASE UNCHANGED formatVars
  BY <1>13 DEF formatVars, output, OutputInv
<1>. QED
  BY <1>1, <1>2, <1>3, <1>4, <1>5, <1>6, <1>7, <1>8, <1>9, <1>10, <1>11, <1>12, <1>13
     DEF FormatNext, VprintfWa, Snprintf, Sprintf

(* What snprintf and sprintf leave in the buffer is C's: the output as far *)
(* as it fits, one zero, nothing past the size, and the full count         *)
(* (libc_bypass.c:357-378, 935-943).                                       *)
THEOREM OutputAlwaysFits == FormatSpec => []OutputFits
<1>1. FormatInit => OutputInv
  BY OutputStarts
<1>2. OutputInv /\ [FormatNext]_formatVars => OutputInv'
  BY OutputStep
<1>3. OutputInv => OutputFits
  <2>1. SUFFICES ASSUME OutputInv, result = "count" PROVE OutputFits
    BY DEF OutputFits
  <2>2. PICK max \in Nat :
           ctx = IF printed < max THEN [Printed(max, printed) EXCEPT !.str = Append(@, "0")]
                 ELSE Printed(max, printed)
    BY <2>1 DEF OutputInv
  <2>3. printed \in Nat
    BY <2>1 DEF OutputInv
  <2>4. CASE printed < max
    <3>1. ctx.count = printed /\ ctx.max = max
      BY <2>2, <2>4 DEF Printed
    <3>2. ctx.str = Append(Printed(max, printed).str, "0")
      BY <2>2, <2>4 DEF Printed
    <3>3. Printed(max, printed).str = [i \in 1 .. printed |-> "c"]
      <4>1. Printed(max, printed).str = [i \in 1 .. printed |-> IF i = max THEN "0" ELSE "c"]
        BY <2>4 DEF Printed
      <4>2. \A i \in 1 .. printed : i # max
        BY <2>3, <2>4
      <4>. QED
        BY <4>1, <4>2
    <3>. QED
      BY <2>4, <3>1, <3>2, <3>3 DEF OutputFits
  <2>5. CASE ~ (printed < max)
    <3>1. ctx = Printed(max, printed)
      BY <2>2, <2>5
    <3>2. ctx.count = printed /\ ctx.max = max
      BY <3>1 DEF Printed
    <3>3. ctx.str = [i \in 1 .. max |-> IF i = max THEN "0" ELSE "c"]
      BY <2>5, <3>1 DEF Printed
    <3>. QED
      BY <2>5, <3>2, <3>3 DEF OutputFits
  <2>. QED
    BY <2>4, <2>5
<1>. QED
  BY <1>1, <1>2, <1>3, PTL DEF FormatSpec

(***************************************************************************)
(* The block of arguments.                                                 *)
(***************************************************************************)

(* The first word at a multiple of eight bytes, from a place on.           *)
LEMMA AlignedIs ==
  /\ \A p \in Nat : Aligned(p) \in Nat /\ p <= Aligned(p)
  /\ \A p, q \in Nat : p <= q => Aligned(p) <= Aligned(q)
<1>1. \A p \in Nat : p % 2 \in {0, 1}
  OBVIOUS
<1>2. \A p \in Nat : Aligned(p) \in Nat /\ p <= Aligned(p)
  BY <1>1 DEF Aligned
<1>3. ASSUME NEW p \in Nat, NEW q \in Nat, p <= q PROVE Aligned(p) <= Aligned(q)
  <2>1. CASE p = q
    BY <1>2, <2>1
  <2>2. CASE p # q
    <3>1. Aligned(p) <= p + 1 /\ Aligned(p) \in Nat
      BY <1>1 DEF Aligned
    <3>2. p + 1 <= q /\ q <= Aligned(q) /\ Aligned(q) \in Nat
      BY <1>2, <1>3, <2>2
    <3> HIDE DEF Aligned
    <3>. QED
      BY <3>1, <3>2
  <2>. QED
    BY <2>1, <2>2
<1>. QED
  BY <1>2, <1>3

Types == {"int", "long long", "double", "string", "pointer"}

Letters == Modifier \cup {"%", "d", "f", "s", "n", "*", "x"}

(* Where the characters of each directive start, counted from 0, and the   *)
(* arguments.                                                              *)
CharPlaces(f, o) ==
    /\ o \in [1 .. Len(f) + 1 -> Nat] /\ o[1] = 0
    /\ o[Len(f) + 1] = Len(Chars(f))
    /\ \A i \in 1 .. Len(f) : o[i + 1] = o[i] + Len(f[i].chars)
    /\ \A i \in 1 .. Len(f) : \A j \in 1 .. Len(f[i].chars) :
          o[i] + j \in 1 .. Len(Chars(f)) /\ Chars(f)[o[i] + j] = f[i].chars[j]

TakenPlaces(f, o) ==
    /\ o \in [1 .. Len(f) + 1 -> Nat] /\ o[1] = 0
    /\ o[Len(f) + 1] = Len(Taken(f))
    /\ \A i \in 1 .. Len(f) : o[i + 1] = o[i] + Len(f[i].takes)
    /\ \A i \in 1 .. Len(f) : \A j \in 1 .. Len(f[i].takes) :
          o[i] + j \in 1 .. Len(Taken(f)) /\ Taken(f)[o[i] + j] = f[i].takes[j]

CharsBefore(f) == CHOOSE o : CharPlaces(f, o)
TakenBefore(f) == CHOOSE o : TakenPlaces(f, o)

(* A directive has characters; the number of its arguments is finite.      *)
LEMMA DirectiveFields ==
  ASSUME NEW d \in Directive
  PROVE  /\ d.chars \in Seq(Letters) /\ d.takes \in Seq(Types)
         /\ Len(d.chars) \in Nat \ {0} /\ Len(d.takes) \in Nat
<1>1. d.chars \in Seq(Letters) /\ d.takes \in Seq(Types)
  BY DEF Directive, Letters, Types
<1>2. Len(d.chars) \in Nat /\ Len(d.takes) \in Nat
  BY <1>1, LenProperties
<1>3. Len(d.chars) # 0
  <2>1. Len(d.chars) = 1 \/ d.chars = <<"%", "%">> \/ IsConversion(d.chars)
    BY DEF Directive
  <2>2. IsConversion(d.chars) => Len(d.chars) > 1
    BY DEF IsConversion
  <2>3. CASE Len(d.chars) = 1
    BY <2>3
  <2>4. CASE d.chars = <<"%", "%">>
    BY <2>4
  <2>5. CASE IsConversion(d.chars)
    BY <1>2, <2>2, <2>5
  <2>. QED
    BY <2>1, <2>3, <2>4, <2>5
<1>. QED
  BY <1>1, <1>2, <1>3

(* The characters of a format are those of its directives, in order.       *)
LEMMA CharsAre ==
  ASSUME NEW f \in Seq(Directive)
  PROVE  /\ Chars(f) \in Seq(Letters) /\ Len(Chars(f)) \in Nat
         /\ CharPlaces(f, CharsBefore(f))
<1> DEFINE s == [i \in DOMAIN f |-> f[i].chars]
<1>1. Len(f) \in Nat /\ DOMAIN f = 1 .. Len(f) /\ \A i \in 1 .. Len(f) : f[i] \in Directive
  BY LenProperties, ElementOfSeq
<1>2. s \in Seq(Seq(Letters)) /\ Len(s) = Len(f) /\ \A i \in 1 .. Len(f) : s[i] = f[i].chars
  <2>1. s = [i \in 1 .. Len(f) |-> f[i].chars]
    BY <1>1
  <2>2. \A i \in 1 .. Len(f) : f[i].chars \in Seq(Letters)
    BY <1>1, DirectiveFields
  <2>. QED
    BY <1>1, <2>1, <2>2
<1>3. Chars(f) = FlattenSeq(s)
  BY DEF Chars
<1> HIDE DEF s
<1>4. /\ Chars(f) \in Seq(Letters)
      /\ \E o \in [1 .. Len(s) + 1 -> Nat] :
            /\ o[1] = 0
            /\ \A i \in 1 .. Len(s) : o[i + 1] = o[i] + Len(s[i])
            /\ o[Len(s) + 1] = Len(Chars(f))
            /\ \A i \in 1 .. Len(s) : \A j \in 1 .. Len(s[i]) :
                  o[i] + j \in 1 .. Len(Chars(f)) /\ Chars(f)[o[i] + j] = s[i][j]
  <2> HIDE DEF Letters
  <2>. QED
    BY <1>2, <1>3, FlattenPlaces, ZenonT(60)
<1>5. \E o : CharPlaces(f, o)
  <2>1. PICK o \in [1 .. Len(s) + 1 -> Nat] :
            /\ o[1] = 0
            /\ \A i \in 1 .. Len(s) : o[i + 1] = o[i] + Len(s[i])
            /\ o[Len(s) + 1] = Len(Chars(f))
            /\ \A i \in 1 .. Len(s) : \A j \in 1 .. Len(s[i]) :
                  o[i] + j \in 1 .. Len(Chars(f)) /\ Chars(f)[o[i] + j] = s[i][j]
    BY <1>4, Zenon
  <2>2. o \in [1 .. Len(f) + 1 -> Nat] /\ o[1] = 0 /\ o[Len(f) + 1] = Len(Chars(f))
    BY <1>2, <2>1
  <2>3. \A i \in 1 .. Len(f) : o[i + 1] = o[i] + Len(f[i].chars)
    BY <1>2, <2>1, Zenon
  <2>4. \A i \in 1 .. Len(f) : \A j \in 1 .. Len(f[i].chars) :
           o[i] + j \in 1 .. Len(Chars(f)) /\ Chars(f)[o[i] + j] = f[i].chars[j]
    <3> TAKE i \in 1 .. Len(f)
    <3>1. s[i] = f[i].chars /\ i \in 1 .. Len(s)
      BY <1>2
    <3>2. \A j \in 1 .. Len(s[i]) :
             o[i] + j \in 1 .. Len(Chars(f)) /\ Chars(f)[o[i] + j] = s[i][j]
      BY <2>1, <3>1, Zenon
    <3>. QED
      BY <3>1, <3>2
  <2>5. CharPlaces(f, o)
    BY <2>2, <2>3, <2>4, Zenon DEF CharPlaces
  <2>. QED
    BY <2>5
<1>6. CharPlaces(f, CharsBefore(f))
  BY <1>5, Zenon DEF CharsBefore
<1>. QED
  BY <1>4, <1>6, LenProperties

(* So are the arguments it takes.                                          *)
LEMMA TakenAre ==
  ASSUME NEW f \in Seq(Directive)
  PROVE  /\ Taken(f) \in Seq(Types) /\ Len(Taken(f)) \in Nat
         /\ TakenPlaces(f, TakenBefore(f))
<1> DEFINE s == [i \in DOMAIN f |-> f[i].takes]
<1>1. Len(f) \in Nat /\ DOMAIN f = 1 .. Len(f) /\ \A i \in 1 .. Len(f) : f[i] \in Directive
  BY LenProperties, ElementOfSeq
<1>2. s \in Seq(Seq(Types)) /\ Len(s) = Len(f) /\ \A i \in 1 .. Len(f) : s[i] = f[i].takes
  <2>1. s = [i \in 1 .. Len(f) |-> f[i].takes]
    BY <1>1
  <2>2. \A i \in 1 .. Len(f) : f[i].takes \in Seq(Types)
    BY <1>1, DirectiveFields
  <2>. QED
    BY <1>1, <2>1, <2>2
<1>3. Taken(f) = FlattenSeq(s)
  BY DEF Taken
<1> HIDE DEF s
<1>4. /\ Taken(f) \in Seq(Types)
      /\ \E o \in [1 .. Len(s) + 1 -> Nat] :
            /\ o[1] = 0
            /\ \A i \in 1 .. Len(s) : o[i + 1] = o[i] + Len(s[i])
            /\ o[Len(s) + 1] = Len(Taken(f))
            /\ \A i \in 1 .. Len(s) : \A j \in 1 .. Len(s[i]) :
                  o[i] + j \in 1 .. Len(Taken(f)) /\ Taken(f)[o[i] + j] = s[i][j]
  <2> HIDE DEF Types
  <2>. QED
    BY <1>2, <1>3, FlattenPlaces, ZenonT(60)
<1>5. \E o : TakenPlaces(f, o)
  <2>1. PICK o \in [1 .. Len(s) + 1 -> Nat] :
            /\ o[1] = 0
            /\ \A i \in 1 .. Len(s) : o[i + 1] = o[i] + Len(s[i])
            /\ o[Len(s) + 1] = Len(Taken(f))
            /\ \A i \in 1 .. Len(s) : \A j \in 1 .. Len(s[i]) :
                  o[i] + j \in 1 .. Len(Taken(f)) /\ Taken(f)[o[i] + j] = s[i][j]
    BY <1>4, Zenon
  <2>2. o \in [1 .. Len(f) + 1 -> Nat] /\ o[1] = 0 /\ o[Len(f) + 1] = Len(Taken(f))
    BY <1>2, <2>1
  <2>3. \A i \in 1 .. Len(f) : o[i + 1] = o[i] + Len(f[i].takes)
    BY <1>2, <2>1, Zenon
  <2>4. \A i \in 1 .. Len(f) : \A j \in 1 .. Len(f[i].takes) :
           o[i] + j \in 1 .. Len(Taken(f)) /\ Taken(f)[o[i] + j] = f[i].takes[j]
    <3> TAKE i \in 1 .. Len(f)
    <3>1. s[i] = f[i].takes /\ i \in 1 .. Len(s)
      BY <1>2
    <3>2. \A j \in 1 .. Len(s[i]) :
             o[i] + j \in 1 .. Len(Taken(f)) /\ Taken(f)[o[i] + j] = s[i][j]
      BY <2>1, <3>1, Zenon
    <3>. QED
      BY <3>1, <3>2
  <2>5. TakenPlaces(f, o)
    BY <2>2, <2>3, <2>4, Zenon DEF TakenPlaces
  <2>. QED
    BY <2>5
<1>6. TakenPlaces(f, TakenBefore(f))
  BY <1>5, Zenon DEF TakenBefore
<1>. QED
  BY <1>4, <1>6, LenProperties

(* The word behind the arguments before the k-th, without the padding that *)
(* the k-th may need.                                                      *)
After(f, s, k) ==
    IF k = 1 THEN s ELSE Layout(f, s)[k - 1] + SizeOf(Taken(f)[k - 1])

Placed(f, s, k) ==
    IF k <= Len(Taken(f)) /\ Wide(Taken(f)[k]) THEN Aligned(After(f, s, k))
    ELSE After(f, s, k)

(* The compiler's layout is defined place by place from the one before.    *)
LEMMA LayoutIs ==
  ASSUME NEW f \in Seq(Directive), NEW s \in Nat
  PROVE  /\ Layout(f, s) \in [1 .. Len(Taken(f)) + 1 -> Nat]
         /\ \A k \in 1 .. Len(Taken(f)) + 1 : Layout(f, s)[k] = Placed(f, s, k)
<1> DEFINE n == Len(Taken(f))
           t == Taken(f)
           Put(k, p) == IF k <= n /\ Wide(t[k]) THEN Aligned(p) ELSE p
           From(k, q) == IF k = 1 THEN s ELSE q + SizeOf(t[k - 1])
           adv == [x \in (1 .. n + 1) \X Nat |-> Put(x[1], From(x[1], x[2]))]
           Is(h) == h = [k \in 1 .. n + 1 |-> Put(k, From(k, h[k - 1]))]
           place == CHOOSE h : Is(h)
<1>1. n \in Nat /\ n + 1 \in Nat
  BY TakenAre
<1>2. \A k, p \in Nat : Put(k, p) \in Nat /\ From(k, p) \in Nat
  BY AlignedIs DEF SizeOf
<1>3. Layout(f, s) = place
  BY DEF Layout
<1>4. adv \in [(1 .. n + 1) \X Nat -> Nat]
  <2> HIDE DEF n, Put, From
  <2>1. \A k \in 1 .. n + 1 : k \in Nat
    BY <1>1
  <2>. QED
    BY <1>2, <2>1
<1>5. \A k \in 1 .. n + 1 : \A q \in Nat : adv[<<k, q>>] = Put(k, From(k, q))
  <2> HIDE DEF n, Put, From
  <2>. QED
    OBVIOUS
<1> HIDE DEF n, Put, From, adv
<1>6. PICK g : Stepwise(g, n + 1, Nat, s, adv)
  BY <1>1, <1>4, RecursionExists, Zenon
<1>7. /\ g \in [0 .. n + 1 -> Nat] /\ g[0] = s
      /\ \A k \in 1 .. n + 1 : g[k] = adv[<<k, g[k - 1]>>]
  BY <1>6 DEF Stepwise
<1> DEFINE h == [k \in 1 .. n + 1 |-> g[k]]
<1>8. Is(h)
  <2>1. ASSUME NEW k \in 1 .. n + 1 PROVE g[k] = Put(k, From(k, h[k - 1]))
    <3>1. k - 1 \in 0 .. n + 1
      BY <1>1
    <3>2. g[k - 1] \in Nat
      BY <3>1, <1>7
    <3>3. g[k] = Put(k, From(k, g[k - 1]))
      BY <3>2, <1>5, <1>7
    <3>4. From(k, g[k - 1]) = From(k, h[k - 1])
      <4>1. CASE k = 1
        BY <4>1 DEF From
      <4>2. CASE k # 1
        <5>1. k - 1 \in 1 .. n + 1
          BY <1>1, <4>2
        <5>2. h[k - 1] = g[k - 1]
          BY <5>1
        <5> HIDE DEF h
        <5>. QED
          BY <5>2
      <4>. QED
        BY <4>1, <4>2
    <3> HIDE DEF h
    <3>. QED
      BY <3>3, <3>4
  <2>. QED
    BY <2>1
<1>9. Is(place)
  <2> HIDE DEF Is, h
  <2>. QED
    BY <1>8
<1> HIDE DEF place, h
<1>10. \A k \in 1 .. n + 1 : place[k] = Put(k, From(k, place[k - 1]))
  BY <1>9
<1>11. place = [k \in 1 .. n + 1 |-> place[k]]
  BY <1>9
<1> HIDE DEF Is
<1> DEFINE R == {k \in 0 .. n + 1 : k # 0 => place[k] \in Nat}
<1>12. ASSUME NEW k \in 0 .. n, k \in R PROVE k + 1 \in R
  <2>1. k + 1 \in 1 .. n + 1 /\ k + 1 \in Nat /\ (k + 1) - 1 = k /\ k + 1 \in 0 .. n + 1
    BY <1>1
  <2>2. place[k + 1] = Put(k + 1, From(k + 1, place[k]))
    BY <2>1, <1>10
  <2>3. From(k + 1, place[k]) \in Nat
    <3>1. CASE k = 0
      BY <3>1 DEF From
    <3>2. CASE k # 0
      <4>1. place[k] \in Nat
        BY <3>2, <1>12
      <4>. QED
        BY <4>1, <2>1, <1>2
    <3>. QED
      BY <3>1, <3>2
  <2>. QED
    BY <2>1, <2>2, <2>3, <1>2
<1>13. \A k \in 0 .. n + 1 : k \in R
  <2>1. 0 \in R
    BY <1>1
  <2>2. (n + 1) - 1 = n
    BY <1>1
  <2> HIDE DEF R
  <2>. QED
    BY <1>1, <1>12, <2>1, <2>2, InductionTo
<1>14. \A k \in 1 .. n + 1 : place[k] \in Nat
  <2>1. \A k \in 1 .. n + 1 : k \in 0 .. n + 1 /\ k # 0
    BY <1>1
  <2>. QED
    BY <1>13, <2>1
<1>15. \A k \in 1 .. n + 1 : place[k] = Placed(f, s, k)
  <2> TAKE k \in 1 .. n + 1
  <2>1. From(k, place[k - 1]) = After(f, s, k)
    BY <1>3 DEF From, After
  <2>. QED
    BY <2>1, <1>10 DEF Put, Placed, n
<1>. QED
  BY <1>3, <1>11, <1>14, <1>15 DEF n

(* Words are handed out in order, each argument behind the one before.     *)
LEMMA LayoutGrows ==
  ASSUME NEW f \in Seq(Directive), NEW s \in Nat
  PROVE  /\ BlockEnd(f, s) = After(f, s, Len(Taken(f)) + 1)
         /\ \A k \in 1 .. Len(Taken(f)) + 1 : After(f, s, k) \in Nat /\ s <= After(f, s, k)
         /\ \A k \in 1 .. Len(Taken(f)) :
               /\ After(f, s, k) <= Layout(f, s)[k] /\ Layout(f, s)[k] \in Nat
               /\ After(f, s, k + 1) = Layout(f, s)[k] + SizeOf(Taken(f)[k])
         /\ \A j, k \in 1 .. Len(Taken(f)) + 1 : j <= k => After(f, s, j) <= After(f, s, k)
         /\ \A j, k \in 1 .. Len(Taken(f)) : j < k => Layout(f, s)[j] < Layout(f, s)[k]
<1> DEFINE n == Len(Taken(f))
           A(k) == After(f, s, k)
           L(k) == Layout(f, s)[k]
           w(k) == SizeOf(Taken(f)[k])
<1>1. n \in Nat
  BY TakenAre
<1>2. \A k : w(k) \in {1, 2}
  BY DEF SizeOf
<1>3. \A k \in 1 .. n + 1 : L(k) \in Nat /\ L(k) = Placed(f, s, k)
  BY LayoutIs
<1>4. A(1) = s /\ \A k \in 1 .. n : A(k + 1) = L(k) + w(k)
  <2>1. \A k \in 1 .. n : k + 1 # 1 /\ (k + 1) - 1 = k
    BY <1>1
  <2>. QED
    BY <2>1 DEF After
<1>5. ASSUME NEW k \in 1 .. n + 1 PROVE A(k) \in Nat
  <2> HIDE DEF A, L, w, n
  <2>1. \/ k = 1
        \/ k - 1 \in 1 .. n /\ (k - 1) + 1 = k /\ k - 1 \in 1 .. n + 1
    BY <1>1
  <2>2. CASE k - 1 \in 1 .. n /\ (k - 1) + 1 = k /\ k - 1 \in 1 .. n + 1
    <3>1. A((k - 1) + 1) = L(k - 1) + w(k - 1) /\ L(k - 1) \in Nat /\ w(k - 1) \in {1, 2}
      BY <2>2, <1>2, <1>3, <1>4
    <3>. QED
      BY <2>2, <3>1
  <2>. QED
    BY <2>1, <2>2, <1>4
<1>6. ASSUME NEW k \in 1 .. n + 1 PROVE A(k) <= L(k)
  <2>1. L(k) = Aligned(A(k)) \/ L(k) = A(k)
    BY <1>3 DEF Placed
  <2> HIDE DEF A, L, n
  <2>2. A(k) \in Nat
    BY <1>5
  <2>3. A(k) <= A(k) /\ A(k) <= Aligned(A(k))
    BY <2>2, AlignedIs
  <2>. QED
    BY <2>1, <2>3
<1> HIDE DEF A, L, w, n
<1>7. \A k \in 1 .. n : A(k) <= A(k + 1) /\ k \in 1 .. n + 1 /\ k + 1 \in 1 .. n + 1
  <2> TAKE k \in 1 .. n
  <2>1. k \in 1 .. n + 1 /\ k + 1 \in 1 .. n + 1
    BY <1>1
  <2>2. A(k) \in Nat /\ L(k) \in Nat /\ w(k) \in {1, 2} /\ A(k) <= L(k) /\ A(k + 1) = L(k) + w(k)
    BY <2>1, <1>2, <1>3, <1>4, <1>5, <1>6
  <2>. QED
    BY <2>1, <2>2
<1>8. ASSUME NEW j \in 1 .. n + 1
      PROVE  \A k \in 1 .. n + 1 : j <= k => A(j) <= A(k)
  <2> DEFINE R == {k \in 0 .. n : j <= k + 1 => A(j) <= A(k + 1)}
  <2>1. 0 \in R
    <3>1. j <= 0 + 1 => j = 0 + 1
      BY <1>1
    <3>2. A(j) <= A(j)
      BY <1>5
    <3>. QED
      BY <1>1, <3>1, <3>2
  <2>2. ASSUME NEW k \in 0 .. n - 1, k \in R PROVE k + 1 \in R
    <3>0. /\ k + 1 \in 1 .. n /\ k + 1 \in 1 .. n + 1 /\ (k + 1) + 1 \in 1 .. n + 1
          /\ k + 1 \in 0 .. n
      BY <1>1
    <3>1. CASE j <= k + 1
      <4>1. A(j) <= A(k + 1) /\ A(k + 1) <= A((k + 1) + 1)
        BY <3>0, <3>1, <2>2, <1>7
      <4>2. A(j) \in Nat /\ A(k + 1) \in Nat /\ A((k + 1) + 1) \in Nat
        BY <3>0, <1>5
      <4>3. A(j) <= A((k + 1) + 1)
        BY <4>1, <4>2
      <4>. QED
        BY <3>0, <4>3
    <3>2. CASE ~ (j <= k + 1)
      <4>1. j <= (k + 1) + 1 => j = (k + 1) + 1
        BY <3>2, <1>1
      <4>2. A(j) <= A(j)
        BY <1>5
      <4>. QED
        BY <3>0, <4>1, <4>2
    <3>. QED
      BY <3>1, <3>2
  <2>3. \A k \in 0 .. n : k \in R
    <3> HIDE DEF R
    <3>. QED
      BY <1>1, <2>1, <2>2, InductionTo
  <2>4. ASSUME NEW k \in 1 .. n + 1, j <= k PROVE A(j) <= A(k)
    <3>1. k - 1 \in 0 .. n /\ (k - 1) + 1 = k
      BY <1>1
    <3>2. j <= (k - 1) + 1 => A(j) <= A((k - 1) + 1)
      BY <3>1, <2>3
    <3>. QED
      BY <3>1, <3>2, <2>4
  <2>. QED
    BY <2>4
<1>9. \A k \in 1 .. n + 1 : s <= A(k)
  <2>1. 1 \in 1 .. n + 1 /\ \A k \in 1 .. n + 1 : 1 <= k
    BY <1>1
  <2>. QED
    BY <2>1, <1>4, <1>8
<1>10. ASSUME NEW j \in 1 .. n, NEW k \in 1 .. n, j < k PROVE L(j) < L(k)
  <2>1. j + 1 \in 1 .. n + 1 /\ k \in 1 .. n + 1 /\ j \in 1 .. n + 1 /\ j + 1 <= k
    BY <1>1, <1>10
  <2>2. A(j + 1) <= A(k) /\ A(k) <= L(k) /\ A(j + 1) = L(j) + w(j)
    BY <2>1, <1>4, <1>6, <1>8
  <2>3. A(k) \in Nat /\ L(k) \in Nat /\ L(j) \in Nat /\ w(j) \in {1, 2}
    BY <2>1, <1>2, <1>3, <1>5
  <2>. QED
    BY <2>2, <2>3
<1>11. n + 1 \in 1 .. n + 1 /\ \A k \in 1 .. n : k \in 1 .. n + 1
  BY <1>1
<1>12. BlockEnd(f, s) = A(n + 1)
  <2>1. L(n + 1) = A(n + 1)
    <3>1. ~ (n + 1 <= n)
      BY <1>1
    <3>2. L(n + 1) = Placed(f, s, n + 1)
      BY <1>3, <1>11
    <3>. QED
      BY <3>1, <3>2 DEF Placed, A, n
  <2>. QED
    BY <2>1 DEF BlockEnd, L, n
<1>13. \A k \in 1 .. n + 1 : A(k) \in Nat /\ s <= A(k)
  BY <1>5, <1>9
<1>14. \A k \in 1 .. n : A(k) <= L(k) /\ L(k) \in Nat /\ A(k + 1) = L(k) + w(k)
  BY <1>3, <1>4, <1>6, <1>11
<1>. QED
  BY <1>8, <1>10, <1>12, <1>13, <1>14 DEF n, A, L, w

(***************************************************************************)
(* The walk of a format, a character at a time.                            *)
(***************************************************************************)

(* After j characters of a directive a walk is inside a conversion, unless *)
(* a star has ended it.                                                    *)
InConversion(d, j) == j > 0 /\ d.chars[1] = "%" /\ \A m \in 2 .. j : d.chars[m] # "*"

LongAfter(d, j) ==
    CASE d.chars[j] = "z" -> 1
      [] d.chars[j] = "j" -> 2
      [] d.chars[j] = "l" -> IF d.chars[j - 1] = "l" THEN 2 ELSE 1
      [] OTHER -> 0

TypeRead(c, long) ==
    CASE c = "d" -> IF long < 2 THEN "int" ELSE "long long"
      [] c = "f" -> "double"
      [] OTHER -> "string"

(* One character more, inside a conversion and outside.                    *)
LEMMA InsideNext ==
  ASSUME NEW d \in Directive, NEW j \in 1 .. Len(d.chars) - 1, InConversion(d, j)
  PROVE  LET c == d.chars[j + 1]  n == Len(d.chars)
         IN  \/ /\ c \in Modifier /\ j + 1 < n /\ InConversion(d, j + 1)
                /\ Length(c, LongAfter(d, j)) = LongAfter(d, j + 1)
             \/ c = "*" /\ j + 1 < n /\ ~ InConversion(d, j + 1)
             \/ c = "%" /\ j + 1 = n /\ Len(d.takes) = 0
             \/ c = "n" /\ j + 1 = n
             \/ /\ c \in {"d", "f", "s"} /\ j + 1 = n
                /\ Len(d.takes) = 1 /\ d.takes[1] = TypeRead(c, LongAfter(d, j))
<1> DEFINE n == Len(d.chars)
           c == d.chars[j + 1]
<1>1. n \in Nat /\ n > 1 /\ j \in Nat /\ j > 0 /\ j < n
  BY DirectiveFields
<1>2. \/ d.chars = <<"%", "%">> /\ d.takes = <<>>
      \/ IsConversion(d.chars)
  <2>1. \/ d.takes = <<>> /\ n = 1 /\ d.chars[1] # "%"
        \/ d.takes = <<>> /\ d.chars = <<"%", "%">>
        \/ IsConversion(d.chars)
    BY DEF Directive
  <2>2. n # 1
    <3>1. \A x \in Nat : x > 1 => x # 1
      OBVIOUS
    <3>. QED
      BY <1>1, <3>1, Zenon
  <2>. QED
    BY <2>1, <2>2, Zenon
<1>3. CASE d.chars = <<"%", "%">> /\ d.takes = <<>>
  <2>1. n = 2 /\ j = 1 /\ c = "%"
    BY <1>1, <1>3
  <2>. QED
    BY <1>3, <2>1
<1>4. CASE IsConversion(d.chars)
  <2>1. /\ d.chars[1] = "%" /\ d.chars[n] \in {"d", "f", "s", "n"}
        /\ \A i \in 2 .. n - 1 :
              /\ d.chars[i] \in Modifier \cup {"*"}
              /\ d.chars[i] \in {"h", "l", "z", "j"} =>
                    \/ i = n - 1
                    \/ i = n - 2 /\ d.chars[i] \in {"h", "l"} /\ d.chars[n - 1] = d.chars[i]
    BY <1>4, Zenon DEF IsConversion, n
  <2>2. \A m \in 2 .. j : d.chars[m] # "*"
    BY DEF InConversion
  <2> HIDE DEF n
  <2>3. CASE j + 1 < n
    <3>1. j + 1 \in 2 .. n - 1
      BY <1>1, <2>3
    <3>2. c \in Modifier \cup {"*"}
      BY <2>1, <3>1
    <3>3. CASE c = "*"
      <4>1. j + 1 \in 2 .. j + 1
        BY <1>1
      <4>2. ~ InConversion(d, j + 1)
        BY <3>3, <4>1 DEF InConversion
      <4>. QED
        BY <2>3, <3>3, <4>2 DEF n
    <3>4. CASE c \in Modifier
      <4>1. c # "*"
        BY <3>4 DEF Modifier
      <4>2. InConversion(d, j + 1)
        <5>1. \A m \in 2 .. j + 1 : m \in 2 .. j \/ m = j + 1
          BY <1>1
        <5>2. j + 1 > 0
          BY <1>1
        <5>. QED
          BY <2>1, <2>2, <4>1, <5>1, <5>2 DEF InConversion
      <4>3. (j + 1) - 1 = j
        BY <1>1
      <4>4. d.chars[j] \in {"z", "j"} => FALSE
        <5>1. CASE j = 1
          BY <2>1, <5>1
        <5>2. CASE j # 1
          <6>1. j \in 2 .. n - 1 /\ j # n - 1
            BY <1>1, <2>3, <5>2
          <6>. QED
            BY <2>1, <6>1
        <5>. QED
          BY <5>1, <5>2
      <4>5. d.chars[j] = "l" => c = "l" /\ d.chars[j - 1] # "l"
        <5>1. CASE j = 1
          BY <2>1, <5>1
        <5>2. CASE j # 1
          <6>1. j \in 2 .. n - 1 /\ j # n - 1
            BY <1>1, <2>3, <5>2
          <6>2. ASSUME d.chars[j] = "l" PROVE j = n - 2 /\ c = "l"
            <7>1. j = n - 2 /\ d.chars[n - 1] = "l"
              BY <2>1, <6>1, <6>2
            <7>2. j + 1 = n - 1
              BY <1>1, <7>1
            <7>. QED
              BY <7>1, <7>2
          <6>3. ASSUME d.chars[j] = "l" PROVE d.chars[j - 1] # "l"
            <7>1. CASE j = 2
              BY <2>1, <7>1
            <7>2. CASE j # 2
              <8>1. j - 1 \in 2 .. n - 1 /\ j - 1 # n - 1 /\ j - 1 # n - 2
                BY <1>1, <5>2, <7>2, <6>2, <6>3
              <8>. QED
                BY <2>1, <8>1
            <7>. QED
              BY <7>1, <7>2
          <6>. QED
            BY <6>2, <6>3
        <5>. QED
          BY <5>1, <5>2
      <4>6. LongAfter(d, j) = IF d.chars[j] = "l" THEN 1 ELSE 0
        BY <4>4, <4>5 DEF LongAfter
      <4>7. Length(c, LongAfter(d, j)) = LongAfter(d, j + 1)
        <5>1. LongAfter(d, j + 1) =
                 CASE c = "z" -> 1
                   [] c = "j" -> 2
                   [] c = "l" -> IF d.chars[j] = "l" THEN 2 ELSE 1
                   [] OTHER -> 0
          BY <4>3 DEF LongAfter
        <5> HIDE DEF c
        <5>2. CASE c = "z"
          BY <5>1, <5>2 DEF Length
        <5>3. CASE c = "j"
          BY <5>1, <5>3 DEF Length
        <5>4. CASE c = "l"
          BY <5>1, <5>4, <4>6 DEF Length
        <5>5. CASE c \notin {"z", "j", "l"}
          BY <5>1, <5>5, <4>5, <4>6 DEF Length
        <5>. QED
          BY <5>2, <5>3, <5>4, <5>5
      <4>. QED
        BY <2>3, <3>4, <4>2, <4>7 DEF n
    <3>. QED
      BY <3>2, <3>3, <3>4
  <2>4. CASE ~ (j + 1 < n)
    <3>1. j + 1 = n /\ j = n - 1
      BY <1>1, <2>4
    <3>2. c \in {"d", "f", "s", "n"} /\ c = d.chars[n]
      BY <2>1, <3>1
    <3>3. CASE c = "n"
      BY <3>1, <3>3 DEF n
    <3>4. CASE c # "n"
      <4>1. {i \in DOMAIN d.chars : d.chars[i] = "*"} = {}
        <5>1. DOMAIN d.chars = 1 .. n
          BY DirectiveFields, LenProperties DEF n
        <5>2. \A i \in 1 .. n : i = 1 \/ i \in 2 .. j \/ i = n
          BY <1>1, <3>1
        <5>. QED
          BY <5>1, <5>2, <2>1, <2>2
      <4>2. /\ Len(d.takes) = Cardinality({i \in DOMAIN d.chars : d.chars[i] = "*"}) + 1
            /\ \A k \in DOMAIN d.takes :
                  d.takes[k] = IF k < Len(d.takes) THEN "int" ELSE ConvertedType(d.chars)
        <5>1. Len(d.chars) # 1 /\ d.chars # <<"%", "%">>
          <6>1. Len(d.chars) # 1
            <7>1. \A x \in Nat : x > 1 => x # 1
              OBVIOUS
            <7>. QED
              BY <1>1, <7>1, Zenon DEF n
          <6>2. <<"%", "%">>[Len(<<"%", "%">>)] = "%"
            OBVIOUS
          <6>. QED
            BY <2>1, <6>1, <6>2 DEF n
        <5>. QED
          BY <5>1 DEF Directive
      <4>3. Len(d.takes) = 1 /\ d.takes[1] = ConvertedType(d.chars)
        <5>1. Len(d.takes) = 1
          <6>1. Cardinality({i \in DOMAIN d.chars : d.chars[i] = "*"}) = 0
            BY <4>1, FS_EmptySet
          <6>. QED
            BY <4>2, <6>1
        <5>2. 1 \in DOMAIN d.takes /\ ~ (1 < Len(d.takes))
          <6>1. DOMAIN d.takes = 1 .. Len(d.takes)
            BY DirectiveFields, LenProperties
          <6>. QED
            BY <5>1, <6>1
        <5>. QED
          BY <4>2, <5>1, <5>2
      <4>4. LongLong(d.chars) <=> ~ (LongAfter(d, j) < 2)
        <5>1. LongLong(d.chars) <=> (d.chars[j] = "j" \/ (d.chars[j] = "l" /\ d.chars[j - 1] = "l"))
          <6>1. n - 2 = j - 1
            BY <1>1, <3>1
          <6>. QED
            BY <3>1, <6>1 DEF LongLong, n
        <5>2. CASE d.chars[j] = "z"
          BY <5>1, <5>2 DEF LongAfter
        <5>3. CASE d.chars[j] = "j"
          BY <5>1, <5>3 DEF LongAfter
        <5>4. CASE d.chars[j] = "l"
          BY <5>1, <5>4 DEF LongAfter
        <5>5. CASE d.chars[j] \notin {"z", "j", "l"}
          BY <5>1, <5>5 DEF LongAfter
        <5>. QED
          BY <5>2, <5>3, <5>4, <5>5
      <4>5. ConvertedType(d.chars) = TypeRead(c, LongAfter(d, j))
        <5>1. c = d.chars[Len(d.chars)]
          BY <3>2 DEF n
        <5> HIDE DEF c
        <5>2. CASE c = "d"
          BY <5>1, <5>2, <4>4 DEF ConvertedType, TypeRead
        <5>3. CASE c = "f"
          BY <5>1, <5>3 DEF ConvertedType, TypeRead
        <5>4. CASE c = "s"
          BY <5>1, <5>4 DEF ConvertedType, TypeRead
        <5>. QED
          BY <5>2, <5>3, <5>4, <3>2, <3>4
      <4>. QED
        BY <3>1, <3>2, <3>4, <4>3, <4>5 DEF n
    <3>. QED
      BY <3>3, <3>4
  <2>. QED
    BY <2>3, <2>4
<1>. QED
  BY <1>2, <1>3, <1>4

(* Outside a conversion only a percent sign matters.                       *)
LEMMA OutsideNext ==
  ASSUME NEW d \in Directive, NEW j \in 0 .. Len(d.chars) - 1, ~ InConversion(d, j)
  PROVE  LET c == d.chars[j + 1]  n == Len(d.chars)
         IN  \/ j = 0 /\ c = "%" /\ n > 1 /\ InConversion(d, 1) /\ LongAfter(d, 1) = 0
             \/ j + 1 = n /\ c # "%" /\ Len(d.takes) = 0
             \/ /\ c # "%" /\ (j + 1 < n => ~ InConversion(d, j + 1))
                /\ \E m \in 1 .. n : d.chars[m] = "*"
<1> DEFINE n == Len(d.chars)
           c == d.chars[j + 1]
<1>1. n \in Nat /\ n > 0 /\ j \in Nat /\ j < n
  BY DirectiveFields
<1>2. \/ d.takes = <<>> /\ n = 1 /\ d.chars[1] # "%"
      \/ d.takes = <<>> /\ d.chars = <<"%", "%">>
      \/ IsConversion(d.chars)
  BY DEF Directive
<1>3. CASE d.takes = <<>> /\ n = 1 /\ d.chars[1] # "%"
  BY <1>1, <1>3
<1>4. CASE n > 1 /\ d.chars[1] = "%"
  <2> HIDE DEF n
  <2>1. CASE j = 0
    <3>1. InConversion(d, 1)
      BY <1>4 DEF InConversion
    <3>2. LongAfter(d, 1) = 0
      BY <1>4 DEF LongAfter
    <3>3. c = "%"
      BY <1>4, <2>1
    <3>. QED
      BY <1>4, <2>1, <3>1, <3>2, <3>3 DEF n
  <2>2. CASE j # 0
    <3>1. PICK m \in 2 .. j : d.chars[m] = "*"
      BY <1>1, <1>4, <2>2 DEF InConversion
    <3>2. m \in 1 .. n /\ m \in 2 .. n - 1 /\ m \in 2 .. j + 1 /\ j + 1 > 2 /\ j + 1 <= n
      BY <1>1, <3>1
    <3>3. ~ InConversion(d, j + 1)
      BY <3>1, <3>2 DEF InConversion
    <3>4. IsConversion(d.chars)
      <4>1. d.chars # <<"%", "%">>
        <5>1. Len(<<"%", "%">>) = 2
          OBVIOUS
        <5>2. n # 2
          BY <1>1, <3>2
        <5>. QED
          BY <5>1, <5>2 DEF n
      <4>. QED
        BY <1>2, <1>4, <4>1
    <3>5. c # "%"
      <4>1. \A i \in 2 .. n - 1 : d.chars[i] \in Modifier \cup {"*"}
        BY <3>4 DEF IsConversion, n
      <4>2. d.chars[n] \in {"d", "f", "s", "n"}
        BY <3>4 DEF IsConversion, n
      <4>3. j + 1 \in 2 .. n - 1 \/ j + 1 = n
        BY <1>1, <3>2
      <4>. QED
        BY <4>1, <4>2, <4>3 DEF Modifier
    <3>. QED
      BY <3>1, <3>2, <3>3, <3>5 DEF n
  <2>. QED
    BY <2>1, <2>2
<1>5. CASE IsConversion(d.chars)
  <2>1. n > 1 /\ d.chars[1] = "%"
    BY <1>5 DEF IsConversion
  <2>. QED
    BY <2>1, <1>4
<1>6. CASE d.chars = <<"%", "%">>
  <2>1. n > 1 /\ d.chars[1] = "%"
    BY <1>6
  <2>. QED
    BY <2>1, <1>4
<1>. QED
  BY <1>2, <1>3, <1>5, <1>6

(* A place in a format: after j characters of directive i, not at its end. *)
Spot(f, i, j) ==
    /\ i \in 1 .. Len(f) + 1 /\ j \in Nat
    /\ IF i <= Len(f) THEN j < Len(f[i].chars) ELSE j = 0

(* What either walk knows there.                                           *)
Knows(f, i, j, might, long) ==
    /\ might \in BOOLEAN
    /\ might <=> (i <= Len(f) /\ InConversion(f[i], j))
    /\ might => long = LongAfter(f[i], j)

(* The next character and the place behind it: what each kind of character *)
(* says of the arguments.                                                  *)
Advances(f, i, i2) ==
    /\ TakenBefore(f)[i] <= TakenBefore(f)[i2]
    /\ Understood(f) => TakenBefore(f)[i2] = TakenBefore(f)[i]

NextChar(f, i, j, might, long, c, i2, j2) ==
    \/ ~ might /\ c = "%" /\ i2 = i /\ Knows(f, i2, j2, TRUE, 0)
    \/ ~ might /\ c # "%" /\ Knows(f, i2, j2, FALSE, long) /\ Advances(f, i, i2)
    \/ might /\ c \in Modifier /\ i2 = i /\ Knows(f, i2, j2, TRUE, Length(c, long))
    \/ might /\ c \in {"*", "%", "n"} /\ Knows(f, i2, j2, FALSE, long) /\ Advances(f, i, i2)
    \/ /\ might /\ c \in {"d", "f", "s"} /\ Knows(f, i2, j2, FALSE, long)
       /\ TakenBefore(f)[i] + 1 \in 1 .. Len(Taken(f))
       /\ TakenBefore(f)[i2] = TakenBefore(f)[i] + 1
       /\ Taken(f)[TakenBefore(f)[i] + 1] = TypeRead(c, long)

(* Whatever the format, the next character is one of five kinds, and where *)
(* the walk stands says which argument a conversion reads.                 *)
LEMMA CharByChar ==
  ASSUME NEW f \in Seq(Directive), NEW i, NEW j, Spot(f, i, j),
         NEW might, NEW long, Knows(f, i, j, might, long),
         NEW c \in Nat, c = CharsBefore(f)[i] + j, c < Len(Chars(f))
  PROVE  \E i2, j2 : /\ Spot(f, i2, j2) /\ c + 1 = CharsBefore(f)[i2] + j2
                     /\ NextChar(f, i, j, might, long, Chars(f)[c + 1], i2, j2)
<1> DEFINE d == f[i]
           n == Len(f[i].chars)
           ch == Chars(f)[c + 1]
           cb == CharsBefore(f)
           tb == TakenBefore(f)
           l == Len(f)
<1>1. l \in Nat /\ \A k \in 1 .. l : f[k] \in Directive
  BY LenProperties, ElementOfSeq
<1>2. CharPlaces(f, cb) /\ TakenPlaces(f, tb) /\ Len(Chars(f)) \in Nat /\ Len(Taken(f)) \in Nat
  BY CharsAre, TakenAre
<1>3. /\ cb[l + 1] = Len(Chars(f)) /\ tb[l + 1] = Len(Taken(f))
      /\ \A k \in 1 .. l : cb[k + 1] = cb[k] + Len(f[k].chars)
      /\ \A k \in 1 .. l : tb[k + 1] = tb[k] + Len(f[k].takes)
      /\ \A k \in 1 .. l + 1 : cb[k] \in Nat /\ tb[k] \in Nat
  BY <1>2 DEF CharPlaces, TakenPlaces
<1>4. /\ \A k \in 1 .. l : \A m \in 1 .. Len(f[k].chars) :
            cb[k] + m \in 1 .. Len(Chars(f)) /\ Chars(f)[cb[k] + m] = f[k].chars[m]
      /\ \A k \in 1 .. l : \A m \in 1 .. Len(f[k].takes) :
            tb[k] + m \in 1 .. Len(Taken(f)) /\ Taken(f)[tb[k] + m] = f[k].takes[m]
  BY <1>2 DEF CharPlaces, TakenPlaces
<1>5. i \in 1 .. l + 1 /\ j \in Nat
  BY DEF Spot
<1>6. i \in 1 .. l
  <2>1. CASE ~ (i <= l)
    <3>1. i = l + 1 /\ j = 0
      BY <1>1, <1>5, <2>1 DEF Spot
    <3>2. c = Len(Chars(f)) + 0
      BY <3>1, <1>3
    <3>. QED
      BY <3>2, <1>2
  <2>. QED
    BY <2>1, <1>1, <1>5
<1>7. i <= l /\ i + 1 \in 1 .. l + 1 /\ (i + 1 <= l => i + 1 \in 1 .. l)
  BY <1>1, <1>6
<1>8. d \in Directive /\ n \in Nat \ {0} /\ Len(d.takes) \in Nat /\ j < n
  BY <1>1, <1>6, <1>7, DirectiveFields DEF Spot
<1>9. j + 1 \in 1 .. n /\ j \in 0 .. n - 1 /\ (j # 0 => j \in 1 .. n - 1)
  BY <1>5, <1>8
<1>10. ch = d.chars[j + 1]
  <2>1. c + 1 = cb[i] + (j + 1)
    <3>1. cb[i] \in Nat /\ c = cb[i] + j
      BY <1>3, <1>5
    <3> HIDE DEF cb
    <3>. QED
      BY <3>1, <1>5
  <2>. QED
    BY <1>4, <1>6, <1>9, <2>1
<1> HIDE DEF ch, cb, tb, l, n, d
<1>11. CASE j + 1 < n
  <2>1. Spot(f, i, j + 1) /\ c + 1 = cb[i] + (j + 1)
    <3>1. c + 1 = cb[i] + (j + 1)
      <4>1. cb[i] \in Nat /\ c = cb[i] + j
        BY <1>3, <1>5 DEF cb
      <4>. QED
        BY <4>1, <1>5
    <3>2. j + 1 \in Nat
      BY <1>5
    <3>. QED
      BY <1>5, <1>7, <1>11, <3>1, <3>2 DEF Spot, n, l
  <2>2. Advances(f, i, i)
    BY <1>3, <1>5 DEF Advances, tb
  <2>3. CASE might
    <3>1. InConversion(d, j) /\ long = LongAfter(d, j)
      BY <2>3 DEF Knows, d
    <3>2. j \in 1 .. n - 1
      BY <1>9, <3>1 DEF InConversion
    <3>3. \/ /\ ch \in Modifier /\ InConversion(d, j + 1)
             /\ Length(ch, LongAfter(d, j)) = LongAfter(d, j + 1)
          \/ ch = "*" /\ ~ InConversion(d, j + 1)
      <4>1. j + 1 # n
        BY <1>5, <1>8, <1>11
      <4>. QED
        BY <1>8, <1>10, <3>1, <3>2, <4>1, InsideNext DEF n, d
    <3>4. CASE ch \in Modifier /\ InConversion(d, j + 1) /\ Length(ch, LongAfter(d, j)) = LongAfter(d, j + 1)
      <4>1. Knows(f, i, j + 1, TRUE, Length(ch, long))
        BY <3>1, <3>4, <1>7 DEF Knows, d, l
      <4>. QED
        BY <2>1, <2>3, <3>4, <4>1 DEF NextChar, ch, cb
    <3>5. CASE ch = "*" /\ ~ InConversion(d, j + 1)
      <4>1. Knows(f, i, j + 1, FALSE, long)
        BY <3>5 DEF Knows, d
      <4>. QED
        BY <2>1, <2>2, <2>3, <3>5, <4>1 DEF NextChar, ch, cb
    <3>. QED
      BY <3>3, <3>4, <3>5
  <2>4. CASE ~ might
    <3>1. ~ InConversion(d, j)
      BY <2>4, <1>7 DEF Knows, d, l
    <3>2. \/ j = 0 /\ ch = "%" /\ InConversion(d, 1) /\ LongAfter(d, 1) = 0
          \/ ch # "%" /\ ~ InConversion(d, j + 1)
      <4>1. j + 1 # n
        BY <1>5, <1>8, <1>11
      <4>. QED
        BY <1>8, <1>9, <1>10, <1>11, <3>1, <4>1, OutsideNext DEF n, d
    <3>3. CASE j = 0 /\ ch = "%" /\ InConversion(d, 1) /\ LongAfter(d, 1) = 0
      <4>1. Knows(f, i, j + 1, TRUE, 0)
        <5>1. j + 1 = 1
          BY <3>3
        <5>. QED
          BY <3>3, <5>1, <1>7 DEF Knows, d, l
      <4>. QED
        BY <2>1, <2>4, <3>3, <4>1 DEF NextChar, ch, cb
    <3>4. CASE ch # "%" /\ ~ InConversion(d, j + 1)
      <4>1. Knows(f, i, j + 1, FALSE, long)
        BY <3>4 DEF Knows, d
      <4>. QED
        BY <2>1, <2>2, <2>4, <3>4, <4>1 DEF NextChar, ch, cb
    <3>. QED
      BY <3>2, <3>3, <3>4
  <2>. QED
    BY <2>3, <2>4 DEF Knows
<1>12. CASE ~ (j + 1 < n)
  <2>0. j + 1 = n
    BY <1>5, <1>8, <1>12
  <2>1. Spot(f, i + 1, 0) /\ c + 1 = cb[i + 1] + 0
    <3>1. cb[i + 1] = cb[i] + n
      BY <1>3, <1>6 DEF n
    <3>2. c + 1 = cb[i + 1] + 0
      <4>1. cb[i] \in Nat /\ c = cb[i] + j
        BY <1>3, <1>5 DEF cb
      <4>2. j \in Nat /\ n \in Nat
        BY <1>5, <1>8
      <4>. QED
        BY <2>0, <3>1, <4>1, <4>2
    <3>3. i + 1 <= l => 0 < Len(f[i + 1].chars)
      BY <1>1, <1>7, DirectiveFields
    <3>. QED
      BY <1>7, <3>2, <3>3 DEF Spot, l
  <2>2. Knows(f, i + 1, 0, FALSE, long)
    BY DEF Knows, InConversion
  <2>3. tb[i + 1] = tb[i] + Len(d.takes) /\ tb[i] \in Nat
    BY <1>3, <1>5, <1>6 DEF d
  <2>4. Len(d.takes) = 0 => Advances(f, i, i + 1)
    BY <2>3 DEF Advances, tb
  <2>5. (\E m \in 1 .. n : d.chars[m] \in {"*", "n"}) => Advances(f, i, i + 1)
    <3>1. tb[i] <= tb[i + 1]
      BY <1>8, <2>3
    <3>2. ASSUME NEW m \in 1 .. n, d.chars[m] \in {"*", "n"} PROVE ~ Understood(f)
      <4>1. cb[i] + m \in 1 .. Len(Chars(f)) /\ Chars(f)[cb[i] + m] = d.chars[m]
        BY <1>4, <1>6 DEF n, d
      <4>2. DOMAIN Chars(f) = 1 .. Len(Chars(f))
        BY CharsAre, LenProperties
      <4>. QED
        BY <3>2, <4>1, <4>2 DEF Understood
    <3>. QED
      BY <3>1, <3>2 DEF Advances, tb
  <2>6. CASE might
    <3>1. InConversion(d, j) /\ long = LongAfter(d, j)
      BY <2>6 DEF Knows, d
    <3>2. j \in 1 .. n - 1
      BY <1>9, <3>1 DEF InConversion
    <3>3. \/ ch = "%" /\ Len(d.takes) = 0
          \/ ch = "n"
          \/ /\ ch \in {"d", "f", "s"}
             /\ Len(d.takes) = 1 /\ d.takes[1] = TypeRead(ch, LongAfter(d, j))
      BY <1>8, <1>10, <1>12, <3>1, <3>2, InsideNext DEF n, d
    <3>4. CASE ch = "%" /\ Len(d.takes) = 0
      BY <2>1, <2>2, <2>4, <2>6, <3>4 DEF NextChar, ch, cb
    <3>5. CASE ch = "n"
      <4>1. Advances(f, i, i + 1)
        BY <1>9, <1>10, <2>5, <3>5
      <4>. QED
        BY <2>1, <2>2, <2>6, <3>5, <4>1 DEF NextChar, ch, cb
    <3>6. CASE /\ ch \in {"d", "f", "s"}
               /\ Len(d.takes) = 1 /\ d.takes[1] = TypeRead(ch, LongAfter(d, j))
      <4>1. tb[i] + 1 \in 1 .. Len(Taken(f)) /\ Taken(f)[tb[i] + 1] = TypeRead(ch, long)
        BY <1>4, <1>6, <3>1, <3>6 DEF d
      <4>. QED
        BY <2>1, <2>2, <2>3, <2>6, <3>6, <4>1 DEF NextChar, ch, cb, tb
    <3>. QED
      BY <3>3, <3>4, <3>5, <3>6
  <2>7. CASE ~ might
    <3>1. ~ InConversion(d, j)
      BY <2>7, <1>7 DEF Knows, d, l
    <3>2. \/ ch # "%" /\ Len(d.takes) = 0
          \/ ch # "%" /\ \E m \in 1 .. n : d.chars[m] = "*"
      <4>1. ~ (j = 0 /\ n > 1)
        BY <2>0
      <4>. QED
        BY <1>8, <1>9, <1>10, <3>1, <4>1, OutsideNext DEF n, d
    <3>3. ch # "%" /\ Advances(f, i, i + 1)
      BY <2>4, <2>5, <3>2
    <3>. QED
      BY <2>1, <2>2, <2>7, <3>3 DEF NextChar, ch, cb
  <2>. QED
    BY <2>6, <2>7 DEF Knows
<1>. QED
  BY <1>11, <1>12

(***************************************************************************)
(* _vprintf_wa: which arguments have been read.                            *)
(***************************************************************************)

InputInv == format \in Formats /\ start \in {0, 1}

(* The reads so far are the places of the first m arguments.               *)
ReadsFirst(m) == reads = SubSeq(Layout(format, start), 1, m)

AtSpot(i, j) ==
    /\ Spot(format, i, j) /\ at = CharsBefore(format)[i] + j + 1
    /\ Knows(format, i, j, might_format, long_ctr)
    /\ ap <= After(format, start, TakenBefore(format)[i] + 1)
    /\ Understood(format) /\ ~ starved =>
          /\ ap = After(format, start, TakenBefore(format)[i] + 1)
          /\ ReadsFirst(TakenBefore(format)[i])

(* The walk is at a place of its format and has read at most the arguments *)
(* before it, all of them when it reads the format as C does and no        *)
(* conversion has been left out.                                           *)
WalkInv ==
    /\ at \in 1 .. Len(Chars(format)) + 1
    /\ long_ctr \in Nat
    /\ ap \in Nat /\ start <= ap /\ ap <= BlockEnd(format, start)
    /\ Understood(format) /\ ~ starved => \E m \in 0 .. Len(Taken(format)) : ReadsFirst(m)
    /\ pc \in {"called", "formatting"} => \E i, j : AtSpot(i, j)

(* The format is built of C's directives.                                  *)
LEMMA InputIs ==
  ASSUME InputInv
  PROVE  format \in Seq(Directive) /\ start \in Nat
BY FormatAssumption DEF InputInv

(* The places up to an argument, and of the next.                          *)
LEMMA NextRead ==
  ASSUME NEW L \in Seq(Nat), NEW k \in Nat, k < Len(L)
  PROVE  Append(SubSeq(L, 1, k), L[k + 1]) = SubSeq(L, 1, k + 1)
<1>1. /\ SubSeq(L, 1, k) \in Seq(Nat) /\ Len(SubSeq(L, 1, k)) = k
      /\ \A m \in 1 .. k : SubSeq(L, 1, k)[m] = L[m]
  OBVIOUS
<1>2. /\ SubSeq(L, 1, k + 1) \in Seq(Nat) /\ Len(SubSeq(L, 1, k + 1)) = k + 1
      /\ \A m \in 1 .. k + 1 : SubSeq(L, 1, k + 1)[m] = L[m]
  OBVIOUS
<1>3. L[k + 1] \in Nat
  BY ElementOfSeq, k + 1 \in 1 .. Len(L)
<1> DEFINE a == SubSeq(L, 1, k)
           b == SubSeq(L, 1, k + 1)
           e == L[k + 1]
<1>4. a \in Seq(Nat) /\ Len(a) = k /\ e \in Nat /\ b \in Seq(Nat) /\ Len(b) = k + 1
  BY <1>1, <1>2, <1>3
<1>5. \A m \in 1 .. k + 1 : b[m] = IF m = k + 1 THEN e ELSE a[m]
  BY <1>1, <1>2
<1> HIDE DEF a, b, e
<1>6. /\ Append(a, e) \in Seq(Nat) /\ Len(Append(a, e)) = k + 1
      /\ \A m \in 1 .. k : Append(a, e)[m] = a[m]
      /\ Append(a, e)[k + 1] = e
  BY <1>4, AppendProperties
<1>7. \A m \in 1 .. k + 1 : Append(a, e)[m] = b[m]
  <2>1. \A m \in 1 .. k + 1 : m \in 1 .. k \/ m = k + 1
    OBVIOUS
  <2>. QED
    BY <1>5, <1>6, <2>1
<1>8. Append(a, e) = b
  BY <1>4, <1>6, <1>7, SeqEqual
<1>. QED
  BY <1>8 DEF a, b, e

(* An argument is read from where the walk is, or from behind the padding. *)
ReadFrom(t, a) == IF Wide(t) THEN Aligned(a) ELSE a

(* Reading an argument leads from its place to the place behind it.        *)
LEMMA ReadArgument ==
  ASSUME NEW f \in Seq(Directive), NEW s \in Nat, NEW k \in 1 .. Len(Taken(f)),
         NEW a \in Nat, a <= After(f, s, k),
         NEW p, p = ReadFrom(Taken(f)[k], a), NEW z, z = p + SizeOf(Taken(f)[k])
  PROVE  /\ p \in Nat /\ z \in Nat /\ a <= z /\ z <= After(f, s, k + 1)
         /\ a = After(f, s, k) => p = Layout(f, s)[k] /\ z = After(f, s, k + 1)
<1> DEFINE A == After(f, s, k)
           w == SizeOf(Taken(f)[k])
           q == Layout(f, s)[k]
<1>1. Len(Taken(f)) \in Nat /\ k \in 1 .. Len(Taken(f)) + 1
  BY TakenAre
<1>2. A \in Nat /\ q \in Nat /\ After(f, s, k + 1) = q + w
  BY <1>1, LayoutGrows
<1>3. w \in {1, 2}
  BY DEF SizeOf
<1>4. q = IF Wide(Taken(f)[k]) THEN Aligned(A) ELSE A
  <2>1. q = Placed(f, s, k)
    BY <1>1, LayoutIs
  <2>2. k <= Len(Taken(f))
    BY <1>1
  <2>. QED
    BY <2>1, <2>2 DEF Placed
<1>5. a <= A
  OBVIOUS
<1>9. p = IF Wide(Taken(f)[k]) THEN Aligned(a) ELSE a
  BY DEF ReadFrom
<1> HIDE DEF A, w, q
<1>6. p \in Nat /\ a <= p /\ p <= q
  <2>1. Aligned(a) \in Nat /\ a <= Aligned(a) /\ Aligned(a) <= Aligned(A) /\ a <= a
    BY <1>2, <1>5, AlignedIs
  <2>. QED
    BY <1>4, <1>5, <1>9, <2>1
<1>7. a = A => p = q
  BY <1>4, <1>9
<1>8. p + w \in Nat /\ a <= p + w /\ p + w <= q + w
  <2>1. p \in Nat /\ w \in Nat /\ q \in Nat /\ a \in Nat /\ a <= p /\ p <= q
    BY <1>2, <1>3, <1>6
  <2>. QED
    BY <2>1
<1>. QED
  BY <1>2, <1>6, <1>7, <1>8 DEF A, w, q

(* No directive takes more arguments than the format has.                  *)
LEMMA TakenBounded ==
  ASSUME NEW f \in Seq(Directive), NEW i \in 1 .. Len(f) + 1
  PROVE  TakenBefore(f)[i] \in Nat /\ TakenBefore(f)[i] + 1 \in 1 .. Len(Taken(f)) + 1
<1> DEFINE tb == TakenBefore(f)
           n == Len(Taken(f))
           l == Len(f)
           R == {m \in 0 .. l : tb[l + 1 - m] <= n}
<1>1. l \in Nat /\ n \in Nat /\ \A k \in 1 .. l : Len(f[k].takes) \in Nat
  BY TakenAre, LenProperties, ElementOfSeq, DirectiveFields
<1>2. /\ tb[l + 1] = n /\ \A k \in 1 .. l + 1 : tb[k] \in Nat
      /\ \A k \in 1 .. l : tb[k + 1] = tb[k] + Len(f[k].takes)
  BY TakenAre DEF TakenPlaces
<1> HIDE DEF tb, n, l
<1>3. 0 \in R
  BY <1>1, <1>2
<1>4. ASSUME NEW m \in 0 .. l - 1, m \in R PROVE m + 1 \in R
  <2>1. l + 1 - (m + 1) \in 1 .. l /\ l + 1 - (m + 1) \in 1 .. l + 1 /\ (l + 1 - (m + 1)) + 1 = l + 1 - m
    BY <1>1
  <2> DEFINE k == l + 1 - (m + 1)
  <2>2. tb[k + 1] = tb[k] + Len(f[k].takes) /\ tb[k] \in Nat /\ Len(f[k].takes) \in Nat
    BY <1>1, <1>2, <2>1
  <2>3. tb[k + 1] <= n
    BY <1>4, <2>1
  <2>4. tb[k] <= n
    <3> HIDE DEF k
    <3>. QED
      BY <1>1, <2>2, <2>3
  <2>. QED
    BY <1>1, <2>4
<1>5. \A m \in 0 .. l : m \in R
  <2> HIDE DEF R
  <2>. QED
    BY <1>1, <1>3, <1>4, InductionTo
<1>6. tb[i] <= n
  <2>1. l + 1 - i \in 0 .. l /\ l + 1 - (l + 1 - i) = i
    BY <1>1 DEF l
  <2>. QED
    BY <1>5, <2>1
<1>7. tb[i] \in Nat
  BY <1>2 DEF l
<1>. QED
  BY <1>1, <1>6, <1>7 DEF tb, n

(* Where a walk is that fetches a character, and where it gets.            *)
Fetched(i, j, i2, j2) ==
    /\ AtSpot(i, j)
    /\ Spot(format, i2, j2) /\ at' = CharsBefore(format)[i2] + j2 + 1
    /\ NextChar(format, i, j, might_format, long_ctr, Char, i2, j2)
    /\ TakenBefore(format)[i] \in Nat /\ TakenBefore(format)[i2] \in Nat
    /\ TakenBefore(format)[i] + 1 \in 1 .. Len(Taken(format)) + 1
    /\ TakenBefore(format)[i2] + 1 \in 1 .. Len(Taken(format)) + 1

(* Fetching a character leads from a place of the format to the next.      *)
LEMMA FetchSpot ==
  ASSUME InputInv, WalkInv, NEW S, Fetch(S)
  PROVE  /\ format' = format /\ start' = start /\ Char \in S
         /\ at' \in 1 .. Len(Chars(format)) + 1
         /\ \E i, j, i2, j2 : Fetched(i, j, i2, j2)
<1>1. /\ format' = format /\ start' = start /\ Char \in S /\ pc = "formatting"
      /\ at <= Len(Chars(format)) /\ at' = at + 1
  BY DEF Fetch, input
<1>2. format \in Seq(Directive) /\ start \in Nat
  BY InputIs
<1>3. at \in 1 .. Len(Chars(format)) + 1 /\ Len(Chars(format)) \in Nat
  BY <1>2, CharsAre DEF WalkInv
<1>4. PICK i, j : AtSpot(i, j)
  BY <1>1 DEF WalkInv
<1>5. /\ Spot(format, i, j) /\ at = CharsBefore(format)[i] + j + 1
      /\ Knows(format, i, j, might_format, long_ctr)
  BY <1>4 DEF AtSpot
<1>6. at - 1 \in Nat /\ at - 1 < Len(Chars(format)) /\ (at - 1) + 1 = at
  BY <1>1, <1>3
<1>7. at - 1 = CharsBefore(format)[i] + j
  <2>1. CharsBefore(format)[i] \in Nat /\ j \in Nat
    BY <1>2, <1>5, CharsAre DEF CharPlaces, Spot
  <2>. QED
    BY <1>5, <2>1
<1>8. PICK i2, j2 : /\ Spot(format, i2, j2) /\ (at - 1) + 1 = CharsBefore(format)[i2] + j2
                    /\ NextChar(format, i, j, might_format, long_ctr,
                                Chars(format)[(at - 1) + 1], i2, j2)
  BY <1>2, <1>5, <1>6, <1>7, CharByChar
<1>9. NextChar(format, i, j, might_format, long_ctr, Char, i2, j2)
  BY <1>6, <1>8 DEF Char
<1>10. at' = CharsBefore(format)[i2] + j2 + 1
  BY <1>1, <1>6, <1>8
<1>11. i \in 1 .. Len(format) + 1 /\ i2 \in 1 .. Len(format) + 1
  BY <1>5, <1>8 DEF Spot
<1>12. Fetched(i, j, i2, j2)
  BY <1>2, <1>4, <1>8, <1>9, <1>10, <1>11, TakenBounded DEF Fetched
<1>13. at' \in 1 .. Len(Chars(format)) + 1
  BY <1>1, <1>3
<1>. QED
  BY <1>1, <1>12, <1>13

(* The walk goes on and reads nothing.                                     *)
LEMMA WalkReadsNothing ==
  ASSUME InputInv, WalkInv, format' = format, start' = start,
         at' \in 1 .. Len(Chars(format)) + 1,
         NEW i, NEW j, NEW i2, NEW j2, Fetched(i, j, i2, j2),
         TakenBefore(format)[i] <= TakenBefore(format)[i2],
         Understood(format) /\ ~ starved' => TakenBefore(format)[i2] = TakenBefore(format)[i],
         starved => starved', ap' = ap, reads' = reads, long_ctr' \in Nat,
         Knows(format, i2, j2, might_format', long_ctr')
  PROVE  WalkInv'
<1>1. format \in Seq(Directive) /\ start \in Nat
  BY InputIs
<1> DEFINE k == TakenBefore(format)[i] + 1
           k2 == TakenBefore(format)[i2] + 1
<1>2. /\ ap <= After(format, start, k)
      /\ Understood(format) /\ ~ starved =>
            ap = After(format, start, k) /\ ReadsFirst(TakenBefore(format)[i])
  BY DEF Fetched, AtSpot
<1>3. /\ k \in 1 .. Len(Taken(format)) + 1 /\ k2 \in 1 .. Len(Taken(format)) + 1
      /\ k <= k2
  BY DEF Fetched
<1>4. ap <= After(format, start, k2)
  <2>1. /\ After(format, start, k) <= After(format, start, k2)
        /\ After(format, start, k) \in Nat /\ After(format, start, k2) \in Nat
    <3> HIDE DEF k, k2
    <3>. QED
      BY <1>1, <1>3, LayoutGrows
  <2>2. ap \in Nat
    BY DEF WalkInv
  <2> HIDE DEF k, k2
  <2>. QED
    BY <1>2, <2>1, <2>2
<1>5. Understood(format) /\ ~ starved' =>
         ap = After(format, start, k2) /\ ReadsFirst(TakenBefore(format)[i2])
  BY <1>2
<1>6. AtSpot(i2, j2)'
  <2>1. Spot(format, i2, j2) /\ at' = CharsBefore(format)[i2] + j2 + 1
    BY DEF Fetched
  <2> HIDE DEF k, k2
  <2>2. ReadsFirst(TakenBefore(format)[i2])' <=> ReadsFirst(TakenBefore(format)[i2])
    BY DEF ReadsFirst
  <2>. QED
    BY <1>4, <1>5, <2>1, <2>2 DEF AtSpot, k2
<1>7. Understood(format) /\ ~ starved' => \E m \in 0 .. Len(Taken(format)) : ReadsFirst(m)'
  BY DEF WalkInv, ReadsFirst
<1>. QED
  BY <1>6, <1>7 DEF WalkInv

(* The walk reads the argument of a conversion.                            *)
LEMMA WalkReads ==
  ASSUME InputInv, WalkInv, format' = format, start' = start,
         at' \in 1 .. Len(Chars(format)) + 1,
         NEW i, NEW j, NEW i2, NEW j2, Fetched(i, j, i2, j2),
         NEW t, TakenBefore(format)[i] + 1 \in 1 .. Len(Taken(format)),
         TakenBefore(format)[i2] = TakenBefore(format)[i] + 1,
         Taken(format)[TakenBefore(format)[i] + 1] = t,
         NEW p, p = ReadFrom(t, ap),
         VaArg(p, SizeOf(t)), starved' = starved, long_ctr' \in Nat,
         Knows(format, i2, j2, might_format', long_ctr')
  PROVE  WalkInv'
<1>1. format \in Seq(Directive) /\ start \in Nat
  BY InputIs
<1> DEFINE k == TakenBefore(format)[i] + 1
<1>2. /\ ap <= After(format, start, k) /\ ap \in Nat /\ start <= ap
      /\ Understood(format) /\ ~ starved =>
            ap = After(format, start, k) /\ ReadsFirst(TakenBefore(format)[i])
  BY DEF Fetched, AtSpot, WalkInv
<1>3. k \in 1 .. Len(Taken(format)) /\ Len(Taken(format)) \in Nat /\ TakenBefore(format)[i] = k - 1
  BY <1>1, TakenAre DEF Fetched
<1>4. ap' = p + SizeOf(t) /\ reads' = Append(reads, p)
  BY DEF VaArg
<1>5. /\ ap' \in Nat /\ ap <= ap' /\ ap' <= After(format, start, k + 1)
      /\ ap = After(format, start, k) =>
            p = Layout(format, start)[k] /\ ap' = After(format, start, k + 1)
  <2>1. Taken(format)[k] = t
    OBVIOUS
  <2> HIDE DEF k
  <2>2. p = ReadFrom(Taken(format)[k], ap) /\ ap' = p + SizeOf(Taken(format)[k])
    BY <1>4, <2>1
  <2>3. /\ p \in Nat /\ ap' \in Nat /\ ap <= ap' /\ ap' <= After(format, start, k + 1)
        /\ ap = After(format, start, k) =>
              p = Layout(format, start)[k] /\ ap' = After(format, start, k + 1)
    <3>1. ap \in Nat /\ ap <= After(format, start, k)
      BY <1>2 DEF k
    <3>2. k \in 1 .. Len(Taken(format))
      BY <1>3
    <3>. QED
      BY <1>1, <2>2, <3>1, <3>2, ReadArgument
  <2>. QED
    BY <2>3
<1>6. start <= ap'
  BY <1>1, <1>2, <1>5
<1>7. ap' <= BlockEnd(format, start)
  <2>1. k + 1 \in 1 .. Len(Taken(format)) + 1 /\ k + 1 <= Len(Taken(format)) + 1
        /\ Len(Taken(format)) + 1 \in 1 .. Len(Taken(format)) + 1
    <3> HIDE DEF k
    <3>. QED
      BY <1>3
  <2>2. /\ After(format, start, k + 1) <= BlockEnd(format, start)
        /\ After(format, start, k + 1) \in Nat /\ BlockEnd(format, start) \in Nat
    <3> HIDE DEF k
    <3>. QED
      BY <1>1, <2>1, LayoutGrows
  <2> HIDE DEF k
  <2>. QED
    BY <1>5, <2>2
<1>8. Understood(format) /\ ~ starved =>
         ap' = After(format, start, k + 1) /\ reads' = SubSeq(Layout(format, start), 1, k)
  <2>1. SUFFICES ASSUME Understood(format) /\ ~ starved
                 PROVE  /\ ap' = After(format, start, k + 1)
                        /\ reads' = SubSeq(Layout(format, start), 1, k)
    OBVIOUS
  <2> DEFINE L == Layout(format, start)
             m == TakenBefore(format)[i]
  <2>2. L \in Seq(Nat) /\ Len(L) = Len(Taken(format)) + 1
    <3>1. L \in [1 .. Len(Taken(format)) + 1 -> Nat] /\ Len(Taken(format)) + 1 \in Nat
      <4>1. L \in [1 .. Len(Taken(format)) + 1 -> Nat]
        BY <1>1, LayoutIs, Zenon
      <4>2. Len(Taken(format)) \in Nat
        BY <1>3, Zenon
      <4>. QED
        BY <4>1, <4>2
    <3> HIDE DEF L
    <3>. QED
      BY <3>1
  <2>3. m \in Nat /\ m < Len(L) /\ m + 1 = k
    BY <1>3, <2>2 DEF Fetched
  <2>4. p = L[m + 1] /\ ap' = After(format, start, k + 1) /\ reads = SubSeq(L, 1, m)
    BY <1>2, <1>5, <2>1 DEF ReadsFirst
  <2>5. reads' = SubSeq(L, 1, m + 1)
    <3> HIDE DEF L, m, k
    <3>. QED
      BY <1>4, <2>2, <2>3, <2>4, NextRead
  <2>. QED
    BY <2>3, <2>4, <2>5
<1>9. AtSpot(i2, j2)'
  <2>1. Spot(format, i2, j2) /\ at' = CharsBefore(format)[i2] + j2 + 1
    BY DEF Fetched
  <2>2. TakenBefore(format)[i2] = k
    OBVIOUS
  <2> HIDE DEF k
  <2>. QED
    BY <1>5, <1>8, <2>1, <2>2 DEF AtSpot, ReadsFirst
<1>10. Understood(format) /\ ~ starved =>
          \E m \in 0 .. Len(Taken(format)) : reads' = SubSeq(Layout(format, start), 1, m)
  <2>1. k \in 0 .. Len(Taken(format))
    BY <1>3
  <2> HIDE DEF k
  <2>. QED
    BY <1>8, <2>1
<1>. QED
  BY <1>5, <1>6, <1>7, <1>9, <1>10 DEF WalkInv, ReadsFirst

(* The walk is left, with 0.                                               *)
LEMMA WalkGives0 ==
  ASSUME InputInv, WalkInv, format' = format, start' = start,
         at' \in 1 .. Len(Chars(format)) + 1, long_ctr' \in Nat, Give0
  PROVE  WalkInv'
<1>1. pc' = "returned" /\ ap' = ap /\ reads' = reads /\ starved' = starved
  BY DEF Give0
<1>2. Understood(format) /\ ~ starved => \E m \in 0 .. Len(Taken(format)) : ReadsFirst(m)'
  BY <1>1 DEF WalkInv, ReadsFirst
<1>. QED
  BY <1>1, <1>2 DEF WalkInv

(* A call starts at the first character and the first argument.            *)
LEMMA WalkStarts ==
  ASSUME FormatInit PROVE InputInv /\ WalkInv
<1>1. /\ format \in Formats /\ start \in {0, 1} /\ at = 1 /\ might_format = FALSE
      /\ long_ctr = 0 /\ ap = start /\ reads = <<>> /\ pc = "called"
  BY DEF FormatInit
<1>2. InputInv
  BY <1>1 DEF InputInv
<1>3. format \in Seq(Directive) /\ start \in Nat
  BY <1>2, InputIs
<1>4. /\ Len(format) \in Nat /\ Len(Chars(format)) \in Nat /\ Len(Taken(format)) \in Nat
      /\ CharsBefore(format)[1] = 0 /\ TakenBefore(format)[1] = 0
  BY <1>3, CharsAre, TakenAre, LenProperties DEF CharPlaces, TakenPlaces
<1>5. After(format, start, TakenBefore(format)[1] + 1) = start
  BY <1>4 DEF After
<1>6. ReadsFirst(0)
  BY <1>1 DEF ReadsFirst
<1>7. Spot(format, 1, 0)
  <2>1. 1 <= Len(format) => 0 < Len(format[1].chars)
    <3>1. 1 <= Len(format) => format[1] \in Directive
      BY <1>3, <1>4, ElementOfSeq
    <3>. QED
      BY <3>1, DirectiveFields
  <2>. QED
    BY <1>4, <2>1 DEF Spot
<1>8. AtSpot(1, 0)
  <2>1. Knows(format, 1, 0, might_format, long_ctr)
    <3>1. ~ (0 > 0)
      OBVIOUS
    <3>2. ~ InConversion(format[1], 0)
      BY <3>1, Zenon DEF InConversion
    <3>. QED
      BY <1>1, <3>2 DEF Knows
  <2>2. at = CharsBefore(format)[1] + 0 + 1
    BY <1>1, <1>4
  <2>3. ap <= start
    BY <1>1, <1>3
  <2>. QED
    BY <1>1, <1>4, <1>5, <1>6, <1>7, <2>1, <2>2, <2>3 DEF AtSpot
<1>9. ap \in Nat /\ start <= ap /\ ap <= BlockEnd(format, start)
  <2>1. Len(Taken(format)) + 1 \in 1 .. Len(Taken(format)) + 1
    BY <1>4
  <2>2. start <= BlockEnd(format, start)
    BY <1>3, <2>1, LayoutGrows
  <2>. QED
    BY <1>1, <1>3, <2>2
<1>10. at \in 1 .. Len(Chars(format)) + 1 /\ 0 \in 0 .. Len(Taken(format))
  BY <1>1, <1>4
<1>. QED
  BY <1>1, <1>2, <1>6, <1>8, <1>9, <1>10 DEF WalkInv

(* The walk rests while another part of the call is busy.                  *)
LEMMA WalkRests ==
  ASSUME WalkInv, UNCHANGED <<input, walk>>, pc' \in {"called", "formatting"} => pc \in {"called", "formatting"}
  PROVE  WalkInv'
BY DEF WalkInv, AtSpot, ReadsFirst, input, walk, Understood

(* Every step of _vprintf_wa keeps the walk where the arguments are.       *)
LEMMA WalkStep ==
  ASSUME InputInv, WalkInv, [FormatNext]_formatVars PROVE WalkInv'
<1>1. CASE NativeReturns
  BY <1>1, WalkRests DEF NativeReturns
<1>2. CASE Printf
  BY <1>2, WalkRests DEF Printf, ToNative, ToApp
<1>3. CASE Vasprintf
  BY <1>3, WalkRests DEF Vasprintf, ToNative
<1>4. CASE SendEventMisightF
  BY <1>4, WalkRests DEF SendEventMisightF, ToNative, ToApp
<1>5. CASE DbusSetError
  BY <1>5, WalkRests DEF DbusSetError, ToNative, ToApp
<1>6. CASE PrintBegins
  BY <1>6, WalkRests DEF PrintBegins
<1>7. CASE PrintEnds
  BY <1>7, WalkRests DEF PrintEnds
<1>8. CASE Literal
  <2>1. /\ ~ might_format /\ UNCHANGED <<pc, ap, reads, starved>>
        /\ \/ Fetch({"%"}) /\ might_format' = TRUE /\ long_ctr' = 0
           \/ /\ Fetch({Char}) /\ Char # "%"
              /\ might_format' = might_format /\ long_ctr' = long_ctr
    BY <1>8 DEF Literal
  <2>2. PICK S : Fetch(S)
    BY <2>1
  <2>3. /\ format' = format /\ start' = start /\ at' \in 1 .. Len(Chars(format)) + 1
        /\ \E i, j, i2, j2 : Fetched(i, j, i2, j2)
    BY <2>2, FetchSpot
  <2>4. PICK i, j, i2, j2 : Fetched(i, j, i2, j2)
    BY <2>3
  <2>5. NextChar(format, i, j, might_format, long_ctr, Char, i2, j2) /\ TakenBefore(format)[i] \in Nat
    BY <2>4 DEF Fetched
  <2>6. CASE Fetch({"%"}) /\ might_format' = TRUE /\ long_ctr' = 0
    <3>1. Char = "%"
      BY <2>6 DEF Fetch
    <3>2. i2 = i /\ Knows(format, i2, j2, might_format', long_ctr')
      BY <2>1, <2>5, <2>6, <3>1 DEF NextChar
    <3>3. TakenBefore(format)[i] <= TakenBefore(format)[i2]
      BY <2>5, <3>2
    <3>. QED
      BY <2>1, <2>3, <2>4, <2>6, <3>2, <3>3, WalkReadsNothing
  <2>7. CASE Char # "%" /\ might_format' = might_format /\ long_ctr' = long_ctr
    <3>1. Knows(format, i2, j2, FALSE, long_ctr) /\ Advances(format, i, i2)
      BY <2>1, <2>5, <2>7 DEF NextChar
    <3>2. might_format' = FALSE
      <4>1. might_format \in BOOLEAN
        BY <2>4 DEF Fetched, AtSpot, Knows
      <4>. QED
        BY <2>1, <2>7, <4>1
    <3>3. long_ctr' \in Nat
      BY <2>7 DEF WalkInv
    <3>. QED
      BY <2>1, <2>3, <2>4, <2>7, <3>1, <3>2, <3>3, WalkReadsNothing DEF Advances
  <2>. QED
    BY <2>1, <2>6, <2>7
<1>9. CASE Modify
  <2>1. /\ might_format /\ Fetch(Modifier) /\ long_ctr' = Length(Char, long_ctr)
        /\ UNCHANGED <<pc, might_format, ap, reads, starved>>
    BY <1>9 DEF Modify
  <2>2. /\ format' = format /\ start' = start /\ at' \in 1 .. Len(Chars(format)) + 1
        /\ Char \in Modifier /\ \E i, j, i2, j2 : Fetched(i, j, i2, j2)
    BY <2>1, FetchSpot
  <2>3. PICK i, j, i2, j2 : Fetched(i, j, i2, j2)
    BY <2>2
  <2>4. /\ NextChar(format, i, j, might_format, long_ctr, Char, i2, j2)
        /\ TakenBefore(format)[i] \in Nat
        /\ might_format \in BOOLEAN
    BY <2>3 DEF Fetched, AtSpot, Knows
  <2>5. i2 = i /\ Knows(format, i2, j2, TRUE, Length(Char, long_ctr))
    <3>1. Char \notin {"*", "%", "n", "d", "f", "s"}
      BY <2>2 DEF Modifier
    <3>. QED
      BY <2>1, <2>4, <3>1 DEF NextChar
  <2>6. Knows(format, i2, j2, might_format', long_ctr')
    <3>1. might_format' = TRUE
      BY <2>1, <2>4
    <3>. QED
      BY <2>1, <2>5, <3>1
  <2>7. long_ctr' \in Nat
    <3>1. long_ctr \in Nat
      BY DEF WalkInv
    <3>. QED
      BY <2>1, <3>1 DEF Length
  <2>8. TakenBefore(format)[i] <= TakenBefore(format)[i2]
    BY <2>4, <2>5
  <2>. QED
    BY <2>1, <2>2, <2>3, <2>5, <2>6, <2>7, <2>8, WalkReadsNothing
<1>10. CASE PrepareTempFormatFails \/ Integer \/ Double \/ String
  <2>1. PICK S \in SUBSET {"d", "f", "s"} : Conversion(S)
    BY <1>10 DEF PrepareTempFormatFails, Integer, Double, String
  <2>2. might_format /\ Fetch(S) /\ might_format' = FALSE /\ long_ctr' = long_ctr
    BY <2>1 DEF Conversion
  <2>3. /\ format' = format /\ start' = start /\ at' \in 1 .. Len(Chars(format)) + 1
        /\ Char \in {"d", "f", "s"} /\ \E i, j, i2, j2 : Fetched(i, j, i2, j2)
    BY <2>1, <2>2, FetchSpot
  <2>4. PICK i, j, i2, j2 : Fetched(i, j, i2, j2)
    BY <2>3
  <2>5. NextChar(format, i, j, might_format, long_ctr, Char, i2, j2)
    BY <2>4 DEF Fetched
  <2> DEFINE t == TypeRead(Char, long_ctr)
  <2>6. /\ Knows(format, i2, j2, FALSE, long_ctr)
        /\ TakenBefore(format)[i] + 1 \in 1 .. Len(Taken(format))
        /\ TakenBefore(format)[i2] = TakenBefore(format)[i] + 1
        /\ Taken(format)[TakenBefore(format)[i] + 1] = t
    <3>1. Char \notin Modifier /\ Char \notin {"*", "%", "n"}
      BY <2>3 DEF Modifier
    <3>. QED
      BY <2>2, <2>5, <3>1 DEF NextChar
  <2>7. Knows(format, i2, j2, might_format', long_ctr') /\ long_ctr' \in Nat
    BY <2>2, <2>6 DEF WalkInv
  <2>8. CASE PrepareTempFormatFails
    <3>1. starved' = TRUE /\ ap' = ap /\ reads' = reads
      BY <2>8 DEF PrepareTempFormatFails
    <3>2. TakenBefore(format)[i] <= TakenBefore(format)[i2]
      BY <2>4, <2>6 DEF Fetched
    <3>. QED
      BY <2>3, <2>4, <2>7, <3>1, <3>2, WalkReadsNothing
  <2>9. CASE Integer \/ Double \/ String
    <3>1. \/ Give0
          \/ VaArg(ReadFrom(t, ap), SizeOf(t)) /\ starved' = starved
      <4>1. CASE Integer
        <5>1. Char = "d"
          BY <4>1 DEF Integer, Conversion, Fetch
        <5> DEFINE size == IF long_ctr < 2 THEN 1 ELSE 2
                   p == IF long_ctr < 2 THEN ap ELSE Aligned(ap)
        <5>2. size = SizeOf(t) /\ p = ReadFrom(t, ap)
          <6>1. t = IF long_ctr < 2 THEN "int" ELSE "long long"
            BY <5>1 DEF TypeRead
          <6>. QED
            BY <6>1 DEF SizeOf, Wide, ReadFrom
        <5>3. \/ CheckVaArg(p, size)
              \/ VaArg(p, size) /\ OutputTempFormat
          BY <4>1 DEF Integer
        <5> HIDE DEF size, p
        <5>. QED
          BY <5>2, <5>3 DEF CheckVaArg, OutputTempFormat
      <4>2. CASE Double
        <5>1. Char = "f"
          BY <4>2 DEF Double, Conversion, Fetch
        <5>2. 2 = SizeOf(t) /\ Aligned(ap) = ReadFrom(t, ap)
          <6>1. t = "double"
            BY <5>1 DEF TypeRead
          <6>. QED
            BY <6>1 DEF SizeOf, Wide, ReadFrom
        <5>3. \/ CheckVaArg(Aligned(ap), 2)
              \/ VaArg(Aligned(ap), 2) /\ OutputTempFormat
          BY <4>2 DEF Double
        <5>. QED
          BY <5>2, <5>3 DEF CheckVaArg, OutputTempFormat
      <4>3. CASE String
        <5>1. Char = "s"
          BY <4>3 DEF String, Conversion, Fetch
        <5>2. 1 = SizeOf(t) /\ ap = ReadFrom(t, ap)
          <6>1. t = "string"
            BY <5>1 DEF TypeRead
          <6>. QED
            BY <6>1 DEF SizeOf, Wide, ReadFrom
        <5>3. \/ Give0
              \/ VaArg(ap, 1) /\ starved' = starved
          BY <4>3 DEF String, CheckVaArg, OutputTempFormat
        <5>. QED
          BY <5>2, <5>3
      <4>. QED
        BY <2>9, <4>1, <4>2, <4>3
    <3>2. CASE Give0
      BY <2>3, <2>7, <3>2, WalkGives0
    <3>3. CASE VaArg(ReadFrom(t, ap), SizeOf(t)) /\ starved' = starved
      <4> HIDE DEF t
      <4>. QED
        BY <2>3, <2>4, <2>6, <2>7, <3>3, WalkReads
    <3>. QED
      BY <3>1, <3>2, <3>3
  <2>. QED
    BY <1>10, <2>8, <2>9
<1>11. CASE Other
  <2>1. /\ might_format /\ Fetch({"%", "n", "*", "x"}) /\ might_format' = FALSE
        /\ long_ctr' = long_ctr /\ UNCHANGED <<ap, reads, starved>>
    BY <1>11 DEF Other, Conversion
  <2>2. /\ format' = format /\ start' = start /\ at' \in 1 .. Len(Chars(format)) + 1
        /\ Char \in {"%", "n", "*", "x"} /\ \E i, j, i2, j2 : Fetched(i, j, i2, j2)
    BY <2>1, FetchSpot
  <2>3. PICK i, j, i2, j2 : Fetched(i, j, i2, j2)
    BY <2>2
  <2>4. NextChar(format, i, j, might_format, long_ctr, Char, i2, j2)
    BY <2>3 DEF Fetched
  <2>5. Knows(format, i2, j2, FALSE, long_ctr) /\ Advances(format, i, i2)
    <3>1. Char \notin Modifier /\ Char \notin {"d", "f", "s"}
      BY <2>2 DEF Modifier
    <3>. QED
      BY <2>1, <2>4, <3>1 DEF NextChar
  <2>6. Knows(format, i2, j2, might_format', long_ctr') /\ long_ctr' \in Nat
    BY <2>1, <2>5 DEF WalkInv
  <2>. QED
    BY <2>1, <2>2, <2>3, <2>5, <2>6, WalkReadsNothing DEF Advances
<1>12. CASE UNCHANGED formatVars
  BY <1>12, WalkRests DEF formatVars
<1>. QED
  BY <1>1, <1>2, <1>3, <1>4, <1>5, <1>6, <1>7, <1>8, <1>9, <1>10, <1>11, <1>12
     DEF FormatNext, VprintfWa, Snprintf, Sprintf

(* The arguments of a call stay the same.                                  *)
LEMMA InputStep ==
  ASSUME InputInv, [FormatNext]_formatVars PROVE InputInv'
<1>1. input' = input
  BY DEF FormatNext, formatVars, NativeReturns, Printf, Vasprintf, SendEventMisightF,
         DbusSetError, ToNative, ToApp, Snprintf, Sprintf, PrintBegins, PrintEnds,
         VprintfWa, Literal, Modify, PrepareTempFormatFails, Integer, Double, String,
         Other, Conversion, Fetch
<1>. QED
  BY <1>1 DEF InputInv, input

(* _vprintf_wa reads each argument where the compiler has put it, for any  *)
(* format that it reads as C does, until a conversion has no memory for    *)
(* its directive (libc_bypass.c:201-324).                                  *)
THEOREM ReadsArguments == FormatSpec => []ReadsItsArguments
<1>1. FormatInit => InputInv /\ WalkInv
  BY WalkStarts
<1>2. InputInv /\ WalkInv /\ [FormatNext]_formatVars => (InputInv /\ WalkInv)'
  BY WalkStep, InputStep
<1>3. InputInv /\ WalkInv => ReadsItsArguments
  <2> SUFFICES ASSUME InputInv, WalkInv, Understood(format), ~ starved
               PROVE  IsPrefix(reads, SubSeq(Layout(format, start), 1, Len(Taken(format))))
    BY DEF ReadsItsArguments
  <2> DEFINE L == Layout(format, start)
             n == Len(Taken(format))
  <2>1. format \in Seq(Directive) /\ start \in Nat
    BY InputIs
  <2>2. n \in Nat
    BY <2>1, TakenAre
  <2>3. L \in Seq(Nat) /\ Len(L) = n + 1
    <3>1. L \in [1 .. n + 1 -> Nat]
      BY <2>1, LayoutIs, Zenon
    <3> HIDE DEF L, n
    <3>. QED
      BY <2>2, <3>1
  <2>4. PICK m \in 0 .. n : reads = SubSeq(L, 1, m)
    BY DEF WalkInv, ReadsFirst
  <2> HIDE DEF L, n
  <2>5. /\ SubSeq(L, 1, m) \in Seq(Nat) /\ Len(SubSeq(L, 1, m)) = m
        /\ \A k \in 1 .. m : SubSeq(L, 1, m)[k] = L[k]
    <3>1. m \in Nat /\ m <= Len(L)
      BY <2>2, <2>3
    <3>2. L \in Seq(Nat)
      BY <2>3
    <3>. QED
      BY <3>1, <3>2
  <2>6. /\ SubSeq(L, 1, n) \in Seq(Nat) /\ Len(SubSeq(L, 1, n)) = n
        /\ \A k \in 1 .. n : SubSeq(L, 1, n)[k] = L[k]
    <3>1. n \in Nat /\ n <= Len(L)
      BY <2>2, <2>3
    <3>2. L \in Seq(Nat)
      BY <2>3
    <3>. QED
      BY <3>1, <3>2
  <2>7. SubSeq(reads, 1, Len(reads)) = SubSeq(SubSeq(L, 1, n), 1, Len(reads))
    <3> DEFINE a == SubSeq(L, 1, m)
               b == SubSeq(L, 1, n)
    <3>1. m \in Nat /\ m <= n /\ \A k \in 1 .. m : k \in 1 .. n /\ a[k] = b[k]
      BY <2>2, <2>5, <2>6
    <3>2. a \in Seq(Nat) /\ Len(a) = m /\ b \in Seq(Nat) /\ Len(b) = n
      BY <2>5, <2>6
    <3>3. SubSeq(a, 1, m) = SubSeq(b, 1, m)
      <4> HIDE DEF a, b
      <4>. QED
        BY <2>2, <3>1, <3>2
    <3>. QED
      BY <2>4, <3>2, <3>3
  <2>8. Len(reads) <= Len(SubSeq(L, 1, n))
    BY <2>2, <2>4, <2>5, <2>6
  <2>. QED
    BY <2>7, <2>8 DEF IsPrefix, L, n
<1>. QED
  BY <1>1, <1>2, <1>3, PTL DEF FormatSpec

(***************************************************************************)
(* va_list_string2conv: what the walk that converts in place does.         *)
(***************************************************************************)

States(D) == [might : BOOLEAN, long : Nat, pos : Nat, words : [D -> Int]]

(* One character of the walk, field by field.                              *)
Steps(r, by, q, c) ==
    /\ r.might <=> IF q.might THEN c \in Modifier ELSE c = "%"
    /\ r.long = IF ~ q.might THEN 0 ELSE IF c \in Modifier THEN Length(c, q.long) ELSE q.long
    /\ r.pos = IF q.might /\ c \in {"d", "f", "s"} THEN q.pos + SizeOf(TypeRead(c, q.long))
               ELSE q.pos
    /\ r.words = IF q.might /\ c = "s" THEN [q.words EXCEPT ![q.pos] = @ + by] ELSE q.words

(* The cases of va_list_string2conv's switch are those fields.             *)
LEMMA StepIs ==
  ASSUME NEW D, NEW by \in Int, NEW q \in States(D), NEW c \in Letters,
         NEW r, r = String2convStep(by, q, c)
  PROVE  r \in States(D) /\ Steps(r, by, q, c)
<1> USE DEF Steps
<1>1. q.might \in BOOLEAN /\ q.long \in Nat /\ q.pos \in Nat /\ q.words \in [D -> Int]
  BY DEF States
<1>2. CASE ~ q.might
  <2>1. r = [q EXCEPT !.might = (c = "%"), !.long = 0]
    BY <1>2 DEF String2convStep
  <2>2. r = [might |-> (c = "%"), long |-> 0, pos |-> q.pos, words |-> q.words]
    BY <2>1 DEF States
  <2> DEFINE m == (c = "%")
  <2>3. m \in BOOLEAN
    OBVIOUS
  <2> HIDE DEF m
  <2>4. r = [might |-> m, long |-> 0, pos |-> q.pos, words |-> q.words]
    BY <2>2 DEF m
  <2>5. r \in States(D) /\ r.long = 0 /\ r.pos = q.pos /\ r.words = q.words
    BY <1>1, <2>3, <2>4 DEF States
  <2>6. r.might = m
    BY <2>4
  <2>7. r.might <=> c = "%"
    BY <2>6 DEF m
  <2>. QED
    BY <1>2, <2>5, <2>7
<1>3. CASE q.might /\ c \in Modifier
  <2>1. c \notin {"d", "f", "s", "%"}
    BY <1>3 DEF Modifier
  <2>2. r = [q EXCEPT !.long = Length(c, @)]
    BY <1>3, <2>1 DEF String2convStep
  <2>3. Length(c, q.long) \in Nat
    BY <1>1 DEF Length
  <2>4. r = [might |-> q.might, long |-> Length(c, q.long), pos |-> q.pos, words |-> q.words]
    BY <2>2 DEF States
  <2>. QED
    BY <1>1, <1>3, <2>1, <2>3, <2>4 DEF States
<1>4. CASE q.might /\ c = "d"
  <2>1. c \notin Modifier
    BY <1>4 DEF Modifier
  <2>2. r = [q EXCEPT !.might = FALSE, !.pos = @ + IF q.long < 2 THEN 1 ELSE 2]
    BY <1>4, <2>1 DEF String2convStep
  <2>3. (IF q.long < 2 THEN 1 ELSE 2) = SizeOf(TypeRead(c, q.long))
    BY <1>4 DEF SizeOf, Wide, TypeRead
  <2>4. r = [might |-> FALSE, long |-> q.long, pos |-> q.pos + SizeOf(TypeRead(c, q.long)),
             words |-> q.words]
    BY <2>2, <2>3 DEF States
  <2>5. q.pos + SizeOf(TypeRead(c, q.long)) \in Nat
    BY <1>1 DEF SizeOf
  <2>6. /\ r \in States(D) /\ ~ r.might /\ r.long = q.long /\ r.words = q.words
        /\ r.pos = q.pos + SizeOf(TypeRead(c, q.long))
    BY <1>1, <2>4, <2>5 DEF States
  <2>. QED
    BY <1>4, <2>1, <2>6
<1>5. CASE q.might /\ c = "f"
  <2>1. c \notin Modifier
    BY <1>5 DEF Modifier
  <2>2. r = [q EXCEPT !.might = FALSE, !.pos = @ + 2]
    BY <1>5, <2>1 DEF String2convStep
  <2>3. 2 = SizeOf(TypeRead(c, q.long))
    BY <1>5 DEF SizeOf, Wide, TypeRead
  <2>4. r = [might |-> FALSE, long |-> q.long, pos |-> q.pos + SizeOf(TypeRead(c, q.long)),
             words |-> q.words]
    BY <2>2, <2>3 DEF States
  <2>5. q.pos + SizeOf(TypeRead(c, q.long)) \in Nat
    BY <1>1 DEF SizeOf
  <2>6. /\ r \in States(D) /\ ~ r.might /\ r.long = q.long /\ r.words = q.words
        /\ r.pos = q.pos + SizeOf(TypeRead(c, q.long))
    BY <1>1, <2>4, <2>5 DEF States
  <2>. QED
    BY <1>5, <2>1, <2>6
<1>6. CASE q.might /\ c = "s"
  <2>1. c \notin Modifier
    BY <1>6 DEF Modifier
  <2>2. r = [q EXCEPT !.might = FALSE, !.pos = @ + 1, !.words[q.pos] = @ + by]
    BY <1>6, <2>1 DEF String2convStep
  <2>3. 1 = SizeOf(TypeRead(c, q.long))
    BY <1>6 DEF SizeOf, Wide, TypeRead
  <2> DEFINE w == [q.words EXCEPT ![q.pos] = @ + by]
  <2>4. r = [might |-> FALSE, long |-> q.long, pos |-> q.pos + SizeOf(TypeRead(c, q.long)),
             words |-> w]
    BY <2>2, <2>3 DEF States
  <2>5. q.pos + SizeOf(TypeRead(c, q.long)) \in Nat
    BY <1>1 DEF SizeOf
  <2>7. w \in [D -> Int]
    <3>1. \A p \in D : q.words[p] + by \in Int
      BY <1>1
    <3>. QED
      BY <1>1, <3>1
  <2> HIDE DEF w
  <2>6. /\ r \in States(D) /\ ~ r.might /\ r.long = q.long /\ r.words = w
        /\ r.pos = q.pos + SizeOf(TypeRead(c, q.long))
    BY <1>1, <2>4, <2>5, <2>7 DEF States
  <2>. QED
    BY <1>6, <2>1, <2>6 DEF w
<1>7. CASE q.might /\ c \notin Modifier \cup {"d", "f", "s"}
  <2>1. r = [q EXCEPT !.might = FALSE]
    BY <1>7 DEF String2convStep
  <2>2. r = [might |-> FALSE, long |-> q.long, pos |-> q.pos, words |-> q.words]
    BY <2>1 DEF States
  <2>. QED
    BY <1>1, <1>7, <2>2 DEF States
<1>. QED
  BY <1>1, <1>2, <1>3, <1>4, <1>5, <1>6, <1>7

(* The states of a walk, one for each number of characters it has read.    *)
Walks(w, by, chars, s, block, D) ==
    /\ w \in [0 .. Len(chars) -> States(D)]
    /\ w[0] = [might |-> FALSE, long |-> 0, pos |-> s, words |-> block]
    /\ \A k \in 1 .. Len(chars) : w[k] = String2convStep(by, w[k - 1], chars[k])

WalkOver(by, chars, s, block, D) == CHOOSE w : Walks(w, by, chars, s, block, D)

(* The walk exists, and its last state is what the function leaves.        *)
LEMMA WalkIs ==
  ASSUME NEW by \in Int, NEW chars \in Seq(Letters), NEW s \in Nat,
         NEW D, NEW block \in [D -> Int], NEW o, o = WalkOver(by, chars, s, block, D)
  PROVE  /\ Walks(o, by, chars, s, block, D)
         /\ LibcString2conv(by, chars, s, block) = o[Len(chars)].words
<1> DEFINE n == Len(chars)
           S == States(D)
           base == [might |-> FALSE, long |-> 0, pos |-> s, words |-> block]
           Then(q, c) == String2convStep(by, q, c)
           adv == [x \in (1 .. n) \X S |-> Then(x[2], chars[x[1]])]
           Is(h) == h = [k \in 0 .. n |-> IF k = 0 THEN base ELSE Then(h[k - 1], chars[k])]
           w == CHOOSE h : Is(h)
<1>1. n \in Nat /\ \A k \in 1 .. n : chars[k] \in Letters
  BY LenProperties, ElementOfSeq
<1>2. base \in S
  BY DEF States
<1>3. LibcString2conv(by, chars, s, block) = w[n].words
  BY DEF LibcString2conv
<1>4. \A q \in S, c \in Letters : Then(q, c) \in S
  BY StepIs
<1> HIDE DEF n, S, base, Then
<1>5. adv \in [(1 .. n) \X S -> S] /\ \A k \in 1 .. n : \A q \in S : adv[<<k, q>>] = Then(q, chars[k])
  BY <1>1, <1>4
<1> HIDE DEF adv
<1>6. PICK g : Stepwise(g, n, S, base, adv)
  BY <1>1, <1>2, <1>5, RecursionExists, Zenon
<1>7. g \in [0 .. n -> S] /\ g[0] = base /\ \A k \in 1 .. n : g[k] = adv[<<k, g[k - 1]>>]
  BY <1>6 DEF Stepwise
<1>8. Is(g)
  <2>1. ASSUME NEW k \in 0 .. n PROVE g[k] = IF k = 0 THEN base ELSE Then(g[k - 1], chars[k])
    <3>1. CASE k = 0
      BY <3>1, <1>7
    <3>2. CASE k # 0
      <4>1. k \in 1 .. n /\ k - 1 \in 0 .. n
        BY <3>2, <1>1
      <4>. QED
        BY <3>2, <4>1, <1>5, <1>7
    <3>. QED
      BY <3>1, <3>2
  <2>. QED
    BY <2>1, <1>7
<1>9. Is(w)
  <2> HIDE DEF Is
  <2>. QED
    BY <1>8
<1> HIDE DEF w
<1>10. \A k \in 0 .. n : w[k] = IF k = 0 THEN base ELSE Then(w[k - 1], chars[k])
  BY <1>9
<1>11. w = [k \in 0 .. n |-> w[k]]
  BY <1>9
<1> HIDE DEF Is
<1>12. w[0] = base /\ \A k \in 1 .. n : w[k] = Then(w[k - 1], chars[k])
  <2>1. 0 \in 0 .. n /\ \A k \in 1 .. n : k \in 0 .. n /\ k # 0
    BY <1>1
  <2>. QED
    BY <2>1, <1>10
<1> DEFINE R == {k \in 0 .. n : w[k] \in S}
<1>13. ASSUME NEW k \in 0 .. n - 1, k \in R PROVE k + 1 \in R
  <2>1. k + 1 \in 1 .. n /\ (k + 1) - 1 = k /\ k + 1 \in 0 .. n
    BY <1>1
  <2>2. w[k + 1] = Then(w[k], chars[k + 1]) /\ chars[k + 1] \in Letters
    BY <2>1, <1>1, <1>12
  <2>. QED
    BY <2>1, <2>2, <1>4, <1>13
<1>14. \A k \in 0 .. n : k \in R
  <2>1. 0 \in R
    BY <1>1, <1>2, <1>12
  <2> HIDE DEF R
  <2>. QED
    BY <1>1, <1>13, <2>1, InductionTo
<1>15. w \in [0 .. n -> S]
  BY <1>11, <1>14
<1>16. Walks(w, by, chars, s, block, D)
  BY <1>12, <1>15 DEF Walks, n, S, base, Then
<1>17. Walks(o, by, chars, s, block, D)
  BY <1>16, Zenon DEF WalkOver
<1>18. w[n] = o[n]
  <2> DEFINE T == {k \in 0 .. n : w[k] = o[k]}
  <2>1. o[0] = base /\ \A k \in 1 .. n : o[k] = Then(o[k - 1], chars[k])
    BY <1>17 DEF Walks, n, base, Then
  <2>2. 0 \in T
    BY <2>1, <1>1, <1>12
  <2>3. ASSUME NEW k \in 0 .. n - 1, k \in T PROVE k + 1 \in T
    <3>1. k + 1 \in 1 .. n /\ (k + 1) - 1 = k /\ k + 1 \in 0 .. n
      BY <1>1
    <3>2. w[k + 1] = Then(w[k], chars[k + 1]) /\ o[k + 1] = Then(o[k], chars[k + 1])
      BY <3>1, <1>12, <2>1
    <3>. QED
      BY <3>1, <3>2, <2>3
  <2>4. \A k \in 0 .. n : k \in T
    <3> HIDE DEF T
    <3>. QED
      BY <1>1, <2>2, <2>3, InductionTo
  <2>. QED
    BY <1>1, <2>4
<1>. QED
  BY <1>3, <1>17, <1>18 DEF n

(* The walk does not look at the words, so the second walk over the same   *)
(* format counts down what the first has counted up, whatever the format.  *)
LEMMA BlockTurnsBack ==
  ASSUME NEW by \in Int, NEW back \in Int, by + back = 0, NEW chars \in Seq(Letters),
         NEW s \in Nat, NEW D, NEW block \in [D -> Int],
         NEW turned, turned = LibcString2conv(by, chars, s, block)
  PROVE  turned \in [D -> Int] /\ LibcString2conv(back, chars, s, turned) = block
<1> DEFINE n == Len(chars)
<1>1. n \in Nat /\ \A k \in 1 .. n : chars[k] \in Letters
  BY LenProperties, ElementOfSeq
<1> DEFINE w == WalkOver(by, chars, s, block, D)
           v == WalkOver(back, chars, s, turned, D)
<1> HIDE DEF w, v
<1>2. Walks(w, by, chars, s, block, D) /\ turned = w[n].words
  BY WalkIs DEF w
<1>3. /\ w \in [0 .. n -> States(D)]
      /\ w[0] = [might |-> FALSE, long |-> 0, pos |-> s, words |-> block]
      /\ \A k \in 1 .. n : w[k] = String2convStep(by, w[k - 1], chars[k])
  BY <1>2 DEF Walks
<1>4. turned \in [D -> Int]
  BY <1>1, <1>2, <1>3 DEF States
<1>5. Walks(v, back, chars, s, turned, D) /\ LibcString2conv(back, chars, s, turned) = v[n].words
  BY <1>4, WalkIs DEF v
<1>6. /\ v \in [0 .. n -> States(D)]
      /\ v[0] = [might |-> FALSE, long |-> 0, pos |-> s, words |-> turned]
      /\ \A k \in 1 .. n : v[k] = String2convStep(back, v[k - 1], chars[k])
  BY <1>5 DEF Walks
<1> HIDE DEF n
<1> DEFINE Same(k) == (w[k].might <=> v[k].might) /\ w[k].long = v[k].long /\ w[k].pos = v[k].pos
           Sum(k) == \A p \in D : w[k].words[p] + v[k].words[p] = block[p] + turned[p]
           R == {k \in 0 .. n : Same(k) /\ Sum(k)}
<1>7. 0 \in R
  <2>1. w[0].words = block /\ v[0].words = turned /\ Same(0)
    BY <1>3, <1>6
  <2> HIDE DEF Same
  <2>. QED
    BY <2>1, <1>1
<1>8. ASSUME NEW k \in 0 .. n - 1, k \in R PROVE k + 1 \in R
  <2> DEFINE c == chars[k + 1]
             a == w[k]
             b == v[k]
             a2 == w[k + 1]
             b2 == v[k + 1]
  <2>1. k + 1 \in 1 .. n /\ (k + 1) - 1 = k /\ k \in 0 .. n /\ k + 1 \in 0 .. n
    BY <1>1
  <2>2. a \in States(D) /\ b \in States(D) /\ c \in Letters
    BY <2>1, <1>1, <1>3, <1>6
  <2>3. a2 = String2convStep(by, a, c) /\ b2 = String2convStep(back, b, c)
    BY <2>1, <1>3, <1>6
  <2>4. (a.might <=> b.might) /\ a.long = b.long /\ a.pos = b.pos
    BY <1>8
  <2>5. \A p \in D : a.words[p] + b.words[p] = block[p] + turned[p]
    BY <1>8
  <2> HIDE DEF a, b, a2, b2, c
  <2>6. Steps(a2, by, a, c) /\ Steps(b2, back, b, c)
    BY <2>2, <2>3, StepIs
  <2>7. /\ a2.words = IF a.might /\ c = "s" THEN [a.words EXCEPT ![a.pos] = @ + by] ELSE a.words
        /\ b2.words = IF b.might /\ c = "s" THEN [b.words EXCEPT ![b.pos] = @ + back] ELSE b.words
    BY <2>6 DEF Steps
  <2>8. (a2.might <=> b2.might) /\ a2.long = b2.long /\ a2.pos = b2.pos
    BY <2>4, <2>6 DEF Steps
  <2>9. ASSUME NEW p \in D PROVE a2.words[p] + b2.words[p] = block[p] + turned[p]
    <3>1. a.words \in [D -> Int] /\ b.words \in [D -> Int]
      BY <2>2 DEF States
    <3>2. CASE a.might /\ c = "s"
      <4>1. /\ a2.words[p] = IF p = a.pos THEN a.words[p] + by ELSE a.words[p]
            /\ b2.words[p] = IF p = a.pos THEN b.words[p] + back ELSE b.words[p]
        BY <2>4, <2>7, <3>1, <3>2
      <4>2. a.words[p] \in Int /\ b.words[p] \in Int
        BY <3>1
      <4>3. a2.words[p] + b2.words[p] = a.words[p] + b.words[p]
        <5>1. \A x, y \in Int : (x + by) + (y + back) = x + y
          OBVIOUS
        <5>. QED
          BY <4>1, <4>2, <5>1
      <4>. QED
        BY <4>3, <2>5
    <3>3. CASE ~ (a.might /\ c = "s")
      <4>1. a2.words = a.words /\ b2.words = b.words
        BY <2>4, <2>7, <3>3
      <4>. QED
        BY <4>1, <2>5
    <3>. QED
      BY <3>2, <3>3
  <2>10. Same(k + 1) /\ Sum(k + 1)
    BY <2>8, <2>9 DEF a2, b2
  <2> HIDE DEF Same, Sum
  <2>. QED
    BY <2>1, <2>10
<1>9. Sum(n)
  <2>1. \A k \in 0 .. n : k \in R
    <3> HIDE DEF R
    <3>. QED
      BY <1>1, <1>7, <1>8, InductionTo
  <2> HIDE DEF Sum, Same
  <2>. QED
    BY <2>1, <1>1
<1>10. v[n].words \in [D -> Int] /\ w[n].words = turned
  <2>1. v[n] \in States(D)
    BY <1>1, <1>6
  <2>2. v[n].words \in [D -> Int]
    BY <2>1 DEF States
  <2>. QED
    BY <1>2, <2>2 DEF n
<1>11. \A p \in D : v[n].words[p] = block[p]
  <2> TAKE p \in D
  <2>1. turned[p] + v[n].words[p] = block[p] + turned[p]
    BY <1>9, <1>10
  <2>2. turned[p] \in Int /\ v[n].words[p] \in Int /\ block[p] \in Int
    BY <1>4, <1>10
  <2>. QED
    BY <2>1, <2>2
<1>12. v[n].words = block
  BY <1>10, <1>11
<1>. QED
  BY <1>4, <1>5, <1>12 DEF n

(* The block with the strings among its first m arguments converted.       *)
StringsAmong(f, s, m) ==
    {Layout(f, s)[k] : k \in {j \in 1 .. m : Taken(f)[j] = "string"}}

Marked(f, s, m) ==
    [p \in s .. BlockEnd(f, s) |-> IF p \in StringsAmong(f, s, m) THEN 1 ELSE 0]

(* One argument more.  Its word is none of the words before it.            *)
LEMMA MarkedMore ==
  ASSUME NEW f \in Seq(Directive), NEW s \in Nat, NEW k \in 1 .. Len(Taken(f)),
         NEW m, m = k - 1
  PROVE  Marked(f, s, k) =
             IF Taken(f)[k] = "string"
             THEN [Marked(f, s, m) EXCEPT ![Layout(f, s)[k]] = @ + 1]
             ELSE Marked(f, s, m)
<1> DEFINE n == Len(Taken(f))
           L == Layout(f, s)
           A == StringsAmong(f, s, m)
           B == StringsAmong(f, s, k)
           D == s .. BlockEnd(f, s)
<1>1. n \in Nat /\ k \in 1 .. n /\ m \in 0 .. n
  BY TakenAre
<1>2. \A j \in 1 .. m : j \in 1 .. n /\ j < k
  BY <1>1
<1>3. \A j \in 1 .. n : L[j] \in Nat
  BY <1>1, LayoutGrows
<1>4. \A j \in 1 .. m : L[j] # L[k]
  <2> TAKE j \in 1 .. m
  <2>1. L[j] < L[k] /\ L[j] \in Nat /\ L[k] \in Nat
    BY <1>1, <1>2, <1>3, LayoutGrows
  <2>. QED
    BY <2>1
<1>5. \A j : j \in 1 .. k <=> (j \in 1 .. m \/ j = k)
  BY <1>1
<1>6. L[k] \notin A
  BY <1>4 DEF StringsAmong
<1>7. CASE Taken(f)[k] = "string"
  <2>1. B = A \cup {L[k]}
    BY <1>5, <1>7 DEF StringsAmong
  <2> HIDE DEF A, B, L, D
  <2>2. [p \in D |-> IF p \in B THEN 1 ELSE 0]
            = [[p \in D |-> IF p \in A THEN 1 ELSE 0] EXCEPT ![L[k]] = @ + 1]
    BY <1>6, <2>1
  <2>. QED
    BY <1>7, <2>2 DEF Marked, A, B, L, D
<1>8. CASE Taken(f)[k] # "string"
  <2>1. B = A
    BY <1>5, <1>8 DEF StringsAmong
  <2>. QED
    BY <1>8, <2>1 DEF Marked
<1>. QED
  BY <1>7, <1>8

(* Without padding an argument is where the one before it ends.            *)
LEMMA GaplessIs ==
  ASSUME NEW f \in Seq(Directive), NEW s \in Nat, Gapless(f, s), NEW k \in 1 .. Len(Taken(f))
  PROVE  Layout(f, s)[k] = After(f, s, k)
<1>1. Len(Taken(f)) \in Nat
  BY TakenAre
<1>2. CASE k = 1
  BY <1>2 DEF Gapless, After
<1>3. CASE k # 1
  <2>1. k - 1 \in 1 .. Len(Taken(f)) - 1 /\ (k - 1) + 1 = k
    BY <1>1, <1>3
  <2>2. Layout(f, s)[(k - 1) + 1] = Layout(f, s)[k - 1] + SizeOf(Taken(f)[k - 1])
    BY <2>1 DEF Gapless
  <2>. QED
    BY <1>3, <2>1, <2>2 DEF After
<1>. QED
  BY <1>2, <1>3

(* What the walk has done when it has read k characters: every string      *)
(* before it is converted and nothing else is.                             *)
Converts(f, s, k, q) ==
    \E i, j : /\ Spot(f, i, j) /\ k = CharsBefore(f)[i] + j
              /\ Knows(f, i, j, q.might, q.long)
              /\ q.pos = After(f, s, TakenBefore(f)[i] + 1)
              /\ q.words = Marked(f, s, TakenBefore(f)[i])

(* What a walk knows is a matter of two fields.                            *)
LEMMA KnowsSame ==
  ASSUME NEW f, NEW i, NEW j, NEW might, NEW long, Knows(f, i, j, might, long),
         NEW might2 \in BOOLEAN, might2 <=> might, NEW long2, might => long2 = long
  PROVE  Knows(f, i, j, might2, long2)
BY DEF Knows

(* The next character keeps that.                                          *)
LEMMA ConvertsNext ==
  ASSUME NEW f \in Seq(Directive), NEW s \in Nat, Understood(f), Gapless(f, s),
         NEW D, NEW q \in States(D), NEW k \in Nat, k < Len(Chars(f)), Converts(f, s, k, q),
         NEW c, c = Chars(f)[k + 1], NEW r \in States(D), Steps(r, 1, q, c)
  PROVE  Converts(f, s, k + 1, r)
<1>1. PICK i, j : /\ Spot(f, i, j) /\ k = CharsBefore(f)[i] + j
                  /\ Knows(f, i, j, q.might, q.long)
                  /\ q.pos = After(f, s, TakenBefore(f)[i] + 1)
                  /\ q.words = Marked(f, s, TakenBefore(f)[i])
  BY Zenon DEF Converts
<1>2. PICK i2, j2 : /\ Spot(f, i2, j2) /\ k + 1 = CharsBefore(f)[i2] + j2
                    /\ NextChar(f, i, j, q.might, q.long, c, i2, j2)
  BY <1>1, CharByChar, Zenon
<1>3. i \in 1 .. Len(f) + 1 /\ i2 \in 1 .. Len(f) + 1
  BY <1>1, <1>2 DEF Spot
<1>4. TakenBefore(f)[i] \in Nat /\ TakenBefore(f)[i2] \in Nat
  BY <1>3, TakenBounded
<1>5. q.might \in BOOLEAN /\ r.might \in BOOLEAN
  BY DEF States
<1>6. Advances(f, i, i2) => TakenBefore(f)[i2] = TakenBefore(f)[i]
  BY DEF Advances
<1> DEFINE OK == /\ Knows(f, i2, j2, r.might, r.long)
                 /\ r.pos = After(f, s, TakenBefore(f)[i2] + 1)
                 /\ r.words = Marked(f, s, TakenBefore(f)[i2])
<1>7. CASE ~ q.might /\ c = "%" /\ i2 = i /\ Knows(f, i2, j2, TRUE, 0)
  <2>1. r.might /\ r.long = 0 /\ r.pos = q.pos /\ r.words = q.words
    BY <1>7 DEF Steps
  <2>2. Knows(f, i2, j2, r.might, r.long)
    BY <1>5, <1>7, <2>1, KnowsSame
  <2>. QED
    BY <1>1, <1>2, <1>7, <2>1, <2>2, Zenon DEF Converts
<1>8. CASE ~ q.might /\ c # "%" /\ Knows(f, i2, j2, FALSE, q.long) /\ Advances(f, i, i2)
  <2>1. ~ r.might /\ r.pos = q.pos /\ r.words = q.words
    BY <1>8 DEF Steps
  <2>2. Knows(f, i2, j2, r.might, r.long)
    BY <1>5, <1>8, <2>1, KnowsSame
  <2>. QED
    BY <1>1, <1>2, <1>6, <1>8, <2>1, <2>2, Zenon DEF Converts
<1>9. CASE q.might /\ c \in Modifier /\ i2 = i /\ Knows(f, i2, j2, TRUE, Length(c, q.long))
  <2>1. r.might /\ r.long = Length(c, q.long) /\ r.pos = q.pos /\ r.words = q.words
    BY <1>9 DEF Steps, Modifier
  <2>2. Knows(f, i2, j2, r.might, r.long)
    BY <1>5, <1>9, <2>1, KnowsSame
  <2>. QED
    BY <1>1, <1>2, <1>9, <2>1, <2>2, Zenon DEF Converts
<1>10. CASE q.might /\ c \in {"*", "%", "n"} /\ Knows(f, i2, j2, FALSE, q.long) /\ Advances(f, i, i2)
  <2>1. ~ r.might /\ r.pos = q.pos /\ r.words = q.words
    BY <1>10 DEF Steps, Modifier
  <2>2. Knows(f, i2, j2, r.might, r.long)
    BY <1>5, <1>10, <2>1, KnowsSame
  <2>. QED
    BY <1>1, <1>2, <1>6, <1>10, <2>1, <2>2, Zenon DEF Converts
<1>11. CASE /\ q.might /\ c \in {"d", "f", "s"} /\ Knows(f, i2, j2, FALSE, q.long)
            /\ TakenBefore(f)[i] + 1 \in 1 .. Len(Taken(f))
            /\ TakenBefore(f)[i2] = TakenBefore(f)[i] + 1
            /\ Taken(f)[TakenBefore(f)[i] + 1] = TypeRead(c, q.long)
  <2> DEFINE t == TakenBefore(f)[i] + 1
  <2>1. t \in 1 .. Len(Taken(f)) /\ TakenBefore(f)[i] = t - 1 /\ TakenBefore(f)[i2] = t
    BY <1>4, <1>11
  <2>2. Taken(f)[t] = TypeRead(c, q.long)
    BY <1>11
  <2>3. q.pos = After(f, s, t)
    BY <1>1
  <2> HIDE DEF t
  <2>4. Layout(f, s)[t] = After(f, s, t) /\ After(f, s, t + 1) = Layout(f, s)[t] + SizeOf(Taken(f)[t])
    BY <2>1, GaplessIs, LayoutGrows
  <2>5. ~ r.might /\ r.pos = q.pos + SizeOf(TypeRead(c, q.long))
        /\ r.words = IF c = "s" THEN [q.words EXCEPT ![q.pos] = @ + 1] ELSE q.words
    BY <1>11 DEF Steps, Modifier
  <2>6. Knows(f, i2, j2, r.might, r.long)
    <3>1. Knows(f, i2, j2, FALSE, q.long) /\ ~ r.might
      BY <1>11, <2>5
    <3>. QED
      BY <1>5, <3>1, KnowsSame
  <2>7. r.pos = After(f, s, TakenBefore(f)[i2] + 1)
    BY <2>1, <2>2, <2>3, <2>4, <2>5
  <2>8. c = "s" <=> Taken(f)[t] = "string"
    BY <1>11, <2>2 DEF TypeRead
  <2>9. Marked(f, s, t) = IF Taken(f)[t] = "string"
                          THEN [Marked(f, s, t - 1) EXCEPT ![Layout(f, s)[t]] = @ + 1]
                          ELSE Marked(f, s, t - 1)
    BY <2>1, MarkedMore
  <2>10. q.words = Marked(f, s, t - 1)
    BY <1>1, <2>1
  <2>11. r.words = Marked(f, s, TakenBefore(f)[i2])
    BY <2>1, <2>3, <2>4, <2>5, <2>8, <2>9, <2>10
  <2>. QED
    BY <1>2, <2>6, <2>7, <2>11, Zenon DEF Converts
<1>. QED
  BY <1>2, <1>7, <1>8, <1>9, <1>10, <1>11 DEF NextChar

(* The walk to the native side converts the words of the strings, when no  *)
(* padding comes before an argument.                                       *)
LEMMA ConvertsAll ==
  ASSUME NEW f \in Seq(Directive), NEW s \in Nat, Understood(f), Gapless(f, s)
  PROVE  LibcString2conv(1, Chars(f), s, Block(f, s)) =
             [p \in s .. BlockEnd(f, s) |-> IF p \in StringWords(f, s) THEN 1 ELSE 0]
<1> DEFINE chars == Chars(f)
           n == Len(Chars(f))
           D == s .. BlockEnd(f, s)
           block == Block(f, s)
           w == WalkOver(1, chars, s, block, D)
<1>1. chars \in Seq(Letters) /\ n \in Nat /\ CharPlaces(f, CharsBefore(f))
  BY CharsAre
<1>2. \A k \in 1 .. n : chars[k] \in Letters
  BY <1>1, ElementOfSeq
<1>3. block \in [D -> Int]
  BY DEF Block
<1> HIDE DEF w, D, block
<1>4. Walks(w, 1, chars, s, block, D) /\ LibcString2conv(1, chars, s, block) = w[n].words
  BY <1>1, <1>3, 1 \in Int, WalkIs DEF w
<1> HIDE DEF n, chars
<1>5. /\ w \in [0 .. n -> States(D)]
      /\ w[0] = [might |-> FALSE, long |-> 0, pos |-> s, words |-> block]
      /\ \A k \in 1 .. n : w[k] = String2convStep(1, w[k - 1], chars[k])
  BY <1>4 DEF Walks, n, chars
<1>6. Len(f) \in Nat /\ CharsBefore(f)[1] = 0 /\ TakenBefore(f)[1] = 0
  BY <1>1, TakenAre, LenProperties DEF CharPlaces, TakenPlaces
<1> DEFINE R == {k \in 0 .. n : Converts(f, s, k, w[k])}
<1>7. 0 \in R
  <2>1. Spot(f, 1, 0)
    <3>1. 1 <= Len(f) => 0 < Len(f[1].chars)
      <4>1. 1 <= Len(f) => f[1] \in Directive
        BY <1>6, ElementOfSeq
      <4>. QED
        BY <4>1, DirectiveFields
    <3>. QED
      BY <1>6, <3>1 DEF Spot
  <2>2. w[0].might = FALSE /\ w[0].long = 0 /\ w[0].pos = s /\ w[0].words = block
    BY <1>5
  <2>3. Knows(f, 1, 0, w[0].might, w[0].long)
    <3>1. ~ (0 > 0)
      OBVIOUS
    <3>2. ~ InConversion(f[1], 0)
      BY <3>1, Zenon DEF InConversion
    <3>. QED
      BY <2>2, <3>2 DEF Knows
  <2>4. After(f, s, TakenBefore(f)[1] + 1) = s
    BY <1>6 DEF After
  <2>5. block = Marked(f, s, TakenBefore(f)[1])
    <3>1. StringsAmong(f, s, 0) = {}
      BY DEF StringsAmong
    <3>. QED
      BY <1>6, <3>1 DEF Marked, block, Block, D
  <2>6. 0 = CharsBefore(f)[1] + 0
    BY <1>6
  <2>7. Converts(f, s, 0, w[0])
    BY <2>1, <2>2, <2>3, <2>4, <2>5, <2>6, Zenon DEF Converts
  <2>. QED
    BY <1>1, <2>7 DEF n
<1>8. ASSUME NEW k \in 0 .. n - 1, k \in R PROVE k + 1 \in R
  <2>1. k + 1 \in 1 .. n /\ (k + 1) - 1 = k /\ k \in 0 .. n /\ k + 1 \in 0 .. n /\ k \in Nat /\ k < n
    BY <1>1 DEF n
  <2>2. w[k] \in States(D) /\ w[k + 1] \in States(D) /\ chars[k + 1] \in Letters
    BY <2>1, <1>2, <1>5
  <2>3. w[k + 1] = String2convStep(1, w[k], chars[k + 1])
    BY <2>1, <1>5
  <2>4. Steps(w[k + 1], 1, w[k], chars[k + 1])
    BY <2>2, <2>3, StepIs, 1 \in Int
  <2>5. Converts(f, s, k, w[k])
    BY <1>8
  <2>6. Converts(f, s, k + 1, w[k + 1])
    BY <2>1, <2>2, <2>4, <2>5, ConvertsNext DEF n, chars
  <2>. QED
    BY <2>1, <2>6
<1>9. Converts(f, s, n, w[n])
  <2>1. \A k \in 0 .. n : k \in R
    <3> HIDE DEF R
    <3>. QED
      BY <1>1, <1>7, <1>8, InductionTo DEF n
  <2>2. n \in 0 .. n
    BY <1>1 DEF n
  <2>. QED
    BY <2>1, <2>2
<1>10. PICK i, j : /\ Spot(f, i, j) /\ n = CharsBefore(f)[i] + j
                   /\ w[n].words = Marked(f, s, TakenBefore(f)[i])
  BY <1>9, Zenon DEF Converts
<1>11. i = Len(f) + 1
  <2>1. SUFFICES ASSUME i # Len(f) + 1 PROVE FALSE
    OBVIOUS
  <2>2. i \in 1 .. Len(f) /\ j \in Nat /\ j < Len(f[i].chars)
    BY <1>6, <1>10, <2>1 DEF Spot
  <2>3. j + 1 \in 1 .. Len(f[i].chars)
    <3>1. Len(f[i].chars) \in Nat
      BY <2>2, ElementOfSeq, DirectiveFields
    <3>. QED
      BY <2>2, <3>1
  <2>4. CharsBefore(f)[i] + (j + 1) \in 1 .. n /\ CharsBefore(f)[i] \in Nat
    <3>1. i \in 1 .. Len(f) + 1
      BY <1>6, <2>2
    <3>2. CharsBefore(f)[i] \in Nat
      BY <1>1, <3>1 DEF CharPlaces
    <3>3. CharsBefore(f)[i] + (j + 1) \in 1 .. n
      BY <1>1, <2>2, <2>3, Zenon DEF CharPlaces, n
    <3>. QED
      BY <3>2, <3>3
  <2>. QED
    BY <1>1, <1>10, <2>2, <2>4 DEF n
<1>12. TakenBefore(f)[i] = Len(Taken(f))
  BY <1>11, TakenAre DEF TakenPlaces
<1>13. StringsAmong(f, s, Len(Taken(f))) = StringWords(f, s)
  <2>1. DOMAIN Taken(f) = 1 .. Len(Taken(f))
    BY TakenAre, LenProperties
  <2>. QED
    BY <2>1 DEF StringsAmong, StringWords
<1>. QED
  BY <1>4, <1>10, <1>12, <1>13 DEF Marked, n, chars, block, D

(***************************************************************************)
(* The two walks around a native function.                                 *)
(***************************************************************************)

NativeBlock == LibcString2conv(1, Chars(format), start, Block(format, start))

(* The block is the application's until the first walk and after the       *)
(* second; between them it is what the first walk has made of it.          *)
WordsInv ==
    /\ pc \in {"called", "native", "back", "formatting", "returned"}
    /\ result \in {"none", "0", "native", "count"}
    /\ words \in [start .. BlockEnd(format, start) -> Int]
    /\ pc \in {"called", "formatting"} => words = Block(format, start)
    /\ pc \in {"native", "back"} => words = NativeBlock
    /\ pc = "returned" => call = "vasprintf" \/ words = Block(format, start)

(* The first walk starts from the block, the second from its result.       *)
LEMMA TurnedIs ==
  ASSUME InputInv
  PROVE  /\ NativeBlock \in [start .. BlockEnd(format, start) -> Int]
         /\ Block(format, start) \in [start .. BlockEnd(format, start) -> Int]
         /\ LibcString2conv(NativeToApp, Chars(format), start, NativeBlock) = Block(format, start)
<1>1. format \in Seq(Directive) /\ start \in Nat
  BY InputIs
<1>2. Chars(format) \in Seq(Letters)
  BY <1>1, CharsAre
<1>3. Block(format, start) \in [start .. BlockEnd(format, start) -> Int]
  BY DEF Block
<1>4. 1 \in Int /\ NativeToApp \in Int /\ 1 + NativeToApp = 0
  BY DEF NativeToApp
<1> DEFINE D == start .. BlockEnd(format, start)
           block == Block(format, start)
           back == NativeToApp
           one == 1
           turned == LibcString2conv(one, Chars(format), start, block)
<1>5. block \in [D -> Int] /\ one \in Int /\ back \in Int /\ one + back = 0
  BY <1>3, <1>4
<1> HIDE DEF D, block, back, one
<1>6. turned \in [D -> Int] /\ LibcString2conv(back, Chars(format), start, turned) = block
  BY <1>1, <1>2, <1>5, BlockTurnsBack
<1>. QED
  BY <1>3, <1>6 DEF D, block, back, one, NativeBlock

(* Whatever the native, a walk is the walk of the libc glue.               *)
LEMMA ConvIs ==
  ASSUME NEW by
  PROVE  String2conv(by) = LibcString2conv(by, Chars(format), start, words)
BY DEF String2conv, DbusString2conv, DfxString2conv

(* A call starts with the application's block.                             *)
LEMMA WordsStart ==
  ASSUME FormatInit PROVE WordsInv
<1>1. InputInv
  BY DEF FormatInit, InputInv
<1>2. words = Block(format, start) /\ pc = "called" /\ result = "none"
  BY DEF FormatInit
<1>. QED
  BY <1>1, <1>2, TurnedIs DEF WordsInv

(* A step that leaves the block alone.                                     *)
LEMMA WordsRest ==
  ASSUME WordsInv, UNCHANGED <<input, words>>, pc' \in {"called", "native", "back", "formatting", "returned"},
         result' \in {"none", "0", "native", "count"},
         \/ pc' = pc
         \/ pc = "called" /\ pc' \in {"formatting", "returned"}
         \/ pc = "native" /\ pc' = "back"
         \/ pc = "formatting" /\ pc' = "returned"
         \/ pc = "back" /\ pc' = "returned" /\ call = "vasprintf"
  PROVE  WordsInv'
<1>1. format' = format /\ start' = start /\ call' = call /\ words' = words
  BY DEF input
<1>2. NativeBlock' = NativeBlock
  BY <1>1 DEF NativeBlock
<1>. QED
  BY <1>1, <1>2 DEF WordsInv

(* The two conversions.                                                    *)
LEMMA WordsTurn ==
  ASSUME InputInv, WordsInv, NEW calls PROVE (ToNative(calls) => WordsInv') /\ (ToApp(calls) => WordsInv')
<1>1. ASSUME ToNative(calls) PROVE WordsInv'
  <2>1. /\ format' = format /\ start' = start /\ call' = call /\ pc' = "native" /\ pc = "called"
        /\ result' = result /\ words' = String2conv(AppToNative)
    BY <1>1 DEF ToNative, input
  <2>2. NativeBlock' = NativeBlock
    BY <2>1 DEF NativeBlock
  <2>3. words' = NativeBlock
    BY <2>1, ConvIs DEF WordsInv, NativeBlock, AppToNative
  <2>. QED
    BY <2>1, <2>2, <2>3, TurnedIs DEF WordsInv
<1>2. ASSUME ToApp(calls) PROVE WordsInv'
  <2>1. /\ format' = format /\ start' = start /\ call' = call /\ pc' = "returned" /\ pc = "back"
        /\ result' = "native" /\ words' = String2conv(NativeToApp)
    BY <1>2 DEF ToApp, input
  <2>2. words = NativeBlock
    BY <2>1 DEF WordsInv
  <2>3. words' = Block(format, start)
    BY <2>1, <2>2, ConvIs, TurnedIs
  <2>. QED
    BY <2>1, <2>3, TurnedIs DEF WordsInv
<1>. QED
  BY <1>1, <1>2

(* Every step keeps what the block holds.                                  *)
LEMMA WordsStep ==
  ASSUME InputInv, WordsInv, [FormatNext]_formatVars PROVE WordsInv'
<1>0. /\ pc \in {"called", "native", "back", "formatting", "returned"}
      /\ result \in {"none", "0", "native", "count"}
  BY DEF WordsInv
<1>1. CASE NativeReturns
  BY <1>0, <1>1, WordsRest DEF NativeReturns
<1>2. CASE Printf
  BY <1>0, <1>2, WordsRest, WordsTurn DEF Printf
<1>3. CASE Vasprintf
  BY <1>0, <1>3, WordsRest, WordsTurn DEF Vasprintf
<1>4. CASE SendEventMisightF \/ DbusSetError
  BY <1>4, WordsTurn DEF SendEventMisightF, DbusSetError
<1>5. CASE Snprintf \/ Sprintf
  BY <1>0, <1>5, WordsRest DEF Snprintf, Sprintf, PrintBegins, PrintEnds
<1>6. CASE VprintfWa
  <2>1. UNCHANGED <<input, words>> /\ pc = "formatting"
    BY <1>6 DEF VprintfWa, Literal, Modify, PrepareTempFormatFails, Integer, Double, String,
                Other, Conversion, Fetch
  <2>2. (pc' = pc \/ pc' = "returned") /\ (result' = result \/ result' = "0")
    BY <1>6 DEF VprintfWa, Literal, Modify, PrepareTempFormatFails, Integer, Double, String,
                Other, CheckVaArg, Give0, OutputTempFormat
  <2>. QED
    BY <1>0, <2>1, <2>2, WordsRest
<1>7. CASE UNCHANGED formatVars
  BY <1>0, <1>7, WordsRest DEF formatVars, input
<1>. QED
  BY <1>1, <1>2, <1>3, <1>4, <1>5, <1>6, <1>7 DEF FormatNext

(* The first walk converts the words of the strings, for every format that *)
(* it reads as C does and whose arguments leave no gap; the second walk    *)
(* turns back whatever the first has converted, for every format: the      *)
(* application's block is restored (libc_bypass.c:433-520).                *)
THEOREM TurnsStrings == FormatSpec => []StringsTurned
<1>1. FormatInit => InputInv /\ WordsInv
  BY WordsStart DEF FormatInit, InputInv
<1>2. InputInv /\ WordsInv /\ [FormatNext]_formatVars => (InputInv /\ WordsInv)'
  BY WordsStep, InputStep
<1>3. InputInv /\ WordsInv => StringsTurned
  <2>1. SUFFICES ASSUME InputInv, WordsInv PROVE ConvertsTheStrings /\ BlockRestored
    BY DEF StringsTurned
  <2>2. format \in Seq(Directive) /\ start \in Nat
    BY <2>1, InputIs
  <2>3. ConvertsTheStrings
    <3> SUFFICES ASSUME Understood(format), Gapless(format, start), pc = "native"
                 PROVE  \A p \in DOMAIN words :
                            words[p] = IF p \in StringWords(format, start) THEN 1 ELSE 0
      BY DEF ConvertsTheStrings, StringsAreNative
    <3>1. words = NativeBlock
      BY <2>1 DEF WordsInv
    <3>2. NativeBlock = [p \in start .. BlockEnd(format, start) |->
                            IF p \in StringWords(format, start) THEN 1 ELSE 0]
      BY <2>2, ConvertsAll DEF NativeBlock
    <3>. QED
      BY <3>1, <3>2
  <2>4. BlockRestored
    BY <2>1 DEF BlockRestored, WordsInv, Block
  <2>. QED
    BY <2>3, <2>4
<1>. QED
  BY <1>1, <1>2, <1>3, PTL DEF FormatSpec

(***************************************************************************)
(* The types.                                                              *)
(***************************************************************************)

FormatInv == InputInv /\ WalkInv /\ OutputInv /\ WordsInv

(* The invariant of the natives with a format, at first.                   *)
LEMMA FormatStarts == ASSUME FormatInit PROVE FormatInv
BY WalkStarts, OutputStarts, WordsStart DEF FormatInv

(* Every step keeps it.                                                    *)
LEMMA FormatStep ==
  ASSUME FormatInv, [FormatNext]_formatVars PROVE FormatInv'
BY WalkStep, InputStep, OutputStep, WordsStep DEF FormatInv

(* It implies the types.                                                   *)
LEMMA FormatTyped ==
  ASSUME FormatInv PROVE FormatTypeOK
<1>1. InputInv /\ WalkInv /\ OutputInv /\ WordsInv
  BY DEF FormatInv
<1>2. BlockEnd(format, start) \in Nat /\ start \in Nat
  <2>1. format \in Seq(Directive) /\ start \in Nat
    BY <1>1, InputIs
  <2>2. Len(Taken(format)) + 1 \in 1 .. Len(Taken(format)) + 1
    BY <2>1, TakenAre
  <2>. QED
    BY <2>1, <2>2, LayoutGrows
<1>3. ap \in start .. BlockEnd(format, start) /\ at \in 1 .. Len(Chars(format)) + 1 /\ long_ctr \in Nat
  BY <1>1, <1>2 DEF WalkInv
<1>4. ctx.count \in Nat
  <2>1. printed \in Nat
    BY <1>1 DEF OutputInv
  <2>2. PICK max \in Nat : ctx = IF result = "count" /\ printed < max
                                 THEN [Printed(max, printed) EXCEPT !.str = Append(@, "0")]
                                 ELSE Printed(max, printed)
    BY <1>1 DEF OutputInv
  <2>3. ctx.count = printed
    BY <2>2 DEF Printed
  <2>. QED
    BY <2>1, <2>3
<1>. QED
  BY <1>1, <1>3, <1>4 DEF FormatTypeOK, WordsInv

(* No walk leaves the block of its arguments, whatever the format          *)
(* (libc_bypass.c:140-347 and 433-520).                                    *)
THEOREM FormatTypeCorrect == FormatSpec => []FormatTypeOK
<1>1. FormatInit => FormatInv
  BY FormatStarts
<1>2. FormatInv /\ [FormatNext]_formatVars => FormatInv'
  BY FormatStep
<1>3. FormatInv => FormatTypeOK
  BY FormatTyped
<1>. QED
  BY <1>1, <1>2, <1>3, PTL DEF FormatSpec

-----------------------------------------------------------------------------
(* The parts together.  Every part keeps its invariant, the others rest.   *)
GlueInv == FormatInv /\ PointersInv /\ CompareInv

(* A part that rests is in one of its initial states.                      *)
LEMMA GlueStarts ==
  ASSUME GlueInit PROVE GlueInv
<1>1. FormatInv
  BY FormatStarts DEF GlueInit, FormatRests
<1>2. PointersInv
  <2>1. CASE part = "pointers"
    BY <2>1, PointerStarts DEF GlueInit
  <2>2. CASE part # "pointers"
    <3>1. PointerStart("strtol", 0, NoCells, {}, Arg("a"), Arg("b"))
      BY <2>2 DEF GlueInit, PointerRests
    <3>2. [NoCells EXCEPT !["a"] = Nil, !["b"] = Nil] = NoCells
      BY DEF NoCells, Field
    <3>3. PointerInit
      <4>1. /\ "strtol" \in CellNatives /\ "strtol" \in MayBeNull /\ "strtol" \notin NeedNonNull
            /\ Nil \in {Nil, App(1)} /\ Arg("a") \in {Arg("a"), Zero}
            /\ Arg("b") \in {Arg("a"), Arg("b"), Zero}
        BY DEF CellNatives, MayBeNull, NeedNonNull
      <4>2. Arg("b") # Arg("a") /\ Arg("b") # Zero
        BY DEF Arg, Zero, Next
      <4>3. PointerStart("strtol", 0, [NoCells EXCEPT !["a"] = Nil, !["b"] = Nil], {}, Arg("a"),
                         Arg("b"))
        BY <3>1, <3>2
      <4>. QED
        BY <4>1, <4>2, <4>3, Zenon DEF PointerInit
    <3>. QED
      BY <3>3, PointerStarts
  <2>. QED
    BY <2>1, <2>2
<1>3. CompareInv
  BY CompareInitInv DEF GlueInit, CompareRests
<1>. QED
  BY <1>1, <1>2, <1>3 DEF GlueInv

(* Every step is one part's.                                               *)
LEMMA GlueStep ==
  ASSUME GlueInv, [GlueNext]_glueVars PROVE GlueInv'
<1>1. [FormatNext]_formatVars
  BY DEF GlueNext, glueVars, Only
<1>2. [PointerNext]_pointerVars
  BY DEF GlueNext, glueVars, Only
<1>3. [CompareNext]_compareVars
  BY DEF GlueNext, glueVars, Only
<1>4. FormatInv'
  BY <1>1, FormatStep DEF GlueInv
<1>5. PointersInv'
  BY <1>2, PointersStep DEF GlueInv
<1>6. CompareInv'
  BY <1>3, CompareStepInv DEF GlueInv
<1>. QED
  BY <1>4, <1>5, <1>6 DEF GlueInv

(* Whatever native is called: no walk leaves its block, no loop runs past  *)
(* its array, and the comparison globals hold what they may hold           *)
(* (libc_bypass.c, dbus.c, wapi.c).                                        *)
THEOREM GlueTypeCorrect == GlueSpec => []GlueTypeOK
<1>1. GlueInit => GlueInv
  BY GlueStarts
<1>2. GlueInv /\ [GlueNext]_glueVars => GlueInv'
  BY GlueStep
<1>3. GlueInv => GlueTypeOK
  <2>1. PointersInv => PointerTypeOK
    BY DEF PointersInv, Kept, PointerTypeOK
  <2>2. CompareInv => CompareTypeOK
    BY DEF CompareInv
  <2>. QED
    BY <2>1, <2>2, FormatTyped DEF GlueInv, GlueTypeOK
<1>. QED
  BY <1>1, <1>2, <1>3, PTL DEF GlueSpec
=============================================================================
