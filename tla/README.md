# A verification project for frameworks_runtimes_wasm

The repository is the WebAssembly layer of openvela: the `lwac` command, which
runs one wasm module in a WAMR runtime that all runs share, and the native
modules that WAMR gives to applications (interrupts, D-Bus, libc, CHRE, Wi-Fi
and others), most of which are thin glue between an application's addresses
and C functions. This directory has TLA+ models of the parts that keep state,
TLC runs over small instances of them, and TLAPS proofs that hold for
instances of every size.

Line numbers are those of the modelled commit. Paths without a directory are
under `lwac/` (`lwac.c`, `registry` for `lwac_module_registry.c`), `irq/`
(`manager` for `wasm_irq_manager.c`), or named in full.

## 1. Inventory

| Component | State it keeps | Operations | Modelled in |
|---|---|---|---|
| lwac container, `lwac.c` | reference count and mutex of the WAMR runtime; per run: file, module, instance, exec_env | `main`, `lwac_runtime_init`/`_destroy`, `execute_wasm_module` | `Lwac`, `SharedRuntime` |
| module registry, `lwac_module_registry.c` | list, rwlock, id counter | register, unregister, find by id, find by name, count, print | `ModuleRegistry`, `RegistryApi`, `AtomicRegistry` |
| interrupt manager, `irq/wasm_irq_manager.c` | irq thread, status, semaphore, list of nodes | thread callback, register, unregister, create, exit | `WasmIrq` |
| interrupt natives, `irq/wasm_irq.c` | the installed handlers and lines | handler, attach, enable, disable, initialize, uninitialize | `WasmIrq` |
| D-Bus glue, `dbus/dbus.c` | eight static tables of callbacks; argument blocks and pointers it converts in place | register, call, free, set data, per table; append and get arguments, string arrays; bus, pending replies, iterators and errors (not modelled) | `DbusCallbacks` (six tables), `DbusSetData` (two), `DbusArgs`, `FormatArgs`, `NativePointers` |
| libc bypass glue, `libc_bypass/libc_bypass.c` | aligned allocation map, comparison function and its mutex, pthread_once routine; memory it converts in place | 37 glue functions, of the printf and scanf families, lists, cells, allocation, sorting | `FormatArgs`, `ScanfArgs`, `NativePointers`, `LibcHeap`, `CompareProxy`, `PthreadOnce` |
| CHRE glue, `chre/event_wrapper.cc` | maps from event and message data to free functions | send event, send message, free | `ChreEvents` |
| Wi-Fi glue, `wapi/wapi.c` | none; converts the caller's list and structures | scan_coll, scan_coll_free, associate, load, save, unload configuration | `NativePointers` |
| DFX glue, `dfx/dfx_wrapper.c` | none; converts an argument block | sendEventMisightF | `FormatArgs` |
| glue generator, `tools/mkwamrglue.py` | none | prints C wrappers from a CSV | the order of calls in them: `FormatArgs`, `ScanfArgs` |
| feature framework, memory, kvdb, netlib, xtables, libc glue; other CHRE wrappers | none | forward one call each, comparing pointers with NULL | no |
| `include/lwac/boardctl.h`, sysroot headers, vendor code, tests | none of their own | - | no |

How they interact. On NuttX's flat build every `lwac` command is a task of one
address space: static variables are shared by all of them. Each run calls
`lwac_runtime_init`, which initialises WAMR and registers all native modules
for the first user, then loads, instantiates and registers its module, calls
its entry function, and takes everything down. `lwac --ps` walks the registry
while others change it. An application calls native functions on its own
thread; the interrupt thread, libdbus, libc's `qsort` and CHRE call back into
its function table through proxies.

What is hard here:

- Concurrency. Runs overlap in `lwac_runtime_init`/`_destroy` and in the
  registry; the irq thread, the interrupt handler and the application share
  `wasm_irq_thread` and agree on sleep by two plain flags and a semaphore;
  the tables of the glue code are shared by all applications and not locked.
- Failure. Every WAMR call may fail, and the unwinding goes through five
  labels of two functions; a native module may fail to register; libdbus may have no memory
  after the glue code has taken a slot.
- Ordering. `exec_env` is destroyed before its node leaves the list;
  `irq_uninitialize` frees what installed handlers point to; a free function
  runs before its slot is released and may re-enter the glue code.
- Boundaries. 32-bit ids that wrap, names of 64 characters, tables of 64 slots,
  a map of aligned blocks that fills up, buffers of size 0.
- Memory with two readers. The application's linear memory is native memory:
  glue code rewrites pointers in it, in argument blocks, lists, arrays and
  structures, before a native function and after it. What is rewritten twice,
  or once only, or was not a pointer, is wrong for somebody.
- C callbacks without an argument. `qsort`, `bsearch` and `pthread_once` reach
  the application's function through globals.

What makes each component correct:

- lwac: the count is the number of users at every statement; the runtime is up
  exactly for its users; a run gives back all it took, in order; runs finish.
- registry: no walk meets a freed node; each call takes effect and is answered
  at one instant; ids are not handed out twice before they wrap.
- interrupts: a counted interrupt is served; a line the handler disabled does
  not stay so; the exit returns; nothing is read after it is freed (which is not
  so: section 6).
- D-Bus tables and CHRE's maps: a callback reaches the function registered for
  it; a slot or an entry is taken exactly as long as it is needed; what is
  replaced is freed.
- conversions: each pointer the native function follows is native, once, and
  each the application follows afterwards is the application's; arguments are
  read where the compiler put them.
- allocation: `free` frees the block it was given, once, while it is allocated.
- proxies: a sort compares with its own function, a control variable runs its
  own routine, in the right environment.

`PROJECT.json` lists every hazard found so far at its line, with the properties
that guard against it, or why there is none yet.

## 2. Modules

| Module | Of |
|---|---|
| `ModuleRegistry` | list, ids and rwlock of the registry: state and steps, no control |
| `Lwac` (extends it) | `main` of any number of concurrent runs |
| `SharedRuntime` | abstract: users start and stop a runtime in one step |
| `RegistryApi` (extends `ModuleRegistry`) | the registry's whole interface in any order |
| `AtomicRegistry` | abstract: each call of that interface in one step |
| `WasmIrq` | irq thread, interrupt handler, application |
| `DbusCallbacks` | the callback tables and libdbus's side of them |
| `DbusSetData` | the tables of data set on watches and timeouts |
| `DbusArgs` | the walk of dbus_message_append_args and _get_args |
| `ChreEvents` | the maps of events and messages |
| `FormatArgs` | the printf family: two walks of a format, and snprintf's buffer |
| `ScanfArgs` | the scanf family's walk of its arguments |
| `NativePointers` | natives whose arguments point to memory that holds pointers |
| `LibcHeap` | posix_memalign, free and the map between them |
| `CompareProxy`, `PthreadOnce` | callbacks that find their function in globals |
| `DataLemmas` | facts about sequences, finite sets and numbers that several proofs cite |
| `RegistryProofs` | lemmas about the steps of `ModuleRegistry` |
| `LwacProofs` | the theorems about `Lwac`, the refinement of `SharedRuntime` too |
| `RegistryApiProofs` | the theorems about `RegistryApi`, the refinement of `AtomicRegistry` too |
| `IrqProofs` | the theorems about `WasmIrq` |
| `CallbackProofs` | those about `DbusCallbacks`, `DbusSetData`, `ChreEvents` |
| `PointerProofs` | those about `NativePointers` |
| `GlueProofs` | those about `CompareProxy`, `PthreadOnce`, `LibcHeap`, `ScanfArgs`, `DbusArgs`, `FormatArgs`, and about the parts together |
| `MCLwac`, `MCRegistryApi`, `MCWasmIrq`, `MCFormatArgs` | instances for TLC |
| `MCCallbacks` | `DbusCallbacks`, `DbusSetData` and `ChreEvents` for TLC |
| `MCNativeGlue` | the seven modules from `DbusArgs`, `FormatArgs` to `PthreadOnce` for TLC |

The parts of `MCCallbacks` and of `MCNativeGlue` share no state in the code.
There a behaviour belongs to one part, chosen in the initial state; the others
rest. So one run asks one question of all of them.

Operators whose comment begins with "Bug:" are variants of the definition that
follows them, each with one plausible mistake in the code. They are part of no
specification; they show which property notices that mistake.

### Lwac and ModuleRegistry

`pc[t]` names the statement of task `t`; the labels of the model are those of
the code. `held[t]` is what the run has acquired: "file" (`load_file`),
"module" (`wasm_runtime_load`), "module_inst", "exec_env". `ret[t]` is
`main`'s `ret`, with the two zeros told apart: "parsed" is the one left by
`parse_arguments`, "done" the one of a run that did its job. `runtime` counts
`wasm_runtime_init` minus `wasm_runtime_destroy`; `lost_inits` is history, the
inits whose caller then failed to register a native module.

| Code | Actions |
|---|---|
| `parse_arguments` 151-232, `main` 431-487 | `ParseArguments`, `CheckXip`, `Exit` |
| `load_file` 241-296, `free_file_content` 304-313 | `LoadFile`, `FreeFileContent` |
| `lwac_runtime_init` 86-113 | `InitLock`, `WasmRuntimeInit`, `RegisterNatives`, `CountIn`, `InitUnlock` |
| `lwac_runtime_destroy` 116-129 | `DestroyLock`, `CountOut`, `WasmRuntimeDestroy`, `DestroyUnlock` |
| `execute_wasm_module` 335-429 | `Load`, `Instantiate`, `CreateExecEnv`, `LookupEntry`, `CallWasm`, `DestroyExecEnv`, `Deinstantiate`, `Unload` |
| `lwac__register_wasm_module` registry 37-76 | `AllocInfo`, `RegisterLock`, `RegisterLink`, `RegisterUnlock` |
| `lwac__unregister_wasm_module` registry 81-113 | `UnregisterLock`, `UnregisterUnlink`, `UnregisterUnlock` |
| `lwac__print_running_modules` registry 193-273 | `PsLock`, `PsPrintRow`, `PsUnlock` |

A task runs one module at a time, so it stands for its module instance and for
the instance's node. WAMR and the operating system are external: a call that
can fail does either. The read-write lock is NuttX's: a reader waits for a
writer only, a writer for everybody.

### RegistryApi

Tasks register and unregister a module each, and ask about the others, in any
order; two of the three tasks run the same file, so names are not unique. A
question walks the list one node per step. `StoredName` is what `strlcpy`
(registry 57) keeps of a name: the identity on names that fit, something else
on a long one. The refinement maps the list itself to the abstract list: a
registration takes effect at `Link`, an answer is true at `Reply`, which is
under the read lock.

### WasmIrq

Three actors. The irq thread steps through `wasm_irq_thread_cb` (`thread_pc`;
`node` and `temp` are places in the list). The application calls the natives
and takes itself down (`app_pc`; `ExitFlag`, `ExitCheck`, `ExitJoined` are the
three statements of `wasm_irq_thread_exit` that matter). The handler runs to its end
in one step: we assume one core, as the bouffalo boards of `vendor/` have, where
nothing runs until an interrupt handler returns. `line[i]` is "masked"
when the handler disabled the interrupt itself (`wasm_irq.c` 38). `handler[i]`
is "live" once the operating system has installed it (`OsIrqAttach`, which may
fail and then leaves the node of `IrqAttach` in the list), and "stale" once the
`wasm_irq_thread` its node points to was freed: `irq_uninitialize` (90-94)
detaches nothing and turns no line off. `enables` is chosen in the initial
state: whether the application's callback ends with `irq_enable`, as in
`vendor/bouffalo/examples/gpio_interrupt`.

The application initializes first and uninitializes once; the code tests neither.
It enables and disables lines as it likes. An interrupt that reaches a stale
handler reads freed memory; the model has no such action, and claims nothing of
what follows.
`list_add_tail` is one step: it makes the node reachable with its last but one
store, and a walk that reads the list in between sees the old tail or the new
node, as before or after the step.
`wasm_interrupt_unregister` and the thread's RELEASED branch are left out: the
function is not exported and nothing calls it.

### DbusCallbacks

Six of the tables of `dbus.c` are the same code over different fields. `Rule`
has a row for each: the field that is NULL in a free slot, the field a callback
searches by and the field the free function searches by; the rows are at
401-511 (filters), 513-635 (object paths), 713-891 (watches), 893-1094
(timeouts), 1148-1257 (dispatch status) and 1440-1553 (pending calls). The
table is chosen in the initial state. libdbus is external: it accepts a
registration or refuses it for want of memory, keeps one set of watch, timeout
or status functions per connection and frees the one it replaces, and lets go
of a registration when it likes. `freeing` is the stack of free functions that
run: an application may register and let go from inside one.

`Distinct` states what the search by one pointer demands of the application;
without it the tables do go wrong, in ways listed as hazards (two object paths
on one connection, a second notify function on a pending call, one user data
pointer for two registrations). One task at a time uses D-Bus: the tables are
not locked, and two tasks that claim at once can take the same slot.

### DbusSetData

`dbus_watch_set_data` and `dbus_timeout_set_data` of dbus.c 1259-1436 keep, per
watch or timeout, what was set last and what was set before: libdbus calls the
free function of the pointer it lets go of after the glue has shifted the new
one in, so the C free function searches by the old pointer. `kept` is what
libdbus holds, `letting_go` the stack of free functions that run. `MaySet` has the
application keep a pointer for one object at a time, and set none for an object
from the free function of its own data. It may set an address again as soon as
the free function for it runs, whatever the table remembers of it: the
allocator hands out freed addresses again.

Three variables are history, written beside the code's own steps. `reused` has
the pointers that a slot, as new or as old data, or libdbus still had when they
were last set; `unplaced` the objects for which every slot was another's when
their data was set. `loss` says why nothing freed what libdbus let go of in the
last step. `Cause` works it out from the state before the step alone: the object
was finalised (which shifts no data to the old one), it was `unplaced`, or a slot
before the one with its data is free, where the loop at 1319 stops first. What
is lost without one of these causes is "lost". A `Store` that stored
nothing, or in no slot that `Cause` looks at, would be.

### ChreEvents

`eventDataMap` and `messageDataMap` (`chre/event_wrapper.cc` 19-102) have the
same code. CHRE is external: it queues an event or refuses it, and a refusal
calls the free function before `chreSendEvent` returns. It calls applications
from one event loop. A C++ iterator survives the erasure of other entries, not
of its own: a frame of `releasing` knows whether its iterator is still good.
`shared` marks pointers that were sent again before their free function had
returned, for which the map has one entry and CHRE two events.

### FormatArgs and ScanfArgs

Positions are 32-bit words. `Layout` is where a wasm32 compiler puts the
arguments of a directive list: 64-bit ones at multiples of eight bytes.
`LibcString2conv` and its copies in dbus.c 50-150 and dfx_wrapper.c 26-126 are
one walk, a recursive function of the format's characters; words are counted up
when made native and down when made the application's. `Directive` is C's
grammar of a directive, with the arguments it takes: any format built of these
may be passed. `_vprintf_wa` (140-347) takes a character a step;
`reads` records the words it reads arguments from. A character stands for all
with its case label. `printf`, `vasprintf`, `sendEventMisightF` and
`dbus_set_error` convert and pass on, `snprintf` and `sprintf` print.
`ScanfArgs` has the words of the block and what lies behind: `scanf_begin` and
`scanf_end` (527-551) walk to the first zero. Here and in `NativePointers` the
conversions are those of WAMR without bounds checks, which add or subtract the
base: `native_by` counts how often, and a word that is minus the base becomes
zero when it is added.

### NativePointers

A pointer is what it points to and how often it was converted. `mem` has the
places that hold pointers: four fields of a structure or cells, the elements of
a list or an array, and `Zero`, what lies at the application's address 0, which
NULL arrives as. `PointerInit` chooses the native and what it is passed, within
what its manual allows. Loops visit an element a step. The native function
is external: it stores, makes a list, adds to one, sets lengths, fails or frees.

| Code | Actions |
|---|---|
| libc_bypass.c 604-665 | `Sendmsg`, `Recvmsg` |
| 685-699, 777-866, 977-996, 1160-1212 | `Scandir`, `Strtol` (four functions), `Iconv`, `Versionsort`, `Strtod`, `LibcIoctlArgsConv` |
| 1220-1343 | `Getaddrinfo`, `Getifaddrs`, `Freeifaddrs` |
| wapi.c 41-294 | `WapiScanColl`, `WapiScanCollFree`, `WpaDriverWextAssociate`, `WapiLoadConfig`, `WapiSaveConfig`, `WapiUnloadConfig` |
| dbus.c 158-236, 1111-1144 | `DbusConnectionGetObjectPathData`, `DbusConnectionListRegistered`, `DbusFreeStringArray`, `DbusMessageIterAppendBasic` |

`glue_ioctl` reads its `va_list` for the call itself (1206), so that the
conversion back (1208) starts at the word behind the argument. `args[2]` is what
that word leads to: nothing (`Zero`), the structure of the argument, or another
structure of the application's. What 1165 makes of it is converted back, and the
argument's own pointer is not, unless the two are one. A word that leads nowhere
in particular is not modelled: the code then writes anywhere.

### DbusArgs

The block of type, address, type, address ... that `dbus_message_args_conv`
(dbus.c 252-327) walks and libdbus reads; each round of its loop is a step. `cells` are the application's
variables: an address may be converted, and the string in the cell. Four kinds
of type: those the two tests at 240-248 name, those they do not, and arrays.

### LibcHeap

Threads of several applications allocate with `malloc` and `posix_memalign` and
free each other's blocks. A pointer is a block and whether it is its start;
`g_aligned_memory_map` maps the latter's application addresses to blocks. The
semaphore, the search and the store are steps of their own. `posix_memalign`
takes a block, or fails: then it returns NULL, which is 0 and means success
(720-722), and the application has whatever pointer stood in its cell.
`dangling` has those, and the blocks that a full map made `posix_memalign` free
(730). After a wrong free, or once an application holds a dangling pointer, the
model stops.

### CompareProxy and PthreadOnce

Each assignment to a global is a step, as is each call back into the
application. `CompareReturns` or `CompareSorts`: the application's function
returns, or it sorts and waits for the mutex its own thread holds. In
`PthreadOnce` a control variable names its routine, and `disturbed` records that
a call with another variable came between a call and the proxy it leads to. The
proxy reads its two globals in two steps (`InitRoutineProxy`, `CallIndirect`).

## 3. Runs

| Run | Instance | Shows |
|---|---|---|
| `runs_safe` | 3 tasks, 1 lost init | types, the safety invariants of a run, the status it unwinds with, the runtime's accounting, and that `Lwac` implements `SharedRuntime` |
| `runs_live` | 2 tasks, fair | `RunsFinish` |
| `leak` | 2 tasks | finding: a failed native registration leaks the runtime |
| `ps_env` | 2 tasks | finding: `--ps` meets a destroyed exec_env |
| `registry` | 3 tasks, 2 askers, 4 ids | every order of the interface implements `AtomicRegistry`; walks; ids |
| `registry_name` | one long name | finding: a module with a long path is not found by name |
| `irq_safe` | 2 interrupts | lines, walk, and with fairness service and exit |
| `irq_lost` | 2 interrupts | finding: a lost wakeup |
| `irq_hang` | 1 interrupt, fair | finding: exit and irq thread wait for each other |
| `callbacks` | 3 slots, 3 owners, 4 data, 2 callbacks | callbacks and free functions reach their own slot or entry; slots, data and entries are accounted for, losses by their cause |
| `glue` | see bounds | conversions, argument walks, the heap and the proxies |
| `format_gap` | formats of up to 3 directives | finding: strings behind a gap are not converted |

Runs that end in a counterexample each state one sentence of the repository
and refute it; section 6 lists them.

### Bounds

- What section 5 lists is proved for every value of these constants; the bounds
  matter to the rest and to the counterexamples.
- Tasks. Three: one in a critical section, one that waits for it and one that
  already uses the runtime, walks the list, or will take the lock next.
- `MaxLostInits` = 1. Failed native registrations are counted by a history
  variable only; one is enough for every later init to see a runtime that is
  already up. The proofs take any number.
- `IdModulus` stands for 2^32. With 4, three modules and a counter that goes
  round are both reached. In `Lwac`, where ids are never compared, it is 1.
- `MaxRefs`, `MaxSem` = 2. They guard `Interrupt` only: an interrupt fires while
  its node has counted fewer than 2 and the semaphore holds fewer than 2. Two
  lets an interrupt be counted again while it is being served, and leaves more
  posts than nodes. A third would repeat what the second does: the code tests
  `refs > 0` and takes one post at a time.
- Slots = 3 stands for 64: a table that is full, one with a hole, and one with
  two holes in either order. Four data pointers leave one for a registration
  that finds the table full. `SetSlots` = 2: a slot keeps two pointers, so a
  hole before the object's slot and, with three objects, a full table are both
  reached. Two pointers: one that is kept and one that is handed out again.
  `FreesNested` = 1: the free function that runs may set other data, as long
  as nothing is freed by that; deeper nesting is covered by the proof.
- `QueueLimit` = 2 and `Nesting` = 2 of `ChreEvents`: two events with one pointer
  in flight, and a refusal inside the free function of another event.
- Formats of up to two directives, and of three of those that take arguments of
  different sizes: one before a gap, one that makes it, one behind it. Buffers of 0, 1 and
  3 bytes: none, the terminator alone, and some.
- `Nodes` = 3: a list has a first, an inner and a last element.
- `LibcHeap`: three blocks and a map of two, so that the map fills up while the
  heap is not full; three threads, two of one application. `OneWildBlock`: the
  pointer that a failed allocation leaves lies in one block, which stands for
  all; nothing is claimed of what follows.
- `CompareProxy`: two threads and two comparisons each, so that a sort goes on
  after another thread has tried. `PthreadOnce`: three
  threads and two control variables: two that meet on one, one that comes
  between.
- `DbusArgs`: up to three arguments in three cells. `ScanWords` = 5: two
  arguments, a zero, and variables on both sides of it.

Symmetry is used in runs without temporal properties only, over
interchangeable model values: tasks, interrupts, and the three kinds of
pointer of the callback tables and maps (`Alike`: all data pointers but one, as
permuting the fourth costs TLC more than it saves).

### Deadlock and fairness

`WasmIrq` and `DbusCallbacks` may really stop (the findings below; a table all
of whose slots are lost to refusals), a call of a native ends when it returns,
and threads that sort inside a comparison function wait for ever; the runs of
these do not check deadlock, the others do.

`RunsFinish` assumes weak fairness of the steps that need only a processor and
strong fairness of the steps that take a lock. NuttX schedules by priority and
lwac's tasks have one priority, so a runnable task runs; its mutexes hand over
to waiting tasks in order, which is what strong fairness of a lock says.
Nothing is assumed of the user (`ParseArguments`) or of the wasm code
(`CallWasm`), and readers that overlap for ever, which may starve a writer
under NuttX's rwlock, are excluded in the property itself.

`MaskedIsServed` and `ExitReturnsOutsideWindow` assume weak fairness of the irq
thread and of a teardown that has begun. Hardware need not interrupt, and the
application need not call anything.

`SortsFinish` assumes weak fairness of the thread that holds `g_compare_mutex`:
it runs, and a comparison function that does not sort returns. Nothing is
assumed of the threads that wait.

## 4. Properties worth a word

- `RefCountIsUsers` holds at every statement, also while the mutex is held. The
  labels from the count to the test belong to the user's section.
- `RuntimeAccounted` is the precise form of the comment at `lwac.c` 63-74: the
  runtime is up on users' account, on that of the last who is about to destroy
  it, or lost.
- `ListedModulesRun` is why `--ps` may ask a listed instance for its heap
  (registry 217); the same does not hold of the exec_env.
- `MaskedIsOnItsWay` is the inductive heart of the interrupt path: a disabled
  line means that the thread is awake or a post waits for it. The lost wakeup
  does not break it, because an interrupt that finds `WASM_IRQ_RUN` does not
  disable its line; so the next interrupt repairs the loss.
- `SlotsAccounted` fixes what the tables leak: the slots of registrations that
  libdbus refused, and no others.
- `ReachesItsOwn` rests on first-fit: a new registration never sits behind a
  stale slot with its own pointers, because that slot was free and earlier.
- `UnwindsWithItsStatus`: what failed in `execute_wasm_module` is reported,
  whichever label it unwinds through.
- Related statements about one structure are one property with named parts, each
  defined and commented above it: `SetIsFreed`,
  `EventsKeepTheirEntry`, `StringsTurned`, `NativeSeesNative`, `AppSeesItsOwn`,
  `MapIsExact`, `RunsAsCalled`, `ArgsTurned`, `ScanfStoresItsOwn`; and
  `CallbacksTypeOK` and `GlueTypeOK` join the type invariants of the parts.
- `SetIsFreed`: its part `ReplacedIsFreed` is the promise of set_data with its two
  exceptions, a slot that became free before the one in use and a table that was
  full when the data was set. `FreedAsSet` has the function called be the one
  set with the pointer, except for addresses handed out again while the glue or
  libdbus still had them. `RemembersTheLast` is why both hold otherwise: the first
  slot of an object is the one that is current.
- `EventsKeepTheirEntry`: its part `ErasesWhatItFound` says that the entry a C++
  iterator points to is still there when the application's function returns.
- `NativeSeesNative` and `AppSeesItsOwn` are the two sides of every conversion;
  the exceptions they name are where the code tells NULL from the base in one
  direction only, or reads a length that the native function has changed.
- `ReadsItsArguments` relates the walk to the compiler's layout, not to the code
  that computes it.
- `MapIsExact` is the invariant behind `FreesItsOwn`: one entry per aligned block
  that an application has, is about to be given or is about to give back.
- `ScanfStoresItsOwn` names the condition under which scanf is safe to call at all:
  a zero between the arguments and the variables.

## 5. What is proved

TLAPS checks each theorem from the definitions that TLC runs, for every value
of the constants that their assumptions allow. None of the properties is
inductive alone. Each proof names an inductive invariant, which TLC has checked
on the small instance too, except for `WalkInv` and `OutputInv`, which quantify
over all numbers; one lemma per action shows that the action keeps it, and PTL
combines them.

| Module | Theorems | Invariant |
|---|---|---|
| `LwacProofs` | `Invariance`, `TypeCorrect`, `RefCountCorrect`, `RuntimeCorrect`, `WalkersSafe`, `ListedCorrect`, `TeardownOrdered`, `CleanupComplete`, `StatusReported`, `SharedRuntimeImplemented` | `IInv` |
| `RegistryApiProofs` | `RegistryTypeCorrect`, `FindersSafe`, `IdsFall`, `AtomicRegistryImplemented` | `ApiInv` |
| `IrqProofs` | `IrqTypeCorrect`, `WalkStaysInList`, `MaskedIsNotLost` | `IrqInv` |
| `CallbackProofs` | `DbusTypeCorrect`, `ReachesItsOwnAlways`, `FreedByItsOwnAlways`, `SlotsStayAccounted` | `DbusInv` |
| | `SetIsFreedAlways` | `SetDataInv` |
| | `EventsKeepTheirEntryAlways`, `EntriesStayOutstanding` | `EventInv` |
| | `CallbacksTypeCorrect`, of `CallbacksSpec` | the three |
| `GlueProofs` | `ComparesWithItsOwnAlways` | `CompareInv` |
| | `OnceRunsItsOwn` | `OnceInv` |
| | `FreesItsOwnAlways`, `MapStaysExact` | `HeapInv` |
| | `ScanfStoresItsOwnAlways` | `ScanInv` |
| | `ArgsTurnedAlways` | `ArgsInv` |
| | `OutputAlwaysFits` | `OutputInv` |
| | `ReadsArguments` | `WalkInv` |
| | `TurnsStrings` | `WordsInv` |
| | `FormatTypeCorrect` | `FormatInv`, the three |
| | `GlueTypeCorrect`, of `GlueSpec` | `GlueInv`: `FormatInv`, `PointersInv`, `CompareInv` |
| `PointerProofs` | `PointersInvariant`, `PointerTypeCorrect`, `NativeReadsNative`, `AppReadsItsOwn`, `FreesOnlyGiven` | `PointersInv` |

`lwac`. That the count is right when `CountOut` tests it needs the mutex; that
no user is up when `WasmRuntimeInit` finds 0 needs the count; that a walk is
safe needs that writers and readers exclude each other. So

    IInv == TypeOK /\ RuntimeInv /\ LockInv /\ ListedInv /\ HeldInv

- `RuntimeInv`: who is at a label of the critical sections owns the mutex; who
  initialises or destroys is alone; the count; the accounting.
- `LockInv`: the same for the read-write lock, and that each walker's `current`
  is linked.
- `ListedInv`: a node is in the list, once, exactly while its run is between
  `RegisterLink` and `UnregisterUnlink`.
- `HeldInv`: what a run holds is determined by its label.

`StatusReported` has an invariant of its own, what `ret` may hold at a cleanup
label. The refinement maps `users` to the runs at user labels and `live` to the
outstanding inits; `LiveIsMapped` computes that from `IInv`, and then only the
steps that count in, count out and lose an init change it.

Registry. `ApiInv` says of every walker that it is at some place of the list,
that none before that place answers its question, and how many it has counted;
that nobody writes meanwhile keeps this true. `IdsInv` bounds every listed id by
the counter until it wraps. In `AtomicRegistryImplemented` the answer of a walk
is then the abstract answer to the list as it is, and `Unregister` of the
abstract list takes out the node the walk of `Unlink` finds. The theorem has the hypothesis
`NamesFit`, that names fit the 64 bytes of the node's field; for longer ones
the code does not implement it, as `registry_name` shows.

Interrupts. `MaskedIsOnItsWay` needs the table of handlers and the list to
agree, that before the thread sleeps its second loop has seen each masked
interrupt uncounted or a post waits (`RescanPassed`, `SleepsWhenServed`), and
that an interrupt counted again while it is served is counted twice
(`EnabledAgain`).

D-Bus tables. The search by one pointer also meets stale fields of released
slots. `FirstMatches` says that a slot in use is nevertheless the first with
each of its keys, because a claim takes the first free slot and a key of a live
registration stands in no slot before it; `UnslottedNowhere` that no slot has a
key of a registration that found the table full. `SlotsAccounted` follows from a
count of the holders (`DistinctValues` in `DataLemmas`). For set_data a pointer
stands in up to two places of several entries. Of pointers that were not handed
out again while something remembered them (`Sure`), `RememberedWhole` and
`OneKeeper` say that each stands with its own function and for one object,
`LatestInItsSlot` that an entry with the current pointer of an object is that
object's, and `CallsHoldSlots` that a running free function has found the entry
of its pointer. `LatestRemembered` needs no such condition: the first entry of
an object is current unless its data found no slot. So when `Store` has moved
that entry's data to the old one and the search finds nothing, the entry was not
where the loop stopped, which is the cause "moved".

CHRE events. `IteratorsGood` says that the entry in which a running free
function was found is there until it returns, unless its data is shared, and
`SharedKnown` that two events with the same data are known to share it; so
whoever erases an entry erases that of its own event.

The proxies. `CompareInv` says stage by stage that the globals are those of the
thread that owns the mutex. `OnceInv` says what the globals hold while calls that
none with another variable has met are on their way to the proxy, and that a
variable's routine runs in one thread at most.

The heap. `HeapInv`: an entry of the map is somebody's, an application's or that
of a thread about to hand it out or to take it out; no two hold one block; what
a loop found under the semaphore is so until the thread acts on it. What it
says of blocks it says while no application holds a dangling pointer, which may
be anybody's block.

scanf. `ScanInv`: up to the first zero before all variables only native addresses
stand when `scanf_end` begins, so that a zero there still stops it.

D-Bus arguments. `ArgsInv`: `pos` never stands before a type when the type read
last takes an address (`WordRead`); so what is native is what the walk has
passed, on the way to native, and what it has not, on the way back.

Formats. The theorems hold for every format built of C's directives, not only for
those of the run.

- `WalkInv`: `_vprintf_wa` stands at a place of a directive (`Spot`), and its
  flags are what the characters of that directive before the place say
  (`Knows`). `CharByChar` then says which argument, if any, the next character
  takes. So for a format that the walk reads as C does (`Understood`), while no
  conversion was left out, the words read are the first of `Layout`, and `ap` is
  the one behind them (`After`). For other formats `ap` is at most that, so that
  no walk leaves the block.
- `OutputInv`: the buffer is a function of its size and of the number of
  characters printed (`Printed`), in whatever pieces they came.
- `WordsInv`: between its two walks the block is what the first made of it.
  `BlockTurnsBack`: the walks differ in the amount they add alone, so the second
  takes back what the first added, for every format, the ones it misreads
  included. `ConvertsAll`: for an `Understood` format without padding (`Gapless`)
  the first walk adds to exactly the words that hold strings.

The walk and `Layout` are recursive functions. That such a function exists is
`RecursionExists` in `DataLemmas`, which builds it by `InductionTo` (a set of
numbers with 1 and each successor has them all); neither needs a theorem with an
operator as a parameter.

Pointers. `PointersInv` says of every place in memory how often its pointer was
converted, by the shape of the glue: natives without a loop (`StraightInv`),
those that return a list or an array (`MakesListInv`, `MakesArrayInv`), and those
that are given one (`GivenListInv`, `GivenArrayInv`). In a loop, the elements the
walk has passed are converted and the others are as they were; a list's next
pointer is converted before it is followed or after, as the code has it. That
the place an argument points to is not the application's address 0 (`Zero`) is
part of it: there NULL would be converted. For ioctl, whose second walk may lead
anywhere in the structures or nowhere, it says what the first has converted, and
`AppSeesApp` excepts both places (`Unreliable`) unless they are one; no other
native has that exception.

Assumptions. They are stated beside the constants, and TLC evaluates them in the
runs: bounds and sizes are positive (`RegistryAssumption`, `IrqAssumption`,
`SlotsAssumption`, `SetDataAssumption`, `EventsAssumption`, `ScanAssumption`,
`HeapAssumption`, `NodesAssumption`), lists are sequences (`ListsAssumption`),
formats are sequences of C's directives, sizes and printed lengths are naturals
(`FormatAssumption`), tasks are finite (`LwacAssumption`), and the values that
stand for nobody, nothing or nowhere are none of the others (in those, and in
`CompareAssumption`, `OnceAssumption`, `AskerAssumption`, `QuestionAssumption`).
None of them is about what the code does.

Only model-checked are the liveness properties: `RunsFinish`, `MaskedIsServed`,
`ExitReturnsOutsideWindow` and `SortsFinish`. Their proofs need ENABLED, which the
prover does not support. Every invariant and every action property of a passing
run is stated by a theorem. The theorems are about the models: what section 7
leaves out, they leave out.

## 6. Findings

- `lwac.c` 101: a native module that fails to register leaves the runtime up
  with no user (`leak`). Comment at 74: "This prevents both resource leaks and
  crashes from multiple init/destroy calls."
- `lwac.c` 414: exec_env destroyed before the node goes (`ps_env`). Comment at
  registry 28: "Read-write lock for thread-safe access to the module list".
- registry 154: 64 characters compared of a name cut to 63 (`registry_name`).
  Header 82: "-ENOENT if module with specified name is not found".
- manager 74: a lost wakeup (`irq_lost`). Header 65: "to be notified when it
  needs to process an IRQ."
- manager 197: exit and thread wait for each other (`irq_hang`). Header 47: "it
  signals that the thread is requested to terminate its operations."
- libc_bypass.c 490, 500: `va_list_string2conv` does not align its position
  before a long long or a double (`format_gap`), so `printf("%d %lld %s")`
  converts the wrong word. Line 235, in the other walk of the same block:
  "Make 8-byte aligned".

Met while modelling, each confirmed in a model or excluded from one by name:

- `lwac.c` 453, 459, 474: a run whose file cannot be loaded, whose runtime does
  not start or whose module is not XIP exits with the 0 of `parse_arguments`
  (`tests/lwac_test.c` 228: "Expecting non-zero return code for error").
- wasm_irq.c 90-94: `irq_uninitialize` frees what installed handlers point to,
  detaches none of them and turns no line off. An application like
  `vendor/bouffalo/examples/gpio_interrupt`, which disables its interrupt before
  it uninitializes (main.c 54-55), is not safe either: its callback ends with
  `irq_enable` (main.c 31), and one that still runs then, on the irq thread,
  turns the line on again. That no line is on whose handler is stale fails in the
  model within one life of the thread, for such an application too.
- registry 129: find by id returns a pointer after the unlock; nobody calls it.
- dbus.c 706: `dbus_connection_remove_filter` passes another function than the
  one that was added, so no filter is ever removed and each call uses up a slot.
- dbus.c 1330, 1422: set_data takes an earlier free slot for an object that has
  a later one. 1284, 1374: only old pointers are searched, so what an object
  holds when libdbus finalises it is never freed; and old pointers are never
  forgotten, so that an address that was freed and set again for another object
  finds the slot it had before, and the function set with it then.
- wasm_irq.c 55: when the operating system's `irq_attach` fails, the node stays in
  the list, and the next try is refused with -EEXIST.
- dbus.c 1468: a second notify function on a pending call is shadowed by the
  first one's released slot.
- dbus.c 242: the test for numbers names INT32 twice and misses five types,
  whose values libdbus then reads and writes at application addresses. 285: an
  array argument leads the walk astray. A cell passed twice is converted twice.
- libc_bypass.c 393: once `CONFIG_LIBC_BYPASS_POSIXMEMALIGN_MAP_SIZE` (64 by
  default) aligned blocks are held, `posix_memalign` reports success with a freed block;
  721: a failed allocation reports success too, with whatever the cell held; 718:
  size plus alignment may wrap. 395: two applications' addresses may coincide.
- libc_bypass.c 576: a comparison function that sorts hangs, and all sorts with
  it. 892: two calls of `pthread_once` with different variables may run one
  routine twice and the other never.
- libc_bypass.c 116: a directive that does not fit and no memory for it leave
  its argument to the next directive. 534: scanf rewrites the application's
  variables up to the first zero.
- libc_bypass.c 628: a length that recvmsg sets to 0 leaves a native pointer.
  782: `strtol(s, NULL, 10)` writes to the application's address 0. 841, 859:
  the same cell twice is converted twice. 1256, 1319: after a failure the glue
  follows what the cell held. 1206: `glue_ioctl` takes the argument off the list
  before it converts back, so that the ifconf keeps a native `ifc_req` after
  SIOCGIFCONF, and what the next word of the block leads to is changed. 693: `scandir` passes the filter's wasm index as a
  C function. 769: `vasprintf` leaves strings native.
- wapi.c 161: `wapi_scan_coll_free` frees the last element only; an empty list
  frees the base. 217: `item->next` is read after `item` was freed.
- event_wrapper.cc 48, 96: two events with one pointer share an entry; 30: an
  entry without a function is never erased.

## 7. Not modelled, and why

Generated and forwarding wrappers keep no state and convert pointers one by
one; those of `feature_framework/` compare each pointer with NULL and forward
(its va_list walk is never called). `execl` (libc_bypass.c 1349) takes an
argument for a format and passes a va_list for arguments: there is nothing it
could be right about. `strsep` (670) converts an address that WAMR has
converted already. `dbus_connection_remove_filter`'s table has no effect. The natives of dbus.c
1555-1685 (two readers of iterators, `dbus_bus_get`, `send_with_reply` and two
for errors) forward one call each and convert the cells it stores in, the last
four also when the application passed NULL for them.
Interleaved use of the D-Bus tables by two tasks is excluded: nothing locks
them, and it fails at once. For arrays in `dbus_message_append_args` the model
stops where the code writes somewhere in memory. `sendEventMisightF` passes its
`va_list` by address to a function outside the repository; the model assumes
that this leaves it where it was. The word behind ioctl's argument is assumed to
be zero or to point to one of the application's structures. Floating point, widths and
the characters of output are not modelled: `OutputFits` counts. WAMR, libdbus, NuttX and the flash driver are not in the repository; they
appear as the nondeterministic results the code tests. Argument parsing is one
step with four outcomes, because no property is about option letters. The
order of memory operations is not modelled, as one core is assumed.

## 8. Plan

Done: sections 2 to 6. Left, most important first:

1. A table whose application has ended: `DbusCallbacks` composed with `Lwac`.
2. The natives of dbus.c 1555-1685 as further cells of `NativePointers`.
3. `WasmIrq` with `wasm_interrupt_unregister` and the thread's RELEASED branch,
   should anything come to call it.
4. The rule for signatures of `mkwamrglue.py`, against WAMR's.

Proofs: only liveness is left, for a prover that has ENABLED.

New components come as further choices of the initial state, like `part`,
`table` and `enables`, wherever they ask the same question, so that the runs
stay few.
