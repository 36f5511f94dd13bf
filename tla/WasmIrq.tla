------------------------------ MODULE WasmIrq ------------------------------
(***************************************************************************)
(* Interrupts delivered to wasm code: irq/wasm_irq_manager.c and           *)
(* irq/wasm_irq.c.  The interrupt handler counts an interrupt in its node  *)
(* and wakes the irq thread, which calls the wasm callback; the            *)
(* application creates the thread, attaches and enables interrupts, and    *)
(* takes it all down.                                                      *)
(*                                                                         *)
(* Three actors take steps: the irq thread (thread_pc names its next       *)
(* statement), the application (app_pc), and the interrupt handler, which  *)
(* on the single core that is assumed runs to its end unseen by            *)
(* the other two.  A node is named by its interrupt: within one life of    *)
(* the thread an interrupt is registered at most once.                     *)
(*                                                                         *)
(* irq_uninitialize detaches no handler and turns no line off.  A handler  *)
(* left behind is "stale": an interrupt that reaches it reads freed memory *)
(* and anything may follow, which is not modelled: no action has it.       *)
(***************************************************************************)
EXTENDS Naturals, Sequences, SequencesExt

CONSTANTS Irq,              \* the interrupt numbers
          MaxRefs, MaxSem   \* bounds: interrupts fire while below them

ASSUME IrqAssumption == MaxRefs \in Nat \ {0} /\ MaxSem \in Nat \ {0}

VARIABLES
    thread_pc, node, temp, flag,   \* locals of wasm_irq_thread_cb; node and
                                   \* temp are places in irq_list, 0 its head
    app_pc,
    irq_exit, irq_status, wasm_irq_sem, irq_list,   \* the wasm_irq_thread
    refs,                          \* of each interrupt's node
    handler,                       \* what irq_attach installed: "none", "live",
                                   \* or "stale" once irq_thread was freed
    line,                          \* "on", "off", or "masked" by the handler
    enables                        \* the application's callback ends with
                                   \* irq_enable; fixed once and for all

threadVars == <<thread_pc, node, temp, flag>>
deviceVars == <<handler, line, enables>>
vars == <<threadVars, app_pc, irq_exit, irq_status, wasm_irq_sem, irq_list,
          refs, deviceVars>>

Init ==
    /\ thread_pc = "none" /\ node = 0 /\ temp = 0 /\ flag = FALSE
    /\ app_pc = "out"
    /\ irq_exit = FALSE /\ irq_status = "STOP" /\ wasm_irq_sem = 0
    /\ irq_list = << >>
    /\ refs = [i \in Irq |-> 0]
    /\ handler = [i \in Irq |-> "none"]
    /\ line = [i \in Irq |-> "off"]
    /\ enables \in BOOLEAN

----------------------------------------------------------------------------
(* The interrupt handler.                                                  *)

\* Bug: the handler posts only for the first interrupt it counts.
InterruptPostsOnce(i) ==
    /\ handler[i] = "live" /\ line[i] = "on"
    /\ refs[i] < MaxRefs /\ wasm_irq_sem < MaxSem
    /\ refs' = [refs EXCEPT ![i] = @ + 1]
    /\ IF irq_status = "STOP"
       THEN /\ line' = [line EXCEPT ![i] = "masked"]
            /\ wasm_irq_sem' = wasm_irq_sem + (IF refs[i] = 0 THEN 1 ELSE 0)
       ELSE UNCHANGED <<line, wasm_irq_sem>>
    /\ UNCHANGED <<threadVars, app_pc, irq_exit, irq_status, irq_list, handler, enables>>

\* __wasm_irq_hander.  With the thread asleep, or about to be, the interrupt
\* stays disabled until somebody enables it again.
Interrupt(i) ==
    /\ handler[i] = "live" /\ line[i] = "on"
    /\ refs[i] < MaxRefs /\ wasm_irq_sem < MaxSem
    /\ refs' = [refs EXCEPT ![i] = @ + 1]
    /\ IF irq_status = "STOP"
       THEN line' = [line EXCEPT ![i] = "masked"] /\ wasm_irq_sem' = wasm_irq_sem + 1
       ELSE UNCHANGED <<line, wasm_irq_sem>>
    /\ UNCHANGED <<threadVars, app_pc, irq_exit, irq_status, irq_list, handler, enables>>

----------------------------------------------------------------------------
(* The irq thread.                                                         *)

At(from, to) == thread_pc = from /\ thread_pc' = to

\* Bug: the walk goes one node too far.
PlaceTooFar(n) == IF n <= Len(irq_list) THEN n + 1 ELSE 0

NextPlace(n) == IF n < Len(irq_list) THEN n + 1 ELSE 0

\* node = temp, and temp the place after it.
MoveOn ==
    /\ IF temp = 0 THEN thread_pc' = "rescan" /\ node' = 1 /\ temp' = 0
       ELSE thread_pc' = "serve" /\ node' = temp /\ temp' = NextPlace(temp)
    /\ UNCHANGED flag

ThreadStart ==
    /\ At("start", "loop") \/ At("start", "done")   \* no thread environment
    /\ UNCHANGED <<node, temp, flag, app_pc, irq_exit, irq_status, wasm_irq_sem,
                   irq_list, refs, deviceVars>>

ThreadLoop ==
    /\ \/ irq_exit /\ At("loop", "done") /\ UNCHANGED <<node, temp, flag>>
       \/ /\ ~irq_exit
          /\ flag' = FALSE
          /\ IF irq_list = << >> THEN At("loop", "check") /\ UNCHANGED <<node, temp>>
             ELSE At("loop", "serve") /\ node' = 1 /\ temp' = NextPlace(1)
    /\ UNCHANGED <<app_pc, irq_exit, irq_status, wasm_irq_sem, irq_list, refs, deviceVars>>

\* Bug: nodes are served whether or not they have counted an interrupt.
ServeAll ==
    /\ At("serve", "call")
    /\ UNCHANGED <<node, temp, flag>>
    /\ UNCHANGED <<app_pc, irq_exit, irq_status, wasm_irq_sem, irq_list, refs, deviceVars>>

ThreadServe ==
    /\ thread_pc = "serve"
    /\ IF refs[irq_list[node]] > 0
       THEN thread_pc' = "call" /\ UNCHANGED <<node, temp, flag>>
       ELSE MoveOn
    /\ UNCHANGED <<app_pc, irq_exit, irq_status, wasm_irq_sem, irq_list, refs, deviceVars>>

\* wasm_runtime_call_indirect: the callback runs, or traps and ends the thread.
ThreadCall ==
    /\ \/ /\ At("call", "uncount")
          /\ IF enables THEN line' = [line EXCEPT ![irq_list[node]] = "on"]
             ELSE UNCHANGED line
          /\ UNCHANGED <<node, irq_exit>>
       \/ /\ At("call", "rescan")
          /\ irq_exit' = TRUE /\ node' = 1
          /\ UNCHANGED line
    /\ UNCHANGED <<temp, flag, app_pc, irq_status, wasm_irq_sem, irq_list, refs, handler, enables>>

ThreadUncount ==
    /\ thread_pc = "uncount"
    /\ refs' = [refs EXCEPT ![irq_list[node]] = @ - 1]
    /\ MoveOn
    /\ UNCHANGED <<app_pc, irq_exit, irq_status, wasm_irq_sem, irq_list, deviceVars>>

\* The second loop looks for a node that is still to be served.
ThreadRescan ==
    /\ thread_pc = "rescan"
    /\ IF refs[irq_list[node]] > 0
       THEN thread_pc' = "check" /\ flag' = TRUE /\ UNCHANGED node
       ELSE /\ node' = NextPlace(node)
            /\ thread_pc' = IF node' = 0 THEN "check" ELSE "rescan"
            /\ UNCHANGED flag
    /\ UNCHANGED <<temp, app_pc, irq_exit, irq_status, wasm_irq_sem, irq_list,
                   refs, deviceVars>>

ThreadCheck ==
    /\ IF ~flag /\ ~irq_exit THEN At("check", "store_stop") ELSE At("check", "loop")
    /\ UNCHANGED <<node, temp, flag, app_pc, irq_exit, irq_status, wasm_irq_sem,
                   irq_list, refs, deviceVars>>

ThreadStoreStop ==
    /\ At("store_stop", "wait")
    /\ irq_status' = "STOP"
    /\ UNCHANGED <<node, temp, flag, app_pc, irq_exit, wasm_irq_sem, irq_list,
                   refs, deviceVars>>

ThreadWait ==
    /\ At("wait", "store_run")
    /\ wasm_irq_sem > 0 /\ wasm_irq_sem' = wasm_irq_sem - 1
    /\ UNCHANGED <<node, temp, flag, app_pc, irq_exit, irq_status, irq_list,
                   refs, deviceVars>>

ThreadStoreRun ==
    /\ At("store_run", "loop")
    /\ irq_status' = "RUN"
    /\ UNCHANGED <<node, temp, flag, app_pc, irq_exit, wasm_irq_sem, irq_list,
                   refs, deviceVars>>

Thread ==
    \/ ThreadStart \/ ThreadLoop \/ ThreadServe \/ ThreadCall \/ ThreadUncount
    \/ ThreadRescan \/ ThreadCheck \/ ThreadStoreStop \/ ThreadWait \/ ThreadStoreRun

----------------------------------------------------------------------------
(* The application.                                                        *)

App(from, to) == app_pc = from /\ app_pc' = to

\* irq_initialize: wasm_irq_thread_create; its failures undo what was done.
IrqInitialize ==
    /\ App("out", "up")
    /\ thread_pc' = "start"
    /\ irq_list' = << >> /\ wasm_irq_sem' = 0
    /\ irq_status' = "STOP" /\ irq_exit' = FALSE
    /\ node' = 0 /\ temp' = 0 /\ flag' = FALSE
    /\ UNCHANGED <<refs, deviceVars>>

\* irq_attach: wasm_interrupt_register, which refuses an interrupt that is in
\* the list, puts the node at the list's end.
IrqAttach(i) ==
    /\ App("up", "attach")
    /\ i \notin Range(irq_list)
    /\ irq_list' = Append(irq_list, i)
    /\ refs' = [refs EXCEPT ![i] = 0]
    /\ UNCHANGED <<threadVars, irq_exit, irq_status, wasm_irq_sem, deviceVars>>

\* The operating system installs the handler of the new node, or fails: the
\* handler is the one it was, and the node stays in the list.
OsIrqAttach ==
    /\ App("attach", "up")
    /\ \/ handler' = [handler EXCEPT ![Last(irq_list)] = "live"]
       \/ UNCHANGED handler
    /\ UNCHANGED <<threadVars, irq_exit, irq_status, wasm_irq_sem, irq_list, refs,
                   line, enables>>

\* irq_enable and irq_disable, of any interrupt.
IrqEnable(i) ==
    /\ App("up", "up")
    /\ line' = [line EXCEPT ![i] = "on"]
    /\ UNCHANGED <<threadVars, irq_exit, irq_status, wasm_irq_sem, irq_list, refs, handler, enables>>

IrqDisable(i) ==
    /\ App("up", "up")
    /\ line' = [line EXCEPT ![i] = "off"]
    /\ UNCHANGED <<threadVars, irq_exit, irq_status, wasm_irq_sem, irq_list, refs, handler, enables>>

\* irq_uninitialize, which goes through wasm_irq_thread_exit.
IrqUninitialize ==
    /\ App("up", "exit_flag")
    /\ UNCHANGED <<threadVars, irq_exit, irq_status, wasm_irq_sem, irq_list, refs, deviceVars>>

ExitFlag ==
    /\ App("exit_flag", "exit_check")
    /\ irq_exit' = TRUE
    /\ UNCHANGED <<threadVars, irq_status, wasm_irq_sem, irq_list, refs, deviceVars>>

\* Bug: the test of irq_status the wrong way round.
ExitCheckRunning ==
    /\ App("exit_check", "join")
    /\ wasm_irq_sem' = wasm_irq_sem + (IF irq_status = "RUN" THEN 1 ELSE 0)
    /\ UNCHANGED <<threadVars, irq_exit, irq_status, irq_list, refs, deviceVars>>

ExitCheck ==
    /\ App("exit_check", "join")
    /\ wasm_irq_sem' = wasm_irq_sem + (IF irq_status = "STOP" THEN 1 ELSE 0)
    /\ UNCHANGED <<threadVars, irq_exit, irq_status, irq_list, refs, deviceVars>>

\* pthread_join returns; the list is cleared, its nodes leak, the
\* wasm_irq_thread is freed.  The handlers stay installed, and a line that one
\* of them has disabled stays disabled.
ExitJoined ==
    /\ App("join", "out")
    /\ At("done", "none")
    /\ irq_status' = "STOP"
    /\ irq_list' = << >>
    /\ handler' = [i \in Irq |-> IF handler[i] = "live" THEN "stale" ELSE handler[i]]
    /\ line' = [i \in Irq |-> IF line[i] = "masked" THEN "off" ELSE line[i]]
    /\ UNCHANGED <<node, temp, flag, irq_exit, wasm_irq_sem, refs, enables>>

Exiting == ExitFlag \/ ExitCheck \/ ExitJoined

----------------------------------------------------------------------------

Next ==
    \/ Thread \/ Exiting \/ IrqInitialize \/ OsIrqAttach \/ IrqUninitialize
    \/ \E i \in Irq : Interrupt(i) \/ IrqAttach(i) \/ IrqEnable(i) \/ IrqDisable(i)

Spec == Init /\ [][Next]_vars

\* The scheduler runs the irq thread and a teardown that has begun; hardware
\* need not interrupt, and the application need not do anything.
FairSpec == Spec /\ WF_vars(Thread) /\ WF_vars(Exiting)

----------------------------------------------------------------------------
(* Properties.                                                             *)

TypeOK ==
    /\ thread_pc \in {"none", "start", "loop", "serve", "call", "uncount", "rescan",
                      "check", "store_stop", "wait", "store_run", "done"}
    /\ node \in Nat /\ temp \in Nat
    /\ flag \in BOOLEAN
    /\ app_pc \in {"out", "up", "attach", "exit_flag", "exit_check", "join"}
    /\ irq_exit \in BOOLEAN
    /\ irq_status \in {"STOP", "RUN"}
    /\ wasm_irq_sem \in 0 .. MaxSem + 1
    /\ irq_list \in Seq(Irq)
    /\ refs \in [Irq -> 0 .. MaxRefs]
    /\ handler \in [Irq -> {"none", "live", "stale"}]
    /\ line \in [Irq -> {"on", "off", "masked"}]
    /\ enables \in BOOLEAN

Running == thread_pc \notin {"none", "done"}

\* An interrupt the handler has disabled (wasm_irq.c:38) is still counted in
\* its node, and the irq thread will come to it without another interrupt: it
\* is awake, or a post is waiting for it.  Otherwise the line would be dead.
\* (With a callback that does not enable, the node may be served already.)
MaskedIsOnItsWay ==
    Running =>
        \A i \in Irq : line[i] = "masked" =>
            /\ enables => refs[i] > 0
            /\ refs[i] > 0 /\ thread_pc = "wait" => wasm_irq_sem > 0

\* The thread looks only at nodes that are in the list, although irq_attach
\* appends to the list without a lock while the thread walks it.
WalkInList ==
    thread_pc \in {"serve", "call", "uncount", "rescan"} =>
        /\ node \in DOMAIN irq_list
        /\ thread_pc \in {"call", "uncount"} => refs[irq_list[node]] > 0

\* An interrupt that was disabled by its handler is enabled again, by the
\* callback that the irq thread calls, or the thread has ended.
MaskedIsServed ==
    \A i \in Irq :
        enables /\ line[i] = "masked" ~> line[i] # "masked" \/ ~Running

\* irq_uninitialize returns unless its irq_exit comes between the thread's test
\* of it (manager:73) and the store that announces its sleep (manager:74).
ExitReturnsOutsideWindow ==
    app_pc = "exit_check" /\ thread_pc # "store_stop" ~> app_pc = "out"

----------------------------------------------------------------------------
(* What the header promises and the code does not keep.                    *)

\* wasm_irq_manager.h:64-66: the semaphore is for the thread "to be notified
\* when it needs to process an IRQ".  It never sleeps on a counted interrupt.
NeverSleepsOnWork ==
    thread_pc = "wait" /\ wasm_irq_sem = 0 => \A i \in Range(irq_list) : refs[i] = 0

\* wasm_irq_manager.h:46-47: irq_exit "signals that the thread is requested to
\* terminate its operations".  Once set, the thread ends.
ExitIsHonoured == irq_exit ~> ~Running
=============================================================================
