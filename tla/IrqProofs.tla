----------------------------- MODULE IrqProofs -----------------------------
(***************************************************************************)
(* WasmIrq, for every set of interrupts and every bound on what they       *)
(* count.  The safety properties need to know how the tables of the two    *)
(* sides agree: that the handlers installed are of the list, so that       *)
(* nothing is masked but a listed interrupt; and that before the thread    *)
(* sleeps its second loop has seen every masked interrupt uncounted,       *)
(* unless a post is waiting.                                               *)
(***************************************************************************)
EXTENDS WasmIrq, TLAPS

Walking == thread_pc \in {"serve", "call", "uncount", "rescan"}

\* ExitCheck posts once in the life of a thread, so that the count passes the
\* bound on what interrupts post by one at most.
OnePostToExit == app_pc \in {"up", "attach", "exit_flag", "exit_check"} => wasm_irq_sem <= MaxSem

\* The place that is walked to next is in the list too, or there is none.
WalkGoesOn ==
    thread_pc \in {"serve", "call", "uncount"} => temp = 0 \/ temp \in DOMAIN irq_list

\* The thread and its list are there between irq_initialize and the end of
\* irq_uninitialize; a node is, when its handler is about to be installed.
Lives ==
    /\ (app_pc = "out") <=> (thread_pc = "none")
    /\ app_pc = "out" => irq_list = << >>
    /\ app_pc = "attach" => irq_list # << >>

\* Only handlers of the list's nodes are live.
LiveIsListed == \A i \in Irq : handler[i] = "live" => i \in Range(irq_list)

MaskedIsLive == \A i \in Irq : line[i] = "masked" => handler[i] = "live"

\* An interrupt that its callback has enabled and that came again before it
\* was uncounted has been counted twice.
EnabledAgain ==
    enables => \A i \in Irq :
        line[i] = "masked" =>
            /\ refs[i] > 0
            /\ thread_pc = "uncount" /\ irq_list[node] = i => refs[i] > 1

\* No post is waiting, and every masked interrupt has been served.
Served(i) == wasm_irq_sem = 0 /\ line[i] = "masked" => refs[i] = 0

\* The second loop has seen the masked interrupts that it has passed served;
\* one that is masked is not counted any more.
RescanPassed ==
    thread_pc = "rescan" => \A j \in DOMAIN irq_list : j < node => Served(irq_list[j])

SleepsWhenServed ==
    \/ thread_pc = "check" /\ ~flag
    \/ thread_pc \in {"store_stop", "wait"}
    => \A i \in Irq : Served(i)

IrqInv ==
    /\ TypeOK /\ OnePostToExit
    /\ WalkInList /\ WalkGoesOn
    /\ Lives /\ LiveIsListed /\ MaskedIsLive
    /\ EnabledAgain /\ RescanPassed /\ SleepsWhenServed

----------------------------------------------------------------------------

(* The thread is not there, the list is empty and every line is off.       *)
LEMMA IrqInitInv == Init => IrqInv
<1> SUFFICES ASSUME Init
             PROVE  IrqInv
  OBVIOUS
<1> USE IrqAssumption DEF Init
<1>1. Range(irq_list) = {} /\ irq_list \in Seq(Irq)
  BY DEF Range
<1>2. TypeOK
  <2>1. wasm_irq_sem \in 0 .. MaxSem + 1 /\ refs \in [Irq -> 0 .. MaxRefs]
    OBVIOUS
  <2>2. handler \in [Irq -> {"none", "live", "stale"}] /\ line \in [Irq -> {"on", "off", "masked"}]
    OBVIOUS
  <2>. QED
    BY <1>1, <2>1, <2>2 DEF TypeOK
<1>. QED
  BY <1>1, <1>2 DEF IrqInv, OnePostToExit, WalkInList, WalkGoesOn,
     Lives, LiveIsListed, MaskedIsLive, EnabledAgain, RescanPassed,
     SleepsWhenServed

(* What the list is made of, and the place that follows one of its places  *)
(* (list_for_every_entry_safe).                                            *)
LEMMA ListPlaces ==
  ASSUME irq_list \in Seq(Irq)
  PROVE  /\ Len(irq_list) \in Nat
         /\ DOMAIN irq_list = 1 .. Len(irq_list)
         /\ \A j \in DOMAIN irq_list : irq_list[j] \in Irq /\ irq_list[j] \in Range(irq_list)
         /\ \A i \in Range(irq_list) : \E j \in DOMAIN irq_list : irq_list[j] = i
         /\ \A n \in DOMAIN irq_list : NextPlace(n) = 0 \/ NextPlace(n) \in DOMAIN irq_list
         /\ \A n \in Nat : NextPlace(n) \in Nat
BY DEF Range, NextPlace

(* The handler counts an interrupt and, with the thread asleep or about to *)
(* be, masks it and posts (__wasm_irq_hander).                             *)
LEMMA InterruptInv ==
  ASSUME IrqInv, NEW i \in Irq, Interrupt(i)
  PROVE  IrqInv'
<1> USE IrqAssumption DEF IrqInv, Interrupt, threadVars, TypeOK
<1>1. TypeOK'
  <2>1. refs[i] \in 0 .. MaxRefs - 1
    OBVIOUS
  <2>2. refs' \in [Irq -> 0 .. MaxRefs]
    BY <2>1
  <2>3. wasm_irq_sem' \in 0 .. MaxSem + 1
    OBVIOUS
  <2>4. line' \in [Irq -> {"on", "off", "masked"}]
    OBVIOUS
  <2>. QED
    BY <2>2, <2>3, <2>4
<1>2. OnePostToExit'
  BY DEF OnePostToExit
<1>3. WalkInList' /\ WalkGoesOn'
  BY DEF WalkInList, WalkGoesOn
<1>4. Lives' /\ LiveIsListed' /\ MaskedIsLive'
  BY DEF Lives, LiveIsListed, MaskedIsLive
<1>5. EnabledAgain'
  BY DEF EnabledAgain, WalkInList
<1>6. RescanPassed' /\ SleepsWhenServed'
  BY DEF RescanPassed, SleepsWhenServed, Served
<1>. QED
  BY <1>1, <1>2, <1>3, <1>4, <1>5, <1>6

----------------------------------------------------------------------------
(* The irq thread.                                                         *)

(* The next place is stored: the callback's node is followed, or the first *)
(* loop is over and the second begins.                                     *)
LEMMA MoveOnPlaces ==
  ASSUME TypeOK, WalkInList, WalkGoesOn, thread_pc \in {"serve", "uncount"}, MoveOn
  PROVE  /\ thread_pc' \in {"serve", "rescan"}
         /\ node' \in DOMAIN irq_list /\ node' \in Nat
         /\ temp' \in Nat /\ (temp' = 0 \/ temp' \in DOMAIN irq_list)
         /\ thread_pc' = "rescan" => node' = 1
         /\ flag' = flag
<1>1. /\ Len(irq_list) \in Nat /\ DOMAIN irq_list = 1 .. Len(irq_list)
      /\ node \in 1 .. Len(irq_list)
      /\ temp = 0 \/ temp \in 1 .. Len(irq_list)
  BY DEF TypeOK, WalkInList, WalkGoesOn
<1>2. CASE temp = 0
  BY <1>1, <1>2 DEF MoveOn
<1>3. CASE temp # 0
  BY <1>1, <1>3 DEF MoveOn, NextPlace
<1>. QED
  BY <1>2, <1>3

(* The thread starts, and begins a new pass while nothing asks it to end.  *)
LEMMA ThreadLoopInv ==
  ASSUME IrqInv, ThreadStart \/ ThreadLoop
  PROVE  IrqInv'
<1> USE DEF IrqInv, At, deviceVars, OnePostToExit, Lives, LiveIsListed,
            MaskedIsLive, EnabledAgain
<1>1. CASE ThreadStart
  BY <1>1 DEF ThreadStart, TypeOK, WalkInList, WalkGoesOn, RescanPassed, SleepsWhenServed
<1>2. CASE ThreadLoop /\ (irq_exit \/ irq_list = << >>)
  <2>1. Range(irq_list) = {} \/ thread_pc' = "done"
    BY <1>2 DEF ThreadLoop, Range
  <2>2. SleepsWhenServed'
    BY <1>2, <2>1 DEF ThreadLoop, SleepsWhenServed, Served
  <2>. QED
    BY <1>2, <2>2 DEF ThreadLoop, TypeOK, WalkInList, WalkGoesOn, RescanPassed
<1>3. CASE ThreadLoop /\ ~irq_exit /\ irq_list # << >>
  <2>1. 1 \in DOMAIN irq_list /\ node' = 1 /\ temp' = NextPlace(1)
    BY <1>3 DEF ThreadLoop, TypeOK
  <2>2. NextPlace(1) \in Nat /\ (NextPlace(1) = 0 \/ NextPlace(1) \in DOMAIN irq_list)
    BY <2>1, ListPlaces DEF TypeOK
  <2>. QED
    BY <1>3, <2>1, <2>2 DEF ThreadLoop, TypeOK, WalkInList, WalkGoesOn, RescanPassed,
       SleepsWhenServed
<1>. QED
  BY <1>1, <1>2, <1>3

(* A node that has counted nothing is passed by.                           *)
LEMMA ThreadServeInv ==
  ASSUME IrqInv, ThreadServe
  PROVE  IrqInv'
<1> USE DEF IrqInv, deviceVars, OnePostToExit, Lives, LiveIsListed,
            MaskedIsLive, EnabledAgain
<1>1. CASE refs[irq_list[node]] > 0
  BY <1>1 DEF ThreadServe, TypeOK, WalkInList, WalkGoesOn, RescanPassed, SleepsWhenServed
<1>2. CASE ~(refs[irq_list[node]] > 0)
  <2>1. MoveOn /\ thread_pc = "serve"
    BY <1>2 DEF ThreadServe
  <2>. QED
    BY <1>2, <2>1, MoveOnPlaces DEF ThreadServe, TypeOK, WalkInList, WalkGoesOn,
       RescanPassed, SleepsWhenServed
<1>. QED
  BY <1>1, <1>2

(* The callback is called: it enables its interrupt, or does not, or traps *)
(* (wasm_runtime_call_indirect).                                           *)
LEMMA ThreadCallInv ==
  ASSUME IrqInv, ThreadCall
  PROVE  IrqInv'
<1> USE DEF IrqInv, ThreadCall, At, TypeOK
<1>1. /\ thread_pc = "call" /\ node \in DOMAIN irq_list
      /\ irq_list[node] \in Irq /\ irq_list[node] \in Range(irq_list)
      /\ Len(irq_list) \in Nat /\ DOMAIN irq_list = 1 .. Len(irq_list)
  BY ListPlaces DEF WalkInList
<1>2. TypeOK' /\ OnePostToExit'
  <2>1. line' \in [Irq -> {"on", "off", "masked"}]
    BY <1>1
  <2>2. thread_pc' \in {"uncount", "rescan"} /\ node' \in Nat
    OBVIOUS
  <2>3. UNCHANGED <<temp, flag, app_pc, irq_status, wasm_irq_sem, irq_list, refs, handler, enables>>
    OBVIOUS
  <2>4. irq_exit' \in BOOLEAN
    BY Zenon
  <2> HIDE DEF ThreadCall
  <2>. QED
    BY <2>1, <2>2, <2>3, <2>4 DEF OnePostToExit
<1>3. WalkInList' /\ WalkGoesOn'
  BY <1>1 DEF WalkInList, WalkGoesOn
<1>4. Lives' /\ LiveIsListed' /\ MaskedIsLive'
  BY DEF Lives, LiveIsListed, MaskedIsLive
<1>5. EnabledAgain'
  BY <1>1 DEF EnabledAgain
<1>6. RescanPassed' /\ SleepsWhenServed'
  BY <1>1 DEF RescanPassed, SleepsWhenServed
<1>. QED
  BY <1>2, <1>3, <1>4, <1>5, <1>6

(* The node is uncounted, which leaves an interrupt that was enabled and   *)
(* has come again counted.                                                 *)
LEMMA ThreadUncountInv ==
  ASSUME IrqInv, ThreadUncount
  PROVE  IrqInv'
<1> USE DEF IrqInv, ThreadUncount, deviceVars
<1>1. /\ thread_pc = "uncount" /\ node \in DOMAIN irq_list
      /\ irq_list[node] \in Irq /\ refs[irq_list[node]] \in 1 .. MaxRefs
      /\ MaxRefs \in Nat
  BY ListPlaces, IrqAssumption DEF WalkInList, TypeOK
<1>2. /\ thread_pc' \in {"serve", "rescan"}
      /\ node' \in DOMAIN irq_list /\ node' \in Nat
      /\ temp' \in Nat /\ (temp' = 0 \/ temp' \in DOMAIN irq_list)
      /\ thread_pc' = "rescan" => node' = 1
      /\ flag' = flag
  BY <1>1, MoveOnPlaces
<1>3. refs' \in [Irq -> 0 .. MaxRefs]
  BY <1>1 DEF TypeOK
<1>4. TypeOK' /\ OnePostToExit'
  BY <1>2, <1>3 DEF OnePostToExit, TypeOK
<1>5. WalkInList' /\ WalkGoesOn'
  BY <1>2 DEF WalkInList, WalkGoesOn
<1>6. Lives' /\ LiveIsListed' /\ MaskedIsLive'
  BY <1>1, <1>2 DEF Lives, LiveIsListed, MaskedIsLive
<1>7. EnabledAgain'
  BY <1>1, <1>2 DEF EnabledAgain, TypeOK
<1>8. RescanPassed' /\ SleepsWhenServed'
  <2>1. node' = 1 => \A j \in DOMAIN irq_list : ~(j < node')
    BY ListPlaces DEF TypeOK
  <2>. QED
    BY <1>2, <2>1 DEF RescanPassed, SleepsWhenServed
<1>. QED
  BY <1>4, <1>5, <1>6, <1>7, <1>8

(* The second loop passes a node that has counted nothing, and at the last *)
(* one has passed every masked interrupt: none is outside the list.        *)
LEMMA ThreadRescanInv ==
  ASSUME IrqInv, ThreadRescan
  PROVE  IrqInv'
<1> USE DEF IrqInv, ThreadRescan, deviceVars
<1>1. /\ node \in DOMAIN irq_list /\ irq_list[node] \in Irq
      /\ Len(irq_list) \in Nat /\ DOMAIN irq_list = 1 .. Len(irq_list)
  BY ListPlaces DEF WalkInList, TypeOK
<1>2. CASE refs[irq_list[node]] > 0
  BY <1>2 DEF TypeOK, OnePostToExit, Lives, LiveIsListed,
     MaskedIsLive, EnabledAgain, WalkInList, WalkGoesOn,
     RescanPassed, SleepsWhenServed
<1>3. CASE ~(refs[irq_list[node]] > 0)
  <2>1. refs[irq_list[node]] = 0
    BY <1>1, <1>3, IrqAssumption DEF TypeOK
  <2>2. \A j \in DOMAIN irq_list : j <= node => Served(irq_list[j])
    BY <1>1, <1>3, <2>1 DEF RescanPassed, Served
  <2>3. TypeOK' /\ WalkInList' /\ WalkGoesOn'
    BY <1>1, <1>3 DEF TypeOK, WalkInList, WalkGoesOn, NextPlace
  <2>4. RescanPassed'
    BY <1>1, <1>3, <2>2 DEF RescanPassed, Served, NextPlace
  <2>5. SleepsWhenServed'
    <3>1. CASE node' = 0
      <4>1. node = Len(irq_list)
        BY <1>1, <1>3, <3>1 DEF NextPlace
      <4>2. \A i \in Range(irq_list) : Served(i)
        BY <1>1, <2>2, <4>1, ListPlaces DEF TypeOK
      <4>. QED
        BY <1>3, <4>2 DEF SleepsWhenServed, Served, MaskedIsLive, LiveIsListed
    <3>2. CASE node' # 0
      BY <1>3, <3>2 DEF SleepsWhenServed
    <3>. QED
      BY <3>1, <3>2
  <2>. QED
    BY <1>3, <2>3, <2>4, <2>5 DEF OnePostToExit, Lives, LiveIsListed,
       MaskedIsLive, EnabledAgain
<1>. QED
  BY <1>2, <1>3

(* The thread goes to sleep, and wakes.                                    *)
LEMMA ThreadSleepInv ==
  ASSUME IrqInv, ThreadCheck \/ ThreadStoreStop \/ ThreadWait \/ ThreadStoreRun
  PROVE  IrqInv'
<1> USE IrqAssumption
        DEF IrqInv, At, deviceVars, OnePostToExit, Lives, LiveIsListed,
            MaskedIsLive, EnabledAgain, TypeOK,
            WalkInList, WalkGoesOn, RescanPassed, SleepsWhenServed, Served
<1>1. CASE ThreadCheck
  BY <1>1 DEF ThreadCheck
<1>2. CASE ThreadStoreStop
  BY <1>2 DEF ThreadStoreStop
<1>3. CASE ThreadWait
  BY <1>3 DEF ThreadWait
<1>4. CASE ThreadStoreRun
  BY <1>4 DEF ThreadStoreRun
<1>. QED
  BY <1>1, <1>2, <1>3, <1>4

----------------------------------------------------------------------------
(* The application.                                                        *)

(* A new thread finds the tables as the last one left them: its list is    *)
(* empty, so that nothing is masked (irq_initialize).                      *)
LEMMA IrqInitializeInv ==
  ASSUME IrqInv, IrqInitialize
  PROVE  IrqInv'
<1> USE IrqAssumption DEF IrqInv, IrqInitialize, App, deviceVars
<1>1. irq_list = << >> /\ irq_list' = irq_list /\ irq_list' \in Seq(Irq)
  BY DEF Lives, TypeOK
<1>2. TypeOK' /\ OnePostToExit'
  <2>1. wasm_irq_sem' = 0 /\ wasm_irq_sem' \in 0 .. MaxSem + 1
    OBVIOUS
  <2>2. irq_exit' \in BOOLEAN /\ flag' \in BOOLEAN
    BY Zenon
  <2>. QED
    BY <1>1, <2>1, <2>2 DEF TypeOK, OnePostToExit
<1>3. Lives' /\ LiveIsListed' /\ MaskedIsLive'
  BY <1>1 DEF Lives, LiveIsListed, MaskedIsLive
<1>4. EnabledAgain'
  BY <1>1 DEF EnabledAgain
<1>. QED
  BY <1>2, <1>3, <1>4 DEF WalkInList, WalkGoesOn, RescanPassed, SleepsWhenServed

(* The new node stands at the end of the list, where the thread may be     *)
(* walking, and has counted nothing (wasm_interrupt_register).             *)
LEMMA IrqAttachInv ==
  ASSUME IrqInv, NEW i \in Irq, IrqAttach(i)
  PROVE  IrqInv'
<1> USE IrqAssumption DEF IrqInv, IrqAttach, App, threadVars, deviceVars
<1>1. /\ irq_list \in Seq(Irq) /\ irq_list' \in Seq(Irq)
      /\ Len(irq_list) \in Nat
      /\ DOMAIN irq_list = 1 .. Len(irq_list) /\ DOMAIN irq_list' = 1 .. Len(irq_list) + 1
      /\ \A j \in DOMAIN irq_list : irq_list'[j] = irq_list[j]
      /\ irq_list'[Len(irq_list) + 1] = i
  BY DEF TypeOK
<1>2. DOMAIN irq_list \subseteq DOMAIN irq_list'
  BY <1>1
<1>3. Range(irq_list') = Range(irq_list) \cup {i}
  <2>1. \A j \in DOMAIN irq_list' : j \in DOMAIN irq_list \/ j = Len(irq_list) + 1
    BY <1>1
  <2>2. Len(irq_list) + 1 \in DOMAIN irq_list'
    BY <1>1
  <2>. QED
    BY <1>1, <1>2, <2>1, <2>2 DEF Range
<1>4. \A j \in DOMAIN irq_list : irq_list[j] # i /\ irq_list[j] \in Irq
  BY ListPlaces, <1>1
<1>5. TypeOK' /\ OnePostToExit'
  <2>1. refs' \in [Irq -> 0 .. MaxRefs]
    BY DEF TypeOK
  <2>. QED
    BY <1>1, <2>1 DEF TypeOK, OnePostToExit
<1>6. \A j \in DOMAIN irq_list : refs'[irq_list'[j]] = refs[irq_list[j]]
  BY <1>1, <1>4 DEF TypeOK
<1>7. WalkInList' /\ WalkGoesOn'
  BY <1>2, <1>6 DEF WalkInList, WalkGoesOn
<1>8. line[i] # "masked"
  BY DEF MaskedIsLive, LiveIsListed
<1>9. Lives' /\ LiveIsListed' /\ MaskedIsLive'
  BY <1>3, <1>8 DEF Lives, LiveIsListed, MaskedIsLive, TypeOK
<1>10. EnabledAgain'
  <2>1. thread_pc = "uncount" => irq_list'[node] = irq_list[node]
    BY <1>1 DEF WalkInList
  <2>. QED
    BY <1>8, <2>1 DEF EnabledAgain, TypeOK
<1>11. RescanPassed'
  <2> SUFFICES ASSUME thread_pc = "rescan", NEW j \in DOMAIN irq_list', j < node
               PROVE  Served(irq_list[j])' 
    BY DEF RescanPassed, Served
  <2>1. j \in DOMAIN irq_list
    BY <1>1 DEF WalkInList
  <2>. QED
    BY <1>1, <1>6, <2>1 DEF RescanPassed, Served
<1>12. SleepsWhenServed'
  BY <1>8 DEF SleepsWhenServed, Served, TypeOK
<1>. QED
  BY <1>5, <1>7, <1>9, <1>10, <1>11, <1>12

(* The handler installed is of the node that was registered last; when the *)
(* operating system fails, none is (irq_attach).                           *)
LEMMA OsIrqAttachInv ==
  ASSUME IrqInv, OsIrqAttach
  PROVE  IrqInv'
<1> USE DEF IrqInv, OsIrqAttach, App, threadVars, Lives
<1>1. Last(irq_list) \in Irq /\ Last(irq_list) \in Range(irq_list)
  <2>1. Len(irq_list) \in DOMAIN irq_list
    BY DEF TypeOK
  <2>. QED
    BY <2>1, ListPlaces DEF Last, TypeOK
<1>2. /\ handler' \in [Irq -> {"none", "live", "stale"}]
      /\ \A i \in Irq : handler'[i] = "live" =>
            handler[i] = "live" \/ i = Last(irq_list)
      /\ \A i \in Irq : handler[i] = "live" => handler'[i] = "live"
  BY DEF TypeOK
<1>3. /\ app_pc = "attach" /\ app_pc' = "up" /\ irq_list # << >>
      /\ UNCHANGED <<thread_pc, node, temp, flag, irq_exit, irq_status, wasm_irq_sem,
                     irq_list, refs, line, enables>>
  OBVIOUS
<1> HIDE DEF OsIrqAttach
<1>. QED
  BY <1>1, <1>2, <1>3 DEF TypeOK, OnePostToExit, WalkInList, WalkGoesOn,
     LiveIsListed, MaskedIsLive, EnabledAgain, RescanPassed, SleepsWhenServed, Served

(* The application turns lines on and off, which masks none, and begins to *)
(* tear down.                                                              *)
LEMMA LinesInv ==
  ASSUME IrqInv, IrqUninitialize \/ \E i \in Irq : IrqEnable(i) \/ IrqDisable(i)
  PROVE  IrqInv'
<1> USE DEF IrqInv, App, threadVars
<1>1. ASSUME NEW i \in Irq, IrqEnable(i) \/ IrqDisable(i)
      PROVE  IrqInv'
  <2>1. line' \in [Irq -> {"on", "off", "masked"}]
    BY <1>1 DEF IrqEnable, IrqDisable, TypeOK
  <2>2. \A j \in Irq : line'[j] = "masked" => line[j] = "masked"
    BY <1>1 DEF IrqEnable, IrqDisable, TypeOK
  <2>3. /\ app_pc = "up" /\ app_pc' = "up"
        /\ UNCHANGED <<thread_pc, node, temp, flag, irq_exit, irq_status, wasm_irq_sem,
                       irq_list, refs, handler, enables>>
    BY <1>1 DEF IrqEnable, IrqDisable
  <2>4. RescanPassed'
    BY <2>2, <2>3, ListPlaces DEF RescanPassed, Served, TypeOK
  <2>. QED
    BY <2>1, <2>2, <2>3, <2>4 DEF TypeOK, OnePostToExit, WalkInList, WalkGoesOn, Lives,
       LiveIsListed, MaskedIsLive, EnabledAgain, SleepsWhenServed, Served
<1>2. CASE IrqUninitialize
  BY <1>2 DEF IrqUninitialize, deviceVars, TypeOK, OnePostToExit, WalkInList, WalkGoesOn,
     Lives, LiveIsListed, MaskedIsLive, EnabledAgain, RescanPassed, SleepsWhenServed, Served
<1>. QED
  BY <1>1, <1>2

(* wasm_irq_thread_exit: the flag, the post, and the end of the thread,    *)
(* after which no handler of its interrupts is live and none is masked.    *)
LEMMA ExitingInv ==
  ASSUME IrqInv, Exiting
  PROVE  IrqInv'
<1> USE IrqAssumption DEF IrqInv, App, At
<1>1. CASE ExitFlag
  BY <1>1 DEF ExitFlag, threadVars, deviceVars, TypeOK, OnePostToExit, WalkInList,
     WalkGoesOn, Lives, LiveIsListed, MaskedIsLive, EnabledAgain,
     RescanPassed, SleepsWhenServed, Served
<1>2. CASE ExitCheck
  <2>1. wasm_irq_sem' \in 0 .. MaxSem + 1 /\ (wasm_irq_sem' = 0 => wasm_irq_sem = 0)
    BY <1>2 DEF ExitCheck, TypeOK, OnePostToExit
  <2>2. /\ app_pc = "exit_check" /\ app_pc' = "join"
        /\ UNCHANGED <<thread_pc, node, temp, flag, irq_exit, irq_status,
                       irq_list, refs, handler, line, enables>>
    BY <1>2 DEF ExitCheck, threadVars, deviceVars
  <2>. QED
    BY <2>1, <2>2 DEF TypeOK, OnePostToExit, WalkInList, WalkGoesOn, Lives,
       LiveIsListed, MaskedIsLive, EnabledAgain, RescanPassed,
       SleepsWhenServed, Served
<1>3. CASE ExitJoined
  <2> USE <1>3 DEF ExitJoined
  <2>1. handler' \in [Irq -> {"none", "live", "stale"}] /\ line' \in [Irq -> {"on", "off", "masked"}]
    BY DEF TypeOK
  <2>2. /\ \A i \in Irq : handler'[i] # "live" /\ line'[i] # "masked"
        /\ \A i \in Irq : line'[i] = "on" => line[i] = "on"
    OBVIOUS
  <2>3. irq_list' \in Seq(Irq) /\ Range(irq_list') = {}
    BY DEF Range
  <2>. QED
    BY <2>1, <2>2, <2>3 DEF TypeOK, OnePostToExit, WalkInList, WalkGoesOn, Lives,
       LiveIsListed, MaskedIsLive, EnabledAgain, RescanPassed,
       SleepsWhenServed
<1>. QED
  BY <1>1, <1>2, <1>3 DEF Exiting

----------------------------------------------------------------------------

(* Every step of the three actors keeps the invariant.                     *)
LEMMA IrqStepInv == IrqInv /\ [Next]_vars => IrqInv'
<1> SUFFICES ASSUME IrqInv, [Next]_vars
             PROVE  IrqInv'
  OBVIOUS
<1>1. CASE Thread
  BY <1>1, ThreadLoopInv, ThreadServeInv, ThreadCallInv, ThreadUncountInv, ThreadRescanInv,
     ThreadSleepInv DEF Thread
<1>2. CASE Exiting \/ IrqInitialize \/ OsIrqAttach \/ IrqUninitialize
  BY <1>2, ExitingInv, IrqInitializeInv, OsIrqAttachInv, LinesInv
<1>3. ASSUME NEW i \in Irq, Interrupt(i) \/ IrqAttach(i) \/ IrqEnable(i) \/ IrqDisable(i)
      PROVE  IrqInv'
  BY <1>3, InterruptInv, IrqAttachInv, LinesInv
<1>4. CASE UNCHANGED vars
  BY <1>4 DEF vars, threadVars, deviceVars, IrqInv, TypeOK, OnePostToExit, WalkInList,
     WalkGoesOn, Lives, LiveIsListed, MaskedIsLive, EnabledAgain,
     RescanPassed, SleepsWhenServed, Served
<1>. QED
  BY <1>1, <1>2, <1>3, <1>4 DEF Next

(* The types, and the bounds that the interrupts' guards put on the        *)
(* counters of wasm_irq_thread.                                            *)
THEOREM IrqTypeCorrect == Spec => []TypeOK
<1>1. IrqInv => TypeOK
  BY DEF IrqInv
<1>. QED
  BY IrqInitInv, IrqStepInv, <1>1, PTL DEF Spec

(* The thread's walk stays in the list that irq_attach appends to without  *)
(* a lock (wasm_irq_thread_cb, wasm_interrupt_register).                   *)
THEOREM WalkStaysInList == Spec => []WalkInList
<1>1. IrqInv => WalkInList
  BY DEF IrqInv
<1>. QED
  BY IrqInitInv, IrqStepInv, <1>1, PTL DEF Spec

(* An interrupt that the handler disabled is not lost: it is counted, and  *)
(* when the thread sleeps on it a post is waiting (__wasm_irq_hander,      *)
(* wasm_irq_thread_cb).                                                    *)
THEOREM MaskedIsNotLost == Spec => []MaskedIsOnItsWay
<1>1. IrqInv => MaskedIsOnItsWay
  <2> SUFFICES ASSUME IrqInv, NEW i \in Irq, line[i] = "masked"
               PROVE  /\ enables => refs[i] > 0
                      /\ refs[i] > 0 /\ thread_pc = "wait" => wasm_irq_sem > 0
    BY DEF MaskedIsOnItsWay
  <2>1. enables => refs[i] > 0
    BY DEF IrqInv, EnabledAgain
  <2>2. thread_pc = "wait" /\ wasm_irq_sem = 0 => refs[i] = 0
    BY DEF IrqInv, SleepsWhenServed, Served
  <2>3. wasm_irq_sem \in Nat /\ refs[i] \in Nat
    BY IrqAssumption DEF IrqInv, TypeOK
  <2>. QED
    BY <2>1, <2>2, <2>3
<1>. QED
  BY IrqInitInv, IrqStepInv, <1>1, PTL DEF Spec
=============================================================================
