---------------------------- MODULE MCNativeGlue ----------------------------
(* The glue around the native functions for TLC, a part at a time: the parts *)
(* share no state, so a behaviour belongs to the one chosen at the start,    *)
(* and the others rest.                                                      *)
EXTENDS MCFormatArgs, NativePointers, LibcHeap, CompareProxy, PthreadOnce, DbusArgs, ScanfArgs, TLC

CONSTANTS h1, h2, h3

VARIABLE part

(* Threads of two applications, which have addresses of their own.           *)
MCAppOf == (h1 :> "a") @@ (h2 :> "a") @@ (h3 :> "b")

(* Lists of D-Bus types.                                                     *)
MCLists == UNION {[1 .. n -> Kind] : n \in 0 .. 3}

----------------------------------------------------------------------------
FormatRests ==
    /\ call = "printf" /\ format = <<Of(<<"x">>, <<>>)>>
    /\ start = 0 /\ end = BlockEnd(format, 0)
    /\ FormatInit

PointerRests ==
    PointerStart("strtol", 0, NoCells, {}, Arg("a"), Arg("b"))

CompareRests ==
    /\ g_compare_func = CHOOSE f \in Functions : TRUE
    /\ CompareInit

OnceRests ==
    /\ init_routine_idx = CHOOSE c \in Control : TRUE
    /\ OnceInit

ArgsRests ==
    /\ args_call = "append_args" /\ types = <<>> /\ cell_of = <<>>
    /\ address = <<>>
    /\ cells = [c \in Cells |-> 0]
    /\ args_step = "returned" /\ pos = 1

ScanRests ==
    /\ scan_args = 1 /\ targets = {}
    /\ scan_words = [i \in 1 .. ScanWords |-> Word("zero")]
    /\ scanned = <<>>
    /\ scan_step = "called"

GlueInit ==
    /\ part \in {"format", "pointers", "heap", "compare", "once", "args", "scanf"}
    /\ IF part = "format" THEN FormatInit ELSE FormatRests
    /\ IF part = "pointers" THEN PointerInit ELSE PointerRests
    /\ HeapInit
    /\ IF part = "compare" THEN CompareInit ELSE CompareRests
    /\ IF part = "once" THEN OnceInit ELSE OnceRests
    /\ IF part = "args" THEN ArgsInit ELSE ArgsRests
    /\ IF part = "scanf" THEN ScanInit ELSE ScanRests

Only(name) ==
    /\ part = name
    /\ name # "format" => UNCHANGED formatVars
    /\ name # "pointers" => UNCHANGED pointerVars
    /\ name # "heap" => UNCHANGED heapVars
    /\ name # "compare" => UNCHANGED compareVars
    /\ name # "once" => UNCHANGED onceVars
    /\ name # "args" => UNCHANGED argsVars
    /\ name # "scanf" => UNCHANGED scanVars
    /\ UNCHANGED part

(* Bound: what an application takes for its block when an allocation has    *)
(* failed lies in one of the blocks, which are alike.                       *)
OneWildBlock ==
    \A p \in dangling' : p[1] = AnyBlock \/ \E t \in Callers : At(t) = "full"

GlueNext ==
    \/ Only("format") /\ FormatNext
    \/ Only("pointers") /\ PointerNext
    \/ Only("heap") /\ HeapNext /\ OneWildBlock
    \/ Only("compare") /\ CompareNext
    \/ Only("once") /\ OnceNext
    \/ Only("args") /\ ArgsNext
    \/ Only("scanf") /\ ScanNext

glueVars ==
    <<part, formatVars, pointerVars, heapVars, compareVars, onceVars, argsVars,
      scanVars>>

GlueSpec ==
    /\ GlueInit /\ [][GlueNext]_glueVars
    /\ \A t \in Sorters : WF_compareVars(SortGoesOn(t))

(* Walks, pointers in memory and the comparison proxy are what the code     *)
(* keeps.                                                                   *)
GlueTypeOK == FormatTypeOK /\ PointerTypeOK /\ CompareTypeOK
=============================================================================
