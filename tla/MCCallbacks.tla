---------------------------- MODULE MCCallbacks ----------------------------
(* The tables of callbacks for TLC, one at a time: they share no state, so a *)
(* behaviour belongs to the one chosen at the start, and the others rest.    *)
EXTENDS DbusCallbacks, DbusSetData, ChreEvents

CONSTANTS FreesNested,  \* bound: so many free functions of data run at once
          Alike         \* the pointers that TLC treats as interchangeable

VARIABLE uses

CallbacksInit ==
    /\ uses \in {"register", "set data", "events"}
    /\ Init /\ (uses # "register" => table = "filter")
    /\ SetDataInit /\ (uses # "set data" => object_kind = "watch")
    /\ EventInit

OnlyUses(name) ==
    /\ uses = name
    /\ name # "register" => UNCHANGED vars
    /\ name # "set data" => UNCHANGED setVars
    /\ name # "events" => UNCHANGED eventVars
    /\ UNCHANGED uses

CallbacksNext ==
    \/ OnlyUses("register") /\ Next
    \/ OnlyUses("set data") /\ SetDataNext /\ Len(letting_go') <= FreesNested
    \/ OnlyUses("events") /\ EventNext

CallbacksSpec == CallbacksInit /\ [][CallbacksNext]_<<uses, vars, setVars, eventVars>>

(* The tables' entries and the calls in progress are what the code keeps.   *)
CallbacksTypeOK == TypeOK /\ SetDataTypeOK /\ EventTypeOK

(* Owners, pointers and functions are interchangeable in every part; Alike   *)
(* leaves one pointer out, as permutations cost more than they save.         *)
Symmetry ==
    Permutations(Owner) \cup Permutations(Alike) \cup Permutations(Function)
=============================================================================
