------------------------------ MODULE DbusArgs ------------------------------
(***************************************************************************)
(* dbus_message_append_args and dbus_message_get_args of dbus.c.  The      *)
(* application passes a list of types, each with the address of a value,   *)
(* as a block of 32-bit words in its linear memory; libdbus takes the same *)
(* block for its va_list.  dbus_message_args_conv walks it by the types to *)
(* turn the addresses into native ones, and the strings the values hold,   *)
(* and afterwards back.                                                    *)
(***************************************************************************)
EXTENDS Integers, Sequences

CONSTANTS Lists,        \* lists of types
          Cells         \* where the application keeps the values

(* What dbus_message_arg_type_is_string and dbus_message_arg_type_is_number *)
(* tell apart.  The latter names INT32 twice and misses UINT32, INT16,     *)
(* INT64, UINT64 and DOUBLE: these are numbers that the glue does not know. *)
Kind == {"string", "number", "unknown number", "array"}

ASSUME ListsAssumption == \A l \in Lists : l \in Seq(Kind)

ArgsCalls == {"append_args", "append_args_valist", "get_args"}

VARIABLES args_call,    \* the native that is called
          types,        \* its list
          cell_of,      \* the cell of each argument
          address,      \* how often the word with its address is converted
          cells,        \* how often the string in a cell is; or NULL
          args_step,    \* where the call is
          pos           \* the word that the walk reads next

argsVars == <<args_call, types, cell_of, address, cells, args_step, pos>>

Null == -9

ArgsInit ==
    /\ args_call \in ArgsCalls
    /\ types \in Lists
    /\ cell_of \in [DOMAIN types -> Cells]
    /\ address = [i \in DOMAIN types |-> 0]
    /\ cells \in [Cells -> {0, Null}]
    /\ args_call # "get_args" => \A c \in Cells : cells[c] = 0
    /\ args_step = "to native"
    /\ pos = 1

(* Here NULL is converted like any other pointer: to the base and back.    *)
ArgsToNative(p) == IF p = Null THEN Null + 1 ELSE p + 1
ArgsToApp(p) == IF p = Null THEN Null ELSE p - 1
ArgsTo(side, p) == IF side = "to native" THEN ArgsToNative(p) ELSE ArgsToApp(p)

----------------------------------------------------------------------------
(* The block: the first type is an argument of its own, then a value's     *)
(* address and the next type take turns until DBUS_TYPE_INVALID.           *)

WordCount == 2 * Len(types)

ArgAt(p) == (p + 1) \div 2

(* Word p read as a type: an address is none that the glue knows.          *)
TypeAt(p) ==
    IF p % 2 = 1 THEN "address"
    ELSE IF p = WordCount THEN "invalid" ELSE types[ArgAt(p) + 1]

(* What the walk has read last, or the argument it begins with.            *)
spec_type == TypeAt(pos - 1)

Taking == {"string", "number"}

ArgsWalking == {"to native", "to app"}

(* A known type takes the address that follows; a string is converted in   *)
(* its cell too.                                                           *)
TakeAddress ==
    LET i == ArgAt(pos) IN
    /\ spec_type \in Taking
    /\ address' = [address EXCEPT ![i] = ArgsTo(args_step, @)]
    /\ cells' = IF spec_type = "string"
                THEN [cells EXCEPT ![cell_of[i]] = ArgsTo(args_step, @)]
                ELSE cells
    /\ pos' = pos + 2

(* Any other type leaves the word to be read as the next one.              *)
PassWord ==
    /\ spec_type \notin Taking \cup {"invalid", "array"}
    /\ pos' = pos + 1
    /\ UNCHANGED <<address, cells>>

(* Bug: only the strings are stepped over.                                 *)
ArgsWalkStringsOnly ==
    /\ args_step \in ArgsWalking
    /\ \/ spec_type = "string" /\ TakeAddress
       \/ PassWord
       \/ spec_type = "number" /\ pos' = pos + 1 /\ UNCHANGED <<address, cells>>
    /\ UNCHANGED <<args_call, types, cell_of, args_step>>

(* One round of the loop of dbus_message_args_conv.                        *)
ArgsWalk ==
    /\ args_step \in ArgsWalking
    /\ TakeAddress \/ PassWord
    /\ UNCHANGED <<args_call, types, cell_of, args_step>>

(* For an array it takes the address of the array's address for the array, *)
(* and a converted word for its length: it writes somewhere.               *)
GoAstray ==
    /\ args_step \in ArgsWalking /\ spec_type = "array"
    /\ args_step' = "lost"
    /\ UNCHANGED <<args_call, types, cell_of, address, cells, pos>>

(* The walk to native has ended and libdbus is called.                     *)
ArgsCall ==
    /\ args_step = "to native" /\ spec_type = "invalid"
    /\ args_step' = "native"
    /\ UNCHANGED <<args_call, types, cell_of, address, cells, pos>>

(* libdbus has returned, and the walk back begins.                         *)
ArgsBack ==
    /\ args_step = "native"
    /\ args_step' = "to app" /\ pos' = 1
    /\ UNCHANGED <<args_call, types, cell_of, address, cells>>

ArgsReturn ==
    /\ args_step = "to app" /\ spec_type = "invalid"
    /\ args_step' = "returned"
    /\ UNCHANGED <<args_call, types, cell_of, address, cells, pos>>

(* libdbus sets the values in turn, and stops at the first of another type *)
(* than the message's; a string of its own is a native address.            *)
GetArgsSets ==
    /\ args_step = "native" /\ args_call = "get_args"
    /\ \E n \in 0 .. Len(types) :
           cells' = [c \in Cells |->
               IF \E i \in 1 .. n : types[i] = "string" /\ cell_of[i] = c THEN 1 ELSE cells[c]]
    /\ UNCHANGED <<args_call, types, cell_of, address, args_step, pos>>

ArgsNext == ArgsWalk \/ GoAstray \/ ArgsCall \/ GetArgsSets \/ ArgsBack \/ ArgsReturn

ArgsSpec == ArgsInit /\ [][ArgsNext]_argsVars

----------------------------------------------------------------------------
(* Properties                                                              *)

(* Two strings in one cell: the glue converts it twice.                    *)
SharedCell(c) ==
    \E i, j \in DOMAIN types :
        i # j /\ types[i] = "string" /\ types[j] = "string" /\ cell_of[i] = c /\ cell_of[j] = c

(* libdbus finds the native address of every value whose type the glue     *)
(* knows, in whatever order types it does not know stand between, and of   *)
(* every string passed; unless two arguments are one cell.                 *)
ArgsConverted ==
    args_step = "native" =>
        \A i \in DOMAIN types :
            /\ address[i] = (IF types[i] \in Taking THEN 1 ELSE 0)
            /\ types[i] = "string" /\ ~ SharedCell(cell_of[i]) =>
                   cells[cell_of[i]] \in {1, Null + 1}

(* After the call the block is the application's again, and so are the     *)
(* strings, those that libdbus has set and those it has not reached; again *)
(* unless two arguments are one cell, which then may be off by one base.   *)
ArgsRestored ==
    args_step = "returned" =>
        /\ \A i \in DOMAIN types : address[i] = 0
        /\ \A c \in Cells : SharedCell(c) \/ cells[c] \in {0, Null}

(* The walk turns the block and its strings to native and back.            *)
ArgsTurned == ArgsConverted /\ ArgsRestored
=============================================================================
