---------------------------- MODULE DbusCallbacks ----------------------------
(***************************************************************************)
(* The callback tables of dbus/dbus.c.  libdbus calls C functions, an      *)
(* application registers functions of its WebAssembly table; so each glue  *)
(* function puts the application's functions in a free slot of a static    *)
(* array and registers C proxies, which find the slot again by one of the  *)
(* two pointers they are called with.  The six tables obey the same code   *)
(* and differ in the pointer each step goes by.                            *)
(*                                                                         *)
(* One task at a time uses D-Bus (nothing in dbus.c is locked), pointers   *)
(* are not NULL, and the application keeps to what a search by one pointer *)
(* can tell apart: see Distinct.                                           *)
(***************************************************************************)
EXTENDS Naturals, FiniteSets, SequencesExt

CONSTANTS Owner,        \* connections, or pending calls
          Data,         \* the user data pointers
          Function,     \* the application's callbacks, as registered together
          Slots,        \* DBUS_PENDING_CALL_IDX_MAX
          Null

ASSUME SlotsAssumption ==
    /\ Slots \in Nat \ {0}
    /\ Null \notin Owner \cup Data \cup Function

Registration == [owner : Owner, data : Data, function : Function]

Slot == [owner : Owner \cup {Null}, data : Data \cup {Null},
         function : Function \cup {Null}]

Empty == [owner |-> Null, data |-> Null, function |-> Null]

NoSlot == 0

(* For each table the field that is NULL in a free slot, the field by which *)
(* a callback and the free function find their slot, the fields that must   *)
(* tell two registrations apart, and whether libdbus lets a registration    *)
(* replace the one before with the same owner.                              *)
FilterRule == [claim |-> "data", call |-> "data", free |-> "data",
               keys |-> {"data"}, replaces |-> FALSE]

PathRule == [claim |-> "owner", call |-> "owner", free |-> "owner",
             keys |-> {"owner"}, replaces |-> FALSE]

WatchRule == [claim |-> "data", call |-> "data", free |-> "data",
              keys |-> {"data"}, replaces |-> TRUE]

TimeoutRule == WatchRule

StatusRule == [claim |-> "owner", call |-> "owner", free |-> "data",
               keys |-> {"data"}, replaces |-> TRUE]

PendingRule == [claim |-> "data", call |-> "owner", free |-> "data",
                keys |-> {"owner", "data"}, replaces |-> FALSE]

Rule == [filter |-> FilterRule, path |-> PathRule, watch |-> WatchRule,
         timeout |-> TimeoutRule, status |-> StatusRule, pending |-> PendingRule]

VARIABLES table,        \* the table that is used, chosen at the start
          slots,        \* the static array
          registered,   \* what libdbus calls the proxies for
          refused,      \* what libdbus had no memory for
          unslotted,    \* registrations that found every slot taken
          freeing       \* the free functions that run, innermost last

vars == <<table, slots, registered, refused, unslotted, freeing>>

Init ==
    /\ table \in DOMAIN Rule
    /\ slots = [i \in 1 .. Slots |-> Empty]
    /\ registered = {}
    /\ refused = {}
    /\ unslotted = {}
    /\ freeing = <<>>

BeingFreed == {f.registration : f \in ToSet(freeing)}

(* The application's side: a pointer by which a slot is looked for belongs  *)
(* to one registration at a time, a refused one for ever.                   *)
Distinct(r) ==
    \A k \in Rule[table].keys, o \in registered \cup refused \cup BeingFreed :
        r[k] # o[k]

----------------------------------------------------------------------------
(* The loops over the array.                                               *)

LeastSlot(S) == IF S = {} THEN NoSlot ELSE CHOOSE i \in S : \A j \in S : i <= j

(* A stale field of a slot that has been released matches like any other.  *)
Found(field, r) == LeastSlot({i \in 1 .. Slots : slots[i][field] = r[field]})

CallSlot(r) == Found(Rule[table].call, r)
FreeSlot(r) == Found(Rule[table].free, r)

Free == {i \in 1 .. Slots : slots[i][Rule[table].claim] = Null}

(* Bug: the last free slot is taken instead of the first.                  *)
ClaimLast(r) ==
    IF Free = {} THEN UNCHANGED slots
    ELSE slots' = [slots EXCEPT ![CHOOSE i \in Free : \A j \in Free : i >= j] = r]

(* Bug: the loop runs one element past the end of the array.               *)
ClaimPastEnd(r) ==
    IF Free = {} THEN slots' = Append(slots, r)
    ELSE slots' = [slots EXCEPT ![LeastSlot(Free)] = r]

Claim(r) ==
    LET i == LeastSlot(Free)
    IN  IF i = NoSlot THEN UNCHANGED slots ELSE slots' = [slots EXCEPT ![i] = r]

----------------------------------------------------------------------------
(* A glue function takes a slot and calls libdbus.  When libdbus accepts,  *)
(* it may free what the registration replaces.  When it refuses, and when  *)
(* there was no slot, the glue function carries on all the same.           *)

Replaced(r) ==
    {o \in registered : Rule[table].replaces /\ o.owner = r.owner}

(* r, when it finds the table full.                                        *)
Unslotted(r) == {o \in {r} : Free = {}}

Register(r) ==
    /\ Distinct(r)
    /\ Claim(r)
    /\ UNCHANGED table

RegisterAccepted(r) ==
    /\ Replaced(r) = {}
    /\ Register(r)
    /\ registered' = registered \cup {r}
    /\ unslotted' = unslotted \cup Unslotted(r)
    /\ UNCHANGED <<refused, freeing>>

(* dbus_connection_set_dispatch_status_function cannot fail.               *)
RegisterRefused(r) ==
    /\ table # "status"
    /\ Register(r)
    /\ refused' = refused \cup {r}
    /\ unslotted' = unslotted \cup Unslotted(r)
    /\ UNCHANGED <<registered, freeing>>

(* A free proxy finds the slot and runs the application's function; the    *)
(* slot is released when that returns.  The search comes after the claim.  *)
StartFree(r, i) ==
    IF i = NoSlot
    THEN UNCHANGED freeing
    ELSE freeing' = Append(freeing, [slot |-> i, registration |-> r])

RegisterReplacing(r) ==
    \E o \in Replaced(r) :
        /\ Register(r)
        /\ registered' = (registered \ {o}) \cup {r}
        /\ unslotted' = (unslotted \ {o}) \cup Unslotted(r)
        /\ StartFree(o, FreeSlot(o)')
        /\ UNCHANGED refused

(* The connection is finalised, the object path unregistered, the pending  *)
(* call released.                                                          *)
LetGo(r) ==
    /\ r \in registered
    /\ registered' = registered \ {r}
    /\ unslotted' = unslotted \ {r}
    /\ StartFree(r, FreeSlot(r))
    /\ UNCHANGED <<table, slots, refused>>

(* Bug: the free proxy does not give the slot back.                        *)
ReleaseNothing(i) == UNCHANGED slots

Release(i) == slots' = [slots EXCEPT ![i][Rule[table].claim] = Null]

FreeReturns ==
    /\ freeing # <<>>
    /\ Release(Last(freeing).slot)
    /\ freeing' = Front(freeing)
    /\ UNCHANGED <<table, registered, refused, unslotted>>

Next ==
    \/ \E r \in Registration :
        \/ RegisterAccepted(r)
        \/ RegisterRefused(r)
        \/ RegisterReplacing(r)
        \/ LetGo(r)
    \/ FreeReturns

Spec == Init /\ [][Next]_vars

----------------------------------------------------------------------------
(* Properties                                                              *)

(* Every variable has its type: no slot is written past the array's end.   *)
TypeOK ==
    /\ table \in DOMAIN Rule
    /\ slots \in [1 .. Slots -> Slot]
    /\ registered \subseteq Registration
    /\ refused \subseteq Registration
    /\ unslotted \subseteq Registration
    /\ freeing \in Seq([slot : 1 .. Slots, registration : Registration])

(* Whatever released slots still hold, libdbus's call on behalf of a       *)
(* registration runs that registration's function with its environment, or *)
(* no function when the table was full; except that a dispatch status      *)
(* function shares its connection with the one it replaces until that one  *)
(* has been freed.                                                         *)
ReachesItsOwn ==
    \A r \in registered :
        (table = "status" => \A o \in BeingFreed : o.owner # r.owner) =>
            IF r \in unslotted THEN CallSlot(r) = NoSlot
            ELSE CallSlot(r) # NoSlot /\ slots[CallSlot(r)] = r

(* A free function that runs is the one of the registration it is called   *)
(* for, and nobody takes its slot before it returns, however many          *)
(* registrations it makes or lets go meanwhile.                            *)
FreedByItsOwn ==
    \A f \in ToSet(freeing) : slots[f.slot] = f.registration

(* The slots in use are, one each, those of the registrations libdbus      *)
(* keeps or is freeing and of the refused ones, which are never given      *)
(* back.                                                                   *)
SlotsAccounted ==
    LET holders == ((registered \cup refused) \ unslotted) \cup BeingFreed
        inUse == (1 .. Slots) \ Free
    IN  /\ {slots[i] : i \in inUse} = holders
        /\ Cardinality(inUse) = Cardinality(holders)
=============================================================================
