----------------------------- MODULE DbusSetData -----------------------------
(***************************************************************************)
(* dbus_watch_set_data and dbus_timeout_set_data of dbus/dbus.c.  libdbus  *)
(* keeps one pointer for each watch and each timeout, and calls a C proxy  *)
(* with the pointer it lets go of.  A slot of the glue's table remembers   *)
(* what was set last and what was set before that; the proxy looks for the *)
(* pointer among the latter.  The two tables differ in when a slot is      *)
(* given back.                                                             *)
(*                                                                         *)
(* A slot never forgets an old pointer, and the application's allocator    *)
(* may hand out the address of freed data again; the proxy then may find   *)
(* the slot of the data before.  What is known of a pointer's past is      *)
(* recorded in reused.                                                     *)
(***************************************************************************)
EXTENDS Naturals, FiniteSets, SequencesExt

CONSTANTS Held,         \* the watches, or the timeouts
          Datum,        \* the pointers an application sets
          FreeFunction, \* its free functions
          SetSlots,     \* DBUS_PENDING_CALL_IDX_MAX
          None

ASSUME SetDataAssumption ==
    /\ SetSlots \in Nat \ {0}
    /\ None \notin Held \cup Datum \cup FreeFunction

(* What is set: a pointer and a free function, either of them NULL.        *)
Setting == [data : Datum \cup {None}, function : FreeFunction \cup {None}]

Nothing == [data |-> None, function |-> None]

Entry == [object : Held \cup {None}, new : Setting, old : Setting]

NoEntry == 0

VARIABLES object_kind,  \* "watch" or "timeout", chosen at the start
          entries,      \* the static array
          kept,         \* what libdbus holds for each object
          letting_go    \* the free functions that run, innermost last

(* History: recorded, and read by no step of the code.                     *)
VARIABLES reused,       \* the pointers that a slot or libdbus still had when
                        \* they were last set
          unplaced,     \* the objects whose data found no slot when it was set
          loss          \* why nobody freed what libdbus let go of in the
                        \* last step, or "none"

setVars == <<object_kind, entries, kept, letting_go, reused, unplaced, loss>>

SetDataInit ==
    /\ object_kind \in {"watch", "timeout"}
    /\ entries = [i \in 1 .. SetSlots |->
                    [object |-> None, new |-> Nothing, old |-> Nothing]]
    /\ kept = [o \in Held |-> Nothing]
    /\ letting_go = <<>>
    /\ reused = {} /\ unplaced = {} /\ loss = "none"

----------------------------------------------------------------------------
(* The loops over the array.                                               *)

FirstEntry(S) == IF S = {} THEN NoEntry ELSE Min(S)

(* Where the loop stops: at the object's slot, or a free one before it.    *)
EntryFor(o) == FirstEntry({i \in 1 .. SetSlots : entries[i].object \in {o, None}})

(* Bug: what was set before is not kept.                                   *)
StoreNewOnly(o, s) ==
    LET i == EntryFor(o)
    IN  entries' = IF i = NoEntry THEN entries
                   ELSE [entries EXCEPT ![i].object = o, ![i].new = s]

(* A slot that is claimed keeps the old data of the object before.         *)
Store(o, s) ==
    LET i == EntryFor(o)
    IN  entries' =
          IF i = NoEntry THEN entries
          ELSE IF entries[i].object = o
          THEN [entries EXCEPT ![i].old = entries[i].new, ![i].new = s]
          ELSE [entries EXCEPT ![i].object = o, ![i].new = s]

EntryOfOld(array, d) == FirstEntry({i \in 1 .. SetSlots : array[i].old.data = d})

----------------------------------------------------------------------------
(* libdbus: the free function of what is replaced runs first, then the new *)
(* pointer is kept.  NULL is let go of without a word.                     *)

LettingGoOf == {f.object : f \in ToSet(letting_go)}

(* Why nobody frees what is kept for o, by the state before the call:      *)
(* libdbus finalises o, which shifts no data to the old one; every slot    *)
(* was another's when the data was set; or a slot has become free before   *)
(* the one that has it, where the loop stops.                              *)
Cause(o, replaced) ==
    IF ~replaced THEN "finalised"
    ELSE IF o \in unplaced THEN "full"
    ELSE IF \E j \in 1 .. SetSlots :
                /\ entries[j].object = o /\ entries[j].new = kept[o]
                /\ \E k \in 1 .. j - 1 : entries[k].object = None
    THEN "moved"
    ELSE "lost"

(* s is kept for o once the free function of what was kept has returned.   *)
Replace(o, s, replaced) ==
    LET i == EntryOfOld(entries', kept[o].data)
        called == kept[o].data # None /\ i # NoEntry
        leaked == kept[o].data # None /\ i = NoEntry /\ kept[o].function # None
    IN  /\ kept' = IF called THEN kept ELSE [kept EXCEPT ![o] = s]
        /\ letting_go' = IF called
                         THEN Append(letting_go, [object |-> o, entry |-> i, next |-> s])
                         ELSE letting_go
        /\ loss' = IF leaked THEN Cause(o, replaced) ELSE "none"

(* The application sets no data for an object from the free function of    *)
(* that object's data, and sets a pointer for one object at a time.  It may *)
(* set a pointer again, whatever the table remembers of it, as soon as the *)
(* free function for it runs.                                              *)
MaySet(o, s) ==
    /\ o \notin LettingGoOf
    /\ s.data = None => s.function = None
    /\ s.data # None =>
        /\ \A other \in Held \ LettingGoOf : kept[other].data # s.data
        /\ \A f \in ToSet(letting_go) : f.next.data # s.data

Reuses(d) ==
    \/ \E i \in 1 .. SetSlots : d \in {entries[i].new.data, entries[i].old.data}
    \/ \E o \in Held : kept[o].data = d

Record(o, s) ==
    /\ reused' = IF Reuses(s.data) THEN reused \cup ({s.data} \ {None})
                 ELSE reused \ {s.data}
    /\ unplaced' = IF \E i \in 1 .. SetSlots : entries[i].object \in {o, None}
                   THEN unplaced \ {o} ELSE unplaced \cup {o}

(* glue_dbus_watch_set_data and glue_dbus_timeout_set_data.                *)
SetDataOf(o, s) ==
    /\ MaySet(o, s)
    /\ Store(o, s)
    /\ Replace(o, s, TRUE)
    /\ Record(o, s)
    /\ UNCHANGED object_kind

(* libdbus gives up an object that holds a pointer; a new object may have  *)
(* its address.                                                            *)
Finalise(o) ==
    /\ o \notin LettingGoOf
    /\ kept[o] # Nothing
    /\ UNCHANGED <<object_kind, entries, reused, unplaced>>
    /\ Replace(o, Nothing, FALSE)

(* A watch's slot is free again when no free function has been set, a      *)
(* timeout's when no data has.                                             *)
GivesBack(e) ==
    IF object_kind = "watch" THEN e.new.function = None ELSE e.new.data = None

FreeFunctionReturns ==
    /\ letting_go # <<>>
    /\ LET f == Last(letting_go)
       IN  /\ entries' = IF GivesBack(entries[f.entry])
                         THEN [entries EXCEPT ![f.entry].object = None]
                         ELSE entries
           /\ kept' = [kept EXCEPT ![f.object] = f.next]
    /\ letting_go' = Front(letting_go)
    /\ loss' = "none"
    /\ UNCHANGED <<object_kind, reused, unplaced>>

SetDataNext ==
    \/ \E o \in Held :
        \/ \E s \in Setting : SetDataOf(o, s)
        \/ Finalise(o)
    \/ FreeFunctionReturns

SetDataSpec == SetDataInit /\ [][SetDataNext]_setVars

----------------------------------------------------------------------------
(* Properties                                                              *)

(* Every variable has its type: every running free function has a slot.    *)
SetDataTypeOK ==
    /\ object_kind \in {"watch", "timeout"}
    /\ entries \in [1 .. SetSlots -> Entry]
    /\ kept \in [Held -> Setting]
    /\ letting_go \in Seq([object : Held, entry : 1 .. SetSlots, next : Setting])
    /\ reused \in SUBSET Datum
    /\ unplaced \in SUBSET Held
    /\ loss \in {"none", "finalised", "full", "moved", "lost"}

(* The application's function that runs when libdbus lets go of a pointer  *)
(* is the one that was set with this pointer, until it returns, whatever   *)
(* it sets for other objects meanwhile; unless the allocator had handed    *)
(* the pointer out again while the glue or libdbus still had it.           *)
FreedAsSet ==
    \A f \in ToSet(letting_go) :
        kept[f.object].data \notin reused => entries[f.entry].old = kept[f.object]

(* For each pointer that libdbus holds with a free function, the first slot *)
(* of its object remembers both, unless every slot was another's when it    *)
(* was set; so the next set_data moves on what libdbus is about to let go.  *)
RemembersTheLast ==
    \A o \in Held \ (LettingGoOf \cup unplaced) :
        LET own == FirstEntry({i \in 1 .. SetSlots : entries[i].object = o})
        IN  kept[o].data # None /\ kept[o].function # None
            => own # NoEntry /\ entries[own].new = kept[o]

(* A pointer that is replaced is freed, unless a slot before the one of its *)
(* object had become free, or every slot was another's when it was set.     *)
ReplacedIsFreed == loss # "lost"

(* What is set is remembered with its own free function until libdbus lets *)
(* go of it, and is freed by it then, but for the losses named above.      *)
SetIsFreed == FreedAsSet /\ RemembersTheLast /\ ReplacedIsFreed
==============================================================================
