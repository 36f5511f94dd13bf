------------------------------ MODULE ChreEvents ------------------------------
(***************************************************************************)
(* The maps of chre/event_wrapper.cc.  An application sends an event, or a *)
(* message to the host, and names a function of its WebAssembly table that *)
(* CHRE is to call when it has done with the data; the wrapper remembers   *)
(* the function under the data pointer and gives CHRE a C function, which  *)
(* finds it there.  Events and messages have a map each and the same code. *)
(***************************************************************************)
EXTENDS Naturals, SequencesExt

CONSTANTS Payload,      \* the data pointers
          Release_to,   \* the applications' free functions
          NoRelease,    \* function offset 0, and no entry in the map
          QueueLimit,   \* the events CHRE holds
          Nesting       \* free functions inside each other

ASSUME EventsAssumption ==
    /\ NoRelease \notin Release_to
    /\ QueueLimit \in Nat
    /\ Nesting \in Nat

Event == [data : Payload, function : Release_to \cup {NoRelease}]

VARIABLES event_map,    \* eventDataMap: pointers to entries
          in_flight,    \* what CHRE has accepted and not done with
          releasing,    \* the free functions that run, innermost last, each
                        \* with an iterator that is good or not
          shared,       \* pointers sent again before their function returned
          erased_twice  \* an entry was erased through a stale iterator

eventVars == <<event_map, in_flight, releasing, shared, erased_twice>>

NoEvent == [present |-> FALSE, function |-> NoRelease]

EventInit ==
    /\ event_map = [d \in Payload |-> NoEvent]
    /\ in_flight = <<>>
    /\ releasing = <<>>
    /\ shared = {}
    /\ erased_twice = FALSE

Outstanding == ToSet(in_flight) \cup {r.event : r \in ToSet(releasing)}

InUse(d) == \E ev \in Outstanding : ev.data = d

(* freeFunc up to the call: an event that has no entry, or an entry without *)
(* a function, is left as it is.                                            *)
FreeFuncBegins(map, ev) ==
    IF map[ev.data].function # NoRelease
    THEN releasing' = Append(releasing, [event |-> ev, good |-> TRUE,
                                         called |-> map[ev.data].function])
    ELSE UNCHANGED releasing

(* Bug: only a pointer without an entry gets one.                           *)
MappedOnce(ev) ==
    IF event_map[ev.data].present THEN event_map
    ELSE [event_map EXCEPT ![ev.data] = [present |-> TRUE, function |-> ev.function]]

(* The assignment to eventDataMap[eventData].                               *)
Mapped(ev) ==
    [event_map EXCEPT ![ev.data] = [present |-> TRUE, function |-> ev.function]]

MarkShared(d) == shared' = IF InUse(d) THEN shared \cup {d} ELSE shared

(* chreSendEventWrapper and chreSendMessageWithPermissionsWrapper: CHRE     *)
(* queues the event,                                                        *)
SendAccepted(ev) ==
    /\ Len(in_flight) < QueueLimit
    /\ event_map' = Mapped(ev)
    /\ in_flight' = Append(in_flight, ev)
    /\ MarkShared(ev.data)
    /\ UNCHANGED <<releasing, erased_twice>>

(* or refuses it, and then calls the free function before it returns.       *)
SendRefused(ev) ==
    /\ Len(releasing) < Nesting
    /\ event_map' = Mapped(ev)
    /\ FreeFuncBegins(event_map', ev)
    /\ MarkShared(ev.data)
    /\ UNCHANGED <<in_flight, erased_twice>>

(* CHRE has done with an event, or the host with a message.  It calls an    *)
(* application from its event loop, so free functions nest only by events   *)
(* that are refused.                                                        *)
ChreDone(n) ==
    /\ releasing = <<>>
    /\ in_flight' = RemoveAt(in_flight, n)
    /\ FreeFuncBegins(event_map, in_flight[n])
    /\ UNCHANGED <<event_map, shared, erased_twice>>

(* Bug: the entry stays when the function has run.                          *)
ErasedNot(d) == event_map

Erased(d) == [event_map EXCEPT ![d] = NoEvent]

(* freeFunc after the call: the entry is erased through the iterator that   *)
(* found it, and the iterators of the calls around it that found the same   *)
(* entry are bad from now on.  Erasing through such a one is undefined      *)
(* behaviour, and nothing after that is looked at.                          *)
FreeFuncReturns ==
    /\ releasing # <<>>
    /\ LET d == Last(releasing).event.data
       IN  /\ event_map' = Erased(d)
           /\ releasing' = [n \in 1 .. Len(releasing) - 1 |->
                  [releasing[n] EXCEPT
                      !.good = @ /\ event_map'[releasing[n].event.data].present]]
    /\ erased_twice' = ~Last(releasing).good
    /\ UNCHANGED <<in_flight, shared>>

EventNext ==
    /\ ~erased_twice
    /\ \/ \E ev \in Event : SendAccepted(ev) \/ SendRefused(ev)
       \/ \E n \in DOMAIN in_flight : ChreDone(n)
       \/ FreeFuncReturns

EventSpec == EventInit /\ [][EventNext]_eventVars

----------------------------------------------------------------------------
(* Properties                                                              *)

(* Every variable has its type: a free function that runs is one.          *)
EventTypeOK ==
    /\ event_map \in [Payload -> [present : BOOLEAN,
                                  function : Release_to \cup {NoRelease}]]
    /\ in_flight \in Seq(Event)
    /\ releasing \in Seq([event : Event, good : BOOLEAN, called : Release_to])
    /\ shared \subseteq Payload

(* As long as an application has not sent a pointer again before its free   *)
(* function returned, every event in flight has its function in the map,    *)
(* and a free function that runs is the one of the event that is done with, *)
(* whatever else is sent, refused and freed while it runs.                  *)
FreedByItsSender ==
    /\ \A n \in DOMAIN in_flight :
        in_flight[n].data \notin shared =>
            event_map[in_flight[n].data].function = in_flight[n].function
    /\ \A n \in DOMAIN releasing :
        releasing[n].event.data \notin shared =>
            releasing[n].called = releasing[n].event.function

(* A map entry with a function is that of an event which CHRE still has or  *)
(* is freeing: the map does not grow but by events without a free function. *)
EntriesAreOutstanding ==
    \A d \in Payload :
        event_map[d].function # NoRelease =>
            \E ev \in Outstanding : ev.data = d

(* The iterator is still good when the application's function returns, as   *)
(* long as no pointer was sent again before that.                           *)
ErasesWhatItFound == erased_twice => shared # {}

(* Between a send and the erasure the entry of an event is its own.        *)
EventsKeepTheirEntry == FreedByItsSender /\ ErasesWhatItFound
==============================================================================
