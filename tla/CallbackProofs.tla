--------------------------- MODULE CallbackProofs ---------------------------
(***************************************************************************)
(* The tables of callbacks: DbusCallbacks, DbusSetData and ChreEvents, for *)
(* every number of owners, pointers, functions, slots and events.          *)
(*                                                                         *)
(* D-Bus registrations.  A proxy looks for one pointer and stale fields of *)
(* released slots match too; so the invariant says that a slot in use is   *)
(* the first with each of its keys, that no slot has a key of a            *)
(* registration that found the table full, and that no two registrations   *)
(* share a key.  A registration has a slot until its free function has     *)
(* returned, and one free function runs for it at most.                    *)
(*                                                                         *)
(* D-Bus data.  An object that found a slot has in its first slot what was *)
(* set last.  A pointer is remembered in up to two places of several       *)
(* entries.  Of one that was not reused the invariant says that wherever   *)
(* it is it stands with its own free function, that it is kept for one     *)
(* object, and that it is no entry's old data while it was set last; so a  *)
(* free function that runs for it has found the slot of its object, which  *)
(* no other running one has found.                                         *)
(*                                                                         *)
(* CHRE events.  Of events whose data is not shared the entry is present   *)
(* with the function of the event, and the iterator of a running free      *)
(* function is good; two events with the same data are known to share it.  *)
(***************************************************************************)
EXTENDS MCCallbacks, DbusSetData, DataLemmas

-----------------------------------------------------------------------------
(* Registrations.                                                          *)

\* The pointers that an application keeps apart.
Keys == Rule[table].keys
Field == {"owner", "data"}

\* The registrations that libdbus keeps, has refused or is freeing.
Known == registered \cup refused \cup BeingFreed

\* Those of them that have a slot.
Holders == ((registered \cup refused) \ unslotted) \cup BeingFreed
Taken(i) == slots[i][Rule[table].claim] # Null
FreeProxy == [slot : 1 .. Slots, registration : Registration]

\* A slot in use is that of a registration.
TakenByHolders == \A i \in 1 .. Slots : Taken(i) => slots[i] \in Holders

\* Each registration that has found a slot still has it.
HoldersSlotted == \A h \in Holders : \E i \in 1 .. Slots : slots[i] = h

\* No slot before one in use has any of its keys, stale fields included.
FirstMatches ==
    \A k \in Keys, i, j \in 1 .. Slots :
        (Taken(i) /\ j < i) => slots[j][k] # slots[i][k]

\* What found the table full is not to be found by a stale field either.
UnslottedNowhere ==
    \A r \in unslotted, k \in Keys, i \in 1 .. Slots : slots[i][k] # r[k]

\* A key belongs to one registration.
KnownApart == \A o, p \in Known, k \in Keys : o # p => o[k] # p[k]

\* A registration is kept, refused or being freed.
KeptOrFreed ==
    /\ registered \cap refused = {}
    /\ (registered \cup refused) \cap BeingFreed = {}
    /\ unslotted \subseteq registered \cup refused
    /\ table = "status" => refused = {}

\* One free function runs for a registration at most.
FreedOnce ==
    \A m, n \in DOMAIN freeing :
        freeing[m].registration = freeing[n].registration => m = n

\* A connection has one status function at a time.
Replacing ==
    Rule[table].replaces =>
        \A o, p \in registered : o.owner = p.owner => o = p

DbusInv ==
    /\ TypeOK
    /\ TakenByHolders
    /\ HoldersSlotted
    /\ FirstMatches
    /\ UnslottedNowhere
    /\ KnownApart
    /\ KeptOrFreed
    /\ FreedOnce
    /\ FreedByItsOwn
    /\ Replacing

(* Of every table of dbus.c: the fields it claims by, calls by and frees   *)
(* by; the one it frees by identifies a registration, and the one it calls *)
(* by too, but for the status functions, of which a connection has one.    *)
LEMMA RuleFacts ==
  ASSUME table \in DOMAIN Rule
  PROVE  /\ Rule[table].claim \in Field
         /\ Rule[table].call \in Field
         /\ Rule[table].free \in Keys
         /\ Keys \subseteq Field
         /\ \/ Rule[table].call \in Keys
            \/ /\ table = "status"
               /\ Rule[table].call = "owner"
               /\ Rule[table].claim = "owner"
               /\ Rule[table].replaces
<1>1. table \in {"filter", "path", "watch", "timeout", "status", "pending"}
  BY DEF Rule
<1>. QED
  BY <1>1 DEF Rule, FilterRule, PathRule, WatchRule, TimeoutRule, StatusRule, PendingRule,
              Field, Keys

(* Emptying a slot sets the field that says it is free to NULL and leaves  *)
(* the other.                                                              *)
LEMMA FieldOf ==
  ASSUME NEW k \in Field
  PROVE  /\ \A r \in Registration : r[k] # Null
         /\ \A s \in Slot : [s EXCEPT ![k] = Null] \in Slot
         /\ \A s \in Slot : [s EXCEPT ![k] = Null][k] = Null
         /\ \A s \in Slot : \A l \in Field : l # k => [s EXCEPT ![k] = Null][l] = s[l]
         /\ Empty[k] = Null
<1>1. CASE k = "owner"
  BY <1>1, SlotsAssumption DEF Field, Registration, Slot, Empty
<1>2. CASE k = "data"
  BY <1>2, SlotsAssumption DEF Field, Registration, Slot, Empty
<1>. QED
  BY <1>1, <1>2 DEF Field

(* A loop over the slots stops at the first that matches.                  *)
LEMMA LeastIs ==
  ASSUME NEW S \in SUBSET (1 .. Slots), NEW i \in S, \A j \in S : i <= j
  PROVE  LeastSlot(S) = i
<1> DEFINE P(x) == \A j \in S : x <= j
<1>1. P(i)
  OBVIOUS
<1>2. \A x \in S : P(x) => x = i
  BY SlotsAssumption
<1>3. (CHOOSE x \in S : P(x)) = i
  BY <1>1, <1>2, Zenon
<1>. QED
  BY <1>3 DEF LeastSlot

(* A loop over the slots finds one when there is one.                      *)
LEMMA LeastOfSome ==
  ASSUME NEW S \in SUBSET (1 .. Slots), S # {}
  PROVE  LeastSlot(S) \in S /\ \A j \in S : LeastSlot(S) <= j
<1>1. S \in SUBSET Nat
  BY SlotsAssumption
<1>2. PICK i \in S : \A j \in S : i <= j
  BY <1>1, LeastExists
<1>. QED
  BY <1>2, LeastIs

(* The free functions in progress hold a slot and a registration each.     *)
LEMMA DbusTyped ==
  ASSUME TypeOK
  PROVE  /\ freeing \in Seq(FreeProxy)
         /\ Len(freeing) \in Nat
         /\ DOMAIN freeing = 1 .. Len(freeing)
         /\ \A n \in DOMAIN freeing :
              /\ freeing[n].slot \in 1 .. Slots
              /\ freeing[n].registration \in Registration
         /\ \A r : r \in BeingFreed <=> \E n \in DOMAIN freeing : freeing[n].registration = r
         /\ Known \subseteq Registration
         /\ Holders \subseteq Known
<1>1. freeing \in Seq(FreeProxy)
  BY DEF TypeOK, FreeProxy
<1>2. Len(freeing) \in Nat /\ DOMAIN freeing = 1 .. Len(freeing)
  BY <1>1, LenProperties
<1>3. \A n \in DOMAIN freeing : freeing[n] \in FreeProxy
  BY <1>1, <1>2, ElementOfSeq
<1>4. \A r : r \in BeingFreed <=> \E n \in DOMAIN freeing : freeing[n].registration = r
  BY DEF BeingFreed, ToSet
<1>. QED
  BY <1>1, <1>2, <1>3, <1>4 DEF FreeProxy, Known, Holders, TypeOK

(* The tables are empty, nothing is registered.                            *)
LEMMA DbusInitInv == Init => DbusInv
<1> SUFFICES ASSUME Init PROVE DbusInv
  OBVIOUS
<1>1. TypeOK
  BY DEF Init, TypeOK, Slot, Empty
<1>2. \A n \in DOMAIN freeing : FALSE
  BY DEF Init
<1>3. BeingFreed = {} /\ Known = {} /\ Holders = {}
  BY <1>2 DEF Init, BeingFreed, ToSet, Known, Holders
<1>4. \A i \in 1 .. Slots : ~ Taken(i)
  BY <1>1, RuleFacts, FieldOf DEF Taken, Init, TypeOK
<1>. QED
  BY <1>1, <1>2, <1>3, <1>4
     DEF DbusInv, Init, TakenByHolders, HoldersSlotted, FirstMatches, UnslottedNowhere, KnownApart,
         KeptOrFreed, FreedOnce, FreedByItsOwn, ToSet, Replacing

(* Where a registration that has a slot is found, and one that has not.    *)
LEMMA HolderFound ==
  ASSUME DbusInv, NEW r \in Holders, NEW k \in Keys
  PROVE  Found(k, r) \in 1 .. Slots /\ slots[Found(k, r)] = r
<1>1. PICK i \in 1 .. Slots : slots[i] = r
  BY DEF DbusInv, HoldersSlotted
<1>2. Taken(i)
  BY <1>1, RuleFacts, FieldOf, DbusTyped DEF DbusInv, TypeOK, Taken
<1> DEFINE S == {j \in 1 .. Slots : slots[j][k] = r[k]}
<1>3. i \in S /\ \A j \in S : i <= j
  BY <1>1, <1>2, SlotsAssumption DEF DbusInv, FirstMatches
<1>4. LeastSlot(S) = i
  BY <1>3, LeastIs
<1>. QED
  BY <1>1, <1>4 DEF Found

(* A registration that found the table full is found nowhere in it.        *)
LEMMA UnslottedNotFound ==
  ASSUME DbusInv, NEW r \in unslotted, NEW k \in Keys
  PROVE  Found(k, r) = NoSlot
BY DEF DbusInv, UnslottedNowhere, Found, LeastSlot

(* The loop of a registering native fills the first slot that is free, or  *)
(* none when the table is full.                                            *)
LEMMA ClaimTakes ==
  ASSUME DbusInv, NEW r \in Registration, Claim(r)
  PROVE  \/ /\ \A i \in 1 .. Slots : Taken(i)
            /\ Unslotted(r) = {r}
            /\ slots' = slots
         \/ /\ Unslotted(r) = {}
            /\ \E i \in 1 .. Slots :
                 /\ ~ Taken(i)
                 /\ \A j \in 1 .. Slots : j < i => Taken(j)
                 /\ slots' = [slots EXCEPT ![i] = r]
<1>1. Free \in SUBSET (1 .. Slots) /\ \A i \in 1 .. Slots : i \in Free <=> ~ Taken(i)
  BY DEF Free, Taken
<1>2. CASE Free = {}
  BY <1>1, <1>2 DEF Claim, LeastSlot, Unslotted
<1>3. CASE Free # {}
  <2>1. LeastSlot(Free) \in Free /\ \A j \in Free : LeastSlot(Free) <= j
    BY <1>1, <1>3, LeastOfSome
  <2>2. LeastSlot(Free) \in 1 .. Slots /\ LeastSlot(Free) # NoSlot
    <3>1. LeastSlot(Free) \in 1 .. Slots
      BY <1>1, <2>1
    <3>. QED
      BY <3>1, SlotsAssumption DEF NoSlot
  <2>3. slots' = [slots EXCEPT ![LeastSlot(Free)] = r]
    BY <2>2 DEF Claim
  <2>4. \A j \in 1 .. Slots : j < LeastSlot(Free) => Taken(j)
    BY <1>1, <2>1, <2>2, SlotsAssumption
  <2>5. Unslotted(r) = {}
    BY <1>3 DEF Unslotted
  <2>. QED
    BY <1>1, <2>1, <2>2, <2>3, <2>4, <2>5
<1>. QED
  BY <1>2, <1>3

(* What every way to register does to the table.                           *)
LEMMA RegisterTakes ==
  ASSUME DbusInv, NEW r \in Registration, Register(r),
         Known' \subseteq Known \cup {r},
         Holders' = Holders \cup ({r} \ Unslotted(r)),
         unslotted' \subseteq unslotted \cup Unslotted(r)
  PROVE  /\ r \notin Known
         /\ slots' \in [1 .. Slots -> Slot]
         /\ \A i \in 1 .. Slots : Taken(i) => slots'[i] = slots[i]
         /\ TakenByHolders'
         /\ HoldersSlotted'
         /\ FirstMatches'
         /\ UnslottedNowhere'
         /\ KnownApart'
<1> USE DEF DbusInv
<1>1. /\ \A k \in Keys : k \in Field
      /\ \E k \in Keys : TRUE
      /\ Rule[table].claim \in Field
      /\ table' = table
      /\ Keys' = Keys
  BY RuleFacts DEF TypeOK, Register, Keys
<1>2. \A k \in Keys, o \in Known : r[k] # o[k]
  BY DEF Register, Distinct, Keys, Known
<1>3. r \notin Known
  BY <1>1, <1>2
<1>4. /\ \A o \in Known : o \in Registration
      /\ \A h \in Holders : h \in Known
      /\ unslotted \subseteq Known
  BY DbusTyped DEF KeptOrFreed, Known
<1>5. Claim(r)
  BY DEF Register
<1>6. KnownApart'
  <2> SUFFICES ASSUME NEW o \in Known \cup {r}, NEW p \in Known \cup {r}, NEW k \in Keys, o # p
               PROVE  o[k] # p[k]
    BY <1>1 DEF KnownApart
  <2>1. CASE o \in Known /\ p \in Known
    BY <2>1 DEF KnownApart
  <2>2. CASE o = r \/ p = r
    BY <1>2, <2>2
  <2>. QED
    BY <2>1, <2>2
<1>7. CASE slots' = slots /\ Unslotted(r) = {r} /\ \A i \in 1 .. Slots : Taken(i)
  <2>1. Holders' = Holders /\ \A i \in 1 .. Slots : Taken(i)' <=> Taken(i)
    BY <1>1, <1>7 DEF Taken
  <2>2. TakenByHolders' /\ HoldersSlotted' /\ FirstMatches'
    BY <1>1, <1>7, <2>1 DEF TakenByHolders, HoldersSlotted, FirstMatches
  <2>3. \A k \in Keys, i \in 1 .. Slots : slots[i][k] # r[k]
    BY <1>2, <1>4, <1>7 DEF TakenByHolders
  <2>4. UnslottedNowhere'
    BY <1>1, <1>7, <2>3 DEF UnslottedNowhere
  <2>. QED
    BY <1>3, <1>6, <1>7, <2>2, <2>4 DEF TypeOK
<1>8. ASSUME Unslotted(r) = {},
             NEW i \in 1 .. Slots,
             ~ Taken(i), \A j \in 1 .. Slots : j < i => Taken(j),
             slots' = [slots EXCEPT ![i] = r]
      PROVE  /\ slots' \in [1 .. Slots -> Slot]
             /\ \A j \in 1 .. Slots : Taken(j) => slots'[j] = slots[j]
             /\ TakenByHolders'
             /\ HoldersSlotted'
             /\ FirstMatches'
             /\ UnslottedNowhere'
  <2>1. slots \in [1 .. Slots -> Slot] /\ r \in Slot
    BY DEF TypeOK, Slot, Registration
  <2>2. /\ slots' \in [1 .. Slots -> Slot]
        /\ slots'[i] = r
        /\ \A j \in 1 .. Slots : j # i => slots'[j] = slots[j]
    BY <1>8, <2>1
  <2>3. \A j \in 1 .. Slots : Taken(j) => slots'[j] = slots[j] /\ j # i
    BY <1>8, <2>2
  <2>4. \A j \in 1 .. Slots : Taken(j)' => j = i \/ Taken(j)
    BY <1>1, <2>2 DEF Taken
  <2>5. Holders' = Holders \cup {r}
    BY <1>8
  <2>6. TakenByHolders'
    BY <2>2, <2>4, <2>5 DEF TakenByHolders
  <2>7. HoldersSlotted'
    <3>1. \A h \in Holders : \E j \in 1 .. Slots : Taken(j) /\ slots[j] = h
      BY <1>1, <1>4, FieldOf DEF HoldersSlotted, Taken
    <3>. QED
      BY <2>2, <2>3, <2>5, <3>1 DEF HoldersSlotted
  <2>8. FirstMatches'
    <3> SUFFICES ASSUME NEW k \in Keys, NEW m \in 1 .. Slots, NEW j \in 1 .. Slots,
                        Taken(m)', j < m
                 PROVE  slots'[j][k] # slots'[m][k]
      BY <1>1 DEF FirstMatches
    <3>1. CASE m = i
      <4>1. Taken(j) /\ slots'[j] = slots[j]
        BY <1>8, <2>3, <3>1
      <4>2. slots[j] \in Known
        BY <1>4, <4>1 DEF TakenByHolders
      <4>. QED
        BY <1>2, <2>2, <3>1, <4>1, <4>2
    <3>2. CASE m # i /\ j = i
      <4>1. Taken(m) /\ slots'[m] = slots[m]
        BY <2>2, <2>4, <3>2
      <4>2. slots[m] \in Known
        BY <1>4, <4>1 DEF TakenByHolders
      <4>. QED
        BY <1>2, <2>2, <3>2, <4>1, <4>2
    <3>3. CASE m # i /\ j # i
      <4>1. Taken(m) /\ slots'[m] = slots[m] /\ slots'[j] = slots[j]
        BY <2>2, <2>4, <3>3
      <4>. QED
        BY <4>1 DEF FirstMatches
    <3>. QED
      BY <3>1, <3>2, <3>3
  <2>9. UnslottedNowhere'
    <3> SUFFICES ASSUME NEW u \in unslotted, NEW k \in Keys, NEW j \in 1 .. Slots
                 PROVE  slots'[j][k] # u[k]
      BY <1>1, <1>8 DEF UnslottedNowhere
    <3>1. u \in Known
      BY <1>4
    <3>2. CASE j = i
      BY <1>2, <2>2, <3>1, <3>2
    <3>3. CASE j # i
      BY <2>2, <3>3 DEF UnslottedNowhere
    <3>. QED
      BY <3>2, <3>3
  <2>. QED
    BY <2>2, <2>3, <2>6, <2>7, <2>8, <2>9
<1>. QED
  BY <1>3, <1>5, <1>6, <1>7, <1>8, ClaimTakes

(* A registration that libdbus accepts or refuses keeps its slot: it is    *)
(* the first with each of its keys.                                        *)
LEMMA RegisterKeptInv ==
  ASSUME DbusInv, NEW r \in Registration,
         \/ RegisterAccepted(r)
         \/ RegisterRefused(r)
  PROVE  DbusInv'
<1> USE DEF DbusInv
<1>1. /\ Register(r)
      /\ registered' \cup refused' = registered \cup refused \cup {r}
      /\ unslotted' = unslotted \cup Unslotted(r)
      /\ freeing' = freeing
      /\ table' = table
  BY DEF RegisterAccepted, RegisterRefused, Register
<1>2. \/ /\ registered' = registered \cup {r}
         /\ refused' = refused
         /\ Replaced(r) = {}
      \/ /\ registered' = registered
         /\ refused' = refused \cup {r}
         /\ table # "status"
  BY DEF RegisterAccepted, RegisterRefused
<1>3. BeingFreed' = BeingFreed
  BY <1>1 DEF BeingFreed
<1>4. r \notin Known
  <2>1. \A k \in Keys, o \in Known : r[k] # o[k]
    BY <1>1 DEF Register, Distinct, Keys, Known
  <2>2. \E k \in Keys : TRUE
    BY RuleFacts DEF TypeOK
  <2>. QED
    BY <2>1, <2>2
<1>5. /\ Unslotted(r) \subseteq {r}
      /\ r \notin unslotted
  BY <1>4 DEF Unslotted, KeptOrFreed, Known
<1>6. /\ Known' = Known \cup {r}
      /\ Holders' = Holders \cup ({r} \ Unslotted(r))
  BY <1>1, <1>3, <1>4, <1>5 DEF Known, Holders
<1>7. /\ slots' \in [1 .. Slots -> Slot]
      /\ \A i \in 1 .. Slots : Taken(i) => slots'[i] = slots[i]
      /\ TakenByHolders'
      /\ HoldersSlotted'
      /\ FirstMatches'
      /\ UnslottedNowhere'
      /\ KnownApart'
  BY <1>1, <1>6, RegisterTakes
<1>8. TypeOK'
  BY <1>1, <1>2, <1>5, <1>7 DEF TypeOK
<1>9. KeptOrFreed'
  BY <1>1, <1>2, <1>3, <1>4, <1>5 DEF KeptOrFreed, Known
<1>10. FreedOnce'
  BY <1>1 DEF FreedOnce
<1>11. FreedByItsOwn'
  <2> SUFFICES ASSUME NEW n \in DOMAIN freeing
               PROVE  slots'[freeing[n].slot] = freeing[n].registration
    BY <1>1 DEF FreedByItsOwn, ToSet
  <2>1. slots[freeing[n].slot] = freeing[n].registration
    BY DEF FreedByItsOwn, ToSet
  <2>2. freeing[n].slot \in 1 .. Slots /\ freeing[n].registration \in Registration
    BY DbusTyped
  <2>3. Taken(freeing[n].slot)
    BY <2>1, <2>2, RuleFacts, FieldOf DEF Taken, TypeOK
  <2>. QED
    BY <1>7, <2>1, <2>2, <2>3
<1>12. Replacing'
  BY <1>1, <1>2 DEF Replacing, Replaced
<1>. QED
  BY <1>7, <1>8, <1>9, <1>10, <1>11, <1>12

(* The free proxy of a registration that had a slot runs, and that of one  *)
(* that had none does nothing.                                             *)
LEMMA FreeStarts ==
  ASSUME DbusInv, NEW r \in registered, NEW i, StartFree(r, i),
         slots' \in [1 .. Slots -> Slot],
         IF r \in unslotted THEN i = NoSlot ELSE i \in 1 .. Slots /\ slots'[i] = r,
         \A j \in 1 .. Slots : Taken(j) => slots'[j] = slots[j]
  PROVE  /\ freeing' \in Seq(FreeProxy)
         /\ BeingFreed' = BeingFreed \cup ({r} \ unslotted)
         /\ FreedOnce'
         /\ FreedByItsOwn'
<1> USE DEF DbusInv
<1> DEFINE k == Len(freeing)
<1>1. /\ freeing \in Seq(FreeProxy)
      /\ k \in Nat
      /\ DOMAIN freeing = 1 .. k
      /\ \A n \in DOMAIN freeing :
           /\ freeing[n].slot \in 1 .. Slots
           /\ freeing[n].registration \in Registration
      /\ \A o : o \in BeingFreed <=> \E n \in DOMAIN freeing : freeing[n].registration = o
  BY DbusTyped
<1>2. \A n \in DOMAIN freeing : slots'[freeing[n].slot] = freeing[n].registration
  <2> SUFFICES ASSUME NEW n \in DOMAIN freeing
               PROVE  slots'[freeing[n].slot] = freeing[n].registration
    OBVIOUS
  <2>1. slots[freeing[n].slot] = freeing[n].registration
    BY DEF FreedByItsOwn, ToSet
  <2>2. Taken(freeing[n].slot)
    BY <1>1, <2>1, RuleFacts, FieldOf DEF Taken, TypeOK
  <2>. QED
    BY <1>1, <2>1, <2>2
<1>3. r \in Registration /\ r \notin BeingFreed
  BY DEF TypeOK, KeptOrFreed
<1>4. CASE r \in unslotted
  <2>1. freeing' = freeing
    BY <1>4 DEF StartFree
  <2>2. BeingFreed' = BeingFreed
    BY <2>1 DEF BeingFreed
  <2>. QED
    BY <1>1, <1>2, <1>4, <2>1, <2>2 DEF FreedOnce, FreedByItsOwn, ToSet
<1>5. CASE r \notin unslotted
  <2>1. i \in 1 .. Slots /\ slots'[i] = r
    BY <1>5
  <2>2. i # NoSlot
    BY <2>1, SlotsAssumption DEF NoSlot
  <2> DEFINE f == [slot |-> i, registration |-> r]
  <2>3. f \in FreeProxy /\ f.slot = i /\ f.registration = r
    BY <1>3, <2>1 DEF FreeProxy
  <2>4. freeing' = Append(freeing, f)
    BY <2>2 DEF StartFree
  <2> HIDE DEF f
  <2>5. /\ freeing' \in Seq(FreeProxy)
        /\ Len(freeing') = k + 1
        /\ \A n \in 1 .. k : freeing'[n] = freeing[n]
        /\ freeing'[k + 1] = f
    BY <1>1, <2>3, <2>4, AppendProperties
  <2>6. DOMAIN freeing' = 1 .. k + 1
    BY <2>5, LenProperties
  <2> HIDE DEF k
  <2>7. \A n \in DOMAIN freeing' : n \in DOMAIN freeing \/ n = k + 1
    BY <1>1, <2>6
  <2>8. BeingFreed' = BeingFreed \cup {r}
    <3>1. \A o : o \in BeingFreed' <=> \E n \in DOMAIN freeing' : freeing'[n].registration = o
      BY DEF BeingFreed, ToSet
    <3>2. \A o : o \in BeingFreed' => o \in BeingFreed \/ o = r
      BY <1>1, <2>3, <2>5, <2>7, <3>1
    <3>3. \A o : o \in BeingFreed => o \in BeingFreed'
      <4>1. \A n \in DOMAIN freeing : n \in DOMAIN freeing' /\ freeing'[n] = freeing[n]
        BY <1>1, <2>5, <2>6
      <4>. QED
        BY <1>1, <3>1, <4>1
    <3>4. r \in BeingFreed'
      <4>1. k + 1 \in DOMAIN freeing'
        BY <1>1, <2>6
      <4>. QED
        BY <2>3, <2>5, <3>1, <4>1
    <3>. QED
      BY <3>2, <3>3, <3>4
  <2>9. FreedOnce'
    <3>1. \A n \in DOMAIN freeing : freeing[n].registration # r
      BY <1>1, <1>3
    <3>. QED
      BY <1>1, <2>3, <2>5, <2>7, <3>1 DEF FreedOnce
  <2>10. FreedByItsOwn'
    <3>1. \A n \in DOMAIN freeing' : slots'[freeing'[n].slot] = freeing'[n].registration
      BY <1>1, <1>2, <2>1, <2>3, <2>5, <2>7
    <3>. QED
      BY <3>1 DEF FreedByItsOwn, ToSet
  <2>. QED
    BY <1>5, <2>5, <2>8, <2>9, <2>10
<1>. QED
  BY <1>4, <1>5

(* Setting the status function of a connection that has one: the free      *)
(* function of the old one is started with the slot it is found in.        *)
LEMMA RegisterReplacingInv ==
  ASSUME DbusInv, NEW r \in Registration, NEW o \in Replaced(r),
         Register(r),
         registered' = (registered \ {o}) \cup {r},
         unslotted' = (unslotted \ {o}) \cup Unslotted(r),
         StartFree(o, FreeSlot(o)'),
         UNCHANGED refused
  PROVE  DbusInv'
<1> USE DEF DbusInv
<1>1. /\ o \in registered
      /\ o.owner = r.owner
      /\ Rule[table].replaces
      /\ table' = table
      /\ table \in DOMAIN Rule
      /\ refused' = refused
  BY DEF Replaced, Register, TypeOK
<1>2. \A k \in Keys, p \in Known : r[k] # p[k]
  BY DEF Register, Distinct, Keys, Known
<1>3. /\ Rule[table].free \in Keys
      /\ Rule[table].claim \in Field
      /\ Keys \subseteq Field
  BY <1>1, RuleFacts
<1>4. r \notin Known
  BY <1>2, <1>3
<1>5. /\ o \in Known /\ o \notin refused /\ o \notin BeingFreed
      /\ o \in Registration
      /\ Unslotted(r) \subseteq {r}
      /\ r \notin unslotted
      /\ r # o
  BY <1>1, <1>4 DEF Unslotted, KeptOrFreed, Known, TypeOK
<1>6. Claim(r)
  BY DEF Register
<1>7. /\ slots' \in [1 .. Slots -> Slot]
      /\ \A i \in 1 .. Slots : Taken(i) => slots'[i] = slots[i]
  <2>1. slots \in [1 .. Slots -> Slot] /\ r \in Slot
    BY DEF TypeOK, Slot, Registration
  <2>. QED
    BY <1>6, <2>1, ClaimTakes
<1>8. IF o \in unslotted THEN FreeSlot(o)' = NoSlot
      ELSE FreeSlot(o)' \in 1 .. Slots /\ slots'[FreeSlot(o)'] = o
  <2> DEFINE k == Rule[table].free
             S == {j \in 1 .. Slots : slots'[j][k] = o[k]}
  <2>1. FreeSlot(o)' = LeastSlot(S)
    BY <1>1 DEF FreeSlot, Found
  <2>2. CASE o \in unslotted
    <3>1. \A j \in 1 .. Slots : slots'[j] = slots[j] \/ slots'[j] = r
      <4>1. slots \in [1 .. Slots -> Slot]
        BY DEF TypeOK
      <4>. QED
        BY <1>6, <4>1, ClaimTakes
    <3>2. \A j \in 1 .. Slots : slots[j][k] # o[k]
      BY <1>3, <2>2 DEF UnslottedNowhere
    <3>3. r[k] # o[k]
      BY <1>2, <1>3, <1>5
    <3>4. S = {}
      BY <3>1, <3>2, <3>3
    <3>. QED
      BY <2>1, <2>2, <3>4 DEF LeastSlot
  <2>3. CASE o \notin unslotted
    <3>1. o \in Holders
      BY <1>1, <2>3 DEF Holders
    <3>2. PICK i \in 1 .. Slots : slots[i] = o
      BY <3>1 DEF HoldersSlotted
    <3>3. Taken(i) /\ slots'[i] = o
      BY <1>1, <1>3, <1>5, <1>7, <3>2, FieldOf DEF Taken
    <3>4. \A j \in 1 .. Slots : j < i => slots'[j][k] # o[k]
      <4> SUFFICES ASSUME NEW j \in 1 .. Slots, j < i
                   PROVE  slots'[j][k] # o[k]
        OBVIOUS
      <4>1. slots'[j] = slots[j] \/ slots'[j] = r
        <5>1. slots \in [1 .. Slots -> Slot]
          BY DEF TypeOK
        <5>. QED
          BY <1>6, <5>1, ClaimTakes
      <4>2. slots[j][k] # o[k]
        BY <1>3, <3>2, <3>3 DEF FirstMatches
      <4>3. r[k] # o[k]
        BY <1>2, <1>3, <1>5
      <4>. QED
        BY <4>1, <4>2, <4>3
    <3>5. i \in S /\ \A j \in S : i <= j
      BY <3>3, <3>4, SlotsAssumption
    <3>6. LeastSlot(S) = i
      BY <3>5, LeastIs
    <3>. QED
      BY <2>1, <2>3, <3>3, <3>6
  <2>. QED
    BY <2>2, <2>3
<1>9. /\ freeing' \in Seq(FreeProxy)
      /\ BeingFreed' = BeingFreed \cup ({o} \ unslotted)
      /\ FreedOnce'
      /\ FreedByItsOwn'
  BY <1>1, <1>7, <1>8, FreeStarts
<1>10. /\ Known' \subseteq Known \cup {r}
       /\ Holders' = Holders \cup ({r} \ Unslotted(r))
       /\ unslotted' \subseteq unslotted \cup Unslotted(r)
  BY <1>1, <1>4, <1>5, <1>9 DEF Known, Holders, KeptOrFreed
<1>11. /\ TakenByHolders'
       /\ HoldersSlotted'
       /\ FirstMatches'
       /\ UnslottedNowhere'
       /\ KnownApart'
  BY <1>10, RegisterTakes
<1>12. TypeOK'
  BY <1>1, <1>5, <1>7, <1>9 DEF TypeOK, FreeProxy
<1>13. KeptOrFreed'
  BY <1>1, <1>4, <1>5, <1>9 DEF KeptOrFreed, Known
<1>14. Replacing'
  BY <1>1 DEF Replacing
<1>. QED
  BY <1>9, <1>11, <1>12, <1>13, <1>14

(* libdbus lets a registration go: its free proxy finds the slot by the    *)
(* field it frees by.                                                      *)
LEMMA LetGoInv ==
  ASSUME DbusInv, NEW r \in Registration, LetGo(r)
  PROVE  DbusInv'
<1> USE DEF DbusInv
<1>1. /\ r \in registered
      /\ registered' = registered \ {r}
      /\ unslotted' = unslotted \ {r}
      /\ StartFree(r, FreeSlot(r))
      /\ table' = table
      /\ slots' = slots
      /\ refused' = refused
  BY DEF LetGo
<1>2. Rule[table].free \in Keys /\ slots \in [1 .. Slots -> Slot]
  BY RuleFacts DEF TypeOK
<1>3. IF r \in unslotted THEN FreeSlot(r) = NoSlot
      ELSE FreeSlot(r) \in 1 .. Slots /\ slots[FreeSlot(r)] = r
  <2>1. r \notin unslotted => r \in Holders
    BY <1>1 DEF Holders
  <2>. QED
    BY <1>2, <2>1, HolderFound, UnslottedNotFound DEF FreeSlot
<1>4. /\ freeing' \in Seq(FreeProxy)
      /\ BeingFreed' = BeingFreed \cup ({r} \ unslotted)
      /\ FreedOnce'
      /\ FreedByItsOwn'
  BY <1>1, <1>2, <1>3, FreeStarts
<1>5. r \notin refused
  BY <1>1 DEF KeptOrFreed
<1>6. /\ Known' \subseteq Known
      /\ Holders' = Holders
      /\ unslotted' \subseteq unslotted
      /\ Keys' = Keys
      /\ \A i \in 1 .. Slots : Taken(i)' <=> Taken(i)
  BY <1>1, <1>4, <1>5 DEF Known, Holders, Keys, Taken
<1>7. /\ TakenByHolders'
      /\ HoldersSlotted'
      /\ FirstMatches'
      /\ UnslottedNowhere'
      /\ KnownApart'
  BY <1>1, <1>6 DEF TakenByHolders, HoldersSlotted, FirstMatches, UnslottedNowhere, KnownApart
<1>8. TypeOK'
  BY <1>1, <1>4 DEF TypeOK, FreeProxy
<1>9. KeptOrFreed'
  BY <1>1, <1>4, <1>5 DEF KeptOrFreed
<1>10. Replacing'
  BY <1>1 DEF Replacing
<1>. QED
  BY <1>4, <1>7, <1>8, <1>9, <1>10

(* A free function returns and its proxy releases the slot that it has     *)
(* found: the registration in it is still the one that is freed.           *)
LEMMA FreeReturnsInv ==
  ASSUME DbusInv, FreeReturns
  PROVE  DbusInv'
<1> USE DEF DbusInv
<1> DEFINE k == Len(freeing)
           s == freeing[k].slot
           r == freeing[k].registration
           c == Rule[table].claim
<1>1. /\ freeing \in Seq(FreeProxy)
      /\ freeing # <<>>
      /\ \A n \in DOMAIN freeing :
           /\ freeing[n].slot \in 1 .. Slots
           /\ freeing[n].registration \in Registration
      /\ \A o : o \in BeingFreed <=> \E n \in DOMAIN freeing : freeing[n].registration = o
  BY DbusTyped DEF FreeReturns
<1>2. /\ k \in Nat \ {0}
      /\ DOMAIN freeing = 1 .. k
      /\ freeing' \in Seq(FreeProxy)
      /\ DOMAIN freeing' = 1 .. k - 1
      /\ \A n \in 1 .. k - 1 : freeing'[n] = freeing[n]
  BY <1>1, FrontElements DEF FreeReturns
<1>3. /\ table' = table
      /\ registered' = registered
      /\ refused' = refused
      /\ unslotted' = unslotted
      /\ Keys' = Keys
      /\ slots' = [slots EXCEPT ![s][c] = Null]
  BY DEF FreeReturns, Release, Last, Keys
<1>4. s \in 1 .. Slots /\ r \in Registration /\ slots[s] = r /\ r \in BeingFreed
  BY <1>1, <1>2 DEF FreedByItsOwn, ToSet
<1>5. /\ c \in Field
      /\ \A l \in Keys : l \in Field
      /\ \E l \in Keys : TRUE
  BY RuleFacts DEF TypeOK
<1>6. \A n \in DOMAIN freeing : n # k => freeing[n].registration # r
  BY <1>2 DEF FreedOnce
<1> HIDE DEF k, s, r, c
<1>7. /\ slots' \in [1 .. Slots -> Slot]
      /\ slots'[s][c] = Null
      /\ \A l \in Field : l # c => slots'[s][l] = slots[s][l]
      /\ \A i \in 1 .. Slots : i # s => slots'[i] = slots[i]
  <2>1. slots \in [1 .. Slots -> Slot] /\ slots[s] \in Slot
    BY <1>4 DEF TypeOK
  <2>2. slots'[s] = [slots[s] EXCEPT ![c] = Null] /\ \A i \in 1 .. Slots : i # s => slots'[i] = slots[i]
    BY <1>3, <1>4, <2>1
  <2>3. slots'[s] \in Slot
    BY <1>5, <2>1, <2>2, FieldOf
  <2>4. slots' \in [1 .. Slots -> Slot]
    BY <1>3, <2>1, <2>2, <2>3
  <2>. QED
    BY <1>5, <2>1, <2>2, <2>4, FieldOf
<1>8. BeingFreed' = BeingFreed \ {r}
  <2>1. \A o : o \in BeingFreed' <=> \E n \in DOMAIN freeing' : freeing'[n].registration = o
    BY DEF BeingFreed, ToSet
  <2>2. \A o : o \in BeingFreed' => o \in BeingFreed /\ o # r
    BY <1>1, <1>2, <1>6, <2>1
  <2>3. \A o : o \in BeingFreed /\ o # r => o \in BeingFreed'
    <3> SUFFICES ASSUME NEW o, o \in BeingFreed, o # r
                 PROVE  o \in BeingFreed'
      OBVIOUS
    <3>1. PICK n \in DOMAIN freeing : freeing[n].registration = o
      BY <1>1
    <3>2. n # k
      BY <3>1 DEF r
    <3>3. n \in 1 .. k - 1
      BY <1>2, <3>2
    <3>. QED
      BY <1>2, <2>1, <3>1, <3>3
  <2>. QED
    BY <2>2, <2>3
<1>9. r \notin registered \cup refused
  BY <1>4 DEF KeptOrFreed
<1>10. /\ Known' \subseteq Known
       /\ Holders' = Holders \ {r}
  BY <1>3, <1>8, <1>9 DEF Known, Holders
<1>11. /\ Taken(s)
       /\ \A i \in 1 .. Slots : Taken(i)' => Taken(i) /\ i # s
  <2>1. Taken(s)
    BY <1>4, <1>5, FieldOf DEF Taken, c
  <2>2. \A i \in 1 .. Slots : Taken(i)' <=> slots'[i][c] # Null
    BY <1>3 DEF Taken, c
  <2>3. \A i \in 1 .. Slots : Taken(i) <=> slots[i][c] # Null
    BY DEF Taken, c
  <2>4. \A i \in 1 .. Slots : slots'[i][c] # Null => slots[i][c] # Null /\ i # s
    BY <1>7
  <2>. QED
    BY <2>1, <2>2, <2>3, <2>4
<1>12. \A i \in 1 .. Slots : Taken(i) /\ i # s => slots[i] # r
  <2> SUFFICES ASSUME NEW i \in 1 .. Slots, Taken(i), i # s, slots[i] = r
               PROVE  FALSE
    OBVIOUS
  <2>1. PICK l \in Keys : TRUE
    BY <1>5
  <2>2. i < s \/ s < i
    BY <1>4, SlotsAssumption
  <2>. QED
    BY <1>4, <1>11, <2>1, <2>2 DEF FirstMatches
<1>13. TakenByHolders'
  BY <1>7, <1>10, <1>11, <1>12 DEF TakenByHolders
<1>14. HoldersSlotted'
  BY <1>4, <1>7, <1>10 DEF HoldersSlotted
<1>15. FirstMatches'
  <2> SUFFICES ASSUME NEW l \in Keys, NEW i \in 1 .. Slots, NEW j \in 1 .. Slots,
                      Taken(i)', j < i
               PROVE  slots'[j][l] # slots'[i][l]
    BY <1>3 DEF FirstMatches
  <2>1. i # s /\ Taken(i) /\ slots'[i] = slots[i]
    BY <1>7, <1>11
  <2>2. slots[j][l] # slots[i][l]
    BY <2>1 DEF FirstMatches
  <2>3. slots[i] \in Registration
    BY <2>1, DbusTyped DEF TakenByHolders
  <2>4. slots[i][l] # Null
    BY <1>5, <2>3, FieldOf
  <2>. QED
    BY <1>5, <1>7, <2>1, <2>2, <2>4
<1>16. UnslottedNowhere'
  <2> SUFFICES ASSUME NEW u \in unslotted, NEW l \in Keys, NEW i \in 1 .. Slots
               PROVE  slots'[i][l] # u[l]
    BY <1>3 DEF UnslottedNowhere
  <2>1. slots[i][l] # u[l]
    BY DEF UnslottedNowhere
  <2>2. u[l] # Null
    BY <1>5, FieldOf DEF TypeOK
  <2>. QED
    BY <1>5, <1>7, <2>1, <2>2
<1>17. KnownApart'
  BY <1>3, <1>10 DEF KnownApart
<1>18. TypeOK'
  BY <1>2, <1>3, <1>7 DEF TypeOK, FreeProxy
<1>19. KeptOrFreed'
  BY <1>3, <1>8 DEF KeptOrFreed
<1>20. FreedOnce' /\ Replacing'
  BY <1>2, <1>3 DEF FreedOnce, Replacing
<1>21. FreedByItsOwn'
  <2> SUFFICES ASSUME NEW n \in 1 .. k - 1
               PROVE  slots'[freeing'[n].slot] = freeing'[n].registration
    BY <1>2 DEF FreedByItsOwn, ToSet
  <2>1. n \in DOMAIN freeing /\ n # k /\ freeing'[n] = freeing[n]
    BY <1>2
  <2>2. slots[freeing[n].slot] = freeing[n].registration
    BY <2>1 DEF FreedByItsOwn, ToSet
  <2>3. freeing[n].slot # s
    BY <1>4, <1>6, <2>1, <2>2
  <2>. QED
    BY <1>1, <1>7, <2>1, <2>2, <2>3
<1>. QED
  BY <1>13, <1>14, <1>15, <1>16, <1>17, <1>18, <1>19, <1>20, <1>21

(* Every step keeps the invariant.                                         *)
LEMMA DbusStepInv == DbusInv /\ [Next]_vars => DbusInv'
<1> SUFFICES ASSUME DbusInv, [Next]_vars PROVE DbusInv'
  OBVIOUS
<1>1. CASE \E r \in Registration : RegisterReplacing(r)
  BY <1>1, RegisterReplacingInv DEF RegisterReplacing
<1>2. CASE Next /\ ~ \E r \in Registration : RegisterReplacing(r)
  BY <1>2, RegisterKeptInv, LetGoInv, FreeReturnsInv DEF Next
<1>3. CASE UNCHANGED vars
  <2>1. Known' = Known /\ Holders' = Holders /\ Keys' = Keys /\ BeingFreed' = BeingFreed
    BY <1>3 DEF vars, Known, Holders, Keys, BeingFreed
  <2>2. \A i : Taken(i)' <=> Taken(i)
    BY <1>3 DEF vars, Taken
  <2>. QED
    BY <1>3, <2>1, <2>2
       DEF vars, DbusInv, TypeOK, TakenByHolders, HoldersSlotted, FirstMatches, UnslottedNowhere,
           KnownApart, KeptOrFreed, FreedOnce, FreedByItsOwn, Replacing
<1>. QED
  BY <1>1, <1>2, <1>3

(* The least slot with what a callback looks for is the registration's     *)
(* own.                                                                    *)
LEMMA DbusInvReaches == DbusInv => ReachesItsOwn
<1> SUFFICES ASSUME DbusInv, NEW r \in registered,
                    table = "status" => \A o \in BeingFreed : o.owner # r.owner
             PROVE  IF r \in unslotted THEN CallSlot(r) = NoSlot
                    ELSE CallSlot(r) # NoSlot /\ slots[CallSlot(r)] = r
  BY DEF ReachesItsOwn
<1> USE DEF DbusInv
<1>1. r \notin unslotted => r \in Holders
  BY DEF Holders
<1>2. CASE Rule[table].call \in Keys
  <2>1. CASE r \in unslotted
    BY <1>2, <2>1, UnslottedNotFound DEF CallSlot
  <2>2. CASE r \notin unslotted
    <3>1. CallSlot(r) \in 1 .. Slots /\ slots[CallSlot(r)] = r
      BY <1>1, <1>2, <2>2, HolderFound DEF CallSlot
    <3>. QED
      BY <2>2, <3>1, SlotsAssumption DEF NoSlot
  <2>. QED
    BY <2>1, <2>2
<1>3. CASE /\ table = "status"
           /\ Rule[table].call = "owner"
           /\ Rule[table].claim = "owner"
           /\ Rule[table].replaces
  <2> DEFINE S == {i \in 1 .. Slots : slots[i]["owner"] = r["owner"]}
  <2>1. CallSlot(r) = LeastSlot(S)
    BY <1>3 DEF CallSlot, Found
  <2>2. r \in Registration /\ r["owner"] # Null
    BY FieldOf DEF TypeOK, Field
  <2>3. \A i \in S : slots[i] = r /\ r \notin unslotted
    <3> SUFFICES ASSUME NEW i \in S
                 PROVE  slots[i] = r /\ r \notin unslotted
      OBVIOUS
    <3>1. Taken(i)
      BY <1>3, <2>2 DEF Taken
    <3>2. slots[i] \in Holders
      BY <3>1 DEF TakenByHolders
    <3>3. slots[i] \in registered \ unslotted
      BY <1>3, <3>2 DEF Holders, KeptOrFreed
    <3>. QED
      BY <1>3, <3>3 DEF Replacing
  <2>4. CASE r \in unslotted
    BY <2>1, <2>3, <2>4 DEF LeastSlot
  <2>5. CASE r \notin unslotted
    <3>1. S # {}
      BY <1>1, <2>5 DEF HoldersSlotted
    <3>2. LeastSlot(S) \in S
      BY <3>1, LeastOfSome
    <3>. QED
      BY <2>1, <2>3, <2>5, <3>2, SlotsAssumption DEF NoSlot
  <2>. QED
    BY <2>4, <2>5
<1>. QED
  BY <1>2, <1>3, RuleFacts DEF TypeOK

(* The slots in use are one for each registration that has one.            *)
LEMMA DbusInvAccounts == DbusInv => SlotsAccounted
<1> SUFFICES ASSUME DbusInv PROVE SlotsAccounted
  OBVIOUS
<1> USE DEF DbusInv
<1> DEFINE inUse == (1 .. Slots) \ Free
<1>1. \A i \in inUse : i \in 1 .. Slots /\ Taken(i)
  BY DEF Free, Taken
<1>2. \A h \in Holders : \E i \in inUse : slots[i] = h
  <2> SUFFICES ASSUME NEW h \in Holders
               PROVE  \E i \in inUse : slots[i] = h
    OBVIOUS
  <2>1. PICK i \in 1 .. Slots : slots[i] = h
    BY DEF HoldersSlotted
  <2>2. i \notin Free
    BY <2>1, RuleFacts, FieldOf, DbusTyped DEF Free, TypeOK
  <2>. QED
    BY <2>1, <2>2
<1>3. {slots[i] : i \in inUse} = Holders
  BY <1>1, <1>2 DEF TakenByHolders
<1>4. \A i, j \in inUse : slots[i] = slots[j] => i = j
  <2> SUFFICES ASSUME NEW i \in inUse, NEW j \in inUse, slots[i] = slots[j], j < i
               PROVE  FALSE
    BY <1>1, SlotsAssumption
  <2>1. PICK l \in Keys : TRUE
    BY RuleFacts DEF TypeOK
  <2>. QED
    BY <1>1, <2>1 DEF FirstMatches
<1>5. IsFiniteSet(inUse)
  <2>1. IsFiniteSet(1 .. Slots)
    BY FS_Interval, SlotsAssumption
  <2>. QED
    BY <2>1, FS_Difference
<1>6. Cardinality(inUse) = Cardinality(Holders)
  BY <1>3, <1>4, <1>5, DistinctValues
<1>. QED
  BY <1>3, <1>6 DEF SlotsAccounted, Holders

(* The tables of dbus.c and the registrations libdbus holds keep their     *)
(* types, whichever table is meant and however many slots it has.          *)
THEOREM DbusTypeCorrect == Spec => []TypeOK
<1>1. DbusInv => TypeOK
  BY DEF DbusInv
<1>. QED
  BY <1>1, DbusInitInv, DbusStepInv, PTL DEF Spec

(* The call_* and other proxies of dbus.c find the function and the        *)
(* environment that were registered for what libdbus calls about, or none  *)
(* when the table was full, for every table and any number of slots;       *)
(* except a dispatch status function whose connection still has one that   *)
(* is being freed.                                                         *)
THEOREM ReachesItsOwnAlways == Spec => []ReachesItsOwn
BY DbusInitInv, DbusStepInv, DbusInvReaches, PTL DEF Spec

(* A free proxy runs the free function of the registration that libdbus    *)
(* lets go, and nobody takes its slot before that function has returned,   *)
(* however many registrations it makes or lets go meanwhile.               *)
THEOREM FreedByItsOwnAlways == Spec => []FreedByItsOwn
<1>1. DbusInv => FreedByItsOwn
  BY DEF DbusInv
<1>. QED
  BY <1>1, DbusInitInv, DbusStepInv, PTL DEF Spec

(* No slot is lost and none is used twice: each slot in use is that of one *)
(* registration which libdbus keeps or is freeing, or which it has refused *)
(* and dbus.c never gives back.                                            *)
THEOREM SlotsStayAccounted == Spec => []SlotsAccounted
BY DbusInitInv, DbusStepInv, DbusInvAccounts, PTL DEF Spec
-----------------------------------------------------------------------------
(* Data of watches and timeouts.                                           *)

\* A free function in progress, as letting_go has it.
FreeCall == [object : Held, entry : 1 .. SetSlots, next : Setting]

(* libdbus holds s for o, or will when a free function returns.            *)
Keeps(o, s) ==
    \/ s = kept[o]
    \/ \E n \in DOMAIN letting_go : letting_go[n].object = o /\ letting_go[n].next = s

(* s is what was set for o last.                                           *)
Latest(o, s) ==
    \/ s = kept[o] /\ \A n \in DOMAIN letting_go : letting_go[n].object # o
    \/ \E n \in DOMAIN letting_go : letting_go[n].object = o /\ letting_go[n].next = s

\* s is data that was not handed out again while it was remembered.
Sure(s) == s.data # None /\ s.data \notin reused

\* Wherever an entry has a pointer that libdbus keeps, it has the free
\* function that was set with it.
RememberedWhole ==
    \A o \in Held, s \in Setting, i \in 1 .. SetSlots :
        (Keeps(o, s) /\ Sure(s)) =>
            /\ entries[i].new.data = s.data => entries[i].new = s
            /\ entries[i].old.data = s.data => entries[i].old = s

\* A pointer is kept for one object, with one free function.
OneKeeper ==
    \A o, p \in Held, s, u \in Setting :
        (Keeps(o, s) /\ Keeps(p, u) /\ Sure(s) /\ s.data = u.data) => o = p /\ s = u

\* What was set last has not been moved to old yet.
LatestNotOld ==
    \A o \in Held, s \in Setting, i \in 1 .. SetSlots :
        (Latest(o, s) /\ Sure(s)) => entries[i].old.data # s.data

\* An entry that remembers what was set last is its object's, or free.
LatestInItsSlot ==
    \A o \in Held, s \in Setting, i \in 1 .. SetSlots :
        (Latest(o, s) /\ Sure(s) /\ entries[i].new.data = s.data) =>
            entries[i].object \in {o, None}

\* The first slot of an object remembers what was set for it last, if that has
\* a free function and there was a slot for it.
LatestRemembered ==
    \A o \in Held \ unplaced, s \in Setting :
        (Latest(o, s) /\ s.data # None /\ s.function # None) =>
            \E i \in 1 .. SetSlots :
                /\ entries[i].object = o /\ entries[i].new = s
                /\ \A j \in 1 .. SetSlots : j < i => entries[j].object # o

\* While a free function runs, libdbus has the pointer that is freed, and its
\* entry is its object's with this pointer as the old one.
CallsFreeData == \A n \in DOMAIN letting_go : kept[letting_go[n].object].data # None

CallsHoldSlots ==
    \A n \in DOMAIN letting_go :
        Sure(kept[letting_go[n].object]) =>
            /\ entries[letting_go[n].entry].object = letting_go[n].object
            /\ entries[letting_go[n].entry].old = kept[letting_go[n].object]

\* No free function that is called meanwhile has found the same entry.
CallsApart ==
    \A m, n \in DOMAIN letting_go :
        m < n /\ Sure(kept[letting_go[m].object]) =>
            letting_go[m].entry # letting_go[n].entry

\* One free function runs for an object at most.
OneCallEach ==
    \A m, n \in DOMAIN letting_go : letting_go[m].object = letting_go[n].object => m = n

SetDataInv ==
    /\ SetDataTypeOK
    /\ RememberedWhole /\ OneKeeper
    /\ LatestNotOld /\ LatestInItsSlot /\ LatestRemembered
    /\ CallsFreeData /\ CallsHoldSlots /\ CallsApart /\ OneCallEach
    /\ ReplacedIsFreed

(* A loop over the entries stops at the first that matches, if one does.   *)
LEMMA FirstEntryIs ==
  ASSUME NEW S \in SUBSET (1 .. SetSlots)
  PROVE  \/ S = {} /\ FirstEntry(S) = NoEntry
         \/ /\ FirstEntry(S) \in S
            /\ FirstEntry(S) # NoEntry
            /\ \A j \in S : FirstEntry(S) <= j
<1>1. CASE S = {}
  BY <1>1 DEF FirstEntry
<1>2. CASE S # {}
  <2>1. S \in SUBSET Nat
    BY SetDataAssumption
  <2>2. \E i \in S : \A j \in S : i <= j
    BY <1>2, <2>1, LeastExists
  <2>3. Min(S) \in S /\ \A j \in S : Min(S) <= j
    BY <2>2 DEF Min
  <2>4. FirstEntry(S) = Min(S)
    BY <1>2 DEF FirstEntry
  <2> HIDE DEF FirstEntry
  <2>5. FirstEntry(S) \in 1 .. SetSlots
    BY <2>3, <2>4
  <2>. QED
    BY <1>2, <2>3, <2>4, <2>5, SetDataAssumption DEF NoEntry
<1>. QED
  BY <1>1, <1>2

(* The free functions in progress hold an object, an entry and what is set *)
(* next.                                                                   *)
LEMMA SetDataTyped ==
  ASSUME SetDataTypeOK
  PROVE  /\ letting_go \in Seq(FreeCall)
         /\ Len(letting_go) \in Nat
         /\ DOMAIN letting_go = 1 .. Len(letting_go)
         /\ \A n \in DOMAIN letting_go :
              /\ letting_go[n].object \in Held
              /\ letting_go[n].entry \in 1 .. SetSlots
              /\ letting_go[n].next \in Setting
         /\ \A o : o \in LettingGoOf <=> \E n \in DOMAIN letting_go : letting_go[n].object = o
         /\ \A i \in 1 .. SetSlots :
              /\ entries[i] \in Entry
              /\ entries[i].object \in Held \cup {None}
              /\ entries[i].new \in Setting
              /\ entries[i].old \in Setting
         /\ \A o \in Held : kept[o] \in Setting
<1>1. letting_go \in Seq(FreeCall)
  BY DEF SetDataTypeOK, FreeCall
<1>2. Len(letting_go) \in Nat /\ DOMAIN letting_go = 1 .. Len(letting_go)
  BY <1>1, LenProperties
<1>3. \A n \in DOMAIN letting_go : letting_go[n] \in FreeCall
  BY <1>1, <1>2, ElementOfSeq
<1>4. \A o : o \in LettingGoOf <=> \E n \in DOMAIN letting_go : letting_go[n].object = o
  BY DEF LettingGoOf, ToSet
<1>5. \A i \in 1 .. SetSlots : entries[i] \in Entry
  BY DEF SetDataTypeOK
<1>6. \A o \in Held : kept[o] \in Setting
  BY DEF SetDataTypeOK
<1>. QED
  BY <1>1, <1>2, <1>3, <1>4, <1>5, <1>6 DEF FreeCall, Entry

(* Nothing has been set.                                                   *)
LEMMA SetDataInitInv == SetDataInit => SetDataInv
<1> SUFFICES ASSUME SetDataInit PROVE SetDataInv
  OBVIOUS
<1>1. Nothing \in Setting /\ Nothing.data = None
  BY DEF Nothing, Setting
<1>2. SetDataTypeOK
  BY <1>1 DEF SetDataInit, SetDataTypeOK, Entry
<1>3. /\ \A n \in DOMAIN letting_go : FALSE
      /\ \A o \in Held : kept[o] = Nothing
      /\ loss = "none"
  BY DEF SetDataInit
<1>4. \A o \in Held : \A s : Keeps(o, s) \/ Latest(o, s) => s.data = None
  BY <1>1, <1>3 DEF Keeps, Latest
<1>. QED
  BY <1>2, <1>3, <1>4
     DEF SetDataInv, Sure, RememberedWhole, OneKeeper, LatestNotOld, LatestInItsSlot,
         LatestRemembered, CallsFreeData, CallsHoldSlots, CallsApart, OneCallEach,
         ReplacedIsFreed

(* What was set last is what libdbus holds, or will.                       *)
LEMMA LatestIsKept ==
  ASSUME NEW o, NEW s, Latest(o, s)
  PROVE  Keeps(o, s)
BY DEF Latest, Keeps

(* What the loop of a set_data leaves in the table.                        *)
LEMMA StoreTakes ==
  ASSUME SetDataTypeOK, NEW o \in Held, NEW s \in Setting, Store(o, s)
  PROVE  \/ /\ \A i \in 1 .. SetSlots : entries[i].object \notin {o, None}
            /\ EntryFor(o) = NoEntry
            /\ entries' = entries
         \/ /\ EntryFor(o) \in 1 .. SetSlots
            /\ entries[EntryFor(o)].object \in {o, None}
            /\ \A j \in 1 .. SetSlots : j < EntryFor(o) => entries[j].object \notin {o, None}
            /\ entries' \in [1 .. SetSlots -> Entry]
            /\ \A j \in 1 .. SetSlots : j # EntryFor(o) => entries'[j] = entries[j]
            /\ entries'[EntryFor(o)].object = o
            /\ entries'[EntryFor(o)].new = s
            /\ entries'[EntryFor(o)].old = IF entries[EntryFor(o)].object = o
                                           THEN entries[EntryFor(o)].new
                                           ELSE entries[EntryFor(o)].old
<1> DEFINE i == EntryFor(o)
           S == {j \in 1 .. SetSlots : entries[j].object \in {o, None}}
<1>1. i = FirstEntry(S)
  BY DEF EntryFor
<1>2. entries' = IF i = NoEntry THEN entries
                 ELSE IF entries[i].object = o
                 THEN [entries EXCEPT ![i].old = entries[i].new, ![i].new = s]
                 ELSE [entries EXCEPT ![i].object = o, ![i].new = s]
  BY DEF Store
<1> HIDE DEF i
<1>3. CASE S = {} /\ i = NoEntry
  BY <1>2, <1>3 DEF i
<1>4. CASE /\ i \in S
           /\ i # NoEntry
           /\ \A j \in S : i <= j
  <2>1. i \in 1 .. SetSlots /\ entries[i].object \in {o, None}
    BY <1>4
  <2>2. \A j \in 1 .. SetSlots : j < i => entries[j].object \notin {o, None}
    BY <1>4, <2>1, SetDataAssumption
  <2>3. /\ entries \in [1 .. SetSlots -> Entry]
        /\ entries[i] \in Entry
        /\ entries[i].new \in Setting
    BY <2>1, SetDataTyped DEF SetDataTypeOK
  <2>4. CASE entries[i].object = o
    <3>1. entries' = [entries EXCEPT ![i].old = entries[i].new, ![i].new = s]
      BY <1>2, <1>4, <2>4
    <3>2. /\ entries' \in [1 .. SetSlots -> Entry]
          /\ \A j \in 1 .. SetSlots : j # i => entries'[j] = entries[j]
          /\ entries'[i].object = o
          /\ entries'[i].new = s
          /\ entries'[i].old = entries[i].new
      BY <2>1, <2>3, <2>4, <3>1 DEF Entry
    <3>. QED
      BY <2>1, <2>2, <2>4, <3>2 DEF i
  <2>5. CASE entries[i].object # o
    <3>1. entries' = [entries EXCEPT ![i].object = o, ![i].new = s]
      BY <1>2, <1>4, <2>5
    <3>2. /\ entries' \in [1 .. SetSlots -> Entry]
          /\ \A j \in 1 .. SetSlots : j # i => entries'[j] = entries[j]
          /\ entries'[i].object = o
          /\ entries'[i].new = s
          /\ entries'[i].old = entries[i].old
      BY <2>1, <2>3, <2>5, <3>1 DEF Entry
    <3>. QED
      BY <2>1, <2>2, <2>5, <3>2 DEF i
  <2>. QED
    BY <2>4, <2>5
<1>5. S \in SUBSET (1 .. SetSlots)
  OBVIOUS
<1> HIDE DEF S
<1>. QED
  BY <1>1, <1>3, <1>4, <1>5, FirstEntryIs

(* The free function for what o has runs next, with the slot i.            *)
CallStarted(o, s, i) ==
    /\ DOMAIN letting_go' = 1 .. Len(letting_go) + 1
    /\ \A n \in DOMAIN letting_go' :
         \/ n \in DOMAIN letting_go /\ letting_go'[n] = letting_go[n]
         \/ /\ n = Len(letting_go) + 1
            /\ letting_go'[n].object = o
            /\ letting_go'[n].entry = i
            /\ letting_go'[n].next = s

(* libdbus lets go of what it kept, with a free function that runs or      *)
(* without.                                                                *)
LEMMA ReplaceStarts ==
  ASSUME SetDataTypeOK, NEW o \in Held, NEW s \in Setting, NEW r, Replace(o, s, r),
         o \notin LettingGoOf
  PROVE  /\ letting_go' \in Seq(FreeCall)
         /\ kept' \in [Held -> Setting]
         /\ \/ /\ kept[o].data # None
               /\ \E i \in 1 .. SetSlots :
                    entries'[i].old.data = kept[o].data /\ CallStarted(o, s, i)
               /\ kept' = kept
               /\ loss' = "none"
            \/ /\ \/ kept[o].data = None
                  \/ \A i \in 1 .. SetSlots : entries'[i].old.data # kept[o].data
               /\ letting_go' = letting_go
               /\ kept' = [kept EXCEPT ![o] = s]
               /\ \/ loss' = "none"
                  \/ /\ kept[o].data # None
                     /\ kept[o].function # None
                     /\ loss' = Cause(o, r)
<1> DEFINE d == kept[o].data
           S == {j \in 1 .. SetSlots : entries'[j].old.data = d}
           i == EntryOfOld(entries', d)
           k == Len(letting_go)
           f == [object |-> o, entry |-> i, next |-> s]
<1>1. /\ i = FirstEntry(S)
      /\ S \in SUBSET (1 .. SetSlots)
  BY DEF EntryOfOld
<1>2. (S = {} /\ i = NoEntry) \/ (i \in S /\ i # NoEntry)
  <2>1. \/ S = {} /\ FirstEntry(S) = NoEntry
        \/ /\ FirstEntry(S) \in S
           /\ FirstEntry(S) # NoEntry
    <3> HIDE DEF S
    <3>. QED
      BY <1>1, FirstEntryIs
  <2> HIDE DEF S, i
  <2>. QED
    BY <1>1, <2>1
<1>3. /\ letting_go \in Seq(FreeCall)
      /\ k \in Nat
      /\ DOMAIN letting_go = 1 .. k
      /\ kept \in [Held -> Setting]
  BY SetDataTyped DEF SetDataTypeOK
<1>4. CASE d # None /\ i # NoEntry
  <2>1. i \in 1 .. SetSlots /\ entries'[i].old.data = d
    BY <1>2, <1>4
  <2>2. kept' = kept /\ letting_go' = Append(letting_go, f) /\ loss' = "none"
    BY <1>4 DEF Replace
  <2>3. f \in FreeCall /\ f.object = o /\ f.entry = i /\ f.next = s
    BY <2>1 DEF FreeCall
  <2> HIDE DEF f, i, k, S, d
  <2>4. /\ letting_go' \in Seq(FreeCall)
        /\ Len(letting_go') = k + 1
        /\ \A n \in 1 .. k : letting_go'[n] = letting_go[n]
        /\ letting_go'[k + 1] = f
    BY <1>3, <2>2, <2>3, AppendProperties DEF k
  <2>5. DOMAIN letting_go' = 1 .. k + 1
    BY <2>4, LenProperties
  <2>6. \A n \in DOMAIN letting_go' : n \in DOMAIN letting_go \/ n = k + 1
    BY <1>3, <2>5
  <2>7. CallStarted(o, s, i)
    BY <1>3, <2>3, <2>4, <2>5, <2>6 DEF CallStarted, k
  <2>. QED
    BY <1>3, <1>4, <2>1, <2>2, <2>4, <2>7 DEF d, k
<1>5. CASE ~ (d # None /\ i # NoEntry)
  <2>1. letting_go' = letting_go /\ kept' = [kept EXCEPT ![o] = s]
    BY <1>5 DEF Replace
  <2>2. d = None \/ \A j \in 1 .. SetSlots : entries'[j].old.data # d
    BY <1>2, <1>5
  <2>3. \/ loss' = "none"
        \/ /\ d # None /\ kept[o].function # None
           /\ loss' = Cause(o, r)
    BY DEF Replace
  <2>4. kept' \in [Held -> Setting]
    BY <1>3, <2>1
  <2>. QED
    BY <1>3, <2>1, <2>2, <2>3, <2>4
<1>. QED
  BY <1>4, <1>5

(* What is kept and what is latest afterwards.                             *)
LEMMA ReplaceKeeps ==
  ASSUME SetDataTypeOK, OneCallEach, NEW o \in Held, NEW s \in Setting, NEW r, Replace(o, s, r),
         o \notin LettingGoOf
  PROVE  /\ \A p \in Held, u \in Setting : Keeps(p, u)' => Keeps(p, u) \/ (p = o /\ u = s)
         /\ \A p \in Held, u \in Setting :
               Latest(p, u)' => (p # o /\ Latest(p, u)) \/ (p = o /\ u = s)
         /\ OneCallEach'
<1>1. /\ \A n \in DOMAIN letting_go : letting_go[n].object # o
      /\ DOMAIN letting_go = 1 .. Len(letting_go)
      /\ Len(letting_go) \in Nat
      /\ kept \in [Held -> Setting]
  BY SetDataTyped DEF SetDataTypeOK
<1>2. CASE letting_go' = letting_go /\ kept' = [kept EXCEPT ![o] = s]
  <2>1. kept'[o] = s /\ \A p \in Held : p # o => kept'[p] = kept[p]
    BY <1>1, <1>2
  <2>. QED
    BY <1>1, <1>2, <2>1 DEF Keeps, Latest, OneCallEach
<1>3. ASSUME NEW i, CallStarted(o, s, i), kept' = kept
      PROVE  /\ \A p \in Held, u \in Setting : Keeps(p, u)' => Keeps(p, u) \/ (p = o /\ u = s)
             /\ \A p \in Held, u \in Setting :
                   Latest(p, u)' => (p # o /\ Latest(p, u)) \/ (p = o /\ u = s)
             /\ OneCallEach'
  <2>1. \A p \in Held, u \in Setting : Keeps(p, u)' => Keeps(p, u) \/ (p = o /\ u = s)
    BY <1>3 DEF Keeps, CallStarted
  <2>2. OneCallEach'
    BY <1>1, <1>3 DEF OneCallEach, CallStarted
  <2>3. \A n \in DOMAIN letting_go : n \in DOMAIN letting_go' /\ letting_go'[n] = letting_go[n]
    BY <1>1, <1>3 DEF CallStarted
  <2>4. /\ Len(letting_go) + 1 \in DOMAIN letting_go'
        /\ Len(letting_go) + 1 \notin DOMAIN letting_go
    BY <1>1, <1>3 DEF CallStarted
  <2>5. letting_go'[Len(letting_go) + 1].object = o
    BY <1>3, <2>4 DEF CallStarted
  <2>6. ASSUME NEW p \in Held, NEW u \in Setting, Latest(p, u)', p # o
        PROVE  Latest(p, u)
    BY <1>3, <2>3, <2>6 DEF Latest, CallStarted
  <2>7. ASSUME NEW u \in Setting, Latest(o, u)'
        PROVE  u = s
    BY <1>1, <1>3, <2>4, <2>5, <2>7 DEF Latest, CallStarted
  <2>. QED
    BY <2>1, <2>2, <2>6, <2>7
<1>. QED
  BY <1>2, <1>3, ReplaceStarts

(* Afterwards data is sure that was sure before, or that nobody remembered. *)
LEMMA RecordIsSure ==
  ASSUME SetDataTypeOK, NEW o \in Held, NEW s \in Setting, MaySet(o, s), Record(o, s)
  PROVE  /\ reused' \in SUBSET Datum
         /\ unplaced' \in SUBSET Held
         /\ kept[o].data # None => kept[o].data # s.data
         /\ \A p \in Held : p # o /\ p \notin unplaced' => p \notin unplaced
         /\ o \notin unplaced' => \E i \in 1 .. SetSlots : entries[i].object \in {o, None}
         /\ \A u : Sure(u)' =>
              \/ Sure(u) /\ u.data # s.data
              \/ /\ u.data = s.data /\ u.data # None
                 /\ \A p \in Held : \A v : Keeps(p, v) => v.data # s.data
                 /\ \A i \in 1 .. SetSlots : /\ entries[i].new.data # s.data
                                             /\ entries[i].old.data # s.data
<1>1. reused \in SUBSET Datum /\ unplaced \in SUBSET Held /\ s.data \in Datum \cup {None}
  BY DEF SetDataTypeOK, Setting
<1>2. reused' \in SUBSET Datum /\ unplaced' \in SUBSET Held
  BY <1>1 DEF Record
<1>3. kept[o].data # None => kept[o].data # s.data
  BY DEF MaySet
<1>4. /\ \A p \in Held : p # o /\ p \notin unplaced' => p \notin unplaced
      /\ o \notin unplaced' => \E i \in 1 .. SetSlots : entries[i].object \in {o, None}
  BY DEF Record
<1>5. ASSUME NEW u, Sure(u)'
      PROVE  \/ Sure(u) /\ u.data # s.data
             \/ /\ u.data = s.data /\ u.data # None
                /\ \A p \in Held : \A v : Keeps(p, v) => v.data # s.data
                /\ \A i \in 1 .. SetSlots : /\ entries[i].new.data # s.data
                                            /\ entries[i].old.data # s.data
  <2>1. u.data # None /\ u.data \notin reused'
    BY <1>5 DEF Sure
  <2>2. CASE u.data # s.data
    BY <2>1, <2>2 DEF Record, Sure
  <2>3. CASE u.data = s.data
    <3>1. ~ Reuses(s.data)
      BY <2>1, <2>3 DEF Record
    <3>2. \A n \in DOMAIN letting_go : letting_go[n].next.data # s.data
      BY <2>1, <2>3 DEF MaySet, ToSet
    <3>. QED
      BY <2>1, <2>3, <3>1, <3>2 DEF Reuses, Keeps
  <2>. QED
    BY <2>2, <2>3
<1>. QED
  BY <1>2, <1>3, <1>4, <1>5

(* No running free function for sure data has found the entry that the     *)
(* next one finds: what they free is kept for one object.                  *)
LEMMA FoundByNoOther ==
  ASSUME SetDataTypeOK, OneKeeper, CallsFreeData, NEW o \in Held, o \notin LettingGoOf,
         NEW n \in DOMAIN letting_go, Sure(kept[letting_go[n].object])
  PROVE  kept[letting_go[n].object].data # kept[o].data
<1>1. /\ letting_go[n].object \in Held /\ letting_go[n].object # o
      /\ kept[letting_go[n].object] \in Setting /\ kept[o] \in Setting
  BY SetDataTyped
<1>2. Keeps(letting_go[n].object, kept[letting_go[n].object]) /\ Keeps(o, kept[o])
  BY DEF Keeps
<1>. QED
  BY <1>1, <1>2 DEF OneKeeper

(* set_data keeps the invariant: the entry of the object remembers the new *)
(* pair and moves the one before it to old, where the free function that   *)
(* libdbus calls now looks for it.                                         *)
LEMMA SetDataOfInv ==
  ASSUME SetDataInv, NEW o \in Held, NEW s \in Setting, SetDataOf(o, s)
  PROVE  SetDataInv'
<1> USE DEF SetDataInv
<1> DEFINE i == EntryFor(o)
<1>1. /\ MaySet(o, s)
      /\ o \notin LettingGoOf
      /\ Store(o, s)
      /\ Replace(o, s, TRUE)
      /\ Record(o, s)
      /\ object_kind' = object_kind
  BY DEF SetDataOf, MaySet
<1>2. \/ /\ \A j \in 1 .. SetSlots : entries[j].object \notin {o, None}
         /\ entries' = entries
      \/ /\ i \in 1 .. SetSlots
         /\ entries[i].object \in {o, None}
         /\ \A j \in 1 .. SetSlots : j < i => entries[j].object \notin {o, None}
         /\ entries' \in [1 .. SetSlots -> Entry]
         /\ \A j \in 1 .. SetSlots : j # i => entries'[j] = entries[j]
         /\ entries'[i].object = o
         /\ entries'[i].new = s
         /\ entries'[i].old = IF entries[i].object = o THEN entries[i].new ELSE entries[i].old
  BY <1>1, StoreTakes
<1> HIDE DEF i
<1>3. /\ \A p \in Held, u \in Setting : Keeps(p, u)' => Keeps(p, u) \/ (p = o /\ u = s)
      /\ \A p \in Held, u \in Setting :
            Latest(p, u)' => (p # o /\ Latest(p, u)) \/ (p = o /\ u = s)
      /\ OneCallEach'
  BY <1>1, ReplaceKeeps
<1>4. /\ reused' \in SUBSET Datum
      /\ unplaced' \in SUBSET Held
      /\ kept[o].data # None => kept[o].data # s.data
      /\ \A p \in Held : p # o /\ p \notin unplaced' => p \notin unplaced
      /\ o \notin unplaced' => \E j \in 1 .. SetSlots : entries[j].object \in {o, None}
      /\ \A u : Sure(u)' =>
           \/ Sure(u) /\ u.data # s.data
           \/ /\ u.data = s.data /\ u.data # None
              /\ \A p \in Held : \A v : Keeps(p, v) => v.data # s.data
              /\ \A j \in 1 .. SetSlots : /\ entries[j].new.data # s.data
                                          /\ entries[j].old.data # s.data
  BY <1>1, RecordIsSure
<1>5. /\ \A j \in 1 .. SetSlots : entries'[j].new = s \/ entries'[j].new = entries[j].new
      /\ \A j \in 1 .. SetSlots : \/ entries'[j].old = entries[j].old
                                  \/ entries'[j].old = entries[j].new
  BY <1>2
<1>6. \A j \in 1 .. SetSlots :
          \/ entries'[j].old = entries[j].old
          \/ entries[j].object = o /\ entries'[j].old = entries[j].new
  <2>1. CASE entries' = entries
    BY <2>1
  <2>2. CASE entries' # entries
    <3>1. /\ \A j \in 1 .. SetSlots : j # i => entries'[j] = entries[j]
          /\ entries'[i].old = IF entries[i].object = o THEN entries[i].new ELSE entries[i].old
      BY <1>2, <2>2
    <3>. QED
      BY <3>1
  <2>. QED
    BY <2>1, <2>2
<1>7. \A j \in 1 .. SetSlots : entries[j].object \notin {o, None} => entries'[j] = entries[j]
  BY <1>2
<1>8. \A m \in 1 .. SetSlots : entries'[m].object = entries[m].object \/ entries'[m].object = o
  BY <1>2
<1>9. SetDataTypeOK'
  <2>1. entries' \in [1 .. SetSlots -> Entry]
    BY <1>2 DEF SetDataTypeOK
  <2>2. loss' \in {"none", "finalised", "full", "moved", "lost"}
    BY <1>1, ReplaceStarts DEF Cause
  <2>. QED
    BY <1>1, <1>4, <2>1, <2>2, ReplaceStarts DEF SetDataTypeOK, FreeCall
<1>10. RememberedWhole'
  <2> SUFFICES ASSUME NEW p \in Held, NEW u \in Setting, NEW j \in 1 .. SetSlots,
                      Keeps(p, u)', Sure(u)'
               PROVE  /\ entries'[j].new.data = u.data => entries'[j].new = u
                      /\ entries'[j].old.data = u.data => entries'[j].old = u
    BY DEF RememberedWhole
  <2>1. CASE Sure(u) /\ u.data # s.data
    BY <1>3, <1>5, <2>1 DEF RememberedWhole
  <2>2. CASE ~ (Sure(u) /\ u.data # s.data)
    BY <1>3, <1>4, <1>5, <2>2
  <2>. QED
    BY <2>1, <2>2
<1>11. OneKeeper'
  <2> SUFFICES ASSUME NEW p \in Held, NEW q \in Held, NEW u \in Setting, NEW v \in Setting,
                      Keeps(p, u)', Keeps(q, v)', Sure(u)', u.data = v.data
               PROVE  p = q /\ u = v
    BY DEF OneKeeper
  <2>1. CASE Sure(u) /\ u.data # s.data
    BY <1>3, <2>1 DEF OneKeeper
  <2>2. CASE ~ (Sure(u) /\ u.data # s.data)
    BY <1>3, <1>4, <2>2
  <2>. QED
    BY <2>1, <2>2
<1>12. LatestNotOld'
  <2> SUFFICES ASSUME NEW p \in Held, NEW u \in Setting, NEW j \in 1 .. SetSlots,
                      Latest(p, u)', Sure(u)'
               PROVE  entries'[j].old.data # u.data
    BY DEF LatestNotOld
  <2>1. CASE Sure(u) /\ u.data # s.data
    <3>1. p # o /\ Latest(p, u)
      BY <1>3, <2>1
    <3>2. entries[j].old.data # u.data
      BY <2>1, <3>1 DEF LatestNotOld
    <3>3. entries[j].new.data = u.data => entries[j].object \in {p, None}
      BY <2>1, <3>1 DEF LatestInItsSlot
    <3>. QED
      BY <1>6, <3>1, <3>2, <3>3, SetDataAssumption
  <2>2. CASE ~ (Sure(u) /\ u.data # s.data)
    BY <1>4, <1>5, <2>2
  <2>. QED
    BY <2>1, <2>2
<1>13. LatestInItsSlot'
  <2> SUFFICES ASSUME NEW p \in Held, NEW u \in Setting, NEW j \in 1 .. SetSlots,
                      Latest(p, u)', Sure(u)', entries'[j].new.data = u.data
               PROVE  entries'[j].object \in {p, None}
    BY DEF LatestInItsSlot
  <2>1. CASE Sure(u) /\ u.data # s.data
    <3>1. p # o /\ Latest(p, u)
      BY <1>3, <2>1
    <3>2. entries'[j] = entries[j]
      BY <1>2, <2>1
    <3>. QED
      BY <2>1, <3>1, <3>2 DEF LatestInItsSlot
  <2>2. CASE ~ (Sure(u) /\ u.data # s.data)
    <3>1. u.data = s.data /\ entries[j].new.data # s.data
      BY <1>4, <2>2
    <3>2. p = o
      BY <1>3, <1>4, <2>2, LatestIsKept
    <3>3. entries'[j].object = o
      BY <1>2, <3>1
    <3>. QED
      BY <3>2, <3>3
  <2>. QED
    BY <2>1, <2>2
<1>14. LatestRemembered'
  <2> SUFFICES ASSUME NEW p \in Held \ unplaced', NEW u \in Setting, Latest(p, u)',
                      u.data # None, u.function # None
               PROVE  \E j \in 1 .. SetSlots :
                        /\ entries'[j].object = p /\ entries'[j].new = u
                        /\ \A m \in 1 .. SetSlots : m < j => entries'[m].object # p
    BY DEF LatestRemembered
  <2>1. CASE p = o /\ u = s
    <3>1. /\ i \in 1 .. SetSlots /\ entries'[i].object = o /\ entries'[i].new = s
          /\ \A m \in 1 .. SetSlots : m < i => entries[m].object # o
          /\ \A m \in 1 .. SetSlots : m # i => entries'[m] = entries[m]
      BY <1>2, <1>4, <2>1
    <3>2. \A m \in 1 .. SetSlots : m < i => m # i
      BY <3>1, SetDataAssumption
    <3>. QED
      BY <2>1, <3>1, <3>2
  <2>2. CASE p # o /\ Latest(p, u)
    <3>1. p \in Held \ unplaced
      BY <1>4, <2>2
    <3>2. PICK j \in 1 .. SetSlots :
            /\ entries[j].object = p /\ entries[j].new = u
            /\ \A m \in 1 .. SetSlots : m < j => entries[m].object # p
      BY <2>2, <3>1 DEF LatestRemembered
    <3>3. entries'[j] = entries[j]
      BY <1>7, <2>2, <3>2, SetDataAssumption
    <3>. QED
      BY <1>8, <2>2, <3>2, <3>3
  <2>. QED
    BY <1>3, <2>1, <2>2
<1>15. \A n \in DOMAIN letting_go :
         /\ letting_go[n].object # o /\ letting_go[n].object \in Held
         /\ kept'[letting_go[n].object] = kept[letting_go[n].object]
  <2>1. \A p \in Held : p # o => kept'[p] = kept[p]
    BY <1>1, ReplaceStarts DEF SetDataTypeOK
  <2>. QED
    BY <1>1, <2>1, SetDataTyped
<1>16. \A n \in DOMAIN letting_go :
         kept[letting_go[n].object].data \notin reused' =>
            /\ Sure(kept[letting_go[n].object])
            /\ entries'[letting_go[n].entry] = entries[letting_go[n].entry]
  <2> SUFFICES ASSUME NEW n \in DOMAIN letting_go, kept[letting_go[n].object].data \notin reused'
               PROVE  /\ Sure(kept[letting_go[n].object])
                      /\ entries'[letting_go[n].entry] = entries[letting_go[n].entry]
    OBVIOUS
  <2>1. letting_go[n].object # o /\ letting_go[n].object # None /\ letting_go[n].entry \in 1 .. SetSlots
    BY <1>1, SetDataTyped, SetDataAssumption
  <2>2. kept[letting_go[n].object].data # None /\ letting_go[n].object \in Held
    BY SetDataTyped DEF CallsFreeData
  <2>3. kept[letting_go[n].object].data # s.data
    BY <1>1, <2>2 DEF Record, Reuses
  <2>4. Sure(kept[letting_go[n].object])
    BY <1>1, <2>2, <2>3 DEF Record, Sure
  <2>5. entries[letting_go[n].entry].object \notin {o, None}
    BY <2>1, <2>4 DEF CallsHoldSlots
  <2>. QED
    BY <1>7, <2>1, <2>4, <2>5
<1>17. o \in Held /\ Keeps(o, kept[o]) /\ Latest(o, kept[o]) /\ kept[o] \in Setting
  BY <1>1, SetDataTyped DEF Keeps, Latest
<1>18. CallsFreeData' /\ CallsHoldSlots' /\ CallsApart'
  <2>1. CASE letting_go' = letting_go
    BY <1>15, <1>16, <2>1 DEF CallsFreeData, CallsHoldSlots, CallsApart, Sure
  <2>2. ASSUME kept[o].data # None, kept' = kept,
               NEW e \in 1 .. SetSlots,
               entries'[e].old.data = kept[o].data,
               CallStarted(o, s, e)
        PROVE  CallsFreeData' /\ CallsHoldSlots' /\ CallsApart'
    <3>1. CallsFreeData'
      BY <2>2 DEF CallsFreeData, CallStarted
    <3>2. kept[o].data \notin reused' => entries'[e].object = o /\ entries'[e].old = kept[o]
      <4> SUFFICES ASSUME kept[o].data \notin reused'
                   PROVE  entries'[e].object = o /\ entries'[e].old = kept[o]
        OBVIOUS
      <4>1. Sure(kept[o])
        BY <1>1, <1>4, <2>2 DEF Sure, Record
      <4>2. entries[e].old.data # kept[o].data
        BY <1>17, <4>1 DEF LatestNotOld
      <4>3. e = i /\ i \in 1 .. SetSlots /\ entries'[e].object = o /\ entries'[e].old = entries[e].new
        BY <1>2, <2>2, <4>2
      <4>4. entries[e].new = kept[o]
        BY <1>17, <2>2, <4>1, <4>3 DEF RememberedWhole
      <4>. QED
        BY <4>3, <4>4
    <3>3. CallsHoldSlots'
      BY <1>15, <1>16, <2>2, <3>2 DEF CallsHoldSlots, CallStarted, Sure
    <3>4. \A n \in DOMAIN letting_go :
            kept[letting_go[n].object].data \notin reused' => letting_go[n].entry # e
      BY <1>1, <1>16, <2>2, FoundByNoOther DEF CallsHoldSlots
    <3>5. CallsApart'
      <4>1. DOMAIN letting_go = 1 .. Len(letting_go) /\ Len(letting_go) \in Nat
        BY SetDataTyped
      <4> SUFFICES ASSUME NEW m \in DOMAIN letting_go', NEW n \in DOMAIN letting_go', m < n,
                          kept[letting_go[m].object].data \notin reused',
                          letting_go'[m] = letting_go[m], m \in DOMAIN letting_go
                   PROVE  letting_go'[m].entry # letting_go'[n].entry
        BY <2>2, <4>1 DEF CallsApart, CallStarted, Sure
      <4>2. CASE n \in DOMAIN letting_go /\ letting_go'[n] = letting_go[n]
        BY <1>16, <4>2 DEF CallsApart
      <4>3. CASE letting_go'[n].entry = e
        BY <3>4, <4>3
      <4>. QED
        BY <2>2, <4>2, <4>3 DEF CallStarted
    <3>. QED
      BY <3>1, <3>3, <3>5
  <2>. QED
    BY <1>1, <2>1, <2>2, ReplaceStarts
<1>19. ReplacedIsFreed'
  <2>1. CASE loss' = "none"
    BY <2>1 DEF ReplacedIsFreed
  <2>2. CASE /\ kept[o].data # None
             /\ kept[o].function # None
             /\ \A j \in 1 .. SetSlots : entries'[j].old.data # kept[o].data
             /\ loss' = Cause(o, TRUE)
    <3>1. Cause(o, TRUE) # "lost"
      <4>1. CASE o \in unplaced
        BY <4>1 DEF Cause
      <4>2. CASE o \notin unplaced
        <5>1. PICK j \in 1 .. SetSlots :
                /\ entries[j].object = o /\ entries[j].new = kept[o]
                /\ \A m \in 1 .. SetSlots : m < j => entries[m].object # o
          BY <1>17, <2>2, <4>2 DEF LatestRemembered
        <5>2. /\ i \in 1 .. SetSlots /\ entries[i].object \in {o, None}
              /\ \A m \in 1 .. SetSlots : m < i => entries[m].object \notin {o, None}
              /\ entries[i].object = o => entries'[i].old = entries[i].new
          BY <1>2, <5>1
        <5>3. i # j
          BY <2>2, <5>1, <5>2
        <5>4. i < j
          BY <5>1, <5>2, <5>3, SetDataAssumption
        <5>5. i \in 1 .. j - 1 /\ entries[i].object = None
          BY <5>1, <5>2, <5>4, SetDataAssumption
        <5>. QED
          BY <5>1, <5>5 DEF Cause
      <4>. QED
        BY <4>1, <4>2
    <3>. QED
      BY <2>2, <3>1 DEF ReplacedIsFreed
  <2>. QED
    BY <1>1, <2>1, <2>2, ReplaceStarts
<1>. QED
  BY <1>3, <1>9, <1>10, <1>11, <1>12, <1>13, <1>14, <1>18, <1>19

(* libdbus gives an object up: the free function of its data is started    *)
(* with the entry that has it as old data, if one does.                    *)
LEMMA FinaliseInv ==
  ASSUME SetDataInv, NEW o \in Held, Finalise(o)
  PROVE  SetDataInv'
<1> USE DEF SetDataInv
<1>1. /\ o \notin LettingGoOf
      /\ UNCHANGED <<object_kind, entries, reused, unplaced>>
      /\ Replace(o, Nothing, FALSE)
      /\ Nothing \in Setting
      /\ Nothing.data = None
  BY DEF Finalise, Nothing, Setting
<1>2. Latest(o, kept[o]) /\ kept[o] \in Setting
  BY <1>1, SetDataTyped DEF Latest
<1>3. Sure(kept[o]) => \A i \in 1 .. SetSlots : entries'[i].old.data # kept[o].data
  BY <1>1, <1>2 DEF LatestNotOld
<1>4. /\ letting_go' \in Seq(FreeCall)
      /\ kept' \in [Held -> Setting]
      /\ loss' \in {"none", "finalised"}
  BY <1>1, ReplaceStarts DEF Cause
<1>5. /\ \A p \in Held, u \in Setting : Keeps(p, u)' => Keeps(p, u) \/ (p = o /\ u = Nothing)
      /\ \A p \in Held, u \in Setting :
            Latest(p, u)' => (p # o /\ Latest(p, u)) \/ (p = o /\ u = Nothing)
      /\ OneCallEach'
  BY <1>1, ReplaceKeeps
<1>6. SetDataTypeOK'
  BY <1>1, <1>4 DEF SetDataTypeOK, FreeCall
<1>7. \A u : Sure(u)' <=> Sure(u)
  BY <1>1 DEF Sure
<1>8. RememberedWhole' /\ OneKeeper'
  BY <1>1, <1>5, <1>7 DEF RememberedWhole, OneKeeper, Sure
<1>9. LatestNotOld' /\ LatestInItsSlot' /\ LatestRemembered'
  BY <1>1, <1>5, <1>7 DEF LatestNotOld, LatestInItsSlot, LatestRemembered, Sure
<1>10. CallsFreeData' /\ CallsHoldSlots' /\ CallsApart'
  <2>1. \A n \in DOMAIN letting_go : letting_go[n].object # o /\ letting_go[n].object \in Held
    BY <1>1, SetDataTyped
  <2>2. CASE letting_go' = letting_go /\ kept' = [kept EXCEPT ![o] = Nothing]
    BY <1>1, <2>1, <2>2 DEF CallsFreeData, CallsHoldSlots, CallsApart, Sure, SetDataTypeOK
  <2>3. ASSUME kept[o].data # None, kept' = kept,
               NEW e \in 1 .. SetSlots,
               entries'[e].old.data = kept[o].data,
               CallStarted(o, Nothing, e)
        PROVE  CallsFreeData' /\ CallsHoldSlots' /\ CallsApart'
    <3>1. ~ Sure(kept[o])
      BY <1>3, <2>3
    <3>2. CallsFreeData' /\ CallsHoldSlots'
      BY <1>1, <2>3, <3>1 DEF CallsFreeData, CallsHoldSlots, CallStarted, Sure
    <3>3. \A n \in DOMAIN letting_go : Sure(kept[letting_go[n].object]) => letting_go[n].entry # e
      BY <1>1, <2>3, FoundByNoOther DEF CallsHoldSlots
    <3>4. CallsApart'
      <4>1. DOMAIN letting_go = 1 .. Len(letting_go) /\ Len(letting_go) \in Nat
        BY SetDataTyped
      <4> SUFFICES ASSUME NEW m \in DOMAIN letting_go', NEW n \in DOMAIN letting_go', m < n,
                          Sure(kept[letting_go[m].object]),
                          letting_go'[m] = letting_go[m], m \in DOMAIN letting_go
                   PROVE  letting_go'[m].entry # letting_go'[n].entry
        BY <1>1, <2>3, <4>1 DEF CallsApart, CallStarted, Sure
      <4>2. CASE n \in DOMAIN letting_go /\ letting_go'[n] = letting_go[n]
        BY <4>2 DEF CallsApart
      <4>3. CASE letting_go'[n].entry = e
        BY <3>3, <4>3
      <4>. QED
        BY <2>3, <4>2, <4>3 DEF CallStarted
    <3>. QED
      BY <3>2, <3>4
  <2>. QED
    BY <1>1, <2>2, <2>3, ReplaceStarts
<1>11. ReplacedIsFreed'
  BY <1>4 DEF ReplacedIsFreed
<1>. QED
  BY <1>5, <1>6, <1>8, <1>9, <1>10, <1>11

(* A free function returns: libdbus has what is set next, and the entry is *)
(* given back when that has no free function (a watch) or is no data (a    *)
(* timeout).                                                               *)
LEMMA FreeFunctionReturnsInv ==
  ASSUME SetDataInv, FreeFunctionReturns
  PROVE  SetDataInv'
<1> USE DEF SetDataInv
<1> DEFINE k == Len(letting_go)
           i == letting_go[k].entry
           o == letting_go[k].object
           s == letting_go[k].next
<1>1. /\ letting_go \in Seq(FreeCall)
      /\ letting_go # <<>>
  BY SetDataTyped DEF FreeFunctionReturns
<1>2. /\ k \in Nat \ {0}
      /\ DOMAIN letting_go = 1 .. k
      /\ letting_go' \in Seq(FreeCall)
      /\ DOMAIN letting_go' = 1 .. k - 1
      /\ \A n \in 1 .. k - 1 : letting_go'[n] = letting_go[n]
  BY <1>1, FrontElements DEF FreeFunctionReturns
<1>3. /\ entries' = IF GivesBack(entries[i]) THEN [entries EXCEPT ![i].object = None] ELSE entries
      /\ kept' = [kept EXCEPT ![o] = s]
      /\ UNCHANGED <<object_kind, reused, unplaced>>
      /\ loss' = "none"
  BY DEF FreeFunctionReturns, Last
<1>4. i \in 1 .. SetSlots /\ o \in Held /\ s \in Setting
  BY <1>2, SetDataTyped
<1>5. \A n \in 1 .. k - 1 : /\ n \in DOMAIN letting_go
                            /\ letting_go[n].object # o
                            /\ letting_go[n].object \in Held
                            /\ letting_go[n].entry \in 1 .. SetSlots
                            /\ Sure(kept[letting_go[n].object]) => letting_go[n].entry # i
  <2> SUFFICES ASSUME NEW n \in 1 .. k - 1
               PROVE  /\ n \in DOMAIN letting_go
                      /\ letting_go[n].object # o
                      /\ letting_go[n].object \in Held
                      /\ letting_go[n].entry \in 1 .. SetSlots
                      /\ Sure(kept[letting_go[n].object]) => letting_go[n].entry # i
    OBVIOUS
  <2>1. n \in DOMAIN letting_go /\ k \in DOMAIN letting_go /\ n # k /\ n < k
    <3> HIDE DEF k
    <3>. QED
      BY <1>2
  <2>2. letting_go[n].object # o
    BY <2>1 DEF OneCallEach
  <2>3. letting_go[n].object \in Held /\ letting_go[n].entry \in 1 .. SetSlots
    BY <2>1, SetDataTyped
  <2>4. Sure(kept[letting_go[n].object]) => letting_go[n].entry # i
    BY <2>1 DEF CallsApart
  <2>. QED
    BY <2>1, <2>2, <2>3, <2>4
<1>6. \A u : Sure(u)' <=> Sure(u)
  BY <1>3 DEF Sure
<1>7. \A p \in Held : p # o => kept'[p] = kept[p]
  BY <1>3 DEF SetDataTypeOK
<1>8. kept'[o] = s /\ kept' \in [Held -> Setting]
  BY <1>3, <1>4 DEF SetDataTypeOK
<1>9. letting_go[k].object = o /\ letting_go[k].next = s /\ k \in DOMAIN letting_go
  BY <1>2
<1> HIDE DEF k, i, o, s
<1>10. /\ entries' \in [1 .. SetSlots -> Entry]
       /\ \A j \in 1 .. SetSlots : /\ entries'[j].new = entries[j].new
                                   /\ entries'[j].old = entries[j].old
                                   /\ entries'[j].object \in {entries[j].object, None}
       /\ \A j \in 1 .. SetSlots : j # i => entries'[j] = entries[j]
       /\ GivesBack(entries[i]) \/ entries' = entries
  <2>1. entries \in [1 .. SetSlots -> Entry] /\ entries[i] \in Entry
    BY <1>4 DEF SetDataTypeOK
  <2>2. CASE GivesBack(entries[i])
    BY <1>3, <1>4, <2>1, <2>2 DEF Entry
  <2>3. CASE ~ GivesBack(entries[i])
    BY <1>3, <2>1, <2>3
  <2>. QED
    BY <2>2, <2>3
<1>11. \A p \in Held : \A u : Keeps(p, u)' => Keeps(p, u)
  <2> SUFFICES ASSUME NEW p \in Held, NEW u, Keeps(p, u)'
               PROVE  Keeps(p, u)
    OBVIOUS
  <2>1. CASE u = kept'[p]
    BY <1>7, <1>8, <1>9, <2>1 DEF Keeps
  <2>2. CASE \E n \in DOMAIN letting_go' : letting_go'[n].object = p /\ letting_go'[n].next = u
    BY <1>2, <1>5, <2>2 DEF Keeps
  <2>. QED
    BY <2>1, <2>2 DEF Keeps
<1>12. \A p \in Held : \A u : Latest(p, u)' => Latest(p, u)
  <2> SUFFICES ASSUME NEW p \in Held, NEW u, Latest(p, u)'
               PROVE  Latest(p, u)
    OBVIOUS
  <2>1. CASE u = kept'[p] /\ \A n \in DOMAIN letting_go' : letting_go'[n].object # p
    <3>1. CASE p = o
      BY <1>8, <1>9, <2>1, <3>1 DEF Latest
    <3>2. CASE p # o
      <4>1. \A n \in DOMAIN letting_go : n = k \/ n \in 1 .. k - 1
        BY <1>2
      <4>2. \A n \in DOMAIN letting_go : letting_go[n].object # p
        BY <1>2, <1>9, <2>1, <3>2, <4>1
      <4>. QED
        BY <1>7, <2>1, <3>2, <4>2 DEF Latest
    <3>. QED
      BY <3>1, <3>2
  <2>2. CASE \E n \in DOMAIN letting_go' : letting_go'[n].object = p /\ letting_go'[n].next = u
    BY <1>2, <1>5, <2>2 DEF Latest
  <2>. QED
    BY <2>1, <2>2 DEF Latest
<1>13. SetDataTypeOK'
  BY <1>2, <1>3, <1>8, <1>10 DEF SetDataTypeOK, FreeCall
<1>14. RememberedWhole' /\ OneKeeper'
  BY <1>6, <1>10, <1>11 DEF RememberedWhole, OneKeeper
<1>15. LatestNotOld' /\ LatestInItsSlot'
  BY <1>6, <1>10, <1>12 DEF LatestNotOld, LatestInItsSlot
<1>16. LatestRemembered'
  <2> SUFFICES ASSUME NEW p \in Held \ unplaced', NEW u \in Setting, Latest(p, u)',
                      u.data # None, u.function # None
               PROVE  \E j \in 1 .. SetSlots :
                        /\ entries'[j].object = p /\ entries'[j].new = u
                        /\ \A m \in 1 .. SetSlots : m < j => entries'[m].object # p
    BY DEF LatestRemembered
  <2>1. Latest(p, u) /\ p \in Held \ unplaced /\ p # None
    BY <1>3, <1>12, SetDataAssumption
  <2>2. PICK j \in 1 .. SetSlots :
          /\ entries[j].object = p /\ entries[j].new = u
          /\ \A m \in 1 .. SetSlots : m < j => entries[m].object # p
    BY <2>1 DEF LatestRemembered
  <2>3. entries'[j] = entries[j]
    BY <1>10, <2>2 DEF GivesBack
  <2>. QED
    BY <1>10, <2>1, <2>2, <2>3
<1>17. CallsFreeData' /\ CallsHoldSlots' /\ CallsApart'
  <2>1. \A n \in 1 .. k - 1 :
          /\ letting_go'[n] = letting_go[n]
          /\ kept'[letting_go[n].object] = kept[letting_go[n].object]
    BY <1>2, <1>5, <1>7
  <2>2. CallsFreeData'
    BY <1>2, <1>5, <2>1 DEF CallsFreeData
  <2>3. CallsHoldSlots'
    BY <1>2, <1>3, <1>5, <1>10, <2>1 DEF CallsHoldSlots, Sure
  <2>4. CallsApart'
    BY <1>2, <1>3, <1>5, <2>1 DEF CallsApart, Sure
  <2>. QED
    BY <2>2, <2>3, <2>4
<1>18. OneCallEach'
  BY <1>2, <1>5 DEF OneCallEach
<1>19. ReplacedIsFreed'
  BY <1>3 DEF ReplacedIsFreed
<1>. QED
  BY <1>13, <1>14, <1>15, <1>16, <1>17, <1>18, <1>19

(* Every step keeps the invariant.                                         *)
LEMMA SetDataStepInv == SetDataInv /\ [SetDataNext]_setVars => SetDataInv'
<1> SUFFICES ASSUME SetDataInv, [SetDataNext]_setVars PROVE SetDataInv'
  OBVIOUS
<1>1. CASE SetDataNext
  BY <1>1, SetDataOfInv, FinaliseInv, FreeFunctionReturnsInv DEF SetDataNext
<1>2. CASE UNCHANGED setVars
  BY <1>2 DEF setVars, SetDataInv, SetDataTypeOK, Sure, RememberedWhole, OneKeeper, LatestNotOld,
              LatestInItsSlot, LatestRemembered, CallsFreeData, CallsHoldSlots, CallsApart,
              OneCallEach, ReplacedIsFreed, Keeps, Latest
<1>. QED
  BY <1>1, <1>2

(* The entry of the call, and the object's first one, are the right ones.  *)
LEMMA SetDataInvFrees == SetDataInv => SetIsFreed
<1> SUFFICES ASSUME SetDataInv PROVE SetIsFreed
  OBVIOUS
<1> USE DEF SetDataInv
<1>1. FreedAsSet
  BY DEF CallsFreeData, CallsHoldSlots, Sure, FreedAsSet, ToSet
<1>2. RemembersTheLast
  <2> SUFFICES ASSUME NEW o \in Held, o \notin LettingGoOf, o \notin unplaced,
                      kept[o].data # None, kept[o].function # None
               PROVE  LET own == FirstEntry({j \in 1 .. SetSlots : entries[j].object = o})
                      IN  own # NoEntry /\ entries[own].new = kept[o]
    BY DEF RemembersTheLast
  <2> DEFINE S == {j \in 1 .. SetSlots : entries[j].object = o}
  <2>1. Latest(o, kept[o]) /\ kept[o] \in Setting
    BY SetDataTyped DEF Latest
  <2>2. PICK i \in 1 .. SetSlots :
          /\ entries[i].object = o /\ entries[i].new = kept[o]
          /\ \A j \in 1 .. SetSlots : j < i => entries[j].object # o
    BY <2>1 DEF LatestRemembered
  <2>3. i \in S /\ S \in SUBSET (1 .. SetSlots) /\ \A j \in S : ~ (j < i)
    BY <2>2
  <2>4. FirstEntry(S) = i /\ FirstEntry(S) # NoEntry
    <3> HIDE DEF S
    <3>1. FirstEntry(S) \in S /\ FirstEntry(S) # NoEntry /\ \A j \in S : FirstEntry(S) <= j
      BY <2>3, FirstEntryIs
    <3>2. FirstEntry(S) \in 1 .. SetSlots /\ i \in 1 .. SetSlots /\ SetSlots \in Nat
      BY <2>3, <3>1, SetDataAssumption
    <3>3. FirstEntry(S) \in Int /\ i \in Int
      BY <3>2
    <3>4. FirstEntry(S) <= i /\ ~ (FirstEntry(S) < i)
      BY <2>3, <3>1
    <3>. QED
      BY <3>1, <3>3, <3>4
  <2>. QED
    BY <2>2, <2>4
<1>. QED
  BY <1>1, <1>2 DEF SetIsFreed

(* For any number of objects and entries: what dbus_watch_set_data and     *)
(* dbus_timeout_set_data set is remembered with its own free function, and *)
(* when other data replaces it that function runs for it.  The exceptions  *)
(* are named and recorded: data that found every slot another's, or whose  *)
(* object had an earlier slot become free, is not freed; and of a pointer  *)
(* that was set again while a slot or libdbus still had it the free        *)
(* function of the data before may run.  (Of an object that libdbus gives  *)
(* up nothing is claimed: its last data is not looked for.)                *)
THEOREM SetIsFreedAlways == SetDataSpec => [](SetDataTypeOK /\ SetIsFreed)
<1>1. SetDataInv => SetDataTypeOK /\ SetIsFreed
  BY SetDataInvFrees DEF SetDataInv
<1>. QED
  BY <1>1, SetDataInitInv, SetDataStepInv, PTL DEF SetDataSpec
-----------------------------------------------------------------------------
(* Events.                                                                 *)

MapEntry == [present : BOOLEAN, function : Release_to \cup {NoRelease}]
Running == [event : Event, good : BOOLEAN, called : Release_to]

\* A function that is found has an entry.
FunctionsPresent ==
    \A d \in Payload : event_map[d].function # NoRelease => event_map[d].present

(* Two events with the same data are known to share it.                    *)
SharedKnown ==
    /\ \A m, n \in DOMAIN in_flight :
        (m # n /\ in_flight[m].data = in_flight[n].data) => in_flight[n].data \in shared
    /\ \A m, n \in DOMAIN releasing :
        (m # n /\ releasing[m].event.data = releasing[n].event.data) =>
            releasing[n].event.data \in shared
    /\ \A m \in DOMAIN in_flight, n \in DOMAIN releasing :
        in_flight[m].data = releasing[n].event.data => in_flight[m].data \in shared

\* The entry that a running free function was found in is there until it
\* returns.
IteratorsGood ==
    \A n \in DOMAIN releasing :
        releasing[n].event.data \notin shared =>
            releasing[n].good /\ event_map[releasing[n].event.data].present

EventInv ==
    /\ EventTypeOK
    /\ erased_twice \in BOOLEAN
    /\ FunctionsPresent
    /\ SharedKnown
    /\ IteratorsGood
    /\ FreedByItsSender
    /\ EntriesAreOutstanding
    /\ ErasesWhatItFound

(* Nothing is sent, and the map is empty.                                  *)
LEMMA EventInitInv == EventInit => EventInv
<1> SUFFICES ASSUME EventInit PROVE EventInv
  OBVIOUS
<1>1. EventTypeOK
  BY DEF EventInit, EventTypeOK, NoEvent
<1>2. erased_twice \in BOOLEAN /\ FunctionsPresent
  BY DEF EventInit, FunctionsPresent, NoEvent
<1>3. SharedKnown /\ IteratorsGood /\ FreedByItsSender
  BY DEF EventInit, SharedKnown, IteratorsGood, FreedByItsSender
<1>4. EntriesAreOutstanding /\ ErasesWhatItFound
  BY DEF EventInit, EntriesAreOutstanding, ErasesWhatItFound, NoEvent
<1>. QED
  BY <1>1, <1>2, <1>3, <1>4 DEF EventInv

(* The events CHRE has and the free functions in progress, with their      *)
(* data.                                                                   *)
LEMMA EventsTyped ==
  ASSUME EventTypeOK
  PROVE  /\ in_flight \in Seq(Event)
         /\ releasing \in Seq(Running)
         /\ Len(in_flight) \in Nat /\ DOMAIN in_flight = 1 .. Len(in_flight)
         /\ Len(releasing) \in Nat /\ DOMAIN releasing = 1 .. Len(releasing)
         /\ \A n \in DOMAIN in_flight : in_flight[n] \in Event /\ in_flight[n].data \in Payload
         /\ \A n \in DOMAIN releasing :
               releasing[n] \in Running /\ releasing[n].event.data \in Payload
<1>1. in_flight \in Seq(Event) /\ releasing \in Seq(Running)
  BY DEF EventTypeOK, Running
<1>2. /\ Len(in_flight) \in Nat /\ DOMAIN in_flight = 1 .. Len(in_flight)
      /\ Len(releasing) \in Nat /\ DOMAIN releasing = 1 .. Len(releasing)
  BY <1>1, LenProperties
<1>3. /\ \A n \in DOMAIN in_flight : in_flight[n] \in Event
      /\ \A n \in DOMAIN releasing : releasing[n] \in Running
  BY <1>1, <1>2, ElementOfSeq
<1>. QED
  BY <1>1, <1>2, <1>3 DEF Event, Running

(* Data is in use while CHRE has an event with it or a free function for   *)
(* one runs.                                                               *)
LEMMA OutstandingAt ==
  ASSUME NEW d
  PROVE  InUse(d) <=> \/ \E n \in DOMAIN in_flight : in_flight[n].data = d
                      \/ \E n \in DOMAIN releasing : releasing[n].event.data = d
BY DEF InUse, Outstanding, ToSet

(* Sending data that is in use makes it shared; data that is not shared    *)
(* was not in use.                                                         *)
LEMMA MarkSharedMarks ==
  ASSUME EventTypeOK, NEW d \in Payload, MarkShared(d)
  PROVE  /\ shared' \subseteq Payload
         /\ shared \subseteq shared'
         /\ \A e : e # d /\ e \in shared' => e \in shared
         /\ d \notin shared' =>
              /\ \A n \in DOMAIN in_flight : in_flight[n].data # d
              /\ \A n \in DOMAIN releasing : releasing[n].event.data # d
BY OutstandingAt DEF MarkShared, EventTypeOK

(* Storing a free function changes the entry of its data only.             *)
LEMMA MappedMaps ==
  ASSUME EventTypeOK, NEW ev \in Event
  PROVE  /\ Mapped(ev) \in [Payload -> MapEntry]
         /\ Mapped(ev)[ev.data] = [present |-> TRUE, function |-> ev.function]
         /\ \A d \in Payload : d # ev.data => Mapped(ev)[d] = event_map[d]
BY DEF Mapped, EventTypeOK, MapEntry, Event

(* What freeFunc leaves until the application's function returns.          *)
LEMMA FreeFuncRuns ==
  ASSUME NEW map \in [Payload -> MapEntry], NEW ev \in Event, EventTypeOK,
         FreeFuncBegins(map, ev)
  PROVE  \/ /\ map[ev.data].function = NoRelease
            /\ releasing' = releasing
         \/ /\ map[ev.data].function \in Release_to
            /\ releasing' \in Seq(Running)
            /\ DOMAIN releasing' = 1 .. Len(releasing) + 1
            /\ Len(releasing) \in Nat
            /\ DOMAIN releasing = 1 .. Len(releasing)
            /\ \A n \in 1 .. Len(releasing) : releasing'[n] = releasing[n]
            /\ releasing'[Len(releasing) + 1] =
                  [event |-> ev, good |-> TRUE, called |-> map[ev.data].function]
<1> DEFINE r == [event |-> ev, good |-> TRUE, called |-> map[ev.data].function]
<1>1. CASE map[ev.data].function = NoRelease
  BY <1>1 DEF FreeFuncBegins
<1>2. CASE map[ev.data].function # NoRelease
  <2>1. map[ev.data].function \in Release_to
    BY <1>2 DEF MapEntry, Event
  <2>2. r \in Running
    BY <2>1 DEF Running
  <2>3. releasing \in Seq(Running)
    BY DEF EventTypeOK, Running
  <2>4. releasing' = Append(releasing, r)
    BY <1>2 DEF FreeFuncBegins
  <2> HIDE DEF r
  <2>5. /\ releasing' \in Seq(Running)
        /\ Len(releasing') = Len(releasing) + 1
        /\ \A n \in 1 .. Len(releasing) : releasing'[n] = releasing[n]
        /\ releasing'[Len(releasing) + 1] = r
    BY <2>2, <2>3, <2>4, AppendProperties
  <2>6. DOMAIN releasing' = 1 .. Len(releasing')
    BY <2>5, LenProperties
  <2>7. Len(releasing) \in Nat /\ DOMAIN releasing = 1 .. Len(releasing)
    BY <2>3, LenProperties
  <2>. QED
    BY <2>1, <2>5, <2>6, <2>7 DEF r
<1>. QED
  BY <1>1, <1>2

(* chreSendEvent stores the free function under the data of the event      *)
(* before CHRE has the event.                                              *)
LEMMA SendAcceptedInv ==
  ASSUME EventInv, NEW ev \in Event, SendAccepted(ev), ~ erased_twice
  PROVE  EventInv'
<1> USE DEF EventInv
<1>1. /\ event_map' \in [Payload -> MapEntry]
      /\ event_map'[ev.data] = [present |-> TRUE, function |-> ev.function]
      /\ \A d \in Payload : d # ev.data => event_map'[d] = event_map[d]
  BY MappedMaps DEF SendAccepted
<1>2. /\ ev.data \in Payload
      /\ in_flight \in Seq(Event)
      /\ releasing \in Seq(Running)
  BY DEF EventTypeOK, Event, Running
<1> DEFINE k == Len(in_flight)
<1>3. /\ k \in Nat
      /\ DOMAIN in_flight = 1 .. k
      /\ DOMAIN in_flight' = 1 .. k + 1
      /\ in_flight' \in Seq(Event)
      /\ \A n \in 1 .. k : in_flight'[n] = in_flight[n]
      /\ in_flight'[k + 1] = ev
  BY <1>2, AppendProperties, LenProperties DEF SendAccepted
<1> HIDE DEF k
<1>4. /\ shared' \subseteq Payload
      /\ shared \subseteq shared'
      /\ ev.data \notin shared' =>
           /\ \A n \in DOMAIN in_flight : in_flight[n].data # ev.data
           /\ \A n \in DOMAIN releasing : releasing[n].event.data # ev.data
  BY <1>2, MarkSharedMarks DEF SendAccepted
<1>5. releasing' = releasing /\ erased_twice' = erased_twice
  BY DEF SendAccepted
<1>6. /\ \A n \in 1 .. k : in_flight[n].data \in Payload
      /\ \A n \in DOMAIN releasing : releasing[n].event.data \in Payload
  BY <1>3, EventsTyped
<1>7. EventTypeOK' /\ erased_twice' \in BOOLEAN
  BY <1>1, <1>3, <1>4, <1>5 DEF EventTypeOK, MapEntry
<1>8. FunctionsPresent'
  BY <1>1 DEF FunctionsPresent
<1>9. SharedKnown'
  BY <1>3, <1>4, <1>5 DEF SharedKnown
<1>10. IteratorsGood'
  BY <1>1, <1>4, <1>5, <1>6 DEF IteratorsGood
<1>11. FreedByItsSender'
  BY <1>1, <1>3, <1>4, <1>5, <1>6 DEF FreedByItsSender
<1>12. EntriesAreOutstanding'
  <2> SUFFICES ASSUME NEW d \in Payload, event_map'[d].function # NoRelease
               PROVE  \/ \E n \in DOMAIN in_flight' : in_flight'[n].data = d
                      \/ \E n \in DOMAIN releasing' : releasing'[n].event.data = d
    BY DEF EntriesAreOutstanding, Outstanding, ToSet
  <2>1. CASE d = ev.data
    BY <1>3, <2>1
  <2>2. CASE d # ev.data
    <3>1. InUse(d)
      BY <1>1, <2>2 DEF EntriesAreOutstanding, InUse
    <3>. QED
      BY <1>3, <1>5, <3>1, OutstandingAt
  <2>. QED
    BY <2>1, <2>2
<1>13. ErasesWhatItFound'
  BY <1>5 DEF ErasesWhatItFound
<1>. QED
  BY <1>7, <1>8, <1>9, <1>10, <1>11, <1>12, <1>13

(* CHRE refuses an event: its free function is called from inside the      *)
(* send, and the entry just stored is the one it finds.                    *)
LEMMA SendRefusedInv ==
  ASSUME EventInv, NEW ev \in Event, SendRefused(ev), ~ erased_twice
  PROVE  EventInv'
<1> USE DEF EventInv
<1>1. /\ event_map' \in [Payload -> MapEntry]
      /\ event_map'[ev.data] = [present |-> TRUE, function |-> ev.function]
      /\ \A d \in Payload : d # ev.data => event_map'[d] = event_map[d]
  BY MappedMaps DEF SendRefused
<1>2. /\ ev.data \in Payload
      /\ in_flight \in Seq(Event)
      /\ releasing \in Seq(Running)
  BY DEF EventTypeOK, Event, Running
<1>3. FreeFuncBegins(event_map', ev)
  BY DEF SendRefused
<1>4. /\ shared' \subseteq Payload
      /\ shared \subseteq shared'
      /\ ev.data \notin shared' =>
           /\ \A n \in DOMAIN in_flight : in_flight[n].data # ev.data
           /\ \A n \in DOMAIN releasing : releasing[n].event.data # ev.data
  BY <1>2, MarkSharedMarks DEF SendRefused
<1>5. in_flight' = in_flight /\ erased_twice' = erased_twice
  BY DEF SendRefused
<1>6. /\ \A n \in DOMAIN in_flight : in_flight[n].data \in Payload
      /\ \A n \in DOMAIN releasing : releasing[n].event.data \in Payload
  BY EventsTyped
<1> DEFINE k == Len(releasing)
<1>7. \/ /\ event_map'[ev.data].function = NoRelease
         /\ releasing' = releasing
      \/ /\ event_map'[ev.data].function \in Release_to
         /\ releasing' \in Seq(Running)
         /\ DOMAIN releasing' = 1 .. k + 1
         /\ k \in Nat
         /\ DOMAIN releasing = 1 .. k
         /\ \A n \in 1 .. k : releasing'[n] = releasing[n]
         /\ releasing'[k + 1] =
               [event |-> ev, good |-> TRUE, called |-> event_map'[ev.data].function]
  BY <1>1, <1>3, FreeFuncRuns
<1> HIDE DEF k
<1>8. EventTypeOK' /\ erased_twice' \in BOOLEAN
  <2>1. releasing' \in Seq(Running)
    BY <1>2, <1>7
  <2>. QED
    BY <1>1, <1>2, <1>4, <1>5, <2>1 DEF EventTypeOK, MapEntry, Running
<1>9. FunctionsPresent'
  BY <1>1 DEF FunctionsPresent
<1>10. ASSUME releasing' # releasing
       PROVE  /\ k \in Nat
              /\ DOMAIN releasing = 1 .. k
              /\ \A n \in DOMAIN releasing' :
                    \/ n \in DOMAIN releasing /\ releasing'[n] = releasing[n]
                    \/ /\ n = k + 1
                       /\ releasing'[n].event = ev
                       /\ releasing'[n].good
                       /\ releasing'[n].called = ev.function
  <2>1. /\ k \in Nat
        /\ DOMAIN releasing = 1 .. k
        /\ DOMAIN releasing' = 1 .. k + 1
        /\ \A n \in 1 .. k : releasing'[n] = releasing[n]
        /\ releasing'[k + 1] =
               [event |-> ev, good |-> TRUE, called |-> event_map'[ev.data].function]
    BY <1>7, <1>10
  <2>2. /\ releasing'[k + 1].event = ev
        /\ releasing'[k + 1].good
        /\ releasing'[k + 1].called = ev.function
    BY <1>1, <2>1
  <2>3. \A n \in 1 .. k + 1 : n \in 1 .. k \/ n = k + 1
    BY <2>1
  <2>. QED
    BY <2>1, <2>2, <2>3
<1>11. SharedKnown'
  <2>1. CASE releasing' = releasing
    BY <1>4, <1>5, <2>1 DEF SharedKnown
  <2>2. CASE releasing' # releasing
    BY <1>4, <1>5, <1>10, <2>2 DEF SharedKnown
  <2>. QED
    BY <2>1, <2>2
<1>12. IteratorsGood' /\ FreedByItsSender'
  <2>1. CASE releasing' = releasing
    BY <1>1, <1>4, <1>5, <1>6, <2>1 DEF IteratorsGood, FreedByItsSender
  <2>2. CASE releasing' # releasing
    BY <1>1, <1>4, <1>5, <1>6, <1>10, <2>2 DEF IteratorsGood, FreedByItsSender
  <2>. QED
    BY <2>1, <2>2
<1>13. EntriesAreOutstanding'
  <2> SUFFICES ASSUME NEW d \in Payload, event_map'[d].function # NoRelease
               PROVE  \/ \E n \in DOMAIN in_flight' : in_flight'[n].data = d
                      \/ \E n \in DOMAIN releasing' : releasing'[n].event.data = d
    BY DEF EntriesAreOutstanding, Outstanding, ToSet
  <2>1. CASE d = ev.data
    BY <1>7, <2>1
  <2>2. CASE d # ev.data
    <3>1. InUse(d)
      BY <1>1, <2>2 DEF EntriesAreOutstanding, InUse
    <3>. QED
      BY <1>5, <1>7, <3>1, OutstandingAt
  <2>. QED
    BY <2>1, <2>2
<1>14. ErasesWhatItFound'
  BY <1>5 DEF ErasesWhatItFound
<1>. QED
  BY <1>8, <1>9, <1>10, <1>11, <1>12, <1>13, <1>14

(* CHRE has done with an event: freeFunc finds the function of that event, *)
(* unless its data is shared.                                              *)
LEMMA ChreDoneInv ==
  ASSUME EventInv, NEW k \in DOMAIN in_flight, ChreDone(k), ~ erased_twice
  PROVE  EventInv'
<1> USE DEF EventInv
<1>1. /\ in_flight \in Seq(Event)
      /\ releasing = <<>>
      /\ event_map \in [Payload -> MapEntry]
  BY DEF EventTypeOK, MapEntry, ChreDone
<1>2. Len(in_flight) \in Nat /\ DOMAIN in_flight = 1 .. Len(in_flight)
  BY <1>1, LenProperties
<1> DEFINE ev == in_flight[k]
           at(j) == IF j < k THEN j ELSE j + 1
<1>3. /\ in_flight' \in Seq(Event)
      /\ DOMAIN in_flight' = 1 .. Len(in_flight) - 1
      /\ \A j \in 1 .. Len(in_flight) - 1 : in_flight'[j] = in_flight[at(j)]
  <2>1. /\ in_flight' \in Seq(Event)
        /\ Len(in_flight') = Len(in_flight) - 1
        /\ \A j \in 1 .. Len(in_flight) - 1 :
               in_flight'[j] = IF j < k THEN in_flight[j] ELSE in_flight[j + 1]
    BY <1>1, <1>2, RemoveAtElements DEF ChreDone
  <2>. QED
    BY <2>1, LenProperties
<1>4. /\ \A i, j \in DOMAIN in_flight' : i # j => at(i) # at(j)
      /\ \A j \in DOMAIN in_flight' : at(j) \in DOMAIN in_flight /\ at(j) # k
  BY <1>2, <1>3
<1>5. \A i \in DOMAIN in_flight : i # k => \E j \in DOMAIN in_flight' : at(j) = i
  <2> SUFFICES ASSUME NEW i \in DOMAIN in_flight, i # k
               PROVE  \E j \in 1 .. Len(in_flight) - 1 : at(j) = i
    BY <1>3
  <2>1. CASE i < k
    BY <1>2, <2>1
  <2>2. CASE i > k
    <3>1. i - 1 \in 1 .. Len(in_flight) - 1 /\ at(i - 1) = i
      BY <1>2, <2>2
    <3>. QED
      BY <3>1
  <2>. QED
    BY <1>2, <2>1, <2>2
<1>6. \A j \in DOMAIN in_flight' : in_flight'[j] = in_flight[at(j)]
  BY <1>3
<1> HIDE DEF at
<1>7. event_map' = event_map /\ shared' = shared /\ erased_twice' = erased_twice
  BY DEF ChreDone
<1>8. ev \in Event /\ FreeFuncBegins(event_map, ev)
  BY <1>1, <1>2 DEF ChreDone
<1>9. \/ /\ event_map[ev.data].function = NoRelease
         /\ releasing' = <<>>
      \/ /\ event_map[ev.data].function \in Release_to
         /\ releasing' \in Seq(Running)
         /\ DOMAIN releasing' = {1}
         /\ releasing'[1] =
               [event |-> ev, good |-> TRUE, called |-> event_map[ev.data].function]
  BY <1>1, <1>8, FreeFuncRuns
<1>10. ev.data \in Payload /\ \A j \in DOMAIN in_flight : in_flight[j].data \in Payload
  BY EventsTyped
<1>11. EventTypeOK' /\ erased_twice' \in BOOLEAN
  <2>1. releasing' \in Seq(Running)
    BY <1>9, EmptySeq
  <2>. QED
    BY <1>3, <1>7, <2>1 DEF EventTypeOK, Running
<1>12. FunctionsPresent'
  BY <1>7 DEF FunctionsPresent
<1>13. SharedKnown'
  <2>1. \A m, n \in DOMAIN in_flight' :
          (m # n /\ in_flight'[m].data = in_flight'[n].data) => in_flight'[n].data \in shared'
    BY <1>4, <1>6, <1>7 DEF SharedKnown
  <2>2. \A m, n \in DOMAIN releasing' : m = n
    BY <1>9
  <2>3. \A m \in DOMAIN in_flight', n \in DOMAIN releasing' :
          in_flight'[m].data = releasing'[n].event.data => in_flight'[m].data \in shared'
    BY <1>4, <1>6, <1>7, <1>9 DEF SharedKnown
  <2>. QED
    BY <2>1, <2>2, <2>3 DEF SharedKnown
<1> USE <1>10
<1>14. IteratorsGood'
  BY <1>7, <1>9, EventsAssumption DEF IteratorsGood, FunctionsPresent
<1>15. FreedByItsSender'
  BY <1>4, <1>6, <1>7, <1>9 DEF FreedByItsSender
<1>16. EntriesAreOutstanding'
  <2> SUFFICES ASSUME NEW d \in Payload, event_map'[d].function # NoRelease
               PROVE  \/ \E n \in DOMAIN in_flight' : in_flight'[n].data = d
                      \/ \E n \in DOMAIN releasing' : releasing'[n].event.data = d
    BY DEF EntriesAreOutstanding, Outstanding, ToSet
  <2>1. CASE d = ev.data
    BY <1>7, <1>9, <2>1
  <2>2. CASE d # ev.data
    <3>1. InUse(d)
      BY <1>7 DEF EntriesAreOutstanding, InUse
    <3>2. PICK i \in DOMAIN in_flight : in_flight[i].data = d
      BY <1>1, <3>1, OutstandingAt
    <3>. QED
      BY <1>5, <1>6, <2>2, <3>2
  <2>. QED
    BY <2>1, <2>2
<1>17. ErasesWhatItFound'
  BY <1>7 DEF ErasesWhatItFound
<1>. QED
  BY <1>11, <1>12, <1>13, <1>14, <1>15, <1>16, <1>17

(* freeFunc erases the entry when the function has returned: where the     *)
(* data is not shared the entry is still the one that was found.           *)
LEMMA FreeFuncReturnsInv ==
  ASSUME EventInv, FreeFuncReturns, ~ erased_twice
  PROVE  EventInv'
<1> USE DEF EventInv
<1> DEFINE k == Len(releasing)
           d == releasing[k].event.data
<1>1. releasing \in Seq(Running) /\ in_flight \in Seq(Event)
  BY DEF EventTypeOK, Running
<1>2. k \in Nat \ {0} /\ DOMAIN releasing = 1 .. k
  BY <1>1, LenProperties, EmptySeq DEF FreeFuncReturns
<1>3. /\ d \in Payload
      /\ releasing[k] \in Running
      /\ \A n \in DOMAIN releasing : releasing[n] \in Running
  BY <1>2, EventsTyped
<1>4. /\ event_map' \in [Payload -> MapEntry]
      /\ event_map'[d] = NoEvent
      /\ \A e \in Payload : e # d => event_map'[e] = event_map[e]
  BY <1>3 DEF FreeFuncReturns, Erased, Last, EventTypeOK, MapEntry, NoEvent
<1>5. releasing' = [n \in 1 .. k - 1 |->
          [releasing[n] EXCEPT
              !.good = @ /\ event_map'[releasing[n].event.data].present]]
  BY DEF FreeFuncReturns
<1>6. /\ erased_twice' = ~ releasing[k].good
      /\ in_flight' = in_flight
      /\ shared' = shared
  BY DEF FreeFuncReturns, Last
<1> HIDE DEF k, d
<1>7. /\ DOMAIN releasing' = 1 .. k - 1
      /\ \A n \in 1 .. k - 1 :
           /\ releasing'[n] \in Running
           /\ releasing'[n].event = releasing[n].event
           /\ releasing'[n].called = releasing[n].called
           /\ releasing'[n].good =
                (releasing[n].good /\ event_map'[releasing[n].event.data].present)
  <2> SUFFICES ASSUME NEW n \in 1 .. k - 1
               PROVE  /\ releasing'[n] \in Running
                      /\ releasing'[n].event = releasing[n].event
                      /\ releasing'[n].called = releasing[n].called
                      /\ releasing'[n].good =
                            (releasing[n].good /\ event_map'[releasing[n].event.data].present)
    BY <1>5
  <2>1. releasing[n] \in Running
    BY <1>2, <1>3
  <2>2. releasing'[n] = [releasing[n] EXCEPT
              !.good = releasing[n].good /\ event_map'[releasing[n].event.data].present]
    BY <1>5
  <2>. QED
    BY <2>1, <2>2 DEF Running
<1>8. releasing' \in Seq(Running)
  <2>1. releasing' \in [1 .. k - 1 -> Running]
    BY <1>5, <1>7
  <2>2. k - 1 \in Nat
    BY <1>2
  <2>. QED
    BY <2>1, <2>2, SeqDef
<1>9. EventTypeOK' /\ erased_twice' \in BOOLEAN
  BY <1>1, <1>3, <1>4, <1>6, <1>8 DEF EventTypeOK, MapEntry, Running
<1>10. FunctionsPresent'
  BY <1>4 DEF FunctionsPresent, NoEvent
<1>11. SharedKnown'
  BY <1>2, <1>6, <1>7 DEF SharedKnown
<1>12. \A n \in 1 .. k - 1 : releasing[n].event.data \notin shared =>
                               releasing[n].event.data # d
  BY <1>2 DEF SharedKnown, d
<1>13. \A n \in DOMAIN in_flight : in_flight[n].data \notin shared => in_flight[n].data # d
  BY <1>2 DEF SharedKnown, d
<1>14. \A n \in 1 .. k - 1 : releasing[n].event.data \in Payload
  BY <1>2, EventsTyped
<1>15. IteratorsGood'
  <2> SUFFICES ASSUME NEW n \in 1 .. k - 1, releasing[n].event.data \notin shared
               PROVE  /\ releasing'[n].good
                      /\ event_map'[releasing'[n].event.data].present
    BY <1>6, <1>7 DEF IteratorsGood
  <2>1. releasing[n].good /\ event_map[releasing[n].event.data].present
    BY <1>2 DEF IteratorsGood
  <2>2. event_map'[releasing[n].event.data].present
    BY <1>4, <1>12, <1>14, <2>1
  <2>. QED
    BY <1>7, <2>1, <2>2
<1>16. FreedByItsSender'
  <2>1. \A n \in DOMAIN in_flight : in_flight[n].data \in Payload
    BY EventsTyped
  <2>. QED
    BY <1>2, <1>4, <1>6, <1>7, <1>13, <2>1 DEF FreedByItsSender
<1>17. EntriesAreOutstanding'
  <2> SUFFICES ASSUME NEW e \in Payload, event_map'[e].function # NoRelease
               PROVE  \/ \E n \in DOMAIN in_flight' : in_flight'[n].data = e
                      \/ \E n \in DOMAIN releasing' : releasing'[n].event.data = e
    BY DEF EntriesAreOutstanding, Outstanding, ToSet
  <2>1. e # d
    BY <1>4 DEF NoEvent
  <2>2. InUse(e)
    BY <1>4, <2>1 DEF EntriesAreOutstanding, InUse
  <2>3. \A n \in DOMAIN releasing : n # k => n \in DOMAIN releasing'
    BY <1>2, <1>7
  <2>. QED
    BY <1>6, <1>7, <2>1, <2>2, <2>3, OutstandingAt DEF d
<1>18. ErasesWhatItFound'
  BY <1>2, <1>6 DEF ErasesWhatItFound, IteratorsGood
<1>. QED
  BY <1>9, <1>10, <1>11, <1>15, <1>16, <1>17, <1>18

(* Every step keeps the invariant.                                         *)
LEMMA EventStepInv == EventInv /\ [EventNext]_eventVars => EventInv'
<1> SUFFICES ASSUME EventInv, [EventNext]_eventVars PROVE EventInv'
  OBVIOUS
<1>1. CASE EventNext
  BY <1>1, SendAcceptedInv, SendRefusedInv, ChreDoneInv, FreeFuncReturnsInv DEF EventNext
<1>2. CASE UNCHANGED eventVars
  BY <1>2 DEF eventVars, EventInv, EventTypeOK, FunctionsPresent, SharedKnown, IteratorsGood,
              FreedByItsSender, EntriesAreOutstanding, Outstanding, ErasesWhatItFound
<1>. QED
  BY <1>1, <1>2

(* freeFunc calls the function that was sent with the event, and erases    *)
(* the entry it has found, whatever is sent, refused and freed while the   *)
(* function runs and for any number of events; except for data that was    *)
(* sent again before its free function had returned.                       *)
THEOREM EventsKeepTheirEntryAlways ==
  EventSpec => [](EventTypeOK /\ EventsKeepTheirEntry)
<1>1. EventInv => EventTypeOK /\ EventsKeepTheirEntry
  BY DEF EventInv, EventsKeepTheirEntry
<1>. QED
  BY <1>1, EventInitInv, EventStepInv, PTL DEF EventSpec

(* An entry of eventDataMap with a function is that of an event which CHRE *)
(* has or is freeing: nothing but events without a free function makes the *)
(* map grow.                                                               *)
THEOREM EntriesStayOutstanding == EventSpec => []EntriesAreOutstanding
<1>1. EventInv => EntriesAreOutstanding
  BY DEF EventInv
<1>. QED
  BY <1>1, EventInitInv, EventStepInv, PTL DEF EventSpec

-----------------------------------------------------------------------------
(* Registrations, data and events together, as they are run.                *)

(* The parts share no state: a step of one is none of the others.          *)
LEMMA PartsRest ==
  /\ CallbacksInit => Init /\ SetDataInit /\ EventInit
  /\ [CallbacksNext]_<<uses, vars, setVars, eventVars>> =>
       [Next]_vars /\ [SetDataNext]_setVars /\ [EventNext]_eventVars
BY DEF CallbacksInit, CallbacksNext, OnlyUses

(* The tables of dbus.c and event_wrapper.cc, the calls in progress and    *)
(* what the libraries hold keep their types: no loop leaves a table by its *)
(* end, of whatever size, and a free function that runs is one.            *)
THEOREM CallbacksTypeCorrect == CallbacksSpec => []CallbacksTypeOK
<1> DEFINE Inv == DbusInv /\ SetDataInv /\ EventInv
<1>1. CallbacksInit => Inv
  BY PartsRest, DbusInitInv, SetDataInitInv, EventInitInv
<1>2. Inv /\ [CallbacksNext]_<<uses, vars, setVars, eventVars>> => Inv'
  BY PartsRest, DbusStepInv, SetDataStepInv, EventStepInv
<1>3. Inv => CallbacksTypeOK
  BY DEF DbusInv, SetDataInv, EventInv, CallbacksTypeOK
<1>. QED
  BY <1>1, <1>2, <1>3, PTL DEF CallbacksSpec
=============================================================================
