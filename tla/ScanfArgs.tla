------------------------------ MODULE ScanfArgs ------------------------------
(***************************************************************************)
(* The scanf family in the glue that tools/mkwamrglue.py writes.  The      *)
(* arguments are addresses, in a block of 32-bit words; scanf_begin makes  *)
(* them native and scanf_end makes them the application's again.  Neither  *)
(* knows their number: both walk to the first word that is zero, and what  *)
(* lies behind the block are the application's own variables.              *)
(***************************************************************************)
EXTENDS Integers, Sequences, FiniteSets

CONSTANT ScanWords      \* the words from the block on; then comes a zero

ASSUME ScanAssumption == ScanWords \in Nat \ {0}

(* With WAMR's bounds checks off a conversion adds or subtracts the base of *)
(* linear memory, modulo 2^32.  A word is a number of the application's and *)
(* the bases that have been added to it: it is 0 when the number is, or    *)
(* when one base makes it so.                                              *)
Number == {"zero", "minus base", "other"}
ScanWord == [number : Number, native_by : Int]

Word(number) == [number |-> number, native_by |-> 0]
IsZero(w) ==
    \/ w.number = "zero" /\ w.native_by = 0
    \/ w.number = "minus base" /\ w.native_by = 1

VARIABLES scan_args,    \* how many words are arguments
          targets,      \* the words behind them that these point to
          scan_words,   \* memory
          scanned,      \* history: what scanf stored, by word
          scan_step     \* where the call is

scanVars == <<scan_args, targets, scan_words, scanned, scan_step>>

Behind == scan_args + 1 .. ScanWords

ScanInit ==
    /\ scan_args \in 1 .. ScanWords
    /\ targets \in {T \in SUBSET Behind : Cardinality(T) <= scan_args}
    /\ \E rest \in [Behind -> Number] :
        scan_words = [i \in 1 .. ScanWords |->
            Word(IF i <= scan_args THEN "other" ELSE rest[i])]
    /\ scanned = << >>
    /\ scan_step = "called"

(* addr_app_to_native and addr_native_to_app.                              *)
WordToNative(w) == [w EXCEPT !.native_by = @ + 1]
WordToApp(w) == [w EXCEPT !.native_by = @ - 1]

(* The words up to the first zero.                                         *)
Walked == {i \in 1 .. ScanWords : \A j \in 1 .. i : ~ IsZero(scan_words[j])}

Rewritten(side) ==
    [i \in 1 .. ScanWords |->
        CASE i \in Walked /\ side = "native" -> WordToNative(scan_words[i])
          [] i \in Walked /\ side = "app" -> WordToApp(scan_words[i])
          [] OTHER -> scan_words[i]]

ScanfBegin ==
    /\ scan_step = "called"
    /\ scan_words' = Rewritten("native")
    /\ scan_step' = "native"
    /\ UNCHANGED <<scan_args, targets, scanned>>

(* scanf stores numbers through its arguments, in those it comes to.       *)
ScanfStores ==
    /\ scan_step = "native"
    /\ \E T \in SUBSET targets : \E v \in [T -> Number] :
        /\ scanned' = v
        /\ scan_words' = [i \in 1 .. ScanWords |->
               IF i \in T THEN Word(v[i]) ELSE scan_words[i]]
    /\ scan_step' = "stored"
    /\ UNCHANGED <<scan_args, targets>>

(* Bug: a walk that skips zeros instead of ending at one.                  *)
ScanfEndSkips ==
    /\ scan_step = "stored"
    /\ scan_words' = [i \in 1 .. ScanWords |->
           IF IsZero(scan_words[i]) THEN scan_words[i] ELSE WordToApp(scan_words[i])]
    /\ scan_step' = "returned"
    /\ UNCHANGED <<scan_args, targets, scanned>>

ScanfEnd ==
    /\ scan_step = "stored"
    /\ scan_words' = Rewritten("app")
    /\ scan_step' = "returned"
    /\ UNCHANGED <<scan_args, targets, scanned>>

ScanNext == ScanfBegin \/ ScanfStores \/ ScanfEnd

ScanSpec == ScanInit /\ [][ScanNext]_scanVars

----------------------------------------------------------------------------
(* Properties                                                              *)

(* scanf finds native addresses, whatever lies behind them.                *)
ScanfSeesNative ==
    scan_step = "native" => \A i \in 1 .. scan_args : scan_words[i].native_by = 1

(* What scanf stored is what the application reads afterwards, and its     *)
(* addresses are its own again, as long as a zero that scanf does not store *)
(* into stands between the arguments and the first variable.  (Otherwise   *)
(* the walk back takes the numbers for native addresses.)                  *)
StoredSurvives ==
    LET fence == \E z \in Behind \ targets :
            /\ IsZero(scan_words[z])
            /\ \A t \in targets : z < t
    IN  scan_step = "returned" /\ fence =>
            /\ \A i \in 1 .. scan_args : scan_words[i].native_by = 0
            /\ \A i \in DOMAIN scanned : scan_words[i] = Word(scanned[i])

(* scanf stores where the application told it to, and what it stores is    *)
(* what the application reads.                                             *)
ScanfStoresItsOwn == ScanfSeesNative /\ StoredSurvives
==============================================================================
