----------------------------- MODULE FormatArgs -----------------------------
(***************************************************************************)
(* Natives with a format and a variable argument list.  The compiler of    *)
(* the application lays the arguments out in a block of its linear memory; *)
(* the glue walks the format to know what the block holds.  There are two  *)
(* walks: va_list_string2conv turns the block's strings into native        *)
(* addresses for a native printf and back (libc_bypass.c, and the same     *)
(* text in dbus.c and dfx_wrapper.c), and _vprintf_wa prints the block     *)
(* itself for snprintf and sprintf.                                        *)
(*                                                                         *)
(* Positions in the block are counted in 32-bit words.  The block of a     *)
(* variadic call starts at a multiple of eight bytes; vasprintf gets what  *)
(* the application has left of one.  A character stands                    *)
(* for all those with the same case label: "0" for flags and digits, "w"   *)
(* for so many of them that the conversion does not fit temp_fmt, "z" for  *)
(* t and z, "d" for the conversions of an integer, "f" for those of a      *)
(* double, "x" for any character without a label.                          *)
(***************************************************************************)
EXTENDS Integers, SequencesExt

CONSTANTS Formats,      \* the formats passed, as sequences of directives
          Sizes,        \* the sizes given to snprintf
          Emit          \* how many characters one conversion may print

Modifier == {".", "0", "w", "h", "l", "z", "j"}

(* A directive and the arguments C takes for it: none for a character and  *)
(* for %%; for a conversion an int for each star, and what it converts.    *)
(* The letters of a length come last, one of them or one of h and l twice. *)
LongLong(chars) ==
    LET n == Len(chars)
    IN  \/ chars[n - 1] = "j"
        \/ chars[n - 1] = "l" /\ chars[n - 2] = "l"

ConvertedType(chars) ==
    CASE chars[Len(chars)] = "d" -> IF LongLong(chars) THEN "long long" ELSE "int"
      [] chars[Len(chars)] = "f" -> "double"
      [] chars[Len(chars)] = "s" -> "string"
      [] OTHER -> "pointer"

IsConversion(chars) ==
    LET n == Len(chars)
    IN  /\ n > 1 /\ chars[1] = "%" /\ chars[n] \in {"d", "f", "s", "n"}
        /\ \A i \in 2 .. n - 1 :
               /\ chars[i] \in Modifier \cup {"*"}
               /\ chars[i] \in {"h", "l", "z", "j"} =>
                     \/ i = n - 1
                     \/ i = n - 2 /\ chars[i] \in {"h", "l"} /\ chars[n - 1] = chars[i]

Directive ==
    {d \in [chars : Seq(Modifier \cup {"%", "d", "f", "s", "n", "*", "x"}),
            takes : Seq({"int", "long long", "double", "string", "pointer"})] :
        \/ d.takes = <<>> /\ Len(d.chars) = 1 /\ d.chars[1] # "%"
        \/ d.takes = <<>> /\ d.chars = <<"%", "%">>
        \/ /\ IsConversion(d.chars)
           /\ Len(d.takes) = Cardinality({i \in DOMAIN d.chars : d.chars[i] = "*"}) + 1
           /\ \A k \in DOMAIN d.takes :
                  d.takes[k] = IF k < Len(d.takes) THEN "int" ELSE ConvertedType(d.chars)}

ASSUME FormatAssumption ==
    /\ Formats \subseteq Seq(Directive)
    /\ Sizes \subseteq Nat
    /\ Emit \subseteq Nat

Converting == {"printf", "vasprintf", "sendEventMisightF", "dbus_set_error"}

(* sprintf is snprintf with a size that no output reaches.                 *)
Printing == {"snprintf", "sprintf"}

NoLimit == 1000

VARIABLES call,         \* the native that is called
          format,       \* its format
          start,        \* the first word of the block
          end,          \* the end of linear memory, a word short perhaps
          words,        \* what the block holds
          pc,           \* where the call is
          at,           \* _vprintf_wa: the next character
          might_format, long_ctr, spec_start,
          ap,           \* the next argument
          reads,        \* history: the words arguments were read from
          starved,      \* history: a conversion had no memory for its format
          ctx,          \* sprintf_out's buffer
          printed,      \* history: the characters given to sprintf_out
          result        \* what the application gets

input == <<call, format, start, end>>
walk == <<at, might_format, long_ctr, spec_start, ap, reads, starved>>
output == <<ctx, printed>>
formatVars == <<input, words, pc, walk, output, result>>

----------------------------------------------------------------------------
(* The block, as a C compiler for wasm32 lays it out.                      *)

Chars(f) == FlattenSeq([i \in DOMAIN f |-> f[i].chars])
Taken(f) == FlattenSeq([i \in DOMAIN f |-> f[i].takes])

Wide(type) == type \in {"long long", "double"}
SizeOf(type) == IF Wide(type) THEN 2 ELSE 1
Aligned(p) == p + (p % 2)

(* The first word of each argument of a format, for a block that starts at s. *)
Layout(f, s) ==
    LET place[k \in 1 .. Len(Taken(f)) + 1] ==
            LET p == IF k = 1 THEN s ELSE place[k - 1] + SizeOf(Taken(f)[k - 1])
            IN  IF k <= Len(Taken(f)) /\ Wide(Taken(f)[k]) THEN Aligned(p) ELSE p
    IN  place

BlockEnd(f, s) == Layout(f, s)[Len(Taken(f)) + 1]

StringWords(f, s) ==
    {Layout(f, s)[k] : k \in {j \in DOMAIN Taken(f) : Taken(f)[j] = "string"}}

(* A word is counted up when it becomes a native address and down when it  *)
(* becomes an address of the application: with WAMR's bounds checks off,   *)
(* as CONFIG_WASM_LIBC_BYPASS demands, these add and subtract the base of  *)
(* linear memory, whatever the word is.                                    *)
Block(f, s) == [p \in s .. BlockEnd(f, s) |-> 0]

AppToNative == 1
NativeToApp == -1

FormatInit ==
    /\ call \in Converting \cup Printing
    /\ format \in Formats
    /\ start \in {p \in {0, 1} : p = 1 => call = "vasprintf"}
    /\ end \in {p \in start .. BlockEnd(format, start) + 2 :
                    BlockEnd(format, start) - p \in {1, 0, -2}}
    /\ words = Block(format, start)
    /\ pc = "called"
    /\ at = 1 /\ might_format = FALSE /\ long_ctr = 0 /\ spec_start = 0
    /\ ap = start
    /\ reads = <<>> /\ starved = FALSE
    /\ printed = 0
    /\ \E max \in (IF call = "snprintf" THEN Sizes ELSE {NoLimit}) :
           ctx = [str |-> <<>>, max |-> max, count |-> 0]
    /\ result = "none"

----------------------------------------------------------------------------
(* va_list_string2conv: the walk that converts strings in place.           *)

(* Bug: an l is read like an h.                                            *)
LengthIgnoresL(c, long) ==
    CASE c = "z" -> 1
      [] c = "j" -> 2
      [] OTHER -> long

Length(c, long) ==
    CASE c = "z" -> 1
      [] c = "j" -> 2
      [] c = "l" -> long + 1
      [] OTHER -> long

String2convStep(by, s, c) ==
    CASE ~s.might -> [s EXCEPT !.might = (c = "%"), !.long = 0]
      [] s.might /\ c \in Modifier -> [s EXCEPT !.long = Length(c, @)]
      [] s.might /\ c = "d" ->
             [s EXCEPT !.might = FALSE, !.pos = @ + IF s.long < 2 THEN 1 ELSE 2]
      [] s.might /\ c = "f" -> [s EXCEPT !.might = FALSE, !.pos = @ + 2]
      [] s.might /\ c = "s" ->
             [s EXCEPT !.might = FALSE, !.pos = @ + 1, !.words[s.pos] = @ + by]
      [] OTHER -> [s EXCEPT !.might = FALSE]

LibcString2conv(by, chars, s, block) ==
    LET walked[k \in 0 .. Len(chars)] ==
            IF k = 0 THEN [might |-> FALSE, long |-> 0, pos |-> s, words |-> block]
            ELSE String2convStep(by, walked[k - 1], chars[k])
    IN  walked[Len(chars)].words

(* The copies of the same walk in the D-Bus and the DFX glue.              *)
DbusString2conv(by, chars, s, block) ==
    LibcString2conv(by, chars, s, block)

DfxString2conv(by, chars, s, block) ==
    LibcString2conv(by, chars, s, block)

String2conv(by) ==
    CASE call = "dbus_set_error" -> DbusString2conv(by, Chars(format), start, words)
      [] call = "sendEventMisightF" -> DfxString2conv(by, Chars(format), start, words)
      [] OTHER -> LibcString2conv(by, Chars(format), start, words)

----------------------------------------------------------------------------
(* The natives that convert and pass on.                                   *)

ToNative(calls) ==
    /\ pc = "called" /\ call \in calls
    /\ words' = String2conv(AppToNative)
    /\ pc' = "native"
    /\ UNCHANGED <<input, walk, output, result>>

(* The native function reads the block and returns.                        *)
NativeReturns ==
    /\ pc = "native"
    /\ pc' = "back"
    /\ UNCHANGED <<input, words, walk, output, result>>

ToApp(calls) ==
    /\ pc = "back" /\ call \in calls
    /\ words' = String2conv(NativeToApp)
    /\ pc' = "returned"
    /\ result' = "native"
    /\ UNCHANGED <<input, walk, output>>

Occurs(part, chars) ==
    \E i \in 1 .. Len(chars) : IsPrefix(part, SubSeq(chars, i, Len(chars)))

Printf ==
    \/ ~ Occurs(<<"%", ".", "*", "s">>, Chars(format)) /\ ToNative({"printf"})
    \/ /\ pc = "called" /\ call = "printf"
       /\ Occurs(<<"%", ".", "*", "s">>, Chars(format))
       /\ pc' = "returned"
       /\ result' = "0"
       /\ UNCHANGED <<input, words, walk, output>>
    \/ ToApp({"printf"})

(* The strings stay native.                                                *)
Vasprintf ==
    \/ ToNative({"vasprintf"})
    \/ /\ pc = "back" /\ call = "vasprintf"
       /\ pc' = "returned"
       /\ result' = "native"
       /\ UNCHANGED <<input, words, walk, output>>

SendEventMisightF == ToNative({"sendEventMisightF"}) \/ ToApp({"sendEventMisightF"})

DbusSetError == ToNative({"dbus_set_error"}) \/ ToApp({"dbus_set_error"})

----------------------------------------------------------------------------
(* sprintf_out, given n characters.  A character beyond the buffer is      *)
(* counted only; the last that would fit makes room for the terminator.    *)

(* Bug: no room is kept for the terminator.                                *)
OutUnterminated(c, n) ==
    LET put[k \in 0 .. n] ==
            IF k = 0 THEN c
            ELSE LET b == put[k - 1]
                 IN  IF b.count >= b.max THEN [b EXCEPT !.count = @ + 1]
                     ELSE [b EXCEPT !.str = Append(@, "c"), !.count = @ + 1]
    IN  put[n]

SprintfOut(c, n) ==
    LET put[k \in 0 .. n] ==
            IF k = 0 THEN c
            ELSE LET b == put[k - 1]
                 IN  IF b.count >= b.max THEN [b EXCEPT !.count = @ + 1]
                     ELSE [b EXCEPT !.str = Append(@, IF b.count = b.max - 1 THEN "0" ELSE "c"),
                                    !.count = @ + 1]
    IN  put[n]

Out(n) ==
    /\ ctx' = SprintfOut(ctx, n)
    /\ printed' = printed + n

PrintErr == Out(3)

----------------------------------------------------------------------------
(* _vprintf_wa, one character a step.                                      *)

Char == Chars(format)[at]

Fetch(c) ==
    /\ pc = "formatting"
    /\ at <= Len(Chars(format))
    /\ Char \in c
    /\ at' = at + 1
    /\ UNCHANGED <<input, words>>

Literal ==
    /\ ~ might_format
    /\ \/ /\ Fetch({"%"})
          /\ might_format' = TRUE /\ long_ctr' = 0 /\ spec_start' = at
          /\ UNCHANGED <<ctx, printed>>
       \/ /\ Fetch({Char}) /\ Char # "%"
          /\ Out(1)
          /\ UNCHANGED <<might_format, long_ctr, spec_start>>
    /\ UNCHANGED <<pc, ap, reads, starved, result>>

Modify ==
    /\ might_format
    /\ Fetch(Modifier)
    /\ long_ctr' = Length(Char, long_ctr)
    /\ UNCHANGED <<pc, might_format, spec_start, ap, reads, starved, output, result>>

(* A conversion starts with its directive copied to temp_fmt or, when that *)
(* is too small, to a buffer of its own.                                   *)
Conversion(c) ==
    /\ might_format
    /\ Fetch(c)
    /\ might_format' = FALSE
    /\ UNCHANGED <<long_ctr, spec_start>>

LongDirective == \E i \in spec_start .. at : Chars(format)[i] = "w"

PrepareTempFormatFails ==
    /\ Conversion({"d", "f", "s"})
    /\ LongDirective
    /\ PrintErr
    /\ starved' = TRUE
    /\ UNCHANGED <<pc, ap, reads, result>>

(* goto fail, and the return false for a string outside linear memory.     *)
Give0 ==
    /\ pc' = "returned"
    /\ result' = "0"
    /\ UNCHANGED <<ap, reads, starved, ctx, printed>>

CheckVaArg(p, size) == p + size > end /\ Give0

VaArg(p, size) ==
    /\ p + size <= end
    /\ ap' = p + size
    /\ reads' = Append(reads, p)

OutputTempFormat ==
    /\ \E n \in Emit : Out(n)
    /\ UNCHANGED <<pc, starved, result>>

(* Bug: no padding is skipped before a long long.                          *)
IntegerUnaligned ==
    /\ Conversion({"d"})
    /\ LET size == IF long_ctr < 2 THEN 1 ELSE 2
       IN  \/ CheckVaArg(ap, size)
           \/ VaArg(ap, size) /\ OutputTempFormat

Integer ==
    /\ Conversion({"d"})
    /\ LET size == IF long_ctr < 2 THEN 1 ELSE 2
           p == IF long_ctr < 2 THEN ap ELSE Aligned(ap)
       IN  \/ CheckVaArg(p, size)
           \/ VaArg(p, size) /\ OutputTempFormat

Double ==
    /\ Conversion({"f"})
    /\ \/ CheckVaArg(Aligned(ap), 2)
       \/ VaArg(Aligned(ap), 2) /\ OutputTempFormat

(* The string may be outside linear memory, too long, or too long for      *)
(* buf_tmp with no memory for another buffer.                              *)
String ==
    /\ Conversion({"s"})
    /\ \/ CheckVaArg(ap, 1)
       \/ ap + 1 <= end /\ Give0
       \/ /\ VaArg(ap, 1)
          /\ PrintErr
          /\ UNCHANGED <<pc, starved, result>>
       \/ VaArg(ap, 1) /\ OutputTempFormat

(* %% prints one, %n and its argument are skipped, others are printed.     *)
Other ==
    /\ Conversion({"%", "n", "*", "x"})
    /\ Out(CASE Char = "%" -> 1 [] Char = "n" -> 0 [] OTHER -> 2)
    /\ UNCHANGED <<pc, ap, reads, starved, result>>

VprintfWa ==
    \/ Literal
    \/ Modify
    \/ PrepareTempFormatFails
    \/ Integer
    \/ Double
    \/ String
    \/ Other

(* The block's first word must be in linear memory.                        *)
PrintBegins ==
    /\ pc = "called" /\ call \in Printing
    /\ \/ pc' = "formatting" /\ result' = result
       \/ pc' = "returned" /\ result' = "0"
    /\ UNCHANGED <<input, words, walk, output>>

PrintEnds ==
    /\ pc = "formatting" /\ at > Len(Chars(format))
    /\ ctx' = [ctx EXCEPT !.str = IF ctx.count < ctx.max THEN Append(@, "0") ELSE @]
    /\ pc' = "returned"
    /\ result' = "count"
    /\ UNCHANGED <<input, words, walk, printed>>

Snprintf == call = "snprintf" /\ (PrintBegins \/ PrintEnds)

Sprintf == call = "sprintf" /\ (PrintBegins \/ PrintEnds)

FormatNext ==
    \/ NativeReturns
    \/ Printf \/ Vasprintf \/ SendEventMisightF \/ DbusSetError
    \/ Snprintf \/ Sprintf
    \/ VprintfWa

FormatSpec == FormatInit /\ [][FormatNext]_formatVars

----------------------------------------------------------------------------
(* Properties                                                              *)

(* Every variable has its type; no walk leaves the block.                  *)
FormatTypeOK ==
    /\ words \in [start .. BlockEnd(format, start) -> Int]
    /\ pc \in {"called", "native", "back", "formatting", "returned"}
    /\ at \in 1 .. Len(Chars(format)) + 1
    /\ long_ctr \in Nat
    /\ ap \in start .. BlockEnd(format, start)
    /\ ctx.count \in Nat
    /\ result \in {"none", "0", "native", "count"}

(* Formats that the glue reads as C does.                                  *)
Understood(f) == \A i \in DOMAIN Chars(f) : Chars(f)[i] \notin {"*", "n"}

Gapless(f, s) ==
    LET n == Len(Taken(f))
    IN  /\ Layout(f, s)[1] = s
        /\ \A k \in 1 .. n - 1 :
               Layout(f, s)[k + 1] = Layout(f, s)[k] + SizeOf(Taken(f)[k])

StringsAreNative ==
    pc = "native" =>
        \A p \in DOMAIN words :
            words[p] = IF p \in StringWords(format, start) THEN 1 ELSE 0

(* va_list_string2conv converts the words that hold strings and no others, *)
(* whatever lengths and flags the format has, when no argument is moved *)
(* to a multiple of eight bytes.                                           *)
ConvertsTheStrings ==
    (Understood(format) /\ Gapless(format, start)) => StringsAreNative

(* "Make 8-byte aligned", says the other walk of the same block: so the    *)
(* strings behind a gap are converted too.  They are not.                  *)
ConvertsBehindGaps == Understood(format) => StringsAreNative

(* Whatever the first walk converts the second turns back, behind gaps     *)
(* too: the application's block is as it was when a native returns, except *)
(* after vasprintf, which leaves the strings native.                       *)
BlockRestored ==
    pc = "returned" /\ call # "vasprintf" => \A p \in DOMAIN words : words[p] = 0

(* The two walks of va_list_string2conv around a native function.          *)
StringsTurned == ConvertsTheStrings /\ BlockRestored

(* _vprintf_wa reads each argument where the compiler has put it, until a  *)
(* conversion that has no memory for its directive leaves its argument for *)
(* the next one.                                                           *)
ReadsItsArguments ==
    Understood(format) /\ ~ starved =>
        IsPrefix(reads, SubSeq(Layout(format, start), 1, Len(Taken(format))))

(* What snprintf leaves is C's: the output as far as it fits and one zero  *)
(* after it, nothing past the size, nothing at all for size 0; and the     *)
(* result counts the output in full.                                       *)
OutputFits ==
    result = "count" =>
        /\ IF printed < ctx.max
           THEN ctx.str = Append([i \in 1 .. printed |-> "c"], "0")
           ELSE ctx.str = [i \in 1 .. ctx.max |-> IF i = ctx.max THEN "0" ELSE "c"]
        /\ ctx.count = printed
=============================================================================
