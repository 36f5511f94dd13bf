---------------------------- MODULE MCFormatArgs ----------------------------
(* FormatArgs for TLC: up to three of these directives.                      *)
EXTENDS FormatArgs

Of(chars, takes) == [chars |-> chars, takes |-> takes]

Directives == {
    Of(<<"x">>, <<>>),
    Of(<<"%", "%">>, <<>>),
    Of(<<"%", "d">>, <<"int">>),
    Of(<<"%", "0", "l", "d">>, <<"int">>),
    Of(<<"%", "l", "l", "d">>, <<"long long">>),
    Of(<<"%", "f">>, <<"double">>),
    Of(<<"%", "s">>, <<"string">>),
    Of(<<"%", "w", "s">>, <<"string">>),
    Of(<<"%", ".", "*", "s">>, <<"int", "string">>),
    Of(<<"%", "n">>, <<"pointer">>)}

(* Two directives of any kind and three of those that take one argument and   *)
(* differ in its size, its alignment or the room they need.                  *)
Arguments ==
    {d \in Directives : d.takes \in {<<"int">>, <<"long long">>, <<"double">>, <<"string">>}
                           /\ d.chars[2] # "0"}

MCFormats ==
    UNION {[1 .. n -> Directives] : n \in 1 .. 2} \cup [1 .. 3 -> Arguments]
=============================================================================
