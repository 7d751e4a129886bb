---------------------------- MODULE MCEncodings ----------------------------
(* Instances of Encodings for TLC: words of two bytes of three bits. *)
EXTENDS Encodings

Integers3And6 == [kind : {"integer"}, bits : {3, 6}, signed : BOOLEAN]
OnlyFloats == [kind : {"float"}, bits : {6}, signed : {TRUE}]
OnlyDecimals == [kind : {"decimal"}, bits : {7}, signed : {TRUE}]
OnlyStrings == [kind : {"string"}, bits : {3}, signed : {FALSE}]
AllTypes == Integers3And6 \cup OnlyFloats \cup OnlyDecimals \cup OnlyStrings

FloatValues == {-6, 0, 1, 13, 20, 62}
FloatLiterals == {-7, -6, 0, 1, 2, 4, 8, 13, 16, 20, 31, 62, 63}

(* What llround gives on x86-64 for a number that is too great. *)
LeastInt64 == MinOf(Int64)

(* Bytes from 4 on are no ASCII, 7 is the escape code. *)
StringValues == {<<>>, <<1, 2, 1, 2>>, <<1, 2, 3>>, <<1, 7, 5>>, <<0, 6>>}
PhantomSymbols == {<<0, 6>>, <<0, 0>>}
============================================================================
