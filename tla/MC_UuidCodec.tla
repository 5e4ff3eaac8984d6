---------------------------- MODULE MC_UuidCodec ----------------------------
(***************************************************************************)
(* Inputs of parse_uuid for the model checker: the text of every uuid      *)
(* whose digits are 0, a or f, and every text that differs from one of    *)
(* them in one character, taken from Chars.                                *)
(***************************************************************************)
EXTENDS UuidCodec

MCGroups == <<1, 1, 1, 1, 2>>

MCChars == {"0", "a", "f", "F", "g", "-"}

MCHalves == {x \in 0..AllOnes : \A k \in 0..HalfDigits - 1 : Nibble(x, k) \in {0, 10, 15}}

MCInputs ==
    LET formatted == {Format(<<x, y>>) : x, y \in MCHalves}
    IN {[s EXCEPT ![p] = c] : s \in formatted, p \in 1..TextLen, c \in Chars}

=============================================================================
