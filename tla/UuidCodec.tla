------------------------------ MODULE UuidCodec ------------------------------
(***************************************************************************)
(* detail::parse_uuid and std::formatter<uuid_t> of parse_logs.h.  A UUID *)
(* is two 64-bit halves.  Its text is runs of hex digits separated by     *)
(* dashes, 8-4-4-4-12 in the code: the first three runs hold the digits   *)
(* of the first half, the last two those of the second, and the first     *)
(* digit of a half is its LOWEST nibble.  The model keeps that layout and *)
(* scales the run lengths (Groups), so a half has HalfDigits digits and   *)
(* its arithmetic is modulo 2^(4*HalfDigits) as uint64_t is modulo 2^64.  *)
(* A character is a one-character string.                                  *)
(*                                                                         *)
(* parse_uuid is modelled step by step, one action per loop iteration of  *)
(* the digit loops.                                                        *)
(***************************************************************************)
EXTENDS Integers, Sequences, SequencesExt, FiniteSets

CONSTANTS
    Groups,     \* the lengths of the digit runs (<<8, 4, 4, 4, 12>>)
    Chars,      \* the characters the inputs are made of
    Inputs,     \* the span<char, 36> arguments considered
    None

\* the runs before FirstRuns hold uuid.first
FirstRuns == 3

PrefixLen(g) == FoldLeft(+, 0, SubSeq(Groups, 1, g))

HalfDigits == PrefixLen(FirstRuns)
ASSUME Len(Groups) = 5 /\ PrefixLen(5) = 2 * HalfDigits

Bits == 4 * HalfDigits
Modulus == 2 ^ Bits
AllOnes == Modulus - 1
TextLen == PrefixLen(Len(Groups)) + Len(Groups) - 1     \* 36 in the code

\* the dashes checked: 8, 13, 18, 23 counted from 0 in the code
DashPositions == {PrefixLen(g) + g : g \in 1..Len(Groups) - 1}

Texts == [1..TextLen -> Chars]

\* the hex_digits table of the formatter, and the upper-case letters
HexDigits == <<"0", "1", "2", "3", "4", "5", "6", "7", "8", "9", "a", "b", "c", "d", "e", "f">>
UpperHex  == <<"A", "B", "C", "D", "E", "F">>

VARIABLES
    str,        \* the span<char, 36> argument
    half,       \* 0: dash check, 1 and 2: the loops, 3: return, 4: returned
    i,          \* loop index within the current half
    uuid,       \* the uuid_t being accumulated: <<first, second>>
    result      \* the returned optional

vars == <<str, half, i, uuid, result>>

(***************************************************************************)
(* arr: the copy_n of each run in order.  Digit j of arr (from 1) lies in *)
(* run g, after the g - 1 dashes that end the runs before it.             *)
(***************************************************************************)
RunOf(j) == CHOOSE g \in 1..Len(Groups) : PrefixLen(g - 1) < j /\ j <= PrefixLen(g)

ArrPos(j) == j + RunOf(j) - 1

(***************************************************************************)
(* The formatter: digit k of a half (k counted from 0) is nibble k, put    *)
(* through hex_digits, and a dash ends each run but the last.              *)
(***************************************************************************)
Nibble(x, k) == (x \div 2 ^ (4 * k)) % 16

Format(u) ==
    LET digit(j) == IF j <= HalfDigits THEN Nibble(u[1], j - 1)
                    ELSE Nibble(u[2], j - HalfDigits - 1)
        arrIndex(p) == p - Cardinality({q \in DashPositions : q < p})
    IN [p \in 1..TextLen |->
           IF p \in DashPositions THEN "-" ELSE HexDigits[digit(arrIndex(p)) + 1]]

(***************************************************************************)
(* parse_uuid.                                                             *)
(***************************************************************************)
\* hex_digit_to_uint64: '0'-'9', 'a'-'f' and 'A'-'F' give their value, any
\* other character -1 as a uint64_t
HexDigitValue(c) ==
    IF \E k \in 1..16 : HexDigits[k] = c
      THEN (CHOOSE k \in 1..16 : HexDigits[k] = c) - 1
    ELSE IF \E k \in 1..6 : UpperHex[k] = c
      THEN (CHOOSE k \in 1..6 : UpperHex[k] = c) + 9
    ELSE AllOnes

\* Mutation: the shift one nibble too far.
ShiftedOneMore(c, k) == (HexDigitValue(c) * 2 ^ (4 * (k + 1))) % Modulus

\* hex_digit_to_uint64(*it) << (i * 4), in uint64_t
Shifted(c, k) == (HexDigitValue(c) * 2 ^ (4 * k)) % Modulus

Init ==
    /\ str \in Inputs
    /\ half = 0 /\ i = 0
    /\ uuid = <<0, 0>>
    /\ result = None

\* the loop over the dash positions: one that is not '-' returns {}
CheckDashes ==
    /\ half = 0
    /\ IF \E p \in DashPositions : str[p] # "-"
         THEN half' = 4 /\ result' = None
         ELSE half' = 1 /\ UNCHANGED result
    /\ UNCHANGED <<str, i, uuid>>

\* the character of arr read by iteration i of loop h
Digit(h, k) == str[ArrPos((h - 1) * HalfDigits + k + 1)]

\* Mutation: each loop runs one iteration too many (i <= 16).
AddDigitOneMore ==
    /\ half \in {1, 2}
    /\ LET val == Shifted(Digit(half, i), i)
       IN IF val = AllOnes
            THEN half' = 4 /\ result' = None /\ UNCHANGED <<i, uuid>>
            ELSE /\ uuid' = [uuid EXCEPT ![half] = (@ + val) % Modulus]
                 /\ IF i = HalfDigits
                      THEN i' = 0 /\ half' = half + 1
                      ELSE i' = i + 1 /\ UNCHANGED half
                 /\ UNCHANGED result
    /\ UNCHANGED str

\* one iteration of either loop: a value equal to -1 returns {}, otherwise
\* it is added to the half
AddDigit ==
    /\ half \in {1, 2}
    /\ LET val == Shifted(Digit(half, i), i)
       IN IF val = AllOnes
            THEN half' = 4 /\ result' = None /\ UNCHANGED <<i, uuid>>
            ELSE /\ uuid' = [uuid EXCEPT ![half] = (@ + val) % Modulus]
                 /\ IF i + 1 = HalfDigits
                      THEN i' = 0 /\ half' = half + 1
                      ELSE i' = i + 1 /\ UNCHANGED half
                 /\ UNCHANGED result
    /\ UNCHANGED str

\* return uuid
ReturnUuid ==
    /\ half = 3
    /\ half' = 4 /\ result' = uuid
    /\ UNCHANGED <<str, i, uuid>>

Returned == half = 4 /\ UNCHANGED vars

Next == CheckDashes \/ AddDigit \/ ReturnUuid \/ Returned

Spec == Init /\ [][Next]_vars

-----------------------------------------------------------------------------
Halves == [1..2 -> 0..AllOnes]

TypeOK ==
    /\ str \in Texts
    /\ half \in 0..4 /\ i \in 0..(HalfDigits - 1)
    /\ uuid \in Halves
    /\ result \in Halves \cup {None}

IsHex(c) == \E k \in 1..16 : HexDigits[k] = c \/ (k <= 6 /\ UpperHex[k] = c)

\* the text with its upper-case hex letters made lower case
Lower(s) ==
    [p \in 1..TextLen |->
        IF \E k \in 1..6 : UpperHex[k] = s[p]
          THEN HexDigits[(CHOOSE k \in 1..6 : UpperHex[k] = s[p]) + 10]
        ELSE s[p]]

\* The texts of a UUID in either case: dashes after each run, hex digits
\* elsewhere.
WellFormed(s) ==
    \A p \in 1..TextLen : IF p \in DashPositions THEN s[p] = "-" ELSE IsHex(s[p])

\* parse_uuid accepts every well-formed text, in either case, and the
\* formatter prints the uuid it returns as that text in lower case: the
\* log's "UUID of player" message and the uuid printed by the bot denote
\* the same player.
RoundTrip ==
    half = 4 /\ WellFormed(str) => result # None /\ Format(result) = Lower(str)

=============================================================================
