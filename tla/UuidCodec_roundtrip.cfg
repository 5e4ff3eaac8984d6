\* Runs of 1-1-1-1-2 digits (halves of three digits, twelve bits): every
\* uuid text over the digits 0, a and f, and each such text with one
\* character replaced by a digit, an upper-case digit, a dash or a
\* character that is not a hex digit.
CONSTANTS
    None = None
    Groups <- MCGroups
    Chars <- MCChars
    Inputs <- MCInputs
SPECIFICATION Spec
INVARIANT TypeOK
INVARIANT RoundTrip
