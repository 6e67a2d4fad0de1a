\* u128_from_price over every string of up to 5 characters from a small
\* alphabet: three digits, the dot, '+', a one-byte non-digit "x" and a
\* two-byte character "w".  Two kept decimals with the code's ratio of
\* IntMultiplier = 10^(FracDigits - 1) (100_000 for 6 decimals).
CONSTANTS
    Chars = {"0", "1", "9", ".", "+", "x", "w"}
    WideChars = {"w"}
    MaxLen = 5
    FracDigits = 2
    IntMultiplier = 10
    ParseError = ParseError
    Panic = Panic
    NotParsed = NotParsed
SPECIFICATION Spec
CHECK_DEADLOCK FALSE

INVARIANT ParsesToMillionths
