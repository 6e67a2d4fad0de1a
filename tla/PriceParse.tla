----------------------------- MODULE PriceParse -----------------------------
(***************************************************************************)
(* u128_from_price of src/lession4/assagnment/src/lib.rs: the serde       *)
(* deserializer that turns the priceUsd string of the coincap response    *)
(* into the u128 the off-chain worker submits.  Its doc comment says it    *)
(* keeps 6 decimals, i.e. it should return the price in millionths.       *)
(*                                                                         *)
(* A string is a sequence of characters.  str::len() counts bytes, so     *)
(* every character has a byte width (WideChars are two-byte UTF-8         *)
(* characters) and the byte slice &s[0..n] panics when byte n falls       *)
(* inside a character.  u128::from_str accepts an optional '+' and then   *)
(* one or more decimal digits.  The number of kept decimals (6) and the   *)
(* integer multiplier (100_000) are the constants FracDigits and          *)
(* IntMultiplier; u128 overflow is out of reach of the bounded inputs.    *)
(***************************************************************************)
EXTENDS Integers, Sequences, SequencesExt

CONSTANTS
    Chars,          \* the characters a priceUsd string is made of
    WideChars,      \* the characters among them that take two bytes
    MaxLen,         \* the longest string enumerated, in characters
    FracDigits,     \* the decimals kept: 6 in the code
    IntMultiplier,  \* the factor of the integer part: 100_000 in the code
    ParseError,     \* Err of u128::from_str
    Panic,          \* the call panics: a slice not on a char boundary
    NotParsed       \* the deserializer has not run yet

DigitChars == <<"0", "1", "2", "3", "4", "5", "6", "7", "8", "9">>
Digits     == ToSet(DigitChars)
DigitValue(c) == CHOOSE i \in 0..9 : DigitChars[i + 1] = c

ASSUME /\ WideChars \subseteq Chars
       /\ "." \in Chars /\ "." \notin WideChars
       /\ FracDigits \in Nat \ {0}

\* The decimal value of a sequence of digit characters (0 for <<>>).
DecimalValue(ds) == FoldLeft(LAMBDA n, c : 10 * n + DigitValue(c), 0, ds)

\* str::len(): the length in bytes.
StrLen(s) == FoldLeft(LAMBDA n, c : n + (IF c \in WideChars THEN 2 ELSE 1), 0, s)

\* &s[0..n]: the characters that make up the first n bytes, or Panic when
\* byte n is not a character boundary.
ByteSlice(s, n) ==
    LET ends == {i \in 0..Len(s) : StrLen(SubSeq(s, 1, i)) = n}
    IN  IF ends = {} THEN Panic ELSE SubSeq(s, 1, CHOOSE i \in ends : TRUE)

\* s.split(".").collect(): the pieces between the dots, empty ones kept.
RECURSIVE Split(_)
Split(s) ==
    LET d == SelectInSeq(s, LAMBDA c : c = ".")
    IN  IF d = 0 THEN <<s>>
        ELSE <<SubSeq(s, 1, d - 1)>> \o Split(SubSeq(s, d + 1, Len(s)))

\* u128::from_str: an optional '+' followed by at least one digit.
FromStr(s) ==
    LET ds == IF s # <<>> /\ Head(s) = "+" THEN Tail(s) ELSE s
    IN  IF ds # <<>> /\ ToSet(ds) \subseteq Digits THEN DecimalValue(ds)
                                                 ELSE ParseError

\* .unwrap_or(0)
UnwrapOr0(r) == IF r = ParseError THEN 0 ELSE r

(***************************************************************************)
(* A variant with a plausible bug, beside the faithful definition: the    *)
(* padding of a short fraction is one power of ten short.                 *)
(***************************************************************************)
u128_from_price_short_pad(s) ==
    LET sps  == Split(s)
        p1   == UnwrapOr0(FromStr(sps[1])) * IntMultiplier
        frac == sps[2]
    IN  IF Len(sps) # 2 THEN p1
        ELSE IF StrLen(frac) >= FracDigits
             THEN LET kept == ByteSlice(frac, FracDigits)
                  IN  IF kept = Panic THEN Panic ELSE p1 + UnwrapOr0(FromStr(kept))
             ELSE p1 + UnwrapOr0(FromStr(frac)) * 10 ^ (FracDigits - StrLen(frac) - 1)

\* u128_from_price: integer part times IntMultiplier; with exactly one dot,
\* plus the first FracDigits bytes of the fraction, or the whole fraction
\* padded with zeros to FracDigits digits.  Unparsable parts count as 0.
u128_from_price(s) ==
    LET sps  == Split(s)
        p1   == UnwrapOr0(FromStr(sps[1])) * IntMultiplier
        frac == sps[2]
    IN  IF Len(sps) # 2 THEN p1
        ELSE IF StrLen(frac) >= FracDigits
             THEN LET kept == ByteSlice(frac, FracDigits)
                  IN  IF kept = Panic THEN Panic ELSE p1 + UnwrapOr0(FromStr(kept))
             ELSE p1 + UnwrapOr0(FromStr(frac)) * 10 ^ (FracDigits - StrLen(frac))

VARIABLES input, price
vars == <<input, price>>

\* Any string the JSON decoder can hand over, up to MaxLen characters.
Init ==
    /\ input \in BoundedSeq(Chars, MaxLen)
    /\ price = NotParsed

\* The deserializer runs once on the string.
Deserialize ==
    /\ price = NotParsed
    /\ price' = u128_from_price(input)
    /\ UNCHANGED input

Spec == Init /\ [][Deserialize]_vars

(***************************************************************************)
(* The reference: a decimal numeral (digits, optionally a dot and more    *)
(* digits) read as a price in units of 10^-FracDigits, extra decimals cut *)
(* off.                                                                   *)
(***************************************************************************)
DecimalNumeral(s) ==
    LET sps == Split(s)
    IN  /\ Len(sps) \in {1, 2}
        /\ \A i \in 1..Len(sps) : sps[i] # <<>> /\ ToSet(sps[i]) \subseteq Digits

Millionths(s) ==
    LET sps  == Split(s)
        frac == IF Len(sps) = 2 THEN sps[2] ELSE <<>>
        kept == SubSeq(frac, 1, IF Len(frac) < FracDigits THEN Len(frac) ELSE FracDigits)
    IN  DecimalValue(sps[1]) * 10 ^ FracDigits
          + DecimalValue(kept) * 10 ^ (FracDigits - Len(kept))

(***************************************************************************)
(* Properties.                                                            *)
(***************************************************************************)

\* A price below one unit ("0.x", "0.xyz...") comes out exact: the short
\* fraction is padded to FracDigits digits and a long one cut at the
\* FracDigits boundary (the >= 6 test, the slice, the 10^remain factor).
FractionOnlyExact ==
    (price # NotParsed /\ DecimalNumeral(input) /\ DecimalValue(Split(input)[1]) = 0)
        => price = Millionths(input)

\* Every decimal numeral comes out as its price in millionths, as the doc
\* comment "keep 6 decimals" promises.
ParsesToMillionths ==
    (price # NotParsed /\ DecimalNumeral(input)) => price = Millionths(input)

\* u128_from_price never panics: it returns a Result, and an answer of the
\* price server it cannot read should come back as a value or an Err, not
\* abort the off-chain worker.  The byte slice &sps[1][0..6] panics when
\* byte 6 of the fraction falls inside a multi-byte character.
NeverPanics ==
    price # Panic

=============================================================================
