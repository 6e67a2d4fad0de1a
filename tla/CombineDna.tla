----------------------------- MODULE CombineDna -----------------------------
(***************************************************************************)
(* The DNA mixing of do_breed in kitties.rs: the child's DNA is computed  *)
(* byte by byte as combine_dna(dna1[i], dna2[i], selector[i]), where the  *)
(* selector is the 16 random bytes of random_value.  combine_dna works on *)
(* u8, whose `!` complements within 8 bits; the byte width is the        *)
(* constant Width and a DNA has DnaLen bytes.  The selector's source (a    *)
(* blake2 hash of the random seed, sender, extrinsic index and block) is   *)
(* any byte sequence.                                                      *)
(***************************************************************************)
EXTENDS Integers, Bitwise

CONSTANTS
    Width,    \* bits of a DNA byte (8 for u8)
    DnaLen,   \* bytes of a DNA (16)
    NoDna     \* the child has not been computed yet

Byte == 0..(2 ^ Width - 1)
Dna  == [1..DnaLen -> Byte]

\* !x on a Width-bit unsigned integer.
NotByte(x) == (2 ^ Width - 1) - x

\* combine_dna without the complement: the second parent's bits are taken
\* where the selector picks the first parent.
combine_dna_no_not(dna1, dna2, selector) == (selector & dna1) | (selector & dna2)

\* combine_dna: the bits of dna1 where the selector is 1, of dna2 where 0.
combine_dna(dna1, dna2, selector) == (selector & dna1) | (NotByte(selector) & dna2)

\* The loop of do_breed over the bytes of kitty1's DNA.
BreedDna(dna1, dna2, selector) ==
    [i \in 1..DnaLen |-> combine_dna(dna1[i], dna2[i], selector[i])]

VARIABLES kitty1Dna, kitty2Dna, selector, newDna
vars == <<kitty1Dna, kitty2Dna, selector, newDna>>

Init ==
    /\ kitty1Dna \in Dna
    /\ kitty2Dna \in Dna
    /\ selector \in Dna
    /\ newDna = NoDna

\* do_breed computes the child's DNA once.
DoBreed ==
    /\ newDna = NoDna
    /\ newDna' = BreedDna(kitty1Dna, kitty2Dna, selector)
    /\ UNCHANGED <<kitty1Dna, kitty2Dna, selector>>

Spec == Init /\ [][DoBreed]_vars

\* Bit j of x.
BitOf(x, j) == (x \div 2 ^ j) % 2

\* Every bit of the child's DNA is the bit at the same position of the
\* first parent where the selector bit is 1 and of the second parent where
\* it is 0: breeding mixes the parents' genes and invents none.
ChildBitsFromParents ==
    newDna # NoDna =>
        \A i \in 1..DnaLen, j \in 0..(Width - 1) :
            BitOf(newDna[i], j) = IF BitOf(selector[i], j) = 1
                                     THEN BitOf(kitty1Dna[i], j)
                                     ELSE BitOf(kitty2Dna[i], j)

=============================================================================
