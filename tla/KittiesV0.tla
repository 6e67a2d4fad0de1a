----------------------------- MODULE KittiesV0 -----------------------------
(***************************************************************************)
(* The first version of the kitties pallet, as it survives in the macro   *)
(* expansion lession3/.../substrate-kitties/expanded.rs (mod kitties):    *)
(* one call, create, that stores a kitty with random DNA under index      *)
(* KittiesCount and puts count + 1 back, with no overflow check.          *)
(*                                                                         *)
(* KittiesCount is a u32; count + 1 at u32::MAX panics in a build with    *)
(* overflow checks (the extrinsic, and the block, then change nothing: a  *)
(* stuttering step) and wraps to 0 in a release build without them.  The  *)
(* model keeps the wrap, the one outcome that changes state.  DNA         *)
(* (random_value hashed from the block's seed) is any of a small set.     *)
(***************************************************************************)
EXTENDS Naturals

CONSTANTS
    CountBits,  \* width of the KittiesCount integer (32 in the code)
    Dnas,       \* the DNA values random_value may produce
    NoKitty     \* Kitties entry absent

CountModulus == 2 ^ CountBits
Ids == 0..(CountModulus - 1)

VARIABLES
    kitties,        \* Kitties: index -> DNA
    kittiesCount    \* KittiesCount

vars == <<kitties, kittiesCount>>

Init ==
    /\ kitties = [k \in Ids |-> NoKitty]
    /\ kittiesCount = 0

\* create: insert the new kitty at index count, then put count + 1.
Create ==
    \E dna \in Dnas :
        /\ kitties' = [kitties EXCEPT ![kittiesCount] = dna]
        /\ kittiesCount' = (kittiesCount + 1) % CountModulus

Next == Create

Spec == Init /\ [][Next]_vars

\* A kitty, once created, is never replaced by another: create always
\* stores under a fresh index.  The later version of the pallet states
\* this intent with the "Kitties count overflow" check of next_kitty_id.
KittiesNeverOverwritten ==
    [][\A k \in Ids : kitties[k] # NoKitty => kitties'[k] = kitties[k]]_vars

=============================================================================
