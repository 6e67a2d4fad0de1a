-------------------------------- MODULE Poe --------------------------------
(***************************************************************************)
(* The proof-of-existence pallet of src/pallets/poe/src/lib.rs: the       *)
(* dispatchable calls create_claim and revoke_claim over the Proofs map   *)
(* (claim -> (owner, block number)), and the template calls do_something  *)
(* and cause_error over the u32 value Something.  Each call is one        *)
(* action; all its early returns (ensure_signed, ensure!, ?) come before  *)
(* its first write, so a failed call changes no storage and only returns  *)
(* its error.  The result of the last call is kept in lastCall, which is  *)
(* what the unit tests of tests.rs observe.                               *)
(*                                                                         *)
(* A claim (Vec<u8>) is a byte sequence from a small set; the block number *)
(* is advanced by the system, bounded by MaxBlock; Something has the      *)
(* width SomethingBits.  Events are left out.                            *)
(***************************************************************************)
EXTENDS Integers, Sequences

CONSTANTS
    Accounts,        \* signed origins
    NoneOrigin,      \* an unsigned origin: ensure_signed fails
    Claims,          \* the claims (byte sequences) the calls are made with
    MaxProofLength,  \* T::MaxProofLength (declared in Trait, lib.rs:25)
    MaxBlock,        \* the last block number explored
    SomethingBits,   \* the width of Something (u32)
    NoProof,         \* absent Proofs entry
    NoValue,         \* Something is None
    NoClaim          \* lastCall of a call without a claim argument

MaxSomething == 2 ^ SomethingBits - 1   \* u32::MAX
Origins == Accounts \cup {NoneOrigin}

VARIABLES
    proofs,      \* Proofs: claim -> [owner, block] or NoProof
    something,   \* Something: Option<u32>
    blockNumber, \* system::Module::<T>::block_number()
    lastCall     \* the last dispatched call and its DispatchResult

vars == <<proofs, something, blockNumber, lastCall>>

Call(name, who, claim, result) ==
    [call |-> name, who |-> who, claim |-> claim, result |-> result]

Init ==
    /\ proofs = [c \in Claims |-> NoProof]
    /\ something = NoValue
    /\ blockNumber = 0
    /\ lastCall = Call("none", NoneOrigin, NoClaim, "Ok")

\* A failed call: storage unchanged, the error returned.
Fail(name, who, claim, err) ==
    /\ lastCall' = Call(name, who, claim, err)
    /\ UNCHANGED <<proofs, something, blockNumber>>

(***************************************************************************)
(* Dispatchable calls.                                                    *)
(***************************************************************************)

\* do_something: put the value (the SomethingStored event is left out).
do_something(who, value) ==
    IF who = NoneOrigin THEN Fail("do_something", who, NoClaim, "BadOrigin")
    ELSE /\ something' = value
         /\ lastCall' = Call("do_something", who, NoClaim, "Ok")
         /\ UNCHANGED <<proofs, blockNumber>>

\* cause_error: NoneValue when unset, StorageOverflow at u32::MAX, else
\* put old + 1.
cause_error(who) ==
    CASE who = NoneOrigin -> Fail("cause_error", who, NoClaim, "BadOrigin")
      [] something = NoValue -> Fail("cause_error", who, NoClaim, "NoneValue")
      [] something = MaxSomething -> Fail("cause_error", who, NoClaim, "StorageOverflow")
      [] OTHER -> /\ something' = something + 1
                  /\ lastCall' = Call("cause_error", who, NoClaim, "Ok")
                  /\ UNCHANGED <<proofs, blockNumber>>

\* create_claim: ProofAlreadyExist if the claim is stored, else store
\* (sender, current block number).
create_claim(sender, claim) ==
    CASE sender = NoneOrigin -> Fail("create_claim", sender, claim, "BadOrigin")
      [] proofs[claim] # NoProof -> Fail("create_claim", sender, claim, "ProofAlreadyExist")
      [] OTHER -> /\ proofs' = [proofs EXCEPT ![claim] = [owner |-> sender, block |-> blockNumber]]
                  /\ lastCall' = Call("create_claim", sender, claim, "Ok")
                  /\ UNCHANGED <<something, blockNumber>>

\* revoke_claim: ClaimNotExist if the claim is not stored, NotClaimOwner if
\* the stored owner is not the sender, else remove it.
revoke_claim(sender, claim) ==
    CASE sender = NoneOrigin -> Fail("revoke_claim", sender, claim, "BadOrigin")
      [] proofs[claim] = NoProof -> Fail("revoke_claim", sender, claim, "ClaimNotExist")
      [] proofs[claim].owner # sender -> Fail("revoke_claim", sender, claim, "NotClaimOwner")
      [] OTHER -> /\ proofs' = [proofs EXCEPT ![claim] = NoProof]
                  /\ lastCall' = Call("revoke_claim", sender, claim, "Ok")
                  /\ UNCHANGED <<something, blockNumber>>

\* The system pallet moves to the next block.
NewBlock ==
    /\ blockNumber < MaxBlock
    /\ blockNumber' = blockNumber + 1
    /\ UNCHANGED <<proofs, something, lastCall>>

Next ==
    \/ NewBlock
    \/ \E who \in Origins :
          \/ \E v \in 0..MaxSomething : do_something(who, v)
          \/ cause_error(who)
          \/ \E c \in Claims : create_claim(who, c) \/ revoke_claim(who, c)

Spec == Init /\ [][Next]_vars

(***************************************************************************)
(* Properties.                                                            *)
(***************************************************************************)

\* A step that dispatches a call (lastCall' is that call), not a new block.
Dispatched == blockNumber' = blockNumber

\* The test revoke_claim_works (tests.rs:31-41): after account 1 creates a
\* claim, a second create_claim of the same claim by account 1 is Ok.
SecondCreateBySameOwnerOk ==
    [][\A a \in Accounts, c \in Claims :
          (Dispatched /\ lastCall' = Call("create_claim", a, c, lastCall'.result)
              /\ proofs[c] # NoProof
              /\ proofs[c].owner = a)
              => lastCall'.result = "Ok"]_vars

\* The comment on Trait (lib.rs:22): a proof longer than MaxProofLength is
\* refused with an error, so no stored claim exceeds it.
ProofLengthBounded ==
    \A c \in Claims : proofs[c] # NoProof => Len(c) <= MaxProofLength

=============================================================================
