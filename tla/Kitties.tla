------------------------------ MODULE Kitties ------------------------------
(***************************************************************************)
(* The kitties pallet of src/pallets/substrate-kitties/runtime/src/       *)
(* kitties.rs: the dispatchable calls create, breed, transfer, ask and    *)
(* buy over the pallet's storage.  Each call is one action: a Substrate   *)
(* extrinsic runs to completion inside a block, and every early return of *)
(* these calls (ensure!, ?) happens before the call's first storage       *)
(* write, so a failed call changes nothing and is a stuttering step.      *)
(*                                                                         *)
(* Abstractions: a kitty's DNA (random_value, combine_dna) is left out,   *)
(* Kitties keeps only which indices hold a kitty; events are left out;    *)
(* T::Currency (the balances pallet, outside this repository) is a map of *)
(* free balances whose transfer fails when the payer's balance is short.  *)
(***************************************************************************)
EXTENDS OwnedKittiesList

CONSTANTS
    KittyIndexBits, \* width of T::KittyIndex (u32 in the tests)
    Prices,         \* the balances a kitty may be offered or asked for
    InitialBalance, \* every account's free balance at genesis
    NoOwner,        \* KittyOwners entry absent
    NoPrice         \* KittyPrices entry absent / ask with price None

KittyIndexModulus == 2 ^ KittyIndexBits
\* T::KittyIndex::max_value()
MaxKittyIndex == KittyIndexModulus - 1

ASSUME /\ KittyIndexBits \in Nat \ {0}
       /\ Ids = 0..MaxKittyIndex
       /\ Prices \subseteq Nat \ {0}

VARIABLES
    kitties,        \* Kitties: the indices that hold a kitty
    kittiesCount,   \* KittiesCount
    ownedKitties,   \* OwnedKitties: the linked-list storage map
    kittyOwners,    \* KittyOwners
    kittyPrices,    \* KittyPrices
    balance         \* T::Currency free balances

vars == <<kitties, kittiesCount, ownedKitties, kittyOwners, kittyPrices, balance>>

TotalIssuance == InitialBalance * Cardinality(Accounts)

Init ==
    /\ kitties = {}
    /\ kittiesCount = 0
    /\ ownedKitties = [ak \in Accounts \X Keys |-> NoItem]
    /\ kittyOwners = [k \in Ids |-> NoOwner]
    /\ kittyPrices = [k \in Ids |-> NoPrice]
    /\ balance = [a \in Accounts |-> InitialBalance]

(***************************************************************************)
(* Variants of helpers and calls with a plausible bug each, kept beside   *)
(* the faithful definitions so that the properties of MCKitties can be    *)
(* shown to catch them.                                                   *)
(***************************************************************************)

\* next_kitty_id comparing with > instead of ==: max_value itself is handed
\* out and KittiesCount wraps to 0.
NextKittyIdPastMax == kittiesCount <= MaxKittyIndex

\* do_transfer forgetting to unlink the kitty from the sender's list.
DoTransferWithoutRemove(from, to, k) ==
    /\ ownedKitties' = append(ownedKitties, to, k)
    /\ kittyOwners' = [kittyOwners EXCEPT ![k] = to]

(***************************************************************************)
(* Helpers of impl Module<T>.                                             *)
(***************************************************************************)

\* next_kitty_id succeeds unless the count has reached max_value.
NextKittyIdOk == kittiesCount # MaxKittyIndex

\* OwnedKitties::exists(&(sender, Some(kitty_id)))
OwnsInList(a, k) == ownedKitties[<<a, k>>] # NoItem

\* insert_kitty: Kitties, KittiesCount (kitty_id + 1 in KittyIndex
\* arithmetic), KittyOwners, then append to the owner's list.
InsertKitty(owner, k) ==
    /\ kitties' = kitties \cup {k}
    /\ kittiesCount' = (k + 1) % KittyIndexModulus
    /\ kittyOwners' = [kittyOwners EXCEPT ![k] = owner]
    /\ ownedKitties' = append(ownedKitties, owner, k)

\* do_transfer: remove from the sender's list, append to the receiver's,
\* record the new owner.
DoTransfer(from, to, k) ==
    /\ ownedKitties' = append(remove(ownedKitties, from, k), to, k)
    /\ kittyOwners' = [kittyOwners EXCEPT ![k] = to]

(***************************************************************************)
(* Dispatchable calls.                                                    *)
(***************************************************************************)

Create(sender) ==
    /\ NextKittyIdOk
    /\ InsertKitty(sender, kittiesCount)
    /\ UNCHANGED <<kittyPrices, balance>>

\* breed -> do_breed: both parents exist, differ and belong to the sender
\* according to KittyOwners.
Breed(sender, k1, k2) ==
    /\ k1 \in kitties
    /\ k2 \in kitties
    /\ k1 # k2
    /\ kittyOwners[k1] = sender
    /\ kittyOwners[k2] = sender
    /\ NextKittyIdOk
    /\ InsertKitty(sender, kittiesCount)
    /\ UNCHANGED <<kittyPrices, balance>>

\* transfer: ownership is checked in the OwnedKitties list.
Transfer(sender, to, k) ==
    /\ OwnsInList(sender, k)
    /\ DoTransfer(sender, to, k)
    /\ UNCHANGED <<kitties, kittiesCount, kittyPrices, balance>>

\* ask: set (Some) or clear (None) the price of a kitty the sender owns.
Ask(sender, k, price) ==
    /\ OwnsInList(sender, k)
    /\ kittyPrices' = [kittyPrices EXCEPT ![k] = price]
    /\ UNCHANGED <<kitties, kittiesCount, ownedKitties, kittyOwners, balance>>

\* buy moving the asked price without checking the buyer can pay it.
BuyWithoutFundsCheck(sender, k, price) ==
    LET owner      == kittyOwners[k]
        kittyPrice == kittyPrices[k]
    IN  /\ owner # NoOwner
        /\ kittyPrice # NoPrice
        /\ price >= kittyPrice
        /\ balance' = [balance EXCEPT ![sender] = @ - kittyPrice,
                                      ![owner]  = @ + kittyPrice]
        /\ kittyPrices' = [kittyPrices EXCEPT ![k] = NoPrice]
        /\ DoTransfer(owner, sender, k)
        /\ UNCHANGED <<kitties, kittiesCount>>

\* buy charging the offered price instead of the asked one.
BuyPaysOffer(sender, k, price) ==
    LET owner      == kittyOwners[k]
        kittyPrice == kittyPrices[k]
    IN  /\ owner # NoOwner
        /\ kittyPrice # NoPrice
        /\ price >= kittyPrice
        /\ balance[sender] >= price
        /\ balance' = [balance EXCEPT ![sender] = @ - price,
                                      ![owner]  = @ + price]
        /\ kittyPrices' = [kittyPrices EXCEPT ![k] = NoPrice]
        /\ DoTransfer(owner, sender, k)
        /\ UNCHANGED <<kitties, kittiesCount>>

\* buy: the owner is read from KittyOwners; the buyer pays the asked price
\* (not the offered one) through T::Currency::transfer, which fails when
\* the buyer's balance is short; then the listing is removed and the kitty
\* transferred.
Buy(sender, k, price) ==
    LET owner      == kittyOwners[k]
        kittyPrice == kittyPrices[k]
    IN  /\ owner # NoOwner
        /\ kittyPrice # NoPrice
        /\ price >= kittyPrice
        /\ balance[sender] >= kittyPrice
        /\ balance' = [balance EXCEPT ![sender] = @ - kittyPrice,
                                      ![owner]  = @ + kittyPrice]
        /\ kittyPrices' = [kittyPrices EXCEPT ![k] = NoPrice]
        /\ DoTransfer(owner, sender, k)
        /\ UNCHANGED <<kitties, kittiesCount>>

Next ==
    \E sender \in Accounts :
        \/ Create(sender)
        \/ \E k1, k2 \in Ids : Breed(sender, k1, k2)
        \/ \E to \in Accounts, k \in Ids : Transfer(sender, to, k)
        \/ \E k \in Ids, p \in Prices \cup {NoPrice} : Ask(sender, k, p)
        \/ \E k \in Ids, p \in Prices : Buy(sender, k, p)

Spec == Init /\ [][Next]_vars

(***************************************************************************)
(* Properties.                                                            *)
(***************************************************************************)

TypeOK ==
    /\ kitties \subseteq Ids
    /\ kittiesCount \in 0..MaxKittyIndex
    /\ ownedKitties \in [Accounts \X Keys -> Items \cup {NoItem}]
    /\ kittyOwners \in [Ids -> Accounts \cup {NoOwner}]
    /\ kittyPrices \in [Ids -> Prices \cup {NoPrice}]
    /\ balance \in [Accounts -> 0..TotalIssuance]

\* Every kitty index below KittiesCount holds a kitty and none at or above
\* it does: create and breed take KittiesCount as the new index, so this is
\* what keeps a new kitty from overwriting an existing one, up to and at
\* the max_value limit of next_kitty_id.
KittyIdsBelowCount == kitties = 0..(kittiesCount - 1)

\* The two ownership indexes agree: an account has a node for kitty k in
\* its OwnedKitties list exactly when KittyOwners names it as k's owner.
\* transfer checks the first, breed and buy the second, and do_transfer and
\* insert_kitty update them one after the other.
OwnershipConsistent ==
    \A a \in Accounts, k \in Ids :
        OwnsInList(a, k) <=> (k \in kitties /\ kittyOwners[k] = a)

\* Every account's OwnedKitties storage is a well-formed ring through its
\* head after any sequence of appends and removes, including a transfer of
\* a kitty to its own owner and the removal of a sole or last kitty.
OwnedListsWellFormed == \A a \in Accounts : WellFormed(ownedKitties, a)

\* The linked lists implement the abstract owned-kitties index: reading
\* every account's list from its head, each call appends a new kitty to
\* the end of its owner's list or moves a kitty to the end of its new
\* owner's list and leaves every other list and order alone.
OwnedIdx == INSTANCE OwnedKittiesIndex
                WITH owned <- [a \in Accounts |-> OwnedSeq(ownedKitties, a)]
OwnedIndexRefined == OwnedIdx!Spec

\* Money moves only as the price of a sale: whenever an account's balance
\* drops, in that step it became the owner of a kitty someone else owned,
\* which was listed, and it paid exactly the asked price (buy checks the
\* offer against KittyPrices and must charge the listing, not the offer;
\* T::Currency::transfer runs before the kitty changes hands).
PaidOnlyAskedPriceForKitty ==
    [][\A a \in Accounts :
          balance'[a] < balance[a] =>
              \E k \in Ids :
                  /\ kittyPrices[k] # NoPrice
                  /\ kittyOwners[k] # a
                  /\ kittyOwners'[k] = a
                  /\ balance[a] - balance'[a] = kittyPrices[k]]_vars

\* A kitty that changes owner is no longer for sale: a listing made by one
\* owner (ask) never survives into the next owner's tenure, where anyone
\* could buy the kitty at a price its new owner never asked.
ListingClearedOnOwnerChange ==
    [][\A k \in Ids :
          (kittyOwners[k] # NoOwner /\ kittyOwners'[k] # kittyOwners[k])
              => kittyPrices'[k] = NoPrice]_vars

=============================================================================
