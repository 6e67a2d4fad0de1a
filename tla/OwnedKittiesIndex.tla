------------------------- MODULE OwnedKittiesIndex -------------------------
(***************************************************************************)
(* Abstract specification of the per-account index of owned kitties that  *)
(* the kitties pallet keeps in its OwnedKitties storage map.  What the     *)
(* index promises: every account has an ordered list of the kitties it     *)
(* owns; a newly created kitty goes to the end of its owner's list; a      *)
(* kitty that changes hands leaves its old owner's list and goes to the    *)
(* end of the new owner's list, the relative order of the other kitties    *)
(* being kept.  This is the behaviour the unit tests of kitties.rs pin     *)
(* down for append and remove.  The linked-list implementation in Kitties  *)
(* is shown to implement this specification by a refinement mapping.      *)
(***************************************************************************)
EXTENDS Sequences, SequencesExt

CONSTANTS
    Accounts,   \* the accounts that may own kitties
    Ids         \* the kitty indices that may be allocated

VARIABLE owned  \* owned[a]: the sequence of kitties account a owns, in list order

Listed == UNION { ToSet(owned[a]) : a \in Accounts }

Init == owned = [a \in Accounts |-> <<>>]

\* A kitty that is in no list is added at the end of account a's list.
Add(a, k) ==
    /\ k \notin Listed
    /\ owned' = [owned EXCEPT ![a] = Append(@, k)]

\* A kitty moves from the end-of-list position of one owner to the end of
\* another's; when from = to it moves to the end of the same list.
Move(from, to, k) ==
    /\ k \in ToSet(owned[from])
    /\ owned' = LET removed == [owned EXCEPT ![from] = Remove(@, k)]
                IN  [removed EXCEPT ![to] = Append(@, k)]

Next ==
    \E a, b \in Accounts, k \in Ids :
        \/ Add(a, k)
        \/ Move(a, b, k)

Spec == Init /\ [][Next]_owned

=============================================================================
