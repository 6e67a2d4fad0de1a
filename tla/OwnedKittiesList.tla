-------------------------- MODULE OwnedKittiesList --------------------------
(***************************************************************************)
(* The intrusive doubly linked list that indexes an account's kitties in  *)
(* the OwnedKitties storage map of kitties.rs:                             *)
(*                                                                         *)
(*   OwnedKitties: map (AccountId, Option<KittyIndex>)                     *)
(*                   => Option<LinkedItem { prev, next }>                  *)
(*                                                                         *)
(* The entry under key (a, None) is the list head: head.next is the first  *)
(* kitty and head.prev the last one.  The entry under (a, Some(k)) is      *)
(* kitty k's node; a prev or next of None points back to the head, so the  *)
(* list is a ring through the head.  The storage is modelled as one        *)
(* function from <<account, key>> to a node or NoItem (absent entry); a    *)
(* key is None or a kitty index.  append and remove are translated         *)
(* statement by statement, every read seeing the writes before it,         *)
(* because whether a read comes before or after a write is exactly what   *)
(* makes the one-element and two-element cases work.                      *)
(***************************************************************************)
EXTENDS Integers, Sequences, SequencesExt, FiniteSets

CONSTANTS
    Accounts,
    Ids,        \* the kitty indices (the values of Some(k))
    None,       \* Option::None as a list key: the head of the list
    NoItem      \* an absent storage entry

Keys  == Ids \cup {None}
Items == [prev : Keys, next : Keys]

\* read(account, key): the stored node, or { prev: None, next: None } when
\* the entry is absent (unwrap_or_else of the storage get).
read(ok, a, key) ==
    IF ok[<<a, key>>] = NoItem THEN [prev |-> None, next |-> None]
                               ELSE ok[<<a, key>>]

\* write(account, key, item): insert into the storage map.
write(ok, a, key, item) == [ok EXCEPT ![<<a, key>>] = item]

(***************************************************************************)
(* Variants of append and remove with a plausible bug each, kept beside   *)
(* the faithful definitions so that the properties of MCKitties can be    *)
(* shown to catch them.                                                   *)
(***************************************************************************)

\* append linking the new kitty in before the first node instead of after
\* the last one: a well-formed list in the wrong order.
append_at_front(ok, a, k) ==
    LET head == read(ok, a, None)
        ok1  == write(ok, a, None, [prev |-> IF head.prev = None THEN k ELSE head.prev,
                                    next |-> k])
        nxt  == read(ok1, a, head.next)
        ok2  == write(ok1, a, head.next, [prev |-> k, next |-> nxt.next])
    IN  write(ok2, a, k, [prev |-> None, next |-> head.next])

\* remove reading the next neighbour before the prev neighbour is written
\* back: when both neighbours are the head, the second write undoes the
\* first.
remove_stale_next(ok, a, k) ==
    IF ok[<<a, k>>] = NoItem THEN ok
    ELSE LET item == ok[<<a, k>>]
             ok1  == write(ok, a, k, NoItem)
             prev == read(ok1, a, item.prev)
             next == read(ok1, a, item.next)
             ok2  == write(ok1, a, item.prev, [prev |-> prev.prev, next |-> item.next])
         IN  write(ok2, a, item.next, [prev |-> item.prev, next |-> next.next])

\* append(account, kitty_id): link kitty_id in after the current last node.
append(ok, a, k) ==
    LET head == read(ok, a, None)
        ok1  == write(ok, a, None, [prev |-> k, next |-> head.next])
        prev == read(ok1, a, head.prev)
        ok2  == write(ok1, a, head.prev, [prev |-> prev.prev, next |-> k])
    IN  write(ok2, a, k, [prev |-> head.prev, next |-> None])

\* remove(account, kitty_id): take the node out of storage and splice its
\* neighbours together; a kitty without a node leaves storage unchanged.
remove(ok, a, k) ==
    IF ok[<<a, k>>] = NoItem THEN ok
    ELSE LET item == ok[<<a, k>>]
             ok1  == write(ok, a, k, NoItem)
             prev == read(ok1, a, item.prev)
             ok2  == write(ok1, a, item.prev, [prev |-> prev.prev, next |-> item.next])
             next == read(ok2, a, item.next)
         IN  write(ok2, a, item.next, [prev |-> item.prev, next |-> next.next])

(***************************************************************************)
(* Reading the list back: the kitties met by following next pointers from *)
(* the head, stopping at None or after one more step than there are       *)
(* indices (a cycle that misses the head shows up as a repeated index).   *)
(***************************************************************************)
RECURSIVE Walk(_, _, _, _)
Walk(ok, a, key, fuel) ==
    LET nxt == read(ok, a, key).next
    IN  IF nxt = None \/ fuel = 0 THEN <<>>
        ELSE <<nxt>> \o Walk(ok, a, nxt, fuel - 1)

OwnedSeq(ok, a) == Walk(ok, a, None, Cardinality(Ids) + 1)

\* The kitties that have a node in account a's list.
Linked(ok, a) == {k \in Ids : ok[<<a, k>>] # NoItem}

(***************************************************************************)
(* A well-formed list: walking next from the head returns to the head     *)
(* after visiting each node exactly once, and every prev pointer is the   *)
(* inverse of a next pointer (the first node's prev and the head's prev   *)
(* close the ring).                                                        *)
(***************************************************************************)
WellFormed(ok, a) ==
    LET s == OwnedSeq(ok, a)
    IN  /\ Len(s) = Cardinality(ToSet(s))
        /\ ToSet(s) = Linked(ok, a)
        /\ read(ok, a, None).prev = IF s = <<>> THEN None ELSE s[Len(s)]
        /\ \A i \in 1..Len(s) :
              read(ok, a, s[i]).prev = IF i = 1 THEN None ELSE s[i - 1]

=============================================================================
