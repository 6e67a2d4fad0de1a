---------------------------- MODULE PriceOracle ----------------------------
(***************************************************************************)
(* The price oracle pallet of src/lession4/assagnment/src/lib.rs.  The    *)
(* node spawns the pallet's offchain_worker for every imported block; the *)
(* worker of a block whose number is 1 modulo TX_TYPES = 4 fetches the    *)
(* DOT price over HTTP (fetch_n_parse, bounded by FETCH_TIMEOUT_PERIOD)    *)
(* and submits the unsigned call submit_number_unsigned(price) to the      *)
(* transaction pool.  validate_unsigned gives every such call the same    *)
(* provides tag and a longevity of 3 blocks, so the pool holds at most one *)
(* of them; a block author may include it, and when it is included         *)
(* append_or_replace_prince pushes the price onto the bounded Princes      *)
(* queue.                                                                  *)
(*                                                                         *)
(* The fetch runs concurrently with block import, for at most FetchBlocks *)
(* imports; a spawned worker starts within WorkerDelay imports.  Prices   *)
(* are small numbers (what u128_from_price returned; see PriceParse);     *)
(* HTTP, UTF-8 and JSON errors are one nondeterministic failure.          *)
(*                                                                         *)
(* The pool is the framework's, outside this repository.  A worker's call *)
(* is validated at the worker's own block, so its life is counted from    *)
(* that block; a call is refused while a pooled call provides its tag; a  *)
(* call is dropped once Longevity blocks have passed since it was          *)
(* validated, unless the pool re-validated it at a later block, which     *)
(* starts its life again.  validate_unsigned ignores the transaction      *)
(* source and submit_number_unsigned only checks ensure_none, so any      *)
(* party may put the same call, with any price, into the pool             *)
(* (ExternalSubmit).                                                       *)
(***************************************************************************)
EXTENDS Integers, Sequences

CONSTANTS
    NumVecLen,   \* NUM_VEC_LEN: the bound of the Princes queue (10)
    TxTypes,     \* TX_TYPES: the period of the off-chain worker (4)
    FetchBlocks, \* blocks that can be imported during one fetch
    WorkerDelay, \* blocks that can be imported before a spawned worker starts
    Prices,      \* the prices the fetch may return
    NoTx,        \* no submit_number_unsigned call in the pool
    NoFetch      \* no fetch in flight

\* .longevity(3)
Longevity == 3

ASSUME /\ NumVecLen \in Nat \ {0}
       /\ TxTypes \in Nat \ {0, 1}
       /\ FetchBlocks \in Nat /\ WorkerDelay \in Nat
       /\ WorkerDelay + FetchBlocks < Longevity
       /\ Longevity < TxTypes

\* The off-chain worker's results (offchain_worker's `result`).
OcwResults == {"Ok", "UnknownOffchainMux", "HttpFetchingError",
               "OffchainUnsignedTxError"}

VARIABLES
    princes,      \* Princes: VecDeque<u128>
    block,        \* the best block number modulo TX_TYPES
    ocwPending,   \* the blocks (mod TX_TYPES) whose spawned worker has not started
    fetch,        \* NoFetch, or [round: the worker's block, took: imports since start]
    pool,         \* NoTx, or the pooled call [price, age: blocks since validated]
    lastResult    \* the result of the last finished off-chain worker

vars == <<princes, block, ocwPending, fetch, pool, lastResult>>

\* The one provides tag "submit_number_unsigned" of validate_unsigned is
\* free: the pool takes a new call only then.
TagFree == pool = NoTx

\* Dropped one block late: after more than Longevity blocks.
AgedOneLate(p) == IF p.age > Longevity THEN NoTx
                  ELSE [p EXCEPT !.age = @ + 1]

\* A pooled call that is not included in the next block: dropped once
\* Longevity blocks have passed since the block it was validated at.
Aged(p) == IF p.age + 1 >= Longevity THEN NoTx
           ELSE [p EXCEPT !.age = @ + 1]

(***************************************************************************)
(* append_or_replace_prince                                               *)
(***************************************************************************)
\* The bound tested with > instead of ==: the queue grows to NUM_VEC_LEN + 1.
append_or_replace_prince_gt(q, prince) ==
    Append(IF Len(q) > NumVecLen THEN Tail(q) ELSE q, prince)

\* Drop the oldest price when the queue is full, then push the new one.
append_or_replace_prince(q, prince) ==
    Append(IF Len(q) = NumVecLen THEN Tail(q) ELSE q, prince)

Init ==
    /\ princes = <<>>
    /\ block = 0
    /\ ocwPending = {}         \* no worker runs for the genesis block
    /\ fetch = NoFetch
    /\ pool = NoTx
    /\ lastResult = "Ok"

(***************************************************************************)
(* Block import.  The author either includes the pooled call, whose       *)
(* dispatch submit_number_unsigned (ensure_none passes for an unsigned    *)
(* call) appends its price, or leaves it in the pool, where it ages or is *)
(* re-validated at the new block.  A fetch that has used up its deadline  *)
(* ends before another block is imported; a spawned worker starts before  *)
(* more than WorkerDelay further blocks are imported.                     *)
(***************************************************************************)
ImportBlock ==
    /\ fetch # NoFetch => fetch.took < FetchBlocks
    /\ \A n \in ocwPending : (block - n) % TxTypes < WorkerDelay
    /\ block' = (block + 1) % TxTypes
    /\ ocwPending' = ocwPending \cup {block'}
    /\ fetch' = IF fetch = NoFetch THEN NoFetch ELSE [fetch EXCEPT !.took = @ + 1]
    /\ \/ /\ pool # NoTx
          /\ princes' = append_or_replace_prince(princes, pool.price)
          /\ pool' = NoTx
       \/ /\ pool # NoTx
          /\ pool' \in {Aged(pool), [pool EXCEPT !.age = 0]}
          /\ UNCHANGED princes
       \/ /\ pool = NoTx
          /\ UNCHANGED <<princes, pool>>
    /\ UNCHANGED lastResult

(***************************************************************************)
(* offchain_worker(block_number): current % TX_TYPES selects the work; 1  *)
(* starts offchain_unsigned_tx, anything else is UnknownOffchainMux.  The *)
(* worker reads the number of its own block, n, however many blocks were *)
(* imported since it was spawned.  (A fetch of the round before cannot    *)
(* still be in flight: WorkerDelay + FetchBlocks < TX_TYPES.)              *)
(***************************************************************************)
OffchainWorker(n) ==
    /\ n \in ocwPending
    /\ ocwPending' = ocwPending \ {n}
    /\ IF n % TxTypes = 1
          THEN /\ fetch = NoFetch
               /\ fetch' = [round |-> n, took |-> 0]
               /\ UNCHANGED lastResult
          ELSE /\ lastResult' = "UnknownOffchainMux"
               /\ UNCHANGED fetch
    /\ UNCHANGED <<princes, block, pool>>

(***************************************************************************)
(* offchain_unsigned_tx after fetch_n_parse: a fetch error (send, timeout, *)
(* status, UTF-8, JSON) is HttpFetchingError; otherwise the call is       *)
(* submitted, validated at the worker's block, and refused with           *)
(* OffchainUnsignedTxError when the pool already holds one providing the  *)
(* tag.                                                                    *)
(***************************************************************************)
OffchainUnsignedTx ==
    /\ fetch # NoFetch
    /\ fetch' = NoFetch
    /\ \/ /\ lastResult' = "HttpFetchingError"
          /\ UNCHANGED pool
       \/ \E price \in Prices :
            IF TagFree
               THEN /\ pool' = [price |-> price,
                                age |-> (block - fetch.round) % TxTypes]
                    /\ lastResult' = "Ok"
               ELSE /\ lastResult' = "OffchainUnsignedTxError"
                    /\ UNCHANGED pool
    /\ UNCHANGED <<princes, block, ocwPending>>

(***************************************************************************)
(* Any other party sends submit_number_unsigned(price) as an unsigned     *)
(* transaction, validated at the best block: the pool takes it when the   *)
(* tag is free (and refuses it otherwise, which changes nothing).         *)
(***************************************************************************)
ExternalSubmit ==
    /\ TagFree
    /\ \E price \in Prices : pool' = [price |-> price, age |-> 0]
    /\ UNCHANGED <<princes, block, ocwPending, fetch, lastResult>>

Next == ImportBlock \/ (\E n \in 0..(TxTypes - 1) : OffchainWorker(n))
        \/ OffchainUnsignedTx \/ ExternalSubmit

Spec == Init /\ [][Next]_vars

(***************************************************************************)
(* Properties.                                                            *)
(***************************************************************************)

\* Every variable keeps its type; in particular a pooled call is never kept
\* past its longevity without being re-validated.
TypeOK ==
    /\ princes \in Seq(Prices)
    /\ block \in 0..(TxTypes - 1)
    /\ ocwPending \subseteq 0..(TxTypes - 1)
    /\ fetch \in {NoFetch} \cup [round : 0..(TxTypes - 1), took : 0..FetchBlocks]
    /\ pool \in {NoTx} \cup [price : Prices, age : 0..(Longevity - 1)]
    /\ lastResult \in OcwResults

\* The pool and the Princes queue implement the abstract price feed: a
\* pooled call is the price on its way; including it slides the window of
\* the latest NUM_VEC_LEN recorded prices over exactly that price, once;
\* a second call (the worker's or anyone's) never replaces a pooled one;
\* dropping one records nothing.
Feed == INSTANCE OracleFeed
            WITH window <- princes,
                 pending <- IF pool = NoTx THEN NoTx ELSE pool.price
FeedRefined == Feed!Spec

=============================================================================
