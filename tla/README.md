# TLA+ models of the Substrate tutorial pallets

This directory holds TLA+ models of the pallets in `src/` and the TLC configurations
that check them. `PROJECT.json` lists the components, the runs, the map from each
definition to the source lines it translates, the findings and the hazards.

## Inventory

The repository holds several FRAME pallets from a Substrate course. Each pallet is a
module plugged into a runtime. Its storage is a key-value map. Each dispatchable call
is an extrinsic that runs to completion inside a block. Calls of different users never
interleave inside a call; what varies is the **order and choice of calls**. In the
framework versions used here a failing call keeps the writes it made before failing.
So the order of checks and writes inside a call matters.

| Component | Source | State | Operations | Status |
|---|---|---|---|---|
| Kitties pallet | `pallets/substrate-kitties/runtime/src/kitties.rs` | `Kitties`, `KittiesCount`, `OwnedKitties`, `KittyOwners`, `KittyPrices`; balances through `T::Currency` | `create`, `breed`, `transfer`, `ask`, `buy`; helpers `next_kitty_id`, `insert_kitty`, `do_transfer`, `do_breed` | modelled |
| OwnedKitties linked list | same file, lines 152-215 (the live code calls `crate::linked_item::LinkedList`, which is not in the repository) | one doubly linked ring per account, stored under keys `(account, Option<KittyIndex>)`; `None` is the head | `read`, `write`, `append`, `remove` | modelled |
| DNA mixing | same file, `random_value`, `combine_dna` | none | pure functions | `combine_dna` and the byte loop of `do_breed` modelled (`CombineDna`) |
| Proof of existence | `pallets/poe/src/lib.rs`, `tests.rs` | `Proofs: claim -> (owner, block)`, template `Something` | `create_claim`, `revoke_claim`, `do_something`, `cause_error` | modelled (`Poe`, `MCPoe`); one test checked as a property |
| Price oracle | `lession4/assagnment/src/lib.rs` | `Princes`: a queue bounded by `NUM_VEC_LEN = 10` | `offchain_worker`, `submit_number_unsigned`, `append_or_replace_prince`, `u128_from_price`, `validate_unsigned` | modelled (`PriceOracle`, `PriceParse`, abstract `OracleFeed`) |
| Benchmark demo | `lession6/.../benchmark-demo/src/lib.rs` | `Something: Option<u32>` | `do_something` (one put) | not modelled: the same code as the POE `do_something` |
| Expanded runtime | `lession3/.../expanded.rs` | the template `Something`, and the first kitties version (`Kitties`, `KittiesCount`) | template `do_something`, first `create` | first `create` modelled (`KittiesV0`); the rest is generated glue |

How the parts interact:

- **Kitties and the list.** The pallet keeps ownership twice.
  - `KittyOwners` maps a kitty to its owner.
  - `OwnedKitties` holds one linked list per owner.
  - `transfer` and `ask` check ownership in the list. `breed` and `buy` check it in `KittyOwners`.
  - `insert_kitty` and `do_transfer` update the two indexes one after the other.
- **Kitties and currency.** `buy` calls the balances pallet (`T::Currency::transfer`) before any write of its own.
- **Price oracle.** An off-chain worker fetches a price over HTTP, parses it (`u128_from_price`) and submits an unsigned transaction. `submit_number_unsigned` appends the price to a bounded queue. `validate_unsigned` gives every such transaction the same `provides` tag. It ignores the transaction source, and `submit_number_unsigned` only checks `ensure_none`, so any party can submit the same call with any price.

What is hard here, and what a unit test hardly reaches:

- long call sequences of two owners: create, breed, ask, transfer (also to oneself) and buy (also of one's own kitty);
- the read-after-write order inside `append` and `remove` in the one-element and two-element cases;
- the `max_value` edge of `KittyIndex`;
- a listing that outlives its owner;
- fetch and submit failures in the oracle, and the queue at its bound;
- fixed-point parsing edge cases.

Correctness properties, per component:

- **Kitties:**
  - indices stay fresh up to `max_value`;
  - the two ownership indexes agree;
  - a sale pays the current owner a price that owner asked;
  - money moves only as the asked price of a kitty the payer receives.
- **List:** the ring stays well formed, and it behaves as an ordered sequence with append-at-end and remove.
- **POE:** the calls are single guarded writes with no interleaving inside them, so no safety property of the POE pallet says more than one of its `ensure!` lines. What is checked is what the unit tests and the `Trait` comment claim, and both claims fail.
- **Oracle:**
  - the pool and queue implement an abstract price feed: one price on its way at a time, recorded once or given up, and the queue is the latest `NUM_VEC_LEN` recorded prices;
  - the parser reads a price below one unit exactly, yields the price in millionths, and never panics.
- **DNA:** every bit of a child's DNA comes from the parent the selector picks.

## Modules

- `OwnedKittiesIndex.tla`: the abstract specification of the owned-kitties index. Each
  account has a sequence of its kitties. `Add` appends a new kitty. `Move` takes a
  kitty out of one sequence and appends it to another (or to the same one).
- `OwnedKittiesList.tla`: the linked list. `OwnedKitties` is one function from
  `<<account, key>>` to a node `[prev, next]` or `NoItem`. A key is `None` (the head) or
  a kitty index.
  - `read`, `write`, `append` and `remove` translate the Rust statement by statement. Each read sees the writes before it.
  - `OwnedSeq` reads a list back by following `next` from the head.
  - `WellFormed` says the ring is intact.
- `Kitties.tla`: the pallet. It has one action per dispatchable call (`Create`, `Breed`,
  `Transfer`, `Ask`, `Buy`). The helpers `NextKittyIdOk`, `InsertKitty` and `DoTransfer`
  keep the code's names.
  - A failed call writes nothing before it fails, so it is a stuttering step.
  - `KittiesCount` is computed modulo `2^KittyIndexBits`.
  - DNA is abstracted away: `kitties` is the set of indices that hold a kitty.
  - The balances pallet is outside the repository. It is modelled as a map of free balances. Its transfer fails when the payer cannot pay.
  - Events are left out.
- `MCKitties.tla`: the TLC instance of `Kitties`.
- `KittiesV0.tla`: the first kitties version in `expanded.rs` (`mod kitties`). It has
  one call, `create`, which stores a kitty at `KittiesCount` and puts `count + 1` back
  with no overflow check.
  - A `u32` addition at the maximum either panics (overflow checks on: the block changes nothing) or wraps (release build). The model keeps the wrap, the only outcome that changes state.
  - The width is the constant `CountBits`.

- `PriceParse.tla`: `u128_from_price`. A string is a sequence of characters, each with a
  byte width, because `str::len()` counts bytes and `&s[0..6]` slices bytes (a cut inside
  a character panics). `Split`, `FromStr` (`u128::from_str`: an optional `+`, then digits)
  and `UnwrapOr0` are the library calls it makes. The reference `Millionths` reads a
  decimal numeral as a price in units of 10^-FracDigits. The deserializer runs once on
  every string of the alphabet up to `MaxLen` characters.
- `PriceOracle.tla`: the off-chain worker and the pool. State: `princes` (the queue), the
  best block number modulo `TX_TYPES`, the blocks whose spawned worker has not started yet, the fetch
  in flight (blocks imported since it started), the pooled call (price and age) and the
  result of the last worker run.
  - `ImportBlock`: the next block either includes the pooled call (dispatching
    `submit_number_unsigned`, i.e. `append_or_replace_prince`) or leaves it in the pool,
    where it either ages (`Aged`: dropped `Longevity` = 3 blocks after the block it was
    validated at) or is re-validated by the pool at the new block, which starts its life
    again.
  - `OffchainWorker(n)`: the worker spawned for block `n` starts and reads its own
    block number, whatever was imported since: `current % TX_TYPES`; 1 starts a fetch,
    anything else returns `UnknownOffchainMux`. A spawned worker starts before more
    than `WorkerDelay` further blocks are imported. The guard that no fetch is in flight
    is not in the code; it never blocks, because `WorkerDelay + FetchBlocks` is below the
    4-block period (an `ASSUME`), so the fetch of the round before has ended.
  - `OffchainUnsignedTx`: the fetch ends with `HttpFetchingError` or a price; the call is
    submitted and refused (`OffchainUnsignedTxError`) when a pooled call already holds the
    one `provides` tag of `validate_unsigned` (`TagFree`). The pool validates a worker's
    call at the worker's block, so the call enters the pool already as old as the blocks
    imported since then.
  - `ExternalSubmit`: another party sends `submit_number_unsigned` with any price; the
    pool takes it, validated at the best block, when the tag is free.
  - A fetch runs concurrently with block import, for at most `FetchBlocks` imports.
- `OracleFeed.tla`: the abstract price feed. `window` is the latest `NumVecLen` recorded
  prices, `pending` the one price on its way. `Submit` needs no price on its way, `Record`
  slides the window over the pending price, `Expire` gives it up. `PriceOracle` maps
  `window <- princes` and `pending <-` the price of the pooled call.
- `Poe.tla` with `MCPoe.tla`: one action per call (`create_claim`, `revoke_claim`,
  `do_something`, `cause_error`), each with every error branch in the code's order, plus
  the system's `NewBlock`. A failed call changes no storage; `lastCall` holds the call and
  its `DispatchResult`, which is what the unit tests look at. `Something` has the width
  `SomethingBits`.
- `CombineDna.tla`: `combine_dna` on `Width`-bit bytes (`!` is the `Width`-bit complement)
  and `BreedDna`, the byte loop of `do_breed`, over every pair of parents and selector.

Each module also holds a few variants of its definitions, each with a plausible bug
(for example `remove_stale_next` or `NextKittyIdPastMax`). They are used to show that
every property catches a real mistake in the code it is about. `PROJECT.json`
"mutants" pairs each variant with a property.

## Runs

| Run | Config | Expect | What it shows |
|---|---|---|---|
| `kitties_safety` | `MCKitties.cfg` | pass | Every call sequence keeps `TypeOK`, `KittyIdsBelowCount`, `OwnershipConsistent` and `OwnedListsWellFormed`. `OwnedIndexRefined` holds: the linked lists implement `OwnedKittiesIndex` under the mapping `owned <- [a |-> OwnedSeq(ownedKitties, a)]`. `PaidOnlyAskedPriceForKitty`: a balance drops only in a step where that account receives a listed kitty from another owner and pays exactly its asked price. |
| `kitties_v0_overwrite` | `KittiesV0_overwrite.cfg` | violation | `KittiesNeverOverwritten` fails with a 2-bit count after five creates. The fifth create wraps to index 0 and replaces kitty 0 (finding below). |
| `kitties_stale_price` | `MCKitties_stale_price.cfg` | violation | `ListingClearedOnOwnerChange` fails after create, ask, transfer. The old owner's price survives the transfer, so the kitty is for sale at a price its new owner never asked (finding below). |
| `price_parse` | `PriceParse.cfg` | pass | `FractionOnlyExact`: every decimal numeral below one unit comes out exact, over all 19,608 strings of up to 5 characters: fractions shorter than, as long as and longer than the kept decimals. (A numeral has no two-byte character, so the panic is the next run's.) |
| `price_parse_scale` | `PriceParse_scale.cfg` | violation | `ParsesToMillionths` fails on "9" (90 instead of 900): the integer part is scaled one decimal short (finding below). |
| `price_parse_panic` | `PriceParse_panic.cfg` | violation | `NeverPanics` fails on ".0w": the fraction "0w" is 3 bytes, and the cut at byte 2 falls inside the two-byte `w` (finding below). |
| `oracle` | `PriceOracle.cfg` | pass | `TypeOK` (also: no pooled call outlives its longevity unless re-validated); `FeedRefined`: the pool and queue implement `OracleFeed`. A call is included at most once, never replaced while pooled, a dropped or refused call records nothing, and the queue is the latest `NUM_VEC_LEN` included prices. Workers start up to a block late, fetches span a block import, and other parties submit at any time. |
| `poe_test_revoke` | `MCPoe_test_revoke.cfg` | violation | `SecondCreateBySameOwnerOk`, the assertion of the test `revoke_claim_works`, fails: the code returns `ProofAlreadyExist` (finding below). |
| `poe_proof_length` | `MCPoe_proof_length.cfg` | violation | `ProofLengthBounded` fails: a claim longer than `MaxProofLength` is stored (finding below). |
| `combine_dna` | `CombineDna.cfg` | pass | `ChildBitsFromParents`: each bit of the bred DNA is the bit of the parent the selector picks. |

Bounds (`MCKitties.cfg`):

- two accounts (model values);
- `KittyIndexBits = 2`, so indices are 0..3 and `max_value = 3`. At most three kitties exist, and the refusal of `next_kitty_id` is reached.
- asking prices {1, 2}, and a genesis balance of 2 per account. A buy can then both succeed and fail for lack of funds.

Three kitties across two accounts cover the cases that matter:

- lists of length 0 to 3, so every head, middle and tail case of `append` and `remove` occurs;
- transfers and purchases to oneself and to the other account.

The full state graph has about 3,900 states and is explored in seconds.

Bounds of the other runs:

- `PriceParse.cfg`: the alphabet is three digits, `.`, `+`, a one-byte non-digit `x` and a
  two-byte character `w`, with strings of up to 5 characters. `FracDigits = 2` and
  `IntMultiplier = 10` keep the code's ratio (6 decimals against 100_000 = 10^5). With 5
  characters a fraction can be shorter than, equal to and longer than the kept decimals,
  and a two-byte character can sit across the cut.
- `PriceOracle.cfg`: `NUM_VEC_LEN = 2`, prices {1, 2}, and the code's `TX_TYPES = 4` and
  longevity 3. The queue reaches its bound and wraps. The block number is kept modulo 4,
  which is all the worker reads, so the state space is finite without a block bound.
  `FetchBlocks = 1` is the node template's 6 s block time against the 10 s fetch
  deadline, and `WorkerDelay = 1` lets a spawned worker start after the next import. The
  worker's call then enters the pool with an age of 0, 1 or 2, so every case of the
  longevity, including a call dropped at the first import after it is pooled, occurs.
- `MCPoe_*.cfg`: two accounts and an unsigned origin, claims of one and two bytes with
  `MaxProofLength = 1`, blocks 0 and 1, and a 2-bit `Something`, so `StorageOverflow` is
  reached.
- `CombineDna.cfg`: DNAs of two 2-bit bytes. Bits do not interact in `&`, `|` and `!`, so
  two bits per byte and two bytes cover every case of the 8-bit, 16-byte code.

Fairness. No run assumes any. Extrinsics are submitted by users, and nothing in the
kitties or POE pallets promises that any call eventually happens. In the oracle, whether
an author includes the pooled call is outside the pallet, and the pool may re-validate a
pooled call at every block, which renews its longevity; so not even longevity(3)
guarantees that the shared tag is ever free again. That a price eventually arrives cannot
hold either, because HTTP failures may persist. Every run therefore checks safety.

## Findings

- **Stale listing after transfer** (`kitties.rs:100-106`). `transfer` never removes
  `KittyPrices[kitty_id]`; only `buy` does (line 138). Suppose A asks a price for kitty 0
  and then transfers it to B. Anyone can now buy kitty 0 from B at A's price, and B
  never listed it.

- **Index wrap in the first kitties version** (`expanded.rs:1055`). `create` puts
  `count + 1` unchecked. After 2^32 kitties a release build wraps the count to 0, and the
  next create overwrites kitty 0. `kitties.rs` fixes this with the "Kitties count
  overflow" check of `next_kitty_id`. The `kitties_safety` run shows that the fix
  works: `KittyIdsBelowCount` holds up to `max_value`.

- **Integer part scaled one decimal short** (`lession4/.../lib.rs:83`). `u128_from_price`
  multiplies the integer part by 100_000 but pads or cuts the fraction to 6 digits. So
  "12.5" becomes 1_700_000 instead of 12_500_000, against the doc comment "keep 6
  decimals". TLC's trace, with 2 kept decimals and the same ratio: "9" gives 90
  instead of 900.

- **The parser panics on a multi-byte character** (`lib.rs:86`). The fraction is cut
  with the byte slice `&sps[1][0..6]`, which panics when byte 6 falls inside a multi-byte
  UTF-8 character ("1.12345é"). `u128_from_price` returns a `Result`, but a price string
  from the server makes the off-chain worker panic instead. (Unparsable parts becoming 0
  through `unwrap_or(0)` is deliberate, and not reported.)

- **POE tests contradict the code** (`poe/src/tests.rs:38`, `:50-53`).
  - `revoke_claim_works` expects a second `create_claim` of one's own claim to succeed, but `create_claim` returns `ProofAlreadyExist`. The test probably meant `revoke_claim`.
  - `creat_claim_failed_when_claim_is_not_exist` expects `ClaimNotExist` from a fresh `create_claim`, which succeeds.
  - Neither file compiles as written, so these tests never ran.

- **Proof length never checked** (`poe/src/lib.rs:22`). The comment on `Trait` promises
  an error for proofs longer than `MaxProofLength`. `create_claim` never reads it.

## Plan

Ordered by importance. Sitting 1 delivered items 1-4, sitting 2 items 5-8, sitting 3 the first part of item 9 and item 10.

1. `OwnedKittiesList` and `OwnedKittiesIndex` (list plus refinement). Done.
2. `Kitties` with `MCKitties`: safety run and the stale-price violation. Done.
3. Inventory, hazards, map. Done.
4. `KittiesV0`: the first `create` of `expanded.rs`, with its violation run. Done.
5. `PriceOracle`: schedule, fetch and submit failures, the shared tag, longevity from the worker's block and re-validation, and the bounded queue. Done.
6. `PriceParse`: `u128_from_price` against the fixed-point reference. Done.
7. `Poe`: the four calls and two violations (a test, the length comment). Done.
8. `CombineDna`: against the per-bit reference. Done.
9. Next:
   - an abstract price feed refined by `PriceOracle`, and unsigned calls from other parties. Done (sitting 3).
   - compose `PriceParse` into `PriceOracle`. Not done: for the oracle's state a parse that panics is one more failed round, the same as `HttpFetchingError`, and the parsed values are just prices, so the composition would only enlarge the state space;
   - DNA in `Kitties` as a small bit vector, so that breeding is checked in the pallet model.
10. `PaidOnlyAskedPriceForKitty` in the kitties run: balances move only as the asked price of a bought kitty. Done.

## Not modelled

- Consensus, and the storage trie and its transactional semantics. Of the transaction pool, only what the oracle relies on is modelled: one call per tag, longevity from the validation block, re-validation, and inclusion by any author.
- Forks. Substrate runs the off-chain worker for each new best block, so after a reorg a
  round's worker can run twice at the same height, and a recorded price can be reverted
  with its block. Modelling that needs the chain itself, not a block number modulo 4.
- The HTTP client and the JSON decoder (framework). They appear only as success or failure.
- Events, weights, metadata, codec and dispatch glue (macro output).
- The benchmark demo pallet: its one call is the same `Something::put` as the POE
  `do_something`, which `Poe` models.
- The transaction pool beyond what the oracle needs: priorities, propagation, and pool limits. Pool limits are another way for a submission to fail, and one that records nothing, as `FeedRefined` allows. The pool also refuses, after inclusion, a call identical to one already included; that is another refusal, and it is left out.
- The glue in `expanded.rs` (about 4,700 lines of macro output: storage accessors, codec, metadata, dispatch) holds no logic of the repository's own. This is why the map covers a small share of the repository's lines.
- The kitties unit tests (`kitties.rs` 288-623) pin down `append` and `remove` on concrete sequences; `OwnedIndexRefined` checks the same behaviour for all sequences.
