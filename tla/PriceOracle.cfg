\* The oracle with a queue bound of 2, two prices and the code's period
\* (4) and longevity (3).  A spawned worker may start one block late, and
\* one block can be imported while a fetch is in flight (the node
\* template's 6 s blocks against the 10 s fetch deadline), so the worker's
\* call enters the pool up to two blocks into its longevity.
CONSTANTS
    NumVecLen = 2
    TxTypes = 4
    WorkerDelay = 1
    FetchBlocks = 1
    Prices = {1, 2}
    NoTx = NoTx
    NoFetch = NoFetch
SPECIFICATION Spec
INVARIANT TypeOK
PROPERTY FeedRefined
