----------------------------- MODULE OracleFeed -----------------------------
(***************************************************************************)
(* Abstract specification of the price feed the oracle pallet of          *)
(* lession4/assagnment keeps on chain.  At most one price is on its way   *)
(* (submitted, not yet recorded); it is either recorded or given up, and  *)
(* the window of recorded prices is always the latest NumVecLen of all    *)
(* prices recorded, oldest first.  PriceOracle, with its transaction pool  *)
(* and bounded VecDeque, is shown to implement this specification.        *)
(***************************************************************************)
EXTENDS Integers, Sequences

CONSTANTS
    NumVecLen,  \* how many recorded prices the window keeps
    Prices,     \* the prices that may be submitted
    NoTx        \* no price on its way

VARIABLES
    window,     \* the latest recorded prices, oldest first
    pending     \* the price on its way, or NoTx

feedVars == <<window, pending>>

\* The last NumVecLen elements of s.
Latest(s) == IF Len(s) <= NumVecLen THEN s
             ELSE SubSeq(s, Len(s) - NumVecLen + 1, Len(s))

Init ==
    /\ window = <<>>
    /\ pending = NoTx

\* A price is sent when none is on its way.
Submit(p) ==
    /\ pending = NoTx
    /\ pending' = p
    /\ UNCHANGED window

\* The price on its way is recorded: the window slides over it.
Record ==
    /\ pending # NoTx
    /\ window' = Latest(Append(window, pending))
    /\ pending' = NoTx

\* The price on its way is given up and never recorded.
Expire ==
    /\ pending # NoTx
    /\ pending' = NoTx
    /\ UNCHANGED window

Next == (\E p \in Prices : Submit(p)) \/ Record \/ Expire

Spec == Init /\ [][Next]_feedVars

=============================================================================
