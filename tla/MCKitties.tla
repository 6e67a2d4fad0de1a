----------------------------- MODULE MCKitties -----------------------------
(***************************************************************************)
(* Model-checking instance of Kitties: two accounts, a 2-bit KittyIndex   *)
(* (indices 0..3, max_value 3, so at most three kitties and the overflow  *)
(* guard of next_kitty_id is reached), asking prices 1 and 2 and a        *)
(* genesis balance of 2 so that a buy can both succeed and fail for lack  *)
(* of funds.                                                               *)
(***************************************************************************)
EXTENDS Kitties

MCIds == 0..(2 ^ KittyIndexBits - 1)

=============================================================================
