-------------------------------- MODULE MCPoe --------------------------------
(***************************************************************************)
(* TLC instance of Poe: the claims are a one-byte and a two-byte Vec<u8>. *)
(***************************************************************************)
EXTENDS Poe

MCClaims == {<<0>>, <<0, 0>>}

=============================================================================
