------------------------------ MODULE MCWallet ------------------------------
(***************************************************************************)
(* Model-checking instance of Wallet: two keystore addresses, enough       *)
(* LinkAccount ids for both to be open while a third is being dropped.     *)
(***************************************************************************)
EXTENDS Wallet

CONSTANTS a1, a2, c1, c2
=============================================================================
