---------------------------- MODULE MCLinkAccount ----------------------------
(***************************************************************************)
(* Model-checking instance of LinkAccount.  Three blocks over two tokens:  *)
(* outputs to both existing subaddresses, an output of somebody else's,    *)
(* an input that is not ours, and spends of our outputs one and two blocks *)
(* after they were received.  Nobody pays the subaddress CreateSubAccount  *)
(* may add.                                                                *)
(***************************************************************************)
EXTENDS LinkAccount

CONSTANTS L, T, k1, k2, k3, kx, s1, s2

Out(sub, ki, amt) == [sub |-> sub, ki |-> ki, amt |-> amt]
Tx(token, outs, ins) == [token |-> token, outs |-> outs, ins |-> ins]

MCChain ==
  << << Tx(L, << Out(0, k1, 2), Out(NotMine, kx, 1) >>, << >>) >>,
     << Tx(T, << Out(1, k2, 1) >>, << kx >>),
        Tx(L, << Out(1, k3, 1) >>, << k1 >>) >>,
     << Tx(T, << Out(NotMine, kx, 1) >>, << k2 >>) >> >>

(* A later block pays subaddress 2, which only CreateSubAccount creates.   *)
MCChainNewSub ==
  << << Tx(L, << Out(0, k1, 2) >>, << >>) >>,
     << Tx(L, << Out(2, k2, 1) >>, << >>) >> >>

(* Two transactions pay the same one-time address, so both outputs carry   *)
(* key image k1; a later transaction spends k1 once.                       *)
MCChainSameKeyImage ==
  << << Tx(L, << Out(0, k1, 2) >>, << >>) >>,
     << Tx(L, << Out(0, k1, 1) >>, << >>) >>,
     << Tx(L, << Out(NotMine, kx, 1) >>, << k1 >>) >> >>
=============================================================================
