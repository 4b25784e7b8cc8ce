----------------------------- MODULE ScannerView -----------------------------
(***************************************************************************)
(* What a LinkAccount promises its RPC clients, without the machinery of  *)
(* Refresh: the wallet has scanned a prefix 0 .. n-1 of the node's chain,  *)
(* one block at a time and never past the node's tip; it holds exactly    *)
(* the owned outputs of that prefix that no scanned input has spent; and  *)
(* each subaddress balance is the sum of its unspent outputs.  A rescan   *)
(* forgets the prefix; a closed wallet scans no more; a new subaddress    *)
(* only widens what is owned from the next block on.                      *)
(*                                                                         *)
(* An output is identified by its key image, the set-wise reading of      *)
(* "a key image identifies the output it spends".                          *)
(***************************************************************************)
EXTENDS Naturals, Sequences, SequencesExt, FiniteSets

CONSTANTS Tokens, Chain, MaxSubs

Block(h) == Chain[h + 1]
MaxHeight == Len(Chain) - 1
Subs == 0 .. MaxSubs - 1

VARIABLES
  tip,       \* the node's height
  n,         \* blocks scanned: 0 .. n-1
  open,      \* the account is open
  subs,      \* number of subaddresses
  unspent,   \* owned, unspent outputs: [ki, token, sub, amt, height]
  balance    \* token -> sub -> amount

vars == << tip, n, open, subs, unspent, balance >>

Txs(h) == ToSet(Block(h))

(* The outputs of block h, and those paying subaddresses 0 .. s-1.         *)
Outs(h) ==
  UNION { { [ki |-> tx.outs[j].ki, token |-> tx.token, sub |-> tx.outs[j].sub,
             amt |-> tx.outs[j].amt, height |-> h] : j \in DOMAIN tx.outs }
          : tx \in Txs(h) }
Owned(h, s) == { r \in Outs(h) : r.sub \in 0 .. s - 1 }

(* The key images block h's inputs spend.                                  *)
SpentIn(h) == UNION { ToSet(tx.ins) : tx \in Txs(h) }

Bal(U) == [t \in Tokens |-> [s \in Subs |->
             MapThenSumSet(LAMBDA r : r.amt, { r \in U : r.token = t /\ r.sub = s })]]

Init ==
  /\ tip = 0 /\ n = 0 /\ open = TRUE
  /\ subs \in 1 .. MaxSubs
  /\ unspent = {} /\ balance = Bal({})

(* The node appends a block.                                               *)
Grow ==
  /\ tip < MaxHeight /\ tip' = tip + 1
  /\ UNCHANGED << n, open, subs, unspent, balance >>

(* The next block, at most the tip, is taken in: its owned outputs join,   *)
(* the outputs its inputs spend leave, and the balances follow.            *)
Advance ==
  /\ open /\ n <= tip
  /\ n' = n + 1
  /\ unspent' = { r \in unspent \cup Owned(n, subs) : r.ki \notin SpentIn(n) }
  /\ balance' = Bal(unspent')
  /\ UNCHANGED << tip, open, subs >>

(* An open account forgets everything it scanned.                          *)
Rescan ==
  /\ open
  /\ n' = 0 /\ unspent' = {} /\ balance' = Bal({})
  /\ UNCHANGED << tip, open, subs >>

(* The account is closed for good.                                         *)
Close ==
  /\ open /\ open' = FALSE
  /\ UNCHANGED << tip, n, subs, unspent, balance >>

(* A subaddress is added.                                                  *)
AddSub ==
  /\ subs < MaxSubs /\ subs' = subs + 1
  /\ UNCHANGED << tip, n, open, unspent, balance >>

Next == Grow \/ Advance \/ Rescan \/ Close \/ AddSub

Spec == Init /\ [][Next]_vars
====
