------------------------------- MODULE SignUTXO -------------------------------
(***************************************************************************)
(* The UTXO send RPCs of src/wallet/rpc/handler.go: signUTXOTransaction    *)
(* checks the destinations of a SendUTXOTxArgs and turns them into         *)
(* DestEntries, Wallet.CreateUTXOTransaction builds one or more signed     *)
(* txs, and SendUTXOTransaction (one tx only) or SendUTXOTransactionSplit  *)
(* hands them to Wallet.Transfer.                                          *)
(*                                                                         *)
(* A destination address string is abstracted to its kind:                *)
(*   "std", "sub"   95 chars, decodes, checksum and prefix good;           *)
(*   "badsum"       95 chars, checksum wrong;                              *)
(*   "badprefix"    95 chars, checksum good, prefix neither address kind;  *)
(*   "hex"          a hex account address (common.IsHexAddress);           *)
(*   "junk"         anything else.                                         *)
(* CreateUTXOTransaction and Transfer (ring selection, signing, the node)  *)
(* are outside this file: CreateUTXOTransaction fails or returns 1..MaxTxs *)
(* txs.                                                                    *)
(***************************************************************************)
EXTENDS Naturals, Sequences, SequencesExt, FiniteSets

CONSTANTS
  UTXO_DESTS_MAX_NUM,  \* wtypes.UTXO_DESTS_MAX_NUM
  MaxDests,            \* longest Dests list enumerated
  MaxTxs,              \* most txs CreateUTXOTransaction returns
  Tokens               \* token ids; "" is common.EmptyAddress

AddrKinds == {"std", "sub", "badsum", "badprefix", "hex", "junk"}
Len95(k) == k \in {"std", "sub", "badsum", "badprefix"}   \* len(toAddress) == 95

(* wallet.StrToAddress: the length, checksum and prefix checks.            *)
StrToAddressOk(k) == k \in {"std", "sub"}
(* wallet.IsSubaddress: the decoded prefix is the sub-address prefix.      *)
IsSubaddress(k) == k = "sub"
IsHexAddress(k) == k = "hex"

Calls == {"send", "split"}   \* SendUTXOTransaction, SendUTXOTransactionSplit

VARIABLES
  call,     \* which RPC runs, and its args: [rpc, token, dests]
  pc,       \* "sign" | "create" | "transfer" | "done"
  dests,    \* the DestEntries built so far: [utxo, sub, addr index]
  result    \* "" until the RPC returns; then "ok" or the error

vars == << call, pc, dests, result >>

(* Variant: the limit check after the count is compared with >.            *)
CheckDestsLate(ds) ==
  LET Step(acc, i) ==
        LET k == ds[i] IN
        IF acc.err /= "" THEN acc
        ELSE IF Len95(k)
        THEN IF acc.nUtxo > UTXO_DESTS_MAX_NUM THEN [acc EXCEPT !.err = "overlimit"]
             ELSE IF ~StrToAddressOk(k) THEN [acc EXCEPT !.err = "addr"]
             ELSE [acc EXCEPT !.out = Append(@, [utxo |-> TRUE, sub |-> IsSubaddress(k), at |-> i]),
                              !.nUtxo = @ + 1]
        ELSE IF ~IsHexAddress(k) THEN [acc EXCEPT !.err = "addr"]
        ELSE IF acc.hasAcct THEN [acc EXCEPT !.err = "acct"]
        ELSE [acc EXCEPT !.out = Append(@, [utxo |-> FALSE, sub |-> FALSE, at |-> i]),
                         !.hasAcct = TRUE]
  IN FoldLeft(Step, [out |-> << >>, nUtxo |-> 0, hasAcct |-> FALSE, err |-> ""],
              [i \in 1 .. Len(ds) |-> i])

(* The dests loop of signUTXOTransaction: a 95-char address is a UTXO      *)
(* destination (at most UTXO_DESTS_MAX_NUM of them, each must parse);      *)
(* anything else must be a hex account address, and only one of those.    *)
(* The first failing destination returns its error.                        *)
CheckDests(ds) ==
  LET Step(acc, i) ==
        LET k == ds[i] IN
        IF acc.err /= "" THEN acc
        ELSE IF Len95(k)
        THEN IF acc.nUtxo >= UTXO_DESTS_MAX_NUM THEN [acc EXCEPT !.err = "overlimit"]
             ELSE IF ~StrToAddressOk(k) THEN [acc EXCEPT !.err = "addr"]
             ELSE [acc EXCEPT !.out = Append(@, [utxo |-> TRUE, sub |-> IsSubaddress(k), at |-> i]),
                              !.nUtxo = @ + 1]
        ELSE IF ~IsHexAddress(k) THEN [acc EXCEPT !.err = "addr"]
        ELSE IF acc.hasAcct THEN [acc EXCEPT !.err = "acct"]
        ELSE [acc EXCEPT !.out = Append(@, [utxo |-> FALSE, sub |-> FALSE, at |-> i]),
                         !.hasAcct = TRUE]
  IN FoldLeft(Step, [out |-> << >>, nUtxo |-> 0, hasAcct |-> FALSE, err |-> ""],
              [i \in 1 .. Len(ds) |-> i])

Args == [rpc : Calls, token : Tokens,
         dests : UNION {[1 .. n -> AddrKinds] : n \in 0 .. MaxDests}]

Init ==
  /\ call \in Args
  /\ pc = "sign"
  /\ dests = << >>
  /\ result = ""

(* signUTXOTransaction up to CreateUTXOTransaction: a token other than the *)
(* empty address, an empty Dests list, or a bad destination returns.       *)
SignDests ==
  /\ pc = "sign"
  /\ LET c == CheckDests(call.dests) IN
     CASE call.token /= ""      -> pc' = "done" /\ result' = "token" /\ UNCHANGED dests
       [] Len(call.dests) = 0   -> pc' = "done" /\ result' = "nodests" /\ UNCHANGED dests
       [] c.err /= ""           -> pc' = "done" /\ result' = c.err /\ UNCHANGED dests
       [] OTHER                 -> pc' = "create" /\ dests' = c.out /\ UNCHANGED result
  /\ UNCHANGED call

(* CreateUTXOTransaction fails, or returns n txs that are then encoded;    *)
(* SendUTXOTransaction refuses more than one.                              *)
Create(n) ==
  /\ pc = "create"
  /\ CASE n = 0                          -> pc' = "done" /\ result' = "create"
       [] call.rpc = "send" /\ n > 1     -> pc' = "done" /\ result' = "toolarge"
       [] OTHER                          -> pc' = "transfer" /\ UNCHANGED result
  /\ UNCHANGED << call, dests >>

(* Wallet.Transfer of the raw txs; its per-tx results are the reply.       *)
Transfer ==
  /\ pc = "transfer"
  /\ pc' = "done"
  /\ result' = "ok"
  /\ UNCHANGED << call, dests >>

Next ==
  \/ SignDests
  \/ \E n \in 0 .. MaxTxs : Create(n)
  \/ Transfer

Spec == Init /\ [][Next]_vars

-----------------------------------------------------------------------------
TypeOK ==
  /\ call \in Args
  /\ pc \in {"sign", "create", "transfer", "done"}
  /\ dests \in Seq([utxo : BOOLEAN, sub : BOOLEAN, at : 1 .. MaxDests])
  /\ result \in {"", "ok", "token", "nodests", "overlimit", "addr", "acct",
                  "create", "toolarge"}

UtxoPositions(ds) == {i \in DOMAIN ds : Len95(ds[i])}
AcctPositions(ds) == DOMAIN ds \ UtxoPositions(ds)

(* The checks of a Dests list that do not depend on the limit: each UTXO  *)
(* destination a parsable address, and at most one other destination,     *)
(* which is a hex account address.                                         *)
ShapeOk(ds) ==
  /\ \A i \in UtxoPositions(ds) : StrToAddressOk(ds[i])
  /\ Cardinality(AcctPositions(ds)) <= 1
  /\ \A i \in AcctPositions(ds) : IsHexAddress(ds[i])

NUtxo(ds) == Cardinality(UtxoPositions(ds))

Refused == result \in {"overlimit", "addr", "acct"}

Expected(ds) ==
  [i \in DOMAIN ds |-> [utxo |-> Len95(ds[i]), sub |-> IsSubaddress(ds[i]), at |-> i]]

(* signUTXOTransaction, for a non-empty Dests list of the link token:      *)
(* below UTXO_DESTS_MAX_NUM UTXO destinations it refuses exactly the lists *)
(* of a bad shape; above it it refuses every list; at the limit itself,    *)
(* where the code and ErrUTXODestsOverLimit's text disagree, it refuses at *)
(* least the lists of a bad shape.  What it accepts it hands on to         *)
(* CreateUTXOTransaction as one DestEntry per destination, in order, a     *)
(* sub-address flagged as such.                                            *)
DestsCheckedExactly ==
  (pc /= "sign" /\ call.token = "" /\ Len(call.dests) > 0) =>
     LET ds == call.dests IN
     /\ NUtxo(ds) < UTXO_DESTS_MAX_NUM => (Refused <=> ~ShapeOk(ds))
     /\ NUtxo(ds) > UTXO_DESTS_MAX_NUM => Refused
     /\ ~ShapeOk(ds) => Refused
     /\ ~Refused => dests = Expected(ds)

(* ErrUTXODestsOverLimit says the UTXO destinations "should less than"     *)
(* UTXO_DESTS_MAX_NUM: a list the RPC accepts has fewer than that many.    *)
DestsWithinDocumentedLimit ==
  (pc /= "sign" /\ call.token = "" /\ Len(call.dests) > 0 /\ ~Refused) =>
     NUtxo(call.dests) < UTXO_DESTS_MAX_NUM

=============================================================================
