----------------------------- MODULE LinkAccount -----------------------------
(***************************************************************************)
(* The wallet's per-account scanner, src/wallet/wallet/linkaccount.go.     *)
(*                                                                         *)
(* A LinkAccount keeps the list of outputs it owns (Transfers), an index   *)
(* from key image to transfer (keyImages), a balance per token and         *)
(* subaddress (AccBalance), a total per token (utxoTotalBalance) and the   *)
(* running global output index per token (gOutIndex).  Its refreshLoop    *)
(* goroutine polls the node for the chain height and, holding la.lock,    *)
(* scans every block from localHeight up to remoteHeight.  RPC handlers    *)
(* run on other goroutines: RescanBlockchain and OnStop take la.lock,      *)
(* AutoRefreshBlockchain and CreateSubAccount do not.                      *)
(*                                                                         *)
(* The chain is a constant: Chain[h+1] is block h, a sequence of UTXO      *)
(* transactions [token, outs, ins].  An output is [sub, ki, amt]: the      *)
(* subaddress of this account it pays (NotMine for everybody else's), the  *)
(* key image its one-time key yields, and its decoded amount.  An input is *)
(* the key image it spends.  The cryptography (key derivation, ECDH        *)
(* decoding, key-image generation) is abstracted to these fields.          *)
(***************************************************************************)
EXTENDS Naturals, Integers, Sequences, SequencesExt, FiniteSets, FiniteSetsExt, Functions, TLC

CONSTANTS
  Tokens,      \* token ids (common.Address) that UTXO transactions carry
  LinkToken,   \* the native token; CreateSubAccount zeroes only its balance
  KeyImages,   \* key images of the account's outputs
  Chain,       \* the blocks the node will serve, Chain[h+1] is height h
  InitSubs,    \* subaddress count loaded from the wallet DB at open
  MaxSubs,     \* bound on subaddresses CreateSubAccount may create
  SubCallers,  \* RPC goroutines that may run CreateSubAccount at once
  MaxRescans   \* bound on RescanBlockchain calls

NotMine == -1    \* the sub field of an output IsOutputBelongToAccount rejects
MaxHeight == Len(Chain) - 1
Subs == 0 .. MaxSubs - 1
Block(h) == Chain[h + 1]

ASSUME LinkToken \in Tokens
ASSUME InitSubs \in 1 .. MaxSubs
ASSUME MaxRescans \in Nat
ASSUME Len(Chain) >= 1

VARIABLES
  nodeHeight,        \* height of the node's chain (the environment)
  remoteHeight,      \* la.remoteHeight
  localHeight,       \* la.localHeight: the next block to scan
  walletOpen,        \* la.walletOpen
  autoRefresh,       \* la.autoRefresh
  stopped,           \* la.stop has been closed
  loopPc,            \* refreshLoop: "wait" | "refresh" | "scan" | "exited"
  transfers,         \* la.Transfers
  keyImages,         \* la.keyImages, key image -> index in transfers
  accBalance,        \* la.AccBalance, token -> sub -> amount
  utxoTotalBalance,  \* la.utxoTotalBalance, token -> amount
  gOutIndex,         \* la.gOutIndex, token -> index; -1 is a missing key
  numSubs,           \* len(la.account.Keys)
  cs,                \* caller -> its CreateSubAccount call: [pc, left, idx, max]
  rescans            \* RescanBlockchain calls so far (bounded)

vars == << nodeHeight, remoteHeight, localHeight, walletOpen, autoRefresh,
           stopped, loopPc, transfers, keyImages, accBalance,
           utxoTotalBalance, gOutIndex, numSubs, cs, rescans >>

scanVars == << transfers, keyImages, accBalance, utxoTotalBalance, gOutIndex >>

(***************************************************************************)
(* The scanner's data, bundled so that processBlock can be a fold.         *)
(***************************************************************************)
Scanner == [transfers |-> transfers, keyImages |-> keyImages,
            bal |-> accBalance, total |-> utxoTotalBalance, gout |-> gOutIndex]

(* updateBalance: add, or subtract unless the balance is smaller.          *)
updateBalance(s, token, index, bAdd, amount) ==
  IF bAdd
  THEN [s EXCEPT !.bal[token][index] = @ + amount, !.total[token] = @ + amount]
  ELSE IF s.bal[token][index] < amount
       THEN s
       ELSE [s EXCEPT !.bal[token][index] = @ - amount,
                      !.total[token] = @ - amount]

(* increaseGOutIndex: a missing key becomes 0, a present one grows by 1.   *)
increaseGOutIndex(gout, token) == [gout EXCEPT ![token] = @ + 1]

(* Variant: the global index advanced only for outputs that are ours.     *)
processOutputOwnedIndex(s, o, tx, height, nsubs) ==
  LET gout == increaseGOutIndex(s.gout, tx.token)
      uod  == [ki |-> o.ki, amt |-> o.amt, sub |-> o.sub, token |-> tx.token,
               gid |-> gout[tx.token], height |-> height,
               spent |-> FALSE, spentHeight |-> 0]
  IN IF o.sub \in 0 .. nsubs - 1
     THEN updateBalance([s EXCEPT !.gout = gout,
                                  !.transfers = Append(@, uod),
                                  !.keyImages = (o.ki :> Len(s.transfers) + 1) @@ @],
                        tx.token, o.sub, TRUE, o.amt)
     ELSE s

(* The output loop body of processNewTransaction for one UTXOOutput.       *)
processOutput(s, o, tx, height, nsubs) ==
  LET gout == increaseGOutIndex(s.gout, tx.token)
      uod  == [ki |-> o.ki, amt |-> o.amt, sub |-> o.sub, token |-> tx.token,
               gid |-> gout[tx.token], height |-> height,
               spent |-> FALSE, spentHeight |-> 0]
      tid  == Len(s.transfers) + 1
  IN IF o.sub \in 0 .. nsubs - 1
     THEN updateBalance([s EXCEPT !.gout = gout,
                                  !.transfers = Append(@, uod),
                                  !.keyImages = (o.ki :> tid) @@ @],
                        tx.token, o.sub, TRUE, o.amt)
     ELSE [s EXCEPT !.gout = gout]

(* The input loop body of processNewTransaction for one UTXOInput.         *)
processInput(s, ki, tx, height) ==
  IF ki \in DOMAIN s.keyImages
  THEN LET tid == s.keyImages[ki]
       IN updateBalance([s EXCEPT !.transfers[tid].spent = TRUE,
                                  !.transfers[tid].spentHeight = height],
                        tx.token, s.transfers[tid].sub, FALSE,
                        s.transfers[tid].amt)
  ELSE s

processNewTransaction(s, tx, height, nsubs) ==
  LET afterOuts == FoldLeft(LAMBDA acc, o : processOutput(acc, o, tx, height, nsubs),
                            s, tx.outs)
  IN FoldLeft(LAMBDA acc, ki : processInput(acc, ki, tx, height), afterOuts, tx.ins)

processBlock(s, height, nsubs) ==
  FoldLeft(LAMBDA acc, tx : processNewTransaction(acc, tx, height, nsubs),
           s, Block(height))

SetScanner(s) ==
  /\ transfers' = s.transfers
  /\ keyImages' = s.keyImages
  /\ accBalance' = s.bal
  /\ utxoTotalBalance' = s.total
  /\ gOutIndex' = s.gout

-----------------------------------------------------------------------------
(* NewLinkAccount of a fresh wallet, with InitSubs subaddresses.           *)
Init ==
  /\ nodeHeight = 0
  /\ remoteHeight = 0
  /\ localHeight = 0
  /\ walletOpen = TRUE
  /\ autoRefresh = TRUE
  /\ stopped = FALSE
  /\ loopPc = "wait"
  /\ transfers = << >>
  /\ keyImages = [k \in {} |-> 0]
  /\ accBalance = [t \in Tokens |-> [i \in Subs |-> 0]]
  /\ utxoTotalBalance = [t \in Tokens |-> 0]
  /\ gOutIndex = [t \in Tokens |-> -1]
  /\ numSubs = InitSubs
  /\ cs = [c \in SubCallers |-> [pc |-> "idle", left |-> 0, idx |-> 0, max |-> 0]]
  /\ rescans = 0

(* The node appends a block.                                               *)
NodeGrows ==
  /\ nodeHeight < MaxHeight
  /\ nodeHeight' = nodeHeight + 1
  /\ UNCHANGED << remoteHeight, localHeight, walletOpen, autoRefresh, stopped,
                  loopPc, scanVars, numSubs, cs, rescans >>

(* Variant: remoteHeight takes whatever RefreshMaxBlock answered.        *)
TickNoMax(h) ==
  /\ loopPc = "wait"
  /\ remoteHeight' = h
  /\ loopPc' = "refresh"
  /\ UNCHANGED << nodeHeight, localHeight, walletOpen, autoRefresh, stopped,
                  scanVars, numSubs, cs, rescans >>

(* refreshLoop: the timer fires and RefreshMaxBlock answers h (a node may  *)
(* lag, so any h up to the node's height); remoteHeight only grows.  The   *)
(* error branch only re-arms the timer and changes no state.               *)
Tick(h) ==
  /\ loopPc = "wait"
  /\ remoteHeight' = IF h > remoteHeight THEN h ELSE remoteHeight
  /\ loopPc' = "refresh"
  /\ UNCHANGED << nodeHeight, localHeight, walletOpen, autoRefresh, stopped,
                  scanVars, numSubs, cs, rescans >>

(* refreshLoop: the stop channel is closed and the select takes it.        *)
LoopExit ==
  /\ loopPc = "wait"
  /\ stopped
  /\ loopPc' = "exited"
  /\ UNCHANGED << nodeHeight, remoteHeight, localHeight, walletOpen, autoRefresh,
                  stopped, scanVars, numSubs, cs, rescans >>

(* Variant: Refresh entered only while strictly behind remoteHeight.      *)
RefreshStartStrict ==
  /\ loopPc = "refresh"
  /\ loopPc' = IF walletOpen /\ autoRefresh /\ localHeight < remoteHeight
               THEN "scan" ELSE "wait"
  /\ UNCHANGED << nodeHeight, remoteHeight, localHeight, walletOpen, autoRefresh,
                  stopped, scanVars, numSubs, cs, rescans >>

(* Refresh: take la.lock and test the entry condition.                     *)
RefreshStart ==
  /\ loopPc = "refresh"
  /\ loopPc' = IF walletOpen /\ autoRefresh /\ localHeight <= remoteHeight
               THEN "scan" ELSE "wait"
  /\ UNCHANGED << nodeHeight, remoteHeight, localHeight, walletOpen, autoRefresh,
                  stopped, scanVars, numSubs, cs, rescans >>

(* Refresh: GetBlockUTXOsByNumber fails; Refresh returns.                  *)
FetchFail ==
  /\ loopPc = "scan"
  /\ loopPc' = "wait"
  /\ UNCHANGED << nodeHeight, remoteHeight, localHeight, walletOpen, autoRefresh,
                  stopped, scanVars, numSubs, cs, rescans >>

(* Variant: localHeight advanced only once the save succeeded.            *)
ScanBlockSaveFirst(saveOk) ==
  /\ loopPc = "scan"
  /\ SetScanner(processBlock(Scanner, localHeight, numSubs))
  /\ localHeight' = IF saveOk THEN localHeight + 1 ELSE localHeight
  /\ loopPc' = IF saveOk /\ localHeight + 1 <= remoteHeight THEN "scan" ELSE "wait"
  /\ UNCHANGED << nodeHeight, remoteHeight, walletOpen, autoRefresh, stopped,
                  numSubs, cs, rescans >>

(* Refresh: one iteration of the loop: processBlock, localHeight++, then   *)
(* save; a failed save returns, a good one goes round the loop again.      *)
ScanBlock(saveOk) ==
  /\ loopPc = "scan"
  /\ SetScanner(processBlock(Scanner, localHeight, numSubs))
  /\ localHeight' = localHeight + 1
  /\ loopPc' = IF saveOk /\ localHeight + 1 <= remoteHeight THEN "scan" ELSE "wait"
  /\ UNCHANGED << nodeHeight, remoteHeight, walletOpen, autoRefresh, stopped,
                  numSubs, cs, rescans >>

(* OnStop: under la.lock, close(la.stop) and clear both flags.             *)
OnStop ==
  /\ loopPc /= "scan"
  /\ ~stopped
  /\ stopped' = TRUE
  /\ walletOpen' = FALSE
  /\ autoRefresh' = FALSE
  /\ UNCHANGED << nodeHeight, remoteHeight, localHeight, loopPc, scanVars,
                  numSubs, cs, rescans >>

(* AutoRefreshBlockchain: an unlocked write of la.autoRefresh.             *)
AutoRefreshBlockchain(b) ==
  /\ autoRefresh' = b
  /\ UNCHANGED << nodeHeight, remoteHeight, localHeight, walletOpen, stopped,
                  loopPc, scanVars, numSubs, cs, rescans >>

(* Variant: RescanBlockchain that leaves AccBalance as it was.            *)
RescanKeepBalance ==
  /\ walletOpen
  /\ loopPc /= "scan"
  /\ rescans < MaxRescans
  /\ rescans' = rescans + 1
  /\ localHeight' = 0
  /\ utxoTotalBalance' = [t \in Tokens |-> 0]
  /\ gOutIndex' = [t \in Tokens |-> -1]
  /\ keyImages' = [k \in {} |-> 0]
  /\ transfers' = << >>
  /\ UNCHANGED << nodeHeight, remoteHeight, walletOpen, autoRefresh, stopped,
                  loopPc, numSubs, cs, accBalance >>

(* RescanBlockchain: refused when the wallet is closed, else under la.lock *)
(* it forgets everything scanned.                                          *)
RescanBlockchain ==
  /\ walletOpen
  /\ loopPc /= "scan"
  /\ rescans < MaxRescans
  /\ rescans' = rescans + 1
  /\ localHeight' = 0
  /\ accBalance' = [t \in Tokens |-> [i \in Subs |-> 0]]
  /\ utxoTotalBalance' = [t \in Tokens |-> 0]
  /\ gOutIndex' = [t \in Tokens |-> -1]
  /\ keyImages' = [k \in {} |-> 0]
  /\ transfers' = << >>
  /\ UNCHANGED << nodeHeight, remoteHeight, walletOpen, autoRefresh, stopped,
                  loopPc, numSubs, cs >>

(* CreateSubAccount(maxSub), unlocked: compute how many to add.  With      *)
(* nothing to add it returns without touching state.  max records the      *)
(* request.                                                                *)
CreateSubAccount(c, maxSub) ==
  /\ cs[c].pc = "idle"
  /\ maxSub > numSubs - 1
  /\ cs' = [cs EXCEPT ![c] = [pc |-> "key", left |-> maxSub - (numSubs - 1),
                              idx |-> 0, max |-> maxSub]]
  /\ UNCHANGED << nodeHeight, remoteHeight, localHeight, walletOpen, autoRefresh,
                  stopped, loopPc, scanVars, numSubs, rescans >>

(* la.account.CreateSubAccount(): the new key is visible to the scanner.   *)
(* AccountBase is outside src/; a key is appended in one step.  MaxSubs    *)
(* caps the keys the model holds.                                          *)
CreateSubKey(c) ==
  /\ cs[c].pc = "key"
  /\ numSubs < MaxSubs
  /\ numSubs' = numSubs + 1
  /\ cs' = [cs EXCEPT ![c].pc = "zero", ![c].idx = numSubs]
  /\ UNCHANGED << nodeHeight, remoteHeight, localHeight, walletOpen, autoRefresh,
                  stopped, loopPc, scanVars, rescans >>

(* setTokenBalanceBySubIndex(LinkToken, idx, 0); after the last one the    *)
(* count is saved to the DB, which changes no modelled state.              *)
CreateSubZero(c) ==
  /\ cs[c].pc = "zero"
  /\ accBalance' = [accBalance EXCEPT ![LinkToken][cs[c].idx] = 0]
  /\ cs' = [cs EXCEPT ![c].pc = IF cs[c].left > 1 THEN "key" ELSE "idle",
                      ![c].left = @ - 1]
  /\ UNCHANGED << nodeHeight, remoteHeight, localHeight, walletOpen, autoRefresh,
                  stopped, loopPc, transfers, keyImages, utxoTotalBalance,
                  gOutIndex, numSubs, rescans >>

Next ==
  \/ NodeGrows
  \/ \E h \in 0 .. nodeHeight : Tick(h)
  \/ LoopExit
  \/ RefreshStart
  \/ FetchFail
  \/ \E ok \in BOOLEAN : ScanBlock(ok)
  \/ OnStop
  \/ \E b \in BOOLEAN : AutoRefreshBlockchain(b)
  \/ RescanBlockchain
  \/ \E c \in SubCallers, m \in 1 .. MaxSubs - 1 : CreateSubAccount(c, m)
  \/ \E c \in SubCallers : CreateSubKey(c) \/ CreateSubZero(c)

(***************************************************************************)
(* Fairness.  The node keeps producing blocks until it has them all; the   *)
(* timer keeps firing, and a node that answers correctly (the latest       *)
(* height, the block asked for, a successful save) does so eventually:    *)
(* refreshLoop retries forever, so strong fairness on the good answers is  *)
(* the environment assumption under which the wallet must catch up.        *)
(***************************************************************************)
Fairness ==
  /\ WF_vars(NodeGrows)
  /\ SF_vars(Tick(nodeHeight))
  /\ WF_vars(RefreshStart)
  /\ SF_vars(ScanBlock(TRUE))

Spec == Init /\ [][Next]_vars /\ Fairness

-----------------------------------------------------------------------------
(***************************************************************************)
(* The read RPCs, answered from the state without la.lock.                 *)
(***************************************************************************)
(* GetHeight (BlockHeight, Status): the last scanned height, and 0 also    *)
(* while nothing is scanned.                                               *)
GetHeight == [local  |-> IF localHeight = 0 THEN localHeight ELSE localHeight - 1,
              remote |-> remoteHeight]

(* GetBalance: 0 for an index past len(Keys), else the sub-address's       *)
(* balance (getTokenBalanceBySubIndex: 0 for a missing entry).             *)
GetBalance(index, token) ==
  IF index >= numSubs THEN 0 ELSE accBalance[token][index]

(* GetAccountInfo: the UTXO part of TotalBalance, summed over the          *)
(* sub-addresses 0 .. len(Keys)-1; the node's eth balance is not modelled. *)
GetAccountInfoTotal(token) ==
  MapThenSumSet(LAMBDA i : GetBalance(i, token), 0 .. numSubs - 1)

(* GetMaxOutput: 0 for a token with no gOutIndex entry, else the index + 1. *)
GetMaxOutput(token) == IF gOutIndex[token] = -1 THEN 0 ELSE gOutIndex[token] + 1

-----------------------------------------------------------------------------
(***************************************************************************)
(* Reference: what a scan of blocks 0 .. n-1 should have recorded, read    *)
(* directly off the chain.  A position <<h, i, j>> is output (or input) j  *)
(* of transaction i of block h; an output precedes the inputs of its       *)
(* transaction, as in processNewTransaction.                               *)
(***************************************************************************)
OutPos(n) == UNION { UNION { { <<h, i, j>> : j \in DOMAIN Block(h)[i].outs }
                             : i \in DOMAIN Block(h) } : h \in 0 .. n - 1 }
InPos(n)  == UNION { UNION { { <<h, i, j>> : j \in DOMAIN Block(h)[i].ins }
                             : i \in DOMAIN Block(h) } : h \in 0 .. n - 1 }
TxAt(p)  == Block(p[1])[p[2]]
OutAt(p) == TxAt(p).outs[p[3]]
Earlier(p, q) ==
  \/ p[1] < q[1]
  \/ p[1] = q[1] /\ p[2] < q[2]
  \/ p[1] = q[1] /\ p[2] = q[2] /\ p[3] < q[3]

(* Heights of the scanned blocks whose inputs spend key image ki.          *)
SpendHeights(ki, n) == { p[1] : p \in { q \in InPos(n) : TxAt(q).ins[q[3]] = ki } }

ExpectedTransfers(n, nsubs) ==
  LET owned == { p \in OutPos(n) : OutAt(p).sub \in 0 .. nsubs - 1 }
      order == SetToSortSeq(owned, Earlier)
      rec(p) == [ki |-> OutAt(p).ki, amt |-> OutAt(p).amt, sub |-> OutAt(p).sub,
                 token |-> TxAt(p).token,
                 gid |-> Cardinality({ q \in OutPos(n) : TxAt(q).token = TxAt(p).token
                                                         /\ Earlier(q, p) }),
                 height |-> p[1],
                 spent |-> SpendHeights(OutAt(p).ki, n) /= {},
                 spentHeight |-> IF SpendHeights(OutAt(p).ki, n) = {} THEN 0
                                 ELSE Max(SpendHeights(OutAt(p).ki, n))]
  IN [k \in DOMAIN order |-> rec(order[k])]

UnspentSum(token, sub) ==
  MapThenSumSet(LAMBDA k : transfers[k].amt,
                { k \in DOMAIN transfers : /\ ~transfers[k].spent
                                           /\ transfers[k].token = token
                                           /\ transfers[k].sub = sub })

-----------------------------------------------------------------------------
TransferRec == [ki : KeyImages, amt : Nat, sub : Subs, token : Tokens,
                gid : Nat, height : 0 .. MaxHeight, spent : BOOLEAN,
                spentHeight : 0 .. MaxHeight]

TypeOK ==
  /\ nodeHeight \in 0 .. MaxHeight
  /\ remoteHeight \in 0 .. nodeHeight
  /\ localHeight \in 0 .. remoteHeight + 1
  /\ walletOpen \in BOOLEAN /\ autoRefresh \in BOOLEAN /\ stopped \in BOOLEAN
  /\ loopPc \in {"wait", "refresh", "scan", "exited"}
  /\ transfers \in Seq(TransferRec)
  /\ DOMAIN keyImages \subseteq KeyImages
  /\ \A k \in DOMAIN keyImages : keyImages[k] \in DOMAIN transfers
  /\ accBalance \in [Tokens -> [Subs -> Nat]]
  /\ utxoTotalBalance \in [Tokens -> Nat]
  /\ gOutIndex \in [Tokens -> Int]
  /\ numSubs \in InitSubs .. MaxSubs
  /\ cs \in [SubCallers -> [pc : {"idle", "key", "zero"}, left : 0 .. MaxSubs,
                             idx : Subs, max : 0 .. MaxSubs - 1]]
  /\ rescans \in 0 .. MaxRescans

(* After any interleaving of scans, rescans, failed fetches and saves, the *)
(* transfers Refresh/processNewTransaction recorded are exactly the owned  *)
(* outputs of blocks 0 .. localHeight-1, in chain order, each with its     *)
(* global index, and marked spent exactly when some scanned input spends   *)
(* its key image (the linkability a key image exists for).                 *)
ScanMatchesChain == transfers = ExpectedTransfers(localHeight, numSubs)

(* What GetBalance answers for every subaddress is the sum of its unspent  *)
(* transfers, and GetAccountInfo's UTXO total is utxoTotalBalance, the     *)
(* total updateBalance keeps beside the per-subaddress balances, whatever  *)
(* runs between the scanner's steps (RescanBlockchain, CreateSubAccount).  *)
BalanceMatchesTransfers ==
  \A t \in Tokens :
    /\ \A i \in Subs : GetBalance(i, t) = UnspentSum(t, i)
    /\ utxoTotalBalance[t] = GetAccountInfoTotal(t)

(* CreateSubAccount "create[s] sub account to max sub index" (handler.go): *)
(* once the account has more than its InitSubs keys, its highest index is  *)
(* the maxSub of some call, however the calls interleave.                  *)
SubsUpToRequested ==
  numSubs <= InitSubs \/ \E c \in SubCallers : numSubs - 1 <= cs[c].max

(* GetMaxOutput answers the number of token-t UTXO outputs in the scanned  *)
(* blocks, owned or not: increaseGOutIndex runs for each of them, and a    *)
(* token with none has no gOutIndex entry.                                 *)
MaxOutputCounts ==
  \A t \in Tokens :
    GetMaxOutput(t) = Cardinality({ p \in OutPos(localHeight) : TxAt(p).token = t })

(* A wallet that stays open with auto-refresh on eventually answers         *)
(* BlockHeight with the node's final height as both its scanned and its    *)
(* remote height: refreshLoop's loop bound takes the tip block too.        *)
EventuallySynced ==
  <>[](walletOpen /\ autoRefresh) =>
    <>[](GetHeight = [local |-> MaxHeight, remote |-> MaxHeight])
-----------------------------------------------------------------------------
(* The refinement mapping to ScannerView: the scanned prefix is            *)
(* localHeight, the unspent outputs are the transfers not marked spent.    *)
UnspentView ==
  { [ki |-> transfers[k].ki, token |-> transfers[k].token, sub |-> transfers[k].sub,
     amt |-> transfers[k].amt, height |-> transfers[k].height]
    : k \in { j \in DOMAIN transfers : ~transfers[j].spent } }

View == INSTANCE ScannerView WITH
          tip <- nodeHeight, n <- localHeight, open <- walletOpen,
          subs <- numSubs, unspent <- UnspentView, balance <- accBalance

(* Every step of refreshLoop, Refresh, OnStop, RescanBlockchain,           *)
(* CreateSubAccount and AutoRefreshBlockchain is a step of ScannerView, or *)
(* leaves its view unchanged: blocks are taken in one at a time, in order, *)
(* never past the node's tip and never after OnStop, and the balances are  *)
(* always those of the unspent owned outputs of the scanned prefix.        *)
ScannerRefinesView == View!Spec

=============================================================================
