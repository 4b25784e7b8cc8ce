-------------------------------- MODULE Wallet --------------------------------
(***************************************************************************)
(* The account multiplexer of src/wallet/wallet/wallet.go as driven by the *)
(* personal RPCs UnlockAccount and LockAccount (src/wallet/rpc/api.go).    *)
(*                                                                         *)
(* Every UnlockAccount that decrypts the keystore calls OpenWallet, which  *)
(* builds a new LinkAccount (an instance) under w.lock and either starts   *)
(* and registers it in addrMap, or, when the address is already open,      *)
(* discards it and reselects the open one.  LockAccount calls CloseWallet  *)
(* without w.lock: it stops currAccount (LinkAccount.OnStop closes la.stop *)
(* under la.lock), then reads currAccount again, deletes its address and   *)
(* picks any remaining account.  The forwarding RPCs (GetBalance,         *)
(* GetHeight, Status, ...) test IsWalletClosed and then read currAccount   *)
(* again to call it, also without w.lock.  A Go panic (nil currAccount, close of a   *)
(* closed channel) kills the process; the wallet restarts empty.           *)
(* An instance's state: "unused" (id not yet taken), "discarded" (built    *)
(* and dropped), "running" (refreshLoop alive), "stopped" (OnStop done),   *)
(* "dead" (its process panicked).                                          *)
(***************************************************************************)
EXTENDS Naturals, FiniteSets, Functions

CONSTANTS
  Addrs,       \* eth addresses that have keystore files
  Callers,     \* RPC goroutines that may run LockAccount at the same time
  MaxOpens,    \* LinkAccount ids; a dropped one is reused
  MaxPanics,   \* bound on process crashes
  Concurrent   \* FALSE: the client waits for each RPC before the next one

None == 0
Inst == 1 .. MaxOpens

VARIABLES
  addrMap,     \* w.addrMap, address -> instance (None when absent)
  curr,        \* w.currAccount (None is nil)
  inst,        \* instance -> [st, addr]
  pc,          \* caller -> "idle" | "close2" (between OnStop and delete)
               \*   | "get" (a getter passed IsWalletClosed)
  closing,     \* caller -> the instance its CloseWallet stopped
  panics,      \* process crashes so far
  why,         \* what the crashes were: "nil" currAccount, "close" of a closed
               \*   la.stop, "get": a getter called a nil currAccount
  shut         \* Wallet.Stop has run

vars == << addrMap, curr, inst, pc, closing, panics, why, shut >>

Registered == Range(addrMap) \ {None}

(* Ids of LinkAccounts nothing refers to any more: the garbage collector  *)
(* may have them, and OpenWallet builds the next one under such an id.    *)
FreeInst ==
  { i \in Inst : /\ inst[i].st /= "running"
                 /\ i \notin Registered
                 /\ i /= curr
                 /\ \A c \in Callers : closing[c] /= i }

(* A new RPC may start: the RPC server runs each request in its own       *)
(* goroutine, so only a client that waits for every answer serialises them. *)
MayStart == Concurrent \/ \A c \in Callers : pc[c] = "idle"

Init ==
  /\ addrMap = [a \in Addrs |-> None]
  /\ curr = None
  /\ inst = [i \in Inst |-> [st |-> "unused", addr |-> CHOOSE a \in Addrs : TRUE]]
  /\ pc = [c \in Callers |-> "idle"]
  /\ closing = [c \in Callers |-> None]
  /\ panics = 0
  /\ why = {}
  /\ shut = FALSE

(* A panic: the process dies and comes back with an empty Wallet.         *)
Crash(cause) ==
  /\ panics < MaxPanics
  /\ panics' = panics + 1
  /\ why' = why \cup {cause}
  /\ shut' = FALSE
  /\ addrMap' = [a \in Addrs |-> None]
  /\ curr' = None
  /\ inst' = [i \in Inst |-> IF inst[i].st = "unused" THEN inst[i]
                             ELSE [inst[i] EXCEPT !.st = "dead"]]
  /\ pc' = [c \in Callers |-> "idle"]
  /\ closing' = [c \in Callers |-> None]

(* Variant: OpenWallet without the check for an address already open.     *)
OpenWalletNoReuse(a) ==
  /\ MayStart
  /\ \E i \in FreeInst :
       /\ addrMap' = [addrMap EXCEPT ![a] = i]
       /\ curr' = i
       /\ inst' = [inst EXCEPT ![i] = [st |-> "running", addr |-> a]]
       /\ UNCHANGED << pc, closing, panics, why, shut >>

(* UnlockAccount(a) with the right password: OpenWallet under w.lock.     *)
OpenWallet(a) ==
  /\ MayStart
  /\ \E i \in FreeInst :
       /\ IF addrMap[a] /= None
          THEN /\ curr' = addrMap[a]
               /\ inst' = [inst EXCEPT ![i] = [st |-> "discarded", addr |-> a]]
               /\ UNCHANGED addrMap
          ELSE /\ addrMap' = [addrMap EXCEPT ![a] = i]
               /\ curr' = i
               /\ inst' = [inst EXCEPT ![i] = [st |-> "running", addr |-> a]]
       /\ UNCHANGED << pc, closing, panics, why, shut >>

(* SelectAddress(a): reselect an open account, else ErrWalletNotOpen.     *)
SelectAddress(a) ==
  /\ MayStart
  /\ addrMap[a] /= None
  /\ curr' = addrMap[a]
  /\ UNCHANGED << addrMap, inst, pc, closing, panics, why, shut >>

(* LockAccount(addr) -> CloseWallet: addr is not used; currAccount.OnStop(). *)
(* A nil account or an already closed la.stop panics.                      *)
LockAccount(c) ==
  /\ MayStart
  /\ pc[c] = "idle"
  /\ CASE curr = None                -> Crash("nil")
       [] inst[curr].st = "stopped"  -> Crash("close")
       [] OTHER                      -> /\ inst' = [inst EXCEPT ![curr].st = "stopped"]
          /\ pc' = [pc EXCEPT ![c] = "close2"]
          /\ closing' = [closing EXCEPT ![c] = curr]
          /\ UNCHANGED << addrMap, curr, panics, why, shut >>

(* Variant: CloseWallet that keeps currAccount when no account is left.    *)
CloseWalletKeepCurr(c) ==
  /\ pc[c] = "close2"
  /\ IF curr = None
     THEN Crash("nil")
     ELSE LET left == Registered \ {addrMap[inst[curr].addr]}
          IN /\ addrMap' = [addrMap EXCEPT ![inst[curr].addr] = None]
             /\ \/ left = {} /\ UNCHANGED curr
                \/ \E i \in left : curr' = i
             /\ pc' = [pc EXCEPT ![c] = "idle"]
             /\ closing' = [closing EXCEPT ![c] = None]
             /\ UNCHANGED << inst, panics, why, shut >>

(* CloseWallet, rest: read currAccount again, delete its address, then     *)
(* currAccount becomes nil or any remaining account (map order is random). *)
(* Locking the keystore afterwards changes no modelled state.              *)
CloseWallet(c) ==
  /\ pc[c] = "close2"
  /\ IF curr = None
     THEN Crash("nil")
     ELSE LET left == Registered \ {addrMap[inst[curr].addr]}
          IN /\ addrMap' = [addrMap EXCEPT ![inst[curr].addr] = None]
             /\ \/ left = {} /\ curr' = None
                \/ \E i \in left : curr' = i
             /\ pc' = [pc EXCEPT ![c] = "idle"]
             /\ closing' = [closing EXCEPT ![c] = None]
             /\ UNCHANGED << inst, panics, why, shut >>

(* A forwarding getter, first half: IsWalletClosed.  A nil currAccount     *)
(* returns ErrWalletNotOpen (or zero values) and changes nothing.         *)
GetCheck(c) ==
  /\ MayStart
  /\ pc[c] = "idle"
  /\ curr /= None
  /\ pc' = [pc EXCEPT ![c] = "get"]
  /\ UNCHANGED << addrMap, curr, inst, closing, panics, why, shut >>

(* A forwarding getter, second half: w.currAccount.X(...) reads the field  *)
(* again; a nil LinkAccount panics on its first field access.  The getters *)
(* only read the account, so a non-nil one changes no modelled state.      *)
GetCall(c) ==
  /\ pc[c] = "get"
  /\ IF curr = None
     THEN Crash("get")
     ELSE /\ pc' = [pc EXCEPT ![c] = "idle"]
          /\ UNCHANGED << addrMap, curr, inst, closing, panics, why, shut >>

(* Wallet.Stop, when the node shuts down: OnStop of every account in       *)
(* addrMap, each closing its la.stop; nothing is removed from addrMap or   *)
(* currAccount.  The node calls it once.                                   *)
Stop ==
  /\ MayStart
  /\ ~shut
  /\ IF \E i \in Registered : inst[i].st = "stopped"
     THEN Crash("close")
     ELSE /\ inst' = [i \in Inst |-> IF i \in Registered
                                    THEN [inst[i] EXCEPT !.st = "stopped"]
                                    ELSE inst[i]]
          /\ shut' = TRUE
          /\ UNCHANGED << addrMap, curr, pc, closing, panics, why >>

Next ==
  \/ \E a \in Addrs : OpenWallet(a)
  \/ \E a \in Addrs : SelectAddress(a)
  \/ \E c \in Callers : LockAccount(c)
  \/ \E c \in Callers : CloseWallet(c)
  \/ \E c \in Callers : GetCheck(c) \/ GetCall(c)
  \/ Stop

Spec == Init /\ [][Next]_vars

-----------------------------------------------------------------------------
TypeOK ==
  /\ addrMap \in [Addrs -> Inst \cup {None}]
  /\ curr \in Inst \cup {None}
  /\ inst \in [Inst -> [st : {"unused", "discarded", "running", "stopped", "dead"},
                        addr : Addrs]]
  /\ pc \in [Callers -> {"idle", "close2", "get"}]
  /\ closing \in [Callers -> Inst \cup {None}]
  /\ panics \in 0 .. MaxPanics
  /\ why \subseteq {"nil", "close", "get"}
  /\ shut \in BOOLEAN

(* A getter RPC (GetBalance, GetHeight, Status, ...) that found the wallet *)
(* open by IsWalletClosed calls into a non-nil currAccount: the check and  *)
(* the call read the same account, whatever LockAccount runs meanwhile.    *)
GetterNoPanic == "get" \notin why

(* Until Wallet.Stop, addrMap holds exactly the LinkAccounts whose         *)
(* refreshLoop runs, each under its own address, apart from the one a      *)
(* CloseWallet has stopped and not yet deleted: no account is leaked       *)
(* running outside the map, and no stopped one is left in it.              *)
RegisteredIffRunning ==
  /\ \A a \in Addrs : addrMap[a] /= None => inst[addrMap[a]].addr = a
  /\ ~shut => \A i \in Inst :
       i \in Registered <=>
         \/ inst[i].st = "running"
         \/ \E c \in Callers : pc[c] = "close2" /\ closing[c] = i

(* currAccount is nil exactly when no account is open, and otherwise one   *)
(* of the open accounts, so every RPC that passes IsWalletClosed acts on   *)
(* an open LinkAccount.                                                    *)
CurrConsistent ==
  /\ (curr = None) <=> (Registered = {})
  /\ curr /= None => curr \in Registered
=============================================================================
