------------------------------- MODULE Validator -------------------------------
(***************************************************************************)
(* Validator.CompareAccum of src/types/validator.go, the comparison a      *)
(* proposer search folds over a validator set: the higher Accum wins, and  *)
(* an Accum tie goes to the smaller address (bytes.Compare); comparing two *)
(* validators with the same Accum and address is PanicSanity.  A nil      *)
(* receiver returns the other validator.                                   *)
(*                                                                         *)
(* Addresses are numbers: bytes.Compare of equal-length addresses is the  *)
(* order of the numbers they spell.  The fold starts from nil.             *)
(***************************************************************************)
EXTENDS Integers, Sequences, SequencesExt, FiniteSets

CONSTANTS
  Addrs,    \* validator addresses
  Accums,   \* Accum values (int64, small)
  MaxVals,  \* longest validator list
  NilVal,   \* a nil *Validator
  Panic     \* the process panicked (cmn.PanicSanity)

Val == [addr : Addrs, accum : Accums]

(* Variant: an Accum tie goes to the larger address.                       *)
CompareAccumTieHigh(v, other) ==
  CASE v = Panic                -> Panic
    [] v = NilVal               -> other
    [] v.accum > other.accum    -> v
    [] v.accum < other.accum    -> other
    [] v.addr > other.addr      -> v
    [] v.addr < other.addr      -> other
    [] OTHER                    -> Panic

(* CompareAccum; a panic ends the fold.                                    *)
CompareAccum(v, other) ==
  CASE v = Panic                -> Panic
    [] v = NilVal               -> other
    [] v.accum > other.accum    -> v
    [] v.accum < other.accum    -> other
    [] v.addr < other.addr      -> v
    [] v.addr > other.addr      -> other
    [] OTHER                    -> Panic

VARIABLES vals, proposer

vars == << vals, proposer >>

Init ==
  /\ vals \in UNION { [1 .. k -> Val] : k \in 1 .. MaxVals }
  /\ proposer = NilVal

(* The fold of CompareAccum over the set, from nil.                        *)
FindProposer ==
  /\ proposer = NilVal
  /\ proposer' = FoldLeft(CompareAccum, NilVal, vals)
  /\ UNCHANGED vals

Next == FindProposer

Spec == Init /\ [][Next]_vars

-----------------------------------------------------------------------------
(* Reference: the validator that beats every other one of the set.         *)
Beats(v, w) == v.accum > w.accum \/ (v.accum = w.accum /\ v.addr < w.addr)
Best(S) == CHOOSE v \in S : \A w \in S \ {v} : Beats(v, w)

(* Over a set of validators with distinct addresses, the fold of           *)
(* CompareAccum finds, without panicking, the one with the highest Accum   *)
(* and, among those, the smallest address, whatever the order of the set.  *)
ProposerIsBest ==
  (proposer /= NilVal /\ Cardinality(ToSet([i \in DOMAIN vals |-> vals[i].addr])) = Len(vals))
    => proposer = Best(ToSet(vals))
=============================================================================
