-------------------------- MODULE ItemLedgerProofs --------------------------
(***************************************************************************)
(* What the ledger promises, for any runs and items.                       *)
(***************************************************************************)
EXTENDS ItemLedger, TLAPS

LedgerType ==
    /\ held \in [Runs -> SUBSET Items]
    /\ sent \in [Runs -> SUBSET Items]
    /\ recorded \subseteq Items

LedgerInv == LedgerType /\ OneHand

LEMMA LedgerStepSafe == LedgerInv /\ [LedgerNext]_ledgerVars => LedgerInv'
<1> SUFFICES ASSUME LedgerInv, [LedgerNext]_ledgerVars
             PROVE  LedgerInv'
  OBVIOUS
<1> USE DEF LedgerInv, LedgerType, OneHand
<1>1. ASSUME NEW r \in Runs, NEW i \in Items, Record(r, i) PROVE LedgerInv'
  BY <1>1 DEF Record
<1>2. ASSUME NEW r \in Runs, NEW i \in Items, Deliver(r, i) PROVE LedgerInv'
  BY <1>2 DEF Deliver
<1>3. ASSUME NEW r \in Runs, NEW lost \in SUBSET Items, GiveUp(r, lost)
      PROVE  LedgerInv'
  BY <1>3 DEF GiveUp
<1>4. ASSUME NEW r \in Runs, Excuse(r) PROVE LedgerInv'
  BY <1>4 DEF Excuse
<1>5. ASSUME NEW gone \in SUBSET Items, Forget(gone) PROVE LedgerInv'
  BY <1>5 DEF Forget
<1>6. CASE UNCHANGED ledgerVars
  BY <1>6 DEF ledgerVars
<1>7. QED
  BY <1>1, <1>2, <1>3, <1>4, <1>5, <1>6 DEF LedgerNext

(* No item of the ledger is ever in the hands of two runs, or both sent    *)
(* and still to be sent by one: with LedgerImplemented, what the pipeline  *)
(* promises of its deliveries.                                             *)
THEOREM LedgerOneHand == LedgerSpec => []OneHand
<1>1. LedgerInit => LedgerInv
  BY DEF LedgerInit, LedgerInv, LedgerType, OneHand
<1>2. LedgerInv => OneHand
  BY DEF LedgerInv
<1>3. QED
  BY <1>1, <1>2, LedgerStepSafe, PTL DEF LedgerSpec
=============================================================================
