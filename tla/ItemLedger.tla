----------------------------- MODULE ItemLedger -----------------------------
(***************************************************************************)
(* What deduplication promises the runs of the pipeline in item mode: a    *)
(* ledger of items in which the run that records an item is the only one   *)
(* that may send it, and may send it once.                                 *)
(*                                                                         *)
(* The promise has two exceptions, which are part of it: a run can be      *)
(* excused (its deduplication failed; nothing is said of it from then on)  *)
(* and items can be forgotten (their retention time is over).              *)
(***************************************************************************)
CONSTANTS Runs, Items

VARIABLES
    recorded,   \* the items in the ledger
    held,       \* the items each run may still send
    sent,       \* the items each run has sent
    excused,    \* the runs the promise no longer covers
    forgotten   \* the items the promise no longer covers

ledgerVars == <<recorded, held, sent, excused, forgotten>>

LedgerInit ==
    /\ recorded = {}
    /\ held = [r \in Runs |-> {}]
    /\ sent = [r \in Runs |-> {}]
    /\ excused = {}
    /\ forgotten = {}

(* An item enters the ledger, in the hands of the run that records it.     *)
Record(r, i) ==
    /\ r \notin excused
    /\ i \notin recorded \cup forgotten
    /\ recorded' = recorded \cup {i}
    /\ held' = [held EXCEPT ![r] = @ \cup {i}]
    /\ UNCHANGED <<sent, excused, forgotten>>

(* The run uses up its right to send an item.                              *)
Deliver(r, i) ==
    /\ i \in held[r]
    /\ held' = [held EXCEPT ![r] = @ \ {i}]
    /\ sent' = [sent EXCEPT ![r] = @ \cup {i}]
    /\ UNCHANGED <<recorded, excused, forgotten>>

(* The run gives up items: filtered out, not delivered, lost in a crash.   *)
GiveUp(r, lost) ==
    /\ lost # {}
    /\ held' = [held EXCEPT ![r] = @ \ lost]
    /\ UNCHANGED <<recorded, sent, excused, forgotten>>

Excuse(r) ==
    /\ r \notin excused
    /\ excused' = excused \cup {r}
    /\ held' = [held EXCEPT ![r] = {}]
    /\ sent' = [sent EXCEPT ![r] = {}]
    /\ UNCHANGED <<recorded, forgotten>>

Forget(gone) ==
    /\ gone # {}
    /\ forgotten' = forgotten \cup gone
    /\ recorded' = recorded \ gone
    /\ held' = [r \in Runs |-> held[r] \ gone]
    /\ sent' = [r \in Runs |-> sent[r] \ gone]
    /\ UNCHANGED excused

LedgerNext ==
    \/ \E r \in Runs, i \in Items : Record(r, i) \/ Deliver(r, i)
    \/ \E r \in Runs, lost \in SUBSET Items : GiveUp(r, lost)
    \/ \E r \in Runs : Excuse(r)
    \/ \E gone \in SUBSET Items : Forget(gone)

LedgerSpec == LedgerInit /\ [][LedgerNext]_ledgerVars

-----------------------------------------------------------------------------

(* An item recorded and not forgotten is with one run at most, to be sent  *)
(* or sent, never both; and nothing is with a run that is not recorded.    *)
OneHand ==
    /\ \A r \in Runs : held[r] \cap sent[r] = {}
    /\ \A r \in Runs : held[r] \cup sent[r] \subseteq recorded
    /\ \A r, q \in Runs :
          r # q => (held[r] \cup sent[r]) \cap (held[q] \cup sent[q]) = {}

=============================================================================
