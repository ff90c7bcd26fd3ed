------------------------- MODULE NewsPipelineProofs -------------------------
(***************************************************************************)
(* Proofs about NewsPipeline for any number of runs and items, and that it *)
(* implements ItemLedger; and that no run goes on without end.             *)
(***************************************************************************)
EXTENDS NewsPipeline, TLAPS, FiniteSetTheorems, WellFoundedInduction

(* Bags: the empty one, adding and removing one copy, a bag of a batch.    *)
LEMMA EmptyBag == Empty \in Bag
BY DEF Empty, Bag

LEMMA MoreInBag ==
    ASSUME NEW b \in Bag, NEW i \in Items
    PROVE  [b EXCEPT ![i] = b[i] + 1] \in Bag
BY DEF Bag

LEMMA LessInBag ==
    ASSUME NEW b \in Bag, NEW i \in Items, b[i] > 0
    PROVE  [b EXCEPT ![i] = b[i] - 1] \in Bag
BY DEF Bag

LEMMA CollectedBag ==
    ASSUME NEW b \in [Items -> 0..MaxCopies]
    PROVE  b \in Bag
BY MaxCopiesAssumption DEF Bag

-----------------------------------------------------------------------------
(* A committing write, whatever it meets, leaves no lock behind it.         *)
LEMMA WriteConn ==
    ASSUME TypeOK, NEW r \in Runs, Write(r)
    PROVE  /\ conn' \in [Runs -> {"auto", "open", "writer"}]
           /\ \A q \in Runs : conn'[q] = "writer" => conn[q] = "writer" /\ q # r
           /\ conn'[r] = "open" \/ conn'[r] = "auto"
           /\ conn'[r] = "open" => \E q \in Runs : conn[q] = "writer"
           /\ \A q \in Runs \ {r} : conn'[q] = conn[q]
<1>1. conn \in [Runs -> {"auto", "open", "writer"}]
  BY DEF TypeOK
<1>2. CASE Busy(r)
  <2>1. conn' = [conn EXCEPT ![r] = "open"]
    BY <1>2 DEF Write
  <2>2. QED
    BY <1>1, <1>2, <2>1 DEF Busy
<1>3. CASE ~Busy(r)
  <2>1. conn' = [conn EXCEPT ![r] = "auto"]
    BY <1>3 DEF Write
  <2>2. QED
    BY <1>1, <2>1
<1>4. QED
  BY <1>2, <1>3

-----------------------------------------------------------------------------
(* Types.  The insert takes its item off the loop's remaining input, so    *)
(* the type of todo rests on the item still being there.                   *)

AskedFromInput ==
    \A r \in Runs :
        /\ pc[r] # "filter_new" => asked[r] = {}
        /\ \A i \in asked[r] : todo[r][i] > 0

RunRow == [status : {"none", "success", "failure"}, finished : BOOLEAN]

TypeInv == TypeOK /\ AskedFromInput

(* The steps of filter_new keep the types.                                 *)
LEMMA FilterNewTypes ==
    ASSUME TypeInv, NEW r \in Runs, FilterNew(r)
    PROVE  TypeInv'
<1> USE DEF TypeInv, TypeOK, AskedFromInput, Stages, Goto
<1>1. ASSUME NEW i \in Items, UrlHashExists(r, i) PROVE TypeInv'
  <2>1. CASE Stored(i)
    <3>1. todo' = [todo EXCEPT ![r] = [todo[r] EXCEPT ![i] = todo[r][i] - 1]]
      BY <1>1, <2>1 DEF UrlHashExists
    <3>2. todo' \in [Runs -> Bag]
      BY <1>1, <3>1, LessInBag DEF UrlHashExists
    <3>3. QED
      BY <1>1, <2>1, <3>1, <3>2 DEF UrlHashExists, history
  <2>2. CASE ~Stored(i)
    <3>1. asked' = [asked EXCEPT ![r] = {i}] /\ UNCHANGED todo
      BY <1>1, <2>2 DEF UrlHashExists
    <3>2. asked' \in [Runs -> SUBSET Items]
      BY <3>1
    <3>3. UNCHANGED <<pc, conn, fetched, batch, hasError, row, runRow, faults,
                      delivered, digested, degraded, purged>>
      BY <1>1 DEF UrlHashExists, history
    <3>4. AskedFromInput'
      BY <1>1, <3>1, <3>3 DEF UrlHashExists
    <3>5. QED
      BY <3>1, <3>2, <3>3, <3>4
  <2>3. QED
    BY <2>1, <2>2
<1>2. ASSUME NEW i \in Items, InsertItem(r, i) PROVE TypeInv'
  <2>1. todo' = [todo EXCEPT ![r] = [todo[r] EXCEPT ![i] = todo[r][i] - 1]]
    BY <1>2 DEF InsertItem, UrlHashFree, Recorded
  <2>2. batch' = [batch EXCEPT ![r] = [batch[r] EXCEPT ![i] = batch[r][i] + 1]]
    BY <1>2 DEF InsertItem, UrlHashFree, Recorded
  <2>3. todo[r][i] > 0
    BY <1>2 DEF InsertItem, UrlHashFree, Recorded
  <2>4. todo' \in [Runs -> Bag] /\ batch' \in [Runs -> Bag]
    BY <2>1, <2>2, <2>3, LessInBag, MoreInBag
  <2>5. QED
    BY <1>2, <2>1, <2>4 DEF InsertItem, UrlHashFree, Recorded, history, Ages
<1>3. ASSUME NEW txn \in {"auto", "open", "writer"}, FallBack(r, txn),
             faults' \in Nat
      PROVE  TypeInv'
  BY <1>3, EmptyBag DEF FallBack, ForgetInput
<1>4. CASE InsertConflict(r)
  BY <1>3, <1>4 DEF InsertConflict, UrlHashFree
<1>5. CASE InsertBusy(r)
  BY <1>3, <1>5 DEF InsertBusy
<1>6. CASE DedupFault(r)
  <2>1. (IF asked[r] = {} THEN conn[r] ELSE "open") \in {"auto", "open", "writer"}
    OBVIOUS
  <2>2. faults' \in Nat
    BY <1>6 DEF DedupFault
  <2>3. QED
    BY <1>3, <1>6, <2>1, <2>2 DEF DedupFault
<1>7. CASE FilterNewDone(r)
  BY <1>7, EmptyBag DEF FilterNewDone, ForgetInput, history
<1>8. QED
  BY <1>1, <1>2, <1>4, <1>5, <1>6, <1>7 DEF FilterNew

(* Every step keeps the types.                                             *)
LEMMA TypeStep == TypeInv /\ [Next]_vars => TypeInv'
<1> SUFFICES ASSUME TypeInv, [Next]_vars
             PROVE  TypeInv'
  OBVIOUS
<1> USE DEF TypeInv, TypeOK, AskedFromInput, Stages, Goto
<1>1. ASSUME NEW r \in Runs, Launch(r) PROVE TypeInv'
  BY <1>1 DEF Launch, dedup, history
<1>2. ASSUME NEW r \in Runs, Collect(r) PROVE TypeInv'
  <2>1. conn' \in [Runs -> {"auto", "open", "writer"}]
    BY <1>2, WriteConn DEF Collect
  <2>2. QED
    BY <1>2, <2>1, CollectedBag DEF Collect, history
<1>3. ASSUME NEW r \in Runs, FilterNew(r) PROVE TypeInv'
  BY <1>3, FilterNewTypes
<1>4. ASSUME NEW r \in Runs, FilterItems(r) PROVE TypeInv'
  <2>1. PICK kept \in [Items -> 0..MaxCopies] :
              /\ batch' = [batch EXCEPT ![r] = kept]
              /\ \/ Goto(r, "clean")
                 \/ \E b \in Branches \ {"force"} :
                       Goto(r, IF b = "individual" THEN "summarize" ELSE b)
    BY <1>4 DEF FilterItems, NothingNew
  <2>2. PICK stage \in {"clean", "summarize", "hold", "digest"} : Goto(r, stage)
    BY <2>1, BranchesAssumption
  <2>3. batch' \in [Runs -> Bag]
    BY <2>1, CollectedBag
  <2>4. QED
    BY <1>4, <2>2, <2>3 DEF FilterItems, NothingNew, dedup, history
<1>5. ASSUME NEW r \in Runs, SummarizeAndTranslate(r) PROVE TypeInv'
  <2>1. conn' \in [Runs -> {"auto", "open", "writer"}]
    BY <1>5, WriteConn DEF SummarizeAndTranslate
  <2>2. batch' \in [Runs -> Bag]
    BY <1>5, EmptyBag DEF SummarizeAndTranslate
  <2>3. pc' \in [Runs -> Stages]
    BY <1>5 DEF SummarizeAndTranslate
  <2>4. pc[r] # "filter_new" /\ \A q \in Runs : pc'[q] = "filter_new" => pc[q] = pc'[q]
    BY <1>5 DEF SummarizeAndTranslate
  <2>5. AskedFromInput'
    BY <1>5, <2>4 DEF SummarizeAndTranslate, dedup
  <2>6. QED
    BY <1>5, <2>1, <2>2, <2>3, <2>5 DEF SummarizeAndTranslate, dedup, history
<1>6. ASSUME NEW r \in Runs, NEW i \in Items, SendItem(r, i) PROVE TypeInv'
  <2>1. batch' = [batch EXCEPT ![r] = [batch[r] EXCEPT ![i] = batch[r][i] - 1]]
    BY <1>6 DEF SendItem, Pending, Taken
  <2>2. batch' \in [Runs -> Bag]
    <3>1. batch[r] \in Bag /\ batch[r][i] > 0
      BY <1>6 DEF SendItem, Pending, Taken
    <3>2. [batch[r] EXCEPT ![i] = batch[r][i] - 1] \in Bag
      BY <3>1, LessInBag
    <3>3. QED
      BY <2>1, <3>2
  <2>3. \/ UNCHANGED delivered
        \/ delivered' = [delivered EXCEPT ![r] =
                            [delivered[r] EXCEPT ![i] = delivered[r][i] + 1]]
    BY <1>6 DEF SendItem, Pending, Taken
  <2>4. delivered' \in [Runs -> Bag]
    <3>1. [delivered[r] EXCEPT ![i] = delivered[r][i] + 1] \in Bag
      BY MoreInBag
    <3>2. QED
      BY <2>3, <3>1
  <2>5. conn' \in [Runs -> {"auto", "open", "writer"}]
    BY <1>6, WriteConn DEF SendItem, Pending, Taken
  <2>6. QED
    BY <1>6, <2>2, <2>4, <2>5 DEF SendItem, Pending, Taken, dedup
<1>7. ASSUME NEW r \in Runs, SendMessagesDone(r) PROVE TypeInv'
  BY <1>7 DEF SendMessagesDone, dedup, history
<1>8. ASSUME NEW r \in Runs, SendDigest(r) PROVE TypeInv'
  BY <1>8 DEF SendDigest, UnsentItems, dedup
<1>9. ASSUME NEW r \in Runs, DigestFault(r) PROVE TypeInv'
  BY <1>9 DEF DigestFault, dedup, history
<1>10. ASSUME NEW r \in Runs, CleanupOldData(r) PROVE TypeInv'
  BY <1>10 DEF CleanupOldData, dedup, Ages
<1>11. ASSUME NEW r \in Runs, CleanupFails(r) PROVE TypeInv'
  BY <1>11 DEF CleanupFails, BeginRaises, dedup, history
<1>12. ASSUME NEW r \in Runs, Notify(r) PROVE TypeInv'
  <2>1. conn' \in [Runs -> {"auto", "open", "writer"}]
    BY <1>12, WriteConn DEF Notify
  <2>2. QED
    BY <1>12, <2>1 DEF Notify, dedup, history
<1>13. ASSUME NEW r \in Runs, InsertRun(r) PROVE TypeInv'
  <2>1. conn' \in [Runs -> {"auto", "open", "writer"}]
    BY <1>13, WriteConn DEF InsertRun
  <2>2. runRow' \in [Runs -> RunRow]
    <3>1. CASE Busy(r)
      BY <1>13, <3>1 DEF InsertRun, RunRow
    <3>2. CASE ~Busy(r)
      <4>1. runRow' = [runRow EXCEPT ![r] = [runRow[r] EXCEPT !.status =
                             IF hasError[r] THEN "failure" ELSE "success"]]
        BY <1>13, <3>2 DEF InsertRun
      <4>2. QED
        BY <4>1 DEF RunRow
    <3>3. QED
      BY <3>1, <3>2
  <2>3. pc' \in [Runs -> Stages] /\ pc'[r] # "filter_new"
    BY <1>13 DEF InsertRun
  <2>4. QED
    BY <1>13, <2>1, <2>2, <2>3 DEF InsertRun, RunRow, dedup,
       history
<1>14. ASSUME NEW r \in Runs, UpdateRun(r) PROVE TypeInv'
  <2>1. conn' \in [Runs -> {"auto", "open", "writer"}]
    BY <1>14, WriteConn DEF UpdateRun
  <2>2. runRow' \in [Runs -> RunRow]
    <3>1. CASE Busy(r)
      BY <1>14, <3>1 DEF UpdateRun, RunRow
    <3>2. CASE ~Busy(r)
      <4>1. runRow' = [runRow EXCEPT ![r] = [runRow[r] EXCEPT !.finished = TRUE]]
        BY <1>14, <3>2 DEF UpdateRun
      <4>2. QED
        BY <4>1 DEF RunRow
    <3>3. QED
      BY <3>1, <3>2
  <2>3. pc' \in [Runs -> Stages] /\ pc'[r] # "filter_new"
    BY <1>14 DEF UpdateRun
  <2>4. QED
    BY <1>14, <2>1, <2>2, <2>3 DEF UpdateRun, RunRow, dedup, history
<1>15. ASSUME NEW r \in Runs, LogFault(r) \/ Close(r) PROVE TypeInv'
  <2>1. CASE LogFault(r)
    BY <2>1 DEF LogFault, dedup, history
  <2>2. CASE Close(r)
    <3>1. PICK stage \in {"done", "left"} : Goto(r, stage)
      BY <2>2 DEF Close
    <3>2. pc' = [pc EXCEPT ![r] = stage] /\ pc[r] # "filter_new"
      BY <2>2, <3>1 DEF Close
    <3>3. QED
      BY <2>2, <3>2 DEF Close, dedup, history
  <2>3. QED
    BY <1>15, <2>1, <2>2
<1>16. ASSUME NEW r \in Runs, Kill(r) PROVE TypeInv'
  BY <1>16, EmptyBag DEF Kill, ForgetInput, history
<1>17. CASE Midnight
  BY <1>17 DEF Midnight, Ages, dedup, history
<1>18. ASSUME NEW i \in Items, Expire(i) PROVE TypeInv'
  BY <1>18 DEF Expire, Ages, dedup, history
<1>19. CASE UNCHANGED vars
  BY <1>19 DEF vars
<1>20. QED
  BY <1>1, <1>2, <1>3, <1>4, <1>5, <1>6, <1>7, <1>8, <1>9, <1>10, <1>11,
     <1>12, <1>13, <1>14, <1>15, <1>16, <1>17, <1>18, <1>19
     DEF Next, Step, SendMessages

LEMMA TypeInvariant == Spec => []TypeInv
<1>1. Init => TypeInv
  BY EmptyBag DEF Init, TypeInv, TypeOK, AskedFromInput, Stages, Ages, NoRow
<1>2. QED
  BY <1>1, TypeStep, PTL DEF Spec

(* The variables keep their types.                                         *)
THEOREM TypeCorrect == Spec => []TypeOK
<1>1. TypeInv => TypeOK
  BY DEF TypeInv
<1>2. QED
  BY <1>1, TypeInvariant, PTL

-----------------------------------------------------------------------------
(* The lock leaked by a failed insert.                                     *)

LockInv ==
    /\ LeakedLockConfined
    /\ FailureExplained
    /\ \A r \in Runs : conn[r] # "auto" => degraded # {} \/ faults > 0

(* Every step keeps LockInv: a transaction is only left open by a run that *)
(* falls back, by one that met the lock of such a run, or by an error.     *)
LEMMA LockStep == TypeInv /\ LockInv /\ [Next]_vars => LockInv'
<1> SUFFICES ASSUME TypeInv, LockInv, [Next]_vars
             PROVE  LockInv'
  OBVIOUS
<1> USE DEF TypeInv, TypeOK, LockInv, LeakedLockConfined, FailureExplained, Goto
<1>1. ASSUME NEW r \in Runs, Launch(r) PROVE LockInv'
  BY <1>1 DEF Launch, history
<1>0. ASSUME NEW r \in Runs, Write(r), UNCHANGED <<hasError, faults, degraded>>,
             \A q \in Runs \ {r} : pc'[q] = pc[q]
      PROVE  LockInv'
  BY <1>0, WriteConn
<1>2. ASSUME NEW r \in Runs, Collect(r) PROVE LockInv'
  BY <1>2, <1>0 DEF Collect, history
<1>3. ASSUME NEW r \in Runs, FilterNew(r) PROVE LockInv'
  <2>1. ASSUME NEW i \in Items, UrlHashExists(r, i) PROVE LockInv'
    BY <2>1 DEF UrlHashExists, history
  <2>2. ASSUME NEW i \in Items, InsertItem(r, i) PROVE LockInv'
    BY <2>2 DEF InsertItem, UrlHashFree, Recorded, history
  <2>3. ASSUME NEW txn, FallBack(r, txn), faults' >= faults PROVE LockInv'
    BY <2>3 DEF FallBack
  <2>4. CASE InsertConflict(r)
    BY <2>3, <2>4 DEF InsertConflict, UrlHashFree
  <2>5. CASE InsertBusy(r)
    BY <2>3, <2>5 DEF InsertBusy
  <2>6. CASE DedupFault(r)
    <3>1. faults' >= faults
      BY <2>6 DEF DedupFault
    <3>2. QED
      BY <2>3, <2>6, <3>1 DEF DedupFault
  <2>7. CASE FilterNewDone(r)
    BY <2>7 DEF FilterNewDone, history
  <2>8. QED
    BY <1>3, <2>1, <2>2, <2>4, <2>5, <2>6, <2>7 DEF FilterNew
<1>4. ASSUME NEW r \in Runs, FilterItems(r) PROVE LockInv'
  <2>1. PICK stage \in {"clean", "summarize", "hold", "digest"} : Goto(r, stage)
    BY <1>4, BranchesAssumption DEF FilterItems, NothingNew
  <2>2. QED
    BY <1>4, <2>1 DEF FilterItems, NothingNew, history
<1>6. ASSUME NEW r \in Runs, SummarizeAndTranslate(r) PROVE LockInv'
  BY <1>0, <1>6 DEF SummarizeAndTranslate, history
<1>7. ASSUME NEW r \in Runs, NEW i \in Items, SendItem(r, i) PROVE LockInv'
  BY <1>0, <1>7 DEF SendItem, Pending, Taken
<1>8. ASSUME NEW r \in Runs, SendMessagesDone(r) PROVE LockInv'
  BY <1>8 DEF SendMessagesDone, history
<1>9. ASSUME NEW r \in Runs, SendDigest(r) PROVE LockInv'
  <2>1. conn[r] = "writer" => pc[r] = "digest"
    BY <1>9 DEF SendDigest
  <2>2. QED
    BY <1>9, <2>1 DEF SendDigest
<1>10. ASSUME NEW r \in Runs, DigestFault(r) PROVE LockInv'
  BY <1>10 DEF DigestFault, history
<1>11. ASSUME NEW r \in Runs, CleanupOldData(r) PROVE LockInv'
  BY <1>11 DEF CleanupOldData
<1>12. ASSUME NEW r \in Runs, CleanupFails(r) PROVE LockInv'
  <2>1. degraded # {} \/ faults' > 0
    BY <1>12 DEF CleanupFails, BeginRaises, Busy
  <2>2. QED
    BY <1>12, <2>1 DEF CleanupFails, BeginRaises, history
<1>13. ASSUME NEW r \in Runs, Notify(r) \/ InsertRun(r) \/ UpdateRun(r)
       PROVE  LockInv'
  BY <1>0, <1>13 DEF Notify, InsertRun, UpdateRun, history
<1>14. ASSUME NEW r \in Runs, LogFault(r) \/ Close(r) \/ Kill(r) PROVE LockInv'
  BY <1>14 DEF LogFault, Close, Kill, history
<1>15. CASE Midnight \/ (\E i \in Items : Expire(i)) \/ UNCHANGED vars
  BY <1>15 DEF Midnight, Expire, vars, history
<1>16. QED
  BY <1>1, <1>2, <1>3, <1>4, <1>6, <1>7, <1>8, <1>9, <1>10, <1>11,
     <1>12, <1>13, <1>14, <1>15 DEF Next, Step, SendMessages

(* A leaked write lock stays with a run that fell back, until it sends.    *)
THEOREM LockConfined == Spec => []LeakedLockConfined
<1>1. Init => LockInv
  BY DEF Init, LockInv, LeakedLockConfined, FailureExplained
<1>2. LockInv => LeakedLockConfined
  BY DEF LockInv
<1>3. QED
  BY <1>1, <1>2, TypeInvariant, LockStep, PTL DEF Spec

(* No run fails unless some run fell back or the database reported an      *)
(* error.                                                                  *)
THEOREM FailuresExplained == Spec => []FailureExplained
<1>1. Init => LockInv
  BY DEF Init, LockInv, LeakedLockConfined, FailureExplained
<1>2. LockInv => FailureExplained
  BY DEF LockInv
<1>3. QED
  BY <1>1, <1>2, TypeInvariant, LockStep, PTL DEF Spec

-----------------------------------------------------------------------------
(* Delivery.  What a run has delivered or still carries, Held, is what     *)
(* ownership of an item means: as long as retention leaves the item's row  *)
(* alone, the first of the runs to insert it holds one copy and no other   *)
(* run whose deduplication worked ever holds any.                          *)

Held(r, i) == batch[r][i] + delivered[r][i]

HeldIsStored ==
    \A r \in Runs \ degraded, i \in Items \ purged : Held(r, i) > 0 => Stored(i)

HeldOnce ==
    \A i \in Items \ purged :
        /\ \A r \in Runs \ degraded : Held(r, i) <= 1
        /\ \A r, q \in Runs \ degraded :
              r # q => Held(r, i) = 0 \/ Held(q, i) = 0

DeliveryInv == HeldIsStored /\ HeldOnce

(* A step that gives no run more of any item than it had, forgets no fall  *)
(* back, and deletes only rows it reports as purged.                       *)
LEMMA NoGain ==
    ASSUME TypeInv, TypeInv', HeldIsStored, HeldOnce,
           degraded \subseteq degraded', purged \subseteq purged',
           \A i \in Items \ purged' : Stored(i) => Stored(i)',
           \A r \in Runs \ degraded', i \in Items : Held(r, i)' <= Held(r, i)
    PROVE  HeldIsStored' /\ HeldOnce'
<1>1. \A r \in Runs, i \in Items : Held(r, i) \in Nat /\ Held(r, i)' \in Nat
  BY DEF TypeInv, TypeOK, Bag, Held
<1>2. HeldIsStored'
  BY <1>1 DEF HeldIsStored
<1>3. HeldOnce'
  BY <1>1 DEF HeldOnce
<1>4. QED
  BY <1>2, <1>3

(* A step that leaves the items, their rows and their holders alone.       *)
LEMMA SameItems ==
    ASSUME TypeInv, TypeInv', HeldIsStored, HeldOnce,
           UNCHANGED <<batch, row, delivered, degraded, purged>>
    PROVE  HeldIsStored' /\ HeldOnce'
<1>1. \A r \in Runs, i \in Items : Held(r, i)' <= Held(r, i)
  BY DEF TypeInv, TypeOK, Bag, Held
<1>2. QED
  BY <1>1, NoGain DEF Stored

(* An insert gives a run one copy of an item no healthy run ever held.     *)
LEMMA InsertKeeps ==
    ASSUME TypeInv, TypeInv', HeldIsStored, HeldOnce,
           NEW r \in Runs, NEW i \in Items, InsertItem(r, i)
    PROVE  HeldIsStored' /\ HeldOnce'
<1> USE DEF TypeInv, TypeOK
<1>1. \A q \in Runs, j \in Items : Held(q, j) \in Nat
  BY DEF Bag, Held
<1>2. i \notin purged => \A q \in Runs \ degraded : Held(q, i) = 0
  BY <1>1 DEF InsertItem, UrlHashFree, Recorded, HeldIsStored
<1>3. \A q \in Runs, j \in Items :
        Held(q, j)' = IF q = r /\ j = i THEN Held(q, j) + 1 ELSE Held(q, j)
  <2>1. batch' = [batch EXCEPT ![r] = [batch[r] EXCEPT ![i] = batch[r][i] + 1]]
    BY DEF InsertItem, UrlHashFree, Recorded
  <2>2. delivered' = delivered
    BY DEF InsertItem, UrlHashFree, Recorded, history
  <2>3. QED
    BY <2>1, <2>2 DEF Held, Bag
<1>4. degraded' = degraded /\ purged' = purged
  BY DEF InsertItem, UrlHashFree, Recorded, history
<1>5. Stored(i)' /\ \A j \in Items : Stored(j) => Stored(j)'
  BY DEF InsertItem, UrlHashFree, Recorded, Stored
<1>6. HeldIsStored'
  BY <1>1, <1>3, <1>4, <1>5 DEF HeldIsStored
<1>7. HeldOnce'
  <2>1. SUFFICES ASSUME NEW j \in Items \ purged
                 PROVE  /\ \A q \in Runs \ degraded : Held(q, j)' <= 1
                        /\ \A p, q \in Runs \ degraded :
                              p # q => Held(p, j)' = 0 \/ Held(q, j)' = 0
    BY <1>4 DEF HeldOnce
  <2>2. CASE j = i
    <3>1. \A q \in Runs \ degraded : Held(q, i)' = IF q = r THEN 1 ELSE 0
      BY <1>2, <1>3, <2>2
    <3>2. QED
      BY <2>1, <2>2, <3>1
  <2>3. CASE j # i
    BY <1>3, <2>1, <2>3 DEF HeldOnce
  <2>4. QED
    BY <2>2, <2>3
<1>8. QED
  BY <1>6, <1>7

(* A fall back takes the run out of the healthy ones; the others hold what *)
(* they held.                                                              *)
LEMMA FallBackKeeps ==
    ASSUME TypeInv, TypeInv', HeldIsStored, HeldOnce,
           NEW r \in Runs, NEW txn, FallBack(r, txn)
    PROVE  HeldIsStored' /\ HeldOnce'
<1>1. \A q \in Runs \ degraded', i \in Items : Held(q, i)' <= Held(q, i)
  BY DEF FallBack, TypeInv, TypeOK, Bag, Held
<1>2. degraded \subseteq degraded' /\ purged' = purged /\ row' = row
  BY DEF FallBack
<1>3. QED
  BY <1>1, <1>2, NoGain DEF Stored

(* Dropping a batch, or part of it, gives no run more of any item.         *)
LEMMA DropKeeps ==
    ASSUME TypeInv, TypeInv', HeldIsStored, HeldOnce,
           NEW r \in Runs, NEW kept \in Bag, \A i \in Items : kept[i] <= batch[r][i],
           batch' = [batch EXCEPT ![r] = kept],
           UNCHANGED <<row, delivered, degraded, purged>>
    PROVE  HeldIsStored' /\ HeldOnce'
<1>1. \A q \in Runs, i \in Items : Held(q, i)' <= Held(q, i)
  BY DEF TypeInv, TypeOK, Bag, Held
<1>2. QED
  BY <1>1, NoGain DEF Stored

(* A message takes its copy from the batch: held before, held after.       *)
LEMMA SendKeeps ==
    ASSUME TypeInv, TypeInv', HeldIsStored, HeldOnce,
           NEW r \in Runs, NEW i \in Items, SendItem(r, i)
    PROVE  HeldIsStored' /\ HeldOnce'
<1> USE DEF TypeInv, TypeOK
<1>1. batch' = [batch EXCEPT ![r] = [batch[r] EXCEPT ![i] = batch[r][i] - 1]]
  BY DEF SendItem, Pending, Taken
<1>2. \/ UNCHANGED delivered
      \/ delivered' = [delivered EXCEPT ![r] =
                          [delivered[r] EXCEPT ![i] = delivered[r][i] + 1]]
  BY DEF SendItem, Pending, Taken
<1>3. \A q \in Runs, j \in Items : Held(q, j)' <= Held(q, j)
  BY <1>1, <1>2 DEF Held, Bag
<1>4. UNCHANGED <<row, degraded, purged>>
  BY DEF SendItem, Pending, Taken
<1>5. QED
  BY <1>3, <1>4, NoGain DEF Stored

(* The cleanup deletes only what it reports.                               *)
LEMMA CleanupKeeps ==
    ASSUME TypeInv, TypeInv', HeldIsStored, HeldOnce,
           NEW r \in Runs, CleanupOldData(r)
    PROVE  HeldIsStored' /\ HeldOnce'
<1>1. \A q \in Runs, j \in Items : Held(q, j)' <= Held(q, j)
  BY DEF CleanupOldData, TypeInv, TypeOK, Bag, Held
<1>2. degraded' = degraded /\ purged \subseteq purged'
  BY DEF CleanupOldData
<1>3. \A i \in Items \ purged' : Stored(i) => Stored(i)'
  BY DEF CleanupOldData, Stored
<1>4. QED
  BY <1>1, <1>2, <1>3, NoGain

(* Every step keeps the ownership of items.                                *)
LEMMA DeliveryStep == TypeInv /\ DeliveryInv /\ [Next]_vars => DeliveryInv'
<1> SUFFICES ASSUME TypeInv, DeliveryInv, [Next]_vars
             PROVE  HeldIsStored' /\ HeldOnce'
  BY DEF DeliveryInv
<1> USE DEF DeliveryInv
<1>0. TypeInv'
  BY TypeStep
<1>1. ASSUME NEW r \in Runs, Launch(r) \/ Collect(r)
      PROVE  HeldIsStored' /\ HeldOnce'
  BY <1>0, <1>1, SameItems DEF Launch, Collect, history
<1>2. ASSUME NEW r \in Runs, FilterNew(r) PROVE HeldIsStored' /\ HeldOnce'
  <2>1. ASSUME NEW i \in Items, UrlHashExists(r, i)
        PROVE  HeldIsStored' /\ HeldOnce'
    BY <1>0, <2>1, SameItems DEF UrlHashExists, history
  <2>2. ASSUME NEW i \in Items, InsertItem(r, i)
        PROVE  HeldIsStored' /\ HeldOnce'
    BY <1>0, <2>2, InsertKeeps
  <2>3. CASE InsertConflict(r) \/ InsertBusy(r) \/ DedupFault(r)
    BY <1>0, <2>3, FallBackKeeps DEF InsertConflict, UrlHashFree, InsertBusy,
       DedupFault
  <2>4. CASE FilterNewDone(r)
    BY <1>0, <2>4, SameItems DEF FilterNewDone, history
  <2>5. QED
    BY <1>2, <2>1, <2>2, <2>3, <2>4 DEF FilterNew
<1>3. ASSUME NEW r \in Runs, FilterItems(r) PROVE HeldIsStored' /\ HeldOnce'
  <2>1. PICK kept \in [Items -> 0..MaxCopies] :
              /\ \A i \in Items : kept[i] <= batch[r][i]
              /\ batch' = [batch EXCEPT ![r] = kept]
    BY <1>3 DEF FilterItems, NothingNew
  <2>2. UNCHANGED <<row, delivered, degraded, purged>>
    BY <1>3 DEF FilterItems, NothingNew, history
  <2>3. QED
    BY <1>0, <2>1, <2>2, CollectedBag, DropKeeps
<1>4. ASSUME NEW r \in Runs, batch' = [batch EXCEPT ![r] = Empty],
             UNCHANGED <<row, delivered, degraded, purged>>
      PROVE  HeldIsStored' /\ HeldOnce'
  <2>1. \A i \in Items : Empty[i] <= batch[r][i]
    BY DEF Empty, TypeInv, TypeOK, Bag
  <2>2. QED
    BY <1>0, <1>4, <2>1, EmptyBag, DropKeeps
<1>5. ASSUME NEW r \in Runs, SummarizeAndTranslate(r)
      PROVE  HeldIsStored' /\ HeldOnce'
  BY <1>0, <1>4, <1>5, SameItems DEF SummarizeAndTranslate, history
<1>6. ASSUME NEW r \in Runs, SendMessages(r) PROVE HeldIsStored' /\ HeldOnce'
  BY <1>0, <1>6, SendKeeps, SameItems DEF SendMessages, SendMessagesDone,
     history
<1>7. ASSUME NEW r \in Runs, SendDigest(r) PROVE HeldIsStored' /\ HeldOnce'
  BY <1>0, <1>7, SameItems DEF SendDigest
<1>8. ASSUME NEW r \in Runs, CleanupOldData(r) PROVE HeldIsStored' /\ HeldOnce'
  BY <1>0, <1>8, CleanupKeeps
<1>9. ASSUME NEW r \in Runs,
             \/ DigestFault(r) \/ CleanupFails(r) \/ Notify(r)
             \/ InsertRun(r) \/ UpdateRun(r) \/ LogFault(r) \/ Close(r)
      PROVE  HeldIsStored' /\ HeldOnce'
  BY <1>0, <1>9, SameItems DEF DigestFault, CleanupFails, BeginRaises, Notify,
     InsertRun, UpdateRun, LogFault, Close, history
<1>10. ASSUME NEW r \in Runs, Kill(r) PROVE HeldIsStored' /\ HeldOnce'
  BY <1>4, <1>10 DEF Kill, history
<1>11. CASE Midnight \/ \E i \in Items : Expire(i)
  <2>1. \A j \in Items : Stored(j) => Stored(j)'
    BY <1>11 DEF Midnight, Expire, Stored, TypeInv, TypeOK
  <2>2. UNCHANGED <<batch, delivered, degraded, purged>>
    BY <1>11 DEF Midnight, Expire, history
  <2>3. \A q \in Runs, j \in Items : Held(q, j)' <= Held(q, j)
    BY <2>2 DEF TypeInv, TypeOK, Bag, Held
  <2>4. QED
    BY <1>0, <2>1, <2>2, <2>3, NoGain
<1>12. CASE UNCHANGED vars
  BY <1>0, <1>12, SameItems DEF vars
<1>13. QED
  BY <1>1, <1>2, <1>3, <1>5, <1>6, <1>7, <1>8, <1>9, <1>10, <1>11, <1>12
     DEF Next, Step

LEMMA DeliveryInvariant == Spec => [](TypeInv /\ DeliveryInv)
<1>1. Init => DeliveryInv
  BY DEF Init, DeliveryInv, HeldIsStored, HeldOnce, Held, Empty
<1>2. QED
  BY <1>1, TypeInvariant, DeliveryStep, PTL DEF Spec

(* No item is sent twice by the runs whose deduplication worked, as long as*)
(* retention has not deleted its row.                                      *)
THEOREM DeliveryOnce == Spec => []DeliveredOnce
<1>1. TypeInv /\ DeliveryInv => DeliveredOnce
  <2>1. SUFFICES ASSUME TypeInv, DeliveryInv, NEW i \in Items \ purged
                 PROVE  /\ \A r \in Runs \ degraded : delivered[r][i] <= 1
                        /\ \A r, q \in Runs \ degraded :
                              r # q => delivered[r][i] = 0 \/ delivered[q][i] = 0
    BY DEF DeliveredOnce
  <2>2. \A r \in Runs : batch[r][i] \in Nat /\ delivered[r][i] \in Nat
    BY <2>1 DEF TypeInv, TypeOK, Bag
  <2>3. \A r \in Runs \ degraded : Held(r, i) <= 1
    BY <2>1 DEF DeliveryInv, HeldOnce
  <2>4. \A r, q \in Runs \ degraded : r # q => Held(r, i) = 0 \/ Held(q, i) = 0
    BY <2>1 DEF DeliveryInv, HeldOnce
  <2>5. QED
    BY <2>2, <2>3, <2>4 DEF Held
<1>2. QED
  BY <1>1, DeliveryInvariant, PTL

(* What a run whose deduplication worked delivers was recorded before.     *)
THEOREM DeliveryRecorded == Spec => []RecordedBeforeSent
<1>1. TypeInv /\ DeliveryInv => RecordedBeforeSent
  BY DEF TypeInv, TypeOK, Bag, DeliveryInv, HeldIsStored, Held,
     RecordedBeforeSent
<1>2. QED
  BY <1>1, DeliveryInvariant, PTL

-----------------------------------------------------------------------------
(* The record of the runs.                                                 *)

LogInv ==
    \A r \in Runs : pc[r] \in {"exit", "done"} /\ ~runRow[r].finished =>
        degraded # {} \/ faults > 0

(* A held write lock means that some run fell back.                        *)
LEMMA BusyMeansFallBack ==
    ASSUME LockInv, NEW r \in Runs, Busy(r)
    PROVE  degraded # {}
BY DEF LockInv, LeakedLockConfined, Busy

(* Every step keeps LogInv: the statements of the run logger fail only     *)
(* against a held lock or with an error of the database.                   *)
LEMMA LogStep == TypeInv /\ LockInv /\ LogInv /\ [Next]_vars => LogInv'
<1> SUFFICES ASSUME TypeInv, LockInv, LogInv, [Next]_vars
             PROVE  LogInv'
  OBVIOUS
<1> USE DEF LogInv, Goto, TypeInv, TypeOK
<1>1. ASSUME NEW r \in Runs, NEW stage, Goto(r, stage), UNCHANGED runRow,
             degraded \subseteq degraded', faults' \in {faults, faults + 1},
             stage \in {"exit", "done"} =>
                 runRow[r].finished \/ degraded # {} \/ faults' > 0
      PROVE  LogInv'
  <2>1. degraded # {} \/ faults > 0 => degraded' # {} \/ faults' > 0
    BY <1>1
  <2>2. \A q \in Runs : pc'[q] = IF q = r THEN stage ELSE pc[q]
    BY <1>1
  <2>3. stage \in {"exit", "done"} /\ ~runRow[r].finished
        => degraded' # {} \/ faults' > 0
    BY <1>1, <2>1
  <2>4. QED
    BY <1>1, <2>1, <2>2, <2>3
<1>2. ASSUME UNCHANGED <<pc, runRow, faults>>, degraded \subseteq degraded'
      PROVE  LogInv'
  BY <1>2
<1>3. ASSUME NEW r \in Runs, Launch(r) PROVE LogInv'
  BY <1>1, <1>3 DEF Launch, history
<1>4. ASSUME NEW r \in Runs, Collect(r) PROVE LogInv'
  BY <1>1, <1>4 DEF Collect, history
<1>5. ASSUME NEW r \in Runs, FilterNew(r) PROVE LogInv'
  <2>1. CASE FilterNewDone(r)
    BY <1>1, <2>1 DEF FilterNewDone, history
  <2>2. CASE InsertConflict(r) \/ InsertBusy(r) \/ DedupFault(r)
    BY <1>1, <2>2 DEF InsertConflict, UrlHashFree, InsertBusy, DedupFault,
       FallBack
  <2>3. QED
    BY <1>2, <1>5, <2>1, <2>2 DEF FilterNew, UrlHashExists, InsertItem,
       UrlHashFree, Recorded, history
<1>6. ASSUME NEW r \in Runs, FilterItems(r) PROVE LogInv'
  <2>1. PICK stage \in {"clean", "summarize", "hold", "digest"} : Goto(r, stage)
    BY <1>6, BranchesAssumption DEF FilterItems, NothingNew
  <2>2. QED
    BY <1>1, <1>6, <2>1 DEF FilterItems, NothingNew, history
<1>7. ASSUME NEW r \in Runs, SummarizeAndTranslate(r) \/ SendMessages(r)
      PROVE  LogInv'
  BY <1>1, <1>2, <1>7 DEF SummarizeAndTranslate, SendMessages, SendItem,
     Pending, Taken, SendMessagesDone, history
<1>8. ASSUME NEW r \in Runs, SendDigest(r) \/ DigestFault(r) PROVE LogInv'
  BY <1>1, <1>8 DEF SendDigest, DigestFault, history
<1>9. ASSUME NEW r \in Runs, CleanupOldData(r) \/ CleanupFails(r) \/ Notify(r)
      PROVE  LogInv'
  BY <1>1, <1>9 DEF CleanupOldData, CleanupFails, BeginRaises, Notify, history
<1>10. ASSUME NEW r \in Runs, InsertRun(r) PROVE LogInv'
  <2>1. CASE Busy(r)
    BY <1>1, <1>10, <2>1, BusyMeansFallBack DEF InsertRun, history
  <2>2. CASE ~Busy(r)
    <3>1. runRow' = [runRow EXCEPT ![r] = [runRow[r] EXCEPT !.status =
                        IF hasError[r] THEN "failure" ELSE "success"]]
      BY <1>10, <2>2 DEF InsertRun
    <3>2. \A q \in Runs : runRow'[q].finished = runRow[q].finished
      BY <3>1
    <3>3. QED
      BY <1>10, <2>2, <3>2 DEF InsertRun, history
  <2>3. QED
    BY <2>1, <2>2
<1>11. ASSUME NEW r \in Runs, UpdateRun(r) PROVE LogInv'
  <2>1. CASE Busy(r)
    BY <1>1, <1>11, <2>1, BusyMeansFallBack DEF UpdateRun, history
  <2>2. CASE ~Busy(r)
    <3>1. runRow' = [runRow EXCEPT ![r] = [runRow[r] EXCEPT !.finished = TRUE]]
      BY <1>11, <2>2 DEF UpdateRun
    <3>2. runRow'[r].finished /\ \A q \in Runs \ {r} : runRow'[q] = runRow[q]
      BY <3>1
    <3>3. QED
      BY <1>11, <3>2 DEF UpdateRun, history
  <2>3. QED
    BY <2>1, <2>2
<1>12. ASSUME NEW r \in Runs, LogFault(r) \/ Close(r) \/ Kill(r) PROVE LogInv'
  BY <1>1, <1>12 DEF LogFault, Close, Kill, history
<1>13. CASE Midnight \/ (\E i \in Items : Expire(i)) \/ UNCHANGED vars
  BY <1>2, <1>13 DEF Midnight, Expire, vars, history
<1>14. QED
  BY <1>3, <1>4, <1>5, <1>6, <1>7, <1>8, <1>9, <1>10, <1>11, <1>12, <1>13
     DEF Next, Step

(* A pipeline run that got past its start and ends by itself is on record, *)
(* unless some run's deduplication fell back or the database reported an   *)
(* error.                                                                  *)
THEOREM RunsLogged == Spec => []RunsAreLogged
<1>1. Init => LockInv /\ LogInv
  BY DEF Init, LockInv, LeakedLockConfined, FailureExplained, LogInv
<1>2. LogInv => RunsAreLogged
  BY DEF LogInv, RunsAreLogged
<1>3. QED
  BY <1>1, <1>2, TypeInvariant, LockStep, LogStep, PTL DEF Spec

-----------------------------------------------------------------------------
(* The pipeline implements ItemLedger: the initial state maps to the       *)
(* initial ledger and every step to a step of it, or to none.              *)

(* A run that has fallen back is past deduplication.                       *)
FallBackOnce == \A r \in degraded : pc[r] \notin {"idle", "collect", "filter_new"}

LEMMA FallBackStep == TypeInv /\ FallBackOnce /\ [Next]_vars => FallBackOnce'
<1> SUFFICES ASSUME TypeInv, FallBackOnce, [Next]_vars
             PROVE  FallBackOnce'
  OBVIOUS
<1> USE DEF FallBackOnce, TypeInv, TypeOK, Goto
<1>1. ASSUME NEW r \in Runs, NEW stage, Goto(r, stage), degraded' = degraded,
             r \in degraded => stage \notin {"idle", "collect", "filter_new"}
      PROVE  FallBackOnce'
  BY <1>1
<1>2. ASSUME UNCHANGED <<pc, degraded>> PROVE FallBackOnce'
  BY <1>2
<1>3. ASSUME NEW r \in Runs, Launch(r) \/ Collect(r) PROVE FallBackOnce'
  BY <1>1, <1>3 DEF Launch, Collect, history
<1>4. ASSUME NEW r \in Runs, FilterNew(r) PROVE FallBackOnce'
  <2>1. CASE InsertConflict(r) \/ InsertBusy(r) \/ DedupFault(r)
    BY <2>1 DEF InsertConflict, UrlHashFree, InsertBusy, DedupFault, FallBack
  <2>2. CASE FilterNewDone(r)
    BY <1>1, <2>2 DEF FilterNewDone, history
  <2>3. QED
    BY <1>2, <1>4, <2>1, <2>2 DEF FilterNew, UrlHashExists, InsertItem,
       UrlHashFree, Recorded, history
<1>5. ASSUME NEW r \in Runs, FilterItems(r) PROVE FallBackOnce'
  <2>1. PICK stage \in {"clean", "summarize", "hold", "digest"} : Goto(r, stage)
    BY <1>5, BranchesAssumption DEF FilterItems, NothingNew
  <2>2. QED
    BY <1>5, <2>1 DEF FilterItems, NothingNew, history
<1>6. ASSUME NEW r \in Runs, SummarizeAndTranslate(r) \/ SendMessages(r)
      PROVE  FallBackOnce'
  BY <1>1, <1>2, <1>6 DEF SummarizeAndTranslate, SendMessages, SendItem,
     Pending, Taken, SendMessagesDone, history
<1>7. ASSUME NEW r \in Runs, SendDigest(r) \/ DigestFault(r) PROVE FallBackOnce'
  BY <1>1, <1>7 DEF SendDigest, DigestFault, history
<1>8. ASSUME NEW r \in Runs, CleanupOldData(r) \/ CleanupFails(r) \/ Notify(r)
      PROVE  FallBackOnce'
  BY <1>1, <1>8 DEF CleanupOldData, CleanupFails, BeginRaises, Notify, history
<1>9. ASSUME NEW r \in Runs, InsertRun(r) \/ UpdateRun(r)
              \/ LogFault(r) \/ Close(r) \/ Kill(r)
      PROVE  FallBackOnce'
  BY <1>1, <1>9 DEF InsertRun, UpdateRun, LogFault, Close, Kill, history
<1>10. CASE Midnight \/ (\E i \in Items : Expire(i)) \/ UNCHANGED vars
  BY <1>2, <1>10 DEF Midnight, Expire, vars, history
<1>11. QED
  BY <1>3, <1>4, <1>5, <1>6, <1>7, <1>8, <1>9, <1>10 DEF Next, Step

-----------------------------------------------------------------------------

LedgerStep == [Ledger!LedgerNext]_(Ledger!ledgerVars)

(* What the ledger does not see.                                           *)
LEMMA Unseen ==
    ASSUME LedgerOf(batch)' = LedgerOf(batch),
           LedgerOf(delivered)' = LedgerOf(delivered),
           UNCHANGED <<degraded, purged>>,
           \A i \in Items : Stored(i)' = Stored(i)
    PROVE  LedgerStep
BY DEF LedgerStep, Ledger!ledgerVars

LEMMA SameLedgerOf ==
    ASSUME UNCHANGED <<batch, delivered, degraded, purged>>
    PROVE  /\ LedgerOf(batch)' = LedgerOf(batch)
           /\ LedgerOf(delivered)' = LedgerOf(delivered)
BY DEF LedgerOf

(* Part of a batch is dropped.                                             *)
LEMMA DropIsGiveUp ==
    ASSUME TypeInv, NEW r \in Runs, NEW kept \in Bag,
           \A i \in Items : kept[i] <= batch[r][i],
           batch' = [batch EXCEPT ![r] = kept],
           UNCHANGED <<row, delivered, degraded, purged>>
    PROVE  LedgerStep
<1> DEFINE lost == {i \in Items \ purged : kept[i] = 0}
<1> USE DEF TypeInv, TypeOK, Bag
<1>1. LedgerOf(delivered)' = LedgerOf(delivered)
  BY DEF LedgerOf
<1>2. \A i \in Items : Stored(i)' = Stored(i)
  BY DEF Stored
<1>3. \A q \in Runs : LedgerOf(batch)'[q] =
          IF q = r THEN LedgerOf(batch)[q] \ lost ELSE LedgerOf(batch)[q]
  <2>1. \A i \in Items \ purged :
           batch'[r][i] > 0 <=> batch[r][i] > 0 /\ i \notin lost
    OBVIOUS
  <2>2. QED
    BY <2>1 DEF LedgerOf
<1>4. LedgerOf(batch)' = [LedgerOf(batch) EXCEPT ![r] = @ \ lost]
  BY <1>3 DEF LedgerOf
<1>5. CASE lost # {}
  <2>1. Ledger!GiveUp(r, lost)
    BY <1>1, <1>2, <1>4, <1>5 DEF Ledger!GiveUp
  <2>2. lost \in SUBSET Items
    OBVIOUS
  <2>3. QED
    BY <2>1, <2>2 DEF LedgerStep, Ledger!LedgerNext
<1>6. CASE lost = {}
  <2>1. LedgerOf(batch)' = LedgerOf(batch)
    <3>1. \A q \in Runs : LedgerOf(batch)'[q] = LedgerOf(batch)[q]
      BY <1>3, <1>6
    <3>2. QED
      BY <3>1 DEF LedgerOf
  <2>2. QED
    BY <1>1, <1>2, <2>1, Unseen
<1>7. QED
  BY <1>5, <1>6

(* An insert records an item the ledger does not hold.                     *)
LEMMA InsertIsRecord ==
    ASSUME TypeInv, FallBackOnce, DeliveryInv,
           NEW r \in Runs, NEW i \in Items, InsertItem(r, i)
    PROVE  LedgerStep
<1> USE DEF TypeInv, TypeOK
<1>1. r \notin degraded
  BY DEF InsertItem, UrlHashFree, Recorded, FallBackOnce, AskedFromInput
<1>2. batch' = [batch EXCEPT ![r] = [batch[r] EXCEPT ![i] = batch[r][i] + 1]]
  BY DEF InsertItem, UrlHashFree, Recorded
<1>3. UNCHANGED <<delivered, degraded, purged>>
  BY DEF InsertItem, UrlHashFree, Recorded, history
<1>4. LedgerOf(delivered)' = LedgerOf(delivered)
  BY <1>3 DEF LedgerOf
<1>5. ~Stored(i) /\ \A j \in Items : Stored(j)' <=> Stored(j) \/ j = i
  BY DEF InsertItem, UrlHashFree, Recorded, Stored
<1>6. CASE i \in purged
  <2>1. \A q \in Runs, j \in Items \ purged : batch'[q][j] = batch[q][j]
    BY <1>2, <1>6 DEF Bag
  <2>2. LedgerOf(batch)' = LedgerOf(batch)
    BY <1>3, <2>1 DEF LedgerOf
  <2>3. {j \in Items \ purged : Stored(j)}' = {j \in Items \ purged : Stored(j)}
    BY <1>3, <1>5, <1>6
  <2>4. QED
    BY <1>3, <1>4, <2>2, <2>3 DEF LedgerStep, Ledger!ledgerVars
<1>7. CASE i \notin purged
  <2>1. \A q \in Runs : LedgerOf(batch)'[q] =
           IF q = r THEN LedgerOf(batch)[q] \cup {i} ELSE LedgerOf(batch)[q]
    <3>1. \A j \in Items : batch'[r][j] > 0 <=> batch[r][j] > 0 \/ j = i
      BY <1>2 DEF Bag
    <3>2. \A q \in Runs \ {r} : batch'[q] = batch[q]
      BY <1>2
    <3>3. LedgerOf(batch)'[r] = {j \in Items \ purged : batch'[r][j] > 0}
      BY <1>1, <1>3 DEF LedgerOf
    <3>4. LedgerOf(batch)[r] = {j \in Items \ purged : batch[r][j] > 0}
      BY <1>1 DEF LedgerOf
    <3>5. LedgerOf(batch)'[r] = LedgerOf(batch)[r] \cup {i}
      BY <1>7, <3>1, <3>3, <3>4
    <3>6. \A q \in Runs \ {r} : LedgerOf(batch)'[q] = LedgerOf(batch)[q]
      BY <1>3, <3>2 DEF LedgerOf
    <3>7. QED
      BY <3>5, <3>6
  <2>2. LedgerOf(batch)' = [LedgerOf(batch) EXCEPT ![r] = @ \cup {i}]
    BY <2>1 DEF LedgerOf
  <2>3. {j \in Items \ purged : Stored(j)}' = {j \in Items \ purged : Stored(j)} \cup {i}
    BY <1>3, <1>5, <1>7
  <2>4. Ledger!Record(r, i)
    BY <1>1, <1>3, <1>4, <1>5, <1>7, <2>2, <2>3 DEF Ledger!Record
  <2>5. QED
    BY <2>4 DEF LedgerStep, Ledger!LedgerNext
<1>8. QED
  BY <1>6, <1>7

(* A fall back excuses the run.                                            *)
LEMMA FallBackIsExcuse ==
    ASSUME TypeInv, FallBackOnce, NEW r \in Runs, NEW txn, FallBack(r, txn),
           pc[r] = "filter_new"
    PROVE  LedgerStep
<1> USE DEF TypeInv, TypeOK
<1>1. r \notin degraded /\ degraded' = degraded \cup {r}
  BY DEF FallBackOnce, FallBack
<1>2. LedgerOf(batch)' = [LedgerOf(batch) EXCEPT ![r] = {}]
  BY <1>1 DEF LedgerOf, FallBack
<1>3. LedgerOf(delivered)' = [LedgerOf(delivered) EXCEPT ![r] = {}]
  BY <1>1 DEF LedgerOf, FallBack
<1>4. UNCHANGED <<row, purged>>
  BY DEF FallBack
<1>5. Ledger!Excuse(r)
  BY <1>1, <1>2, <1>3, <1>4 DEF Ledger!Excuse, Stored
<1>6. QED
  BY <1>5 DEF LedgerStep, Ledger!LedgerNext

(* A message that arrives delivers the item, one that does not gives it up. *)
LEMMA SendIsDeliver ==
    ASSUME TypeInv, DeliveryInv,
           NEW r \in Runs, NEW i \in Items, SendItem(r, i)
    PROVE  LedgerStep
<1> USE DEF TypeInv, TypeOK
<1>1. batch' = [batch EXCEPT ![r] = [batch[r] EXCEPT ![i] = batch[r][i] - 1]]
  BY DEF SendItem, Pending, Taken
<1>2. UNCHANGED <<row, degraded, purged>>
  BY DEF SendItem, Pending, Taken
<1>3. \A j \in Items : Stored(j)' = Stored(j)
  BY <1>2 DEF Stored
<1>4. \/ delivered' = delivered
      \/ delivered' = [delivered EXCEPT ![r] =
                          [delivered[r] EXCEPT ![i] = delivered[r][i] + 1]]
  BY DEF SendItem, Pending, Taken
<1>5. CASE r \in degraded \/ i \in purged
  <2>1. \A q \in Runs \ degraded, j \in Items \ purged :
           batch'[q][j] = batch[q][j] /\ delivered'[q][j] = delivered[q][j]
    BY <1>1, <1>4, <1>5 DEF Bag
  <2>2. LedgerOf(batch)' = LedgerOf(batch)
    BY <1>2, <2>1 DEF LedgerOf
  <2>3. LedgerOf(delivered)' = LedgerOf(delivered)
    BY <1>2, <2>1 DEF LedgerOf
  <2>4. QED
    BY <1>2, <1>3, <2>2, <2>3, Unseen
<1>6. CASE r \notin degraded /\ i \notin purged
  <2>1. batch[r][i] = 1 /\ delivered[r][i] = 0
    <3>1. Held(r, i) <= 1
      BY <1>6 DEF DeliveryInv, HeldOnce
    <3>2. batch[r][i] \in Nat /\ delivered[r][i] \in Nat /\ batch[r][i] > 0
      BY DEF SendItem, Pending, Taken, Bag
    <3>3. batch[r][i] + delivered[r][i] <= 1
      BY <3>1 DEF Held
    <3>4. \A b, d \in Nat : b > 0 /\ b + d <= 1 => b = 1 /\ d = 0
      OBVIOUS
    <3>5. QED
      BY <3>2, <3>3, <3>4
  <2>2. \A j \in Items : batch'[r][j] > 0 <=> batch[r][j] > 0 /\ j # i
    BY <1>1, <2>1 DEF Bag
  <2>3. \A q \in Runs \ {r} : batch'[q] = batch[q]
    BY <1>1
  <2>4. \A q \in Runs : LedgerOf(batch)'[q] =
           IF q = r THEN LedgerOf(batch)[q] \ {i} ELSE LedgerOf(batch)[q]
    BY <1>2, <1>6, <2>2, <2>3 DEF LedgerOf
  <2>5. LedgerOf(batch)' = [LedgerOf(batch) EXCEPT ![r] = @ \ {i}]
    BY <2>4 DEF LedgerOf
  <2>6. CASE delivered' = delivered
    <3>1. LedgerOf(delivered)' = LedgerOf(delivered)
      BY <1>2, <2>6 DEF LedgerOf
    <3>2. Ledger!GiveUp(r, {i})
      BY <1>2, <1>3, <2>5, <3>1 DEF Ledger!GiveUp
    <3>3. QED
      BY <3>2 DEF LedgerStep, Ledger!LedgerNext
  <2>7. CASE delivered' = [delivered EXCEPT ![r] =
                             [delivered[r] EXCEPT ![i] = delivered[r][i] + 1]]
    <3>1. \A j \in Items : delivered'[r][j] > 0 <=> delivered[r][j] > 0 \/ j = i
      BY <2>7 DEF Bag
    <3>2. \A q \in Runs \ {r} : delivered'[q] = delivered[q]
      BY <2>7
    <3>3. \A q \in Runs : LedgerOf(delivered)'[q] =
             IF q = r THEN LedgerOf(delivered)[q] \cup {i} ELSE LedgerOf(delivered)[q]
      <4>1. LedgerOf(delivered)'[r] = {j \in Items \ purged : delivered'[r][j] > 0}
        BY <1>2, <1>6 DEF LedgerOf
      <4>2. LedgerOf(delivered)[r] = {j \in Items \ purged : delivered[r][j] > 0}
        BY <1>6 DEF LedgerOf
      <4>3. LedgerOf(delivered)'[r] = LedgerOf(delivered)[r] \cup {i}
        BY <1>6, <3>1, <4>1, <4>2
      <4>4. \A q \in Runs \ {r} : LedgerOf(delivered)'[q] = LedgerOf(delivered)[q]
        BY <1>2, <3>2 DEF LedgerOf
      <4>5. QED
        BY <4>3, <4>4
    <3>4. LedgerOf(delivered)' = [LedgerOf(delivered) EXCEPT ![r] = @ \cup {i}]
      BY <3>3 DEF LedgerOf
    <3>5. i \in LedgerOf(batch)[r]
      BY <1>6, <2>1 DEF LedgerOf
    <3>6. Ledger!Deliver(r, i)
      BY <1>2, <1>3, <2>5, <3>4, <3>5 DEF Ledger!Deliver
    <3>7. QED
      BY <3>6 DEF LedgerStep, Ledger!LedgerNext
  <2>8. QED
    BY <1>4, <2>6, <2>7
<1>7. QED
  BY <1>5, <1>6

(* A retention pass that deletes rows forgets their items.                 *)
LEMMA CleanupIsForget ==
    ASSUME TypeInv, NEW r \in Runs, CleanupOldData(r)
    PROVE  LedgerStep
<1> DEFINE gone == {i \in Items : row[i] = "expired"}
<1> USE DEF TypeInv, TypeOK
<1>1. UNCHANGED <<batch, delivered, degraded>> /\ purged' = purged \cup gone
  BY DEF CleanupOldData
<1>2. \A i \in Items : Stored(i)' <=> Stored(i) /\ i \notin gone
  BY DEF CleanupOldData, Stored
<1>3. {i \in Items \ purged : Stored(i)}' = {i \in Items \ purged : Stored(i)} \ gone
  BY <1>1, <1>2
<1>4. LedgerOf(batch)' = [q \in Runs |-> LedgerOf(batch)[q] \ gone]
  BY <1>1 DEF LedgerOf
<1>5. LedgerOf(delivered)' = [q \in Runs |-> LedgerOf(delivered)[q] \ gone]
  BY <1>1 DEF LedgerOf
<1>6. CASE gone # {}
  <2>1. Ledger!Forget(gone)
    BY <1>1, <1>3, <1>4, <1>5, <1>6 DEF Ledger!Forget
  <2>2. QED
    BY <2>1 DEF LedgerStep, Ledger!LedgerNext
<1>7. CASE gone = {}
  <2>1. purged' = purged /\ \A i \in Items : Stored(i)' = Stored(i)
    BY <1>1, <1>7 DEF CleanupOldData, Stored
  <2>2. QED
    BY <1>1, <2>1, SameLedgerOf, Unseen
<1>8. QED
  BY <1>6, <1>7

-----------------------------------------------------------------------------

(* Every step of the pipeline is a step of the ledger, or none.            *)
LEMMA StepRefines ==
    TypeInv /\ TypeInv' /\ FallBackOnce /\ DeliveryInv /\ [Next]_vars
        => LedgerStep
<1> SUFFICES ASSUME TypeInv, TypeInv', FallBackOnce, DeliveryInv, [Next]_vars
             PROVE  LedgerStep
  OBVIOUS
<1>1. ASSUME UNCHANGED <<batch, row, delivered, degraded, purged>>
      PROVE  LedgerStep
  BY <1>1, SameLedgerOf, Unseen DEF Stored
<1>2. ASSUME NEW r \in Runs, Launch(r) \/ Collect(r) PROVE LedgerStep
  BY <1>1, <1>2 DEF Launch, Collect, history
<1>3. ASSUME NEW r \in Runs, FilterNew(r) PROVE LedgerStep
  <2>1. ASSUME NEW i \in Items, UrlHashExists(r, i) PROVE LedgerStep
    BY <1>1, <2>1 DEF UrlHashExists, history
  <2>2. ASSUME NEW i \in Items, InsertItem(r, i) PROVE LedgerStep
    BY <2>2, InsertIsRecord
  <2>3. CASE InsertConflict(r) \/ InsertBusy(r) \/ DedupFault(r)
    <3>1. pc[r] = "filter_new"
      BY <2>3 DEF InsertConflict, UrlHashFree, InsertBusy, DedupFault, TypeInv,
         AskedFromInput
    <3>2. QED
      BY <2>3, <3>1, FallBackIsExcuse DEF InsertConflict, UrlHashFree,
         InsertBusy, DedupFault
  <2>4. CASE FilterNewDone(r)
    BY <1>1, <2>4 DEF FilterNewDone, history
  <2>5. QED
    BY <1>3, <2>1, <2>2, <2>3, <2>4 DEF FilterNew
<1>4. ASSUME NEW r \in Runs, FilterItems(r) PROVE LedgerStep
  <2>1. PICK kept \in [Items -> 0..MaxCopies] :
              /\ \A i \in Items : kept[i] <= batch[r][i]
              /\ batch' = [batch EXCEPT ![r] = kept]
    BY <1>4 DEF FilterItems, NothingNew
  <2>2. UNCHANGED <<row, delivered, degraded, purged>>
    BY <1>4 DEF FilterItems, NothingNew, history
  <2>3. QED
    BY <2>1, <2>2, CollectedBag, DropIsGiveUp
<1>5. ASSUME NEW r \in Runs, batch' = [batch EXCEPT ![r] = Empty],
             UNCHANGED <<row, delivered, degraded, purged>>
      PROVE  LedgerStep
  <2>1. \A i \in Items : Empty[i] <= batch[r][i]
    BY DEF Empty, TypeInv, TypeOK, Bag
  <2>2. QED
    BY <1>5, <2>1, EmptyBag, DropIsGiveUp
<1>6. ASSUME NEW r \in Runs, SummarizeAndTranslate(r) PROVE LedgerStep
  BY <1>1, <1>5, <1>6 DEF SummarizeAndTranslate, history
<1>7. ASSUME NEW r \in Runs, SendMessages(r) PROVE LedgerStep
  BY <1>1, <1>7, SendIsDeliver DEF SendMessages, SendMessagesDone, history
<1>8. ASSUME NEW r \in Runs, SendDigest(r) PROVE LedgerStep
  BY <1>1, <1>8 DEF SendDigest
<1>9. ASSUME NEW r \in Runs, CleanupOldData(r) PROVE LedgerStep
  BY <1>9, CleanupIsForget
<1>10. ASSUME NEW r \in Runs,
              \/ DigestFault(r) \/ CleanupFails(r) \/ Notify(r)
              \/ InsertRun(r) \/ UpdateRun(r) \/ LogFault(r) \/ Close(r)
       PROVE  LedgerStep
  BY <1>1, <1>10
     DEF DigestFault, CleanupFails, BeginRaises, Notify, InsertRun, UpdateRun, LogFault,
         Close, history
<1>11. ASSUME NEW r \in Runs, Kill(r) PROVE LedgerStep
  BY <1>5, <1>11 DEF Kill, history
<1>12. CASE Midnight \/ \E i \in Items : Expire(i)
  <2>1. \A j \in Items : Stored(j)' = Stored(j)
    BY <1>12 DEF Midnight, Expire, Stored, TypeInv, TypeOK
  <2>2. UNCHANGED <<batch, delivered, degraded, purged>>
    BY <1>12 DEF Midnight, Expire, history
  <2>3. QED
    BY <2>1, <2>2, SameLedgerOf, Unseen
<1>13. CASE UNCHANGED vars
  BY <1>1, <1>13 DEF vars
<1>14. QED
  BY <1>2, <1>3, <1>4, <1>6, <1>7, <1>8, <1>9, <1>10, <1>11, <1>12, <1>13
     DEF Next, Step

(* The pipeline implements the ledger.                                     *)
THEOREM LedgerImplemented == Spec => ImplementsLedger
<1>1. Init => Ledger!LedgerInit
  BY DEF Init, Ledger!LedgerInit, LedgerOf, Stored, Empty
<1>2. Init => FallBackOnce
  BY DEF Init, FallBackOnce
<1>3. TypeInv /\ TypeInv' /\ FallBackOnce /\ DeliveryInv /\ [Next]_vars
         => [Ledger!LedgerNext]_(Ledger!ledgerVars)
  BY StepRefines DEF LedgerStep
<1>4. QED
  BY <1>1, <1>2, <1>3, FallBackStep, DeliveryInvariant, PTL
     DEF Spec, ImplementsLedger, Ledger!LedgerSpec

-----------------------------------------------------------------------------
(* Runs end: what a run has before it, in an order without endless descent *)

(* The copies in a bag, each by itself.                                    *)
Copies(b) == UNION {{i} \X (1..b[i]) : i \in Items}
Size(b)   == Cardinality(Copies(b))

LEMMA SizeIsNat ==
    ASSUME IsFiniteSet(Items), NEW b \in Bag
    PROVE  IsFiniteSet(Copies(b)) /\ Size(b) \in Nat
<1> DEFINE Of  == [i \in Items |-> {i} \X (1..b[i])]
           All == {{i} \X (1..b[i]) : i \in Items}
<1>1. Of \in Surjection(Items, All)
  BY DEF Surjection
<1>2. IsFiniteSet(All)
  BY <1>1, FS_Surjection
<1>3. \A i \in Items : IsFiniteSet({i} \X (1..b[i]))
  <2> TAKE i \in Items
  <2>1. b[i] \in Int /\ 1 \in Int
    BY DEF Bag
  <2>2. IsFiniteSet(1..b[i])
    BY <2>1, FS_Interval
  <2> QED
    BY <2>2, FS_Singleton, FS_Product
<1>4. IsFiniteSet(UNION All)
  BY <1>2, <1>3, FS_UNION
<1> QED
  BY <1>4, FS_CardinalityType DEF Copies, Size

LEMMA SizeFalls ==
    ASSUME IsFiniteSet(Items), NEW b \in Bag, NEW i \in Items, b[i] > 0
    PROVE  Size([b EXCEPT ![i] = b[i] - 1]) = Size(b) - 1
<1> DEFINE less == [b EXCEPT ![i] = b[i] - 1]
<1>1. \A j \in Items : less[j] = IF j = i THEN b[i] - 1 ELSE b[j]
  BY DEF Bag
<1>2. \A j \in Items : b[j] \in Nat
  BY DEF Bag
<1>3. \A j \in Items : \A n : n \in 1..less[j] <=> n \in 1..b[j] /\ <<j, n>> # <<i, b[i]>>
  BY <1>1, <1>2
<1>5. Copies(less) = Copies(b) \ {<<i, b[i]>>}
  BY <1>3 DEF Copies
<1>6. <<i, b[i]>> \in Copies(b)
  BY <1>2 DEF Copies
<1> QED
  BY <1>5, <1>6, SizeIsNat, FS_RemoveElement DEF Size

(* How many stages a run has before it at most; those of one branch are    *)
(* not those of another.                                                   *)
StagesLeft(s) ==
    CASE s = "idle" -> 11 [] s = "collect" -> 10 [] s = "filter_new" -> 9
      [] s = "filter" -> 8 [] s = "summarize" -> 7
      [] s \in {"hold", "send", "digest", "force"} -> 6
      [] s = "clean" -> 5 [] s = "notify" -> 4 [] s = "log" -> 3
      [] s = "logged" -> 2 [] s \in {"exit", "leave"} -> 1 [] OTHER -> 0

(* What is left of the loop the run is in: the items that filter_new has   *)
(* not looked at, each to be asked for and then inserted; those to be sent.*)
LoopLeft(r) ==
    CASE pc[r] = "filter_new" -> 2 * Size(todo[r]) + IF asked[r] = {} THEN 1 ELSE 0
      [] pc[r] = "send"       -> Size(batch[r])
      [] OTHER                -> 0

Left(r) == <<StagesLeft(pc[r]), LoopLeft(r)>>

(* Fewer stages, or the same and less of the loop.                         *)
Nats == {p \in Nat \X Nat : p[1] < p[2]}
Less == LexPairOrdering(Nats, Nats, Nat, Nat)
Descends(r) == <<Left(r)', Left(r)>> \in Less

LEMMA LessEnds == IsWellFoundedOn(Less, Nat \X Nat)
<1>1. Nats = OpToRel(<, Nat)
  BY SMT DEF Nats, OpToRel
<1> QED
  BY <1>1, NatLessThanWellFounded, WFLexPairOrdering DEF Less

LEMMA LessIs ==
    ASSUME NEW a \in Nat, NEW b \in Nat, NEW c \in Nat, NEW d \in Nat
    PROVE  <<<<a, b>>, <<c, d>>>> \in Less <=> a < c \/ (a = c /\ b < d)
BY DEF Less, LexPairOrdering, Nats

LEMMA LeftIsNat ==
    ASSUME IsFiniteSet(Items), TypeInv, TypeInv', NEW r \in Runs
    PROVE  /\ StagesLeft(pc[r]) \in Nat /\ LoopLeft(r) \in Nat
           /\ StagesLeft(pc'[r]) \in Nat /\ LoopLeft(r)' \in Nat
<1>1. /\ Size(todo[r]) \in Nat /\ Size(batch[r]) \in Nat
      /\ Size(todo'[r]) \in Nat /\ Size(batch'[r]) \in Nat
  BY SizeIsNat DEF TypeInv, TypeOK
<1> QED
  BY <1>1 DEF StagesLeft, LoopLeft

(* A step leaves the other runs alone.                                     *)
Apart(r) == \A q \in Runs \ {r} : /\ pc'[q] = pc[q] /\ todo'[q] = todo[q]
                                   /\ asked'[q] = asked[q] /\ batch'[q] = batch[q]

(* A run goes to a stage nearer to its end.                                *)
LEMMA StageFalls ==
    ASSUME IsFiniteSet(Items), TypeInv, TypeInv', NEW r \in Runs,
           StagesLeft(pc'[r]) < StagesLeft(pc[r])
    PROVE  Descends(r)
<1>1. /\ StagesLeft(pc[r]) \in Nat /\ LoopLeft(r) \in Nat
      /\ StagesLeft(pc'[r]) \in Nat /\ LoopLeft(r)' \in Nat
  BY LeftIsNat
<1> QED
  BY <1>1, LessIs DEF Descends, Left

(* A turn of a loop.                                                       *)
LEMMA LoopFalls ==
    ASSUME IsFiniteSet(Items), TypeInv, TypeInv', NEW r \in Runs,
           pc'[r] = pc[r], LoopLeft(r)' < LoopLeft(r)
    PROVE  Descends(r)
<1>1. /\ StagesLeft(pc[r]) \in Nat /\ LoopLeft(r) \in Nat
      /\ StagesLeft(pc'[r]) \in Nat /\ LoopLeft(r)' \in Nat
  BY LeftIsNat
<1> QED
  BY <1>1, LessIs DEF Descends, Left

LEMMA FilterNewFalls ==
    ASSUME IsFiniteSet(Items), TypeInv, TypeInv', NEW r \in Runs, FilterNew(r)
    PROVE  Descends(r) /\ Apart(r)
<1>1. pc \in [Runs -> Stages] /\ todo \in [Runs -> Bag] /\ batch \in [Runs -> Bag]
      /\ asked \in [Runs -> SUBSET Items] /\ fetched \in [Runs -> Bag]
  BY DEF TypeInv, TypeOK
<1>2. Size(todo[r]) \in Nat /\ Size(todo'[r]) \in Nat
  BY SizeIsNat DEF TypeInv, TypeOK
<1>3. ASSUME NEW i \in Items, UrlHashExists(r, i) PROVE Descends(r) /\ Apart(r)
  <2>1. Apart(r) /\ pc'[r] = pc[r] /\ pc[r] = "filter_new" /\ todo[r][i] > 0
    BY <1>1, <1>3 DEF UrlHashExists, Apart
  <2>2. CASE Stored(i)
    <3>1. todo'[r] = [todo[r] EXCEPT ![i] = todo[r][i] - 1] /\ asked' = asked
      BY <1>1, <1>3, <2>2 DEF UrlHashExists
    <3>2. Size(todo'[r]) = Size(todo[r]) - 1
      BY <1>1, <2>1, <3>1, SizeFalls
    <3> QED
      BY <1>2, <2>1, <3>1, <3>2, LoopFalls DEF LoopLeft
  <2>3. CASE ~Stored(i)
    <3>1. todo' = todo /\ asked'[r] = {i} /\ asked[r] = {}
      BY <1>1, <1>3, <2>3 DEF UrlHashExists
    <3> QED
      BY <1>2, <2>1, <3>1, LoopFalls DEF LoopLeft
  <2> QED
    BY <2>2, <2>3
<1>4. ASSUME NEW i \in Items, InsertItem(r, i) PROVE Descends(r) /\ Apart(r)
  <2>1. Apart(r) /\ pc'[r] = pc[r] /\ asked[r] = {i} /\ asked'[r] = {}
    BY <1>1, <1>4 DEF InsertItem, Apart
  <2>2. pc[r] = "filter_new" /\ todo[r][i] > 0
    BY <2>1 DEF TypeInv, AskedFromInput
  <2>3. todo'[r] = [todo[r] EXCEPT ![i] = todo[r][i] - 1]
    BY <1>1, <1>4 DEF InsertItem
  <2>4. Size(todo'[r]) = Size(todo[r]) - 1
    BY <1>1, <2>2, <2>3, SizeFalls
  <2> QED
    BY <1>2, <2>1, <2>2, <2>4, LoopFalls DEF LoopLeft
<1>5. ASSUME NEW txn, FallBack(r, txn), pc[r] = "filter_new" PROVE Descends(r) /\ Apart(r)
  <2>1. Apart(r) /\ pc'[r] = "filter"
    BY <1>1, <1>5 DEF FallBack, ForgetInput, Goto, Apart
  <2> QED
    BY <1>5, <2>1, StageFalls DEF StagesLeft
<1>6. asked[r] # {} => pc[r] = "filter_new"
  BY DEF TypeInv, AskedFromInput
<1>7. CASE InsertConflict(r) \/ InsertBusy(r) \/ DedupFault(r)
  BY <1>5, <1>6, <1>7 DEF InsertConflict, InsertBusy, DedupFault
<1>8. CASE FilterNewDone(r)
  <2>1. Apart(r) /\ pc'[r] = "filter" /\ pc[r] = "filter_new"
    BY <1>1, <1>8 DEF FilterNewDone, ForgetInput, Goto, Apart
  <2> QED
    BY <2>1, StageFalls DEF StagesLeft
<1> QED
  BY <1>3, <1>4, <1>7, <1>8 DEF FilterNew

LEMMA StepFalls ==
    ASSUME IsFiniteSet(Items), TypeInv, TypeInv', NEW r \in Runs, Step(r)
    PROVE  Descends(r) /\ Apart(r)
<1>1. pc \in [Runs -> Stages] /\ todo \in [Runs -> Bag] /\ batch \in [Runs -> Bag]
      /\ asked \in [Runs -> SUBSET Items]
  BY DEF TypeInv, TypeOK
<1>2. CASE Collect(r)
  <2>1. Apart(r) /\ pc[r] = "collect" /\ pc'[r] = "filter_new"
    BY <1>1, <1>2 DEF Collect, Goto, Apart
  <2> QED
    BY <2>1, StageFalls DEF StagesLeft
<1>3. CASE FilterItems(r)
  <2>1. Apart(r) /\ pc[r] = "filter"
        /\ pc'[r] \in {"clean", "summarize", "hold", "digest"}
    BY <1>1, <1>3, BranchesAssumption DEF FilterItems, NothingNew, Goto, dedup, Apart
  <2> QED
    BY <2>1, StageFalls DEF StagesLeft
<1>4. CASE SummarizeAndTranslate(r)
  <2>1. Apart(r) /\ \/ pc[r] = "summarize" /\ pc'[r] = "send"
                    \/ pc[r] = "hold" /\ pc'[r] = "clean"
    BY <1>1, <1>4 DEF SummarizeAndTranslate, Goto, dedup, Apart
  <2> QED
    BY <2>1, StageFalls DEF StagesLeft
<1>5. ASSUME NEW i \in Items, SendItem(r, i) PROVE Descends(r) /\ Apart(r)
  <2>1. Apart(r) /\ pc[r] = "send" /\ pc'[r] = "send" /\ batch[r][i] > 0
        /\ batch'[r] = [batch[r] EXCEPT ![i] = batch[r][i] - 1]
    BY <1>1, <1>5 DEF SendItem, Pending, Taken, dedup, Apart
  <2>2. Size(batch'[r]) = Size(batch[r]) - 1 /\ Size(batch[r]) \in Nat
    BY <1>1, <2>1, SizeFalls, SizeIsNat
  <2> QED
    BY <2>1, <2>2, LoopFalls DEF LoopLeft
<1>6. CASE SendMessagesDone(r)
  <2>1. Apart(r) /\ pc[r] = "send" /\ pc'[r] = "clean"
    BY <1>1, <1>6 DEF SendMessagesDone, Goto, dedup, Apart
  <2> QED
    BY <2>1, StageFalls DEF StagesLeft
<1>7. CASE SendDigest(r)
  <2>1. Apart(r) /\ \/ pc[r] = "digest" /\ pc'[r] = "clean"
                    \/ pc[r] = "force" /\ pc'[r] = "leave"
    BY <1>1, <1>7 DEF SendDigest, Goto, dedup, Apart
  <2> QED
    BY <2>1, StageFalls DEF StagesLeft
<1>8. CASE DigestFault(r)
  <2>1. Apart(r) /\ \/ pc[r] = "digest" /\ pc'[r] = "notify"
                    \/ pc[r] = "force" /\ pc'[r] = "leave"
    BY <1>1, <1>8 DEF DigestFault, Goto, dedup, Apart
  <2> QED
    BY <2>1, StageFalls DEF StagesLeft
<1>9. CASE CleanupOldData(r) \/ CleanupFails(r)
  <2>1. Apart(r) /\ pc[r] = "clean" /\ pc'[r] \in {"log", "notify"}
    BY <1>1, <1>9 DEF CleanupOldData, CleanupFails, Goto, dedup, Apart
  <2> QED
    BY <2>1, StageFalls DEF StagesLeft
<1>10. CASE Notify(r) \/ InsertRun(r) \/ UpdateRun(r) \/ LogFault(r) \/ Close(r)
  <2>1. Apart(r) /\ \/ pc[r] = "notify" /\ pc'[r] = "log"
                    \/ pc[r] = "log" /\ pc'[r] \in {"logged", "exit"}
                    \/ pc[r] = "logged" /\ pc'[r] = "exit"
                    \/ pc[r] = "exit" /\ pc'[r] = "done"
                    \/ pc[r] = "leave" /\ pc'[r] = "left"
    BY <1>1, <1>10 DEF Notify, InsertRun, UpdateRun, LogFault, Close, Goto, dedup, Apart
  <2> QED
    BY <2>1, StageFalls DEF StagesLeft
<1> QED
  BY <1>2, <1>3, <1>4, <1>5, <1>6, <1>7, <1>8, <1>9, <1>10, FilterNewFalls
     DEF Step, SendMessages

(* A run has only so much to do: whatever it meets, each of its steps takes*)
(* it down an order without endless descent, and nothing takes it back up, *)
(* neither the other runs nor the fall backs, faults and signals.          *)
THEOREM RunsAreFinite ==
    ASSUME IsFiniteSet(Items)
    PROVE  /\ IsWellFoundedOn(Less, Nat \X Nat)
           /\ Spec => [][\A r \in Runs : /\ Step(r) => Descends(r)
                                         /\ Descends(r) \/ UNCHANGED Left(r)]_vars
<1> DEFINE Falls == \A r \in Runs : /\ Step(r) => Descends(r)
                                    /\ Descends(r) \/ UNCHANGED Left(r)
<1>1. ASSUME NEW r \in Runs, Apart(r), Descends(r), TypeInv, TypeInv' PROVE Falls
  <2> SUFFICES ASSUME NEW q \in Runs, q # r
               PROVE  (Step(q) => Descends(q)) /\ UNCHANGED Left(q)
    BY <1>1
  <2>1. UNCHANGED Left(q)
    BY <1>1 DEF Apart, Left, LoopLeft
  <2> QED
    BY <1>1, <2>1, StepFalls
<1>2. ASSUME NEW r \in Runs, Launch(r) \/ Kill(r), TypeInv, TypeInv'
      PROVE  Apart(r) /\ Descends(r)
  <2>1. pc \in [Runs -> Stages] /\ todo \in [Runs -> Bag] /\ batch \in [Runs -> Bag]
        /\ asked \in [Runs -> SUBSET Items]
    BY <1>2 DEF TypeInv, TypeOK
  <2>2. CASE Launch(r)
    <3>1. Apart(r) /\ pc[r] = "idle" /\ pc'[r] \in {"left", "collect", "force"}
      BY <2>1, <2>2 DEF Launch, Goto, dedup, Apart
    <3> QED
      BY <1>2, <3>1, StageFalls DEF StagesLeft
  <2>3. CASE Kill(r)
    <3>1. Apart(r) /\ pc[r] \in Stages \ {"idle", "done", "left", "killed"} /\ pc'[r] = "killed"
      BY <2>1, <2>3 DEF Kill, Over, ForgetInput, Goto, Apart
    <3> QED
      BY <1>2, <3>1, StageFalls DEF StagesLeft, Stages
  <2> QED
    BY <1>2, <2>2, <2>3
<1>3. ASSUME Midnight \/ (\E i \in Items : Expire(i)), TypeInv, TypeInv' PROVE Falls
  <2> SUFFICES ASSUME NEW r \in Runs PROVE (Step(r) => Descends(r)) /\ UNCHANGED Left(r)
    OBVIOUS
  <2>1. UNCHANGED Left(r)
    BY <1>3 DEF Midnight, Expire, dedup, Left, LoopLeft
  <2> QED
    BY <1>3, <2>1, StepFalls
<1>4. TypeInv /\ TypeInv' /\ [Next]_vars => [Falls]_vars
  BY <1>1, <1>2, <1>3, StepFalls DEF Next
<1>5. Spec => [][Falls]_vars
  BY <1>4, TypeInvariant, PTL DEF Spec
<1> QED
  BY <1>5, LessEnds
=============================================================================
