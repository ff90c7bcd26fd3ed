---------------------------- MODULE PartsProofs ----------------------------
(***************************************************************************)
(* Proofs about the smaller components, each for any value of its          *)
(* constants: PromptVersions, ThresholdSearch, Migration, HotNews,         *)
(* HealthCheck, DigestFormat, Intake and Schedule.                         *)
(***************************************************************************)
EXTENDS HotNews, PromptVersions, Migration, ThresholdSearch, HealthCheck,
        DigestFormat, Intake, Schedule, Integers, FiniteSetTheorems, SequenceTheorems,
        WellFoundedInduction, TLAPS

-----------------------------------------------------------------------------
(* Prompt versions                                                         *)

PromptStages == {"idle", "create", "insert", "activate", "store", "over"}

(* The number an operation has read is at most the next one; an operation  *)
(* that is midway, with the table for itself so far, left no version       *)
(* active; none is activated that does not exist.                          *)
PromptInv ==
    /\ VersionsConsecutive
    /\ editPc \in [Editors -> PromptStages]
    /\ number \in [Editors -> {0} \cup VersionIds]
    /\ alone \in BOOLEAN
    /\ \A e \in Editors : editPc[e] \in {"create", "insert", "store"} =>
           number[e] \in VersionIds /\ number[e] - 1 \in {0} \cup versions
    /\ \A e \in Editors : editPc[e] = "activate" => number[e] \in versions
    /\ \A e \in Midway : alone => Midway = {e} /\ active = {}
    /\ OneActive

(* The next number follows the greatest one.                               *)
LEMMA NextFollows ==
    ASSUME VersionsConsecutive, NextVersion <= MaxVersion
    PROVE  NextVersion \in VersionIds /\ NextVersion - 1 \in {0} \cup versions
<1>1. PICK n \in 1..MaxVersion : versions = 1..n
  BY DEF VersionsConsecutive
<1>2. n \in versions /\ \A w \in versions : w <= n
  BY <1>1
<1> DEFINE greatest == CHOOSE v \in versions : \A w \in versions : w <= v
<1>3. greatest \in versions /\ n <= greatest
  BY <1>2
<1>4. greatest = n
  BY <1>1, <1>3
<1>5. NextVersion = n + 1
  <2>1. NextVersion = 1 + greatest
    BY Zenon DEF NextVersion
  <2> HIDE DEF greatest
  <2> QED
    BY <1>1, <1>4, <2>1
<1> QED
  BY <1>1, <1>2, <1>5, MaxVersionAssumption DEF VersionIds

(* Inserting a number that is free leaves no gap.                          *)
LEMMA InsertFills ==
    ASSUME VersionsConsecutive, NEW k \in VersionIds, k \notin versions,
           k - 1 \in {0} \cup versions, versions' = versions \cup {k}
    PROVE  VersionsConsecutive'
<1>1. PICK n \in 1..MaxVersion : versions = 1..n
  BY DEF VersionsConsecutive
<1>2. k = n + 1
  BY <1>1, MaxVersionAssumption DEF VersionIds
<1>3. versions' = 1..k
  BY <1>1, <1>2
<1> QED
  BY <1>3, MaxVersionAssumption DEF VersionsConsecutive, VersionIds

LEMMA InitPrompt == PromptInit => PromptInv
<1>1. ASSUME PromptInit PROVE VersionsConsecutive
  <2>1. versions = 1..1 /\ 1 \in 1..MaxVersion
    BY <1>1, MaxVersionAssumption DEF PromptInit
  <2> QED
    BY <2>1 DEF VersionsConsecutive
<1> QED
  BY <1>1 DEF PromptInit, PromptInv, PromptStages, Midway, OneActive

LEMMA ReadMaxVersionKeeps ==
    ASSUME PromptInv, NEW e \in Editors, ReadMaxVersion(e) \/ StoreReadMax(e)
    PROVE  PromptInv'
<1>1. NextVersion \in VersionIds /\ NextVersion - 1 \in {0} \cup versions
  BY NextFollows DEF PromptInv, ReadMaxVersion, StoreReadMax
<1>2. Midway' = Midway
  BY DEF PromptInv, PromptStages, Midway, ReadMaxVersion, StoreReadMax, EditGoto
<1>3. versions' = versions /\ active' = active /\ alone' = alone
  BY DEF ReadMaxVersion, StoreReadMax, promptTable
<1>4. VersionsConsecutive'
  BY <1>3 DEF PromptInv, VersionsConsecutive
<1>5. OneActive'
  BY <1>2, <1>3 DEF PromptInv, OneActive
<1> QED
  BY <1>1, <1>2, <1>3, <1>4, <1>5
     DEF PromptInv, PromptStages, ReadMaxVersion, StoreReadMax, EditGoto, promptTable

LEMMA BeginsKeep ==
    ASSUME PromptInv, NEW e \in Editors,
           DeactivateAll(e) \/ \E v \in VersionIds : DeactivateFor(e, v)
    PROVE  PromptInv'
<1>1. VersionsConsecutive' /\ active' = {} /\ alone' = (Midway = {})
  BY DEF PromptInv, VersionsConsecutive, DeactivateAll, DeactivateFor, NoneActive
<1>2. Midway' = Midway \cup {e}
  BY DEF PromptInv, PromptStages, Midway, DeactivateAll, DeactivateFor, EditGoto
<1>3. OneActive'
  BY <1>2 DEF OneActive
<1>4. \A f \in Midway' : alone' => Midway' = {f} /\ active' = {}
  BY <1>1, <1>2
<1> QED
  BY <1>1, <1>3, <1>4
     DEF PromptInv, PromptStages, VersionIds, DeactivateAll, DeactivateFor, EditGoto

LEMMA InsertVersionKeeps ==
    ASSUME PromptInv, NEW e \in Editors, InsertVersion(e)
    PROVE  PromptInv'
<1>1. Midway' = Midway \ {e} /\ e \in Midway
  BY DEF PromptInv, PromptStages, Midway, InsertVersion, EditGoto
<1>2. VersionsConsecutive'
  BY InsertFills DEF PromptInv, InsertVersion, promptTable, VersionsConsecutive
<1>3. versions \subseteq versions' /\ alone' \in BOOLEAN
  BY DEF PromptInv, InsertVersion, promptTable
<1>4. alone' => alone /\ number[e] \in versions' /\ active' = active \cup {number[e]}
  BY DEF InsertVersion
<1>5. alone' => Midway' = {} /\ active' = {number[e]}
  BY <1>1, <1>4 DEF PromptInv
<1>6. OneActive' /\ \A f \in Midway' : alone' => Midway' = {f} /\ active' = {}
  BY <1>4, <1>5 DEF OneActive
<1> QED
  BY <1>2, <1>3, <1>6 DEF PromptInv, PromptStages, InsertVersion, EditGoto

LEMMA SetActiveKeeps ==
    ASSUME PromptInv, NEW e \in Editors, SetActive(e)
    PROVE  PromptInv'
<1>1. Midway' = Midway \ {e} /\ e \in Midway
  BY DEF PromptInv, PromptStages, Midway, SetActive, EditGoto
<1>2. VersionsConsecutive' /\ versions' = versions /\ alone' = alone
  BY DEF PromptInv, SetActive, VersionsConsecutive
<1>3. alone' => Midway' = {} /\ active' = {number[e]} /\ number[e] \in versions'
  BY <1>1, <1>2 DEF PromptInv, SetActive
<1>4. OneActive' /\ \A f \in Midway' : alone' => Midway' = {f} /\ active' = {}
  BY <1>3 DEF OneActive
<1> QED
  BY <1>2, <1>4 DEF PromptInv, PromptStages, SetActive, EditGoto

LEMMA EditFailsKeeps ==
    ASSUME PromptInv, NEW e \in Editors, EditFails(e)
    PROVE  PromptInv'
<1>1. Midway' = Midway \ {e}
  BY DEF PromptInv, PromptStages, Midway, EditFails, EditGoto
<1>2. /\ VersionsConsecutive' /\ versions' = versions /\ active' = active
      /\ alone' = (alone /\ e \notin Midway)
  BY DEF PromptInv, EditFails, VersionsConsecutive, promptTable
<1>3. alone' => Midway' = Midway /\ alone
  BY <1>1, <1>2
<1>4. OneActive' /\ \A f \in Midway' : alone' => Midway' = {f} /\ active' = {}
  BY <1>2, <1>3 DEF OneActive, PromptInv
<1> QED
  BY <1>2, <1>4 DEF PromptInv, PromptStages, EditFails, EditGoto

LEMMA StoreCreateKeeps ==
    ASSUME PromptInv, NEW e \in Editors, StoreCreate(e)
    PROVE  PromptInv'
<1>1. Midway' = Midway
  BY DEF PromptInv, PromptStages, Midway, StoreCreate, EditGoto
<1>2. CASE number[e] \in versions
  <2>1. VersionsConsecutive' /\ OneActive'
    BY <1>1, <1>2 DEF PromptInv, VersionsConsecutive, OneActive, StoreCreate, promptTable
  <2> QED
    BY <1>1, <1>2, <2>1 DEF PromptInv, PromptStages, StoreCreate, EditGoto, promptTable
<1>3. CASE number[e] \notin versions
  <2>1. VersionsConsecutive'
    BY <1>3, InsertFills DEF PromptInv, StoreCreate
  <2>2. /\ active' = {number[e]} /\ number[e] \in versions' /\ versions \subseteq versions'
        /\ alone' = (Midway = {})
    BY <1>3 DEF StoreCreate
  <2>3. OneActive' /\ \A f \in Midway' : alone' => Midway' = {f} /\ active' = {}
    BY <1>1, <2>2 DEF OneActive
  <2> QED
    BY <2>1, <2>2, <2>3 DEF PromptInv, PromptStages, StoreCreate, EditGoto
<1> QED
  BY <1>2, <1>3

LEMMA StoreActivateKeeps ==
    ASSUME PromptInv, NEW e \in Editors, NEW v \in VersionIds, StoreActivate(e, v)
    PROVE  PromptInv'
<1>1. Midway' = Midway
  BY DEF PromptInv, PromptStages, Midway, StoreActivate, EditGoto
<1>2. /\ VersionsConsecutive' /\ versions' = versions /\ v \in versions'
      /\ active' = {v} /\ alone' = (Midway = {})
  BY DEF PromptInv, StoreActivate, VersionsConsecutive
<1>3. OneActive' /\ \A f \in Midway' : alone' => Midway' = {f} /\ active' = {}
  BY <1>1, <1>2 DEF OneActive
<1> QED
  BY <1>2, <1>3 DEF PromptInv, PromptStages, StoreActivate, EditGoto

LEMMA PromptStep == PromptInv /\ [PromptNext]_promptVars => PromptInv'
<1>1. ASSUME PromptInv, UNCHANGED promptVars PROVE PromptInv'
  BY <1>1 DEF PromptInv, promptVars, VersionsConsecutive, OneActive, Midway
<1> QED
  BY <1>1, ReadMaxVersionKeeps, BeginsKeep, InsertVersionKeeps, SetActiveKeeps,
     EditFailsKeeps, StoreCreateKeeps, StoreActivateKeeps DEF PromptNext

(* The inductive invariant of the prompt versions.                         *)
THEOREM PromptInvariant == PromptSpec => []PromptInv
BY InitPrompt, PromptStep, PTL DEF PromptSpec

(* The variables of the prompt versions keep their types; what is active   *)
(* exists.                                                                 *)
THEOREM PromptTypeCorrect == PromptSpec => []PromptTypeOK
<1>1. PromptInit => PromptTypeOK
  BY MaxVersionAssumption DEF PromptInit, PromptTypeOK, VersionIds
<1>2. ASSUME PromptInv, PromptTypeOK, UNCHANGED promptVars PROVE PromptTypeOK'
  BY <1>2 DEF PromptTypeOK, promptVars
<1>3. ASSUME PromptInv, PromptTypeOK, NEW e \in Editors,
             ReadMaxVersion(e) \/ StoreReadMax(e) \/ EditFails(e)
      PROVE  PromptTypeOK'
  <2>1. versions' = versions /\ active' = active /\ alone' \in BOOLEAN
    BY <1>3 DEF PromptTypeOK, ReadMaxVersion, StoreReadMax, EditFails, promptTable
  <2>2. NextVersion <= MaxVersion => NextVersion \in VersionIds
    BY <1>3, NextFollows DEF PromptInv
  <2> QED
    BY <1>3, <2>1, <2>2 DEF PromptTypeOK, ReadMaxVersion, StoreReadMax, EditFails, EditGoto
<1>4. ASSUME PromptInv, PromptTypeOK, NEW e \in Editors,
             DeactivateAll(e) \/ \E v \in VersionIds : DeactivateFor(e, v) \/ StoreActivate(e, v)
      PROVE  PromptTypeOK'
  BY <1>4 DEF PromptTypeOK, DeactivateAll, DeactivateFor, StoreActivate, NoneActive, EditGoto
<1>5. ASSUME PromptInv, PromptTypeOK, NEW e \in Editors,
             InsertVersion(e) \/ SetActive(e) \/ StoreCreate(e)
      PROVE  PromptTypeOK'
  <2>1. /\ editPc[e] = "activate" => number[e] \in versions
        /\ editPc[e] \in {"insert", "store"} => number[e] \in VersionIds
    BY <1>5 DEF PromptInv
  <2>2. versions' \subseteq VersionIds /\ active' \subseteq versions' /\ alone' \in BOOLEAN
    BY <1>5, <2>1 DEF PromptTypeOK, InsertVersion, SetActive, StoreCreate, promptTable
  <2> QED
    BY <1>5, <2>2 DEF PromptTypeOK, InsertVersion, SetActive, StoreCreate, EditGoto
<1>6. PromptInv /\ PromptTypeOK /\ [PromptNext]_promptVars => PromptTypeOK'
  BY <1>2, <1>3, <1>4, <1>5 DEF PromptNext
<1> QED
  BY <1>1, <1>6, PromptInvariant, PTL DEF PromptSpec

(* An operation that nothing disturbed leaves exactly one version active,  *)
(* whatever the ones before it left.                                       *)
THEOREM OneVersionActive == PromptSpec => []OneActive
BY PromptInvariant, PTL DEF PromptInv

(* The numbers of the versions have no gap, and none is given twice.       *)
THEOREM NumbersConsecutive == PromptSpec => []VersionsConsecutive
BY PromptInvariant, PTL DEF PromptInv

-----------------------------------------------------------------------------
(* The threshold search                                                    *)

(* No threshold below lo fits, and best is the one above hi, which does,   *)
(* or none was found yet.                                                  *)
SearchInv ==
    /\ searchPc \in {"next", "search", "done"}
    /\ searchPc = "search" =>
        /\ voted \subseteq present /\ present \subseteq Articles
        /\ votes \in [Articles -> Nat]
        /\ lo \in Nat /\ hi \in Int /\ -1 <= hi /\ hi <= MaxUpvotes /\ lo <= hi + 1
        /\ \A t \in 0..MaxUpvotes : t < lo => ~Fits(t)
        /\ \/ best = hi + 1 /\ Fits(best)
           \/ best = 0 /\ hi = MaxUpvotes

LEMMA ProductGrows ==
    ASSUME NEW a \in Nat, NEW b \in Nat, NEW c \in Nat, a <= b
    PROVE  a * c <= b * c
BY SMT

(* The rate does not grow with the threshold.                              *)
LEMMA FitsAbove ==
    ASSUME voted \subseteq present, present \subseteq Articles, votes \in [Articles -> Nat],
           NEW s \in Nat, NEW t \in Nat, s <= t, Fits(s)
    PROVE  Fits(t)
<1> DEFINE Reach(k) == {a \in voted : votes[a] >= k}
<1>1. IsFiniteSet(Articles) /\ IsFiniteSet(present) /\ IsFiniteSet(voted)
  BY FS_Subset, ThresholdAssumption
<1>2. IsFiniteSet(Reach(s)) /\ IsFiniteSet(Reach(t))
  BY <1>1, FS_Subset
<1>3. Reach(t) \subseteq Reach(s)
  BY SMT
<1>4. Cardinality(Reach(t)) <= Cardinality(Reach(s))
  BY <1>2, <1>3, FS_Subset
<1>5. Cardinality(Reach(s)) \in Nat /\ Cardinality(Reach(t)) \in Nat /\ Cardinality(present) \in Nat
  BY <1>1, <1>2, FS_CardinalityType
<1>6. Cardinality(Reach(t)) * RateDen <= Cardinality(Reach(s)) * RateDen
  BY <1>4, <1>5, ProductGrows, ThresholdAssumption
<1>7. Cardinality(Reach(s)) * RateDen <= RateNum * Cardinality(present)
  BY DEF Fits
<1>8. /\ Cardinality(Reach(t)) * RateDen \in Nat /\ Cardinality(Reach(s)) * RateDen \in Nat
      /\ RateNum * Cardinality(present) \in Nat
  BY <1>5, ThresholdAssumption
<1>9. Cardinality(Reach(t)) * RateDen <= RateNum * Cardinality(present)
  BY <1>6, <1>7, <1>8
<1> QED
  BY <1>9 DEF Fits

LEMMA ProbeKeeps ==
    ASSUME SearchInv, Probe
    PROVE  SearchInv'
<1>1. /\ lo \in Nat /\ hi \in Int /\ lo <= hi /\ hi <= MaxUpvotes /\ MaxUpvotes \in Nat
      /\ searchPc = "search" /\ searchPc' = "search"
  BY ThresholdAssumption DEF SearchInv, Probe
<1>2. Middle \in Nat /\ lo <= Middle /\ Middle <= hi
  BY <1>1 DEF Middle
<1>3. WithinRate(Middle) <=> Fits(Middle)
  BY DEF WithinRate, Passing, Fits
<1>4. /\ voted' = voted /\ present' = present /\ votes' = votes
      /\ voted \subseteq present /\ present \subseteq Articles /\ votes \in [Articles -> Nat]
  BY <1>1 DEF SearchInv, Probe
<1>5. \A t \in Nat : t < lo => ~Fits(t)
  <2>1. \A t \in 0..MaxUpvotes : t < lo => ~Fits(t)
    BY <1>1 DEF SearchInv
  <2> QED
    BY <1>1, <2>1
<1>6. CASE WithinRate(Middle)
  <2>1. best' = Middle /\ hi' = Middle - 1 /\ lo' = lo
    BY <1>6 DEF Probe, OneTooFar
  <2>2. Fits(best)'
    BY <1>3, <1>4, <1>6, <2>1 DEF Fits
  <2>3. \A t \in 0..MaxUpvotes : t < lo' => ~Fits(t)'
    BY <1>1, <1>4, <1>5, <2>1 DEF Fits
  <2>4. lo' \in Nat /\ hi' \in Int /\ -1 <= hi' /\ hi' <= MaxUpvotes /\ lo' <= hi' + 1 /\ best' = hi' + 1
    BY <1>1, <1>2, <2>1
  <2> QED
    BY <1>1, <1>4, <2>2, <2>3, <2>4 DEF SearchInv
<1>7. CASE ~WithinRate(Middle)
  <2>1. best' = best /\ hi' = hi /\ lo' = Middle + 1
    BY <1>7 DEF Probe, JustAbove
  <2>2. ASSUME NEW t \in 0..MaxUpvotes, t < lo' PROVE ~Fits(t)
    <3>1. t \in Nat /\ t <= Middle
      BY <1>1, <1>2, <2>1, <2>2
    <3> QED
      BY <1>2, <1>3, <1>4, <1>7, <3>1, FitsAbove
  <2>3. \A t \in 0..MaxUpvotes : t < lo' => ~Fits(t)'
    BY <1>4, <2>2 DEF Fits
  <2>4. lo' \in Nat /\ hi' \in Int /\ -1 <= hi' /\ hi' <= MaxUpvotes /\ lo' <= hi' + 1
    BY <1>1, <1>2, <2>1
  <2>5. (best = hi + 1 /\ Fits(best)) \/ (best = 0 /\ hi = MaxUpvotes)
    BY <1>1, Zenon DEF SearchInv
  <2>6. (best' = hi' + 1 /\ Fits(best)') \/ (best' = 0 /\ hi' = MaxUpvotes)
    BY <1>4, <2>1, <2>5 DEF Fits
  <2> QED
    BY <1>1, <1>4, <2>3, <2>4, <2>6 DEF SearchInv
<1> QED
  BY <1>6, <1>7

LEMMA NextSourceKeeps ==
    ASSUME NEW s \in RatedSources, NextSource(s)
    PROVE  SearchInv'
<1>1. /\ lo' = 0 /\ hi' = MaxUpvotes /\ best' = 0 /\ searchPc' = "search"
      /\ MaxUpvotes \in Nat
  BY ThresholdAssumption DEF NextSource
<1>2. voted' \subseteq present' /\ present' \subseteq Articles /\ votes' \in [Articles -> Nat]
  BY ThresholdAssumption DEF NextSource
<1> QED
  BY <1>1, <1>2 DEF SearchInv

LEMMA SearchStep == SearchInv /\ [SearchNext]_searchVars => SearchInv'
<1>1. ASSUME Suggest \/ SuggestRaises PROVE SearchInv'
  BY <1>1 DEF SearchInv, Suggest, SuggestRaises
<1>2. ASSUME SearchInv, UNCHANGED searchVars PROVE SearchInv'
  BY <1>2 DEF SearchInv, searchVars, Fits
<1> QED
  BY <1>1, <1>2, NextSourceKeeps, ProbeKeeps DEF SearchNext

LEMMA SearchEndsLeast == SearchInv => SmallestFitting
<1> SUFFICES ASSUME SearchInv, searchPc = "search", lo > hi
             PROVE  \A t \in 0..MaxUpvotes : Fits(t) => Fits(best) /\ best <= t
  BY DEF SmallestFitting
<1>1. lo = hi + 1 /\ MaxUpvotes \in Nat /\ hi \in Int
  BY ThresholdAssumption DEF SearchInv
<1>2. \A t \in 0..MaxUpvotes : Fits(t) => t >= lo
  BY <1>1 DEF SearchInv
<1>3. CASE best = hi + 1 /\ Fits(best)
  BY <1>1, <1>2, <1>3
<1>4. CASE best = 0 /\ hi = MaxUpvotes
  BY <1>1, <1>2, <1>4
<1> QED
  BY <1>3, <1>4 DEF SearchInv

(* The bounds of the search stay in its range, and with them the answers.  *)
THEOREM SearchTypeCorrect == SearchSpec => []SearchTypeOK
<1> USE ThresholdAssumption
<1>1. SearchInit => SearchTypeOK
  BY DEF SearchInit, SearchTypeOK
<1>2. ASSUME SearchTypeOK, UNCHANGED searchVars PROVE SearchTypeOK'
  BY <1>2 DEF SearchTypeOK, searchVars
<1>3. ASSUME SearchTypeOK, NEW s \in RatedSources, NextSource(s) PROVE SearchTypeOK'
  BY <1>3 DEF SearchTypeOK, NextSource
<1>4. ASSUME SearchTypeOK, SearchInv, Probe PROVE SearchTypeOK'
  <2>1. lo \in Nat /\ hi \in Int /\ lo <= hi /\ hi <= MaxUpvotes
    BY <1>4 DEF SearchInv, Probe
  <2>2. Middle \in Nat /\ lo <= Middle /\ Middle <= hi
    BY <2>1 DEF Middle
  <2>3. /\ lo' \in {lo, Middle + 1} /\ hi' \in {hi, Middle - 1} /\ best' \in {best, Middle}
        /\ UNCHANGED <<searchPc, unrated, source, present, voted, votes, suggested>>
    BY <1>4 DEF Probe, JustAbove
  <2>4. lo' \in 0..(MaxUpvotes + 1) /\ hi' + 1 \in 0..(MaxUpvotes + 1) /\ best' \in 0..MaxUpvotes
    <3>1. /\ MaxUpvotes \in Nat /\ lo \in 0..(MaxUpvotes + 1)
          /\ hi + 1 \in 0..(MaxUpvotes + 1) /\ best \in 0..MaxUpvotes
      BY <1>4 DEF SearchTypeOK
    <3>2. Middle + 1 \in 0..(MaxUpvotes + 1) /\ Middle \in 0..MaxUpvotes
      BY <2>1, <2>2, <3>1
    <3>3. hi' + 1 \in {hi + 1, Middle}
      <4>1. (Middle - 1) + 1 = Middle
        BY <2>2
      <4>2. hi' = hi \/ hi' = Middle - 1
        BY <2>3
      <4> HIDE DEF Middle
      <4> QED
        BY <4>1, <4>2
    <3> QED
      BY <2>3, <3>1, <3>2, <3>3
  <2> QED
    BY <1>4, <2>3, <2>4 DEF SearchTypeOK
<1>5. ASSUME SearchTypeOK, Suggest \/ SuggestRaises PROVE SearchTypeOK'
  BY <1>5 DEF SearchTypeOK, Suggest, SuggestRaises
<1>6. SearchTypeOK /\ SearchInv /\ [SearchNext]_searchVars => SearchTypeOK'
  BY <1>2, <1>3, <1>4, <1>5 DEF SearchNext
<1>7. SearchInit => SearchInv
  BY DEF SearchInit, SearchInv
<1> QED
  BY <1>1, <1>6, <1>7, SearchStep, PTL DEF SearchSpec

(* For any distribution of votes, range and target rate, the binary search *)
(* of _binary_search_threshold ends at the least threshold that keeps the  *)
(* rate, and at 0 when none does.                                          *)
THEOREM SearchFindsLeast == SearchSpec => []SmallestFitting
<1>1. SearchInit => SearchInv
  BY DEF SearchInit, SearchInv
<1> QED
  BY <1>1, SearchStep, SearchEndsLeast, PTL DEF SearchSpec

-----------------------------------------------------------------------------
(* The migration                                                           *)

(* What a process in migrate() has done up to its stage, for good.         *)
DoneSoFar(m) ==
    /\ column[m] \in Nat \ {0}
    /\ migPc[m] \in {"tables", "waiting", "seed"} => column[m] = 1
    /\ migPc[m] \in {"lookup", "alter", "verify", "done"} => tables /\ setting # "absent"
    /\ migPc[m] \in {"lookup", "alter", "verify"} =>
           \A i \in 1..Len(NewColumns) : i < column[m] => NewColumns[i] \in columns
    /\ migPc[m] = "alter" => column[m] <= Len(NewColumns)
    /\ migPc[m] = "verify" => column[m] > Len(NewColumns)
    /\ migPc[m] = "done" => columns = ColumnSet /\ indexed
    /\ migPc[m] = "failed" => m \in met
    /\ m \in old => migPc[m] = "seed"

(* A process that met no other writer is the only one in migrate(); no     *)
(* lock but its own is held, and its snapshot and lookup are up to date.   *)
Undisturbed(m) ==
    /\ InMigrate = {m}
    /\ lock \subseteq {m}
    /\ lock = {m} => migPc[m] = "seed"
    /\ m \notin old
    /\ migPc[m] = "alter" => NewColumns[column[m]] \notin columns

MigInv ==
    /\ tables \in BOOLEAN
    /\ indexed \in BOOLEAN
    /\ columns \subseteq ColumnSet
    /\ edits \in Nat
    /\ edits > 0 => setting = "user"
    /\ migPc \in [Migrators -> MigStages]
    /\ DOMAIN column = Migrators
    /\ old \subseteq Migrators
    /\ \A m \in Migrators : DoneSoFar(m)
    /\ \A m \in InMigrate \ met : Undisturbed(m)

LEMMA ColumnsCounted == Len(NewColumns) \in Nat
BY MigrationAssumption

(* The tables, the seed, the columns and the index only ever come.         *)
Grows ==
    /\ tables => tables'
    /\ setting # "absent" => setting' # "absent"
    /\ columns \subseteq columns' /\ columns' \subseteq ColumnSet
    /\ indexed => indexed'
    /\ met \subseteq met'

(* A process that does not move keeps what it has done.                    *)
LEMMA OthersKeep ==
    ASSUME NEW m \in Migrators, DoneSoFar(m), Grows,
           migPc'[m] = migPc[m], column'[m] = column[m],
           m \in old' => m \in old \/ migPc[m] = "seed"
    PROVE  DoneSoFar(m)'
BY DEF DoneSoFar, Grows, ColumnSet

LEMMA LaunchKeeps ==
    ASSUME MigInv, NEW m \in Migrators, LaunchMigrate(m)
    PROVE  MigInv'
<1>1. /\ tables' = tables /\ setting' = setting /\ columns' = columns /\ indexed' = indexed
      /\ lock' = lock /\ old' = old /\ edits' = edits
      /\ migPc' = [migPc EXCEPT ![m] = "tables"] /\ column' = [column EXCEPT ![m] = 1]
      /\ m \notin InMigrate /\ m \notin old
  BY DEF MigInv, DoneSoFar, LaunchMigrate, MigGoto, InMigrate
<1>2. InMigrate' = InMigrate \cup {m}
  BY <1>1 DEF MigInv, MigStages, InMigrate
<1>3. ASSUME NEW n \in Migrators PROVE DoneSoFar(n)'
  <2>1. CASE n = m
    BY <1>1, <2>1 DEF MigInv, DoneSoFar, MigStages
  <2>2. CASE n # m
    <3>1. migPc'[n] = migPc[n] /\ column'[n] = column[n]
      BY <1>1, <2>2 DEF MigInv
    <3>2. n \in met => n \in met'
      BY <2>2 DEF LaunchMigrate
    <3> QED
      BY <1>1, <3>1, <3>2 DEF MigInv, DoneSoFar, ColumnSet
  <2> QED
    BY <2>1, <2>2
<1>4. ASSUME NEW n \in InMigrate' \ met' PROVE Undisturbed(n)'
  <2>1. InMigrate = {} /\ lock = {} /\ n = m
    BY <1>2, <1>4 DEF LaunchMigrate
  <2> QED
    BY <1>1, <1>2, <2>1 DEF MigInv, Undisturbed
<1> QED
  BY <1>1, <1>3, <1>4 DEF MigInv, MigStages

(* A step of a process in migrate(): it is the only undisturbed one.       *)
LEMMA StepKeeps ==
    ASSUME MigInv, NEW m \in InMigrate, Grows,
           NEW next \in MigStages, migPc' = [migPc EXCEPT ![m] = next],
           tables' \in BOOLEAN, indexed' \in BOOLEAN, DOMAIN column' = Migrators,
           edits' = edits, edits > 0 => setting' = "user", met' = met,
           old' \subseteq Migrators,
           \A n \in Migrators \ {m} : /\ column'[n] = column[n]
                                      /\ n \in old' => n \in old \/ migPc[n] = "seed",
           DoneSoFar(m)',
           m \notin met /\ Undisturbed(m) /\ next \notin {"idle", "done", "failed"} =>
               /\ lock' \subseteq {m}
               /\ lock' = {m} => next = "seed"
               /\ m \notin old'
               /\ next = "alter" => NewColumns[column'[m]] \notin columns'
    PROVE  MigInv'
<1>1. m \in Migrators /\ migPc' \in [Migrators -> MigStages]
  BY DEF MigInv, InMigrate
<1>2. \A n \in Migrators : n # m => migPc'[n] = migPc[n]
  BY DEF MigInv
<1>3. ASSUME NEW n \in Migrators PROVE DoneSoFar(n)'
  <2>1. CASE n = m
    BY <2>1
  <2>2. CASE n # m
    BY <1>2, <2>2, OthersKeep DEF MigInv
  <2> QED
    BY <2>1, <2>2
<1>4. InMigrate' = IF next \in {"idle", "done", "failed"} THEN InMigrate \ {m} ELSE InMigrate
  BY <1>1, <1>2 DEF MigInv, InMigrate
<1>5. ASSUME NEW n \in InMigrate' \ met' PROVE Undisturbed(n)'
  <2>1. n \in InMigrate \ met
    BY <1>4, <1>5
  <2>2. Undisturbed(n) /\ n = m
    BY <2>1 DEF MigInv, Undisturbed
  <2>3. next \notin {"idle", "done", "failed"} /\ migPc'[m] = next
    BY <1>1, <1>4, <1>5, <2>2 DEF MigInv
  <2> QED
    BY <1>4, <1>5, <2>2, <2>3 DEF Undisturbed
<1> QED
  BY <1>1, <1>3, <1>5 DEF MigInv, Grows

LEMMA CreateTablesKeeps ==
    ASSUME MigInv, NEW m \in Migrators, CreateTables(m)
    PROVE  MigInv'
<1>1. /\ m \in InMigrate /\ migPc[m] = "tables"
      /\ tables' = tables /\ setting' = setting /\ columns' = columns /\ indexed' = indexed
      /\ column' = column /\ edits' = edits /\ met' = met /\ old' \subseteq old
  BY DEF CreateTables, InMigrate
<1>2. PICK next \in {"seed", "waiting"} :
          /\ migPc' = [migPc EXCEPT ![m] = next]
          /\ next = "seed" => lock' \in {lock, {m}}
          /\ next = "waiting" => lock' = lock
  BY DEF CreateTables, MigGoto
<1>3. migPc'[m] = next
  BY <1>2 DEF MigInv
<1>4. m \notin old
  BY <1>1 DEF MigInv, DoneSoFar
<1>5. DoneSoFar(m)'
  BY <1>1, <1>3, <1>4 DEF MigInv, DoneSoFar
<1>6. Grows
  BY <1>1 DEF Grows, MigInv
<1>7. Undisturbed(m) => lock = {} /\ lock' \subseteq {m} /\ (lock' = {m} => next = "seed")
  BY <1>1, <1>2 DEF Undisturbed
<1> QED
  BY <1>1, <1>2, <1>4, <1>5, <1>6, <1>7, StepKeeps DEF MigInv, MigStages

LEMMA WaitForLockKeeps ==
    ASSUME MigInv, NEW m \in Migrators, WaitForLock(m)
    PROVE  MigInv'
<1>1. /\ m \in InMigrate /\ migPc[m] = "waiting" /\ migPc' = [migPc EXCEPT ![m] = "seed"]
      /\ m \notin old /\ tables' = tables /\ setting' = setting /\ columns' = columns /\ indexed' = indexed
      /\ column' = column /\ edits' = edits /\ met' = met /\ old' = old /\ lock' = {m}
  BY DEF WaitForLock, InMigrate, MigGoto, MigInv, DoneSoFar
<1>2. DoneSoFar(m)'
  BY <1>1 DEF MigInv, DoneSoFar
<1>3. Grows
  BY <1>1 DEF Grows, MigInv
<1> QED
  BY <1>1, <1>2, <1>3, StepKeeps DEF MigInv, MigStages

LEMMA SeedKeeps ==
    ASSUME MigInv, NEW m \in Migrators, Seed(m)
    PROVE  MigInv'
<1>1. /\ m \in InMigrate /\ migPc[m] = "seed" /\ migPc' = [migPc EXCEPT ![m] = "lookup"]
      /\ tables' = TRUE /\ columns' = columns /\ indexed' = indexed
      /\ column' = column /\ edits' = edits /\ met' = met /\ lock' = {} /\ m \notin old
  BY DEF Seed, InMigrate, MigGoto
<1>2. setting' # "absent" /\ (setting = "user" => setting' = "user")
  BY DEF Seed, SeedIgnored
<1>3. /\ m \notin old' /\ old' \subseteq Migrators
      /\ \A n \in old' : n \in old \/ migPc[n] = "seed"
  BY <1>1 DEF Seed, Committed, Reading, MigInv
<1>4. Grows
  BY <1>1, <1>2 DEF Grows, MigInv
<1>5. column[m] = 1 /\ migPc'[m] = "lookup"
  BY <1>1 DEF MigInv, DoneSoFar
<1>6. DoneSoFar(m)'
  BY <1>1, <1>2, <1>3, <1>5, ColumnsCounted DEF DoneSoFar
<1> QED
  BY <1>1, <1>2, <1>3, <1>4, <1>6, StepKeeps DEF MigInv, MigStages

LEMMA LookupKeeps ==
    ASSUME MigInv, NEW m \in Migrators, Lookup(m)
    PROVE  MigInv'
<1>1. /\ m \in InMigrate /\ migPc[m] = "lookup"
      /\ tables' = tables /\ setting' = setting /\ columns' = columns /\ indexed' = indexed
      /\ edits' = edits /\ met' = met /\ old' = old /\ lock' = lock
  BY DEF Lookup, InMigrate
<1>2. /\ m \notin old /\ tables /\ setting # "absent" /\ column[m] \in Nat \ {0}
      /\ \A i \in 1..Len(NewColumns) : i < column[m] => NewColumns[i] \in columns
  BY <1>1 DEF MigInv, DoneSoFar
<1>3. Grows
  BY <1>1 DEF Grows, MigInv
<1>4. Undisturbed(m) => lock = {}
  BY <1>1 DEF Undisturbed
<1>5. CASE column[m] > Len(NewColumns)
  <2>1. migPc' = [migPc EXCEPT ![m] = "verify"] /\ column' = column /\ migPc'[m] = "verify"
    BY <1>5 DEF Lookup, MigGoto, MigInv
  <2>2. DoneSoFar(m)'
    BY <1>1, <1>2, <1>5, <2>1 DEF DoneSoFar
  <2> QED
    BY <1>1, <1>2, <1>3, <1>4, <2>1, <2>2, StepKeeps DEF MigInv, MigStages
<1>6. CASE column[m] <= Len(NewColumns) /\ ColumnExists(m)
  <2>1. /\ migPc' = [migPc EXCEPT ![m] = "lookup"] /\ migPc'[m] = "lookup"
        /\ column' = [column EXCEPT ![m] = column[m] + 1] /\ column'[m] = column[m] + 1
    BY <1>1, <1>2, <1>6, ColumnsCounted DEF Lookup, MigInv
  <2>2. \A i \in 1..Len(NewColumns) : i < column'[m] => NewColumns[i] \in columns
    BY <1>2, <1>6, <2>1, ColumnsCounted DEF ColumnExists
  <2>3. DoneSoFar(m)'
    BY <1>1, <1>2, <2>1, <2>2 DEF DoneSoFar
  <2> QED
    BY <1>1, <1>2, <1>3, <1>4, <2>1, <2>3, StepKeeps DEF MigInv, MigStages
<1>7. CASE column[m] <= Len(NewColumns) /\ ~ColumnExists(m)
  <2>1. migPc' = [migPc EXCEPT ![m] = "alter"] /\ column' = column /\ migPc'[m] = "alter"
    BY <1>2, <1>7, ColumnsCounted DEF Lookup, MigGoto, MigInv
  <2>2. DoneSoFar(m)'
    BY <1>1, <1>2, <1>7, <2>1 DEF DoneSoFar
  <2>3. NewColumns[column'[m]] \notin columns'
    BY <1>1, <1>7, <2>1 DEF ColumnExists
  <2> QED
    BY <1>1, <1>2, <1>3, <1>4, <2>1, <2>2, <2>3, StepKeeps DEF MigInv, MigStages
<1> QED
  BY <1>2, <1>5, <1>6, <1>7, ColumnsCounted

LEMMA AlterTableKeeps ==
    ASSUME MigInv, NEW m \in Migrators, AlterTable(m)
    PROVE  MigInv'
<1>1. /\ m \in InMigrate /\ migPc[m] = "alter" /\ migPc' = [migPc EXCEPT ![m] = "lookup"]
      /\ tables' = tables /\ setting' = setting /\ indexed' = indexed
      /\ columns' = columns \cup {NewColumns[column[m]]}
      /\ column' = [column EXCEPT ![m] = column[m] + 1]
      /\ edits' = edits /\ met' = met /\ lock = {} /\ lock' = lock
  BY DEF AlterTable, InMigrate, MigGoto
<1>2. /\ m \notin old /\ tables /\ setting # "absent" /\ column[m] \in Nat \ {0}
      /\ \A i \in 1..Len(NewColumns) : i < column[m] => NewColumns[i] \in columns
      /\ column[m] <= Len(NewColumns)
  BY <1>1 DEF MigInv, DoneSoFar
<1>3. /\ m \notin old' /\ old' \subseteq Migrators
      /\ \A n \in old' : n \in old \/ migPc[n] = "seed"
  BY <1>1, <1>2 DEF AlterTable, Committed, Reading, MigInv
<1>4. columns' \subseteq ColumnSet
  BY <1>1, <1>2, ColumnsCounted DEF MigInv, ColumnSet
<1>5. Grows
  BY <1>1, <1>4 DEF Grows
<1>6. migPc'[m] = "lookup" /\ column'[m] = column[m] + 1
  BY <1>1 DEF MigInv
<1>7. \A i \in 1..Len(NewColumns) : i < column'[m] => NewColumns[i] \in columns'
  BY <1>1, <1>2, <1>6, ColumnsCounted
<1>8. DoneSoFar(m)'
  BY <1>1, <1>2, <1>3, <1>6, <1>7 DEF DoneSoFar
<1> QED
  BY <1>1, <1>3, <1>5, <1>8, StepKeeps DEF MigInv, MigStages

LEMMA VerifyKeeps ==
    ASSUME MigInv, NEW m \in Migrators, Verify(m)
    PROVE  MigInv'
<1>1. /\ m \in InMigrate /\ migPc[m] = "verify" /\ migPc' = [migPc EXCEPT ![m] = "done"]
      /\ tables' = tables /\ setting' = setting /\ columns' = columns
      /\ column' = column /\ edits' = edits /\ met' = met
  BY DEF Verify, InMigrate, MigGoto
<1>2. indexed' = TRUE
  BY DEF Verify, MigInv
<1>3. /\ m \notin old /\ tables /\ setting # "absent" /\ column[m] \in Nat \ {0}
      /\ \A i \in 1..Len(NewColumns) : i < column[m] => NewColumns[i] \in columns
      /\ column[m] > Len(NewColumns)
  BY <1>1 DEF MigInv, DoneSoFar
<1>4. columns = ColumnSet
  BY <1>3, ColumnsCounted DEF MigInv, ColumnSet
<1>5. /\ m \notin old' /\ old' \subseteq Migrators
      /\ \A n \in old' : n \in old \/ migPc[n] = "seed"
  BY <1>1, <1>3 DEF Verify, Committed, Reading, MigInv
<1>6. Grows
  BY <1>1, <1>2 DEF Grows, MigInv
<1>7. ColumnSet' = ColumnSet /\ migPc'[m] = "done"
  BY <1>1 DEF ColumnSet, MigInv
<1>8. DoneSoFar(m)'
  BY <1>1, <1>2, <1>3, <1>4, <1>5, <1>7 DEF DoneSoFar
<1> QED
  BY <1>1, <1>2, <1>5, <1>6, <1>8, StepKeeps DEF MigInv, MigStages

LEMMA MigrateRaisesKeeps ==
    ASSUME MigInv, NEW m \in Migrators, MigrateRaises(m)
    PROVE  MigInv'
<1>1. /\ m \in InMigrate /\ migPc' = [migPc EXCEPT ![m] = "failed"]
      /\ tables' = tables /\ setting' = setting /\ columns' = columns /\ indexed' = indexed
      /\ column' = column /\ edits' = edits /\ met' = met /\ old' = old \ {m}
  BY DEF MigrateRaises, Locked, DuplicateColumn, InMigrate, MigGoto
<1>2. m \in met
  <2> SUFFICES ASSUME m \notin met PROVE FALSE
    OBVIOUS
  <2>1. Undisturbed(m) /\ (m \in old => migPc[m] = "seed")
    BY <1>1 DEF MigInv, DoneSoFar
  <2> QED
    BY <2>1 DEF Undisturbed, MigrateRaises, Locked, DuplicateColumn
<1>3. column[m] \in Nat \ {0} /\ migPc'[m] = "failed"
  BY <1>1 DEF MigInv, DoneSoFar
<1>4. DoneSoFar(m)'
  BY <1>1, <1>2, <1>3 DEF DoneSoFar
<1>5. Grows
  BY <1>1 DEF Grows, MigInv
<1> QED
  BY <1>1, <1>4, <1>5, StepKeeps DEF MigInv, MigStages

LEMMA DieInMigrateKeeps ==
    ASSUME MigInv, NEW m \in Migrators, DieInMigrate(m)
    PROVE  MigInv'
<1>1. /\ m \in InMigrate /\ migPc' = [migPc EXCEPT ![m] = "idle"]
      /\ tables' = tables /\ setting' = setting /\ columns' = columns /\ indexed' = indexed
      /\ column' = column /\ edits' = edits /\ met' = met /\ old' = old \ {m}
  BY DEF DieInMigrate, MigGoto
<1>2. column[m] \in Nat \ {0} /\ migPc'[m] = "idle"
  BY <1>1 DEF MigInv, DoneSoFar
<1>3. DoneSoFar(m)'
  BY <1>1, <1>2 DEF DoneSoFar
<1>4. Grows
  BY <1>1 DEF Grows, MigInv
<1> QED
  BY <1>1, <1>3, <1>4, StepKeeps DEF MigInv, MigStages

(* The app meets everybody who is in migrate().                            *)
LEMMA EditKeeps ==
    ASSUME MigInv, EditBegins \/ EditCommits
    PROVE  MigInv'
<1>1. /\ tables' = tables /\ columns' = columns /\ indexed' = indexed /\ migPc' = migPc
      /\ column' = column /\ met' = met \cup InMigrate
      /\ (setting' = setting /\ edits' = edits) \/ (setting' = "user" /\ edits' = edits + 1)
  BY DEF EditBegins, EditCommits
<1>2. old' \subseteq Migrators /\ \A n \in old' : n \in old \/ migPc[n] = "seed"
  BY DEF MigInv, EditBegins, EditCommits, Committed, Reading
<1>3. Grows
  BY <1>1 DEF Grows, MigInv
<1>4. ASSUME NEW n \in Migrators PROVE DoneSoFar(n)'
  BY <1>1, <1>2, <1>3, OthersKeep DEF MigInv
<1>5. InMigrate' \ met' = {}
  BY <1>1 DEF InMigrate
<1>6. edits' \in Nat /\ (edits' > 0 => setting' = "user")
  BY <1>1 DEF MigInv
<1> QED
  BY <1>1, <1>2, <1>3, <1>4, <1>5, <1>6 DEF MigInv, Grows

LEMMA MigStepKeeps == MigInv /\ [MigNext]_migVars => MigInv'
<1>1. ASSUME MigInv, UNCHANGED migVars PROVE MigInv'
  BY <1>1 DEF MigInv, migVars, DoneSoFar, Undisturbed, InMigrate, ColumnSet
<1> QED
  BY <1>1, LaunchKeeps, CreateTablesKeeps, WaitForLockKeeps, SeedKeeps, LookupKeeps,
     AlterTableKeeps, VerifyKeeps, MigrateRaisesKeeps, DieInMigrateKeeps, EditKeeps
  DEF MigNext, MigStep

LEMMA InitMig == MigInit => MigInv
<1>1. ASSUME MigInit PROVE MigInv
  <2>1. \A m \in Migrators : migPc[m] = "idle" /\ column[m] = 1
    BY <1>1 DEF MigInit
  <2>2. \A m \in Migrators : DoneSoFar(m)
    BY <1>1, <2>1 DEF MigInit, DoneSoFar
  <2>3. InMigrate = {}
    BY <2>1 DEF InMigrate
  <2>4. tables \in BOOLEAN /\ indexed \in BOOLEAN
    BY <1>1 DEF MigInit
  <2>5. migPc \in [Migrators -> MigStages] /\ DOMAIN column = Migrators
    BY <1>1 DEF MigInit, MigStages
  <2>6. columns \subseteq ColumnSet /\ old \subseteq Migrators
    BY <1>1 DEF MigInit
  <2>7. edits \in Nat /\ (edits > 0 => setting = "user")
    BY <1>1 DEF MigInit
  <2>8. \A m \in InMigrate \ met : Undisturbed(m)
    BY <2>3
  <2> QED
    BY <2>2, <2>4, <2>5, <2>6, <2>7, <2>8 DEF MigInv
<1> QED
  BY <1>1

(* The inductive invariant of the migration.                               *)
THEOREM MigInvariant == MigSpec => []MigInv
BY InitMig, MigStepKeeps, PTL DEF MigSpec

(* The variables of the migration keep their types.                        *)
THEOREM MigrationTypeCorrect == MigSpec => []MigTypeOK
<1>1. ASSUME MigInit PROVE MigTypeOK
  <2>1. 1 \in 1..(Len(NewColumns) + 1)
    BY ColumnsCounted
  <2>2. tables \in BOOLEAN /\ indexed \in BOOLEAN
    BY <1>1 DEF MigInit
  <2>3. migPc \in [Migrators -> MigStages] /\ column \in [Migrators -> 1..(Len(NewColumns) + 1)]
    BY <1>1, <2>1 DEF MigInit, MigStages
  <2> QED
    BY <1>1, <2>2, <2>3 DEF MigInit, MigTypeOK
<1>2. ASSUME MigTypeOK, UNCHANGED migVars PROVE MigTypeOK'
  BY <1>2 DEF MigTypeOK, migVars, ColumnSet
<1>3. ASSUME MigTypeOK, EditBegins \/ EditCommits PROVE MigTypeOK'
  BY <1>3 DEF MigTypeOK, EditBegins, EditCommits, Committed, Reading, InMigrate, ColumnSet
<1>4. ASSUME MigTypeOK, NEW m \in Migrators,
             LaunchMigrate(m) \/ CreateTables(m) \/ WaitForLock(m) \/ MigrateRaises(m)
      PROVE  MigTypeOK'
  <2>1. /\ UNCHANGED <<tables, setting, columns, indexed, edits>>
        /\ column' \in [Migrators -> 1..(Len(NewColumns) + 1)] /\ launches' \in Nat
    BY <1>4, ColumnsCounted
       DEF MigTypeOK, LaunchMigrate, CreateTables, WaitForLock, MigrateRaises
  <2>2. migPc' \in [Migrators -> MigStages]
    BY <1>4
       DEF MigTypeOK, MigStages, LaunchMigrate, CreateTables, WaitForLock, MigrateRaises,
           MigGoto
  <2>3. /\ lock' \in {{}, {App}} \cup {{n} : n \in Migrators}
        /\ old' \subseteq Migrators /\ met' \subseteq Migrators
    BY <1>4 DEF MigTypeOK, LaunchMigrate, CreateTables, WaitForLock, MigrateRaises, InMigrate
  <2> QED
    BY <1>4, <2>1, <2>2, <2>3 DEF MigTypeOK, ColumnSet
<1>5. ASSUME MigTypeOK, NEW m \in Migrators, Seed(m) \/ Verify(m) \/ DieInMigrate(m)
      PROVE  MigTypeOK'
  <2>1. /\ UNCHANGED <<columns, column, launches, edits, met>>
        /\ tables' \in BOOLEAN /\ indexed' \in BOOLEAN
        /\ setting' \in {"absent", "seed", "user"}
    BY <1>5 DEF MigTypeOK, Seed, SeedIgnored, Verify, DieInMigrate
  <2>2. migPc' \in [Migrators -> MigStages]
    BY <1>5 DEF MigTypeOK, MigStages, Seed, Verify, DieInMigrate, MigGoto
  <2>3. lock' \in {{}, {App}} \cup {{n} : n \in Migrators}
    <3>1. \A n \in Migrators : {n} \ {m} \in {{}, {n}}
      OBVIOUS
    <3>2. {App} \ {m} \in {{}, {App}}
      OBVIOUS
    <3>3. lock \ {m} \in {{}, {App}} \cup {{n} : n \in Migrators}
      BY <1>5, <3>1, <3>2 DEF MigTypeOK
    <3> QED
      BY <1>5, <3>3 DEF MigTypeOK, Seed, Verify, DieInMigrate
  <2>4. old' \subseteq Migrators
    BY <1>5 DEF MigTypeOK, Seed, Verify, DieInMigrate, Committed, Reading
  <2> QED
    BY <1>5, <2>1, <2>2, <2>3, <2>4 DEF MigTypeOK, ColumnSet
<1>6. ASSUME MigTypeOK, MigInv, NEW m \in Migrators, Lookup(m) \/ AlterTable(m)
      PROVE  MigTypeOK'
  <2>1. UNCHANGED <<tables, setting, indexed, lock, launches, edits, met>>
    BY <1>6 DEF Lookup, AlterTable
  <2>2. column[m] <= Len(NewColumns) => column[m] + 1 \in 1..(Len(NewColumns) + 1)
    BY <1>6, ColumnsCounted DEF MigTypeOK
  <2>3. migPc[m] = "alter" => column[m] <= Len(NewColumns)
    BY <1>6 DEF MigInv, DoneSoFar
  <2>4. column' \in [Migrators -> 1..(Len(NewColumns) + 1)]
    BY <1>6, <2>2, <2>3, ColumnsCounted DEF MigTypeOK, Lookup, AlterTable
  <2>5. migPc' \in [Migrators -> MigStages]
    BY <1>6 DEF MigTypeOK, MigStages, Lookup, AlterTable, MigGoto
  <2>6. old' \subseteq Migrators
    BY <1>6 DEF MigTypeOK, Lookup, AlterTable, Committed, Reading
  <2>7. column[m] \in 1..(Len(NewColumns) + 1)
    BY <1>6 DEF MigTypeOK
  <2>8. columns' \subseteq ColumnSet
    BY <1>6, <2>3, <2>7, ColumnsCounted DEF MigTypeOK, Lookup, AlterTable, ColumnSet
  <2> QED
    BY <1>6, <2>1, <2>4, <2>5, <2>6, <2>8 DEF MigTypeOK, ColumnSet
<1>7. MigTypeOK /\ MigInv /\ [MigNext]_migVars => MigTypeOK'
  BY <1>2, <1>3, <1>4, <1>5, <1>6 DEF MigNext, MigStep
<1> QED
  BY <1>1, <1>7, MigInvariant, PTL DEF MigSpec

(* Whatever launches, deaths and edits came before and meanwhile: migrate()*)
(* returns over a complete database, raises only over another writer, and  *)
(* its seed leaves the settings of the user.                               *)
THEOREM MigrationSafe == MigSpec => []MigratedOrRaced
<1>1. MigInv => MigratedOrRaced
  BY DEF MigInv, DoneSoFar, MigratedOrRaced, MigrateCompletes, OnlyRacesRaise, EditsOutliveSeed
<1> QED
  BY <1>1, MigInvariant, PTL

-----------------------------------------------------------------------------
(* Hot news                                                                *)

Begun(u)   == {r \in HotRuns : carried[r].url = u /\ hotPc[r] # "idle"}
Pending(u) == {r \in Begun(u) : hotPc[r] # "over"}

Explained(u) == \/ lastId[u] > 1
                \/ u \in fellBack
                \/ u \in byProgram \cap byHand
                \/ u \in twice

(* A row is numbered, and flagged exactly when hot_news refers to it; what *)
(* ran or was marked before has a row, or followed a database error.       *)
RowInv(u) ==
    /\ lastId[u] \in Nat /\ linked[u] \in Nat /\ unlinked[u] \in Nat
    /\ isHot[u] \in BOOLEAN
    /\ hotRow[u] # None => lastId[u] >= 1
    /\ hotRow[u] = None => linked[u] = 0 /\ ~isHot[u]
    /\ hotRow[u] # None => (isHot[u] <=> linked[u] > 0)
    /\ Begun(u) # {} \/ u \in byProgram \/ u \in byHand => lastId[u] >= 1 \/ u \in fellBack

(* Of a URL with no explanation: its rows come from one run or one mark.   *)
FirstRow(u) ==
    /\ linked[u] + unlinked[u] <= 1
    /\ u \notin byHand => linked[u] = 0
    /\ u \notin byHand /\ u \notin byProgram => unlinked[u] = 0
    /\ u \notin byProgram /\ unlinked[u] > 0 => hotRow[u] = None
    /\ u \in byProgram => Pending(u) = {}
    /\ \A r, s \in Begun(u) : r = s

UrlInv(u) == RowInv(u) /\ (Explained(u) \/ FirstRow(u))

HotStages == {"idle", "detect", "judge", "insert", "over"}

HotInv ==
    /\ hotPc \in [HotRuns -> HotStages]
    /\ DOMAIN carried = HotRuns
    /\ \A r \in HotRuns : carried[r] \in [url : HotUrls, dbId : Nat, own : BOOLEAN]
    /\ \A r \in HotRuns : hotPc[r] \in {"judge", "insert"} => carried[r].dbId = None
    /\ DOMAIN hotRow = HotUrls /\ DOMAIN lastId = HotUrls /\ DOMAIN isHot = HotUrls
    /\ DOMAIN linked = HotUrls /\ DOMAIN unlinked = HotUrls
    /\ \A u \in HotUrls : UrlInv(u)

(* A step that touches nothing of a URL keeps what holds of it.            *)
LEMMA UrlKeeps ==
    ASSUME NEW u \in HotUrls, UrlInv(u),
           hotRow'[u] = hotRow[u], lastId'[u] = lastId[u], isHot'[u] = isHot[u],
           linked'[u] = linked[u], unlinked'[u] = unlinked[u],
           u \in byProgram' <=> u \in byProgram, u \in byHand' <=> u \in byHand,
           u \in fellBack' <=> u \in fellBack, u \in twice => u \in twice',
           Begun(u)' = Begun(u), Pending(u)' \subseteq Pending(u)
    PROVE  UrlInv(u)'
<1>1. RowInv(u)'
  BY DEF UrlInv, RowInv
<1>2. Explained(u) => Explained(u)'
  BY DEF Explained
<1>3. FirstRow(u) => FirstRow(u)'
  BY DEF FirstRow
<1> QED
  BY <1>1, <1>2, <1>3 DEF UrlInv

(* Where the runs move, and to which URLs it matters.                      *)
LEMMA RunMoves ==
    ASSUME HotInv, NEW r \in HotRuns, NEW next \in HotStages \ {"idle"},
           HotGoto(r, next), DOMAIN carried' = HotRuns,
           \A q \in HotRuns : q # r => carried'[q] = carried[q],
           carried'[r].url = carried[r].url
    PROVE  /\ hotPc' \in [HotRuns -> HotStages] /\ hotPc'[r] = next
           /\ \A q \in HotRuns : q # r => hotPc'[q] = hotPc[q]
           /\ \A q \in HotRuns : carried'[q].url = carried[q].url
           /\ \A u \in HotUrls : u # carried[r].url =>
                  Begun(u)' = Begun(u) /\ Pending(u)' = Pending(u)
           /\ Begun(carried[r].url)' = Begun(carried[r].url) \cup {r}
           /\ next = "over" => Pending(carried[r].url)' = Pending(carried[r].url) \ {r}
<1>1. hotPc' \in [HotRuns -> HotStages] /\ hotPc'[r] = next
  BY DEF HotInv, HotGoto
<1>2. \A q \in HotRuns : q # r => hotPc'[q] = hotPc[q]
  BY DEF HotInv, HotGoto
<1>3. \A q \in HotRuns : carried'[q].url = carried[q].url
  OBVIOUS
<1>4. ASSUME NEW u \in HotUrls, u # carried[r].url
      PROVE  Begun(u)' = Begun(u) /\ Pending(u)' = Pending(u)
  BY <1>1, <1>2, <1>3, <1>4 DEF Begun, Pending
<1>5. Begun(carried[r].url)' = Begun(carried[r].url) \cup {r}
  <2>1. next # "idle"
    BY DEF HotStages
  <2> QED
    BY <1>1, <1>2, <1>3, <2>1 DEF Begun
<1>6. next = "over" => Pending(carried[r].url)' = Pending(carried[r].url) \ {r}
  BY <1>1, <1>2, <1>3 DEF Begun, Pending
<1> QED
  BY <1>1, <1>2, <1>3, <1>4, <1>5, <1>6

(* A step of a run that changes the carried item or the flag to itself.    *)
LEMMA QuietRunKeeps ==
    ASSUME HotInv, NEW r \in HotRuns, NEW next \in HotStages \ {"idle"},
           HotGoto(r, next), hotPc[r] # "idle", DOMAIN carried' = HotRuns,
           hotPc[r] = "over" => next = "over",
           \A q \in HotRuns : q # r => carried'[q] = carried[q],
           carried'[r] \in [url : HotUrls, dbId : Nat, own : BOOLEAN],
           carried'[r].url = carried[r].url,
           next \in {"judge", "insert"} => carried'[r].dbId = None,
           DOMAIN isHot' = HotUrls, \A u \in HotUrls : isHot'[u] = isHot[u],
           UNCHANGED <<hotItems, linked, unlinked, fellBack, byProgram, byHand, twice>>
    PROVE  HotInv'
<1>1. /\ hotRow' = hotRow /\ lastId' = lastId /\ linked' = linked /\ unlinked' = unlinked
      /\ fellBack' = fellBack /\ byProgram' = byProgram /\ byHand' = byHand /\ twice' = twice
  BY DEF hotItems
<1>2. /\ hotPc' \in [HotRuns -> HotStages] /\ hotPc'[r] = next
      /\ \A q \in HotRuns : q # r => hotPc'[q] = hotPc[q]
      /\ \A q \in HotRuns : carried'[q].url = carried[q].url
  BY RunMoves
<1>3. ASSUME NEW u \in HotUrls PROVE UrlInv(u)'
  <2>1. Begun(u)' = Begun(u) /\ Pending(u)' \subseteq Pending(u)
    <3>1. \A q \in HotRuns : (hotPc'[q] = "idle") <=> (hotPc[q] = "idle")
      BY <1>2
    <3>2. \A q \in HotRuns : hotPc[q] = "over" => hotPc'[q] = "over"
      BY <1>2
    <3> QED
      BY <1>2, <3>1, <3>2 DEF Begun, Pending
  <2> QED
    BY <1>1, <2>1, UrlKeeps DEF HotInv
<1> QED
  BY <1>1, <1>2, <1>3 DEF HotInv

LEMMA StoreItemKeeps ==
    ASSUME HotInv, NEW r \in HotRuns, StoreItem(r)
    PROVE  HotInv'
<1>0. PICK u \in HotUrls : u = carried[r].url
  BY DEF HotInv
<1> DEFINE n == lastId[u] + 1
<1>1. /\ u \in HotUrls /\ hotPc[r] = "idle" /\ hotRow[u] = None
      /\ hotRow' = [hotRow EXCEPT ![u] = n] /\ lastId' = [lastId EXCEPT ![u] = n]
      /\ carried' = [carried EXCEPT ![r] = [url |-> u, dbId |-> n, own |-> TRUE]]
      /\ HotGoto(r, "detect")
      /\ isHot' = isHot /\ linked' = linked /\ unlinked' = unlinked /\ fellBack' = fellBack
      /\ byProgram' = byProgram /\ byHand' = byHand /\ twice' = twice
  BY <1>0 DEF HotInv, StoreItem, hotHistory
<1>2. UrlInv(u) /\ lastId[u] \in Nat /\ n \in Nat
  BY <1>1 DEF HotInv, UrlInv, RowInv
<1>3. /\ carried'[r] = [url |-> u, dbId |-> n, own |-> TRUE] /\ carried'[r].url = carried[r].url
      /\ DOMAIN carried' = HotRuns /\ \A q \in HotRuns : q # r => carried'[q] = carried[q]
  BY <1>0, <1>1 DEF HotInv
<1> HIDE DEF n
<1>4. /\ hotPc' \in [HotRuns -> HotStages] /\ hotPc'[r] = "detect"
      /\ \A q \in HotRuns : q # r => hotPc'[q] = hotPc[q]
      /\ \A v \in HotUrls : v # u => Begun(v)' = Begun(v) /\ Pending(v)' = Pending(v)
      /\ Begun(u)' = Begun(u) \cup {r}
  BY <1>0, <1>1, <1>3, RunMoves DEF HotStages
<1>5. ASSUME NEW v \in HotUrls, v # u PROVE UrlInv(v)'
  BY <1>1, <1>4, <1>5, UrlKeeps DEF HotInv
<1>6. hotRow'[u] = n /\ lastId'[u] = n
  BY <1>1 DEF HotInv
<1>7. n = lastId[u] + 1 /\ n \in Nat
  BY <1>2 DEF n
<1>8. RowInv(u)'
  <2>1. linked[u] = 0 /\ ~isHot[u] /\ isHot[u] \in BOOLEAN /\ unlinked[u] \in Nat
    BY <1>1, <1>2 DEF UrlInv, RowInv
  <2>2. n >= 1 /\ n # None
    BY <1>2, <1>7 DEF None
  <2>3. ~(linked'[u] > 0) /\ ~isHot'[u]
    BY <1>1, <2>1
  <2>4. lastId'[u] \in Nat /\ linked'[u] \in Nat /\ unlinked'[u] \in Nat /\ lastId'[u] >= 1
    BY <1>1, <1>6, <1>7, <2>1, <2>2
  <2>5. isHot'[u] \in BOOLEAN /\ hotRow'[u] # None
    BY <1>1, <1>6, <2>1, <2>2
  <2> QED
    BY <2>3, <2>4, <2>5 DEF RowInv
<1>9. Explained(u)' \/ FirstRow(u)'
  <2>1. CASE lastId[u] >= 1 \/ u \in fellBack
    BY <1>1, <1>2, <1>6, <1>7, <2>1 DEF Explained
  <2>2. CASE ~(lastId[u] >= 1 \/ u \in fellBack)
    <3>1. Begun(u) = {} /\ u \notin byProgram /\ u \notin byHand
      BY <1>2, <2>2 DEF UrlInv, RowInv
    <3>2. lastId[u] = 0
      BY <1>2, <2>2
    <3>3. Explained(u) => Explained(u)'
      BY <1>1, <3>1, <3>2, <2>2 DEF Explained
    <3>4. FirstRow(u) => linked[u] = 0 /\ unlinked[u] = 0
      BY <3>1 DEF FirstRow
    <3>5. FirstRow(u) => FirstRow(u)'
      BY <1>1, <1>4, <3>1, <3>4 DEF FirstRow
    <3> QED
      BY <1>2, <3>3, <3>5 DEF UrlInv
  <2> QED
    BY <2>1, <2>2
<1>10. \A q \in HotRuns : hotPc'[q] \in {"judge", "insert"} => carried'[q].dbId = None
  BY <1>3, <1>4 DEF HotInv
<1>11. \A q \in HotRuns : carried'[q] \in [url : HotUrls, dbId : Nat, own : BOOLEAN]
  BY <1>1, <1>3, <1>7 DEF HotInv
<1> QED
  BY <1>1, <1>3, <1>4, <1>5, <1>8, <1>9, <1>10, <1>11 DEF HotInv, UrlInv

LEMMA CallNewKeeps ==
    ASSUME HotInv, NEW r \in HotRuns, CallNew(r)
    PROVE  HotInv'
<1>0. PICK u \in HotUrls : u = carried[r].url
  BY DEF HotInv
<1>1. /\ u \in HotUrls /\ hotPc[r] = "idle" /\ carried' = carried /\ HotGoto(r, "detect")
      /\ fellBack' = fellBack \cup {u}
      /\ hotRow' = hotRow /\ lastId' = lastId /\ isHot' = isHot /\ linked' = linked
      /\ unlinked' = unlinked /\ byProgram' = byProgram /\ byHand' = byHand /\ twice' = twice
  BY <1>0 DEF HotInv, CallNew, hotItems
<1>2. /\ hotPc' \in [HotRuns -> HotStages] /\ hotPc'[r] = "detect"
      /\ \A q \in HotRuns : q # r => hotPc'[q] = hotPc[q]
      /\ \A v \in HotUrls : v # u => Begun(v)' = Begun(v) /\ Pending(v)' = Pending(v)
  BY <1>0, <1>1, RunMoves DEF HotStages, HotInv
<1>3. ASSUME NEW v \in HotUrls, v # u PROVE UrlInv(v)'
  BY <1>1, <1>2, <1>3, UrlKeeps DEF HotInv
<1>4. UrlInv(u)'
  <2>1. RowInv(u)
    BY <1>1 DEF HotInv, UrlInv
  <2>2. RowInv(u)'
    BY <1>1, <2>1 DEF RowInv
  <2> QED
    BY <1>1, <2>2 DEF UrlInv, Explained
<1>5. \A q \in HotRuns : hotPc'[q] \in {"judge", "insert"} => carried'[q].dbId = None
  BY <1>1, <1>2 DEF HotInv
<1> QED
  BY <1>1, <1>2, <1>3, <1>4, <1>5 DEF HotInv

LEMMA DetectLanguageKeeps ==
    ASSUME HotInv, NEW r \in HotRuns, DetectLanguage(r)
    PROVE  HotInv'
<1>1. /\ hotPc[r] = "detect" /\ HotGoto(r, "judge") /\ isHot' = isHot
      /\ carried' = [carried EXCEPT ![r] = [carried[r] EXCEPT !.dbId = None]]
      /\ UNCHANGED <<hotItems, linked, unlinked, fellBack, byProgram, byHand, twice>>
  BY DEF DetectLanguage, Rebuilt, hotHistory
<1>2. carried[r] \in [url : HotUrls, dbId : Nat, own : BOOLEAN]
  BY DEF HotInv
<1>3. /\ carried'[r] = [carried[r] EXCEPT !.dbId = None]
      /\ DOMAIN carried' = HotRuns /\ \A q \in HotRuns : q # r => carried'[q] = carried[q]
  BY <1>1 DEF HotInv
<1>4. /\ carried'[r].url = carried[r].url /\ carried'[r].dbId = None
      /\ carried'[r] \in [url : HotUrls, dbId : Nat, own : BOOLEAN]
  BY <1>2, <1>3 DEF None
<1>5. DOMAIN isHot' = HotUrls /\ \A u \in HotUrls : isHot'[u] = isHot[u]
  BY <1>1 DEF HotInv
<1> QED
  BY <1>1, <1>3, <1>4, <1>5, QuietRunKeeps DEF HotStages

LEMMA JudgementKeeps ==
    ASSUME HotInv, NEW r \in HotRuns, JudgeHot(r) \/ JudgeOrdinary(r) \/ SaveHotFails(r)
    PROVE  HotInv'
<1>1. PICK next \in {"insert", "over"} : HotGoto(r, next)
  BY DEF JudgeHot, JudgeOrdinary, SaveHotFails
<1>2. /\ hotPc[r] \in {"judge", "insert"} /\ carried' = carried
      /\ UNCHANGED <<hotItems, linked, unlinked, fellBack, byProgram, byHand, twice>>
  BY DEF JudgeHot, JudgeOrdinary, SaveHotFails, hotHistory
<1>3. carried[r].dbId = None /\ carried[r] \in [url : HotUrls, dbId : Nat, own : BOOLEAN]
  BY <1>2 DEF HotInv
<1>4. DOMAIN isHot' = HotUrls /\ \A u \in HotUrls : isHot'[u] = isHot[u]
  <2>1. CASE JudgeHot(r)
    <3>1. \A u \in HotUrls : isHot[u] \in BOOLEAN
      BY DEF HotInv, UrlInv, RowInv
    <3>2. carried[r].url \in HotUrls
      BY <1>3
    <3>3. Flagged(carried[r].url, carried[r].dbId) = isHot[carried[r].url]
      BY <1>3, <3>1, <3>2 DEF Flagged
    <3> QED
      BY <2>1, <3>2, <3>3 DEF JudgeHot, HotInv
  <2>2. CASE JudgeOrdinary(r) \/ SaveHotFails(r)
    BY <2>2 DEF JudgeOrdinary, SaveHotFails, HotInv
  <2> QED
    BY <2>1, <2>2
<1>5. DOMAIN carried' = HotRuns
  BY <1>2 DEF HotInv
<1> QED
  BY <1>1, <1>2, <1>3, <1>4, <1>5, QuietRunKeeps DEF HotStages

LEMMA InsertHotNewsKeeps ==
    ASSUME HotInv, NEW r \in HotRuns, InsertHotNews(r)
    PROVE  HotInv'
<1>0. PICK u \in HotUrls : u = carried[r].url
  BY DEF HotInv
<1>1. /\ hotPc[r] = "insert" /\ carried[r].dbId = None
      /\ unlinked' = [unlinked EXCEPT ![u] = unlinked[u] + 1]
      /\ byProgram' = byProgram \cup {u} /\ HotGoto(r, "over")
      /\ carried' = carried /\ hotRow' = hotRow /\ lastId' = lastId /\ isHot' = isHot
      /\ linked' = linked /\ fellBack' = fellBack /\ byHand' = byHand /\ twice' = twice
  BY <1>0 DEF HotInv, InsertHotNews, hotItems
<1>2. /\ hotPc' \in [HotRuns -> HotStages] /\ hotPc'[r] = "over"
      /\ \A q \in HotRuns : q # r => hotPc'[q] = hotPc[q]
      /\ \A v \in HotUrls : v # u => Begun(v)' = Begun(v) /\ Pending(v)' = Pending(v)
      /\ Begun(u)' = Begun(u) \cup {r} /\ Pending(u)' = Pending(u) \ {r}
  BY <1>0, <1>1, RunMoves DEF HotStages, HotInv
<1>3. r \in Begun(u) /\ r \in Pending(u)
  BY <1>0, <1>1 DEF Begun, Pending
<1>4. ASSUME NEW v \in HotUrls, v # u PROVE UrlInv(v)'
  <2>1. unlinked'[v] = unlinked[v] /\ (v \in byProgram' <=> v \in byProgram)
    BY <1>1, <1>4 DEF HotInv
  <2> QED
    BY <1>1, <1>2, <1>4, <2>1, UrlKeeps DEF HotInv
<1>5. unlinked'[u] = unlinked[u] + 1
  BY <1>1 DEF HotInv
<1>6. RowInv(u)
  BY DEF HotInv, UrlInv
<1>7. RowInv(u)'
  <2>1. unlinked'[u] \in Nat
    BY <1>5, <1>6 DEF RowInv
  <2>2. lastId[u] >= 1 \/ u \in fellBack
    BY <1>3, <1>6 DEF RowInv
  <2> QED
    BY <1>1, <1>6, <2>1, <2>2 DEF RowInv
<1>8. Explained(u)' \/ FirstRow(u)'
  <2>1. CASE Explained(u) \/ u \in byHand
    BY <1>1, <2>1 DEF Explained
  <2>2. CASE ~Explained(u) /\ u \notin byHand
    <3>1. FirstRow(u)
      BY <2>2 DEF HotInv, UrlInv
    <3>2. u \notin byProgram /\ linked[u] = 0 /\ unlinked[u] = 0
      BY <1>3, <2>2, <3>1 DEF FirstRow
    <3>3. Begun(u)' = Begun(u) /\ Pending(u)' = {}
      BY <1>2, <1>3, <3>1 DEF FirstRow, Pending
    <3>4. linked'[u] = 0 /\ unlinked'[u] = 1 /\ u \in byProgram'
      BY <1>1, <1>5, <3>2
    <3> QED
      BY <1>1, <2>2, <3>1, <3>3, <3>4 DEF FirstRow
  <2> QED
    BY <2>1, <2>2
<1>9. \A q \in HotRuns : hotPc'[q] \in {"judge", "insert"} => carried'[q].dbId = None
  BY <1>1, <1>2 DEF HotInv
<1> QED
  BY <1>1, <1>2, <1>4, <1>7, <1>8, <1>9 DEF HotInv, UrlInv

(* A step of the retention or the app: one URL at most, and no run.        *)
LEMMA OutsideKeeps ==
    ASSUME HotInv, NEW u \in HotUrls, hotPc' = hotPc, carried' = carried, lastId' = lastId,
           fellBack' = fellBack, byProgram' = byProgram,
           DOMAIN hotRow' = HotUrls, DOMAIN isHot' = HotUrls,
           DOMAIN linked' = HotUrls, DOMAIN unlinked' = HotUrls,
           \A v \in HotUrls \ {u} :
               /\ hotRow'[v] = hotRow[v] /\ isHot'[v] = isHot[v]
               /\ linked'[v] = linked[v] /\ unlinked'[v] = unlinked[v]
               /\ v \in byHand' <=> v \in byHand
               /\ v \in twice => v \in twice',
           UrlInv(u)'
    PROVE  HotInv'
<1>1. \A v \in HotUrls : Begun(v)' = Begun(v) /\ Pending(v)' = Pending(v)
  BY DEF Begun, Pending
<1>2. ASSUME NEW v \in HotUrls, v # u PROVE UrlInv(v)'
  BY <1>1, <1>2, UrlKeeps DEF HotInv
<1> QED
  BY <1>2 DEF HotInv

LEMMA PurgeItemKeeps ==
    ASSUME HotInv, NEW u \in HotUrls, PurgeItem(u)
    PROVE  HotInv'
<1>1. /\ hotPc' = hotPc /\ carried' = carried /\ lastId' = lastId
      /\ fellBack' = fellBack /\ byProgram' = byProgram /\ byHand' = byHand /\ twice' = twice
      /\ hotRow' = [hotRow EXCEPT ![u] = None] /\ isHot' = [isHot EXCEPT ![u] = FALSE]
      /\ linked' = [linked EXCEPT ![u] = 0]
      /\ unlinked' = [unlinked EXCEPT ![u] = unlinked[u] + linked[u]]
  BY DEF PurgeItem, hotHistory
<1>2. /\ hotRow'[u] = None /\ isHot'[u] = FALSE /\ linked'[u] = 0
      /\ unlinked'[u] = unlinked[u] + linked[u]
  BY <1>1 DEF HotInv
<1>3. Begun(u)' = Begun(u) /\ Pending(u)' = Pending(u)
  BY <1>1 DEF Begun, Pending
<1>4. UrlInv(u) /\ linked[u] \in Nat /\ unlinked[u] \in Nat
  BY DEF HotInv, UrlInv, RowInv
<1>5. RowInv(u)'
  <2>1. linked'[u] \in Nat /\ unlinked'[u] \in Nat
    BY <1>2, <1>4
  <2>2. RowInv(u)
    BY <1>4 DEF UrlInv
  <2>3. ~isHot'[u] /\ isHot'[u] \in BOOLEAN
    BY <1>2, Zenon
  <2> QED
    BY <1>1, <1>2, <1>3, <2>1, <2>2, <2>3 DEF RowInv
<1>6. Explained(u) => Explained(u)'
  BY <1>1 DEF Explained
<1>7. FirstRow(u) => FirstRow(u)'
  <2>1. unlinked'[u] = unlinked[u] + linked[u] /\ linked'[u] + unlinked'[u] = linked[u] + unlinked[u]
    BY <1>2, <1>4
  <2> QED
    BY <1>1, <1>2, <1>3, <1>4, <2>1 DEF FirstRow
<1>8. UrlInv(u)'
  BY <1>4, <1>5, <1>6, <1>7 DEF UrlInv
<1> QED
  BY <1>1, <1>8, OutsideKeeps DEF HotInv

LEMMA MarkAsHotKeeps ==
    ASSUME HotInv, NEW u \in HotUrls, MarkAsHot(u)
    PROVE  HotInv'
<1>1. /\ hotPc' = hotPc /\ carried' = carried /\ lastId' = lastId /\ hotRow' = hotRow
      /\ fellBack' = fellBack /\ byProgram' = byProgram /\ unlinked' = unlinked
  BY DEF MarkAsHot, hotItems
<1>2. Begun(u)' = Begun(u) /\ Pending(u)' = Pending(u)
  BY <1>1 DEF Begun, Pending
<1>3. UrlInv(u) /\ linked[u] \in Nat /\ unlinked[u] \in Nat /\ isHot[u] \in BOOLEAN
  BY DEF HotInv, UrlInv, RowInv
<1>4. CASE hotRow[u] # tile[u].id
  <2>1. isHot' = isHot /\ linked' = linked /\ byHand' = byHand /\ twice' = twice
    BY <1>4 DEF MarkAsHot
  <2>2. UrlInv(u)'
    BY <1>1, <1>2, <1>3, <2>1, UrlKeeps
  <2> QED
    BY <1>1, <2>1, <2>2, OutsideKeeps DEF HotInv
<1>5. CASE hotRow[u] = tile[u].id
  <2>1. /\ hotRow[u] # None /\ byHand' = byHand \cup {u}
        /\ isHot' = [isHot EXCEPT ![u] = TRUE]
        /\ linked' = [linked EXCEPT ![u] = linked[u] + 1]
        /\ twice' = IF isHot[u] THEN twice \cup {u} ELSE twice
    BY <1>5 DEF MarkAsHot, FlagSet
  <2>2. isHot'[u] = TRUE /\ linked'[u] = linked[u] + 1
    BY <2>1 DEF HotInv
  <2>3. RowInv(u)'
    <3>1. linked'[u] \in Nat /\ linked'[u] > 0 /\ hotRow'[u] # None
      BY <1>1, <1>3, <2>1, <2>2
    <3>2. RowInv(u) /\ lastId[u] >= 1
      BY <1>3, <2>1 DEF UrlInv, RowInv
    <3>3. isHot'[u] /\ isHot'[u] \in BOOLEAN
      BY <2>2, Zenon
    <3> QED
      BY <1>1, <1>2, <3>1, <3>2, <3>3 DEF RowInv
  <2>4. ASSUME Explained(u) \/ isHot[u] \/ u \in byProgram PROVE Explained(u)'
    BY <1>1, <2>1, <2>4 DEF Explained
  <2>5. ASSUME ~Explained(u) /\ ~isHot[u] /\ u \notin byProgram PROVE FirstRow(u)'
    <3>1. FirstRow(u) /\ linked[u] = 0
      BY <1>3, <2>1, <2>5 DEF UrlInv, RowInv
    <3>2. unlinked[u] = 0
      BY <1>3, <2>1, <2>5, <3>1 DEF FirstRow
    <3>3. linked'[u] = 1 /\ unlinked'[u] = 0 /\ u \in byHand' /\ u \notin byProgram'
      BY <1>1, <2>1, <2>2, <2>5, <3>1, <3>2
    <3>4. \A q, s \in Begun(u)' : q = s
      BY <1>2, <3>1 DEF FirstRow
    <3> QED
      BY <3>3, <3>4 DEF FirstRow
  <2>6. UrlInv(u)'
    BY <2>3, <2>4, <2>5 DEF UrlInv
  <2>7. \A v \in HotUrls \ {u} : /\ isHot'[v] = isHot[v] /\ linked'[v] = linked[v]
                                 /\ v \in byHand' <=> v \in byHand
                                 /\ v \in twice => v \in twice'
    BY <2>1 DEF HotInv
  <2> QED
    BY <1>1, <2>1, <2>6, <2>7, OutsideKeeps DEF HotInv
<1> QED
  BY <1>4, <1>5

LEMMA UnmarkAsHotKeeps ==
    ASSUME HotInv, NEW u \in HotUrls, ToggleOff(u) \/ RemoveHot(u)
    PROVE  HotInv'
<1>1. PICK id : UnmarkAsHot(u, id)
  BY DEF ToggleOff, RemoveHot
<1>2. /\ hotPc' = hotPc /\ carried' = carried /\ lastId' = lastId /\ hotRow' = hotRow
      /\ fellBack' = fellBack /\ byProgram' = byProgram /\ unlinked' = unlinked
      /\ byHand' = byHand /\ twice' = twice
  BY <1>1 DEF UnmarkAsHot, hotItems
<1>3. Begun(u)' = Begun(u) /\ Pending(u)' = Pending(u)
  BY <1>2 DEF Begun, Pending
<1>4. UrlInv(u) /\ linked[u] \in Nat /\ unlinked[u] \in Nat /\ isHot[u] \in BOOLEAN
  BY DEF HotInv, UrlInv, RowInv
<1>5. CASE hotRow[u] # id
  <2>1. isHot' = isHot /\ linked' = linked
    BY <1>1, <1>5 DEF UnmarkAsHot
  <2>2. UrlInv(u)'
    BY <1>2, <1>3, <1>4, <2>1, UrlKeeps
  <2> QED
    BY <1>2, <2>1, <2>2, OutsideKeeps DEF HotInv
<1>6. CASE hotRow[u] = id
  <2>1. isHot' = [isHot EXCEPT ![u] = FALSE] /\ linked' = [linked EXCEPT ![u] = 0]
    BY <1>1, <1>6 DEF UnmarkAsHot, RowsDeleted
  <2>2. isHot'[u] = FALSE /\ linked'[u] = 0
    BY <2>1 DEF HotInv
  <2>3. RowInv(u)'
    <3>1. linked'[u] \in Nat /\ ~(linked'[u] > 0)
      BY <2>2
    <3>2. RowInv(u)
      BY <1>4 DEF UrlInv
    <3>3. ~isHot'[u] /\ isHot'[u] \in BOOLEAN
      BY <2>2, Zenon
    <3> QED
      BY <1>2, <1>3, <2>2, <3>1, <3>2, <3>3 DEF RowInv
  <2>4. Explained(u) => Explained(u)'
    BY <1>2 DEF Explained
  <2>5. FirstRow(u) => FirstRow(u)'
    BY <1>2, <1>3, <1>4, <2>2 DEF FirstRow
  <2>6. UrlInv(u)'
    BY <1>4, <2>3, <2>4, <2>5 DEF UrlInv
  <2>7. \A v \in HotUrls \ {u} : isHot'[v] = isHot[v] /\ linked'[v] = linked[v]
    BY <2>1 DEF HotInv
  <2> QED
    BY <1>2, <2>1, <2>6, <2>7, OutsideKeeps DEF HotInv
<1> QED
  BY <1>5, <1>6

LEMMA HotStep == HotInv /\ [HotNext]_hotVars => HotInv'
<1>1. ASSUME HotInv,
             UNCHANGED <<hotPc, carried, hotRow, lastId, isHot, linked, unlinked,
                         fellBack, byProgram, byHand, twice>>
      PROVE  HotInv'
  BY <1>1 DEF HotInv, UrlInv, RowInv, Explained, FirstRow, Begun, Pending
<1>2. ASSUME UNCHANGED hotVars \/ \E u \in HotUrls : LoadNews(u) \/ LoadHotTab(u)
      PROVE  UNCHANGED <<hotPc, carried, hotRow, lastId, isHot, linked, unlinked,
                         fellBack, byProgram, byHand, twice>>
  BY <1>2 DEF hotVars, LoadNews, LoadHotTab, hotItems, hotHistory
<1> QED
  BY <1>1, <1>2, StoreItemKeeps, CallNewKeeps, DetectLanguageKeeps, JudgementKeeps,
     InsertHotNewsKeeps, PurgeItemKeeps, MarkAsHotKeeps, UnmarkAsHotKeeps
  DEF HotNext, HotRunStep, HotAppStep

LEMMA InitHot == HotInit => HotInv
<1> SUFFICES ASSUME HotInit PROVE HotInv
  OBVIOUS
<1>1. /\ hotPc = [r \in HotRuns |-> "idle"]
      /\ carried \in [HotRuns -> {[url |-> u, dbId |-> None, own |-> FALSE] : u \in HotUrls}]
      /\ byProgram = {} /\ byHand = {}
  BY DEF HotInit
<1>2. \A u \in HotUrls : /\ hotRow[u] = None /\ lastId[u] = 0 /\ isHot[u] = FALSE
                         /\ linked[u] = 0 /\ unlinked[u] = 0
  BY DEF HotInit, None
<1>3. \A u \in HotUrls : Begun(u) = {}
  BY <1>1 DEF Begun
<1>4. ASSUME NEW u \in HotUrls PROVE UrlInv(u)
  <2>1. RowInv(u)
    <3>1. lastId[u] \in Nat /\ linked[u] \in Nat
      BY <1>2
    <3>2. ~isHot[u] /\ isHot[u] \in BOOLEAN
      BY <1>2, Zenon
    <3> QED
      BY <1>1, <1>2, <1>3, <3>1, <3>2 DEF RowInv
  <2>2. FirstRow(u)
    BY <1>1, <1>2, <1>3 DEF FirstRow
  <2> QED
    BY <2>1, <2>2 DEF UrlInv
<1>5. ASSUME NEW r \in HotRuns
      PROVE  carried[r] \in [url : HotUrls, dbId : Nat, own : BOOLEAN]
  <2>1. PICK u \in HotUrls : carried[r] = [url |-> u, dbId |-> None, own |-> FALSE]
    BY <1>1
  <2> QED
    BY <2>1 DEF None
<1>6. DOMAIN carried = HotRuns
  BY <1>1
<1>7. /\ DOMAIN hotRow = HotUrls /\ DOMAIN lastId = HotUrls /\ DOMAIN isHot = HotUrls
      /\ DOMAIN linked = HotUrls /\ DOMAIN unlinked = HotUrls
  BY DEF HotInit
<1> QED
  BY <1>1, <1>4, <1>5, <1>6, <1>7 DEF HotInv, HotStages

(* The inductive invariant of the hot news.                                *)
THEOREM HotInvariant == HotSpec => []HotInv
BY InitHot, HotStep, PTL DEF HotSpec

(* The variables of the hot news keep their types: no URL gets more ids    *)
(* than it may, and what a run saved as hot had an id.                     *)
THEOREM HotTypeCorrect == HotSpec => []HotTypeOK
<1> DEFINE OwnStored == \A r \in HotRuns : carried[r].own => lastId[carried[r].url] # None
           Typed     == HotTypeOK /\ OwnStored
<1>1. ASSUME HotInit PROVE Typed
  <2>1. /\ hotPc \in [HotRuns -> {"idle", "detect", "judge", "insert", "over"}]
        /\ hotRow \in [HotUrls -> {None} \cup HotIds] /\ lastId \in [HotUrls -> {None} \cup HotIds]
        /\ hotTab \in [HotUrls -> {None} \cup HotIds]
    BY <1>1 DEF HotInit
  <2>2. isHot \in [HotUrls -> BOOLEAN]
    BY <1>1 DEF HotInit
  <2>3. linked \in [HotUrls -> Nat] /\ unlinked \in [HotUrls -> Nat]
    BY <1>1 DEF HotInit
  <2>4. tile \in [HotUrls -> [id : {None} \cup HotIds, hot : BOOLEAN]]
    BY <1>1 DEF HotInit, NoTile
  <2>5. ASSUME NEW r \in HotRuns PROVE carried[r] \in Carries /\ carried[r].own = FALSE
    <3>1. PICK u \in HotUrls : carried[r] = [url |-> u, dbId |-> None, own |-> FALSE]
      BY <1>1 DEF HotInit
    <3> QED
      BY <3>1 DEF Carries
  <2>6. carried \in [HotRuns -> Carries]
    BY <1>1, <2>5 DEF HotInit
  <2>7. OwnStored
    BY <2>5
  <2> QED
    BY <1>1, <2>1, <2>2, <2>3, <2>4, <2>6, <2>7 DEF HotInit, HotTypeOK
<1>2. ASSUME Typed, UNCHANGED hotVars PROVE Typed'
  BY <1>2 DEF hotVars, hotItems, hotScreens, hotHistory, HotTypeOK
<1>3. ASSUME Typed, NEW r \in HotRuns, StoreItem(r) PROVE Typed'
  <2>1. PICK u \in HotUrls, n \in HotIds :
            /\ u = carried[r].url /\ n = lastId[u] + 1
            /\ hotRow' = [hotRow EXCEPT ![u] = n] /\ lastId' = [lastId EXCEPT ![u] = n]
            /\ carried' = [carried EXCEPT ![r] = [url |-> u, dbId |-> n, own |-> TRUE]]
    <3>1. carried[r].url \in HotUrls /\ lastId[carried[r].url] \in {None} \cup HotIds
      BY <1>3 DEF HotTypeOK, Carries
    <3>2. lastId[carried[r].url] + 1 \in HotIds
      BY <1>3, <3>1, HotAssumption DEF StoreItem, HotIds, None
    <3> QED
      BY <1>3, <3>1, <3>2 DEF StoreItem
  <2>2. /\ hotPc' \in [HotRuns -> {"idle", "detect", "judge", "insert", "over"}]
        /\ UNCHANGED <<isHot, linked, unlinked, tile, hotTab, taps, fellBack, detected,
                       byProgram, byHand, unmarked, twice>>
    BY <1>3 DEF HotTypeOK, StoreItem, HotGoto, hotScreens, hotHistory
  <2>3. [url |-> u, dbId |-> n, own |-> TRUE] \in Carries
    BY <2>1 DEF Carries
  <2>4. /\ hotRow' \in [HotUrls -> {None} \cup HotIds] /\ lastId' \in [HotUrls -> {None} \cup HotIds]
        /\ carried' \in [HotRuns -> Carries]
    BY <1>3, <2>1, <2>3 DEF HotTypeOK
  <2>5. OwnStored'
    <3>1. n # None /\ lastId'[u] = n /\ \A v \in HotUrls : v # u => lastId'[v] = lastId[v]
      BY <1>3, <2>1 DEF HotTypeOK, HotIds, None
    <3>2. carried'[r].url = u /\ \A q \in HotRuns : q # r => carried'[q] = carried[q]
      BY <1>3, <2>1 DEF HotTypeOK
    <3>3. \A q \in HotRuns : carried[q].url \in HotUrls
      BY <1>3 DEF HotTypeOK, Carries
    <3> QED
      BY <1>3, <3>1, <3>2, <3>3
  <2> QED
    BY <1>3, <2>2, <2>4, <2>5 DEF HotTypeOK
<1>4. ASSUME Typed, NEW r \in HotRuns, CallNew(r) PROVE Typed'
  <2>1. carried[r].url \in HotUrls
    BY <1>4 DEF HotTypeOK, Carries
  <2> QED
    BY <1>4, <2>1 DEF HotTypeOK, CallNew, HotGoto, hotItems, hotScreens
<1>5. ASSUME Typed, NEW r \in HotRuns, DetectLanguage(r) PROVE Typed'
  <2>1. /\ carried[r] \in Carries /\ carried' = [carried EXCEPT ![r] = [carried[r] EXCEPT !.dbId = None]]
    BY <1>5 DEF HotTypeOK, DetectLanguage, Rebuilt
  <2> DEFINE item == [carried[r] EXCEPT !.dbId = None]
  <2>2. item \in Carries /\ item.own = carried[r].own /\ item.url = carried[r].url
    BY <2>1 DEF Carries
  <2>3. carried' \in [HotRuns -> Carries]
    BY <1>5, <2>1, <2>2 DEF HotTypeOK
  <2>4. \A q \in HotRuns : carried'[q].own = carried[q].own /\ carried'[q].url = carried[q].url
    BY <1>5, <2>1, <2>2 DEF HotTypeOK
  <2>5. /\ hotPc' \in [HotRuns -> {"idle", "detect", "judge", "insert", "over"}]
        /\ UNCHANGED <<hotRow, lastId, isHot, linked, unlinked, tile, hotTab, taps, fellBack,
                       detected, byProgram, byHand, unmarked, twice>>
    BY <1>5 DEF HotTypeOK, DetectLanguage, HotGoto, hotItems, hotScreens, hotHistory
  <2>6. OwnStored'
    BY <1>5, <2>4, <2>5
  <2> QED
    BY <1>5, <2>3, <2>5, <2>6 DEF HotTypeOK
<1>6. ASSUME Typed, NEW r \in HotRuns, JudgeHot(r) \/ JudgeOrdinary(r) \/ SaveHotFails(r)
      PROVE  Typed'
  <2>1. /\ hotPc' \in [HotRuns -> {"idle", "detect", "judge", "insert", "over"}]
        /\ UNCHANGED <<carried, hotRow, lastId, linked, unlinked, tile, hotTab, taps, fellBack,
                       detected, byProgram, byHand, unmarked, twice>>
    BY <1>6
       DEF HotTypeOK, JudgeHot, JudgeOrdinary, SaveHotFails, HotGoto, hotItems, hotScreens,
           hotHistory
  <2>2. \A u \in HotUrls : \A k : Flagged(u, k) \in BOOLEAN
    BY <1>6 DEF HotTypeOK, Flagged
  <2>3. carried[r].url \in HotUrls
    BY <1>6 DEF HotTypeOK, Carries
  <2>4. isHot' \in [HotUrls -> BOOLEAN]
    BY <1>6, <2>2, <2>3 DEF HotTypeOK, JudgeHot, JudgeOrdinary, SaveHotFails
  <2> QED
    BY <1>6, <2>1, <2>4 DEF HotTypeOK
<1>7. ASSUME Typed, NEW r \in HotRuns, InsertHotNews(r) PROVE Typed'
  <2>1. PICK u \in HotUrls : u = carried[r].url
    BY <1>7 DEF HotTypeOK, Carries
  <2>2. /\ hotPc' \in [HotRuns -> {"idle", "detect", "judge", "insert", "over"}]
        /\ UNCHANGED <<carried, hotRow, lastId, isHot, tile, hotTab, taps, fellBack,
                       byHand, unmarked, twice>>
        /\ byProgram' \subseteq HotUrls
    BY <1>7, <2>1 DEF HotTypeOK, InsertHotNews, HotGoto, hotItems, hotScreens
  <2>3. linked[u] + 1 \in Nat /\ unlinked[u] + 1 \in Nat
    BY <1>7 DEF HotTypeOK
  <2>4. linked' \in [HotUrls -> Nat] /\ unlinked' \in [HotUrls -> Nat]
    BY <1>7, <2>1, <2>3 DEF HotTypeOK, InsertHotNews
  <2>5. carried[r].own => <<u, lastId[u]>> \in HotUrls \X HotIds
    BY <1>7, <2>1 DEF HotTypeOK
  <2>6. detected' \subseteq HotUrls \X HotIds
    BY <1>7, <2>1, <2>5 DEF HotTypeOK, InsertHotNews
  <2> QED
    BY <1>7, <2>2, <2>4, <2>6 DEF HotTypeOK
<1>8. ASSUME Typed, NEW u \in HotUrls, PurgeItem(u) PROVE Typed'
  <2>1. unlinked[u] + linked[u] \in Nat
    BY <1>8 DEF HotTypeOK
  <2>2. linked' \in [HotUrls -> Nat] /\ unlinked' \in [HotUrls -> Nat]
    BY <1>8, <2>1 DEF HotTypeOK, PurgeItem
  <2>3. isHot' \in [HotUrls -> BOOLEAN] /\ hotRow' \in [HotUrls -> {None} \cup HotIds]
    BY <1>8 DEF HotTypeOK, PurgeItem
  <2> QED
    BY <1>8, <2>2, <2>3 DEF HotTypeOK, PurgeItem, hotScreens, hotHistory
<1>9. ASSUME Typed, NEW u \in HotUrls, LoadNews(u) \/ LoadHotTab(u) PROVE Typed'
  <2>1. [id |-> hotRow[u], hot |-> isHot[u]] \in [id : {None} \cup HotIds, hot : BOOLEAN]
    BY <1>9 DEF HotTypeOK
  <2> DEFINE shown == [id |-> hotRow[u], hot |-> isHot[u]]
  <2> HIDE DEF shown
  <2>2. tile' = tile \/ tile' = [tile EXCEPT ![u] = shown]
    BY <1>9 DEF LoadNews, LoadHotTab, shown
  <2>3. tile' \in [HotUrls -> [id : {None} \cup HotIds, hot : BOOLEAN]]
    BY <1>9, <2>1, <2>2 DEF HotTypeOK, shown
  <2>4. (IF linked[u] > 0 THEN hotRow[u] ELSE None) \in {None} \cup HotIds
    BY <1>9 DEF HotTypeOK
  <2>5. hotTab' \in [HotUrls -> {None} \cup HotIds]
    BY <1>9, <2>4 DEF HotTypeOK, LoadNews, LoadHotTab
  <2> QED
    BY <1>9, <2>3, <2>5 DEF HotTypeOK, LoadNews, LoadHotTab, hotItems, hotHistory
<1>10. ASSUME Typed, NEW u \in HotUrls, MarkAsHot(u) \/ ToggleOff(u) \/ RemoveHot(u)
       PROVE  Typed'
  <2>1. /\ UNCHANGED <<hotPc, carried, hotRow, lastId, unlinked, tile, hotTab, fellBack,
                       detected, byProgram>>
        /\ taps' \in Nat
    BY <1>10
       DEF HotTypeOK, MarkAsHot, ToggleOff, RemoveHot, UnmarkAsHot, Tap, hotItems, hotScreens
  <2>2. linked[u] + 1 \in Nat
    BY <1>10 DEF HotTypeOK
  <2>3. linked' \in [HotUrls -> Nat]
    BY <1>10, <2>2 DEF HotTypeOK, MarkAsHot, ToggleOff, RemoveHot, UnmarkAsHot, RowsDeleted
  <2>4. isHot' \in [HotUrls -> BOOLEAN]
    BY <1>10 DEF HotTypeOK, MarkAsHot, ToggleOff, RemoveHot, UnmarkAsHot, FlagSet
  <2>5. byHand' \subseteq HotUrls /\ unmarked' \subseteq HotUrls /\ twice' \subseteq HotUrls
    BY <1>10 DEF HotTypeOK, MarkAsHot, ToggleOff, RemoveHot, UnmarkAsHot
  <2> QED
    BY <1>10, <2>1, <2>3, <2>4, <2>5 DEF HotTypeOK
<1>11. Typed /\ [HotNext]_hotVars => Typed'
  BY <1>2, <1>3, <1>4, <1>5, <1>6, <1>7, <1>8, <1>9, <1>10 DEF HotNext, HotRunStep, HotAppStep
<1> QED
  BY <1>1, <1>11, PTL DEF HotSpec

(* A second hot_news row of a URL always has one of the named reasons.     *)
THEOREM DuplicatesAreExplained == HotSpec => []DuplicatesExplained
<1>1. ASSUME HotInv, NEW u \in HotUrls, linked[u] + unlinked[u] > 1 PROVE Explained(u)
  <2>1. linked[u] \in Nat /\ unlinked[u] \in Nat
    BY <1>1 DEF HotInv, UrlInv, RowInv
  <2> QED
    BY <1>1, <2>1 DEF HotInv, UrlInv, FirstRow
<1>2. HotInv => DuplicatesExplained
  BY <1>1 DEF DuplicatesExplained, Explained
<1> QED
  BY <1>2, HotInvariant, PTL

-----------------------------------------------------------------------------
(* The health check                                                        *)

Targets == ToSet(Answers(TRUE))

(* The check asked about the target of an earlier row.                     *)
AskedAgain(x) == x.about.type = "model" => checks \notin ollamaDown

(* Ids, checks and times grow together; each target of an earlier row that *)
(* the last check asked about again has a row of that check, or still waits*)
(* for it, or could not be saved.                                          *)
HealthInv ==
    /\ HealthTypeOK
    /\ toSave # <<>> => checks > 0
    /\ \A x, y \in healthRows : x.id = y.id => x = y
    /\ \A x, y \in healthRows : x.id < y.id => x.check <= y.check /\ x.at <= y.at
    /\ \A x \in healthRows : x.check < checks /\ AskedAgain(x) =>
           \/ <<checks, x.about>> \in unsaved
           \/ x.about \in ToSet(toSave)
           \/ \E y \in healthRows : OfLast(y) /\ SameTarget(x, y)

(* What a concatenation holds.                                             *)
LEMMA ConcatHolds ==
    ASSUME NEW S, NEW s \in Seq(S), NEW t \in Seq(S)
    PROVE  s \o t \in Seq(S) /\ ToSet(s \o t) = ToSet(s) \cup ToSet(t)
<1>1. /\ s \o t \in Seq(S)
      /\ Len(s \o t) = Len(s) + Len(t) /\ Len(s) \in Nat /\ Len(t) \in Nat
      /\ DOMAIN s = 1..Len(s) /\ DOMAIN t = 1..Len(t) /\ DOMAIN (s \o t) = 1..(Len(s) + Len(t))
      /\ \A i \in 1..(Len(s) + Len(t)) : (s \o t)[i] = IF i <= Len(s) THEN s[i] ELSE t[i - Len(s)]
  BY ConcatProperties, LenProperties
<1>2. ASSUME NEW i \in 1..Len(t)  PROVE  (s \o t)[i + Len(s)] = t[i] /\ i + Len(s) \in DOMAIN (s \o t)
  BY <1>1
<1>3. ASSUME NEW i \in 1..Len(s)  PROVE  (s \o t)[i] = s[i] /\ i \in DOMAIN (s \o t)
  BY <1>1
<1>4. ASSUME NEW i \in DOMAIN (s \o t)
      PROVE  (s \o t)[i] \in ToSet(s) \cup ToSet(t)
  <2>1. CASE i <= Len(s)
    BY <1>1, <2>1 DEF ToSet
  <2>2. CASE ~(i <= Len(s))
    <3>1. i - Len(s) \in DOMAIN t /\ (s \o t)[i] = t[i - Len(s)]
      BY <1>1, <2>2
    <3> QED
      BY <3>1 DEF ToSet
  <2> QED
    BY <2>1, <2>2
<1>5. ToSet(s) \subseteq ToSet(s \o t)
  BY <1>1, <1>3 DEF ToSet
<1>6. ToSet(t) \subseteq ToSet(s \o t)
  BY <1>1, <1>2 DEF ToSet
<1> QED
  BY <1>1, <1>4, <1>5, <1>6 DEF ToSet

(* A sequence that is not empty: its head and its tail.                    *)
LEMMA HeadAndTail ==
    ASSUME NEW S, NEW s \in Seq(S), s # <<>>
    PROVE  /\ Head(s) \in S /\ Head(s) \in ToSet(s)
           /\ Tail(s) \in Seq(S)
           /\ ToSet(s) = {Head(s)} \cup ToSet(Tail(s))
<1>1. /\ Len(s) \in Nat \ {0} /\ DOMAIN s = 1..Len(s)
      /\ Tail(s) \in Seq(S) /\ Len(Tail(s)) = Len(s) - 1 /\ DOMAIN Tail(s) = 1..(Len(s) - 1)
      /\ \A i \in 1..(Len(s) - 1) : Tail(s)[i] = s[i + 1]
      /\ Head(s) = s[1] /\ Head(s) \in S
  BY HeadTailProperties, LenProperties, EmptySeq
<1>2. ASSUME NEW i \in DOMAIN s  PROVE  s[i] \in {Head(s)} \cup ToSet(Tail(s))
  <2>1. CASE i = 1
    BY <1>1, <2>1
  <2>2. CASE i # 1
    <3>1. i - 1 \in 1..(Len(s) - 1) /\ (i - 1) + 1 = i
      BY <1>1, <2>2
    <3>2. Tail(s)[i - 1] = s[i]
      BY <1>1, <3>1
    <3> QED
      BY <1>1, <3>1, <3>2 DEF ToSet
  <2> QED
    BY <2>1, <2>2
<1>3. ASSUME NEW i \in DOMAIN Tail(s)  PROVE  Tail(s)[i] = s[i + 1] /\ i + 1 \in DOMAIN s
  BY <1>1
<1>4. Head(s) \in ToSet(s)
  BY <1>1 DEF ToSet
<1>5. ToSet(Tail(s)) \subseteq ToSet(s)
  BY <1>3 DEF ToSet
<1> QED
  BY <1>1, <1>2, <1>4, <1>5 DEF ToSet

LEMMA EmptyHolds == ToSet(<<>>) = {}
BY DEF ToSet

(* A function on 1..n is a sequence of what it holds.                      *)
LEMMA HoldsItsOwn ==
    ASSUME NEW n \in Nat, NEW s, s = [i \in 1..n |-> s[i]]
    PROVE  s \in Seq(ToSet(s))
<1>1. DOMAIN s = 1..n
  OBVIOUS
<1>2. s \in [1..n -> ToSet(s)]
  BY <1>1 DEF ToSet
<1> QED
  BY <1>2, SeqDef

LEMMA HoldsWithin ==
    ASSUME NEW S, NEW s \in Seq(S)
    PROVE  ToSet(s) \subseteq S
BY LenProperties DEF ToSet

(* A sequence of elements of S whose elements are all in T.                *)
LEMMA HoldsNoMore ==
    ASSUME NEW S, NEW s \in Seq(S), NEW T, ToSet(s) \subseteq T
    PROVE  s \in Seq(T)
<1>1. Len(s) \in Nat /\ s \in [1..Len(s) -> S]
  BY LenProperties
<1>2. s \in [1..Len(s) -> T]
  BY <1>1 DEF ToSet
<1> QED
  BY <1>1, <1>2, SeqDef

(* A check asks about the same targets as the one before, except that it   *)
(* says nothing of the models when Ollama does not answer.                 *)
LEMMA AnswersAgree ==
    ASSUME NEW up \in BOOLEAN
    PROVE  /\ Answers(up) \in Seq(Targets)
           /\ \A a \in Targets : (a.type = "model" => up) => a \in ToSet(Answers(up))
<1> DEFINE O == Single("ollama")
           M == Named("model", ModelNames)
           P == SourceItems
           Q == TelegramItem
           R == SqliteItem
           Word == ToSet(O) \cup ToSet(M) \cup ToSet(P) \cup ToSet(Q) \cup ToSet(R)
<1>1. ASSUME NEW name  PROVE  Single(name) \in Seq(ToSet(Single(name)))
  BY HoldsItsOwn DEF Single, ToSet
<1>2. M \in Seq(ToSet(M)) /\ P \in Seq(ToSet(P))
  <2>1. M = [i \in 1..Len(ModelNames) |-> M[i]]
    BY DEF Named
  <2>2. P = [i \in 1..Len(SourceIds) |-> P[i]]
    BY DEF Named, SourceItems
  <2> QED
    <3>1. Len(ModelNames) \in Nat /\ Len(SourceIds) \in Nat
      BY HealthAssumption
    <3> HIDE DEF M, P
    <3> QED
      BY <2>1, <2>2, <3>1, HoldsItsOwn
<1>3. O \in Seq(Word) /\ M \in Seq(Word) /\ P \in Seq(Word) /\ Q \in Seq(Word) /\ R \in Seq(Word)
  <2>1. O \in Seq(ToSet(O)) /\ Q \in Seq(ToSet(Q)) /\ R \in Seq(ToSet(R))
    BY <1>1 DEF TelegramItem, SqliteItem
  <2> HIDE DEF O, M, P, Q, R
  <2> QED
    BY <1>2, <2>1, HoldsNoMore
<1>4. \A a \in ToSet(M) : a.type = "model"
  BY DEF Named, ToSet
<1>5. OllamaItems(TRUE) = O \o M /\ OllamaItems(FALSE) = O
  BY DEF OllamaItems
<1> HIDE DEF O, M, P, Q, R, Word
<1>6. /\ O \o M \in Seq(Word)
      /\ ToSet(O \o M) = ToSet(O) \cup ToSet(M)
  BY <1>3, ConcatHolds
<1>7. ASSUME NEW s \in Seq(Word)
      PROVE  /\ s \o P \o Q \o R \in Seq(Word)
             /\ ToSet(s \o P \o Q \o R) = ToSet(s) \cup ToSet(P) \cup ToSet(Q) \cup ToSet(R)
  <2> DEFINE a == s \o P
             b == a \o Q
             c == b \o R
  <2>1. a \in Seq(Word) /\ ToSet(a) = ToSet(s) \cup ToSet(P)
    BY <1>3, ConcatHolds
  <2> HIDE DEF a
  <2>2. b \in Seq(Word) /\ ToSet(b) = ToSet(a) \cup ToSet(Q)
    BY <1>3, <2>1, ConcatHolds
  <2> HIDE DEF b
  <2>3. c \in Seq(Word) /\ ToSet(c) = ToSet(b) \cup ToSet(R)
    BY <1>3, <2>2, ConcatHolds
  <2>4. c = s \o P \o Q \o R
    BY DEF a, b, c
  <2> HIDE DEF c
  <2> QED
    BY <2>1, <2>2, <2>3, <2>4
<1>8. /\ Answers(TRUE) = (O \o M) \o P \o Q \o R
      /\ Answers(FALSE) = O \o P \o Q \o R
  BY <1>5 DEF Answers, P, Q, R
<1>9. /\ Answers(TRUE) \in Seq(Word) /\ Answers(FALSE) \in Seq(Word)
      /\ ToSet(Answers(TRUE)) = ToSet(O) \cup ToSet(M) \cup ToSet(P) \cup ToSet(Q) \cup ToSet(R)
      /\ ToSet(Answers(FALSE)) = ToSet(O) \cup ToSet(P) \cup ToSet(Q) \cup ToSet(R)
  BY <1>3, <1>6, <1>7, <1>8
<1>10. CASE up = TRUE
  BY <1>9, <1>10, HoldsNoMore DEF Targets
<1>11. CASE up = FALSE
  <2>1. ToSet(Answers(FALSE)) \subseteq Targets
    BY <1>9 DEF Targets
  <2>2. Answers(FALSE) \in Seq(Targets)
    BY <1>9, <2>1, HoldsNoMore
  <2> QED
    BY <1>4, <1>9, <1>11, <2>2 DEF Targets
<1> QED
  BY <1>10, <1>11
-----------------------------------------------------------------------------
(* One lemma per action.                                                   *)

(* What HealthTypeOK says of a row.                                        *)
LEMMA RowTyped ==
    ASSUME HealthTypeOK
    PROVE  /\ lastRow \in Nat /\ second \in Nat /\ checks \in Nat
           /\ \A x \in healthRows :
                 /\ x.id \in Nat /\ x.id >= 1 /\ x.id <= lastRow
                 /\ x.at \in Nat /\ x.at <= second
                 /\ x.check \in Nat /\ x.check >= 1 /\ x.check <= checks
                 /\ x.about \in Targets
<1>1. lastRow \in Nat /\ second \in Nat /\ checks \in Nat
  BY HealthAssumption DEF HealthTypeOK
<1>2. ASSUME NEW x \in healthRows
      PROVE  /\ x.id \in 1..lastRow /\ x.at \in 0..second
             /\ x.check \in 1..checks /\ x.about \in Targets
  <2>1. x \in [id : 1..lastRow, about : ToSet(Answers(TRUE)), at : 0..second, check : 1..checks]
    BY DEF HealthTypeOK
  <2> QED
    BY <2>1 DEF Targets
<1> QED
  BY <1>1, <1>2

LEMMA HealthStarts == HealthInit => HealthInv
<1> SUFFICES ASSUME HealthInit  PROVE  HealthInv
  OBVIOUS
<1>1. <<>> \in Seq(ToSet(Answers(TRUE)))
  BY EmptySeq
<1> QED
  BY <1>1, HealthAssumption DEF HealthInit, HealthInv, HealthTypeOK

LEMMA CheckKeeps ==
    ASSUME HealthInv, NEW up \in BOOLEAN, Check(up)
    PROVE  HealthInv'
<1>1. HealthTypeOK'
  <2>1. toSave' \in Seq(ToSet(Answers(TRUE)))
    BY AnswersAgree DEF Check, Targets
  <2>2. checks' \in 0..MaxChecks /\ checks' = checks + 1 /\ checks \in Nat
    BY HealthAssumption DEF Check, HealthInv, HealthTypeOK
  <2>3. 1..checks \subseteq 1..checks' /\ checks + 1 \in 1..checks'
    BY <2>2
  <2>4. ollamaDown' \subseteq 1..checks'
    BY <2>3 DEF Check, HealthInv, HealthTypeOK
  <2>5. unsaved' \subseteq (1..checks') \X ToSet(Answers(TRUE))
    BY <2>3 DEF Check, HealthInv, HealthTypeOK
  <2>6. healthRows' \subseteq [id : 1..lastRow', about : ToSet(Answers(TRUE)),
                               at : 0..second', check : 1..checks']
    BY <2>3 DEF Check, HealthInv, HealthTypeOK
  <2> QED
    BY <2>1, <2>2, <2>4, <2>5, <2>6 DEF Check, HealthInv, HealthTypeOK
<1>2. \A x \in healthRows' : x.check < checks' /\ AskedAgain(x)' =>
           x.about \in ToSet(toSave')
  <2>1. SUFFICES ASSUME NEW x \in healthRows, AskedAgain(x)'
                 PROVE  x.about \in ToSet(Answers(up))
    BY DEF Check
  <2>2. x.about \in Targets
    BY DEF HealthInv, HealthTypeOK, Targets
  <2>3. x.about.type = "model" => up
    BY <2>1 DEF AskedAgain, Check
  <2> QED
    BY <2>2, <2>3, AnswersAgree
<1>3. checks' > 0
  BY HealthAssumption DEF Check, HealthInv, HealthTypeOK
<1> QED
  BY <1>1, <1>2, <1>3 DEF HealthInv, Check

LEMMA SaveItemKeeps ==
    ASSUME HealthInv, SaveItem
    PROVE  HealthInv'
<1> DEFINE new == [id |-> lastRow + 1, about |-> Head(toSave), at |-> second, check |-> checks]
<1>1. /\ Head(toSave) \in Targets /\ Head(toSave) \in ToSet(toSave)
      /\ Tail(toSave) \in Seq(Targets)
      /\ ToSet(toSave) = {Head(toSave)} \cup ToSet(Tail(toSave))
  BY HeadAndTail DEF HealthInv, HealthTypeOK, SaveItem, Targets
<1>2. toSave' = Tail(toSave) /\ healthRows' = healthRows \cup {new} /\ lastRow' = lastRow + 1
      /\ checks' = checks /\ second' = second /\ ollamaDown' = ollamaDown /\ unsaved' = unsaved
  BY DEF SaveItem
<1>3. checks > 0
  BY DEF HealthInv, SaveItem
<1>4. new.id = lastRow + 1 /\ new.about = Head(toSave) /\ new.at = second /\ new.check = checks
  OBVIOUS
<1>5. HealthTypeOK'
  <2>1. new \in [id : 1..(lastRow + 1), about : Targets, at : 0..second, check : 1..checks]
    BY <1>1, <1>3, RowTyped DEF HealthInv
  <2>2. [id : 1..lastRow, about : Targets, at : 0..second, check : 1..checks]
          \subseteq [id : 1..(lastRow + 1), about : Targets, at : 0..second, check : 1..checks]
    BY RowTyped DEF HealthInv
  <2> HIDE DEF new
  <2>3. healthRows \subseteq [id : 1..lastRow, about : Targets, at : 0..second, check : 1..checks]
    BY DEF HealthInv, HealthTypeOK, Targets
  <2>4. healthRows \cup {new}
          \subseteq [id : 1..(lastRow + 1), about : Targets, at : 0..second, check : 1..checks]
    BY <2>1, <2>2, <2>3
  <2>5. lastRow + 1 \in Nat
    BY RowTyped DEF HealthInv
  <2> QED
    BY <1>1, <1>2, <2>4, <2>5 DEF HealthInv, HealthTypeOK, Targets
<1> HIDE DEF new
<1>6. \A x, y \in healthRows' : x.id = y.id => x = y
  BY <1>2, <1>4, RowTyped DEF HealthInv
<1>7. \A x, y \in healthRows' : x.id < y.id => x.check <= y.check /\ x.at <= y.at
  BY <1>2, <1>4, RowTyped DEF HealthInv
<1>8. ASSUME NEW x \in healthRows', x.check < checks', AskedAgain(x)'
      PROVE  \/ <<checks', x.about>> \in unsaved'
             \/ x.about \in ToSet(toSave')
             \/ \E y \in healthRows' : OfLast(y)' /\ SameTarget(x, y)
  <2>1. x \in healthRows /\ AskedAgain(x)
    BY <1>2, <1>4, <1>8, RowTyped DEF AskedAgain, HealthInv
  <2>2. \/ <<checks, x.about>> \in unsaved
        \/ x.about \in ToSet(toSave)
        \/ \E y \in healthRows : OfLast(y) /\ SameTarget(x, y)
    BY <1>2, <1>8, <2>1 DEF HealthInv
  <2>3. CASE x.about = Head(toSave)
    BY <1>2, <1>4, <2>3 DEF OfLast, SameTarget
  <2> QED
    BY <1>1, <1>2, <2>2, <2>3 DEF OfLast, SameTarget
<1> QED
  BY <1>2, <1>3, <1>5, <1>6, <1>7, <1>8 DEF HealthInv

LEMMA SaveItemFailsKeeps ==
    ASSUME HealthInv, SaveItemFails
    PROVE  HealthInv'
<1>1. /\ Head(toSave) \in Targets /\ Head(toSave) \in ToSet(toSave)
      /\ Tail(toSave) \in Seq(Targets)
      /\ ToSet(toSave) = {Head(toSave)} \cup ToSet(Tail(toSave))
  BY HeadAndTail DEF HealthInv, HealthTypeOK, SaveItemFails, Targets
<1>2. toSave' = Tail(toSave) /\ healthRows' = healthRows /\ lastRow' = lastRow
      /\ checks' = checks /\ second' = second /\ ollamaDown' = ollamaDown
      /\ unsaved' = unsaved \cup {<<checks, Head(toSave)>>}
  BY DEF SaveItemFails, NextItem
<1>3. checks > 0
  BY DEF HealthInv, SaveItemFails
<1>4. checks \in 1..checks
  BY <1>3, RowTyped DEF HealthInv
<1>5. HealthTypeOK'
  <2>1. unsaved' \subseteq (1..checks) \X Targets
    <3>1. unsaved \subseteq (1..checks) \X Targets
      BY DEF HealthInv, HealthTypeOK, Targets
    <3>2. <<checks, Head(toSave)>> \in (1..checks) \X Targets
      BY <1>1, <1>4
    <3> QED
      BY <1>2, <3>1, <3>2
  <2> QED
    BY <1>1, <1>2, <2>1 DEF HealthInv, HealthTypeOK, Targets
<1> QED
  BY <1>1, <1>2, <1>3, <1>5 DEF HealthInv, AskedAgain, OfLast

LEMMA DieInCheckKeeps ==
    ASSUME HealthInv, DieInCheck
    PROVE  HealthInv'
<1>1. toSave' = <<>> /\ healthRows' = healthRows /\ lastRow' = lastRow
      /\ checks' = checks /\ second' = second /\ ollamaDown' = ollamaDown
      /\ unsaved' = unsaved \cup {<<checks, answer>> : answer \in ToSet(toSave)}
  BY DEF DieInCheck
<1>2. checks \in 1..checks
  BY RowTyped DEF HealthInv, DieInCheck
<1>3. ToSet(toSave) \subseteq Targets
  BY HoldsWithin DEF HealthInv, HealthTypeOK, Targets
<1>4. HealthTypeOK'
  <2>1. <<>> \in Seq(Targets)
    BY EmptySeq
  <2>2. unsaved' \subseteq (1..checks) \X Targets
    <3>1. unsaved \subseteq (1..checks) \X Targets
      BY DEF HealthInv, HealthTypeOK, Targets
    <3>2. \A answer \in ToSet(toSave) : <<checks, answer>> \in (1..checks) \X Targets
      BY <1>2, <1>3
    <3> QED
      BY <1>1, <3>1, <3>2
  <2> QED
    BY <1>1, <2>1, <2>2 DEF HealthInv, HealthTypeOK, Targets
<1> QED
  BY <1>1, <1>4 DEF HealthInv, AskedAgain, OfLast

LEMMA SecondPassesKeeps ==
    ASSUME HealthInv, SecondPasses
    PROVE  HealthInv'
<1>1. toSave' = toSave /\ healthRows' = healthRows /\ lastRow' = lastRow
      /\ checks' = checks /\ second' = second + 1 /\ ollamaDown' = ollamaDown
      /\ unsaved' = unsaved
  BY DEF SecondPasses
<1>2. second + 1 \in 0..MaxSeconds /\ 0..second \subseteq 0..(second + 1)
  BY HealthAssumption DEF SecondPasses, HealthInv, HealthTypeOK
<1>3. HealthTypeOK'
  BY <1>1, <1>2 DEF HealthInv, HealthTypeOK
<1> QED
  BY <1>1, <1>3 DEF HealthInv, AskedAgain, OfLast

(* The rows of the last check are not older than the others, so that the   *)
(* deletion leaves one to speak for every row it leaves.                   *)
LEMMA PurgeHealthKeeps ==
    ASSUME HealthInv, PurgeHealth
    PROVE  HealthInv'
<1>1. toSave' = toSave /\ healthRows' = {x \in healthRows : Kept(x)} /\ lastRow' = lastRow
      /\ checks' = checks /\ second' = second /\ ollamaDown' = ollamaDown
      /\ unsaved' = unsaved
  BY DEF PurgeHealth
<1>2. HealthTypeOK'
  BY <1>1 DEF HealthInv, HealthTypeOK
<1>3. ASSUME NEW x \in healthRows, NEW y \in healthRows, Kept(x), x.check < checks, OfLast(y)
      PROVE  Kept(y)
  <2>1. x.id < y.id
    <3>1. ~(y.id < x.id) /\ x.id # y.id
      BY <1>3, RowTyped DEF HealthInv, OfLast
    <3> QED
      BY <3>1, RowTyped DEF HealthInv
  <2>2. x.at <= y.at
    BY <2>1 DEF HealthInv
  <2> QED
    BY <1>3, <2>2, RowTyped, HealthAssumption DEF Kept, HealthInv
<1> QED
  BY <1>1, <1>2, <1>3 DEF HealthInv, AskedAgain, OfLast

(* HealthInv holds of every state: the health check.                       *)
THEOREM HealthInvariant == HealthSpec => []HealthInv
<1>1. ASSUME HealthInv, [HealthNext]_healthVars  PROVE  HealthInv'
  <2>1. CASE UNCHANGED healthVars
    BY <1>1, <2>1 DEF healthVars, HealthInv, HealthTypeOK, AskedAgain, OfLast
  <2> QED
    BY <1>1, <2>1, CheckKeeps, SaveItemKeeps, SaveItemFailsKeeps, DieInCheckKeeps,
       SecondPassesKeeps, PurgeHealthKeeps DEF HealthNext
<1> QED
  BY <1>1, HealthStarts, PTL DEF HealthSpec

(* The rows and the answers at hand keep their types.                      *)
THEOREM HealthTypeCorrect == HealthSpec => []HealthTypeOK
<1>1. HealthInv => HealthTypeOK
  BY DEF HealthInv
<1> QED
  BY <1>1, HealthInvariant, PTL

(* Between two checks, what the readers show of an earlier check has one of*)
(* the reasons StaleExplained lists, and nothing of the last check is      *)
(* hidden but by the last check itself.                                    *)
THEOREM ShownIsExplained == HealthSpec => []ShownExplained
<1>1. ASSUME HealthInv, toSave = <<>>  PROVE  NothingElseHidden
  <2> SUFFICES ASSUME NEW x \in healthRows, OfLast(x)
               PROVE  /\ \/ x \in LatestHealthChecks
                         \/ \E y \in healthRows : OfLast(y) /\ SameTarget(x, y) /\ y.id > x.id
                      /\ \/ x \in LatestResults
                         \/ \E y \in healthRows : OfLast(y) /\ SameType(x, y) /\ y.at > x.at
    BY DEF NothingElseHidden
  <2>1. ASSUME NEW y \in healthRows, y.id > x.id  PROVE  OfLast(y)
    BY <1>1, <2>1, RowTyped DEF HealthInv, OfLast
  <2>2. ASSUME NEW y \in healthRows, y.at > x.at  PROVE  OfLast(y)
    <3>1. y.id > x.id
      BY <1>1, <2>2, RowTyped DEF HealthInv
    <3> QED
      BY <2>1, <3>1
  <2>3. \A y \in healthRows : y.id \in Nat /\ y.at \in Nat
    BY <1>1, RowTyped DEF HealthInv
  <2> QED
    BY <2>1, <2>2, <2>3 DEF LatestHealthChecks, LatestResults
<1>2. ASSUME HealthInv, toSave = <<>>  PROVE  StaleExplained
  <2> SUFFICES ASSUME NEW x \in LatestResults, ~OfLast(x)
               PROVE  \/ x.about.type = "model" /\ checks \in ollamaDown
                      \/ <<checks, x.about>> \in unsaved
                      \/ \E y \in healthRows : OfLast(y) /\ SameType(x, y) /\ y.at = x.at
    BY DEF StaleExplained
  <2>1. x \in healthRows /\ x.check < checks
    BY <1>2, RowTyped DEF LatestResults, OfLast, HealthInv
  <2>2. x.about \notin ToSet(toSave)
    BY <1>2, EmptyHolds
  <2>3. CASE ~AskedAgain(x)
    BY <2>3 DEF AskedAgain
  <2>4. CASE AskedAgain(x) /\ <<checks, x.about>> \notin unsaved
    <3>1. PICK y \in healthRows : OfLast(y) /\ SameTarget(x, y)
      BY <1>2, <2>1, <2>2, <2>4 DEF HealthInv
    <3>2. SameType(x, y)
      BY <3>1 DEF SameTarget, SameType
    <3>3. y.at <= x.at
      BY <3>2 DEF LatestResults
    <3>4. x.id < y.id
      BY <1>2, <2>1, <3>1, RowTyped DEF HealthInv, OfLast
    <3>5. x.at <= y.at
      BY <1>2, <2>1, <3>4 DEF HealthInv
    <3> QED
      BY <1>2, <2>1, <3>1, <3>2, <3>3, <3>5, RowTyped DEF HealthInv
  <2> QED
    BY <2>3, <2>4
<1>3. HealthInv => ShownExplained
  BY <1>1, <1>2 DEF ShownExplained
<1> QED
  BY <1>3, HealthInvariant, PTL

-----------------------------------------------------------------------------
(* The digest                                                              *)

Message == [header : BOOLEAN, entries : Seq(DigestUrls), length : Nat]

IsPlace(ms, k, i) == k \in 1..Len(ms) /\ i \in 1..Len(ms[k].entries)
EntryAt(ms, k, i) == ms[k].entries[i]

(* SplitWell of two messages and of one.                                   *)
WithinLimit(m)  == m.length > MaxMsgLen => Len(m.entries) = 1 /\ ~m.header
OpenedBy(m, n)  == /\ ~n.header /\ n.entries # <<>>
                   /\ m.length + entryLength[n.entries[1]] > MaxMsgLen

(* A sequence with its last element replaced, and with one more.           *)
LEMMA AppendIs ==
    ASSUME NEW S, NEW s \in Seq(S), NEW x \in S
    PROVE  /\ Append(s, x) \in Seq(S) /\ Len(Append(s, x)) = Len(s) + 1
           /\ \A i \in 1..Len(s) : Append(s, x)[i] = s[i]
           /\ Append(s, x)[Len(s) + 1] = x
           /\ Len(s) \in Nat
BY AppendProperties, LenProperties

LEMMA LastReplaced ==
    ASSUME NEW S, NEW s \in Seq(S), s # <<>>, NEW x \in S
    PROVE  /\ [s EXCEPT ![Len(s)] = x] \in Seq(S)
           /\ Len([s EXCEPT ![Len(s)] = x]) = Len(s)
           /\ \A i \in 1..(Len(s) - 1) : [s EXCEPT ![Len(s)] = x][i] = s[i]
           /\ [s EXCEPT ![Len(s)] = x][Len(s)] = x
           /\ Len(s) \in Nat \ {0}
BY ExceptSeq, LenProperties, EmptySeq

(* What AddEntry promises: the entry stands behind the others, which stay  *)
(* where they are, and SplitWell stays true.                               *)
Added(ms, new, u) ==
    LET n == Len(new)
        m == Len(new[n].entries)
    IN /\ new \in Seq(Message) /\ n \in Nat \ {0} /\ m \in Nat \ {0}
       /\ IsPlace(new, n, m) /\ EntryAt(new, n, m) = u
       /\ \A k, i : IsPlace(ms, k, i) =>
              IsPlace(new, k, i) /\ EntryAt(new, k, i) = EntryAt(ms, k, i)
       /\ \A k, i : IsPlace(new, k, i) =>
              \/ k = n /\ i = m
              \/ IsPlace(ms, k, i) /\ (k < n \/ (k = n /\ i < m))
       /\ new[1].header = ms[1].header
       /\ (\A k \in 1..Len(ms) : WithinLimit(ms[k])) =>
              \A k \in 1..n : WithinLimit(new[k])
       /\ (\A k \in 2..Len(ms) : OpenedBy(ms[k-1], ms[k])) =>
              \A k \in 2..n : OpenedBy(new[k-1], new[k])

(* What a message is.                                                      *)
LEMMA MessageIs ==
    ASSUME NEW msg \in Message
    PROVE  /\ msg.entries \in Seq(DigestUrls) /\ Len(msg.entries) \in Nat
           /\ msg.length \in Nat /\ msg.header \in BOOLEAN
           /\ msg.entries # <<>> <=> Len(msg.entries) >= 1
<1>1. msg.entries \in Seq(DigestUrls) /\ msg.length \in Nat /\ msg.header \in BOOLEAN
  BY DEF Message
<1>2. Len(msg.entries) \in Nat
  BY <1>1, LenProperties
<1>3. msg.entries # <<>> => Len(msg.entries) \in Nat \ {0}
  BY <1>1, EmptySeq
<1>4. Len(<<>>) = 0
  BY EmptySeq
<1> QED
  BY <1>1, <1>2, <1>3, <1>4

LEMMA EntryExtends ==
    ASSUME DigestTypeOK, NEW ms \in Seq(Message), ms # <<>>, NEW u \in DigestUrls,
           HasRoom(ms[Len(ms)], u)
    PROVE  Added(ms, [ms EXCEPT ![Len(ms)] = Extended(@, u)], u)
<1> DEFINE N    == Len(ms)
           last == ms[N]
           ext  == Extended(last, u)
           new  == [ms EXCEPT ![N] = ext]
           M    == Len(last.entries) + 1
<1>1. /\ N \in Nat \ {0} /\ \A k \in 1..N : ms[k] \in Message
      /\ last \in Message
  BY LenProperties, EmptySeq, ElementOfSeq
<1>2. entryLength[u] \in Nat \ {0}
  BY DigestAssumption DEF DigestTypeOK
<1>3. /\ ext.header = last.header /\ ext.entries = Append(last.entries, u)
      /\ ext.length = last.length + entryLength[u]
  BY <1>1 DEF Extended, Message
<1>20. /\ last.entries \in Seq(DigestUrls) /\ Len(last.entries) \in Nat
       /\ last.length \in Nat /\ last.header \in BOOLEAN
       /\ last.length + entryLength[u] <= MaxMsgLen
  <2>1. last.length + entryLength[u] <= MaxMsgLen
    BY DEF HasRoom
  <2> HIDE DEF last
  <2> QED
    BY <1>1, <2>1, MessageIs
<1>4. ext.length <= MaxMsgLen /\ ext.length \in Nat /\ ext.header \in BOOLEAN
  <2> HIDE DEF ext, last
  <2> QED
    BY <1>2, <1>3, <1>20
<1>5. /\ ext.entries \in Seq(DigestUrls) /\ Len(ext.entries) = M
      /\ \A i \in 1..Len(last.entries) : ext.entries[i] = last.entries[i]
      /\ ext.entries[M] = u
      /\ M \in Nat \ {0} /\ Len(last.entries) \in Nat
  <2> HIDE DEF ext, last
  <2> QED
    BY <1>3, <1>20, AppendIs
<1>6. ext \in Message
  <2> DEFINE a == Append(last.entries, u)
             b == last.length + entryLength[u]
  <2>1. a \in Seq(DigestUrls) /\ b \in Nat
    BY <1>3, <1>4, <1>5
  <2>2. ext = [last EXCEPT !.entries = a, !.length = b]
    BY DEF Extended
  <2> HIDE DEF a, b, ext, last
  <2> QED
    BY <1>1, <2>1, <2>2 DEF Message
<1>7. last.entries # <<>> => last.entries[1] = ext.entries[1]
  BY <1>1, <1>5, MessageIs
<1>8. ext.entries # <<>>
  BY <1>5, <1>6, MessageIs
<1> HIDE DEF ext
<1>9. /\ new \in Seq(Message) /\ Len(new) = N /\ new[N] = ext
      /\ \A k \in 1..(N - 1) : new[k] = ms[k]
  BY <1>6, LastReplaced
<1>10. \A k \in 1..N : k = N \/ k \in 1..(N - 1)
  BY <1>1
<1>11. [ms EXCEPT ![Len(ms)] = Extended(@, u)] = new
  BY DEF ext
<1> HIDE DEF new
<1>12. \A k, i : IsPlace(ms, k, i) => IsPlace(new, k, i) /\ EntryAt(new, k, i) = EntryAt(ms, k, i)
  <2> SUFFICES ASSUME NEW k, NEW i, IsPlace(ms, k, i)
               PROVE  IsPlace(new, k, i) /\ EntryAt(new, k, i) = EntryAt(ms, k, i)
    OBVIOUS
  <2>1. CASE k \in 1..(N - 1)
    BY <1>9, <2>1 DEF IsPlace, EntryAt
  <2>2. CASE k = N
    BY <1>1, <1>5, <1>9, <2>2 DEF IsPlace, EntryAt
  <2> QED
    BY <1>10, <2>1, <2>2 DEF IsPlace
<1>13. \A k, i : IsPlace(new, k, i) =>
              \/ k = N /\ i = M
              \/ IsPlace(ms, k, i) /\ (k < N \/ (k = N /\ i < M))
  <2> SUFFICES ASSUME NEW k, NEW i, IsPlace(new, k, i), ~(k = N /\ i = M)
               PROVE  IsPlace(ms, k, i) /\ (k < N \/ (k = N /\ i < M))
    OBVIOUS
  <2>1. CASE k \in 1..(N - 1)
    BY <1>1, <1>9, <2>1 DEF IsPlace
  <2>2. CASE k = N
    BY <1>1, <1>5, <1>9, <2>2 DEF IsPlace
  <2> QED
    BY <1>9, <1>10, <2>1, <2>2 DEF IsPlace
<1>14. IsPlace(new, N, M) /\ EntryAt(new, N, M) = u
  BY <1>1, <1>5, <1>9 DEF IsPlace, EntryAt
<1>15. new[1].header = ms[1].header
  BY <1>1, <1>3, <1>9
<1>16. (\A k \in 1..N : WithinLimit(ms[k])) => \A k \in 1..N : WithinLimit(new[k])
  BY <1>4, <1>9, <1>10, DigestAssumption DEF WithinLimit
<1>17. ASSUME \A k \in 2..N : OpenedBy(ms[k-1], ms[k]), NEW k \in 2..N
       PROVE  OpenedBy(new[k-1], new[k])
  <2>1. k - 1 \in 1..(N - 1) /\ k \in 1..N
    BY <1>1
  <2>2. new[k-1] = ms[k-1]
    BY <1>9, <2>1
  <2>3. CASE k = N
    <3>1. ~last.header /\ last.entries # <<>>
      BY <1>17, <2>3 DEF OpenedBy
    <3> QED
      BY <1>3, <1>7, <1>8, <1>9, <1>17, <2>2, <2>3, <3>1 DEF OpenedBy
  <2>4. CASE k \in 1..(N - 1)
    BY <1>9, <1>17, <2>2, <2>4 DEF OpenedBy
  <2> QED
    BY <1>10, <2>1, <2>3, <2>4
<1>18. Len(new[N].entries) = M
  BY <1>5, <1>9
<1> HIDE DEF N, M, last
<1>19. Added(ms, new, u)
  BY <1>1, <1>5, <1>9, <1>12, <1>13, <1>14, <1>15, <1>16, <1>17, <1>18 DEF Added, N
<1> QED
  BY <1>11, <1>19

LEMMA EntryOpens ==
    ASSUME DigestTypeOK, NEW ms \in Seq(Message), ms # <<>>, NEW u \in DigestUrls,
           ~HasRoom(ms[Len(ms)], u)
    PROVE  Added(ms, Append(ms, Alone(u)), u)
<1> DEFINE N   == Len(ms) + 1
           new == Append(ms, Alone(u))
<1>1. /\ Len(ms) \in Nat \ {0} /\ \A k \in 1..Len(ms) : ms[k] \in Message
      /\ ms[Len(ms)] \in Message
  BY LenProperties, EmptySeq, ElementOfSeq
<1>2. entryLength[u] \in Nat \ {0}
  BY DigestAssumption DEF DigestTypeOK
<1>3. /\ Alone(u).entries = <<u>> /\ Len(Alone(u).entries) = 1 /\ Alone(u).entries[1] = u
      /\ Alone(u).entries # <<>>
      /\ ~Alone(u).header /\ Alone(u).length = entryLength[u]
  BY DEF Alone
<1>4. Alone(u) \in Message
  BY <1>2 DEF Alone, Message
<1>5. /\ new \in Seq(Message) /\ Len(new) = N /\ new[N] = Alone(u)
      /\ \A k \in 1..Len(ms) : new[k] = ms[k]
  BY <1>4, AppendIs
<1>13. Len(new[N].entries) = 1 /\ new[N].entries[1] = u
  BY <1>3, <1>5
<1> HIDE DEF new
<1>6. N \in Nat \ {0} /\ \A k \in 1..N : k = N \/ k \in 1..Len(ms)
  BY <1>1
<1>7. \A k, i : IsPlace(ms, k, i) => IsPlace(new, k, i) /\ EntryAt(new, k, i) = EntryAt(ms, k, i)
  BY <1>1, <1>5 DEF IsPlace, EntryAt
<1>8. \A k, i : IsPlace(new, k, i) =>
              \/ k = N /\ i = 1
              \/ IsPlace(ms, k, i) /\ k < N
  <2> SUFFICES ASSUME NEW k, NEW i, IsPlace(new, k, i)
               PROVE  (k = N /\ i = 1) \/ (IsPlace(ms, k, i) /\ k < N)
    OBVIOUS
  <2>1. CASE k \in 1..Len(ms)
    BY <1>1, <1>5, <2>1 DEF IsPlace
  <2>2. CASE k = N
    <3>1. i \in 1..1
      BY <1>13, <2>2 DEF IsPlace
    <3> QED
      BY <2>2, <3>1
  <2> QED
    BY <1>5, <1>6, <2>1, <2>2 DEF IsPlace
<1>9. IsPlace(new, N, 1) /\ EntryAt(new, N, 1) = u
  <2> HIDE DEF N
  <2> QED
    BY <1>5, <1>6, <1>13 DEF IsPlace, EntryAt
<1>10. new[1].header = ms[1].header
  BY <1>1, <1>5
<1>11. (\A k \in 1..Len(ms) : WithinLimit(ms[k])) => \A k \in 1..N : WithinLimit(new[k])
  BY <1>3, <1>5, <1>6 DEF WithinLimit
<1>12. ASSUME \A k \in 2..Len(ms) : OpenedBy(ms[k-1], ms[k]), NEW k \in 2..N
       PROVE  OpenedBy(new[k-1], new[k])
  <2>1. k - 1 \in 1..Len(ms) /\ k \in 1..N
    BY <1>1
  <2>2. new[k-1] = ms[k-1]
    BY <1>5, <2>1
  <2>3. CASE k = N
    <3>1. new[k-1] = ms[Len(ms)] /\ new[k] = Alone(u)
      BY <1>1, <1>5, <2>2, <2>3
    <3>2. ms[Len(ms)].length + entryLength[u] > MaxMsgLen
      <4> DEFINE last == ms[Len(ms)]
      <4>1. last.length \in Nat /\ ~(last.length + entryLength[u] <= MaxMsgLen)
        BY <1>1, MessageIs DEF HasRoom
      <4> HIDE DEF last
      <4>2. last.length + entryLength[u] > MaxMsgLen
        BY <1>2, <4>1, DigestAssumption
      <4> QED
        BY <4>2 DEF last
    <3> QED
      BY <1>3, <3>1, <3>2 DEF OpenedBy
  <2>4. CASE k \in 1..Len(ms)
    BY <1>5, <1>12, <2>2, <2>4 DEF OpenedBy
  <2> QED
    BY <1>6, <2>1, <2>3, <2>4
<1> HIDE DEF N
<1>14. Added(ms, new, u)
  BY <1>5, <1>6, <1>7, <1>8, <1>9, <1>10, <1>11, <1>12, <1>13 DEF Added
<1> QED
  BY <1>14 DEF new

LEMMA EntryAdded ==
    ASSUME DigestTypeOK, NEW ms \in Seq(Message), ms # <<>>, NEW u \in DigestUrls
    PROVE  Added(ms, AddEntry(ms, u), u)
BY EntryExtends, EntryOpens DEF AddEntry
(* The rows that have a place come before those that wait; each has one, at*)
(* the latest until its message's turn comes; the order is the sorted one. *)
DigestInv ==
    /\ DigestTypeOK
    /\ messages = <<>> => loaded = {} /\ unplaced = {}
    /\ unplaced # {} => NoneSent
    /\ \A u \in loaded \ unplaced, v \in unplaced : Earlier(loadedHot, u, v)
    /\ \A k, i : IsPlace(messages, k, i) => EntryAt(messages, k, i) \in loaded \ unplaced
    /\ \A u \in loaded \ unplaced : NoneSent \/ u \notin digested =>
           \E k, i : IsPlace(messages, k, i) /\ EntryAt(messages, k, i) = u
    /\ \A k, i, l, j : IsPlace(messages, k, i) /\ IsPlace(messages, l, j)
                          /\ (k < l \/ (k = l /\ i < j)) =>
           Earlier(loadedHot, EntryAt(messages, k, i), EntryAt(messages, l, j))
    /\ \A k \in 1..Len(messages) : WithinLimit(messages[k])
    /\ \A k \in 2..Len(messages) : OpenedBy(messages[k-1], messages[k])
    /\ OnlyLateMissed

LEMMA NoPlaceInNone == \A k, i : ~IsPlace(<<>>, k, i)
BY EmptySeq DEF IsPlace

LEMMA DigestStarts == DigestInit => DigestInv
<1> SUFFICES ASSUME DigestInit  PROVE  DigestInv
  OBVIOUS
<1>1. messages = <<>> /\ <<>> \in Seq(Message) /\ Len(<<>>) = 0
  BY EmptySeq DEF DigestInit
<1>2. 1..0 = {} /\ 2..0 = {}
  OBVIOUS
<1>3. DigestTypeOK
  BY <1>1, DigestAssumption DEF DigestInit, DigestTypeOK, Message
<1>4. OnlyLateMissed
  BY DEF DigestInit, OnlyLateMissed
<1> QED
  BY <1>1, <1>2, <1>3, <1>4, NoPlaceInNone DEF DigestInit, DigestInv

LEMMA StoreTodayKeeps ==
    ASSUME DigestInv, NEW u \in DigestUrls, StoreToday(u)
    PROVE  DigestInv'
<1>1. today \in 0..LastDay
  BY DigestAssumption DEF DigestInv, DigestTypeOK
<1>2. DigestTypeOK'
  BY <1>1 DEF StoreToday, DigestInv, DigestTypeOK
<1>3. OnlyLateMissed'
  BY DEF StoreToday, DigestInv, DigestTypeOK, OnlyLateMissed
<1> QED
  BY <1>2, <1>3 DEF StoreToday, DigestInv, NoneSent, WithinLimit, OpenedBy, EntryAt, IsPlace

LEMMA ToggleHotKeeps ==
    ASSUME DigestInv, NEW u \in DigestUrls, ToggleHot(u)
    PROVE  DigestInv'
<1>1. DigestTypeOK'
  BY DEF ToggleHot, DigestInv, DigestTypeOK
<1>2. OnlyLateMissed'
  BY DEF ToggleHot, DigestInv, OnlyLateMissed
<1> QED
  BY <1>1, <1>2 DEF ToggleHot, DigestInv, NoneSent, WithinLimit, OpenedBy, EntryAt, IsPlace

LEMMA DayEndsKeeps ==
    ASSUME DigestInv, DayEnds
    PROVE  DigestInv'
<1>1. DigestTypeOK'
  BY DigestAssumption DEF DayEnds, DigestInv, DigestTypeOK
<1>2. OnlyLateMissed'
  BY DEF DayEnds, DigestInv, OnlyLateMissed
<1> QED
  BY <1>1, <1>2 DEF DayEnds, DigestInv, NoneSent, WithinLimit, OpenedBy, EntryAt, IsPlace

LEMMA LoadDigestKeeps ==
    ASSUME DigestInv, LoadDigest
    PROVE  DigestInv'
<1>1. /\ Header \in Message /\ Header.header /\ Header.entries = <<>>
      /\ Header.length <= MaxMsgLen
  BY EmptySeq, DigestAssumption DEF Header, Message
<1>2. messages' = <<Header>>
  BY DEF LoadDigest
<1>3. /\ messages' \in Seq(Message) /\ Len(messages') = 1 /\ messages'[1] = Header
      /\ messages' # <<>>
  BY <1>1, <1>2, EmptySeq
<1>4. \A k, i : ~IsPlace(messages', k, i)
  <2>1. Len(<<>>) = 0 /\ 1..0 = {}
    BY EmptySeq
  <2> SUFFICES ASSUME NEW k, NEW i, IsPlace(messages', k, i)  PROVE  FALSE
    OBVIOUS
  <2>2. k = 1
    BY <1>3 DEF IsPlace
  <2> QED
    BY <1>1, <1>3, <2>1, <2>2 DEF IsPlace
<1>5. DigestTypeOK'
  BY <1>3 DEF LoadDigest, digestRows, RowsOfToday, DigestInv, DigestTypeOK, Message
<1>6. OnlyLateMissed'
  BY DEF LoadDigest, digestRows, RowsOfToday, DigestInv, OnlyLateMissed
<1>7. NoneSent'
  BY <1>1, <1>3 DEF NoneSent
<1>8. loaded' \ unplaced' = {}
  BY DEF LoadDigest
<1>9. \A k \in 1..Len(messages') : WithinLimit(messages'[k])
  BY <1>1, <1>3, DigestAssumption DEF WithinLimit, Header
<1>10. \A k \in 2..Len(messages') : FALSE
  BY <1>3
<1> QED
  BY <1>3, <1>4, <1>5, <1>6, <1>7, <1>8, <1>9, <1>10 DEF DigestInv, WithinLimit

LEMMA PlaceEntryKeeps ==
    ASSUME DigestInv, NEW u \in DigestUrls, PlaceEntry(u)
    PROVE  DigestInv'
<1> DEFINE new == messages'
           n == Len(new)
           m == Len(new[n].entries)
<1>1. /\ messages \in Seq(Message) /\ messages # <<>> /\ NoneSent
      /\ u \in unplaced /\ u \in loaded
  BY DEF PlaceEntry, DigestInv, DigestTypeOK, Message
<1>2. Added(messages, new, u)
  BY <1>1, EntryAdded DEF PlaceEntry, DigestInv
<1>3. /\ loaded' = loaded /\ loadedHot' = loadedHot /\ unplaced' = unplaced \ {u}
      /\ digested' = digested /\ loaded \ unplaced' = (loaded \ unplaced) \cup {u}
  BY <1>1 DEF PlaceEntry
<1>4. new # <<>> /\ NoneSent'
  BY <1>1, <1>2, EmptySeq DEF Added, NoneSent
<1>5. DigestTypeOK'
  BY <1>2, <1>3 DEF PlaceEntry, digestRows, Added, DigestInv, DigestTypeOK, Message
<1>6. OnlyLateMissed'
  BY DEF PlaceEntry, digestRows, DigestInv, OnlyLateMissed
<1>7. \A x \in loaded' \ unplaced', v \in unplaced' : Earlier(loadedHot', x, v)
  BY <1>1, <1>3 DEF PlaceEntry, DigestInv
<1>8. \A k, i : IsPlace(new, k, i) => EntryAt(new, k, i) \in loaded' \ unplaced'
  BY <1>2, <1>3 DEF Added, DigestInv
<1>9. \A x \in loaded' \ unplaced' : \E k, i : IsPlace(new, k, i) /\ EntryAt(new, k, i) = x
  <2> SUFFICES ASSUME NEW x \in (loaded \ unplaced) \cup {u}
               PROVE  \E k, i : IsPlace(new, k, i) /\ EntryAt(new, k, i) = x
    BY <1>3
  <2>1. CASE x = u
    BY <1>2, <2>1 DEF Added
  <2>2. CASE x \in loaded \ unplaced
    <3>1. PICK k, i : IsPlace(messages, k, i) /\ EntryAt(messages, k, i) = x
      BY <1>1, <2>2 DEF DigestInv
    <3> QED
      BY <1>2, <3>1 DEF Added
  <2> QED
    BY <2>1, <2>2
<1>10. ASSUME NEW k, NEW i, NEW l, NEW j, IsPlace(new, k, i), IsPlace(new, l, j),
              k < l \/ (k = l /\ i < j)
       PROVE  Earlier(loadedHot', EntryAt(new, k, i), EntryAt(new, l, j))
  <2>1. k \in Nat /\ l \in Nat /\ i \in Nat /\ j \in Nat /\ n \in Nat /\ m \in Nat
    <3>1. n \in Nat /\ m \in Nat
      BY <1>2 DEF Added
    <3> HIDE DEF n, m
    <3>2. 1..Len(new) \subseteq Nat
      BY <1>2 DEF Added
    <3> QED
      BY <1>10, <3>1, <3>2 DEF IsPlace
  <2>2. k # n \/ i # m
    BY <1>2, <1>10, <2>1 DEF Added
  <2>3. IsPlace(messages, k, i) /\ EntryAt(messages, k, i) = EntryAt(new, k, i)
    BY <1>2, <1>10, <2>2 DEF Added
  <2>4. CASE l = n /\ j = m
    <3>1. EntryAt(new, l, j) = u
      BY <1>2, <2>4 DEF Added
    <3>2. EntryAt(messages, k, i) \in loaded \ unplaced
      BY <2>3 DEF DigestInv
    <3> QED
      BY <1>1, <1>3, <2>3, <3>1, <3>2 DEF DigestInv
  <2>5. CASE ~(l = n /\ j = m)
    <3>1. IsPlace(messages, l, j) /\ EntryAt(messages, l, j) = EntryAt(new, l, j)
      BY <1>2, <1>10, <2>5 DEF Added
    <3> QED
      BY <1>3, <1>10, <2>3, <3>1 DEF DigestInv
  <2> QED
    BY <2>4, <2>5
<1>11. /\ \A k \in 1..n : WithinLimit(new[k])
       /\ \A k \in 2..n : OpenedBy(new[k-1], new[k])
  BY <1>2 DEF Added, DigestInv
<1>12. entryLength' = entryLength
  BY DEF PlaceEntry, digestRows
<1>13. \A k \in 2..n : /\ ~new[k].header /\ new[k].entries # <<>>
                        /\ new[k-1].length + entryLength'[new[k].entries[1]] > MaxMsgLen
  BY <1>11, <1>12 DEF OpenedBy
<1> HIDE DEF n, m
<1> QED
  BY <1>4, <1>5, <1>6, <1>7, <1>8, <1>9, <1>10, <1>11, <1>13
     DEF DigestInv, EntryAt, IsPlace, WithinLimit, OpenedBy, n

LEMMA SendNextMessageKeeps ==
    ASSUME DigestInv, SendNextMessage
    PROVE  DigestInv'
<1> DEFINE N == Len(messages)
<1>1. /\ messages \in Seq(Message) /\ messages # <<>> /\ N \in Nat \ {0}
      /\ messages' = Tail(messages) /\ Head(messages) = messages[1]
  BY EmptySeq DEF SendNextMessage, DigestInv, DigestTypeOK, Message
<1>2. /\ messages' \in Seq(Message) /\ Len(messages') = N - 1
      /\ \A k \in 1..(N - 1) : messages'[k] = messages[k+1]
  BY <1>1, HeadTailProperties
<1>3. /\ unplaced = {} /\ unplaced' = {}
      /\ digested' = digested \cup ToSet(messages[1].entries)
      /\ N = 1 => loaded' = {} /\ loadedHot' = {}
      /\ N # 1 => loaded' = loaded /\ loadedHot' = loadedHot
      /\ entryLength' = entryLength /\ storedOn' = storedOn /\ late' = late
      /\ today' = today /\ hotRows' = hotRows
  BY <1>1 DEF SendNextMessage, digestRows
<1>4. messages[1] \in Message /\ messages[1].entries \in Seq(DigestUrls)
  BY <1>1, ElementOfSeq, MessageIs
<1>5. /\ ToSet(messages[1].entries) \subseteq DigestUrls
      /\ \A i \in 1..Len(messages[1].entries) : messages[1].entries[i] \in ToSet(messages[1].entries)
  BY <1>4, LenProperties DEF ToSet
<1>6. DigestTypeOK'
  BY <1>2, <1>3, <1>5 DEF DigestInv, DigestTypeOK, Message
<1> HIDE DEF N
<1>7. \A k, i : IsPlace(messages', k, i) =>
          /\ IsPlace(messages, k + 1, i) /\ EntryAt(messages', k, i) = EntryAt(messages, k + 1, i)
          /\ k \in 1..(N - 1) /\ N # 1
  BY <1>1, <1>2 DEF IsPlace, EntryAt, N
<1>8. \A k, i : IsPlace(messages, k, i) =>
          \/ k = 1 /\ EntryAt(messages, k, i) \in digested'
          \/ /\ IsPlace(messages', k - 1, i) /\ EntryAt(messages', k - 1, i) = EntryAt(messages, k, i)
  <2> SUFFICES ASSUME NEW k, NEW i, IsPlace(messages, k, i)
               PROVE  \/ k = 1 /\ EntryAt(messages, k, i) \in digested'
                      \/ /\ IsPlace(messages', k - 1, i)
                         /\ EntryAt(messages', k - 1, i) = EntryAt(messages, k, i)
    OBVIOUS
  <2>1. CASE k = 1
    BY <1>3, <1>5, <2>1 DEF IsPlace, EntryAt
  <2>2. CASE k # 1
    <3>1. k - 1 \in 1..(N - 1) /\ (k - 1) + 1 = k
      BY <1>1, <2>2 DEF IsPlace, N
    <3>2. messages'[k-1] = messages[k]
      BY <1>2, <3>1
    <3> QED
      BY <1>2, <3>1, <3>2 DEF IsPlace, EntryAt
  <2> QED
    BY <2>1, <2>2
<1>9. OnlyLateMissed'
  <2> SUFFICES ASSUME NEW u \in DigestUrls, storedOn[u] # 0, u \notin digested', u \notin late,
                      u \notin loaded'
               PROVE  FALSE
    BY <1>3 DEF OnlyLateMissed
  <2>1. u \in loaded /\ N = 1 /\ u \notin digested
    BY <1>3 DEF DigestInv, OnlyLateMissed
  <2>2. PICK k, i : IsPlace(messages, k, i) /\ EntryAt(messages, k, i) = u
    BY <1>3, <2>1 DEF DigestInv
  <2>3. k = 1
    BY <2>1, <2>2 DEF IsPlace, N
  <2> QED
    BY <1>3, <1>5, <2>2, <2>3 DEF IsPlace, EntryAt
<1>10. \A k \in 2..N : /\ k \in 1..N
                        /\ ~messages[k].header /\ messages[k].entries # <<>>
                        /\ messages[k-1].length + entryLength'[messages[k].entries[1]] > MaxMsgLen
  BY <1>1, <1>3 DEF DigestInv, OpenedBy, N
<1>11. ~NoneSent'
  <2>1. CASE N = 1
    <3>1. messages' = <<>>
      BY <1>2, <2>1, EmptySeq
    <3> QED
      BY <3>1 DEF NoneSent
  <2>2. CASE N # 1
    <3>1. 1 \in 1..(N - 1) /\ 2 \in 2..N
      BY <1>1, <2>2
    <3> QED
      BY <1>2, <1>10, <3>1 DEF NoneSent
  <2> QED
    BY <2>1, <2>2
<1>12. messages' = <<>> => loaded' = {} /\ unplaced' = {}
  <2>1. messages' = <<>> => Len(messages') = 0
    BY EmptySeq
  <2> QED
    BY <1>1, <1>2, <1>3, <2>1
<1>13. \A k, i : IsPlace(messages', k, i) => EntryAt(messages', k, i) \in loaded' \ unplaced'
  BY <1>3, <1>7 DEF DigestInv
<1>14. \A u \in loaded' \ unplaced' : u \notin digested' =>
           \E k, i : IsPlace(messages', k, i) /\ EntryAt(messages', k, i) = u
  <2> SUFFICES ASSUME NEW u \in loaded', u \notin digested'
               PROVE  \E k, i : IsPlace(messages', k, i) /\ EntryAt(messages', k, i) = u
    OBVIOUS
  <2>1. u \in loaded \ unplaced /\ u \notin digested
    BY <1>3
  <2>2. PICK k, i : IsPlace(messages, k, i) /\ EntryAt(messages, k, i) = u
    BY <2>1 DEF DigestInv
  <2> QED
    BY <1>8, <2>2
<1>15. ASSUME NEW k, NEW i, NEW l, NEW j, IsPlace(messages', k, i), IsPlace(messages', l, j),
              k < l \/ (k = l /\ i < j)
       PROVE  Earlier(loadedHot', EntryAt(messages', k, i), EntryAt(messages', l, j))
  <2>1. k \in Int /\ l \in Int
    BY <1>7, <1>15
  <2>2. k + 1 < l + 1 \/ (k + 1 = l + 1 /\ i < j)
    BY <1>15, <2>1
  <2>3. Earlier(loadedHot, EntryAt(messages, k + 1, i), EntryAt(messages, l + 1, j))
    BY <1>7, <1>15, <2>2 DEF DigestInv
  <2> QED
    BY <1>3, <1>7, <1>15, <2>3
<1>16. \A k \in 1..(N - 1) : WithinLimit(messages'[k])
  BY <1>1, <1>2 DEF DigestInv, N
<1>17. ASSUME NEW k \in 2..(N - 1)
       PROVE  /\ ~messages'[k].header /\ messages'[k].entries # <<>>
              /\ messages'[k-1].length + entryLength'[messages'[k].entries[1]] > MaxMsgLen
  <2>1. k \in 1..(N - 1) /\ k - 1 \in 1..(N - 1) /\ k + 1 \in 2..N /\ (k - 1) + 1 = k /\ (k + 1) - 1 = k
    BY <1>1
  <2>2. messages'[k] = messages[k+1] /\ messages'[k-1] = messages[k]
    BY <1>2, <2>1
  <2> QED
    BY <1>10, <2>1, <2>2
<1> QED
  BY <1>2, <1>3, <1>6, <1>9, <1>11, <1>12, <1>13, <1>14, <1>15, <1>16, <1>17
     DEF DigestInv, EntryAt, IsPlace, WithinLimit, OpenedBy

(* DigestInv holds of every state: the digest.                             *)
THEOREM DigestInvariant == DigestSpec => []DigestInv
<1>1. ASSUME DigestInv, [DigestNext]_digestVars  PROVE  DigestInv'
  <2>1. CASE UNCHANGED digestVars
    BY <1>1, <2>1 DEF digestVars, digestRows, DigestInv, DigestTypeOK, OnlyLateMissed, NoneSent,
       WithinLimit, OpenedBy, EntryAt, IsPlace
  <2> QED
    BY <1>1, <2>1, StoreTodayKeeps, ToggleHotKeeps, PlaceEntryKeeps, LoadDigestKeeps,
       SendNextMessageKeeps, DayEndsKeeps DEF DigestNext
<1> QED
  BY <1>1, DigestStarts, PTL DEF DigestSpec

(* The variables of the digest keep their types, for any rows and limits.  *)
THEOREM DigestTypeCorrect == DigestSpec => []DigestTypeOK
<1>1. DigestInv => DigestTypeOK
  BY DEF DigestInv
<1> QED
  BY <1>1, DigestInvariant, PTL

(* The messages of a digest hold the rows of the day, each once, sorted and*)
(* split only where the limit demands it; a row in no digest came late.    *)
THEOREM DigestIsRight == DigestSpec => []DigestRight
<1>1. ASSUME DigestInv  PROVE  InOrder
  <2>1. \A p : p \in Places <=> \E k, i : p = <<k, i>> /\ IsPlace(messages, k, i)
    BY DEF Places, IsPlace
  <2>2. \A k, i : At(<<k, i>>) = EntryAt(messages, k, i)
    BY DEF At, EntryAt
  <2>3. NoneSent => {At(p) : p \in Places} = loaded \ unplaced
    <3> SUFFICES ASSUME NoneSent  PROVE  {At(p) : p \in Places} = loaded \ unplaced
      OBVIOUS
    <3>1. \A p \in Places : At(p) \in loaded \ unplaced
      BY <1>1, <2>1, <2>2 DEF DigestInv
    <3>2. \A u \in loaded \ unplaced : \E p \in Places : At(p) = u
      BY <1>1, <2>1, <2>2 DEF DigestInv
    <3> QED
      BY <3>1, <3>2
  <2>4. ASSUME NEW p \in Places, NEW q \in Places, Sooner(p, q)
        PROVE  Earlier(loadedHot, At(p), At(q))
    <3>1. PICK k, i : p = <<k, i>> /\ IsPlace(messages, k, i)
      BY <2>1
    <3>2. PICK l, j : q = <<l, j>> /\ IsPlace(messages, l, j)
      BY <2>1
    <3>3. k < l \/ (k = l /\ i < j)
      BY <2>4, <3>1, <3>2 DEF Sooner
    <3> QED
      BY <1>1, <2>2, <3>1, <3>2, <3>3 DEF DigestInv
  <2> QED
    BY <2>3, <2>4 DEF InOrder
<1>2. ASSUME DigestInv  PROVE  SplitWell
  <2>1. messages \in Seq(Message)
    BY <1>2 DEF DigestInv, DigestTypeOK, Message
  <2>2. \A k \in 1..Len(messages) : k > 1 => k \in 2..Len(messages)
    BY <2>1, LenProperties
  <2> QED
    BY <1>2, <2>2 DEF DigestInv, SplitWell, WithinLimit, OpenedBy
<1>3. DigestInv => DigestRight
  BY <1>1, <1>2 DEF DigestRight, DigestInv
<1> QED
  BY <1>3, DigestInvariant, PTL

-----------------------------------------------------------------------------
(* Sorting                                                                 *)

NatOrder == {p \in Nat \X Nat : p[1] < p[2]}

(* A set of numbers that is not empty has a least one.                     *)
LEMMA LeastNat ==
    ASSUME NEW T, T \subseteq Nat, T # {}
    PROVE  \E n \in T : \A k \in T : n <= k
<1>1. IsWellFoundedOn(NatOrder, Nat)
  <2>1. NatOrder = OpToRel(<, Nat)
    BY SMT DEF NatOrder, OpToRel
  <2> QED
    BY <2>1, NatLessThanWellFounded
<1>2. PICK x \in T : \A y \in T : ~(<<y, x>> \in NatOrder)
  BY <1>1, WFMin
<1>3. \A y \in T : <<y, x>> \in Nat \X Nat /\ <<y, x>>[1] = y /\ <<y, x>>[2] = x
  OBVIOUS
<1>4. \A y \in T : ~(y < x)
  BY <1>2, <1>3 DEF NatOrder
<1>5. \A y \in T : y \in Nat /\ x \in Nat
  OBVIOUS
<1> QED
  BY <1>4, <1>5

(* R sorts S: a strict total order.                                        *)
Sorts(R, S) ==
    /\ \A x \in S : <<x, x>> \notin R
    /\ \A x, y, z \in S : <<x, y>> \in R /\ <<y, z>> \in R => <<x, z>> \in R
    /\ \A x, y \in S : x = y \/ <<x, y>> \in R \/ <<y, x>> \in R

LEMMA PlaceIsNat ==
    ASSUME NEW S, IsFiniteSet(S), NEW R, NEW x
    PROVE  Place(S, R, x) \in Nat
BY FS_Subset, FS_CardinalityType DEF Place

(* What comes sooner has the smaller place.                                *)
LEMMA PlaceGrows ==
    ASSUME NEW S, IsFiniteSet(S), NEW R, Sorts(R, S), NEW x \in S, NEW y \in S, <<x, y>> \in R
    PROVE  Place(S, R, x) < Place(S, R, y)
<1> DEFINE A == {j \in S : <<j, x>> \in R}
           B == {j \in S : <<j, y>> \in R}
<1>1. A \subseteq B /\ x \in B /\ x \notin A
  BY DEF Sorts
<1>2. IsFiniteSet(B) /\ IsFiniteSet(A)
  BY FS_Subset
<1>3. Cardinality(A) <= Cardinality(B) /\ Cardinality(A) # Cardinality(B)
  BY <1>1, <1>2, FS_Subset
<1>4. Cardinality(A) \in Nat /\ Cardinality(B) \in Nat
  BY <1>2, FS_CardinalityType
<1> QED
  BY <1>3, <1>4 DEF Place

(* The places tell the order.                                              *)
LEMMA PlaceTells ==
    ASSUME NEW S, IsFiniteSet(S), NEW R, Sorts(R, S), NEW x \in S, NEW y \in S
    PROVE  /\ Place(S, R, x) < Place(S, R, y) => <<x, y>> \in R
           /\ x # y => Place(S, R, x) # Place(S, R, y)
<1>1. Place(S, R, x) \in Nat /\ Place(S, R, y) \in Nat
  BY PlaceIsNat
<1>2. <<x, y>> \in R => Place(S, R, x) < Place(S, R, y)
  BY PlaceGrows
<1>3. <<y, x>> \in R => Place(S, R, y) < Place(S, R, x)
  BY PlaceGrows
<1>4. x = y \/ <<x, y>> \in R \/ <<y, x>> \in R
  BY DEF Sorts
<1> QED
  BY <1>1, <1>2, <1>3, <1>4

(* The first n are n, unless there are fewer, and come before the rest.    *)
LEMMA FirstAreFirst ==
    ASSUME NEW S, IsFiniteSet(S), NEW R, Sorts(R, S), NEW n \in Nat
    PROVE  LET F == FirstOf(S, R, n) IN
           /\ F \subseteq S /\ IsFiniteSet(F)
           /\ Cardinality(F) \in Nat /\ Cardinality(F) <= n
           /\ F # S => Cardinality(F) >= n
           /\ \A x \in F, y \in S \ F : <<x, y>> \in R
<1> DEFINE F == FirstOf(S, R, n)
<1>1. F \subseteq S /\ IsFiniteSet(F) /\ Cardinality(F) \in Nat
  BY FS_Subset, FS_CardinalityType DEF FirstOf
<1>2. Cardinality(F) <= n
  <2> DEFINE f == [k \in F |-> Place(S, R, k)]
             I == 0..(n - 1)
  <2>1. f \in [F -> I]
    BY <1>1, PlaceIsNat DEF FirstOf
  <2>2. \A x, y \in F : x # y => f[x] # f[y]
    BY <1>1, PlaceTells
  <2>3. f \in Injection(F, I)
    BY <2>1, <2>2 DEF Injection, IsInjective
  <2>4. IsFiniteSet(I) /\ Cardinality(I) = n
    <3>1. 0 \in Int /\ n - 1 \in Int /\ (IF 0 > n - 1 THEN 0 ELSE (n - 1) - 0 + 1) = n
      OBVIOUS
    <3> QED
      BY <3>1, FS_Interval
  <2> HIDE DEF f, I
  <2> QED
    BY <2>3, <2>4, FS_Injection
<1>3. ASSUME F # S  PROVE  Cardinality(F) >= n
  <2> DEFINE T == {Place(S, R, x) : x \in S \ F}
  <2>1. T \subseteq Nat /\ T # {}
    BY <1>1, <1>3, PlaceIsNat
  <2>2. PICK d \in S \ F : \A x \in S \ F : Place(S, R, d) <= Place(S, R, x)
    <3>1. PICK t \in T : \A u \in T : t <= u
      BY <2>1, LeastNat
    <3> QED
      BY <3>1
  <2> DEFINE B == {j \in S : <<j, d>> \in R}
  <2>3. B \subseteq F
    <3> SUFFICES ASSUME NEW j \in S, <<j, d>> \in R, j \notin F  PROVE  FALSE
      OBVIOUS
    <3>1. Place(S, R, j) < Place(S, R, d) /\ Place(S, R, d) <= Place(S, R, j)
      BY <2>2, PlaceGrows
    <3>2. Place(S, R, j) \in Nat /\ Place(S, R, d) \in Nat
      BY PlaceIsNat
    <3> QED
      BY <3>1, <3>2
  <2>4. Cardinality(B) <= Cardinality(F) /\ IsFiniteSet(B)
    BY <1>1, <2>3, FS_Subset
  <2>5. Cardinality(B) \in Nat /\ ~(Cardinality(B) < n)
    BY <2>4, FS_CardinalityType DEF Place, FirstOf
  <2> QED
    BY <1>1, <2>4, <2>5
<1>4. \A x \in F, y \in S \ F : <<x, y>> \in R
  <2> SUFFICES ASSUME NEW x \in F, NEW y \in S \ F  PROVE  <<x, y>> \in R
    OBVIOUS
  <2>1. Place(S, R, x) \in Nat /\ Place(S, R, y) \in Nat
    BY PlaceIsNat
  <2>2. Place(S, R, x) < Place(S, R, y)
    BY <2>1 DEF FirstOf
  <2> QED
    BY <1>1, <2>2, PlaceTells
<1> QED
  BY <1>1, <1>2, <1>3, <1>4

(* The three orders of the selector sort any positions.                    *)
LEMMA PairIs ==
    ASSUME NEW j \in Positions, NEW k \in Positions
    PROVE  <<j, k>> \in Pairs /\ <<j, k>>[1] = j /\ <<j, k>>[2] = k
BY DEF Pairs

LEMMA GreatestIs ==
    ASSUME NEW V, NEW n \in V, \A y \in V : n >= y
    PROVE  Max(V) \in V /\ \A y \in V : Max(V) >= y
BY DEF Max

LEMMA VotesAreNat ==
    ASSUME rawItems \in Seq(Entries), MostPoints \in Nat, NEW k \in Positions
    PROVE  VotesOf(k) \in Nat
<1> DEFINE V == rawItems[k].votes \cup {0}
<1>1. rawItems[k] \in Entries
  BY ElementOfSeq DEF Positions
<1>2. rawItems[k].votes = {} \/ \E n \in 0..MostPoints : rawItems[k].votes = {n}
  BY <1>1 DEF Entries
<1>3. V \subseteq Nat /\ \E n \in V : \A y \in V : n >= y
  <2>1. CASE rawItems[k].votes = {}
    <3>1. V = {0}
      BY <2>1
    <3> HIDE DEF V
    <3> QED
      BY <3>1
  <2>2. ASSUME NEW n \in 0..MostPoints, rawItems[k].votes = {n}
        PROVE  V \subseteq Nat /\ \E m \in V : \A y \in V : m >= y
    <3>1. V = {n, 0} /\ n \in Nat /\ n >= n /\ n >= 0
      BY <2>2
    <3> HIDE DEF V
    <3> QED
      BY <3>1
  <2> QED
    BY <1>2, <2>1, <2>2
<1> HIDE DEF V
<1>4. Max(V) \in V
  BY <1>3, GreatestIs
<1> QED
  BY <1>3, <1>4 DEF VotesOf, V

LEMMA ListSorts ==
    ASSUME NEW S \in SUBSET Positions
    PROVE  Sorts(ByList, S)
<1>1. \A j, k \in S : <<j, k>> \in ByList <=> j < k
  BY PairIs DEF ByList
<1>2. S \subseteq Int
  BY DEF Positions
<1> QED
  BY <1>1, <1>2 DEF Sorts

LEMMA VotesSort ==
    ASSUME rawItems \in Seq(Entries), MostPoints \in Nat, NEW S \in SUBSET Positions
    PROVE  /\ Sorts(ByVotes, S)
           /\ \A j, k \in S : <<j, k>> \in ByVotes => VotesOf(j) >= VotesOf(k)
<1>1. \A j, k \in S : <<j, k>> \in ByList <=> j < k
  BY PairIs DEF ByList
<1>2. \A j, k \in S : <<j, k>> \in ByVotes <=>
          VotesOf(j) > VotesOf(k) \/ (VotesOf(j) = VotesOf(k) /\ j < k)
  BY <1>1, PairIs DEF ByVotes
<1>3. \A k \in S : VotesOf(k) \in Nat /\ k \in Int
  BY VotesAreNat DEF Positions
<1> QED
  BY <1>2, <1>3 DEF Sorts

LEMMA TierSorts ==
    ASSUME rawItems \in Seq(Entries), MostPoints \in Nat, NEW S \in SUBSET Positions
    PROVE  /\ Sorts(ByTier, S)
           /\ \A j, k \in S : <<j, k>> \in ByTier =>
                 /\ Tier(j) <= Tier(k)
                 /\ Tier(j) = 3 => VotesOf(j) >= VotesOf(k)
<1>1. \A j, k \in S : <<j, k>> \in ByTier <=>
          \/ Tier(j) < Tier(k)
          \/ Tier(j) = Tier(k) /\ Tier(j) = 3 /\ <<j, k>> \in ByVotes
          \/ Tier(j) = Tier(k) /\ Tier(j) # 3 /\ <<j, k>> \in ByList
  BY PairIs DEF ByTier
<1>2. \A k \in S : Tier(k) \in 1..3
  BY DEF Tier
<1>3. Sorts(ByVotes, S) /\ Sorts(ByList, S)
  BY VotesSort, ListSorts
<1>4. \A j, k \in S : <<j, k>> \in ByVotes => VotesOf(j) >= VotesOf(k)
  BY VotesSort
<1> QED
  BY <1>1, <1>2, <1>3, <1>4 DEF Sorts

-----------------------------------------------------------------------------
(* The invariant                                                           *)

Running == {"black", "route", "select", "chosen", "cut"}

(* What FirstSightDecides says of the entry a post was first seen as.      *)
Passed(first) == \/ first.source \notin TierThree
                 \/ first.url \in Whitelisted
                 \/ \E n \in first.votes : n >= Threshold[first.source]

(* A post seen is stored, or was in a run with a fault; an item of a run   *)
(* without fault is the entry its post was first seen as, and no other item*)
(* is of that post; the selector gets only those that pass.                *)
IntakeInv ==
    /\ IntakeTypeOK
    /\ stage \notin Running => items = {} /\ routed = {}
    /\ \A p \in Posts : firstSeen[p] # NotSeen => p \in stored \cup excused
    /\ \A k \in items : \/ rawItems[k].url \in excused
                         \/ rawItems[k] = firstSeen[rawItems[k].url]
    /\ \A j, k \in items : j # k =>
           rawItems[j].url # rawItems[k].url \/ rawItems[j].url \in excused
    /\ stage \in {"select", "chosen", "cut"} =>
           \A k \in items : rawItems[k].url \in excused \/ Passed(rawItems[k])
    /\ stage = "select" => routed = items
    /\ SelectionRight

(* The entries of a source are typed.                                      *)
LEMMA SetAsSequence ==
    ASSUME NEW S, IsFiniteSet(S)
    PROVE  SetToSeq(S) \in Seq(S)
<1>1. ExistsBijection(1..Cardinality(S), S) /\ Cardinality(S) \in Nat
  BY FS_CardinalityType
<1>2. PICK f \in Bijection(1..Cardinality(S), S) : TRUE
  BY <1>1 DEF ExistsBijection
<1>3. f \in [1..Cardinality(S) -> S] /\ IsInjective(f)
  BY <1>2 DEF Bijection, Injection, IsInjective
<1>4. SetToSeq(S) \in [1..Cardinality(S) -> S]
  BY <1>3 DEF SetToSeq
<1> QED
  BY <1>1, <1>4, SeqDef

LEMMA FetchedTyped ==
    ASSUME IntakeTypeOK, NEW s \in Sources
    PROVE  Fetched(s) \in Seq(Entries)
<1> DEFINE D == {l \in Listed : l[2] = s}
           E == {Entry(l) : l \in D}
           f == [l \in D |-> Entry(l)]
<1>1. IsFiniteSet(D)
  BY IntakeAssumption, FS_Subset
<1>2. f \in Surjection(D, E)
  BY DEF Surjection
<1>3. IsFiniteSet(E)
  BY <1>1, <1>2, FS_Surjection
<1>4. E \subseteq Entries
  <2> SUFFICES ASSUME NEW l \in Listed  PROVE  Entry(l) \in Entries
    OBVIOUS
  <2>1. l[1] \in Posts /\ l[2] \in Sources
    BY IntakeAssumption
  <2>2. points[l] \in {{}} \cup {{n} : n \in 0..MostPoints}
    BY DEF IntakeTypeOK
  <2> QED
    BY <2>1, <2>2 DEF Entry, Entries
<1>5. SetToSeq(E) \in Seq(E)
  BY <1>3, SetAsSequence
<1>6. SetToSeq(E) \in Seq(Entries)
  BY <1>4, <1>5, SeqMonotonic
<1> QED
  BY <1>6 DEF Fetched

(* The items of a run are finite.                                          *)
LEMMA ItemsFinite ==
    ASSUME IntakeTypeOK, NEW S \in SUBSET Positions
    PROVE  IsFiniteSet(S)
<1>1. Len(rawItems) \in Nat
  BY LenProperties DEF IntakeTypeOK
<1>2. IsFiniteSet(Positions)
  BY <1>1, FS_Interval DEF Positions
<1> QED
  BY <1>2, FS_Subset

LEMMA EntryTyped ==
    ASSUME IntakeTypeOK, NEW k \in Positions
    PROVE  /\ rawItems[k] \in Entries /\ rawItems[k].url \in Posts
           /\ rawItems[k].source \in Sources
<1>1. rawItems[k] \in Entries
  BY ElementOfSeq DEF IntakeTypeOK, Positions
<1> QED
  BY <1>1 DEF Entries

-----------------------------------------------------------------------------
(* One lemma per action.                                                   *)

LEMMA IntakeStarts == IntakeInit => IntakeInv
<1> SUFFICES ASSUME IntakeInit  PROVE  IntakeInv
  OBVIOUS
<1>1. <<>> \in Seq(Entries)
  BY EmptySeq
<1>2. points \in [Listed -> {{}} \cup {{n} : n \in 0..MostPoints}]
  <2>1. 0 \in 0..MostPoints
    BY IntakeAssumption
  <2> QED
    BY <2>1 DEF IntakeInit
<1>3. IntakeTypeOK
  BY <1>1, <1>2, IntakeAssumption DEF IntakeInit, IntakeTypeOK
<1> QED
  BY <1>3 DEF IntakeInit, IntakeInv, SelectionRight, Running

LEMMA VoteKeeps ==
    ASSUME IntakeInv, NEW l \in Listed, Vote(l)
    PROVE  IntakeInv'
<1>1. points' \in [Listed -> {{}} \cup {{n} : n \in 0..MostPoints}]
  <2>1. points[l] \in {{n} : n \in 0..MostPoints}
    BY DEF Vote, IntakeInv, IntakeTypeOK
  <2>2. PICK n \in 0..MostPoints : points[l] = {n}
    BY <2>1
  <2>3. Max({n}) = n
    BY GreatestIs
  <2>4. n + 1 \in 0..MostPoints
    BY <2>2, <2>3, IntakeAssumption DEF Vote
  <2>5. points' = [points EXCEPT ![l] = {n + 1}]
    BY <2>2, <2>3 DEF Vote
  <2> QED
    BY <2>4, <2>5 DEF IntakeInv, IntakeTypeOK
<1>2. IntakeTypeOK'
  BY <1>1 DEF Vote, IntakeInv, IntakeTypeOK, Positions
<1> QED
  BY <1>2 DEF Vote, IntakeInv, SelectionRight, Running, Passed

LEMMA StartIntakeKeeps ==
    ASSUME IntakeInv, StartIntake
    PROVE  IntakeInv'
<1>1. IntakeTypeOK'
  BY IntakeAssumption DEF StartIntake, KeywordSets, IntakeInv, IntakeTypeOK, Positions
<1> QED
  BY <1>1 DEF StartIntake, IntakeInv, SelectionRight, Running, Passed

LEMMA FetchKeeps ==
    ASSUME IntakeInv, NEW s \in Sources, CollectSource(s) \/ SkipSource(s)
    PROVE  IntakeInv'
<1>1. /\ stage = "collect" /\ stage' \in {"collect", "dedup"} /\ toCollect' \subseteq toCollect
      /\ UNCHANGED <<points, items, place, stored, whitelist, intakes, filterFaults,
                     routed, firstSeen, excused>>
  BY DEF CollectSource, SkipSource, FetchEnds
<1>2. rawItems' \in Seq(Entries)
  <2>1. Fetched(s) \in Seq(Entries) /\ rawItems \in Seq(Entries)
    BY FetchedTyped DEF IntakeInv, IntakeTypeOK
  <2>2. rawItems \o Fetched(s) \in Seq(Entries)
    BY <2>1, ConcatProperties
  <2> QED
    BY <2>1, <2>2 DEF CollectSource, SkipSource
<1>3. items = {} /\ routed = {}
  BY <1>1 DEF IntakeInv, Running
<1>4. IntakeTypeOK'
  BY <1>1, <1>2, <1>3 DEF IntakeInv, IntakeTypeOK
<1> QED
  BY <1>1, <1>3, <1>4 DEF IntakeInv, SelectionRight, Running, Passed

(* One of the entries of a post is the first.                              *)
LEMMA FirstIsMet ==
    ASSUME IntakeTypeOK, NEW p \in Urls(Positions)
    PROVE  \E k \in Positions : rawItems[k].url = p /\ IsFirst(k)
<1> DEFINE T == {k \in Positions : rawItems[k].url = p}
<1>1. T \subseteq Nat /\ T # {}
  BY DEF Urls, Positions
<1>2. PICK k \in T : \A j \in T : k <= j
  BY <1>1, LeastNat
<1>3. IsFirst(k)
  <2> SUFFICES ASSUME NEW j \in 1..(k - 1), rawItems[j].url = rawItems[k].url  PROVE  FALSE
    BY DEF IsFirst
  <2>1. Len(rawItems) \in Nat
    BY LenProperties DEF IntakeTypeOK
  <2>2. j \in Positions /\ j \in Nat /\ k \in Nat /\ j < k
    BY <2>1 DEF Positions
  <2>3. j \in T
    BY <2>2
  <2> QED
    BY <1>2, <2>2, <2>3
<1> QED
  BY <1>3

(* What Sight does: the posts of the list are seen, those seen before keep *)
(* their entry, a post seen now gets its first one.                        *)
LEMMA SightIs ==
    ASSUME IntakeTypeOK
    PROVE  /\ Sight \in [Posts -> Entries \cup {NotSeen}]
           /\ \A p \in Posts : firstSeen[p] # NotSeen => Sight[p] = firstSeen[p]
           /\ \A p \in Posts : p \notin Urls(Positions) => Sight[p] = firstSeen[p]
           /\ \A k \in Positions : IsFirst(k) /\ firstSeen[rawItems[k].url] = NotSeen =>
                 Sight[rawItems[k].url] = rawItems[k]
<1>1. \A k \in Positions : rawItems[k] \in Entries /\ rawItems[k].url \in Posts
  BY EntryTyped
<1>2. ASSUME NEW k \in Positions, NEW j \in Positions, IsFirst(j), IsFirst(k),
             rawItems[j].url = rawItems[k].url
      PROVE  j = k
  <2>1. j \in Nat /\ k \in Nat /\ j >= 1 /\ k >= 1
    BY DEF Positions
  <2>2. ~(j < k) /\ ~(k < j)
    <3>1. j < k => j \in 1..(k - 1)
      BY <2>1
    <3>2. k < j => k \in 1..(j - 1)
      BY <2>1
    <3> QED
      BY <1>2, <3>1, <3>2 DEF IsFirst
  <2> QED
    BY <2>1, <2>2
<1>3. \A p \in Urls(Positions) : \E k \in Positions : rawItems[k].url = p /\ IsFirst(k)
  BY FirstIsMet
<1>4. ASSUME NEW p \in Urls(Positions)
      PROVE  \E k \in Positions : /\ rawItems[k].url = p /\ IsFirst(k)
                                   /\ FirstEntry(p) = rawItems[k]
  <2> DEFINE c == CHOOSE k \in Positions : rawItems[k].url = p /\ IsFirst(k)
  <2>1. c \in Positions /\ rawItems[c].url = p /\ IsFirst(c)
    BY <1>3
  <2>2. FirstEntry(p) = rawItems[c]
    BY DEF FirstEntry
  <2> HIDE DEF c
  <2> QED
    BY <2>1, <2>2
<1>5. Sight \in [Posts -> Entries \cup {NotSeen}]
  <2>1. \A p \in Urls(Positions) : FirstEntry(p) \in Entries
    BY <1>1, <1>4
  <2> QED
    BY <2>1 DEF Sight, IntakeTypeOK
<1>6. \A k \in Positions : IsFirst(k) /\ firstSeen[rawItems[k].url] = NotSeen =>
                 Sight[rawItems[k].url] = rawItems[k]
  <2> SUFFICES ASSUME NEW k \in Positions, IsFirst(k), firstSeen[rawItems[k].url] = NotSeen
               PROVE  Sight[rawItems[k].url] = rawItems[k]
    OBVIOUS
  <2>1. rawItems[k].url \in Urls(Positions) /\ rawItems[k].url \in Posts
    BY <1>1 DEF Urls
  <2>2. FirstEntry(rawItems[k].url) = rawItems[k]
    BY <1>2, <1>4, <2>1
  <2> QED
    BY <2>1, <2>2 DEF Sight
<1> QED
  BY <1>5, <1>6 DEF Sight

LEMMA DeduplicateKeeps ==
    ASSUME IntakeInv, Deduplicate
    PROVE  IntakeInv'
<1>1. /\ stage = "dedup" /\ stage' = "black" /\ rawItems' = rawItems
      /\ items' = {k \in Positions : New(k)} /\ stored' = stored \cup Urls(items')
      /\ firstSeen' = Sight /\ routed' = routed /\ excused' = excused
      /\ UNCHANGED <<points, toCollect, place, whitelist, intakes, filterFaults>>
      /\ Urls(items') = {rawItems[k].url : k \in items'}
  BY DEF Deduplicate, StoredAtOnce, Urls
<1>2. IntakeTypeOK /\ routed = {}
  BY <1>1 DEF IntakeInv, Running
<1>3. items' \subseteq Positions /\ Positions' = Positions
  BY <1>1 DEF Positions
<1>4. Urls(items') \subseteq Posts
  BY <1>1, <1>2, <1>3, EntryTyped
<1>5. IntakeTypeOK'
  BY <1>1, <1>2, <1>3, <1>4, SightIs DEF IntakeTypeOK
<1>6. ASSUME NEW p \in Posts, Sight[p] # NotSeen
      PROVE  p \in stored' \cup excused
  <2>1. CASE firstSeen[p] # NotSeen
    BY <1>1, <2>1 DEF IntakeInv
  <2>2. CASE firstSeen[p] = NotSeen
    <3>1. p \in Urls(Positions)
      BY <1>2, <1>6, <2>2, SightIs
    <3>2. p \in stored \/ \E k \in Positions : rawItems[k].url = p /\ New(k)
      BY <1>2, <3>1, FirstIsMet DEF New
    <3> QED
      BY <1>1, <3>2
  <2> QED
    BY <2>1, <2>2
<1>7. ASSUME NEW k \in items', rawItems[k].url \notin excused
      PROVE  rawItems[k] = Sight[rawItems[k].url]
  <2>1. k \in Positions /\ IsFirst(k) /\ rawItems[k].url \notin stored /\ rawItems[k].url \in Posts
    BY <1>1, <1>2, EntryTyped DEF New
  <2>2. firstSeen[rawItems[k].url] = NotSeen
    BY <1>7, <2>1 DEF IntakeInv
  <2> QED
    BY <1>2, <2>1, <2>2, SightIs
<1>8. ASSUME NEW j \in items', NEW k \in items', j # k
      PROVE  rawItems[j].url # rawItems[k].url
  <2>1. j \in Nat /\ k \in Nat /\ j >= 1 /\ k >= 1 /\ IsFirst(j) /\ IsFirst(k)
    BY <1>1 DEF New, Positions
  <2>2. j \in 1..(k - 1) \/ k \in 1..(j - 1)
    BY <1>8, <2>1
  <2> QED
    BY <2>1, <2>2 DEF IsFirst
<1> QED
  BY <1>1, <1>2, <1>5, <1>6, <1>7, <1>8 DEF IntakeInv, SelectionRight, Running

LEMMA DeduplicateFailsKeeps ==
    ASSUME IntakeInv, DeduplicateFails
    PROVE  IntakeInv'
<1>1. /\ stage = "dedup" /\ stage' = "black" /\ rawItems' = rawItems
      /\ items' = Positions /\ excused' = excused \cup Urls(Positions)
      /\ firstSeen' = Sight /\ routed' = routed
      /\ filterFaults < MaxFilterFaults /\ filterFaults' = filterFaults + 1
      /\ UNCHANGED <<points, toCollect, place, whitelist, intakes>>
  BY DEF DeduplicateFails
<1>2. IntakeTypeOK /\ routed = {}
  BY <1>1 DEF IntakeInv, Running
<1>3. Positions' = Positions
  BY <1>1 DEF Positions
<1>4. Urls(Positions) \subseteq Posts
  BY <1>2, EntryTyped DEF Urls
<1>5. PICK n \in Positions : stored' = stored \cup Urls(1..(n - 1))
  BY DEF DeduplicateFails
<1>6. Urls(1..(n - 1)) \subseteq Urls(Positions)
  <2>1. Len(rawItems) \in Nat
    BY <1>2, LenProperties DEF IntakeTypeOK
  <2>2. 1..(n - 1) \subseteq Positions
    BY <2>1 DEF Positions
  <2> QED
    BY <2>2 DEF Urls
<1>7. filterFaults' \in 0..MaxFilterFaults
  BY <1>1, <1>2, IntakeAssumption DEF IntakeTypeOK
<1>8. IntakeTypeOK'
  BY <1>1, <1>2, <1>3, <1>4, <1>5, <1>6, <1>7, SightIs DEF IntakeTypeOK
<1>9. \A p \in Posts : Sight[p] # NotSeen => p \in stored' \cup excused'
  BY <1>1, <1>2, <1>5, SightIs DEF IntakeInv
<1>10. \A k \in Positions : rawItems[k].url \in excused'
  BY <1>1 DEF Urls
<1> QED
  BY <1>1, <1>2, <1>8, <1>9, <1>10 DEF IntakeInv, SelectionRight, Running

LEMMA ApplyBlacklistKeeps ==
    ASSUME IntakeInv, ApplyBlacklist
    PROVE  IntakeInv'
<1>1. IntakeTypeOK'
  BY DEF ApplyBlacklist, IntakeInv, IntakeTypeOK, Positions
<1> QED
  BY <1>1 DEF ApplyBlacklist, IntakeInv, SelectionRight, Running

LEMMA RouteTiersKeeps ==
    ASSUME IntakeInv, RouteTiers
    PROVE  IntakeInv'
<1>1. IntakeTypeOK'
  BY DEF RouteTiers, IntakeInv, IntakeTypeOK, Positions
<1>2. \A k \in items' : Passed(rawItems[k])
  <2> SUFFICES ASSUME NEW k \in items'  PROVE  Passed(rawItems[k])
    OBVIOUS
  <2>1. rawItems[k].source \in TierThree => PassesTierThree(rawItems[k])
    BY DEF RouteTiers
  <2>2. whitelist \subseteq Whitelisted
    BY DEF IntakeInv, IntakeTypeOK
  <2> QED
    BY <2>1, <2>2 DEF Passed, PassesTierThree, Matches
<1> QED
  BY <1>1, <1>2 DEF RouteTiers, IntakeInv, SelectionRight, Running, Passed

LEMMA IntakeEndsKeeps ==
    ASSUME IntakeInv, IntakeEnds
    PROVE  IntakeInv'
<1>1. <<>> \in Seq(Entries)
  BY EmptySeq
<1>2. IntakeTypeOK'
  BY <1>1 DEF IntakeEnds, IntakeInv, IntakeTypeOK
<1> QED
  BY <1>2 DEF IntakeEnds, IntakeInv, SelectionRight, Running

(* What SelectItems selects is what SelectionRight says.                   *)
LEMMA SelectItemsKeeps ==
    ASSUME IntakeInv, SelectItems
    PROVE  IntakeInv'
<1> DEFINE priority == {k \in items : Tier(k) # 3}
           taken    == Cardinality(priority)
           third    == items \ priority
           filling     == FirstOf(third, ByVotes, MaxSelected - taken)
           new      == items'
<1>1. /\ stage = "select" /\ stage' = "chosen" /\ rawItems' = rawItems
      /\ place' = [k \in new |-> Place(new, ByTier, k)]
      /\ routed' = routed /\ excused' = excused /\ firstSeen' = firstSeen /\ stored' = stored
      /\ UNCHANGED <<points, toCollect, whitelist, intakes, filterFaults>>
  BY DEF SelectItems
<1>2. new = IF taken >= MaxSelected THEN priority ELSE priority \cup filling
  BY DEF SelectItems, PlacesLeft
<1>3. IntakeTypeOK /\ items \subseteq Positions /\ rawItems \in Seq(Entries) /\ routed = items
  BY <1>1 DEF IntakeInv, IntakeTypeOK
<1>4. /\ IsFiniteSet(items) /\ IsFiniteSet(priority) /\ IsFiniteSet(third)
      /\ taken \in Nat /\ MaxSelected \in Nat /\ MostPoints \in Nat
  BY <1>3, ItemsFinite, FS_Subset, FS_CardinalityType, IntakeAssumption
<1>5. Sorts(ByVotes, third) /\ \A j, k \in third : <<j, k>> \in ByVotes => VotesOf(j) >= VotesOf(k)
  BY <1>3, <1>4, VotesSort
<1>6. \A k \in items : Tier(k) \in 1..3 /\ VotesOf(k) \in Nat
  BY <1>3, <1>4, VotesAreNat DEF Tier
<1>7. \A k \in third : Tier(k) = 3
  OBVIOUS
<1>8. ASSUME ~(taken >= MaxSelected)
      PROVE  /\ filling \subseteq third /\ IsFiniteSet(filling)
             /\ Cardinality(filling) \in Nat /\ Cardinality(filling) <= MaxSelected - taken
             /\ filling # third => Cardinality(filling) >= MaxSelected - taken
             /\ \A j \in filling, k \in third \ filling : <<j, k>> \in ByVotes
  <2> DEFINE n == MaxSelected - taken
  <2> HIDE DEF priority, taken, third
  <2>1. n \in Nat
    BY <1>4, <1>8
  <2> HIDE DEF n
  <2>2. LET F == FirstOf(third, ByVotes, n) IN
           /\ F \subseteq third /\ IsFiniteSet(F)
           /\ Cardinality(F) \in Nat /\ Cardinality(F) <= n
           /\ F # third => Cardinality(F) >= n
           /\ \A x \in F, y \in third \ F : <<x, y>> \in ByVotes
    BY <1>4, <1>5, <2>1, FirstAreFirst
  <2> QED
    BY <2>2 DEF n
<1> HIDE DEF filling
<1>9. ASSUME ~(taken >= MaxSelected)
       PROVE  Cardinality(priority \cup filling) = taken + Cardinality(filling)
  <2>1. priority \cap filling = {}
    BY <1>8, <1>9
  <2> HIDE DEF priority, third
  <2>2. Cardinality(priority \cup filling) = taken + Cardinality(filling) - Cardinality(priority \cap filling)
    BY <1>4, <1>8, <1>9, FS_Union
  <2>3. Cardinality(priority \cap filling) = 0
    BY <2>1, FS_EmptySet
  <2> HIDE DEF taken
  <2> QED
    BY <1>4, <1>8, <1>9, <2>2, <2>3
<1>10. priority \subseteq new /\ new \subseteq items
  BY <1>2, <1>8
<1>11. new = priority \/ Cardinality(new) <= MaxSelected
  <2>1. CASE taken >= MaxSelected
    BY <1>2, <2>1
  <2>2. CASE ~(taken >= MaxSelected)
    <3> HIDE DEF taken, priority
    <3> QED
      BY <1>2, <1>4, <1>8, <1>9, <2>2
  <2> QED
    BY <2>1, <2>2
<1>12. items \ new # {} => Cardinality(new) >= MaxSelected
  <2>1. CASE taken >= MaxSelected
    BY <1>2, <2>1
  <2>2. CASE ~(taken >= MaxSelected) /\ items \ new # {}
    <3>1. filling # third
      BY <1>2, <1>8, <2>2
    <3> HIDE DEF taken, priority, third
    <3> QED
      BY <1>2, <1>4, <1>8, <1>9, <2>2, <3>1
  <2> QED
    BY <2>1, <2>2
<1>13. ASSUME NEW d \in items \ new, NEW k \in new, Tier(k) = 3
       PROVE  VotesOf(d) <= VotesOf(k)
  <2>1. ~(taken >= MaxSelected) /\ k \in filling /\ d \in third \ filling
    BY <1>2, <1>13
  <2>2. <<k, d>> \in ByVotes /\ k \in third
    BY <1>8, <2>1
  <2> QED
    BY <1>5, <1>6, <2>1, <2>2
<1>14. IsFiniteSet(new) /\ new \in SUBSET Positions
  BY <1>3, <1>4, <1>10, FS_Subset
<1>15. /\ Sorts(ByTier, new)
       /\ \A j, k \in new : <<j, k>> \in ByTier =>
             Tier(j) <= Tier(k) /\ (Tier(j) = 3 => VotesOf(j) >= VotesOf(k))
  BY <1>3, <1>4, <1>14, TierSorts
<1>16. place' \in [new -> Nat]
  BY <1>1, <1>14, PlaceIsNat
<1>17. ASSUME NEW j \in new, NEW k \in new
       PROVE  /\ place'[j] < place'[k] => <<j, k>> \in ByTier
              /\ j # k => place'[j] # place'[k]
  <2> HIDE DEF new
  <2>1. place'[j] = Place(new, ByTier, j) /\ place'[k] = Place(new, ByTier, k)
    BY <1>1, <1>17
  <2> QED
    BY <1>14, <1>15, <1>17, <2>1, PlaceTells
<1>18. IntakeTypeOK'
  BY <1>1, <1>3, <1>14, <1>16 DEF IntakeTypeOK, Positions
<1>19. \A k : Tier(k)' = Tier(k) /\ VotesOf(k)' = VotesOf(k)
  BY <1>1 DEF Tier, VotesOf
<1>20. \A j, k \in new : j # k =>
           rawItems[j].url # rawItems[k].url \/ rawItems[j].url \in excused
  BY <1>10 DEF IntakeInv
<1>21. SelectionRight'
  <2> HIDE DEF new
  <2>1. {k \in items : Tier(k) # 3} = priority
    OBVIOUS
  <2>2. new = priority \/ Cardinality(new) <= MaxSelected
    BY <1>11
  <2>3. \A d \in items \ new : Tier(d) = 3
    BY <1>10
  <2>4. \A j, k \in new : place'[j] < place'[k] =>
            Tier(j) <= Tier(k) /\ (Tier(j) = 3 => VotesOf(j) >= VotesOf(k))
    BY <1>15, <1>17
  <2> HIDE DEF priority
  <2>5. items' = new
    BY DEF new
  <2> QED
    BY <1>1, <1>3, <1>10, <1>12, <1>13, <1>17, <1>19, <1>20, <2>1, <2>2, <2>3, <2>4, <2>5
       DEF SelectionRight
<1>22. \A k \in new : /\ \/ rawItems[k].url \in excused
                         \/ rawItems[k] = firstSeen[rawItems[k].url]
                      /\ rawItems[k].url \in excused \/ Passed(rawItems[k])
  BY <1>1, <1>10 DEF IntakeInv
<1> QED
  BY <1>1, <1>18, <1>20, <1>21, <1>22 DEF IntakeInv, Running

LEMMA FilterFailsKeeps ==
    ASSUME IntakeInv, FilterFails
    PROVE  IntakeInv'
<1>1. /\ rawItems' = rawItems /\ excused' = excused \cup Urls(items)
      /\ UNCHANGED <<points, toCollect, stored, whitelist, intakes, firstSeen>>
      /\ filterFaults < MaxFilterFaults /\ filterFaults' = filterFaults + 1
  BY DEF FilterFails
<1>2. /\ IntakeTypeOK /\ items \subseteq Positions /\ Positions' = Positions
      /\ MaxFilterFaults \in Nat
  BY <1>1, IntakeAssumption DEF IntakeInv, IntakeTypeOK, Positions
<1>3. filterFaults' \in 0..MaxFilterFaults
  BY <1>1, <1>2 DEF IntakeTypeOK
<1>4. Urls(items) \subseteq Posts
  BY <1>2, EntryTyped DEF Urls
<1>5. \A k \in items : rawItems[k].url \in excused'
  BY <1>1 DEF Urls
<1>6. /\ stage' \in {"route", "select", "cut"} /\ items' \subseteq items
      /\ routed' \subseteq Positions
      /\ stage' = "select" => routed' = items'
      /\ stage' = "cut" => place' \in [items' -> Nat]
  <2>1. CASE stage = "black"
    BY <1>2, <2>1 DEF FilterFails, IntakeTypeOK
  <2>2. CASE stage = "route"
    BY <1>2, <2>2 DEF FilterFails, IntakeTypeOK
  <2>3. CASE stage = "select"
    <3>1. /\ stage' = "cut" /\ items' = FirstOf(items, ByList, MaxSelected)
          /\ place' = [k \in items' |-> Place(items', ByList, k)] /\ routed' = routed
      BY <2>3 DEF FilterFails
    <3>2. items' \subseteq items
      BY <3>1 DEF FirstOf
    <3>3. IsFiniteSet(items')
      BY <1>2, <3>2, ItemsFinite
    <3> QED
      BY <1>2, <3>1, <3>2, <3>3, PlaceIsNat DEF IntakeTypeOK
  <2> QED
    BY <2>1, <2>2, <2>3 DEF FilterFails
<1>7. IntakeTypeOK'
  BY <1>1, <1>2, <1>3, <1>4, <1>6 DEF IntakeTypeOK
<1> QED
  BY <1>1, <1>5, <1>6, <1>7 DEF IntakeInv, SelectionRight, Running

(* IntakeInv holds of every state: the selection of a run.                 *)
THEOREM IntakeInvariant == IntakeSpec => []IntakeInv
<1>1. ASSUME IntakeInv, [IntakeNext]_intakeVars  PROVE  IntakeInv'
  <2>1. CASE UNCHANGED intakeVars
    <3>1. IntakeTypeOK'
      BY <1>1, <2>1 DEF intakeVars, IntakeInv, IntakeTypeOK, Positions
    <3>2. SelectionRight'
      BY <1>1, <2>1 DEF intakeVars, IntakeInv, SelectionRight, Tier, VotesOf
    <3> QED
      BY <1>1, <2>1, <3>1, <3>2 DEF intakeVars, IntakeInv
  <2> QED
    BY <1>1, <2>1, VoteKeeps, StartIntakeKeeps, FetchKeeps, DeduplicateKeeps,
       DeduplicateFailsKeeps, ApplyBlacklistKeeps, RouteTiersKeeps, SelectItemsKeeps,
       FilterFailsKeeps, IntakeEndsKeeps DEF IntakeNext
<1> QED
  BY <1>1, IntakeStarts, PTL DEF IntakeSpec

(* The variables of a run's intake keep their types, for any posts and     *)
(* listings.                                                               *)
THEOREM IntakeTypeCorrect == IntakeSpec => []IntakeTypeOK
<1>1. IntakeInv => IntakeTypeOK
  BY DEF IntakeInv
<1> QED
  BY <1>1, IntakeInvariant, PTL

(* The selector keeps the first two tiers, fills up with the best of the   *)
(* third, and sorts, for any entries, votes and limit.                     *)
THEOREM SelectionIsRight == IntakeSpec => []SelectionRight
<1>1. IntakeInv => SelectionRight
  BY DEF IntakeInv
<1> QED
  BY <1>1, IntakeInvariant, PTL

(* A selected item of runs without fault is the entry its post was first   *)
(* seen as, and passed then.                                               *)
THEOREM FirstSightIsFinal == IntakeSpec => []FirstSightDecides
<1>1. IntakeInv => FirstSightDecides
  BY DEF IntakeInv, FirstSightDecides, Running, Passed
<1> QED
  BY <1>1, IntakeInvariant, PTL

-----------------------------------------------------------------------------
(* Schedule                                                                *)

(* Nothing has been recorded, and every row has its one column.            *)
ScheduleInv ==
    /\ now \in Nat
    /\ runHistory \subseteq {RunRow(t) : t \in 0..now}
    /\ missedLog = {}

(* There is a latest row once there is one, and it has no run_at.          *)
LEMMA NoneDetected ==
    ASSUME ScheduleInv
    PROVE  Detected = {}
<1> SUFFICES ASSUME runHistory # {} PROVE "run_at" \notin DOMAIN LatestRun
  BY DEF Detected
<1> DEFINE Since == {now - r.started_at : r \in runHistory}
<1>1. \A r \in runHistory : r.started_at \in 0..now
  BY DEF ScheduleInv, RunRow
<1>2. \A t \in 0..now : now - t \in Nat
  BY DEF ScheduleInv
<1>3. Since \subseteq Nat /\ Since # {}
  BY <1>1, <1>2
<1>4. PICK n \in Since : \A k \in Since : n <= k
  BY <1>3, LeastNat
<1>5. PICK r \in runHistory : n = now - r.started_at
  BY <1>4
<1>6. \A q \in runHistory : q.started_at <= r.started_at
  <2> TAKE q \in runHistory
  <2>1. now - r.started_at <= now - q.started_at
    BY <1>4, <1>5
  <2>2. now \in Nat /\ r.started_at \in 0..now /\ q.started_at \in 0..now
    BY <1>1 DEF ScheduleInv
  <2> QED
    BY <2>1, <2>2
<1>7. LatestRun \in runHistory
  BY <1>6 DEF LatestRun
<1>8. PICK t : LatestRun = RunRow(t)
  BY <1>7 DEF ScheduleInv
<1> QED
  BY <1>8 DEF RunRow

(* However the hours pass and whatever runs, no missed hour is ever        *)
(* recorded, and --catchup starts no run: detect_missed asks the latest row*)
(* of run_history for a column it does not have.                           *)
THEOREM NothingIsCaughtUp ==
    ASSUME FirstHour \in Nat
    PROVE  ScheduleSpec => /\ [](missedLog = {})
                           /\ [][runHistory' # runHistory => ScheduledRun]_scheduleVars
<1> DEFINE NoRunOfCatchup == runHistory' # runHistory => ScheduledRun
<1>1. ScheduleInit => ScheduleInv
  BY DEF ScheduleInit, ScheduleInv
<1>2. ScheduleInv /\ [ScheduleNext]_scheduleVars => ScheduleInv' /\ [NoRunOfCatchup]_scheduleVars
  <2> SUFFICES ASSUME ScheduleInv, [ScheduleNext]_scheduleVars
               PROVE  ScheduleInv' /\ [NoRunOfCatchup]_scheduleVars
    OBVIOUS
  <2>1. \A t \in 0..now : t \in 0..(now + 1)
    BY DEF ScheduleInv
  <2>2. CASE HourPasses
    <3>1. runHistory' = runHistory /\ missedLog' = missedLog /\ now' = now + 1
      BY <2>2 DEF HourPasses
    <3>2. runHistory' \subseteq {RunRow(t) : t \in 0..now'}
      BY <2>1, <3>1 DEF ScheduleInv
    <3> QED
      BY <3>1, <3>2 DEF ScheduleInv
  <2>3. CASE ScheduledRun
    <3>1. missedLog' = {} /\ now' = now /\ runHistory' = runHistory \cup {RunRow(now)}
      BY <2>3, NoneDetected DEF ScheduledRun, Logged, ScheduleInv
    <3> QED
      BY <2>3, <3>1 DEF ScheduleInv
  <2>4. CASE SleepThrough
    BY <2>4 DEF SleepThrough, ScheduleInv
  <2>5. CASE Catchup
    BY <2>5, NoneDetected DEF Catchup, Logged, ScheduleInv
  <2>6. CASE UNCHANGED scheduleVars
    BY <2>6 DEF scheduleVars, ScheduleInv
  <2> QED
    BY <2>2, <2>3, <2>4, <2>5, <2>6 DEF ScheduleNext
<1>3. ScheduleInv => missedLog = {}
  BY DEF ScheduleInv
<1> QED
  BY <1>1, <1>2, <1>3, PTL DEF ScheduleSpec
=============================================================================
