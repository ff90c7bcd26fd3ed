-------------------------- MODULE ThresholdSearch --------------------------
(***************************************************************************)
(* suggest_thresholds: for each source the least number of votes at which  *)
(* no more than a target share of its items would pass, by binary search.  *)
(*                                                                         *)
(* The distribution of a source (rows of votes and item counts) is modelled*)
(* by its items and their votes.  passed / total is compared as an exact   *)
(* fraction: the division is correctly rounded, and only totals beyond     *)
(* 2^50 could round a greater rate down to the target.                     *)
(***************************************************************************)
EXTENDS Naturals, FiniteSets

CONSTANTS
    RatedSources,   \* the sources of get_pass_rate_by_source
    Articles,       \* the items a source can have
    MaxUpvotes,     \* _MAX_UPVOTES
    MostVotes,      \* bound: votes of an item
    RateNum,        \* target_rate as a fraction
    RateDen

ASSUME ThresholdAssumption ==
    /\ IsFiniteSet(Articles)
    /\ MaxUpvotes \in Nat /\ MostVotes \in Nat /\ RateNum \in Nat /\ RateDen \in Nat \ {0}

VARIABLES
    searchPc,     \* "next", "search" or "done"
    unrated,      \* sources the loop has not reached
    source,       \* the source at hand
    present,      \* its items
    voted,        \* those whose votes are not NULL
    votes,        \* their votes
    lo, hi, best, \* of _binary_search_threshold
    suggested     \* <<source, threshold>> pairs of suggestions

searchVars == <<searchPc, unrated, source, present, voted, votes, lo, hi, best, suggested>>

SearchInit ==
    /\ searchPc = "next"
    /\ unrated = RatedSources
    /\ source \in RatedSources
    /\ present = {} /\ voted = {} /\ votes = [a \in Articles |-> 0]
    /\ lo = 0 /\ hi = 0 /\ best = 0
    /\ suggested = {}

-----------------------------------------------------------------------------

(* The items whose votes reach a threshold.                                *)
Passing(t) == {a \in voted : votes[a] >= t}

(* rate <= target_rate.                                                    *)
WithinRate(t) == Cardinality(Passing(t)) * RateDen <= RateNum * Cardinality(present)

(* get_upvote_distribution of the next source, and the start of the search.*)
NextSource(s) ==
    /\ searchPc = "next"
    /\ s \in unrated
    /\ source' = s
    /\ unrated' = unrated \ {s}
    /\ present' \in SUBSET Articles
    /\ voted' \in SUBSET present'
    /\ votes' \in [Articles -> 0..MostVotes]
    /\ \A a \in Articles \ voted' : votes'[a] = 0
    /\ lo' = 0
    /\ hi' = MaxUpvotes
    /\ best' = 0
    /\ searchPc' = "search"
    /\ UNCHANGED suggested

Middle == (lo + hi) \div 2

(* hi = mid - 1, lo = mid + 1; variant: mid itself is tried again below.   *)
OneTooFar == Middle + 2
JustAbove == Middle + 1

(* The loop stops for a total of 0 before it begins: the answer is 0, as   *)
(* it is when the search goes on.                                          *)
Probe ==
    /\ searchPc = "search"
    /\ lo <= hi
    /\ IF WithinRate(Middle)
       THEN /\ best' = Middle
            /\ hi' = Middle - 1
            /\ UNCHANGED lo
       ELSE /\ lo' = JustAbove
            /\ UNCHANGED <<best, hi>>
    /\ UNCHANGED <<searchPc, unrated, source, present, voted, votes, suggested>>

(* The suggestion for the source.                                          *)
Suggest ==
    /\ searchPc = "search"
    /\ lo > hi
    /\ suggested' = suggested \cup {<<source, best>>}
    /\ searchPc' = IF unrated = {} THEN "done" ELSE "next"
    /\ UNCHANGED <<unrated, source, present, voted, votes, lo, hi, best>>

(* A query raises: an empty list, also when other sources had a suggestion.*)
SuggestRaises ==
    /\ searchPc = "next"
    /\ suggested' = {}
    /\ searchPc' = "done"
    /\ UNCHANGED <<unrated, source, present, voted, votes, lo, hi, best>>

SearchNext == (\E s \in RatedSources : NextSource(s)) \/ Probe \/ Suggest \/ SuggestRaises

SearchSpec == SearchInit /\ [][SearchNext]_searchVars

-----------------------------------------------------------------------------
(* Properties                                                              *)

(* Every variable has its type.                                            *)
SearchTypeOK ==
    /\ searchPc \in {"next", "search", "done"}
    /\ unrated \subseteq RatedSources
    /\ source \in RatedSources
    /\ present \subseteq Articles
    /\ voted \subseteq present
    /\ votes \in [Articles -> Nat]
    /\ lo \in 0..(MaxUpvotes + 1)
    /\ hi + 1 \in 0..(MaxUpvotes + 1)
    /\ best \in 0..MaxUpvotes
    /\ suggested \subseteq RatedSources \X (0..MaxUpvotes)

(* What a threshold must satisfy: the rate does not exceed the target.     *)
Fits(t) == Cardinality({a \in voted : votes[a] >= t}) * RateDen
             <= RateNum * Cardinality(present)

(* When some threshold of the range fits, the search ends at the least one:*)
(* the rate never grows with the threshold, whatever the votes, NULL ones  *)
(* among them.  When none fits nothing is claimed (the answer is then 0,   *)
(* at which every item with votes passes).                                 *)
SmallestFitting ==
    searchPc = "search" /\ lo > hi =>
        \A t \in 0..MaxUpvotes : Fits(t) => Fits(best) /\ best <= t
=============================================================================
