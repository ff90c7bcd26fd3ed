------------------------------- MODULE Intake -------------------------------
(***************************************************************************)
(* From the sources to the selection of one run, over several runs: the    *)
(* fetchers, the deduplication, which stores an item when it is first      *)
(* seen, the three filters, and the votes that go on meanwhile.            *)
(*                                                                         *)
(* No code reads the quotas of the tiers, nor hn_young_min_points: only the*)
(* last two properties, claims of the documents, name them.                *)
(*                                                                         *)
(* One source stands for those of its kind; a post may be listed by more   *)
(* than one source.  The tables of tiers in tier_router and                *)
(* priority_selector agree on the default sources; a custom source has an  *)
(* id only if it is written by hand, and is left out.  Retention, which    *)
(* lets a post be seen for the first time again, is left out too.          *)
(*                                                                         *)
(* The items of a run are positions in the list of collected entries; the  *)
(* filters keep the order of that list, the selector makes a new one.      *)
(***************************************************************************)
EXTENDS Naturals, Sequences, FiniteSets, SequencesExt, FiniteSetsExt

CONSTANTS
    Posts,             \* urls
    Listed,            \* <<post, source>>: the sources that list a post
    Threshold,         \* source -> tier3_hn_threshold, tier3_reddit_threshold
    MaxSelected,       \* _MAX_ITEMS
    Blacklisted,       \* posts with a word of blacklist_keywords
    Whitelisted,       \* posts with a word of whitelist_keywords
    Quota,             \* tier -> tier1_quota, tier2_quota, tier3_quota
    YoungPosts,        \* posts less than two hours old when they are first read
    YoungPoints,       \* hn_young_min_points
    MostPoints,        \* bound: votes of a post
    MaxIntakes,        \* bound: runs
    MaxFilterFaults    \* bound: exceptions

TierOne   == {"lab"}
TierTwo   == {"geeknews"}
TierThree == {"hackernews", "reddit"}
Sources   == TierOne \cup TierTwo \cup TierThree

(* The feeds (RSS, Atom) whose entries have no votes.                      *)
Unvoted == TierOne \cup TierTwo

ASSUME IntakeAssumption ==
    /\ Listed \subseteq Posts \X Sources
    /\ Threshold \in [TierThree -> Nat]
    /\ IsFiniteSet(Listed)
    /\ MaxSelected \in Nat /\ MostPoints \in Nat
    /\ MaxIntakes \in Nat /\ MaxFilterFaults \in Nat

ASSUME ClaimAssumption ==
    Quota \in [1..3 -> Nat] /\ YoungPosts \subseteq Posts /\ YoungPoints \in Nat

VARIABLES
    stage,      \* "idle", "collect", "dedup", "black", "route", "select",
                \* "chosen" or, by the selector's except clause, "cut"
    points,     \* votes of each listing: {} is None
    toCollect,  \* sources whose fetch has not ended
    rawItems,   \* the entries collected
    items,      \* the items of the run: positions in rawItems
    place,      \* the place of each item in the selection
    stored,     \* posts with a row in processed_items
    whitelist,  \* the posts that match the keywords of this run
    intakes,    \* runs so far
    filterFaults,
    routed,     \* history: the items the selector got
    firstSeen,  \* history: the entry a post was first seen as
    excused     \* history: posts of a run with a fault

intakeVars == <<stage, points, toCollect, rawItems, items, place, stored, whitelist,
                intakes, filterFaults, routed, firstSeen, excused>>

NotSeen == [url |-> "none", source |-> "none", votes |-> {}]

(* Reddit's score is a number; Algolia may answer without points.          *)
IntakeInit ==
    /\ stage = "idle"
    /\ points \in [Listed -> {{}, {0}}]
    /\ \A l \in Listed : /\ l[2] \in Unvoted => points[l] = {}
                         /\ l[2] = "reddit" => points[l] = {0}
    /\ toCollect = {} /\ rawItems = <<>> /\ items = {} /\ place = <<>>
    /\ stored = {} /\ whitelist = {}
    /\ intakes = 0 /\ filterFaults = 0
    /\ routed = {} /\ firstSeen = [p \in Posts |-> NotSeen] /\ excused = {}

-----------------------------------------------------------------------------
(* Collecting                                                              *)

(* A reader votes.  Votes during a run are those between two runs: a run   *)
(* reads each listing once.  (Votes after the last run change nothing.)    *)
Vote(l) ==
    /\ stage = "idle" /\ intakes < MaxIntakes
    /\ points[l] # {}
    /\ Max(points[l]) < MostPoints
    /\ points' = [points EXCEPT ![l] = {Max(@) + 1}]
    /\ UNCHANGED <<stage, toCollect, rawItems, items, place, stored, whitelist,
                   intakes, filterFaults, routed, firstSeen, excused>>

(* get_keywords_set, by the posts that match, or none when it raises.      *)
KeywordSets == {Whitelisted, {}}

(* Pipeline.__init__ loads the whitelist, or goes on without.              *)
StartIntake ==
    /\ stage = "idle"
    /\ intakes < MaxIntakes
    /\ intakes' = intakes + 1
    /\ whitelist' \in KeywordSets
    /\ toCollect' = Sources
    /\ stage' = "collect"
    /\ UNCHANGED <<points, rawItems, items, place, stored, filterFaults, routed,
                   firstSeen, excused>>

Entry(l) == [url |-> l[1], source |-> l[2], votes |-> points[l]]

Fetched(s) == SetToSeq({Entry(l) : l \in {k \in Listed : k[2] = s}})

(* The fetch of a source ends: its entries follow those of the sources     *)
(* that ended before.                                                      *)
FetchEnds(s) ==
    /\ stage = "collect"
    /\ s \in toCollect
    /\ toCollect' = toCollect \ {s}
    /\ stage' = IF toCollect' = {} THEN "dedup" ELSE "collect"
    /\ UNCHANGED <<points, items, place, stored, whitelist, intakes, filterFaults,
                   routed, firstSeen, excused>>

CollectSource(s) == FetchEnds(s) /\ rawItems' = rawItems \o Fetched(s)

(* A source is off, or fails.                                              *)
SkipSource(s) == FetchEnds(s) /\ UNCHANGED rawItems

-----------------------------------------------------------------------------
(* Deduplication                                                           *)

Positions == 1..Len(rawItems)
Urls(S)   == {rawItems[k].url : k \in S}

(* Of the entries of a post, the one met first.                            *)
IsFirst(k) == \A j \in 1..(k - 1) : rawItems[j].url # rawItems[k].url
New(k)     == rawItems[k].url \notin stored /\ IsFirst(k)

(* The rows are stored here, before the filters; variant: not here.        *)
StoredLater(new)  == stored
StoredAtOnce(new) == stored \cup Urls(new)

FirstEntry(p) == rawItems[CHOOSE k \in Positions : rawItems[k].url = p /\ IsFirst(k)]
Sight == [p \in Posts |->
    IF firstSeen[p] # NotSeen \/ p \notin Urls(Positions) THEN firstSeen[p] ELSE FirstEntry(p)]

(* filter_new, then the language of each item, which is never in doubt.    *)
Deduplicate ==
    /\ stage = "dedup"
    /\ items' = {k \in Positions : New(k)}
    /\ stored' = StoredAtOnce(items')
    /\ firstSeen' = Sight
    /\ stage' = "black"
    /\ UNCHANGED <<points, toCollect, rawItems, place, whitelist, intakes,
                   filterFaults, routed, excused>>

(* The database fails at some entry: every entry is an item, only the ones *)
(* before it are stored.                                                   *)
DeduplicateFails ==
    /\ stage = "dedup"
    /\ filterFaults < MaxFilterFaults
    /\ filterFaults' = filterFaults + 1
    /\ items' = Positions
    /\ \E n \in Positions : stored' = stored \cup Urls(1..(n - 1))
    /\ firstSeen' = Sight
    /\ excused' = excused \cup Urls(Positions)
    /\ stage' = "black"
    /\ UNCHANGED <<points, toCollect, rawItems, place, whitelist, intakes, routed>>

-----------------------------------------------------------------------------
(* Filters                                                                 *)

ApplyBlacklist ==
    /\ stage = "black"
    /\ items' = {k \in items : rawItems[k].url \notin Blacklisted}
    /\ stage' = "route"
    /\ UNCHANGED <<points, toCollect, rawItems, place, stored, whitelist, intakes,
                   filterFaults, routed, firstSeen, excused>>

(* matches of the whitelist; _passes_tier3.                                *)
Matches(e) == e.url \in whitelist
PassesTierThree(e) ==
    \/ Matches(e)
    \/ \E n \in e.votes : n >= Threshold[e.source]

RouteTiers ==
    /\ stage = "route"
    /\ items' = {k \in items : rawItems[k].source \in TierThree => PassesTierThree(rawItems[k])}
    /\ routed' = items'
    /\ stage' = "select"
    /\ UNCHANGED <<points, toCollect, rawItems, place, stored, whitelist, intakes,
                   filterFaults, firstSeen, excused>>

(* The place of k, counted from 0, and the first n, when S is sorted by R. *)
Place(S, R, k)   == Cardinality({j \in S : <<j, k>> \in R})
FirstOf(S, R, n) == {k \in S : Place(S, R, k) < n}

(* x.upvotes or 0.                                                         *)
VotesOf(k) == Max(rawItems[k].votes \cup {0})
Tier(k)    == CASE rawItems[k].source \in TierOne -> 1
                [] rawItems[k].source \in TierTwo -> 2
                [] OTHER -> 3

(* The list as it is; sorted by votes, stably; and tier by tier.           *)
Pairs == Positions \X Positions
ByList  == {p \in Pairs : p[1] < p[2]}
ByVotes == {p \in Pairs : \/ VotesOf(p[1]) > VotesOf(p[2])
                          \/ VotesOf(p[1]) = VotesOf(p[2]) /\ p \in ByList}
ByTier  == {p \in Pairs : \/ Tier(p[1]) < Tier(p[2])
                          \/ /\ Tier(p[1]) = Tier(p[2])
                             /\ p \in IF Tier(p[1]) = 3 THEN ByVotes ELSE ByList}

(* What is left of the eight; variant: one too few.                        *)
PlacesMissing(taken) == MaxSelected - taken - 1
PlacesLeft(taken)    == MaxSelected - taken

(* The remaining places go to the items of the third tier.                 *)
SelectItems ==
    LET priority == {k \in items : Tier(k) # 3}
        taken    == Cardinality(priority) IN
    /\ stage = "select"
    /\ items' = IF taken >= MaxSelected THEN priority
                ELSE priority \cup FirstOf(items \ priority, ByVotes, PlacesLeft(taken))
    /\ place' = [k \in items' |-> Place(items', ByTier, k)]
    /\ stage' = "chosen"
    /\ UNCHANGED <<points, toCollect, rawItems, stored, whitelist, intakes,
                   filterFaults, routed, firstSeen, excused>>

(* A filter raises: it changes nothing, the selector keeps the first eight.*)
FilterFails ==
    /\ stage \in {"black", "route", "select"}
    /\ filterFaults < MaxFilterFaults
    /\ filterFaults' = filterFaults + 1
    /\ excused' = excused \cup Urls(items)
    /\ \/ stage = "black" /\ stage' = "route" /\ UNCHANGED <<items, place, routed>>
       \/ stage = "route" /\ stage' = "select" /\ routed' = items /\ UNCHANGED <<items, place>>
       \/ /\ stage = "select" /\ stage' = "cut"
          /\ items' = FirstOf(items, ByList, MaxSelected)
          /\ place' = [k \in items' |-> Place(items', ByList, k)]
          /\ UNCHANGED routed
    /\ UNCHANGED <<points, toCollect, rawItems, stored, whitelist, intakes, firstSeen>>

(* The items go on to the summaries.                                       *)
IntakeEnds ==
    /\ stage \in {"chosen", "cut"}
    /\ rawItems' = <<>> /\ items' = {} /\ place' = <<>> /\ routed' = {}
    /\ stage' = "idle"
    /\ UNCHANGED <<points, toCollect, stored, whitelist, intakes,
                   filterFaults, firstSeen, excused>>

IntakeNext ==
    \/ \E l \in Listed : Vote(l)
    \/ StartIntake \/ \E s \in Sources : CollectSource(s) \/ SkipSource(s)
    \/ Deduplicate \/ DeduplicateFails
    \/ ApplyBlacklist \/ RouteTiers \/ SelectItems \/ FilterFails \/ IntakeEnds

IntakeSpec == IntakeInit /\ [][IntakeNext]_intakeVars

-----------------------------------------------------------------------------
(* Properties                                                              *)

Entries == [url : Posts, source : Sources, votes : {{}} \cup {{n} : n \in 0..MostPoints}]

(* Every variable has its type.                                            *)
IntakeTypeOK ==
    /\ stage \in {"idle", "collect", "dedup", "black", "route", "select",
                  "chosen", "cut"}
    /\ points \in [Listed -> {{}} \cup {{n} : n \in 0..MostPoints}]
    /\ toCollect \subseteq Sources
    /\ rawItems \in Seq(Entries)
    /\ items \subseteq Positions /\ routed \subseteq Positions
    /\ stage \in {"chosen", "cut"} => place \in [items -> Nat]
    /\ stored \subseteq Posts /\ whitelist \subseteq Whitelisted
    /\ intakes \in 0..MaxIntakes /\ filterFaults \in 0..MaxFilterFaults
    /\ firstSeen \in [Posts -> Entries \cup {NotSeen}]
    /\ excused \subseteq Posts

(* The selection keeps every item of the first two tiers, exceeds the limit*)
(* only for them, leaves a place free only when nothing was left out,      *)
(* prefers the items with more votes, holds no post twice unless the       *)
(* deduplication failed, and sorts: by tier, the third by votes.           *)
SelectionRight ==
    stage = "chosen" =>
        LET dropped == routed \ items
            urgent  == {k \in routed : Tier(k) # 3} IN
        /\ items \subseteq routed
        /\ \A d \in dropped : Tier(d) = 3
        /\ Cardinality(items) <= MaxSelected \/ items = urgent
        /\ dropped # {} => Cardinality(items) >= MaxSelected
        /\ \A d \in dropped, k \in items : Tier(k) = 3 => VotesOf(d) <= VotesOf(k)
        /\ \A j, k \in items : j # k =>
              /\ place[j] # place[k]
              /\ rawItems[j].url # rawItems[k].url \/ rawItems[j].url \in excused
        /\ \A j, k \in items : place[j] < place[k] =>
              /\ Tier(j) <= Tier(k)
              /\ Tier(j) = 3 => VotesOf(j) >= VotesOf(k)

(* The votes a post has when it is first seen decide for good: one of the  *)
(* third tier that misses its threshold then, or in the source that was    *)
(* read first, is never selected later, however many it gets.  (The code's *)
(* threshold; the documents lower it for young posts: YoungVotesSuffice.)  *)
FirstSightDecides ==
    stage \in {"chosen", "cut"} =>
        \A k \in items :
            LET first == firstSeen[rawItems[k].url] IN
            \/ rawItems[k].url \in excused
            \/ rawItems[k] = first /\ (\/ first.source \notin TierThree
                                       \/ first.url \in Whitelisted
                                       \/ \E n \in first.votes : n >= Threshold[first.source])

(* 모듈블럭 설계도.md:447-449, tier_router.py:4: the router keeps to the   *)
(* quotas of the tiers.                                                    *)
QuotasKept ==
    stage = "chosen" =>
        \A t \in 1..3 : Cardinality({k \in items : Tier(k) = t}) <= Quota[t]

(* seed.sql:54, 기능정리.md:87: a Hacker News post less than two hours old *)
(* needs only hn_young_min_points to pass the router.                      *)
YoungVotesSuffice ==
    stage = "route" => \A k \in items :
        /\ rawItems[k].source = "hackernews"
        /\ rawItems[k].url \in YoungPosts
        /\ \E n \in rawItems[k].votes : n >= YoungPoints
        => PassesTierThree(rawItems[k])
=============================================================================
