------------------------------ MODULE HotNews ------------------------------
(***************************************************************************)
(* The flag processed_items.is_hot and the table hot_news.                 *)
(*                                                                         *)
(* The program judges each item it is about to send and saves the hot ones *)
(* in two commits; the app marks and unmarks items in one transaction, from*)
(* a list that may have aged; the retention deletes the processed item and *)
(* keeps its hot_news rows, their reference set to NULL.                   *)
(*                                                                         *)
(* Row ids are never used again (AUTOINCREMENT), and foreign keys are on:  *)
(* a hot_news row refers to the present row of its URL or to none.  So the *)
(* table is two counters per URL.  A run carries one item: the items of a  *)
(* batch do not touch each other's rows.                                   *)
(***************************************************************************)
EXTENDS Naturals

CONSTANTS
    HotRuns,     \* pipeline processes that send item by item
    Labs,        \* URLs of _TIER1_SOURCES
    Voted,       \* URLs of Hacker News and Reddit
    HotVotes,    \* hot_hn_threshold, hot_reddit_threshold
    MaxIds,      \* bound: rows a URL gets, one after the other
    MaxTaps      \* bound: the user's taps

ASSUME HotAssumption == /\ Labs \cap Voted = {}
                        /\ HotVotes \in Nat /\ MaxIds \in Nat /\ MaxTaps \in Nat

VARIABLES
    hotPc,      \* "idle", "detect", "judge", "insert" or "over", of each run
    carried,    \* the item of each run: its url and its db_id
    hotRow,     \* the id of the URL's row in processed_items, or None
    lastId,     \* the last id given to a row of the URL
    isHot,      \* is_hot of that row
    linked,     \* hot_news rows that refer to it
    unlinked,   \* hot_news rows of the URL with processed_item_id NULL
    tile,       \* the URL's tile in the news list, as loaded last
    hotTab,     \* the id behind its removable tile in the hot tab, or None
    taps,       \* the user's taps so far
    fellBack,   \* history: URLs filter_new called new after a database error
    detected,   \* history: <<url, id>> of the rows stored and saved as hot by one run
    byProgram,  \* history: URLs with a hot_news row of the program
    byHand,     \* history: URLs the user marked
    unmarked,   \* history: URLs the user unmarked
    twice       \* history: URLs marked through a tile that had aged

hotItems   == <<hotRow, lastId>>
hotScreens == <<tile, hotTab>>
hotHistory == <<fellBack, detected, byProgram, byHand, unmarked, twice>>
hotVars    == <<hotPc, carried, hotRow, lastId, isHot, linked, unlinked, tile,
                hotTab, taps, fellBack, detected, byProgram, byHand, unmarked, twice>>

None     == 0
HotUrls  == Labs \cup Voted
HotIds   == 1..MaxIds
NoTile   == [id |-> None, hot |-> FALSE]
Carries  == [url : HotUrls, dbId : {None} \cup HotIds, own : BOOLEAN]

HotInit ==
    /\ hotPc = [r \in HotRuns |-> "idle"]
    /\ carried \in [HotRuns -> {[url |-> u, dbId |-> None, own |-> FALSE] : u \in HotUrls}]
    /\ hotRow = [u \in HotUrls |-> None]
    /\ lastId = [u \in HotUrls |-> None]
    /\ isHot = [u \in HotUrls |-> FALSE]
    /\ linked = [u \in HotUrls |-> 0]
    /\ unlinked = [u \in HotUrls |-> 0]
    /\ tile = [u \in HotUrls |-> NoTile]
    /\ hotTab = [u \in HotUrls |-> None]
    /\ taps = 0
    /\ fellBack = {} /\ detected = {} /\ byProgram = {} /\ byHand = {}
    /\ unmarked = {} /\ twice = {}

-----------------------------------------------------------------------------
(* A run, up to the detector                                               *)

HotGoto(r, stage) == hotPc' = [hotPc EXCEPT ![r] = stage]

(* filter_new stores the item, and notes the id of its row.                *)
StoreItem(r) ==
    LET u == carried[r].url IN
    /\ hotPc[r] = "idle"
    /\ hotRow[u] = None
    /\ lastId[u] < MaxIds
    /\ hotRow' = [hotRow EXCEPT ![u] = lastId[u] + 1]
    /\ lastId' = [lastId EXCEPT ![u] = @ + 1]
    /\ carried' = [carried EXCEPT ![r] = [url |-> u, dbId |-> lastId[u] + 1, own |-> TRUE]]
    /\ HotGoto(r, "detect")
    /\ UNCHANGED <<isHot, linked, unlinked, hotScreens, taps, hotHistory>>

(* filter_new after a database error: the item is new, stored or not.      *)
CallNew(r) ==
    /\ hotPc[r] = "idle"
    /\ HotGoto(r, "detect")
    /\ fellBack' = fellBack \cup {carried[r].url}
    /\ UNCHANGED <<carried, hotItems, isHot, linked, unlinked, hotScreens, taps,
                   detected, byProgram, byHand, unmarked, twice>>

(* The detector builds a new NewsItem; variant: with the id of the old one.*)
KeepId(item)  == item
Rebuilt(item) == [item EXCEPT !.dbId = None]

DetectLanguage(r) ==
    /\ hotPc[r] = "detect"
    /\ carried' = [carried EXCEPT ![r] = Rebuilt(@)]
    /\ HotGoto(r, "judge")
    /\ UNCHANGED <<hotItems, isHot, linked, unlinked, hotScreens, taps, hotHistory>>

(* _is_hot of an item with votes ({} when they are None), with a keyword   *)
(* of _HOT_KEYWORDS or without.                                            *)
Upvotes == {{}} \cup {{n} : n \in 0..HotVotes}
HotNow(u, votes, keyword) ==
    \/ u \in Voted /\ \E n \in votes : n >= HotVotes
    \/ u \in Labs /\ keyword

(* update_processed_item of an item that has an id.                        *)
Flagged(u, k) == isHot[u] \/ (k # None /\ k = hotRow[u])

(* detect of a hot item, and the first statement of _save_hot: the update, *)
(* which its store method commits.                                         *)
JudgeHot(r) ==
    LET u == carried[r].url IN
    /\ hotPc[r] = "judge"
    /\ \E votes \in Upvotes, keyword \in BOOLEAN : HotNow(u, votes, keyword)
    /\ isHot' = [isHot EXCEPT ![u] = Flagged(u, carried[r].dbId)]
    /\ HotGoto(r, "insert")
    /\ UNCHANGED <<carried, hotItems, linked, unlinked, hotScreens, taps, hotHistory>>

(* detect of any other item.                                               *)
JudgeOrdinary(r) ==
    LET u == carried[r].url IN
    /\ hotPc[r] = "judge"
    /\ \E votes \in Upvotes, keyword \in BOOLEAN : ~HotNow(u, votes, keyword)
    /\ HotGoto(r, "over")
    /\ UNCHANGED <<carried, hotItems, isHot, linked, unlinked, hotScreens, taps, hotHistory>>

(* insert_hot_news: a plain INSERT, and no key it could conflict with.  A  *)
(* reference to a row that is gone breaks the foreign key.                 *)
InsertHotNews(r) ==
    LET u == carried[r].url
        k == carried[r].dbId IN
    /\ hotPc[r] = "insert"
    /\ k \in {None, hotRow[u]}
    /\ IF k = None
       THEN unlinked' = [unlinked EXCEPT ![u] = @ + 1] /\ UNCHANGED linked
       ELSE linked' = [linked EXCEPT ![u] = @ + 1] /\ UNCHANGED unlinked
    /\ byProgram' = byProgram \cup {u}
    /\ detected' = IF carried[r].own THEN detected \cup {<<u, lastId[u]>>} ELSE detected
    /\ HotGoto(r, "over")
    /\ UNCHANGED <<carried, hotItems, isHot, hotScreens, taps, fellBack, byHand, unmarked, twice>>

(* _save_hot swallows any exception of its two statements, or the process  *)
(* is killed between them.                                                 *)
SaveHotFails(r) ==
    /\ hotPc[r] \in {"judge", "insert"}
    /\ HotGoto(r, "over")
    /\ UNCHANGED <<carried, hotItems, isHot, linked, unlinked, hotScreens, taps, hotHistory>>

-----------------------------------------------------------------------------
(* The retention, and the app                                              *)

(* cleanup_old_data deletes the row: ON DELETE SET NULL.                   *)
PurgeItem(u) ==
    /\ hotRow[u] # None
    /\ hotRow' = [hotRow EXCEPT ![u] = None]
    /\ isHot' = [isHot EXCEPT ![u] = FALSE]
    /\ unlinked' = [unlinked EXCEPT ![u] = @ + linked[u]]
    /\ linked' = [linked EXCEPT ![u] = 0]
    /\ UNCHANGED <<hotPc, carried, lastId, hotScreens, taps, hotHistory>>

(* getItemsByDate and getAllHotNews fill the two lists, each by itself.    *)
LoadNews(u) ==
    /\ tile' = [tile EXCEPT ![u] = [id |-> hotRow[u], hot |-> isHot[u]]]
    /\ UNCHANGED <<hotPc, carried, hotItems, isHot, linked, unlinked, hotTab, taps, hotHistory>>

LoadHotTab(u) ==
    /\ hotTab' = [hotTab EXCEPT ![u] = IF linked[u] > 0 THEN hotRow[u] ELSE None]
    /\ UNCHANGED <<hotPc, carried, hotItems, isHot, linked, unlinked, tile, taps, hotHistory>>

Tap == taps < MaxTaps /\ taps' = taps + 1

(* The UPDATE of markAsHot; variant: it is forgotten.                      *)
FlagKept(u) == isHot
FlagSet(u)  == [isHot EXCEPT ![u] = TRUE]

(* markAsHot on a tile shown as not hot.  The insert of a row that refers  *)
(* to a deleted item raises, and takes the whole transaction back.         *)
MarkAsHot(u) ==
    LET here == hotRow[u] = tile[u].id IN
    /\ tile[u].id # None /\ ~tile[u].hot
    /\ Tap
    /\ IF here
       THEN /\ isHot' = FlagSet(u)
            /\ linked' = [linked EXCEPT ![u] = @ + 1]
            /\ byHand' = byHand \cup {u}
            /\ twice' = IF isHot[u] THEN twice \cup {u} ELSE twice
       ELSE UNCHANGED <<isHot, linked, byHand, twice>>
    /\ UNCHANGED <<hotPc, carried, hotItems, unlinked, hotScreens, fellBack,
                   detected, byProgram, unmarked>>

(* The DELETE of unmarkAsHot; variant: it is forgotten.                    *)
NothingDeleted(u) == linked
RowsDeleted(u)    == [linked EXCEPT ![u] = 0]

(* unmarkAsHot(id): the flag and the rows that refer to the item, in one   *)
(* transaction; nothing at all once the row is gone.                       *)
UnmarkAsHot(u, id) ==
    /\ id # None
    /\ Tap
    /\ IF hotRow[u] = id
       THEN /\ isHot' = [isHot EXCEPT ![u] = FALSE]
            /\ linked' = RowsDeleted(u)
       ELSE UNCHANGED <<isHot, linked>>
    /\ unmarked' = unmarked \cup {u}
    /\ UNCHANGED <<hotPc, carried, hotItems, unlinked, hotScreens, fellBack,
                   detected, byProgram, byHand, twice>>

ToggleOff(u) == tile[u].hot /\ UnmarkAsHot(u, tile[u].id)
RemoveHot(u) == UnmarkAsHot(u, hotTab[u])

-----------------------------------------------------------------------------

HotRunStep(r) == \/ StoreItem(r) \/ CallNew(r) \/ DetectLanguage(r) \/ JudgeHot(r)
                 \/ JudgeOrdinary(r) \/ InsertHotNews(r) \/ SaveHotFails(r)
HotAppStep(u) == \/ LoadNews(u) \/ LoadHotTab(u) \/ MarkAsHot(u)
                 \/ ToggleOff(u) \/ RemoveHot(u)
HotNext == \/ \E r \in HotRuns : HotRunStep(r)
           \/ \E u \in HotUrls : PurgeItem(u) \/ HotAppStep(u)

HotSpec == HotInit /\ [][HotNext]_hotVars

-----------------------------------------------------------------------------
(* Properties                                                              *)

(* Every variable has its type.                                            *)
HotTypeOK ==
    /\ hotPc \in [HotRuns -> {"idle", "detect", "judge", "insert", "over"}]
    /\ carried \in [HotRuns -> Carries]
    /\ hotRow \in [HotUrls -> {None} \cup HotIds]
    /\ lastId \in [HotUrls -> {None} \cup HotIds]
    /\ isHot \in [HotUrls -> BOOLEAN]
    /\ linked \in [HotUrls -> Nat]
    /\ unlinked \in [HotUrls -> Nat]
    /\ tile \in [HotUrls -> [id : {None} \cup HotIds, hot : BOOLEAN]]
    /\ hotTab \in [HotUrls -> {None} \cup HotIds]
    /\ taps \in Nat
    /\ fellBack \subseteq HotUrls /\ detected \subseteq HotUrls \X HotIds
    /\ byProgram \subseteq HotUrls /\ byHand \subseteq HotUrls
    /\ unmarked \subseteq HotUrls /\ twice \subseteq HotUrls

(* A URL has a second hot_news row only when it was stored again after the *)
(* retention deleted it, or called new after a database error, or marked   *)
(* by hand beside the program's row, or tapped again before the list       *)
(* was loaded again.                                                       *)
DuplicatesExplained ==
    \A u \in HotUrls : linked[u] + unlinked[u] > 1 =>
        \/ lastId[u] > 1
        \/ u \in fellBack
        \/ u \in byProgram \cap byHand
        \/ u \in twice

(* hot_news_detector.py:75: an item a run stored and saved as hot has      *)
(* is_hot = 1, until the user unmarks it.                                  *)
DetectedIsFlagged ==
    \A u \in HotUrls : <<u, hotRow[u]>> \in detected => isHot[u] \/ u \in unmarked
=============================================================================
