---------------------------- MODULE DigestFormat ----------------------------
(***************************************************************************)
(* send_digest in item-by-item detail: the rows of the day it loads, the   *)
(* loop of format_digest that puts them into messages one by one, and the  *)
(* sending, while other runs store rows and the day ends.                  *)
(*                                                                         *)
(* A row's entry is abstracted to its length (prefix, title, at most 120   *)
(* characters of summary, url), a message to its entries; urls are numbers *)
(* in the order of the strings.                                            *)
(***************************************************************************)
EXTENDS Naturals, Sequences, SequencesExt

CONSTANTS
    DigestUrls,    \* urls, as numbers
    EntryLengths,  \* lengths of _format_item
    HeaderLength,  \* of _HEADER
    MaxMsgLen,     \* _MAX_MSG_LEN
    LastDay        \* bound: days

ASSUME DigestAssumption ==
    /\ DigestUrls \subseteq Nat /\ EntryLengths \subseteq Nat \ {0}
    /\ HeaderLength \in Nat \ {0} /\ HeaderLength <= MaxMsgLen
    /\ MaxMsgLen \in Nat /\ LastDay \in Nat \ {0}

VARIABLES
    today,       \* the calendar day
    storedOn,    \* the day of created_at of each row, 0 for none
    entryLength, \* the length of its entry
    hotRows,     \* rows with is_hot = 1
    loaded,      \* the rows _load_unsent_items returned
    loadedHot,   \* those of them with is_hot = 1
    unplaced,    \* those the loop of format_digest has not reached
    messages,    \* its messages, the current one last; then those left to send
    late,        \* history: rows stored since the last digest of their day
    digested     \* history: rows in a message whose turn to be sent came

digestRows == <<today, storedOn, entryLength, hotRows>>
digestVars == <<digestRows, loaded, loadedHot, unplaced, messages, late, digested>>

DigestInit ==
    /\ today = 1
    /\ storedOn = [u \in DigestUrls |-> 0]
    /\ entryLength \in [DigestUrls -> EntryLengths]
    /\ hotRows = {}
    /\ loaded = {} /\ loadedHot = {} /\ unplaced = {} /\ messages = <<>>
    /\ late = {} /\ digested = {}

-----------------------------------------------------------------------------
(* format_digest                                                           *)

(* The sort key: hot rows first, then by url.                              *)
Earlier(hot, u, v) == \/ u \in hot /\ v \notin hot
                      \/ (u \in hot <=> v \in hot) /\ u < v

Header   == [header |-> TRUE, entries |-> <<>>, length |-> HeaderLength]
Alone(u) == [header |-> FALSE, entries |-> <<u>>, length |-> entryLength[u]]

(* One turn of the loop: the entry opens a new message when it does not fit*)
(* into the current one.  Variant: then it is lost.                        *)
HasRoom(message, u) == message.length + entryLength[u] <= MaxMsgLen
Extended(message, u) ==
    [message EXCEPT !.entries = Append(@, u), !.length = @ + entryLength[u]]

EntryLost(ms, u) ==
    IF HasRoom(ms[Len(ms)], u) THEN [ms EXCEPT ![Len(ms)] = Extended(@, u)]
    ELSE Append(ms, [Alone(u) EXCEPT !.entries = <<>>])
AddEntry(ms, u) ==
    IF HasRoom(ms[Len(ms)], u) THEN [ms EXCEPT ![Len(ms)] = Extended(@, u)]
    ELSE Append(ms, Alone(u))

-----------------------------------------------------------------------------

(* A run stores a row (created_at is the time of the insert).              *)
StoreToday(u) ==
    /\ storedOn[u] = 0
    /\ storedOn' = [storedOn EXCEPT ![u] = today]
    /\ late' = late \cup {u}
    /\ UNCHANGED <<today, entryLength, hotRows, loaded, loadedHot, unplaced, messages, digested>>

(* The user marks or unmarks a row as hot in the app.                      *)
ToggleHot(u) ==
    /\ storedOn[u] # 0
    /\ hotRows' = IF u \in hotRows THEN hotRows \ {u} ELSE hotRows \cup {u}
    /\ UNCHANGED <<today, storedOn, entryLength, loaded, loadedHot, unplaced, messages, late, digested>>

(* get_processed_items_by_date(today); telegram_sent is never set.         *)
RowsOfToday == {u \in DigestUrls : storedOn[u] = today}

(* send_digest up to the loop over the items; no rows, no message.         *)
LoadDigest ==
    /\ messages = <<>>
    /\ RowsOfToday # {}
    /\ loaded' = RowsOfToday
    /\ loadedHot' = RowsOfToday \cap hotRows
    /\ unplaced' = RowsOfToday
    /\ messages' = <<Header>>
    /\ late' = late \ RowsOfToday
    /\ UNCHANGED <<digestRows, digested>>

(* The loop goes on with the first of the sorted rows that are left.       *)
PlaceEntry(u) ==
    /\ u \in unplaced
    /\ \A v \in unplaced \ {u} : Earlier(loadedHot, u, v)
    /\ messages' = AddEntry(messages, u)
    /\ unplaced' = unplaced \ {u}
    /\ UNCHANGED <<digestRows, loaded, loadedHot, late, digested>>

(* sender.send of the next message, once the loop is over; an exception    *)
(* loses this one only.  The digest is over with the last.                 *)
SendNextMessage ==
    /\ messages # <<>>
    /\ unplaced = {}
    /\ messages' = Tail(messages)
    /\ digested' = digested \cup ToSet(Head(messages).entries)
    /\ IF Len(messages) = 1 THEN loaded' = {} /\ loadedHot' = {}
                            ELSE UNCHANGED <<loaded, loadedHot>>
    /\ UNCHANGED <<digestRows, unplaced, late>>

DayEnds ==
    /\ today < LastDay
    /\ today' = today + 1
    /\ UNCHANGED <<storedOn, entryLength, hotRows, loaded, loadedHot, unplaced, messages, late, digested>>

DigestNext == \/ \E u \in DigestUrls : StoreToday(u) \/ ToggleHot(u) \/ PlaceEntry(u)
              \/ LoadDigest \/ SendNextMessage \/ DayEnds

DigestSpec == DigestInit /\ [][DigestNext]_digestVars

-----------------------------------------------------------------------------
(* Properties                                                              *)

(* Every variable has its type.                                            *)
DigestTypeOK ==
    /\ today \in 1..LastDay
    /\ storedOn \in [DigestUrls -> 0..LastDay]
    /\ entryLength \in [DigestUrls -> EntryLengths]
    /\ hotRows \subseteq DigestUrls
    /\ loadedHot \subseteq loaded /\ loaded \subseteq DigestUrls
    /\ unplaced \subseteq loaded
    /\ messages \in Seq([header : BOOLEAN, entries : Seq(DigestUrls), length : Nat])
    /\ late \subseteq DigestUrls /\ digested \subseteq DigestUrls

(* The places of the entries: message and place in it.                     *)
Places == UNION {{<<k, i>> : i \in 1..Len(messages[k].entries)} : k \in 1..Len(messages)}
At(p)  == messages[p[1]].entries[p[2]]
Sooner(p, q) == p[1] < q[1] \/ (p[1] = q[1] /\ p[2] < q[2])

(* The messages of a digest hold every row loaded exactly once, the hot    *)
(* ones first and each group by url.                                       *)
NoneSent == messages # <<>> /\ messages[1].header
InOrder ==
    /\ NoneSent => {At(p) : p \in Places} = loaded \ unplaced
    /\ \A p, q \in Places : Sooner(p, q) => Earlier(loadedHot, At(p), At(q))

(* A message exceeds the limit only when it is one entry that does, and    *)
(* two neighbours are apart only because the second's first entry did not  *)
(* fit into the first; only the first message has the header.              *)
SplitWell ==
    \A k \in 1..Len(messages) :
        LET message == messages[k] IN
        /\ message.length > MaxMsgLen => Len(message.entries) = 1 /\ ~message.header
        /\ k > 1 => /\ ~message.header
                    /\ message.entries # <<>>
                    /\ messages[k-1].length + entryLength[message.entries[1]] > MaxMsgLen

(* A row that no digest held was stored after the last digest of its day   *)
(* (or before the first), or is of the digest at hand: nothing else loses  *)
(* one.  That these are lost too is what LateIsSent is about.              *)
OnlyLateMissed ==
    \A u \in DigestUrls :
        storedOn[u] # 0 /\ u \notin digested => u \in late \/ u \in loaded

(* The messages of a digest: the rows of the day, each once, in order,     *)
(* split only where the limit demands it.                                  *)
DigestRight == InOrder /\ SplitWell /\ OnlyLateMissed

(* feature-spec-v2.md:360: the digest holds every item with telegram_sent =*)
(* 0, so also a row of an earlier day that no digest held.                 *)
LateIsSent ==
    NoneSent => \A u \in DigestUrls, v \in loaded :
        storedOn[u] \in 1..(storedOn[v] - 1) => u \in digested \cup loaded
=============================================================================
