------------------------- MODULE SubscriberPolling -------------------------
(***************************************************************************)
(* How a /start sent to the bot becomes a subscriber.                      *)
(*                                                                         *)
(* Telegram keeps the messages a bot has not confirmed as updates with     *)
(* increasing ids; getUpdates(offset) confirms every update below offset   *)
(* and returns the first ones from there on.  Each pipeline run polls      *)
(* once: it loads the offset from filter_config, asks Telegram, registers  *)
(* the updates one by one, and saves the highest id + 1.  Runs overlap, a  *)
(* database error or the death of the process ends a poll at any step, and *)
(* meanwhile the app approves, rejects and deletes subscribers in the same *)
(* table.                                                                  *)
(***************************************************************************)
EXTENDS Naturals, Sequences

CONSTANTS
    Pollers,      \* runs that may poll at the same time
    Chats,        \* chats that write to the bot
    BatchLimit,   \* updates in one answer of getUpdates (100 at Telegram)
    MaxUpdates,   \* bound: messages sent to the bot
    MaxFaults     \* bound: polls that end early

ASSUME BatchLimitAssumption == BatchLimit \in Nat \ {0}

VARIABLES
    sent,        \* Telegram: the messages the bot got; the index is the update id
    confirmed,   \* Telegram: the updates up to this one are forgotten
    offset,      \* filter_config's telegram_update_offset, 0 when there is none
    sub,         \* subscribers: the status of each chat, or "none"
    polling,     \* what each poller is doing
    from,        \* the offset each poller loaded
    next,        \* the update each poller handles next
    last,        \* the last update of each poller's answer
    faults,      \* polls that ended early so far
    deleted,     \* history: the chats the administrator deleted at some time
    handled,     \* history: the updates some poller handled
    again,       \* history: the updates handled a second time
    disturbed    \* history: two polls overlapped, or one ended early

telegram == <<sent, confirmed>>
poller   == <<polling, from, next, last>>
pollHistory == <<deleted, handled, again, disturbed>>
pollVars == <<sent, confirmed, offset, sub, polling, from, next, last, faults,
              deleted, handled, again, disturbed>>

Update == [chat : Chats, start : BOOLEAN]
Status == {"none", "pending", "approved", "rejected"}

Smaller(m, n) == IF m >= n THEN n ELSE m

PollInit ==
    /\ sent = <<>>
    /\ confirmed = 0
    /\ offset = 0
    /\ sub = [c \in Chats |-> "none"]
    /\ polling = [p \in Pollers |-> "idle"]
    /\ from = [p \in Pollers |-> 0]
    /\ next = [p \in Pollers |-> 1]
    /\ last = [p \in Pollers |-> 0]
    /\ faults = 0
    /\ deleted = {}
    /\ handled = {}
    /\ again = {}
    /\ disturbed = FALSE

-----------------------------------------------------------------------------
(* The chats and the administrator                                         *)

(* A chat writes to the bot: /start or anything else.                      *)
Message(c, start) ==
    /\ Len(sent) < MaxUpdates
    /\ sent' = Append(sent, [chat |-> c, start |-> start])
    /\ UNCHANGED <<confirmed, offset, sub, poller, faults, pollHistory>>

(* The app's UPDATE ... WHERE chat_id: nothing when the row is gone.       *)
Decide(c, status) ==
    /\ sub' = [sub EXCEPT ![c] = IF @ = "none" THEN @ ELSE status]
    /\ UNCHANGED <<telegram, offset, poller, faults, pollHistory>>

Approve(c) == Decide(c, "approved")
Reject(c)  == Decide(c, "rejected")

Delete(c) ==
    /\ sub' = [sub EXCEPT ![c] = "none"]
    /\ deleted' = deleted \cup {c}
    /\ UNCHANGED <<telegram, offset, poller, faults, handled, again, disturbed>>

-----------------------------------------------------------------------------
(* One poll                                                                *)

LoadOffset(p) ==
    /\ polling[p] = "idle"
    /\ polling' = [polling EXCEPT ![p] = "loaded"]
    /\ from' = [from EXCEPT ![p] = offset]
    /\ disturbed' = (disturbed \/ \E q \in Pollers : polling[q] # "idle")
    /\ UNCHANGED <<telegram, offset, sub, next, last, faults, deleted, handled,
                   again>>

(* The poll is over, and its local variables with it.                      *)
Ended(p) ==
    /\ polling' = [polling EXCEPT ![p] = "idle"]
    /\ from' = [from EXCEPT ![p] = 0]
    /\ next' = [next EXCEPT ![p] = 1]
    /\ last' = [last EXCEPT ![p] = 0]

(* Telegram's side of getUpdates(offset = from[p]).                        *)
Confirm(p) == confirmed' = IF from[p] > confirmed THEN from[p] - 1 ELSE confirmed

(* The answer; an empty one ends the poll and saves nothing.  Without an   *)
(* offset Telegram answers from its first unconfirmed update.              *)
GetUpdates(p) ==
    /\ polling[p] = "loaded"
    /\ Confirm(p)
    /\ IF Len(sent) = confirmed'
       THEN Ended(p)
       ELSE /\ next' = [next EXCEPT ![p] = confirmed' + 1]
            /\ last' = [last EXCEPT ![p] =
                            Smaller(Len(sent), confirmed' + BatchLimit)]
            /\ polling' = [polling EXCEPT ![p] = "answered"]
            /\ UNCHANGED from
    /\ UNCHANGED <<sent, offset, sub, faults, pollHistory>>

(* upsert_subscriber: a row that exists keeps its status; variant: INSERT  *)
(* OR REPLACE.                                                             *)
Replaced(status)   == "pending"
Registered(status) == IF status = "none" THEN "pending" ELSE status

(* One turn of the loop: _process_update and the upsert it may commit.     *)
ProcessUpdate(p) ==
    /\ polling[p] = "answered"
    /\ next[p] <= last[p]
    /\ LET u == next[p] IN
          /\ sub' = IF sent[u].start
                    THEN [sub EXCEPT ![sent[u].chat] = Registered(@)]
                    ELSE sub
          /\ handled' = handled \cup {u}
          /\ again' = again \cup ({u} \cap handled)
    /\ next' = [next EXCEPT ![p] = @ + 1]
    /\ UNCHANGED <<telegram, offset, polling, from, last, faults, deleted, disturbed>>

(* max_update_id + 1; variants: without the + 1, one too many.             *)
HighestId(p)   == last[p]
PastTheEnd(p)  == last[p] + 2
NextOffset(p)  == last[p] + 1

SaveOffset(p) ==
    /\ polling[p] = "answered"
    /\ next[p] > last[p]
    /\ offset' = NextOffset(p)
    /\ Ended(p)
    /\ UNCHANGED <<telegram, sub, faults, pollHistory>>

(* poll's except clause, or the death of the process: the request or its   *)
(* answer is lost, ok is false, an upsert or the save meets the lock.      *)
PollFails(p) ==
    /\ polling[p] # "idle"
    /\ faults < MaxFaults
    /\ faults' = faults + 1
    /\ \/ UNCHANGED confirmed
       \/ polling[p] = "loaded" /\ Confirm(p)
    /\ Ended(p)
    /\ disturbed' = TRUE
    /\ UNCHANGED <<sent, offset, sub, deleted, handled, again>>

Poll(p) == LoadOffset(p) \/ GetUpdates(p) \/ ProcessUpdate(p) \/ SaveOffset(p)

PollNext ==
    \/ \E c \in Chats, start \in BOOLEAN : Message(c, start)
    \/ \E c \in Chats : Approve(c) \/ Reject(c) \/ Delete(c)
    \/ \E p \in Pollers : Poll(p) \/ PollFails(p)

PollSpec == PollInit /\ [][PollNext]_pollVars

(* launchd starts a run every hour and each of its calls has a timeout.    *)
(* Nothing makes a chat write, the administrator act or a poll fail.       *)
PollFairness == \A p \in Pollers : WF_pollVars(Poll(p))

-----------------------------------------------------------------------------
(* Properties                                                              *)

(* Every variable has its type (confirmed never passes what was sent, and  *)
(* no answer reaches past it).                                             *)
PollTypeOK ==
    /\ sent \in Seq(Update)
    /\ confirmed \in 0..Len(sent)
    /\ offset \in 0..(Len(sent) + 1)
    /\ sub \in [Chats -> Status]
    /\ polling \in [Pollers -> {"idle", "loaded", "answered"}]
    /\ from \in [Pollers -> 0..(Len(sent) + 1)]
    /\ next \in [Pollers -> 1..(Len(sent) + 1)]
    /\ last \in [Pollers -> 0..Len(sent)]
    /\ faults \in Nat
    /\ deleted \subseteq Chats
    /\ handled \subseteq 1..Len(sent)
    /\ again \subseteq handled
    /\ disturbed \in BOOLEAN

(* A request Telegram will not deliver again is in the table, unless the   *)
(* administrator deleted its chat: however polls overlap, fail between two *)
(* upserts or save an older offset, _do_poll loses no /start.              *)
NoRequestLost ==
    \A u \in 1..Len(sent) :
        u <= confirmed /\ sent[u].start =>
            sub[sent[u].chat] # "none" \/ sent[u].chat \in deleted

(* An update is handled twice, and a deleted chat thus registered again by *)
(* an old message, only after two polls overlapped or one ended early.     *)
HandledOnce == again # {} => disturbed

(* An approved or rejected subscriber never falls back to pending, not     *)
(* even when its /start is delivered again.                                *)
DecisionsKept ==
    [][\A c \in Chats :
           sub[c] \in {"approved", "rejected"} => sub'[c] # "pending"]_pollVars

(* Every message is handled in the end, whatever offset a slow poll saves. *)
EveryMessageHandled ==
    \A u \in 1..MaxUpdates : u <= Len(sent) ~> u \in handled
=============================================================================
