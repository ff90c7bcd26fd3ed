---------------------------- MODULE TelegramSend ----------------------------
(***************************************************************************)
(* One run sends its messages to the administrator and to the subscribers. *)
(*                                                                         *)
(* For each message HttpTelegramSender.send reads the approved chats, then *)
(* posts to one chat after the other, up to MaxTries times each.  Telegram *)
(* may accept a post whose answer is lost: the sender cannot tell that     *)
(* from a refusal and posts again.  Meanwhile the app approves and rejects *)
(* subscribers, and the process may die.                                   *)
(***************************************************************************)
EXTENDS Naturals

CONSTANTS
    Chats,        \* the chats, the administrator's among them
    Admin,        \* admin_chat_id
    Messages,     \* bound: messages the run sends
    MaxTries,     \* _MAX_RETRIES
    MaxDecisions  \* bound: decisions of the administrator during the run

ASSUME AdminAssumption == Admin \in Chats
ASSUME MessagesAssumption == Messages \in Nat
ASSUME TriesAssumption == MaxTries \in Nat \ {0}

VARIABLES
    approved,    \* the subscribers with status 'approved'
    sender,      \* "ready" between messages, "sending", "over"
    msg,         \* the message being sent, or the next one
    chatIds,     \* chat_ids: what _collect_chat_ids returned
    todo,        \* the chats of chatIds the loop has not reached
    chat,        \* {c} during _send_to(c), else {}
    attempt,     \* its attempt, from 0
    success,     \* the chats counted in success_count, per message
    failed,      \* failed_chat_ids, per message
    received,    \* history: times each message reached each chat
    lost,        \* history: those whose answer was lost
    decisions,   \* the administrator's decisions so far
    revoked      \* history: the message at hand when a chat lost its approval

results == <<success, failed>>
history == <<received, lost, decisions, revoked>>
sendVars    == <<approved, sender, msg, chatIds, todo, chat, attempt, success, failed,
             received, lost, decisions, revoked>>

PerMessage(S) == [1..Messages -> S]
Counts == PerMessage([Chats -> Nat])

SendInit ==
    /\ approved \in SUBSET (Chats \ {Admin})
    /\ sender = "ready"
    /\ msg = 1
    /\ chatIds = {}
    /\ todo = {}
    /\ chat = {}
    /\ attempt = 0
    /\ success = [m \in 1..Messages |-> {}]
    /\ failed = [m \in 1..Messages |-> {}]
    /\ received = [m \in 1..Messages |-> [c \in Chats |-> 0]]
    /\ lost = [m \in 1..Messages |-> [c \in Chats |-> 0]]
    /\ decisions = 0
    /\ revoked = [c \in Chats |-> 0]

-----------------------------------------------------------------------------

(* The app approves, or rejects or deletes, a subscriber.                  *)
Decide(c) ==
    /\ c # Admin
    /\ decisions < MaxDecisions
    /\ decisions' = decisions + 1
    /\ IF c \in approved
       THEN /\ approved' = approved \ {c}
            /\ revoked' = [revoked EXCEPT ![c] = IF sender = "ready" THEN msg - 1 ELSE msg]
       ELSE approved' = approved \cup {c} /\ UNCHANGED revoked
    /\ UNCHANGED <<sender, msg, chatIds, todo, chat, attempt, results, received, lost>>

(* The query of the recipients; variant: they are read once per run.       *)
ApprovedOnce == IF msg = 1 THEN approved ELSE chatIds \ {Admin}
ApprovedNow  == approved

(* _collect_chat_ids: when the query raises, the administrator alone.      *)
CollectChatIds ==
    /\ sender = "ready"
    /\ msg <= Messages
    /\ \/ chatIds' = {Admin} \cup ApprovedNow
       \/ chatIds' = {Admin}
    /\ todo' = chatIds'
    /\ sender' = "sending"
    /\ UNCHANGED <<approved, msg, chat, attempt, results, history>>

(* The loop reaches the next chat; the set has no order.                   *)
NextChat(c) ==
    /\ sender = "sending"
    /\ chat = {}
    /\ c \in todo
    /\ todo' = todo \ {c}
    /\ chat' = {c}
    /\ attempt' = 0
    /\ UNCHANGED <<approved, sender, msg, chatIds, results, history>>

NextAttempt == attempt' = attempt + 1 /\ UNCHANGED <<chat, results>>

(* _send_to returns None; variant: it goes on with its loop.               *)
NoReturn(c) == NextAttempt
Served(c) ==
    /\ chat' = {}
    /\ success' = [success EXCEPT ![msg] = @ \cup {c}]
    /\ UNCHANGED <<attempt, failed>>

(* _send_to returns an error; variants: send takes it for a success, or    *)
(* notes nothing.                                                          *)
CountedServed(c) == Served(c)
NotNoted(c)      == chat' = {} /\ UNCHANGED <<attempt, results>>
GiveUp(c) ==
    /\ chat' = {}
    /\ failed' = [failed EXCEPT ![msg] = @ \cup {c}]
    /\ UNCHANGED <<attempt, success>>

(* The except clause: the last attempt returns the error, the others wait. *)
AttemptRaised(c) == IF attempt = MaxTries - 1 THEN GiveUp(c) ELSE NextAttempt

(* range(_MAX_RETRIES).                                                    *)
Trying(c)   == chat = {c} /\ attempt < MaxTries
Count(f, c) == [f EXCEPT ![msg][c] = @ + 1]

(* Telegram accepts the post and the answer says ok.                       *)
PostAccepted(c) ==
    /\ Trying(c)
    /\ received' = Count(received, c)
    /\ Served(c)
    /\ UNCHANGED <<approved, sender, msg, chatIds, todo, lost, decisions, revoked>>

(* Telegram accepts the post, and the answer is lost to the 10s timeout.   *)
PostAnswerLost(c) ==
    /\ Trying(c)
    /\ received' = Count(received, c)
    /\ lost' = Count(lost, c)
    /\ AttemptRaised(c)
    /\ UNCHANGED <<approved, sender, msg, chatIds, todo, decisions, revoked>>

(* An HTTP error, ok false, or no connection.                              *)
PostRefused(c) ==
    /\ Trying(c)
    /\ AttemptRaised(c)
    /\ UNCHANGED <<approved, sender, msg, chatIds, todo, history>>

(* 429: wait as long as Telegram asks, even after the last attempt.        *)
TooManyRequests(c) ==
    /\ Trying(c)
    /\ NextAttempt
    /\ UNCHANGED <<approved, sender, msg, chatIds, todo, history>>

(* The loop over the attempts is over.                                     *)
RetriesExceeded(c) ==
    /\ chat = {c}
    /\ attempt = MaxTries
    /\ GiveUp(c)
    /\ UNCHANGED <<approved, sender, msg, chatIds, todo, history>>

(* send returns, and send_messages goes on to its next item.               *)
SendReturns ==
    /\ sender = "sending"
    /\ chat = {}
    /\ todo = {}
    /\ msg' = msg + 1
    /\ sender' = IF msg = Messages THEN "over" ELSE "ready"
    /\ UNCHANGED <<approved, chatIds, todo, chat, attempt, results, history>>

(* The process dies.                                                       *)
Die ==
    /\ sender # "over"
    /\ sender' = "over"
    /\ chat' = {}
    /\ todo' = {}
    /\ UNCHANGED <<approved, msg, chatIds, attempt, results, history>>

SendTo(c) == \/ PostAccepted(c) \/ PostAnswerLost(c) \/ PostRefused(c)
             \/ TooManyRequests(c) \/ RetriesExceeded(c)
Send == CollectChatIds \/ (\E c \in Chats : NextChat(c) \/ SendTo(c)) \/ SendReturns
SendNext == Send \/ Die \/ \E c \in Chats : Decide(c)

SendSpec == SendInit /\ [][SendNext]_sendVars

-----------------------------------------------------------------------------
(* Properties                                                              *)

(* Every variable has its type.                                            *)
SendTypeOK ==
    /\ approved \subseteq Chats \ {Admin}
    /\ sender \in {"ready", "sending", "over"}
    /\ msg \in 1..(Messages + 1)
    /\ sender = "sending" => msg <= Messages
    /\ chatIds \subseteq Chats
    /\ todo \subseteq chatIds
    /\ \E c \in Chats : chat \subseteq {c}
    /\ chat # {} => sender = "sending"
    /\ attempt \in 0..MaxTries
    /\ success \in PerMessage(SUBSET Chats)
    /\ failed \in PerMessage(SUBSET Chats)
    /\ received \in Counts
    /\ lost \in Counts
    /\ decisions \in Nat
    /\ revoked \in [Chats -> 0..(Messages + 1)]

(* A call of send has returned, and no other one has begun.                *)
Returned == msg > 1 /\ (sender = "ready" \/ msg > Messages)

(* A chat gets a message again only for an answer that was lost, so at     *)
(* most MaxTries times: the retries themselves repeat nothing.             *)
RepeatsExplained ==
    \A m \in 1..Messages, c \in Chats :
        /\ received[m][c] <= 1 + lost[m][c]
        /\ received[m][c] <= MaxTries

(* A chat counted in success_count has the message; one in failed_chat_ids *)
(* has at most copies whose answers were lost; and when send has returned, *)
(* every recipient that did not get the message is in failed_chat_ids.     *)
ResultsTell ==
    /\ \A m \in 1..Messages, c \in Chats :
          /\ c \in success[m] => received[m][c] > 0
          /\ c \in failed[m] => received[m][c] = lost[m][c]
    /\ Returned => \A c \in chatIds :
          received[msg - 1][c] = 0 => c \in failed[msg - 1]

(* When send has returned, every recipient is in exactly one of the two    *)
(* lists (total = success_count + failures): one chat's failure does not   *)
(* stop the others, and the loop forgets none.                             *)
EveryRecipientAnswered ==
    Returned =>
        /\ success[msg - 1] \cup failed[msg - 1] = chatIds
        /\ success[msg - 1] \cap failed[msg - 1] = {}

(* A rejected subscriber gets the message at hand at the latest: the       *)
(* stale list of recipients lives for one message.                         *)
RejectionHeeded ==
    \A m \in 1..Messages, c \in Chats \ {Admin} :
        received[m][c] > 0 /\ c \notin approved => m <= revoked[c]
=============================================================================
