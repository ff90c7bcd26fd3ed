------------------------- MODULE TelegramSendProofs -------------------------
(***************************************************************************)
(* Proofs about TelegramSend for any number of chats, messages, attempts   *)
(* and decisions.                                                          *)
(*                                                                         *)
(* SendInv says of a message what the loop has made of each chat so far:   *)
(* nothing before its turn (Blank), only lost answers during it, and after *)
(* it exactly one of the two results.                                      *)
(*                                                                         *)
(* Last, every step takes a sender down an order without endless descent.  *)
(***************************************************************************)
EXTENDS TelegramSend, TLAPS, FiniteSetTheorems, WellFoundedInduction

(* Message m has not been posted to chat c.                                *)
Blank(m, c) ==
    /\ received[m][c] = 0 /\ lost[m][c] = 0
    /\ c \notin success[m] /\ c \notin failed[m]

(* What the history of message m at chat c says at any time.               *)
Sound(m, c) ==
    /\ lost[m][c] <= received[m][c] /\ received[m][c] <= 1 + lost[m][c]
    /\ received[m][c] <= MaxTries
    /\ c \in success[m] => received[m][c] > 0
    /\ c \in failed[m] => received[m][c] = lost[m][c]
    /\ c \notin success[m] \cap failed[m]

SoundInv == \A m \in 1..Messages, c \in Chats : Sound(m, c)

(* The messages still to come.                                             *)
AheadInv ==
    \A m \in 1..Messages, c \in Chats :
        m > msg \/ (m = msg /\ sender = "ready") => Blank(m, c)

(* The chats of the message at hand.                                       *)
BeforeTurn(c) == c \in todo \/ c \notin chatIds => Blank(msg, c)
InTurn(c) ==
    c \in chat => /\ c \in chatIds /\ c \notin todo
                  /\ c \notin success[msg] /\ c \notin failed[msg]
                  /\ received[msg][c] = lost[msg][c] /\ lost[msg][c] <= attempt
AfterTurn(c) ==
    c \in chatIds => c \in todo \/ c \in chat \/ c \in success[msg] \/ c \in failed[msg]
RoundInv ==
    sender = "sending" => \A c \in Chats : BeforeTurn(c) /\ InTurn(c) /\ AfterTurn(c)

(* The recipients of the message before.                                   *)
AnsweredInv ==
    Returned =>
        \A c \in Chats : c \in chatIds <=> c \in success[msg - 1] \/ c \in failed[msg - 1]

(* Whom the list of recipients still names.                                *)
NamedInv ==
    sender = "sending" => \A c \in chatIds \ {Admin} : c \in approved \/ msg <= revoked[c]

SendInv == /\ SendTypeOK /\ SoundInv /\ AheadInv /\ RoundInv
           /\ AnsweredInv /\ NamedInv /\ RejectionHeeded

-----------------------------------------------------------------------------
(* What an action does to the counts and the lists                         *)

LEMMA CountEffect ==
    ASSUME NEW f \in Counts, NEW c \in Chats, msg \in 1..Messages
    PROVE  /\ Count(f, c) \in Counts
           /\ \A m \in 1..Messages, d \in Chats :
                 Count(f, c)[m][d] = IF m = msg /\ d = c THEN f[m][d] + 1 ELSE f[m][d]
BY DEF Count, Counts, PerMessage

LEMMA NoteEffect ==
    ASSUME NEW f \in PerMessage(SUBSET Chats), NEW c \in Chats, msg \in 1..Messages
    PROVE  /\ [f EXCEPT ![msg] = @ \cup {c}] \in PerMessage(SUBSET Chats)
           /\ \A m \in 1..Messages, d \in Chats :
                 d \in [f EXCEPT ![msg] = @ \cup {c}][m]
                     <=> d \in f[m] \/ (m = msg /\ d = c)
BY DEF PerMessage

LEMMA InitSend == SendInit => SendInv
<1> SUFFICES ASSUME SendInit PROVE SendInv
  OBVIOUS
<1>1. SendTypeOK
  <2>1. 1 \in 1..(Messages + 1)
    BY MessagesAssumption
  <2>2. 0 \in 0..MaxTries /\ 0 \in 0..(Messages + 1)
    BY MessagesAssumption, TriesAssumption
  <2>3. success \in PerMessage(SUBSET Chats) /\ failed \in PerMessage(SUBSET Chats)
    BY DEF SendInit, PerMessage
  <2>4. received \in Counts /\ lost \in Counts
    BY DEF SendInit, Counts, PerMessage
  <2>5. \E c \in Chats : chat \subseteq {c}
    BY AdminAssumption DEF SendInit
  <2> QED
    BY <2>1, <2>2, <2>3, <2>4, <2>5 DEF SendInit, SendTypeOK
<1>2. SoundInv /\ AheadInv
  BY TriesAssumption DEF SendInit, SoundInv, Sound, AheadInv, Blank
<1> QED
  BY <1>1, <1>2
     DEF SendInit, SendInv, RoundInv, AnsweredInv, Returned, NamedInv, RejectionHeeded

-----------------------------------------------------------------------------
(* Steps of the loop over the attempts.  Each is one of three outcomes for *)
(* the chat at hand: it was served, given up, or is tried again.           *)

(* The counts after a post that reached the chat (and was answered or not) *)
(* or did not.                                                             *)
Reaches(c, more, gone) ==
    /\ received' \in Counts /\ lost' \in Counts
    /\ \A m \in 1..Messages, d \in Chats :
          /\ received'[m][d] = IF m = msg /\ d = c THEN received[m][d] + more ELSE received[m][d]
          /\ lost'[m][d] = IF m = msg /\ d = c THEN lost[m][d] + gone ELSE lost[m][d]

SendFrame == UNCHANGED <<approved, sender, msg, chatIds, todo, decisions, revoked>>

LEMMA ServedStep ==
    ASSUME SendInv, NEW c \in Chats, Trying(c), Reaches(c, 1, 0), Served(c), SendFrame
    PROVE  SendInv'
<1> USE TriesAssumption, MessagesAssumption
<1>1. /\ sender = "sending" /\ msg \in 1..Messages /\ attempt \in 0..MaxTries
      /\ received \in Counts /\ lost \in Counts
      /\ success \in PerMessage(SUBSET Chats)
  BY DEF SendInv, SendTypeOK, Trying
<1>2. /\ success' \in PerMessage(SUBSET Chats)
      /\ \A m \in 1..Messages, d \in Chats :
            d \in success'[m] <=> d \in success[m] \/ (m = msg /\ d = c)
  BY <1>1, NoteEffect DEF Served
<1>3. /\ chat' = {} /\ UNCHANGED <<attempt, failed, approved, sender, msg, chatIds, todo,
                                   decisions, revoked>>
  BY DEF Served, SendFrame
<1>4. SendTypeOK'
  BY <1>1, <1>2, <1>3 DEF SendInv, SendTypeOK, Reaches
<1>5. \A m \in 1..Messages, d \in Chats : received[m][d] \in Nat /\ lost[m][d] \in Nat
  BY <1>1 DEF Counts, PerMessage
<1>6. /\ received[msg][c] = lost[msg][c] /\ lost[msg][c] <= attempt /\ c \notin failed[msg]
      /\ c \in chatIds /\ c \notin todo /\ chat = {c} /\ attempt < MaxTries
  BY <1>1 DEF SendInv, RoundInv, InTurn, Trying
<1>7. SoundInv'
  <2> SUFFICES ASSUME NEW m \in 1..Messages, NEW d \in Chats PROVE Sound(m, d)'
    BY <1>3 DEF SoundInv
  <2>1. Sound(m, d)
    BY DEF SendInv, SoundInv
  <2> QED
    BY <1>1, <1>2, <1>3, <1>5, <1>6, <2>1 DEF Sound, Reaches
<1>8. AheadInv'
  BY <1>1, <1>2, <1>3, <1>5 DEF SendInv, AheadInv, Blank, Reaches
<1>9. RoundInv'
  BY <1>1, <1>2, <1>3, <1>6 DEF SendInv, RoundInv, BeforeTurn, InTurn, AfterTurn, Blank, Reaches
<1>10. AnsweredInv' /\ NamedInv'
  BY <1>1, <1>3 DEF SendInv, AnsweredInv, Returned, NamedInv
<1>11. RejectionHeeded'
  BY <1>1, <1>3, <1>5, <1>6 DEF SendInv, RejectionHeeded, NamedInv, Reaches
<1> QED
  BY <1>4, <1>7, <1>8, <1>9, <1>10, <1>11 DEF SendInv

(* A chat that was not served, whether its post reached it or not.         *)
LEMMA GivenUpStep ==
    ASSUME SendInv, NEW c \in Chats, chat = {c}, NEW n \in {0, 1}, Reaches(c, n, n),
           n = 1 => attempt < MaxTries, GiveUp(c), SendFrame
    PROVE  SendInv'
<1> USE TriesAssumption, MessagesAssumption
<1>1. /\ sender = "sending" /\ msg \in 1..Messages /\ attempt \in 0..MaxTries
      /\ received \in Counts /\ lost \in Counts
      /\ failed \in PerMessage(SUBSET Chats)
  BY DEF SendInv, SendTypeOK
<1>2. /\ failed' \in PerMessage(SUBSET Chats)
      /\ \A m \in 1..Messages, d \in Chats :
            d \in failed'[m] <=> d \in failed[m] \/ (m = msg /\ d = c)
  BY <1>1, NoteEffect DEF GiveUp
<1>3. /\ chat' = {} /\ UNCHANGED <<attempt, success, approved, sender, msg, chatIds, todo,
                                   decisions, revoked>>
  BY DEF GiveUp, SendFrame
<1>4. SendTypeOK'
  BY <1>1, <1>2, <1>3 DEF SendInv, SendTypeOK, Reaches
<1>5. \A m \in 1..Messages, d \in Chats : received[m][d] \in Nat /\ lost[m][d] \in Nat
  BY <1>1 DEF Counts, PerMessage
<1>6. /\ received[msg][c] = lost[msg][c] /\ lost[msg][c] <= attempt /\ c \notin success[msg]
      /\ c \in chatIds /\ c \notin todo
  BY <1>1 DEF SendInv, RoundInv, InTurn
<1>7. SoundInv'
  <2> SUFFICES ASSUME NEW m \in 1..Messages, NEW d \in Chats PROVE Sound(m, d)'
    BY <1>3 DEF SoundInv
  <2>1. Sound(m, d)
    BY DEF SendInv, SoundInv
  <2> QED
    BY <1>1, <1>2, <1>3, <1>5, <1>6, <2>1 DEF Sound, Reaches
<1>8. AheadInv'
  BY <1>1, <1>2, <1>3, <1>5 DEF SendInv, AheadInv, Blank, Reaches
<1>9. RoundInv'
  BY <1>1, <1>2, <1>3, <1>6 DEF SendInv, RoundInv, BeforeTurn, InTurn, AfterTurn, Blank, Reaches
<1>10. AnsweredInv' /\ NamedInv'
  BY <1>1, <1>3 DEF SendInv, AnsweredInv, Returned, NamedInv
<1>11. RejectionHeeded'
  BY <1>1, <1>3, <1>5, <1>6 DEF SendInv, RejectionHeeded, NamedInv, Reaches
<1> QED
  BY <1>4, <1>7, <1>8, <1>9, <1>10, <1>11 DEF SendInv

LEMMA AgainStep ==
    ASSUME SendInv, NEW c \in Chats, Trying(c), NEW n \in {0, 1}, Reaches(c, n, n),
           NextAttempt, SendFrame
    PROVE  SendInv'
<1> USE TriesAssumption, MessagesAssumption
<1>1. /\ sender = "sending" /\ msg \in 1..Messages /\ attempt \in 0..MaxTries
      /\ received \in Counts /\ lost \in Counts
  BY DEF SendInv, SendTypeOK, Trying
<1>2. /\ attempt' = attempt + 1 /\ attempt < MaxTries
      /\ UNCHANGED <<chat, success, failed, approved, sender, msg, chatIds, todo, decisions, revoked>>
  BY DEF NextAttempt, SendFrame, Trying, results
<1>3. SendTypeOK'
  <2>1. attempt' \in 0..MaxTries
    BY <1>1, <1>2
  <2> QED
    BY <1>1, <1>2, <2>1 DEF SendInv, SendTypeOK, Reaches
<1>4. \A m \in 1..Messages, d \in Chats : received[m][d] \in Nat /\ lost[m][d] \in Nat
  BY <1>1 DEF Counts, PerMessage
<1>5. /\ received[msg][c] = lost[msg][c] /\ lost[msg][c] <= attempt /\ c \notin success[msg]
      /\ c \notin failed[msg] /\ c \in chatIds /\ c \notin todo /\ chat = {c}
  BY <1>1 DEF SendInv, RoundInv, InTurn, Trying
<1>6. SoundInv'
  <2> SUFFICES ASSUME NEW m \in 1..Messages, NEW d \in Chats PROVE Sound(m, d)'
    BY <1>2 DEF SoundInv
  <2>1. Sound(m, d)
    BY DEF SendInv, SoundInv
  <2> QED
    BY <1>1, <1>2, <1>4, <1>5, <2>1 DEF Sound, Reaches
<1>7. AheadInv'
  BY <1>1, <1>2, <1>4 DEF SendInv, AheadInv, Blank, Reaches
<1>8. RoundInv'
  <2> SUFFICES ASSUME NEW d \in Chats PROVE (BeforeTurn(d) /\ InTurn(d) /\ AfterTurn(d))'
    BY DEF RoundInv
  <2>1. BeforeTurn(d) /\ InTurn(d) /\ AfterTurn(d)
    BY <1>1 DEF SendInv, RoundInv
  <2> QED
    BY <1>1, <1>2, <1>4, <1>5, <2>1 DEF BeforeTurn, InTurn, AfterTurn, Blank, Reaches
<1>9. AnsweredInv' /\ NamedInv'
  BY <1>1, <1>2 DEF SendInv, AnsweredInv, Returned, NamedInv
<1>10. RejectionHeeded'
  BY <1>1, <1>2, <1>4, <1>5 DEF SendInv, RejectionHeeded, NamedInv, Reaches
<1> QED
  BY <1>3, <1>6, <1>7, <1>8, <1>9, <1>10 DEF SendInv

LEMMA SendToStep ==
    ASSUME SendInv, NEW c \in Chats, SendTo(c)
    PROVE  SendInv'
<1> USE TriesAssumption, MessagesAssumption
<1>1. /\ chat = {c} /\ msg \in 1..Messages /\ attempt \in 0..MaxTries
      /\ received \in Counts /\ lost \in Counts
  BY DEF SendInv, SendTypeOK, SendTo, PostAccepted, PostAnswerLost, PostRefused,
     TooManyRequests, RetriesExceeded, Trying
<1>2. \A m \in 1..Messages, d \in Chats : received[m][d] \in Nat /\ lost[m][d] \in Nat
  BY <1>1 DEF Counts, PerMessage
<1>3. UNCHANGED <<received, lost>> => Reaches(c, 0, 0)
  BY <1>1, <1>2 DEF Reaches
<1>4. SendFrame
  BY DEF SendTo, PostAccepted, PostAnswerLost, PostRefused, TooManyRequests,
     RetriesExceeded, SendFrame, history
<1>5. CASE PostAccepted(c)
  <2>1. Reaches(c, 1, 0)
    BY <1>1, <1>2, <1>5, CountEffect DEF PostAccepted, Reaches
  <2> QED
    BY <1>4, <1>5, <2>1, ServedStep DEF PostAccepted
<1>6. CASE PostAnswerLost(c)
  <2>1. Reaches(c, 1, 1)
    BY <1>1, <1>2, <1>6, CountEffect DEF PostAnswerLost, Reaches
  <2>2. Trying(c) /\ AttemptRaised(c) /\ attempt < MaxTries
    BY <1>6 DEF PostAnswerLost, Trying
  <2> QED
    BY <1>1, <1>4, <2>1, <2>2, GivenUpStep, AgainStep DEF AttemptRaised
<1>7. CASE PostRefused(c)
  <2>1. Trying(c) /\ AttemptRaised(c) /\ Reaches(c, 0, 0)
    BY <1>3, <1>7 DEF PostRefused, history
  <2> QED
    BY <1>1, <1>4, <2>1, GivenUpStep, AgainStep DEF AttemptRaised
<1>8. CASE TooManyRequests(c)
  BY <1>3, <1>4, <1>8, AgainStep DEF TooManyRequests, history
<1>9. CASE RetriesExceeded(c)
  BY <1>1, <1>3, <1>4, <1>9, GivenUpStep DEF RetriesExceeded, history
<1> QED
  BY <1>5, <1>6, <1>7, <1>8, <1>9 DEF SendTo

-----------------------------------------------------------------------------
(* The other steps                                                         *)

LEMMA DecideStep ==
    ASSUME SendInv, NEW c \in Chats, Decide(c)
    PROVE  SendInv'
<1> USE MessagesAssumption
<1>1. /\ msg \in 1..(Messages + 1) /\ sender \in {"ready", "sending", "over"}
      /\ UNCHANGED <<sender, msg, chatIds, todo, chat, attempt, success, failed, received, lost>>
  BY DEF Decide, SendInv, SendTypeOK, results
<1>2. /\ revoked \in [Chats -> 0..(Messages + 1)] /\ decisions \in Nat /\ c # Admin
      /\ approved \subseteq Chats \ {Admin}
  BY DEF SendInv, SendTypeOK, Decide
<1>3. revoked' \in [Chats -> 0..(Messages + 1)] /\ approved' \subseteq Chats \ {Admin}
  BY <1>1, <1>2 DEF Decide
<1>4. SendTypeOK'
  BY <1>1, <1>2, <1>3 DEF Decide, SendInv, SendTypeOK
<1>5. SoundInv' /\ AheadInv' /\ RoundInv' /\ AnsweredInv'
  BY <1>1 DEF SendInv, SoundInv, Sound, AheadInv, Blank, RoundInv, BeforeTurn, InTurn,
     AfterTurn, AnsweredInv, Returned
<1>6. NamedInv'
  <2> SUFFICES ASSUME sender = "sending", NEW d \in chatIds \ {Admin}, d \notin approved'
               PROVE  msg <= revoked'[d]
    BY <1>1 DEF NamedInv
  <2>1. d \in Chats /\ (d \in approved \/ msg <= revoked[d])
    BY DEF SendInv, SendTypeOK, NamedInv
  <2> QED
    BY <1>1, <1>2, <2>1 DEF Decide
<1>7. RejectionHeeded'
  <2> SUFFICES ASSUME NEW m \in 1..Messages, NEW d \in Chats \ {Admin},
                      received[m][d] > 0, d \notin approved'
               PROVE  m <= revoked'[d]
    BY <1>1 DEF RejectionHeeded
  <2>1. CASE d = c /\ c \in approved
    <3>1. m <= msg /\ (sender = "ready" => m # msg)
      BY <1>1, <2>1 DEF SendInv, AheadInv, Blank
    <3> QED
      BY <1>1, <1>2, <2>1, <3>1 DEF Decide
  <2>2. CASE ~(d = c /\ c \in approved)
    BY <1>2, <2>2 DEF SendInv, RejectionHeeded, Decide
  <2> QED
    BY <2>1, <2>2
<1> QED
  BY <1>4, <1>5, <1>6, <1>7 DEF SendInv

LEMMA CollectStep ==
    ASSUME SendInv, CollectChatIds
    PROVE  SendInv'
<1> USE MessagesAssumption
<1>1. /\ sender = "ready" /\ sender' = "sending" /\ msg \in 1..Messages /\ chat = {}
      /\ chatIds' \subseteq {Admin} \cup approved /\ todo' = chatIds'
      /\ UNCHANGED <<approved, msg, chat, attempt, success, failed, received, lost,
                     decisions, revoked>>
  BY DEF SendInv, SendTypeOK, CollectChatIds, ApprovedNow, results, history
<1>2. SendTypeOK'
  BY <1>1, AdminAssumption DEF SendInv, SendTypeOK
<1>3. SoundInv' /\ AheadInv' /\ AnsweredInv' /\ RejectionHeeded'
  BY <1>1 DEF SendInv, SoundInv, Sound, AheadInv, Blank, AnsweredInv, Returned, RejectionHeeded
<1>4. RoundInv' /\ NamedInv'
  BY <1>1 DEF SendInv, AheadInv, Blank, RoundInv, BeforeTurn, InTurn, AfterTurn, NamedInv
<1> QED
  BY <1>2, <1>3, <1>4 DEF SendInv

LEMMA NextChatStep ==
    ASSUME SendInv, NEW c \in Chats, NextChat(c)
    PROVE  SendInv'
<1>1. /\ sender = "sending" /\ c \in todo /\ todo' = todo \ {c} /\ chat = {} /\ chat' = {c}
      /\ attempt' = 0 /\ c \in chatIds
      /\ UNCHANGED <<approved, sender, msg, chatIds, success, failed, received, lost,
                     decisions, revoked>>
  BY DEF SendInv, SendTypeOK, NextChat, results, history
<1>2. SendTypeOK'
  <2>1. 0 \in 0..MaxTries
    BY TriesAssumption
  <2> QED
    BY <1>1, <2>1 DEF SendInv, SendTypeOK
<1>3. SoundInv' /\ AheadInv' /\ AnsweredInv' /\ RejectionHeeded' /\ NamedInv'
  BY <1>1
     DEF SendInv, SoundInv, Sound, AheadInv, Blank, AnsweredInv, Returned, RejectionHeeded,
         NamedInv
<1>4. RoundInv'
  BY <1>1 DEF SendInv, RoundInv, BeforeTurn, InTurn, AfterTurn, Blank
<1> QED
  BY <1>2, <1>3, <1>4 DEF SendInv

LEMMA ReturnStep ==
    ASSUME SendInv, SendReturns
    PROVE  SendInv'
<1> USE MessagesAssumption
<1>1. /\ sender = "sending" /\ msg \in 1..Messages /\ chat = {} /\ todo = {}
      /\ msg' = msg + 1 /\ sender' = IF msg = Messages THEN "over" ELSE "ready"
      /\ UNCHANGED <<approved, chatIds, todo, chat, attempt, success, failed, received,
                     lost, decisions, revoked>>
  BY DEF SendInv, SendTypeOK, SendReturns, results, history
<1>2. SendTypeOK'
  BY <1>1 DEF SendInv, SendTypeOK
<1>3. SoundInv' /\ RejectionHeeded' /\ RoundInv' /\ NamedInv'
  BY <1>1 DEF SendInv, SoundInv, Sound, RejectionHeeded, RoundInv, NamedInv
<1>4. AheadInv'
  BY <1>1 DEF SendInv, AheadInv, Blank
<1>5. AnsweredInv'
  BY <1>1 DEF SendInv, AnsweredInv, Returned, RoundInv, BeforeTurn, AfterTurn, Blank
<1> QED
  BY <1>2, <1>3, <1>4, <1>5 DEF SendInv

LEMMA DieStep ==
    ASSUME SendInv, Die
    PROVE  SendInv'
<1>1. /\ sender' = "over" /\ chat' = {} /\ todo' = {}
      /\ UNCHANGED <<approved, msg, chatIds, attempt, success, failed, received, lost,
                     decisions, revoked>>
  BY DEF Die, results, history
<1> QED
  BY <1>1
     DEF SendInv, SendTypeOK, SoundInv, Sound, AheadInv, Blank, RoundInv, AnsweredInv, Returned,
     NamedInv, RejectionHeeded

LEMMA SendStep == SendInv /\ [SendNext]_sendVars => SendInv'
<1>1. ASSUME SendInv, UNCHANGED sendVars PROVE SendInv'
  BY <1>1
     DEF sendVars, SendInv, SendTypeOK, SoundInv, Sound, AheadInv, Blank, RoundInv, BeforeTurn,
     InTurn, AfterTurn, AnsweredInv, Returned, NamedInv, RejectionHeeded
<1> QED
  BY <1>1, SendToStep, DecideStep, CollectStep, NextChatStep, ReturnStep, DieStep
     DEF SendNext, Send

(* The inductive invariant of the sender holds in every run of it.         *)
THEOREM SendInvariant == SendSpec => []SendInv
BY InitSend, SendStep, PTL DEF SendSpec

-----------------------------------------------------------------------------

(* The variables keep their types, for any number of chats and messages.   *)
THEOREM SendTypeCorrect == SendSpec => []SendTypeOK
BY SendInvariant, PTL DEF SendInv

(* Retries repeat nothing that was answered, and at most MaxTries times.   *)
THEOREM RepeatsAreLost == SendSpec => []RepeatsExplained
<1>1. SendInv => RepeatsExplained
  BY DEF SendInv, SoundInv, Sound, RepeatsExplained
<1> QED
  BY <1>1, SendInvariant, PTL

(* The two lists tell what happened to each chat, and a recipient without  *)
(* the message is among the failed ones.                                   *)
THEOREM ResultsAreTrue == SendSpec => []ResultsTell
<1>1. ASSUME SendInv, Returned, NEW c \in chatIds, received[msg - 1][c] = 0
      PROVE  c \in failed[msg - 1]
  <2>1. msg - 1 \in 1..Messages /\ c \in Chats
    BY <1>1, MessagesAssumption DEF SendInv, SendTypeOK, Returned
  <2> QED
    BY <1>1, <2>1 DEF SendInv, AnsweredInv, Returned, SoundInv, Sound
<1>2. SendInv => ResultsTell
  BY <1>1 DEF SendInv, SoundInv, Sound, ResultsTell
<1> QED
  BY <1>2, SendInvariant, PTL

(* Each recipient is in exactly one of the lists when send returns.        *)
THEOREM NobodyForgotten == SendSpec => []EveryRecipientAnswered
<1>1. ASSUME SendInv, Returned
      PROVE  /\ success[msg - 1] \cup failed[msg - 1] = chatIds
             /\ success[msg - 1] \cap failed[msg - 1] = {}
  <2>1. msg - 1 \in 1..Messages
    BY <1>1, MessagesAssumption DEF SendInv, SendTypeOK, Returned
  <2>2. success[msg - 1] \subseteq Chats /\ failed[msg - 1] \subseteq Chats /\ chatIds \subseteq Chats
    BY <1>1, <2>1 DEF SendInv, SendTypeOK, PerMessage
  <2> QED
    BY <1>1, <2>1, <2>2 DEF SendInv, AnsweredInv, Returned, SoundInv, Sound
<1>2. SendInv => EveryRecipientAnswered
  BY <1>1 DEF EveryRecipientAnswered
<1> QED
  BY <1>2, SendInvariant, PTL

(* A rejected subscriber gets at most the message at hand.                 *)
THEOREM RejectionIsHeeded == SendSpec => []RejectionHeeded
BY SendInvariant, PTL DEF SendInv

-----------------------------------------------------------------------------
(* Sending ends: what is left to do, in an order without endless descent   *)

(* Messages (each twice: to be begun and to be ended), chats of the message*)
(* at hand (to be reached and to be served), attempts at this chat.        *)
MessagesLeft == IF sender = "over" THEN 0
                ELSE 2 * (Messages + 1 - msg) + IF sender = "ready" THEN 1 ELSE 0
ChatsLeft    == 2 * Cardinality(todo) + IF chat = {} THEN 0 ELSE 1
TriesLeft    == MaxTries - attempt

Left == <<MessagesLeft, <<ChatsLeft, TriesLeft>>>>

(* Fewer messages, or as many and fewer chats, or as many of both and fewer*)
(* attempts.                                                               *)
Nats  == {p \in Nat \X Nat : p[1] < p[2]}
Pairs == LexPairOrdering(Nats, Nats, Nat, Nat)
Less  == LexPairOrdering(Nats, Pairs, Nat, Nat \X Nat)
Descends == <<Left', Left>> \in Less

LEMMA LessEnds == IsWellFoundedOn(Less, Nat \X (Nat \X Nat))
<1>1. Nats = OpToRel(<, Nat)
  BY SMT DEF Nats, OpToRel
<1>2. IsWellFoundedOn(Pairs, Nat \X Nat)
  BY <1>1, NatLessThanWellFounded, WFLexPairOrdering DEF Pairs
<1> QED
  BY <1>1, <1>2, NatLessThanWellFounded, WFLexPairOrdering DEF Less

LEMMA LessIs ==
    ASSUME NEW a \in Nat, NEW b \in Nat, NEW c \in Nat, NEW d \in Nat, NEW e \in Nat,
           NEW f \in Nat, a < d \/ (a = d /\ (b < e \/ (b = e /\ c < f)))
    PROVE  <<<<a, <<b, c>>>>, <<d, <<e, f>>>>>> \in Less
<1>1. b < e \/ (b = e /\ c < f) => <<<<b, c>>, <<e, f>>>> \in Pairs
  BY DEF Pairs, LexPairOrdering, Nats
<1>2. a < d => <<a, d>> \in Nats
  BY DEF Nats
<1>3. <<a, <<b, c>>>> \in Nat \X (Nat \X Nat) /\ <<d, <<e, f>>>> \in Nat \X (Nat \X Nat)
  OBVIOUS
<1> QED
  BY <1>1, <1>2, <1>3 DEF Less, LexPairOrdering

LEMMA LeftIsNat ==
    ASSUME IsFiniteSet(Chats), SendInv, SendInv'
    PROVE  /\ MessagesLeft \in Nat /\ ChatsLeft \in Nat /\ TriesLeft \in Nat
           /\ MessagesLeft' \in Nat /\ ChatsLeft' \in Nat /\ TriesLeft' \in Nat
           /\ Cardinality(todo) \in Nat /\ Cardinality(todo') \in Nat
           /\ IsFiniteSet(todo)
<1>1. todo \subseteq Chats /\ todo' \subseteq Chats
  BY DEF SendInv, SendTypeOK
<1>2. /\ IsFiniteSet(todo) /\ Cardinality(todo) \in Nat /\ Cardinality(todo') \in Nat
  BY <1>1, FS_Subset, FS_CardinalityType
<1>3. /\ msg \in 1..(Messages + 1) /\ attempt \in 0..MaxTries
      /\ msg' \in 1..(Messages + 1) /\ attempt' \in 0..MaxTries
  BY DEF SendInv, SendTypeOK
<1>4. MessagesLeft \in Nat /\ MessagesLeft' \in Nat
  <2>1. \A m \in 1..(Messages + 1) : Messages + 1 - m \in Nat
    BY MessagesAssumption
  <2> QED
    BY <1>3, <2>1 DEF MessagesLeft
<1>5. ChatsLeft \in Nat /\ ChatsLeft' \in Nat
  BY <1>2 DEF ChatsLeft
<1>6. TriesLeft \in Nat /\ TriesLeft' \in Nat
  <2>1. \A n \in 0..MaxTries : MaxTries - n \in Nat
    BY TriesAssumption
  <2> QED
    BY <1>3, <2>1 DEF TriesLeft
<1> QED
  BY <1>2, <1>4, <1>5, <1>6

LEMMA Falls ==
    ASSUME IsFiniteSet(Chats), SendInv, SendInv',
           \/ MessagesLeft' < MessagesLeft
           \/ MessagesLeft' = MessagesLeft /\ ChatsLeft' < ChatsLeft
           \/ MessagesLeft' = MessagesLeft /\ ChatsLeft' = ChatsLeft /\ TriesLeft' < TriesLeft
    PROVE  Descends
BY LeftIsNat, LessIs DEF Descends, Left

LEMMA SendFalls ==
    ASSUME IsFiniteSet(Chats), SendInv, SendInv', Send
    PROVE  Descends
<1> USE MessagesAssumption, TriesAssumption
<1>1. msg \in 1..(Messages + 1) /\ attempt \in 0..MaxTries /\ attempt' \in 0..MaxTries
  BY DEF SendInv, SendTypeOK
<1>2. CASE CollectChatIds
  <2>1. sender = "ready" /\ sender' = "sending" /\ msg' = msg
    BY <1>2 DEF CollectChatIds
  <2> QED
    BY <1>1, <2>1, Falls DEF MessagesLeft
<1>3. ASSUME NEW c \in Chats, NextChat(c) PROVE Descends
  <2>1. /\ c \in todo /\ todo' = todo \ {c} /\ chat = {} /\ chat' = {c}
        /\ UNCHANGED <<sender, msg>>
    BY <1>3 DEF NextChat
  <2>2. Cardinality(todo') = Cardinality(todo) - 1
    BY <2>1, LeftIsNat, FS_RemoveElement
  <2>3. MessagesLeft' = MessagesLeft
    BY <2>1 DEF MessagesLeft
  <2>4. ChatsLeft' < ChatsLeft
    BY <2>1, <2>2, LeftIsNat DEF ChatsLeft
  <2> QED
    BY <2>3, <2>4, Falls
<1>4. ASSUME NEW c \in Chats, SendTo(c) PROVE Descends
  <2>1. /\ chat = {c} /\ UNCHANGED <<sender, msg, todo>>
        /\ \/ chat' = {}
           \/ chat' = chat /\ attempt' = attempt + 1
    BY <1>4 DEF SendTo, PostAccepted, PostAnswerLost, PostRefused, TooManyRequests,
       RetriesExceeded, Trying, Served, AttemptRaised, GiveUp, NextAttempt, results, history
  <2>2. MessagesLeft' = MessagesLeft
    BY <2>1 DEF MessagesLeft
  <2>3. CASE chat' = {}
    <3>1. ChatsLeft' < ChatsLeft
      BY <2>1, <2>3, LeftIsNat DEF ChatsLeft
    <3> QED
      BY <2>2, <3>1, Falls
  <2>4. CASE chat' = chat /\ attempt' = attempt + 1
    <3>1. ChatsLeft' = ChatsLeft /\ TriesLeft' < TriesLeft
      BY <1>1, <2>1, <2>4 DEF ChatsLeft, TriesLeft
    <3> QED
      BY <2>2, <3>1, Falls
  <2> QED
    BY <2>1, <2>3, <2>4
<1>5. CASE SendReturns
  <2>1. /\ sender = "sending" /\ msg' = msg + 1
        /\ sender' = IF msg = Messages THEN "over" ELSE "ready"
    BY <1>5 DEF SendReturns
  <2>2. msg <= Messages
    BY <2>1 DEF SendInv, SendTypeOK
  <2> QED
    BY <1>1, <2>1, <2>2, Falls DEF MessagesLeft
<1> QED
  BY <1>2, <1>3, <1>4, <1>5 DEF Send

(* A run has only so much to send: whatever Telegram answers, each step of *)
(* the sender takes it down an order without endless descent, and neither  *)
(* the administrator's decisions nor the death of the process take it up.  *)
THEOREM SendingIsFinite ==
    ASSUME IsFiniteSet(Chats)
    PROVE  /\ IsWellFoundedOn(Less, Nat \X (Nat \X Nat))
           /\ SendSpec => [][(Send => Descends) /\ (Descends \/ UNCHANGED Left)]_sendVars
<1> DEFINE GoesOn == (Send => Descends) /\ (Descends \/ UNCHANGED Left)
<1>1. ASSUME SendInv, SendInv', Die PROVE Descends
  <2>1. msg \in 1..(Messages + 1) /\ (sender = "sending" => msg <= Messages)
        /\ sender \in {"ready", "sending", "over"} /\ sender # "over" /\ sender' = "over"
    BY <1>1 DEF SendInv, SendTypeOK, Die
  <2>2. MessagesLeft' < MessagesLeft
    BY <2>1, MessagesAssumption DEF MessagesLeft
  <2> QED
    BY <1>1, <2>2, Falls
<1>2. ASSUME NEW c \in Chats, Decide(c) PROVE UNCHANGED Left
  BY <1>2 DEF Decide, Left, MessagesLeft, ChatsLeft, TriesLeft
<1>3. SendInv /\ SendInv' /\ [SendNext]_sendVars => [GoesOn]_sendVars
  BY <1>1, <1>2, SendFalls DEF SendNext
<1>4. SendSpec => [][GoesOn]_sendVars
  BY <1>3, SendInvariant, PTL DEF SendSpec
<1> QED
  BY <1>4, LessEnds
=============================================================================
