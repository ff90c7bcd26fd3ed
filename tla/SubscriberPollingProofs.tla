---------------------- MODULE SubscriberPollingProofs ----------------------
(***************************************************************************)
(* Proofs about SubscriberPolling, for any numbers of chats, polls and     *)
(* messages and any size of an answer: the types, that no request is lost, *)
(* that only overlapping or broken polls handle a message twice, and that  *)
(* decisions of the administrator stay, and that no poll goes on without   *)
(* end.                                                                    *)
(***************************************************************************)
EXTENDS SubscriberPolling, TLAPS, WellFoundedInduction

(* What each poller still knows is covered by what has been handled.       *)
AnswersCovered ==
    \A p \in Pollers :
        /\ \A u \in 1..Len(sent) : u < from[p] => u \in handled
        /\ polling[p] = "answered" =>
              /\ next[p] <= last[p] + 1
              /\ \A u \in 1..Len(sent) : u < next[p] => u \in handled

(* So is what Telegram has forgotten and what the stored offset skips.     *)
OffsetCovered ==
    \A u \in 1..Len(sent) : u <= confirmed \/ u < offset => u \in handled

HandledRegistered ==
    \A u \in handled :
        sent[u].start => sub[sent[u].chat] # "none" \/ sent[u].chat \in deleted

PollInv == PollTypeOK /\ AnswersCovered /\ OffsetCovered /\ HandledRegistered

(* As long as polls neither overlap nor break, the offset is past          *)
(* everything handled whenever no answer is being worked on.               *)
Undisturbed ==
    /\ again = {}
    /\ \A p, q \in Pollers : polling[p] # "idle" /\ polling[q] # "idle" => p = q
    /\ (\A p \in Pollers : polling[p] # "answered") => \A u \in handled : u < offset
    /\ \A p \in Pollers : polling[p] = "loaded" => from[p] = offset
    /\ \A p \in Pollers : polling[p] = "answered" => \A u \in handled : u < next[p]

OnceInv == ~disturbed => Undisturbed

-----------------------------------------------------------------------------

(* What appending a message changes.                                       *)
LEMMA AppendFacts ==
    ASSUME sent \in Seq(Update), NEW m \in Update
    PROVE  /\ Append(sent, m) \in Seq(Update)
           /\ Len(Append(sent, m)) = Len(sent) + 1
           /\ Len(sent) \in Nat
           /\ \A u \in 1..Len(sent) : Append(sent, m)[u] = sent[u]
  OBVIOUS

(* Every message has a chat.                                               *)
LEMMA MessageType ==
    ASSUME PollTypeOK, NEW u \in 1..Len(sent)
    PROVE  sent[u] \in Update /\ sent[u].chat \in Chats
<1>1. sent[u] \in Update
  BY DEF PollTypeOK
<1> QED
  BY <1>1 DEF Update

(* Where an answer that starts after message c ends.                       *)
LEMMA AnswerEnd ==
    \A l \in Nat : \A c \in 0..l :
        /\ Smaller(l, c + BatchLimit) \in 0..l
        /\ c <= Smaller(l, c + BatchLimit)
  BY BatchLimitAssumption DEF Smaller

LEMMA InitPollInv == PollInit => PollInv /\ OnceInv
<1> SUFFICES ASSUME PollInit PROVE PollInv /\ OnceInv
  OBVIOUS
<1>1. Len(sent) = 0 /\ sent \in Seq(Update)
  BY DEF PollInit
<1>2. PollInv
  <2>1. /\ 0 \in 0..Len(sent) /\ 0 \in 0..(Len(sent) + 1)
        /\ 1 \in 1..(Len(sent) + 1) /\ {} \subseteq 1..Len(sent)
    BY <1>1
  <2>2. PollTypeOK
    BY <1>1, <2>1 DEF PollInit, PollTypeOK, Status
  <2>3. AnswersCovered /\ OffsetCovered /\ HandledRegistered
    BY <1>1 DEF PollInit, AnswersCovered, OffsetCovered, HandledRegistered
  <2> QED
    BY <2>2, <2>3 DEF PollInv
<1>3. OnceInv
  BY DEF PollInit, OnceInv, Undisturbed
<1> QED
  BY <1>2, <1>3

(* The chats.                                                              *)
LEMMA MessageStep ==
    ASSUME PollInv, OnceInv, NEW c \in Chats, NEW start \in BOOLEAN,
           Message(c, start)
    PROVE  PollInv' /\ OnceInv'
<1> DEFINE m == [chat |-> c, start |-> start]
<1>1. m \in Update /\ sent' = Append(sent, m)
  BY DEF Message, Update
<1>2. /\ sent' \in Seq(Update)
      /\ Len(sent') = Len(sent) + 1
      /\ Len(sent) \in Nat
      /\ \A u \in 1..Len(sent) : sent'[u] = sent[u]
  BY <1>1, AppendFacts DEF PollInv, PollTypeOK
<1> HIDE DEF m
<1>3. UNCHANGED <<confirmed, offset, sub, polling, from, next, last, faults,
                  deleted, handled, again, disturbed>>
  BY DEF Message, poller, pollHistory
<1>4. PollTypeOK'
  BY <1>2, <1>3 DEF PollInv, PollTypeOK
<1>5. AnswersCovered'
  <2> SUFFICES ASSUME NEW p \in Pollers
               PROVE  /\ \A u \in 1..Len(sent)' : u < from[p] => u \in handled
                      /\ polling[p] = "answered" =>
                            /\ next[p] <= last[p] + 1
                            /\ \A u \in 1..Len(sent)' : u < next[p] => u \in handled
    BY <1>3 DEF AnswersCovered
  <2>1. from[p] <= Len(sent) + 1 /\ next[p] <= Len(sent) + 1
        /\ from[p] \in Nat /\ next[p] \in Nat
    BY <1>2 DEF PollInv, PollTypeOK
  <2> QED
    BY <1>2, <2>1 DEF PollInv, AnswersCovered
<1>6. OffsetCovered'
  BY <1>2, <1>3 DEF PollInv, PollTypeOK, OffsetCovered
<1>7. HandledRegistered'
  BY <1>2, <1>3 DEF PollInv, PollTypeOK, HandledRegistered
<1>8. OnceInv'
  BY <1>3 DEF OnceInv, Undisturbed
<1> QED
  BY <1>4, <1>5, <1>6, <1>7, <1>8 DEF PollInv

(* The administrator changes the table only, and leaves a row unless the   *)
(* chat is deleted.                                                        *)
LEMMA TableStep ==
    ASSUME PollInv, OnceInv,
           UNCHANGED <<sent, confirmed, offset, polling, from, next, last, faults,
                       handled, again, disturbed>>,
           sub' \in [Chats -> Status], deleted \subseteq deleted',
           deleted' \subseteq Chats,
           \A c \in Chats : sub[c] # "none" => sub'[c] # "none" \/ c \in deleted'
    PROVE  PollInv' /\ OnceInv'
<1>1. PollTypeOK' /\ AnswersCovered' /\ OffsetCovered' /\ OnceInv'
  BY DEF PollInv, PollTypeOK, AnswersCovered, OffsetCovered, OnceInv, Undisturbed
<1>2. HandledRegistered'
  <2>1. \A u \in handled : sent[u].chat \in Chats
    BY MessageType DEF PollInv, PollTypeOK
  <2> QED
    BY <2>1 DEF PollInv, HandledRegistered
<1> QED
  BY <1>1, <1>2 DEF PollInv

LEMMA DecideStep ==
    ASSUME PollInv, OnceInv, NEW c \in Chats,
           NEW status \in {"approved", "rejected"}, Decide(c, status)
    PROVE  PollInv' /\ OnceInv'
<1>1. sub' \in [Chats -> Status] /\ \A d \in Chats : sub[d] # "none" => sub'[d] # "none"
  BY DEF PollInv, PollTypeOK, Decide, Status
<1> QED
  BY <1>1, TableStep DEF Decide, telegram, poller, pollHistory, PollInv, PollTypeOK

LEMMA DeleteStep ==
    ASSUME PollInv, OnceInv, NEW c \in Chats, Delete(c)
    PROVE  PollInv' /\ OnceInv'
<1>1. /\ sub' \in [Chats -> Status]
      /\ deleted' = deleted \cup {c}
      /\ \A d \in Chats : sub[d] # "none" => sub'[d] # "none" \/ d \in deleted'
  BY DEF PollInv, PollTypeOK, Delete, Status
<1> QED
  BY <1>1, TableStep DEF Delete, telegram, poller, PollInv, PollTypeOK

(* The polls.                                                              *)
LEMMA LoadOffsetStep ==
    ASSUME PollInv, OnceInv, NEW p \in Pollers, LoadOffset(p)
    PROVE  PollInv' /\ OnceInv'
<1> USE DEF LoadOffset, telegram
<1>1. PollTypeOK'
  BY DEF PollInv, PollTypeOK
<1>2. AnswersCovered'
  BY DEF PollInv, PollTypeOK, AnswersCovered, OffsetCovered
<1>3. OffsetCovered' /\ HandledRegistered'
  BY DEF PollInv, OffsetCovered, HandledRegistered
<1>4. OnceInv'
  BY DEF PollInv, PollTypeOK, OnceInv, Undisturbed
<1> QED
  BY <1>1, <1>2, <1>3, <1>4 DEF PollInv

(* Confirming what the loaded offset skips forgets only handled messages.  *)
LEMMA ConfirmFacts ==
    ASSUME PollInv, NEW p \in Pollers, Confirm(p)
    PROVE  /\ confirmed' \in 0..Len(sent)
           /\ \A u \in 1..Len(sent) : u <= confirmed' => u \in handled
           /\ from[p] - 1 <= confirmed'
<1>1. from[p] \in 0..(Len(sent) + 1) /\ confirmed \in 0..Len(sent)
      /\ Len(sent) \in Nat
  BY DEF PollInv, PollTypeOK
<1>2. CASE from[p] > confirmed
  BY <1>1, <1>2 DEF Confirm, PollInv, AnswersCovered
<1>3. CASE ~(from[p] > confirmed)
  BY <1>1, <1>3 DEF Confirm, PollInv, OffsetCovered
<1> QED
  BY <1>2, <1>3

LEMMA GetUpdatesStep ==
    ASSUME PollInv, OnceInv, NEW p \in Pollers, GetUpdates(p)
    PROVE  PollInv' /\ OnceInv'
<1> DEFINE k   == confirmed'
           end == Smaller(Len(sent), k + BatchLimit)
<1>1. /\ polling[p] = "loaded" /\ Confirm(p)
      /\ UNCHANGED <<sent, offset, sub, faults, deleted, handled, again, disturbed>>
  BY DEF GetUpdates, pollHistory
<1>2. /\ k \in 0..Len(sent) /\ Len(sent) \in Nat
      /\ \A u \in 1..Len(sent) : u <= k => u \in handled
      /\ from[p] - 1 <= k
  BY <1>1, ConfirmFacts DEF PollInv, PollTypeOK
<1>3. OffsetCovered' /\ HandledRegistered'
  BY <1>1, <1>2 DEF PollInv, OffsetCovered, HandledRegistered
<1>4. CASE Len(sent) = k
  <2>1. Ended(p)
    BY <1>4 DEF GetUpdates
  <2>2. PollTypeOK'
    BY <1>1, <1>2, <2>1 DEF Ended, PollInv, PollTypeOK
  <2>3. AnswersCovered'
    BY <1>1, <2>1 DEF Ended, PollInv, PollTypeOK, AnswersCovered
  <2>4. OnceInv'
    BY <1>1, <2>1 DEF Ended, PollInv, PollTypeOK, OnceInv, Undisturbed
  <2> QED
    BY <1>3, <2>2, <2>3, <2>4 DEF PollInv
<1>5. CASE Len(sent) # k
  <2>1. /\ next' = [next EXCEPT ![p] = k + 1]
        /\ last' = [last EXCEPT ![p] = end]
        /\ polling' = [polling EXCEPT ![p] = "answered"]
        /\ from' = from
    BY <1>5 DEF GetUpdates
  <2>2. confirmed' \in 0..Len(sent)
    BY <1>2
  <2> HIDE DEF k
  <2>3. end \in 0..Len(sent) /\ k <= end
    BY <1>2, AnswerEnd
  <2> HIDE DEF end
  <2>4. PollTypeOK'
    <3>1. next' \in [Pollers -> 1..(Len(sent) + 1)] /\ last' \in [Pollers -> 0..Len(sent)]
      BY <1>2, <1>5, <2>1, <2>3 DEF PollInv, PollTypeOK
    <3> QED
      BY <1>1, <2>1, <2>2, <3>1 DEF PollInv, PollTypeOK
  <2>5. AnswersCovered'
    BY <1>1, <1>2, <2>1, <2>3 DEF PollInv, PollTypeOK, AnswersCovered
  <2>6. OnceInv'
    <3> SUFFICES ASSUME ~disturbed PROVE Undisturbed'
      BY <1>1 DEF OnceInv
    <3>1. \A q \in Pollers : q # p => polling[q] = "idle"
      BY <1>1 DEF OnceInv, Undisturbed
    <3>2. from[p] = offset /\ \A u \in handled : u < offset
      BY <1>1, <3>1 DEF OnceInv, Undisturbed
    <3>3. \A u \in handled : u < k + 1
      BY <1>2, <3>2 DEF PollInv, PollTypeOK
    <3> QED
      BY <1>1, <2>1, <3>1, <3>3 DEF OnceInv, Undisturbed, PollInv, PollTypeOK
  <2> QED
    BY <1>3, <2>4, <2>5, <2>6 DEF PollInv
<1> QED
  BY <1>4, <1>5

LEMMA ProcessUpdateStep ==
    ASSUME PollInv, OnceInv, NEW p \in Pollers, ProcessUpdate(p)
    PROVE  PollInv' /\ OnceInv'
<1> DEFINE u == next[p]
<1>1. /\ polling[p] = "answered" /\ u <= last[p]
      /\ sub' = IF sent[u].start
                THEN [sub EXCEPT ![sent[u].chat] = Registered(sub[sent[u].chat])]
                ELSE sub
      /\ handled' = handled \cup {u}
      /\ again' = again \cup ({u} \cap handled)
      /\ next' = [next EXCEPT ![p] = u + 1]
      /\ UNCHANGED <<sent, confirmed, offset, polling, from, last, faults, deleted,
                     disturbed>>
  BY DEF ProcessUpdate, telegram
<1>2. u \in 1..Len(sent) /\ Len(sent) \in Nat /\ last[p] \in 0..Len(sent)
  BY <1>1 DEF PollInv, PollTypeOK
<1>3. sent[u].chat \in Chats
  BY <1>2, MessageType DEF PollInv
<1> HIDE DEF u
<1>4. /\ sub' \in [Chats -> Status]
      /\ sent[u].start => sub'[sent[u].chat] # "none"
      /\ \A c \in Chats : sub[c] # "none" => sub'[c] # "none"
  BY <1>1, <1>3 DEF PollInv, PollTypeOK, Status, Registered
<1>5. PollTypeOK'
  BY <1>1, <1>2, <1>4 DEF PollInv, PollTypeOK
<1>6. AnswersCovered'
  BY <1>1, <1>2 DEF PollInv, PollTypeOK, AnswersCovered, u
<1>7. OffsetCovered'
  BY <1>1 DEF PollInv, OffsetCovered
<1>8. HandledRegistered'
  <2>1. \A v \in handled : sent[v].chat \in Chats
    BY MessageType DEF PollInv, PollTypeOK
  <2> QED
    BY <1>1, <1>4, <2>1 DEF PollInv, HandledRegistered
<1>9. OnceInv'
  <2> SUFFICES ASSUME ~disturbed PROVE Undisturbed'
    BY <1>1 DEF OnceInv
  <2>1. again = {} /\ \A v \in handled : v < u
    BY <1>1 DEF OnceInv, Undisturbed, u
  <2>2. again' = {} /\ \A v \in handled' : v < u + 1
    BY <1>1, <1>2, <2>1 DEF PollInv, PollTypeOK
  <2> QED
    BY <1>1, <2>2 DEF OnceInv, Undisturbed, PollInv, PollTypeOK
<1> QED
  BY <1>5, <1>6, <1>7, <1>8, <1>9 DEF PollInv

LEMMA SaveOffsetStep ==
    ASSUME PollInv, OnceInv, NEW p \in Pollers, SaveOffset(p)
    PROVE  PollInv' /\ OnceInv'
<1>1. /\ polling[p] = "answered" /\ next[p] > last[p] /\ offset' = last[p] + 1
      /\ Ended(p)
      /\ UNCHANGED <<sent, confirmed, sub, faults, deleted, handled, again, disturbed>>
  BY DEF SaveOffset, NextOffset, telegram, pollHistory
<1>2. /\ last[p] \in 0..Len(sent) /\ next[p] \in 1..(Len(sent) + 1)
      /\ Len(sent) \in Nat /\ next[p] = last[p] + 1
  BY <1>1 DEF PollInv, PollTypeOK, AnswersCovered
<1>3. PollTypeOK'
  BY <1>1, <1>2 DEF Ended, PollInv, PollTypeOK
<1>4. AnswersCovered'
  BY <1>1 DEF Ended, PollInv, PollTypeOK, AnswersCovered
<1>5. OffsetCovered' /\ HandledRegistered'
  BY <1>1, <1>2 DEF PollInv, OffsetCovered, AnswersCovered, HandledRegistered
<1>6. OnceInv'
  <2> SUFFICES ASSUME ~disturbed PROVE Undisturbed'
    BY <1>1 DEF OnceInv
  <2>1. again = {} /\ \A q \in Pollers : q # p => polling[q] = "idle"
    BY <1>1 DEF OnceInv, Undisturbed
  <2>2. \A u \in handled : u < last[p] + 1
    BY <1>1, <1>2 DEF OnceInv, Undisturbed
  <2>3. \A u \in handled' : u < offset'
    BY <1>1, <2>2, Zenon
  <2>4. \A q \in Pollers : polling'[q] = "idle"
    BY <1>1, <2>1 DEF Ended, PollInv, PollTypeOK
  <2> QED
    BY <1>1, <2>1, <2>3, <2>4 DEF Undisturbed
<1> QED
  BY <1>3, <1>4, <1>5, <1>6 DEF PollInv

LEMMA PollFailsStep ==
    ASSUME PollInv, OnceInv, NEW p \in Pollers, PollFails(p)
    PROVE  PollInv' /\ OnceInv'
<1>1. /\ Ended(p) /\ disturbed' = TRUE /\ faults' = faults + 1
      /\ UNCHANGED <<sent, offset, sub, deleted, handled, again>>
      /\ confirmed' = confirmed \/ Confirm(p)
  BY DEF PollFails
<1>2. /\ confirmed' \in 0..Len(sent)
      /\ \A u \in 1..Len(sent) : u <= confirmed' => u \in handled
  BY <1>1, ConfirmFacts DEF PollInv, PollTypeOK, OffsetCovered
<1>3. PollTypeOK'
  BY <1>1, <1>2 DEF Ended, PollInv, PollTypeOK
<1>4. AnswersCovered'
  BY <1>1 DEF Ended, PollInv, PollTypeOK, AnswersCovered
<1>5. OffsetCovered' /\ HandledRegistered'
  BY <1>1, <1>2 DEF PollInv, OffsetCovered, HandledRegistered
<1> QED
  BY <1>1, <1>3, <1>4, <1>5 DEF PollInv, OnceInv

LEMMA NextStep == PollInv /\ OnceInv /\ [PollNext]_pollVars => PollInv' /\ OnceInv'
<1> SUFFICES ASSUME PollInv, OnceInv, [PollNext]_pollVars PROVE PollInv' /\ OnceInv'
  OBVIOUS
<1>1. ASSUME NEW c \in Chats, NEW start \in BOOLEAN, Message(c, start)
      PROVE  PollInv' /\ OnceInv'
  BY <1>1, MessageStep
<1>2. ASSUME NEW c \in Chats, Approve(c) \/ Reject(c) \/ Delete(c)
      PROVE  PollInv' /\ OnceInv'
  BY <1>2, DecideStep, DeleteStep DEF Approve, Reject
<1>3. ASSUME NEW p \in Pollers, Poll(p) \/ PollFails(p)
      PROVE  PollInv' /\ OnceInv'
  BY <1>3, LoadOffsetStep, GetUpdatesStep, ProcessUpdateStep, SaveOffsetStep,
     PollFailsStep DEF Poll
<1>4. CASE UNCHANGED pollVars
  BY <1>4 DEF pollVars, PollInv, PollTypeOK, AnswersCovered, OffsetCovered,
              HandledRegistered, OnceInv, Undisturbed
<1> QED
  BY <1>1, <1>2, <1>3, <1>4 DEF PollNext

LEMMA Invariants == PollSpec => [](PollInv /\ OnceInv)
<1> QED
  BY InitPollInv, NextStep, PTL DEF PollSpec

-----------------------------------------------------------------------------

(* The variables keep their types however polls overlap and fail.          *)
THEOREM PollingTypeCorrect == PollSpec => []PollTypeOK
<1>1. PollInv => PollTypeOK
  BY DEF PollInv
<1> QED
  BY <1>1, Invariants, PTL

(* A /start that Telegram has forgotten is in the table, or its chat was   *)
(* deleted: the offset handshake of _do_poll loses no request.             *)
THEOREM RequestsKept == PollSpec => []NoRequestLost
<1>1. PollInv => NoRequestLost
  BY DEF PollInv, PollTypeOK, OffsetCovered, HandledRegistered, NoRequestLost
<1> QED
  BY <1>1, Invariants, PTL

(* Nothing but overlapping or broken polls handles a message twice.        *)
THEOREM MessagesHandledOnce == PollSpec => []HandledOnce
<1>1. OnceInv => HandledOnce
  BY DEF OnceInv, Undisturbed, HandledOnce
<1> QED
  BY <1>1, Invariants, PTL

(* The upsert of a repeated /start never takes a decision back.            *)
THEOREM DecisionsStay == PollSpec => DecisionsKept
<1> DEFINE Kept == \A c \in Chats :
        sub[c] \in {"approved", "rejected"} => sub'[c] # "pending"
<1>1. PollInv /\ [PollNext]_pollVars => [Kept]_pollVars
  <2> SUFFICES ASSUME PollInv, PollNext PROVE Kept
    OBVIOUS
  <2>1. ASSUME NEW c \in Chats, Approve(c) \/ Reject(c) \/ Delete(c)
        PROVE  Kept
    BY <2>1 DEF Approve, Reject, Decide, Delete, PollInv, PollTypeOK
  <2>2. ASSUME NEW p \in Pollers, ProcessUpdate(p)
        PROVE  Kept
    BY <2>2 DEF ProcessUpdate, Registered, PollInv, PollTypeOK
  <2>3. CASE sub' = sub
    BY <2>3
  <2>4. \/ \E c \in Chats : Approve(c) \/ Reject(c) \/ Delete(c)
        \/ \E p \in Pollers : ProcessUpdate(p)
        \/ sub' = sub
    BY DEF PollNext, Message, Poll, LoadOffset, GetUpdates, SaveOffset, PollFails
  <2> QED
    BY <2>1, <2>2, <2>3, <2>4
<1>2. DecisionsKept <=> [][Kept]_pollVars
  BY PTL DEF DecisionsKept
<1> QED
  BY <1>1, <1>2, Invariants, PTL DEF PollSpec

-----------------------------------------------------------------------------
(* A poll ends: what is left to do, in an order without endless descent    *)

(* The calls a poll has before it, and the updates of its answer that it   *)
(* has not handled.                                                        *)
CallsLeft(p)   == CASE polling[p] = "loaded" -> 2 [] polling[p] = "answered" -> 1 [] OTHER -> 0
UpdatesLeft(p) == IF polling[p] = "answered" /\ next[p] <= last[p] THEN last[p] + 1 - next[p] ELSE 0

Left(p) == <<CallsLeft(p), UpdatesLeft(p)>>

(* Fewer calls, or as many and fewer updates.                              *)
Nats == {n \in Nat \X Nat : n[1] < n[2]}
Less == LexPairOrdering(Nats, Nats, Nat, Nat)
Descends(p) == <<Left(p)', Left(p)>> \in Less

LEMMA LessEnds == IsWellFoundedOn(Less, Nat \X Nat)
<1>1. Nats = OpToRel(<, Nat)
  BY SMT DEF Nats, OpToRel
<1> QED
  BY <1>1, NatLessThanWellFounded, WFLexPairOrdering DEF Less

LEMMA Falls ==
    ASSUME PollTypeOK, PollTypeOK', NEW p \in Pollers,
           \/ CallsLeft(p)' < CallsLeft(p)
           \/ CallsLeft(p)' = CallsLeft(p) /\ UpdatesLeft(p)' < UpdatesLeft(p)
    PROVE  Descends(p)
<1>1. next[p] \in Nat /\ last[p] \in Nat /\ next'[p] \in Nat /\ last'[p] \in Nat
  <2>1. Len(sent) \in Nat /\ Len(sent') \in Nat
    BY DEF PollTypeOK
  <2> QED
    BY <2>1 DEF PollTypeOK
<1>2. \A m, n \in Nat : m <= n => n + 1 - m \in Nat
  OBVIOUS
<1>3. UpdatesLeft(p) \in Nat /\ UpdatesLeft(p)' \in Nat
  BY <1>1, <1>2 DEF UpdatesLeft
<1>4. CallsLeft(p) \in Nat /\ CallsLeft(p)' \in Nat
  BY DEF CallsLeft
<1>5. \A a, b, c, d \in Nat :
          a < c \/ (a = c /\ b < d) => <<<<a, b>>, <<c, d>>>> \in Less
  BY DEF Less, LexPairOrdering, Nats
<1> QED
  BY <1>3, <1>4, <1>5 DEF Descends, Left

(* The steps of a poll after its first.                                    *)
Continues(p) == GetUpdates(p) \/ ProcessUpdate(p) \/ SaveOffset(p) \/ PollFails(p)

LEMMA ContinuesFalls ==
    ASSUME PollTypeOK, PollTypeOK', NEW p \in Pollers, Continues(p)
    PROVE  Descends(p)
<1>1. /\ polling \in [Pollers -> {"idle", "loaded", "answered"}]
      /\ next[p] \in Nat /\ last[p] \in Nat
      /\ DOMAIN next = Pollers /\ DOMAIN last = Pollers
  <2>1. Len(sent) \in Nat
    BY DEF PollTypeOK
  <2> QED
    BY <2>1 DEF PollTypeOK
<1>2. CASE GetUpdates(p)
  <2>1. polling[p] = "loaded" /\ polling'[p] \in {"idle", "answered"}
    BY <1>1, <1>2 DEF GetUpdates, Ended
  <2> QED
    BY <2>1, Falls DEF CallsLeft
<1>3. CASE ProcessUpdate(p)
  <2>1. /\ polling[p] = "answered" /\ polling' = polling /\ next[p] <= last[p]
        /\ next'[p] = next[p] + 1 /\ last' = last
    BY <1>1, <1>3 DEF ProcessUpdate
  <2>2. CallsLeft(p)' = CallsLeft(p) /\ UpdatesLeft(p)' < UpdatesLeft(p)
    BY <1>1, <2>1 DEF CallsLeft, UpdatesLeft
  <2> QED
    BY <2>2, Falls
<1>4. CASE SaveOffset(p) \/ PollFails(p)
  <2>1. polling[p] \in {"loaded", "answered"} /\ polling'[p] = "idle"
    BY <1>1, <1>4 DEF SaveOffset, PollFails, Ended
  <2> QED
    BY <2>1, Falls DEF CallsLeft
<1> QED
  BY <1>2, <1>3, <1>4 DEF Continues

(* A poll has only so much to do: each of its steps after the first takes  *)
(* it down an order without endless descent, and only a new poll of the    *)
(* same run begins again: the messages that arrive while it handles its    *)
(* answer, the administrator and the other polls add nothing to it.        *)
THEOREM PollsAreFinite ==
    /\ IsWellFoundedOn(Less, Nat \X Nat)
    /\ PollSpec => [][\A p \in Pollers : /\ Continues(p) => Descends(p)
                                         /\ LoadOffset(p) \/ Descends(p) \/ UNCHANGED Left(p)]_pollVars
<1> DEFINE GoesOn == \A p \in Pollers : /\ Continues(p) => Descends(p)
                                        /\ LoadOffset(p) \/ Descends(p) \/ UNCHANGED Left(p)
<1>1. ASSUME PollTypeOK, PollTypeOK', PollNext PROVE GoesOn
  <2> SUFFICES ASSUME NEW p \in Pollers PROVE LoadOffset(p) \/ Descends(p) \/ UNCHANGED Left(p)
    BY <1>1, ContinuesFalls
  <2>1. CASE \E q \in Pollers \ {p} : Poll(q) \/ PollFails(q)
    <3>1. polling'[p] = polling[p] /\ next'[p] = next[p] /\ last'[p] = last[p]
      BY <1>1, <2>1 DEF PollTypeOK, Poll, LoadOffset, GetUpdates, ProcessUpdate, SaveOffset,
         PollFails, Ended
    <3> QED
      BY <3>1 DEF Left, CallsLeft, UpdatesLeft
  <2>2. CASE UNCHANGED poller
    BY <2>2 DEF poller, Left, CallsLeft, UpdatesLeft
  <2>3. CASE Poll(p) \/ PollFails(p)
    BY <1>1, <2>3, ContinuesFalls DEF Poll, Continues
  <2> QED
    BY <1>1, <2>1, <2>2, <2>3 DEF PollNext, Message, Approve, Reject, Decide, Delete
<1>2. PollTypeOK /\ PollTypeOK' /\ [PollNext]_pollVars => [GoesOn]_pollVars
  BY <1>1
<1>3. PollSpec => [][GoesOn]_pollVars
  BY <1>2, PollingTypeCorrect, PTL DEF PollSpec
<1> QED
  BY <1>3, LessEnds
=============================================================================
