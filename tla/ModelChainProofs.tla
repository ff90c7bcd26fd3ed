-------------------------- MODULE ModelChainProofs --------------------------
(***************************************************************************)
(* Proofs about ModelChain for any number of items.                        *)
(*                                                                         *)
(* EngineInv is about the loaded model.  CallsInv says how far the chain   *)
(* at hand has come: all its calls raised, by the implementations before   *)
(* impl.  ResultInv says what the result of an item means once its first   *)
(* chain (SumResult) and its second (TransResult) are over.                *)
(*                                                                         *)
(* Last, every step takes the item down an order without endless descent.  *)
(***************************************************************************)
EXTENDS ModelChain, TLAPS, WellFoundedInduction

EngineInv ==
    /\ engine = "claude" => current = "none"
    /\ engine = "ollama" /\ phase \in {"summarize", "switch", "translate", "unload"}
           => current # "none"
    /\ phase \in {"start", "send"} \/ (phase = "over" /\ ~cut) => current = "none"

(* The calls of a task so far, when its loop is at item and impl.          *)
Progress(task, names) ==
    /\ \A c \in calls : c.task = task =>
          /\ c.item <= item
          /\ c.item = item => c.outcome = "raises" /\ \E k \in 1..(impl - 1) : c.by = names[k]
    /\ \A k \in 1..(impl - 1) : CallRaised(item, task, names[k])

CallsInv ==
    /\ phase = "start" => calls = {} /\ item = 1 /\ impl = 1
    /\ phase = "summarize" => Progress("summarize", Summarizers)
    /\ phase = "switch" => item = 1 /\ impl = 1
    /\ phase \in {"summarize", "switch"} => \A c \in calls : c.task = "summarize"
    /\ phase = "translate" =>
          /\ Progress("translate", Translators)
          /\ \A c \in calls : c.task = "translate" /\ c.item = item => ~Untranslated(item)

EmptyExplained(i) ==
    result[i].text = "empty" =>
        \/ ~Answered(i, "summarize")
        \/ \E c \in calls : c.item = i /\ c.outcome = "empty"

AllSummarizersRaised(i)  == \A k \in 1..3 : CallRaised(i, "summarize", Summarizers[k])
AllTranslatorsRaised(i) == \A k \in 1..2 : CallRaised(i, "translate", Translators[k])

SumResult(i) ==
    /\ result[i].text \in {"summary", "empty"}
    /\ result[i].error <=> AllSummarizersRaised(i)
    /\ result[i].error => result[i].text = "empty"
    /\ EmptyExplained(i)
TransResult(i) ==
    /\ result[i].error <=> AllSummarizersRaised(i) \/ AllTranslatorsRaised(i)
    /\ EmptyExplained(i)

ResultInv ==
    \A i \in 1..Items :
        /\ phase = "summarize" /\ i < item => SumResult(i)
        /\ phase = "switch" => SumResult(i)
        /\ phase = "translate" => IF i < item THEN TransResult(i) ELSE SumResult(i)
        /\ phase \in {"unload", "send"} => TransResult(i)

UsageInv ==
    /\ phase = "start" => usage = {}
    /\ \A u \in usage :
          /\ phase = "summarize" => u.item < item
          /\ phase \in {"summarize", "switch"} => u.task = "summarize"
          /\ phase = "translate" /\ u.task = "translate" => u.item < item
          /\ u.model = IF u.task = "summarize" THEN result[u.item].summarizer
                                               ELSE result[u.item].translator

ChainInv == /\ ChainTypeOK /\ EngineInv /\ CallsInv /\ ResultInv /\ UsageInv
            /\ RightModelLoaded /\ FirstAnswerEnds

-----------------------------------------------------------------------------

LEMMA Names ==
    /\ Summarizers[1] = "apex" /\ Summarizers[2] = "kanana" /\ Summarizers[3] = "claude"
    /\ Translators[1] = "kanana" /\ Translators[2] = "claude"
BY DEF Summarizers, Translators

LEMMA InitChain == ChainInit => ChainInv
<1> SUFFICES ASSUME ChainInit PROVE ChainInv
  OBVIOUS
<1> USE ItemsAssumption DEF ChainInit
<1>1. ChainTypeOK
  <2>1. handler \in BOOLEAN /\ cut \in BOOLEAN
    OBVIOUS
  <2>2. result \in [1..Items -> Results]
    BY DEF Results, NoResult
  <2> QED
    BY <2>1, <2>2 DEF ChainTypeOK
<1> QED
  BY <1>1
     DEF ChainInv, EngineInv, CallsInv, ResultInv, UsageInv, RightModelLoaded, FirstAnswerEnds

(* A call by name about the item at hand.                                  *)
Calling(task, name, outcome) ==
    [item |-> item, task |-> task, by |-> name, model |-> Model(name), outcome |-> outcome]

(* What the new call changes for an item, and for the others.              *)
LEMMA CallEffect ==
    ASSUME NEW task, NEW name, NEW outcome, calls' = calls \cup {Calling(task, name, outcome)}
    PROVE  /\ \A i, t, n : CallRaised(i, t, n)' <=>
                  CallRaised(i, t, n) \/ (i = item /\ t = task /\ n = name /\ outcome = "raises")
           /\ \A i, t : Answered(i, t)' <=>
                  Answered(i, t) \/ (i = item /\ t = task /\ outcome # "raises")
           /\ \A i : (\E c \in calls' : c.item = i /\ c.outcome = "empty") <=>
                  \/ \E c \in calls : c.item = i /\ c.outcome = "empty"
                  \/ i = item /\ outcome = "empty"
<1> DEFINE new == Calling(task, name, outcome)
<1>1. new.item = item /\ new.task = task /\ new.by = name /\ new.outcome = outcome
  BY DEF Calling
<1> HIDE DEF new
<1>2. calls' = calls \cup {new}
  BY DEF new
<1>3. ASSUME NEW i, NEW t, NEW n
      PROVE  CallRaised(i, t, n)' <=>
                 CallRaised(i, t, n) \/ (i = item /\ t = task /\ n = name /\ outcome = "raises")
  BY <1>1, <1>2 DEF CallRaised
<1>4. ASSUME NEW i, NEW t
      PROVE  Answered(i, t)' <=> Answered(i, t) \/ (i = item /\ t = task /\ outcome # "raises")
  BY <1>1, <1>2 DEF Answered
<1>5. ASSUME NEW i
      PROVE  (\E c \in calls' : c.item = i /\ c.outcome = "empty") <=>
                  \/ \E c \in calls : c.item = i /\ c.outcome = "empty"
                  \/ i = item /\ outcome = "empty"
  BY <1>1, <1>2
<1> QED
  BY <1>3, <1>4, <1>5

(* A call keeps the types, the loaded model and its properties.            *)
LEMMA GenerateEffect ==
    ASSUME ChainInv, phase \in {"summarize", "translate"}, UNCHANGED engine,
           NEW task \in {"summarize", "translate"}, NEW name \in {"apex", "kanana", "claude"},
           NEW outcome \in {"text", "empty", "raises"}, Generate(task, name, outcome)
    PROVE  /\ calls' = calls \cup {Calling(task, name, outcome)}
           /\ calls' \subseteq Call
           /\ current' \in {"none", "apex", "kanana"}
           /\ engine = "claude" => current' = "none"
           /\ engine = "ollama" => current' # "none"
           /\ RightModelLoaded'
<1>1. /\ current \in {"none", "apex", "kanana"} /\ engine \in {"ollama", "claude"}
      /\ engine = "claude" => current = "none"
      /\ engine = "ollama" => current # "none"
      /\ item \in 1..Items /\ calls \subseteq Call
  BY DEF ChainInv, ChainTypeOK, EngineInv
<1>2. /\ calls' = calls \cup {Calling(task, name, outcome)}
      /\ current' = AfterLoad(name)
  BY DEF Generate, Calling
<1>3. /\ Model(name) \in {"apex", "kanana", "claude"}
      /\ engine = "ollama" /\ name # "claude" => Model(name) = name
  BY <1>1 DEF Model, AfterLoad
<1>4. Calling(task, name, outcome) \in Call
  BY <1>1, <1>3 DEF Calling, Call
<1>5. RightModelLoaded'
  <2>1. \A c \in calls : engine = "ollama" /\ c.by # "claude" => c.model = c.by
    BY DEF ChainInv, RightModelLoaded
  <2>2. Calling(task, name, outcome).by = name /\ Calling(task, name, outcome).model = Model(name)
    BY DEF Calling
  <2> QED
    BY <1>2, <1>3, <2>1, <2>2 DEF RightModelLoaded
<1> QED
  BY <1>1, <1>2, <1>4, <1>5 DEF AfterLoad

(* The call at hand is made after those of all earlier implementations.    *)
LEMMA FirstAnswerKept ==
    ASSUME ChainInv, NEW task \in {"summarize", "translate"}, NEW outcome,
           impl \in DOMAIN ChainOf(task), Progress(task, ChainOf(task)),
           calls' = calls \cup {Calling(task, ChainOf(task)[impl], outcome)}
    PROVE  FirstAnswerEnds'
<1> DEFINE names == ChainOf(task)
           new   == Calling(task, names[impl], outcome)
<1>0. PICK here : here = item
  OBVIOUS
<1>1. new.item = here /\ new.task = task /\ new.by = names[impl]
  BY <1>0 DEF Calling
<1>2. calls' = calls \cup {new} /\ impl \in DOMAIN names /\ Progress(task, names)
  OBVIOUS
<1>3. names = ChainOf(task)
  OBVIOUS
<1>4. /\ DOMAIN names \subseteq 1..3
      /\ \A k, j \in DOMAIN names : names[k] = names[j] => k = j
      /\ \A k \in 1..(impl - 1) : k \in DOMAIN names /\ k # impl
  BY <1>2 DEF ChainOf, Summarizers, Translators
<1> HIDE DEF names, new
<1>5. \A i, t, n : CallRaised(i, t, n) => CallRaised(i, t, n)'
  BY <1>2 DEF CallRaised
<1>6. \A c \in calls : c.item = here /\ c.task = task => c.by # names[impl]
  BY <1>0, <1>2, <1>4 DEF Progress
<1>7. \A j \in 1..(impl - 1) : CallRaised(here, task, names[j])'
  <2>1. \A j \in 1..(impl - 1) : CallRaised(here, task, names[j])
    BY <1>0, <1>2 DEF Progress
  <2>2. \A j : CallRaised(here, task, names[j]) => CallRaised(here, task, names[j])'
    BY <1>5 DEF names
  <2> QED
    BY <2>1, <2>2
<1>8. ASSUME NEW c \in calls'
      PROVE  \E k \in DOMAIN ChainOf(c.task) :
                /\ c.by = ChainOf(c.task)[k]
                /\ \A j \in 1..(k - 1) : CallRaised(c.item, c.task, ChainOf(c.task)[j])'
  <2>1. CASE c \in calls
    BY <1>5, <2>1 DEF ChainInv, FirstAnswerEnds
  <2>2. CASE c = new
    <3>1. c.item = here /\ c.task = task /\ c.by = names[impl]
      BY <1>1, <2>2
    <3>2. PICK k \in DOMAIN names : k = impl
      BY <1>2
    <3>3. \A j \in 1..(k - 1) : CallRaised(here, task, names[j])'
      BY <1>7, <3>2
    <3> QED
      BY <1>3, <3>1, <3>2, <3>3
  <2> QED
    BY <1>2, <1>8, <2>1, <2>2
<1>9. ASSUME NEW c \in calls', NEW d \in calls',
             d.item = c.item, d.task = c.task, d.by = c.by
      PROVE  d = c
  BY <1>1, <1>2, <1>6, <1>9 DEF ChainInv, FirstAnswerEnds
<1> QED
  BY <1>8, <1>9 DEF FirstAnswerEnds, CallRaised

-----------------------------------------------------------------------------
(* A chain that goes on to its next implementation                         *)

LEMMA FallBackStep ==
    ASSUME ChainInv, NEW task \in {"summarize", "translate"}, phase = task,
           NEW names, names = ChainOf(task),
           task = "translate" => ~Untranslated(item),
           Generate(task, names[impl], "raises"), names[impl] # "claude",
           impl' = impl + 1, UNCHANGED <<engine, lang, phase, item, result, usage, ending>>
    PROVE  ChainInv'
<1> DEFINE name == names[impl]
<1>1. /\ impl \in 1..3 /\ (task = "translate" => impl \in 1..2) /\ item \in 1..Items
  BY DEF ChainInv, ChainTypeOK
<1>2. /\ name \in {"apex", "kanana"} /\ impl + 1 \in 1..3
      /\ task = "translate" => impl + 1 \in 1..2
  BY <1>1, Names DEF ChainOf
<1>3. /\ calls' = calls \cup {Calling(task, name, "raises")} /\ calls' \subseteq Call
      /\ current' \in {"none", "apex", "kanana"}
      /\ engine = "claude" => current' = "none"
      /\ engine = "ollama" => current' # "none"
      /\ RightModelLoaded'
  BY <1>2, GenerateEffect
<1> HIDE DEF name
<1>4. ChainTypeOK'
  BY <1>2, <1>3 DEF ChainInv, ChainTypeOK, ending
<1>5. EngineInv' /\ UsageInv'
  BY <1>3 DEF ChainInv, EngineInv, UsageInv
<1>6. Progress(task, names)
  BY DEF ChainInv, CallsInv, ChainOf
<1>7. FirstAnswerEnds'
  <2>1. impl \in DOMAIN ChainOf(task)
    BY <1>1 DEF ChainOf, Summarizers, Translators
  <2> QED
    BY <1>3, <1>6, <2>1, FirstAnswerKept DEF name
<1>8. \A i, t, n : CallRaised(i, t, n)' <=>
          CallRaised(i, t, n) \/ (i = item /\ t = task /\ n = name)
  BY <1>3, CallEffect
<1>9. Progress(task, names)'
  <2>1. \A k \in 1..impl : CallRaised(item, task, names[k])'
    <3> SUFFICES ASSUME NEW k \in 1..impl PROVE CallRaised(item, task, names[k])'
      OBVIOUS
    <3>1. CASE k = impl
      BY <1>8, <3>1 DEF name
    <3>2. CASE k \in 1..(impl - 1)
      BY <1>6, <1>8, <3>2 DEF Progress
    <3> QED
      BY <1>1, <3>1, <3>2
  <2>2. ASSUME NEW c \in calls', c.task = task
        PROVE  /\ c.item <= item
               /\ c.item = item => c.outcome = "raises" /\ \E k \in 1..impl : c.by = names[k]
    <3>1. CASE c \in calls
      BY <1>1, <1>6, <2>2, <3>1 DEF Progress
    <3>2. CASE c = Calling(task, name, "raises")
      <4>1. c.item = item /\ c.outcome = "raises" /\ c.by = names[impl]
        BY <3>2 DEF Calling, name
      <4> QED
        BY <1>1, <4>1
    <3> QED
      BY <1>3, <2>2, <3>1, <3>2
  <2>3. (impl + 1) - 1 = impl
    BY <1>1
  <2> QED
    BY <2>1, <2>2, <2>3 DEF Progress, CallRaised
<1>10. CallsInv'
  <2>1. Calling(task, name, "raises").task = task
    BY DEF Calling
  <2> QED
    BY <1>3, <1>9, <2>1 DEF ChainInv, CallsInv, Untranslated, ChainOf
<1>11. ResultInv'
  <2> SUFFICES ASSUME NEW i \in 1..Items
               PROVE  /\ phase = "summarize" /\ i < item => SumResult(i)'
                      /\ phase = "translate" => (IF i < item THEN TransResult(i) ELSE SumResult(i))'
    BY DEF ResultInv
  <2>1. EmptyExplained(i) => EmptyExplained(i)'
    <3>1. Answered(i, "summarize")' <=> Answered(i, "summarize")
      BY <1>3, CallEffect
    <3> QED
      BY <1>3, <3>1 DEF EmptyExplained
  <2>2. i # item \/ task # "summarize" => (AllSummarizersRaised(i)' <=> AllSummarizersRaised(i))
    BY <1>8 DEF AllSummarizersRaised
  <2>3. i # item \/ task # "translate" => (AllTranslatorsRaised(i)' <=> AllTranslatorsRaised(i))
    BY <1>8 DEF AllTranslatorsRaised
  <2>4. /\ phase = "summarize" /\ i < item => SumResult(i)
        /\ phase = "translate" => IF i < item THEN TransResult(i) ELSE SumResult(i)
    BY DEF ChainInv, ResultInv
  <2> QED
    BY <1>1, <2>1, <2>2, <2>3, <2>4 DEF SumResult, TransResult
<1> QED
  BY <1>3, <1>4, <1>5, <1>7, <1>10, <1>11 DEF ChainInv

-----------------------------------------------------------------------------
(* A chain that ends                                                       *)

(* The loop's next position.                                               *)
LEMMA NextNewsEffect ==
    ASSUME ChainTypeOK, NEW following, NextNews(following)
    PROVE  /\ impl' = 1
           /\ \/ item = Items /\ phase' = following /\ item' = 1
              \/ item < Items /\ phase' = phase /\ item' = item + 1
           /\ item' \in 1..Items
BY ItemsAssumption DEF ChainTypeOK, NextNews

LEMMA SummaryStep ==
    ASSUME ChainInv, NEW outcome \in {"text", "empty", "raises"}, Summarize(outcome),
           ~FallsBack(Summarizers[impl], outcome)
    PROVE  ChainInv'
<1>1. PICK here \in 1..Items, name \in {"apex", "kanana", "claude"} :
          here = item /\ name = Summarizers[impl]
  BY Names DEF ChainInv, ChainTypeOK
<1>2. /\ impl \in 1..3 /\ phase = "summarize" /\ ChainTypeOK
      /\ UNCHANGED <<engine, lang, ending>> /\ Generate("summarize", name, outcome)
      /\ outcome = "raises" => impl = 3
  BY <1>1, Names DEF ChainInv, ChainTypeOK, Summarize, FallsBack, Swallows
<1>3. /\ calls' = calls \cup {Calling("summarize", name, outcome)} /\ calls' \subseteq Call
      /\ current' \in {"none", "apex", "kanana"}
      /\ engine = "claude" => current' = "none"
      /\ engine = "ollama" => current' # "none"
      /\ RightModelLoaded'
  BY <1>1, <1>2, GenerateEffect
<1>4. /\ result' = [result EXCEPT ![here] =
                        [text |-> IF outcome = "text" THEN "summary" ELSE "empty",
                         error |-> outcome = "raises",
                         summarizer |-> name, translator |-> "none"]]
      /\ usage' \in {usage, usage \cup {Row("summarize", name, TRUE)}}
      /\ NextNews("switch")
  BY <1>1, <1>2 DEF Summarize, Track
<1>5. /\ impl' = 1 /\ item' \in 1..Items
      /\ \/ here = Items /\ phase' = "switch" /\ item' = 1
         \/ here < Items /\ phase' = "summarize" /\ item' = here + 1
  BY <1>1, <1>2, <1>4, NextNewsEffect
<1>6. Progress("summarize", Summarizers)
  BY <1>2 DEF ChainInv, CallsInv
<1>7. /\ \A i, t, n : CallRaised(i, t, n)' <=>
              CallRaised(i, t, n) \/ (i = here /\ t = "summarize" /\ n = name /\ outcome = "raises")
      /\ \A i, t : Answered(i, t)' <=>
              Answered(i, t) \/ (i = here /\ t = "summarize" /\ outcome # "raises")
      /\ \A i : (\E c \in calls' : c.item = i /\ c.outcome = "empty") <=>
              \/ \E c \in calls : c.item = i /\ c.outcome = "empty"
              \/ i = here /\ outcome = "empty"
  BY <1>1, <1>3, CallEffect
<1>8. /\ result'[here].text = IF outcome = "text" THEN "summary" ELSE "empty"
      /\ result'[here].summarizer = name
      /\ \A i \in 1..Items : i # here => result'[i] = result[i]
  BY <1>2, <1>4 DEF ChainTypeOK
<1>9. result'[here].error <=> outcome = "raises"
  BY <1>2, <1>4 DEF ChainTypeOK
<1>10. result' \in [1..Items -> Results]
  BY <1>2, <1>4 DEF ChainTypeOK, Results
<1>11. AllSummarizersRaised(here)' <=> outcome = "raises"
  <2>1. CASE outcome = "raises"
    <3>1. \A k \in 1..2 : CallRaised(here, "summarize", Summarizers[k])
      BY <1>1, <1>2, <1>6, <2>1 DEF Progress
    <3>2. \A k \in 1..3 : CallRaised(here, "summarize", Summarizers[k])'
      BY <1>1, <1>2, <1>7, <2>1, <3>1, Names
    <3> QED
      BY <2>1, <3>2 DEF AllSummarizersRaised
  <2>2. CASE outcome # "raises"
    <3>1. ~CallRaised(here, "summarize", name)
      <4>1. \A k \in 1..(impl - 1) : Summarizers[k] # name
        BY <1>1, <1>2, Names
      <4> QED
        BY <1>1, <1>6, <4>1 DEF Progress, CallRaised
    <3>2. ~CallRaised(here, "summarize", name)'
      BY <1>7, <2>2, <3>1
    <3>3. \E k \in 1..3 : Summarizers[k] = name
      BY <1>1, <1>2
    <3> QED
      BY <2>2, <3>2, <3>3 DEF AllSummarizersRaised
  <2> QED
    BY <2>1, <2>2
<1>12. EmptyExplained(here)'
  <2>1. CASE outcome = "text"
    BY <1>8, <2>1 DEF EmptyExplained
  <2>2. CASE outcome = "empty"
    BY <1>7, <2>2 DEF EmptyExplained
  <2>3. CASE outcome = "raises"
    <3>1. ~Answered(here, "summarize")
      BY <1>1, <1>6 DEF Progress, Answered
    <3>2. ~Answered(here, "summarize")'
      BY <1>7, <2>3, <3>1
    <3> QED
      BY <3>2 DEF EmptyExplained
  <2> QED
    BY <2>1, <2>2, <2>3
<1>13. SumResult(here)'
  BY <1>8, <1>9, <1>11, <1>12 DEF SumResult
<1>14. ASSUME NEW i \in 1..Items, i # here, SumResult(i)
       PROVE  SumResult(i)'
  <2>1. result'[i] = result[i]
    BY <1>8, <1>14
  <2>2. AllSummarizersRaised(i)' <=> AllSummarizersRaised(i)
    BY <1>7, <1>14 DEF AllSummarizersRaised
  <2>3. EmptyExplained(i)'
    BY <1>7, <1>14, <2>1 DEF SumResult, EmptyExplained
  <2> QED
    BY <1>14, <2>1, <2>2, <2>3 DEF SumResult
<1>15. ResultInv'
  <2>1. \A i \in 1..Items : i < here => SumResult(i)'
    BY <1>1, <1>2, <1>14 DEF ChainInv, ResultInv
  <2>2. \A i \in 1..Items : i <= here => SumResult(i)'
    BY <1>1, <1>13, <2>1
  <2>3. \A i \in 1..Items : (phase' = "summarize" /\ i < item') \/ phase' = "switch" => i <= here
    BY <1>1, <1>5, ItemsAssumption
  <2> QED
    BY <1>5, <2>2, <2>3 DEF ResultInv
<1>16. ChainTypeOK'
  <2>1. Row("summarize", name, TRUE) \in
           [item : 1..Items, task : {"summarize", "translate"},
            model : {"apex", "kanana", "claude"}, success : BOOLEAN]
    BY <1>1 DEF Row
  <2>2. usage' \subseteq [item : 1..Items, task : {"summarize", "translate"},
                        model : {"apex", "kanana", "claude"}, success : BOOLEAN]
    BY <1>2, <1>4, <2>1 DEF ChainTypeOK
  <2>3. phase' \in {"switch", "summarize"} /\ impl' \in 1..3 /\ item' \in 1..Items
    BY <1>5
  <2>4. /\ engine' \in {"ollama", "claude"} /\ lang' \in [1..Items -> {"ko", "en"}]
        /\ handler' \in BOOLEAN /\ cut' \in BOOLEAN
    BY <1>2 DEF ChainTypeOK, ending
  <2> QED
    BY <1>3, <1>10, <2>2, <2>3, <2>4 DEF ChainTypeOK
<1>17. EngineInv'
  BY <1>2, <1>3, <1>5 DEF EngineInv
<1>18. UsageInv'
  <2> DEFINE row == Row("summarize", name, TRUE)
  <2>1. row.item = here /\ row.task = "summarize" /\ row.model = name
    BY <1>1 DEF Row
  <2> HIDE DEF row
  <2>2. usage' \subseteq usage \cup {row}
    BY <1>4 DEF row
  <2>3. \A u \in usage : /\ u.item \in 1..Items /\ u.item < here /\ u.task = "summarize"
                         /\ u.model = result[u.item].summarizer
    BY <1>1, <1>2 DEF ChainInv, UsageInv, ChainTypeOK
  <2>4. \A u \in usage' : /\ u.item \in 1..Items /\ u.item <= here /\ u.task = "summarize"
                          /\ u.model = result'[u.item].summarizer
    BY <1>8, <2>1, <2>2, <2>3
  <2> QED
    BY <1>5, <2>4 DEF UsageInv
<1>19. CallsInv'
  <2>1. Calling("summarize", name, outcome).item = here
        /\ Calling("summarize", name, outcome).task = "summarize"
    BY <1>1 DEF Calling
  <2>2. \A c \in calls : c.task = "summarize" /\ c.item <= here
    BY <1>1, <1>2, <1>6 DEF ChainInv, CallsInv, Progress
  <2>3. \A c \in calls' : c.task = "summarize" /\ c.item <= here /\ c.item \in 1..Items
    BY <1>3, <2>1, <2>2 DEF Call
  <2>4. phase' = "summarize" => Progress("summarize", Summarizers)'
    BY <1>5, <2>3 DEF Progress
  <2> QED
    BY <1>5, <2>3, <2>4 DEF CallsInv
<1>20. FirstAnswerEnds'
  <2>1. ChainOf("summarize") = Summarizers /\ impl \in DOMAIN Summarizers
    BY <1>2 DEF ChainOf, Summarizers
  <2> QED
    BY <1>1, <1>3, <1>6, <2>1, FirstAnswerKept
<1> QED
  BY <1>3, <1>15, <1>16, <1>17, <1>18, <1>19, <1>20 DEF ChainInv

LEMMA TranslationStep ==
    ASSUME ChainInv, NEW outcome \in {"text", "empty", "raises"}, Translate(outcome),
           ~FallsBack(Translators[impl], outcome)
    PROVE  ChainInv'
<1>1. PICK here \in 1..Items, name \in {"kanana", "claude"} :
          here = item /\ name = Translators[impl]
  BY Names DEF ChainInv, ChainTypeOK, Translate
<1>2. /\ impl \in 1..2 /\ phase = "translate" /\ ChainTypeOK /\ ~Untranslated(here)
      /\ UNCHANGED <<engine, lang, ending>> /\ Generate("translate", name, outcome)
      /\ outcome = "raises" => impl = 2
  BY <1>1, Names DEF ChainInv, ChainTypeOK, Translate, FallsBack, Swallows
<1>3. /\ calls' = calls \cup {Calling("translate", name, outcome)} /\ calls' \subseteq Call
      /\ current' \in {"none", "apex", "kanana"}
      /\ engine = "claude" => current' = "none"
      /\ engine = "ollama" => current' # "none"
      /\ RightModelLoaded'
  BY <1>1, <1>2, GenerateEffect
<1>4. /\ result' = [result EXCEPT ![here] =
                        [text |-> CASE outcome = "text"   -> "translation"
                                    [] outcome = "empty"  -> "empty"
                                    [] outcome = "raises" -> KeptText,
                         error |-> outcome = "raises",
                         summarizer |-> result[here].summarizer, translator |-> name]]
      /\ usage' \in {usage, usage \cup {Row("translate", name, TRUE)}}
      /\ NextNews("unload")
  BY <1>1, <1>2 DEF Translate, Track
<1>5. /\ impl' = 1 /\ item' \in 1..Items
      /\ \/ here = Items /\ phase' = "unload" /\ item' = 1
         \/ here < Items /\ phase' = "translate" /\ item' = here + 1
  BY <1>1, <1>2, <1>4, NextNewsEffect
<1>6. Progress("translate", Translators)
  BY <1>2 DEF ChainInv, CallsInv
<1>7. /\ \A i, t, n : CallRaised(i, t, n)' <=>
              CallRaised(i, t, n) \/ (i = here /\ t = "translate" /\ n = name /\ outcome = "raises")
      /\ \A i, t : Answered(i, t)' <=>
              Answered(i, t) \/ (i = here /\ t = "translate" /\ outcome # "raises")
      /\ \A i : (\E c \in calls' : c.item = i /\ c.outcome = "empty") <=>
              \/ \E c \in calls : c.item = i /\ c.outcome = "empty"
              \/ i = here /\ outcome = "empty"
  BY <1>1, <1>3, CallEffect
<1>8. /\ result[here] \in Results /\ result[here].text = "summary"
      /\ SumResult(here) /\ ~result[here].error
  BY <1>1, <1>2 DEF ChainInv, ChainTypeOK, ResultInv, SumResult, Untranslated
<1>9. /\ result'[here].text = CASE outcome = "text"   -> "translation"
                                [] outcome = "empty"  -> "empty"
                                [] outcome = "raises" -> "summary"
      /\ result'[here].summarizer = result[here].summarizer
      /\ result'[here].translator = name
      /\ \A i \in 1..Items : i # here => result'[i] = result[i]
  BY <1>1, <1>2, <1>4, <1>8 DEF ChainTypeOK, KeptText
<1>10. result'[here].error <=> outcome = "raises"
  BY <1>2, <1>4 DEF ChainTypeOK
<1>11. result' \in [1..Items -> Results]
  <2>1. KeptText = "summary"
    BY <1>1, <1>8 DEF KeptText
  <2>2. result'[here] \in Results
    BY <1>1, <1>2, <1>4, <1>8, <2>1 DEF ChainTypeOK, Results
  <2> QED
    BY <1>2, <1>4, <2>2 DEF ChainTypeOK
<1>12. AllTranslatorsRaised(here)' <=> outcome = "raises"
  <2>1. CASE outcome = "raises"
    <3>1. CallRaised(here, "translate", Translators[1])
      BY <1>1, <1>2, <1>6, <2>1 DEF Progress
    <3>2. \A k \in 1..2 : CallRaised(here, "translate", Translators[k])'
      BY <1>1, <1>2, <1>7, <2>1, <3>1, Names
    <3> QED
      BY <2>1, <3>2 DEF AllTranslatorsRaised
  <2>2. CASE outcome # "raises"
    <3>1. ~CallRaised(here, "translate", name)
      <4>1. \A k \in 1..(impl - 1) : Translators[k] # name
        BY <1>1, <1>2, Names
      <4> QED
        BY <1>1, <1>6, <4>1 DEF Progress, CallRaised
    <3>2. ~CallRaised(here, "translate", name)'
      BY <1>7, <2>2, <3>1
    <3>3. \E k \in 1..2 : Translators[k] = name
      BY <1>1, <1>2
    <3> QED
      BY <2>2, <3>2, <3>3 DEF AllTranslatorsRaised
  <2> QED
    BY <2>1, <2>2
<1>13. ~AllSummarizersRaised(here)'
  <2>1. ~AllSummarizersRaised(here)
    BY <1>8 DEF SumResult
  <2> QED
    BY <1>7, <2>1 DEF AllSummarizersRaised
<1>14. EmptyExplained(here)'
  BY <1>7, <1>9 DEF EmptyExplained
<1>15. TransResult(here)'
  BY <1>10, <1>12, <1>13, <1>14 DEF TransResult
<1>16. ASSUME NEW i \in 1..Items, i # here
       PROVE  /\ SumResult(i) => SumResult(i)'
              /\ TransResult(i) => TransResult(i)'
  <2>1. result'[i] = result[i]
    BY <1>9, <1>16
  <2>2. AllSummarizersRaised(i)' <=> AllSummarizersRaised(i)
    BY <1>7, <1>16 DEF AllSummarizersRaised
  <2>3. AllTranslatorsRaised(i)' <=> AllTranslatorsRaised(i)
    BY <1>7, <1>16 DEF AllTranslatorsRaised
  <2>4. EmptyExplained(i) => EmptyExplained(i)'
    BY <1>7, <1>16, <2>1 DEF EmptyExplained
  <2> QED
    BY <2>1, <2>2, <2>3, <2>4 DEF SumResult, TransResult
<1>17. ResultInv'
  <2>1. \A i \in 1..Items : (i < here => TransResult(i)) /\ (i > here => SumResult(i))
    BY <1>1, <1>2 DEF ChainInv, ResultInv
  <2>2. \A i \in 1..Items : (i <= here => TransResult(i)') /\ (i > here => SumResult(i)')
    BY <1>1, <1>15, <1>16, <2>1
  <2>3. CASE here = Items /\ phase' = "unload"
    BY <2>2, <2>3, ItemsAssumption DEF ResultInv
  <2>4. CASE here < Items /\ phase' = "translate" /\ item' = here + 1
    BY <2>2, <2>4 DEF ResultInv
  <2> QED
    BY <1>5, <2>3, <2>4
<1>18. ChainTypeOK'
  <2>1. Row("translate", name, TRUE) \in
           [item : 1..Items, task : {"summarize", "translate"},
            model : {"apex", "kanana", "claude"}, success : BOOLEAN]
    BY <1>1 DEF Row
  <2>2. usage' \subseteq [item : 1..Items, task : {"summarize", "translate"},
                        model : {"apex", "kanana", "claude"}, success : BOOLEAN]
    BY <1>2, <1>4, <2>1 DEF ChainTypeOK
  <2>3. phase' \in {"unload", "translate"} /\ impl' \in 1..2 /\ item' \in 1..Items
    BY <1>5
  <2>4. /\ engine' \in {"ollama", "claude"} /\ lang' \in [1..Items -> {"ko", "en"}]
        /\ handler' \in BOOLEAN /\ cut' \in BOOLEAN
    BY <1>2 DEF ChainTypeOK, ending
  <2> QED
    BY <1>3, <1>11, <2>2, <2>3, <2>4 DEF ChainTypeOK
<1>19. EngineInv'
  BY <1>2, <1>3, <1>5 DEF EngineInv
<1>20. UsageInv'
  <2> DEFINE row == Row("translate", name, TRUE)
  <2>1. row.item = here /\ row.task = "translate" /\ row.model = name
    BY <1>1 DEF Row
  <2> HIDE DEF row
  <2>2. usage' \subseteq usage \cup {row}
    BY <1>4 DEF row
  <2>3. \A u \in usage : /\ u.item \in 1..Items
                         /\ u.task = "translate" => u.item < here
                         /\ u.model = IF u.task = "summarize" THEN result[u.item].summarizer
                                                              ELSE result[u.item].translator
                         /\ u.task \in {"summarize", "translate"}
    BY <1>1, <1>2 DEF ChainInv, UsageInv, ChainTypeOK
  <2>4. \A u \in usage' : /\ u.item \in 1..Items
                          /\ u.task = "translate" => u.item <= here
                          /\ u.model = IF u.task = "summarize" THEN result'[u.item].summarizer
                                                               ELSE result'[u.item].translator
    <3> SUFFICES ASSUME NEW u \in usage'
                 PROVE  /\ u.item \in 1..Items
                        /\ u.task = "translate" => u.item <= here
                        /\ u.model = IF u.task = "summarize" THEN result'[u.item].summarizer
                                                             ELSE result'[u.item].translator
      OBVIOUS
    <3>1. CASE u = row
      BY <1>9, <2>1, <3>1
    <3>2. CASE u \in usage
      <4>1. u.item = here => u.task = "summarize"
        BY <1>1, <2>3, <3>2
      <4> QED
        BY <1>1, <1>9, <2>3, <3>2, <4>1
    <3> QED
      BY <2>2, <3>1, <3>2
  <2> QED
    BY <1>5, <2>4 DEF UsageInv
<1>21. CallsInv'
  <2> DEFINE new == Calling("translate", name, outcome)
  <2>1. new.item = here /\ new.task = "translate"
    BY <1>1 DEF Calling
  <2> HIDE DEF new
  <2>2. calls' = calls \cup {new}
    BY <1>3 DEF new
  <2>3. \A c \in calls : c.task = "translate" => c.item <= here
    BY <1>1, <1>6 DEF Progress
  <2>4. \A c \in calls' : c.item \in 1..Items /\ (c.task = "translate" => c.item <= here)
    BY <1>3, <2>1, <2>2, <2>3 DEF Call
  <2>5. phase' = "translate" => Progress("translate", Translators)'
    BY <1>5, <2>4 DEF Progress
  <2>6. \A c \in calls' : phase' = "translate" /\ c.task = "translate" => c.item # item'
    BY <1>5, <2>4
  <2> QED
    BY <1>5, <2>5, <2>6 DEF CallsInv
<1>22. FirstAnswerEnds'
  <2>1. ChainOf("translate") = Translators /\ impl \in DOMAIN Translators
    BY <1>2 DEF ChainOf, Translators
  <2> QED
    BY <1>1, <1>3, <1>6, <2>1, FirstAnswerKept
<1> QED
  BY <1>3, <1>17, <1>18, <1>19, <1>20, <1>21, <1>22 DEF ChainInv

-----------------------------------------------------------------------------
(* The other steps                                                         *)

LEMMA KeepResultStep ==
    ASSUME ChainInv, KeepResult
    PROVE  ChainInv'
<1>1. PICK here \in 1..Items : here = item
  BY DEF ChainInv, ChainTypeOK
<1>2. /\ phase = "translate" /\ ChainTypeOK /\ Untranslated(here)
      /\ UNCHANGED <<engine, lang, current, result, usage, calls, ending>>
      /\ NextNews("unload")
  BY <1>1 DEF ChainInv, KeepResult
<1>3. /\ impl' = 1 /\ item' \in 1..Items
      /\ \/ here = Items /\ phase' = "unload" /\ item' = 1
         \/ here < Items /\ phase' = "translate" /\ item' = here + 1
  BY <1>1, <1>2, NextNewsEffect
<1>4. \A c \in calls : /\ c.item \in 1..Items
                       /\ c.task = "translate" => c.item < here
  <2>1. \A c \in calls : c.task = "translate" => c.item <= here /\ c.item # here
    BY <1>1, <1>2 DEF ChainInv, CallsInv, Progress
  <2>2. \A c \in calls : c.item \in 1..Items
    BY <1>2 DEF ChainTypeOK, Call
  <2> QED
    BY <2>1, <2>2
<1>5. ~AllTranslatorsRaised(here)
  <2>1. ~CallRaised(here, "translate", Translators[1])
    BY <1>4 DEF CallRaised
  <2> QED
    BY <2>1 DEF AllTranslatorsRaised
<1>6. SumResult(here)
  BY <1>1, <1>2 DEF ChainInv, ResultInv
<1>7. TransResult(here)
  BY <1>5, <1>6 DEF SumResult, TransResult
<1>8. \A i \in 1..Items : /\ SumResult(i)' <=> SumResult(i)
                          /\ TransResult(i)' <=> TransResult(i)
  BY <1>2 DEF SumResult, TransResult, AllSummarizersRaised, AllTranslatorsRaised,
     EmptyExplained, CallRaised, Answered
<1>9. ResultInv'
  <2>1. \A i \in 1..Items : (i < here => TransResult(i)) /\ (i > here => SumResult(i))
    BY <1>1, <1>2 DEF ChainInv, ResultInv
  <2>2. \A i \in 1..Items : (i <= here => TransResult(i)') /\ (i > here => SumResult(i)')
    BY <1>7, <1>8, <2>1
  <2>3. CASE here = Items /\ phase' = "unload"
    BY <2>2, <2>3, ItemsAssumption DEF ResultInv
  <2>4. CASE here < Items /\ phase' = "translate" /\ item' = here + 1
    BY <2>2, <2>4 DEF ResultInv
  <2> QED
    BY <1>3, <2>3, <2>4
<1>10. ChainTypeOK'
  BY <1>2, <1>3 DEF ChainTypeOK, ending
<1>11. EngineInv' /\ RightModelLoaded' /\ FirstAnswerEnds'
  BY <1>2, <1>3 DEF ChainInv, EngineInv, RightModelLoaded, FirstAnswerEnds, CallRaised
<1>12. UsageInv'
  <2>1. \A u \in usage : /\ u.task = "translate" => u.item < here
                         /\ u.model = IF u.task = "summarize" THEN result[u.item].summarizer
                                                              ELSE result[u.item].translator
                         /\ u.item \in 1..Items
    BY <1>1, <1>2 DEF ChainInv, UsageInv, ChainTypeOK
  <2> QED
    BY <1>2, <1>3, <2>1 DEF UsageInv
<1>13. CallsInv'
  <2>1. phase' = "translate" => Progress("translate", Translators)'
    BY <1>2, <1>3, <1>4 DEF Progress
  <2>2. \A c \in calls' : phase' = "translate" /\ c.task = "translate" => c.item # item'
    BY <1>2, <1>3, <1>4
  <2> QED
    BY <1>3, <2>1, <2>2 DEF CallsInv
<1> QED
  BY <1>9, <1>10, <1>11, <1>12, <1>13 DEF ChainInv

LEMMA StageStep ==
    ASSUME ChainInv, \/ BeginSummaries \/ SwitchModel \/ Unload \/ SendMessages
                     \/ Sigterm \/ DieInChain
    PROVE  ChainInv'
<1>1. /\ UNCHANGED <<engine, lang, item, impl, result, usage, calls, handler>> /\ ChainTypeOK
      /\ cut' \in BOOLEAN
      /\ \/ phase = "start" /\ phase' = "summarize"
         \/ phase = "switch" /\ phase' = "translate"
         \/ phase = "unload" /\ phase' = "send"
         \/ phase' = "over"
      /\ phase = "send" => phase' = "over"
  BY DEF ChainInv, BeginSummaries, SwitchModel, Unload, SendMessages, Sigterm, DieInChain,
     ending, ChainTypeOK
<1>2. /\ current' \in {"none", "apex", "kanana"}
      /\ engine = "claude" => current' = "none"
      /\ engine = "ollama" /\ phase' \in {"summarize", "translate"} => current' # "none"
      /\ phase' \in {"send"} \/ (phase' = "over" /\ ~cut') => current' = "none"
  BY
     DEF ChainInv, ChainTypeOK, EngineInv, BeginSummaries, SwitchModel, Unload, SendMessages,
         Sigterm, UnloadedAll,
     DieInChain, ending
<1>3. ChainTypeOK'
  <2>1. phase' = "translate" => impl \in 1..2
    BY <1>1 DEF ChainInv, CallsInv
  <2> QED
    BY <1>1, <1>2, <2>1 DEF ChainTypeOK
<1>4. EngineInv'
  BY <1>1, <1>2 DEF EngineInv
<1>5. RightModelLoaded' /\ FirstAnswerEnds'
  BY <1>1 DEF ChainInv, RightModelLoaded, FirstAnswerEnds, CallRaised
<1>6. \A i \in 1..Items : /\ SumResult(i)' <=> SumResult(i)
                          /\ TransResult(i)' <=> TransResult(i)
  BY <1>1 DEF SumResult, TransResult, AllSummarizersRaised, AllTranslatorsRaised,
     EmptyExplained, CallRaised, Answered
<1>7. ResultInv'
  <2>1. CASE phase = "start" /\ phase' = "summarize"
    <3>1. item' = 1
      BY <1>1, <2>1 DEF ChainInv, CallsInv
    <3> QED
      BY <2>1, <3>1 DEF ResultInv
  <2>2. CASE phase = "switch" /\ phase' = "translate"
    <3>1. item' = 1 /\ \A i \in 1..Items : SumResult(i)
      BY <1>1, <2>2 DEF ChainInv, CallsInv, ResultInv
    <3> QED
      BY <1>6, <2>2, <3>1 DEF ResultInv
  <2>3. CASE phase = "unload" /\ phase' = "send"
    <3>1. \A i \in 1..Items : TransResult(i)
      BY <2>3 DEF ChainInv, ResultInv
    <3> QED
      BY <1>6, <2>3, <3>1 DEF ResultInv
  <2>4. CASE phase' = "over"
    BY <2>4 DEF ResultInv
  <2> QED
    BY <1>1, <2>1, <2>2, <2>3, <2>4
<1>8. UsageInv'
  <2>1. CASE phase = "start" /\ phase' = "summarize"
    BY <1>1, <2>1 DEF ChainInv, UsageInv
  <2>2. CASE phase = "switch" /\ phase' = "translate"
    BY <1>1, <2>2 DEF ChainInv, UsageInv
  <2>3. CASE phase' \in {"send", "over"}
    BY <1>1, <2>3 DEF ChainInv, UsageInv
  <2> QED
    BY <1>1, <2>1, <2>2, <2>3
<1>9. CallsInv'
  <2>1. CASE phase = "start" /\ phase' = "summarize"
    BY <1>1, <2>1 DEF ChainInv, CallsInv, Progress
  <2>2. CASE phase = "switch" /\ phase' = "translate"
    BY <1>1, <2>2 DEF ChainInv, CallsInv, Progress
  <2>3. CASE phase' \in {"send", "over"}
    BY <2>3 DEF CallsInv
  <2> QED
    BY <1>1, <2>1, <2>2, <2>3
<1> QED
  BY <1>3, <1>4, <1>5, <1>7, <1>8, <1>9 DEF ChainInv

LEMMA ChainStep == ChainInv /\ [ChainNext]_chainVars => ChainInv'
<1>1. ASSUME ChainInv, NEW outcome \in {"text", "empty", "raises"}, Summarize(outcome)
      PROVE  ChainInv'
  <2>1. CASE FallsBack(Summarizers[impl], outcome)
    <3>1. outcome = "raises" /\ Summarizers[impl] # "claude"
      BY <2>1 DEF FallsBack, Swallows
    <3> QED
      BY <1>1, <2>1, <3>1, FallBackStep DEF Summarize, ChainOf
  <2> QED
    BY <1>1, <2>1, SummaryStep
<1>2. ASSUME ChainInv, NEW outcome \in {"text", "empty", "raises"}, Translate(outcome)
      PROVE  ChainInv'
  <2>1. CASE FallsBack(Translators[impl], outcome)
    <3>1. outcome = "raises" /\ Translators[impl] # "claude"
      BY <2>1 DEF FallsBack, Swallows
    <3> QED
      BY <1>2, <2>1, <3>1, FallBackStep DEF Translate, ChainOf
  <2> QED
    BY <1>2, <2>1, TranslationStep
<1>3. ASSUME ChainInv, UNCHANGED chainVars PROVE ChainInv'
  BY <1>3
     DEF chainVars, ending, ChainInv, ChainTypeOK, EngineInv, CallsInv, ResultInv, UsageInv,
         Progress,
     SumResult, TransResult, AllSummarizersRaised, AllTranslatorsRaised, EmptyExplained,
     CallRaised, Answered, Untranslated, RightModelLoaded, FirstAnswerEnds
<1> QED
  BY <1>1, <1>2, <1>3, KeepResultStep, StageStep DEF ChainNext, Step

(* The inductive invariant of a run's summaries and translations.          *)
THEOREM ChainInvariant == ChainSpec => []ChainInv
BY InitChain, ChainStep, PTL DEF ChainSpec

(* Every variable of the chains keeps its type, for any number of items.   *)
THEOREM ChainTypeCorrect == ChainSpec => []ChainTypeOK
BY ChainInvariant, PTL DEF ChainInv

(* Each implementation is answered by its own model.                       *)
THEOREM OwnModelAnswers == ChainSpec => []RightModelLoaded
BY ChainInvariant, PTL DEF ChainInv

(* An implementation is called once at most for an item, and only after all*)
(* those before it in the chain raised.                                    *)
THEOREM NobodyAsksTwice == ChainSpec => []FirstAnswerEnds
BY ChainInvariant, PTL DEF ChainInv

(* A result says error exactly when a whole chain raised.                  *)
THEOREM ErrorsAreExplained == ChainSpec => []ErrorsExplained
<1>1. ChainInv => ErrorsExplained
  BY DEF ChainInv, ResultInv, TransResult, ErrorsExplained, AllSummarizersRaised,
     AllTranslatorsRaised
<1> QED
  BY <1>1, ChainInvariant, PTL

(* A failed translation loses no text.                                     *)
THEOREM TextIsKept == ChainSpec => []TextKept
<1>1. ChainInv => TextKept
  BY DEF ChainInv, ResultInv, TransResult, TextKept, EmptyExplained
<1> QED
  BY <1>1, ChainInvariant, PTL

(* No model stays loaded after a run that ended by itself or by SIGTERM    *)
(* where it registered the handler.                                        *)
THEOREM NothingStaysLoaded == ChainSpec => []UnloadedAtEnd
<1>1. ChainInv => UnloadedAtEnd
  BY DEF ChainInv, EngineInv, UnloadedAtEnd
<1> QED
  BY <1>1, ChainInvariant, PTL

(* The usage log names the implementation whose result was kept.           *)
THEOREM UsageIsRight == ChainSpec => []UsageMatches
<1>1. ChainInv => UsageMatches
  BY DEF ChainInv, UsageInv, UsageMatches
<1> QED
  BY <1>1, ChainInvariant, PTL

-----------------------------------------------------------------------------
(* The chains end: what is left to do, in an order without endless descent *)

(* Stages to come; in a loop, the implementations that items may yet try.  *)
StagesLeft ==
    CASE phase = "start" -> 6 [] phase = "summarize" -> 5 [] phase = "switch" -> 4
      [] phase = "translate" -> 3 [] phase = "unload" -> 2 [] phase = "send" -> 1
      [] OTHER -> 0
LoopLeft == 3 * (Items - item) + (3 - impl)

Left == <<StagesLeft, LoopLeft>>

(* Fewer stages, or as many and less of the loop.                          *)
Nats == {p \in Nat \X Nat : p[1] < p[2]}
Less == LexPairOrdering(Nats, Nats, Nat, Nat)
Descends == <<Left', Left>> \in Less

LEMMA LessEnds == IsWellFoundedOn(Less, Nat \X Nat)
<1>1. Nats = OpToRel(<, Nat)
  BY SMT DEF Nats, OpToRel
<1> QED
  BY <1>1, NatLessThanWellFounded, WFLexPairOrdering DEF Less

LEMMA Falls ==
    ASSUME ChainTypeOK, ChainTypeOK',
           \/ StagesLeft' < StagesLeft
           \/ StagesLeft' = StagesLeft /\ LoopLeft' < LoopLeft
    PROVE  Descends
<1>1. /\ item \in 1..Items /\ impl \in 1..3 /\ item' \in 1..Items /\ impl' \in 1..3
      /\ StagesLeft \in Nat /\ StagesLeft' \in Nat
  BY DEF ChainTypeOK, StagesLeft
<1>2. LoopLeft \in Nat /\ LoopLeft' \in Nat
  <2>1. \A i \in 1..Items, n \in 1..3 : Items - i \in Nat /\ 3 - n \in Nat
    BY ItemsAssumption
  <2>2. \A a, b \in Nat : 3 * a + b \in Nat
    OBVIOUS
  <2> QED
    BY <1>1, <2>1, <2>2 DEF LoopLeft
<1>3. \A a, b, c, d \in Nat :
          a < c \/ (a = c /\ b < d) => <<<<a, b>>, <<c, d>>>> \in Less
  BY DEF Less, LexPairOrdering, Nats
<1> QED
  BY <1>1, <1>2, <1>3 DEF Descends, Left

(* A turn of a loop: the next implementation, the next item, or its end.   *)
LEMMA TurnFalls ==
    ASSUME ChainTypeOK, ChainTypeOK',
           \/ phase = "summarize" /\ (phase' = phase \/ phase' = "switch")
           \/ phase = "translate" /\ (phase' = phase \/ phase' = "unload"),
           phase' = phase =>
               \/ item' = item /\ impl' = impl + 1
               \/ item' = item + 1 /\ impl' = 1
    PROVE  Descends
<1>1. item \in 1..Items /\ impl \in 1..3 /\ item' \in 1..Items /\ impl' \in 1..3
  BY DEF ChainTypeOK
<1>2. phase' = phase => LoopLeft' < LoopLeft /\ StagesLeft' = StagesLeft
  BY <1>1, ItemsAssumption DEF LoopLeft, StagesLeft
<1>3. phase' # phase => StagesLeft' < StagesLeft
  BY DEF StagesLeft
<1> QED
  BY <1>2, <1>3, Falls

LEMMA StepFalls ==
    ASSUME ChainTypeOK, ChainTypeOK', Step
    PROVE  Descends
<1>1. ASSUME NEW outcome \in {"text", "empty", "raises"}, Summarize(outcome) PROVE Descends
  <2>1. /\ phase = "summarize"
        /\ \/ UNCHANGED <<phase, item>> /\ impl' = impl + 1
           \/ NextNews("switch")
    BY <1>1 DEF Summarize
  <2> QED
    BY <2>1, TurnFalls DEF NextNews
<1>2. ASSUME NEW outcome \in {"text", "empty", "raises"}, Translate(outcome) PROVE Descends
  <2>1. /\ phase = "translate"
        /\ \/ UNCHANGED <<phase, item>> /\ impl' = impl + 1
           \/ NextNews("unload")
    BY <1>2 DEF Translate
  <2> QED
    BY <2>1, TurnFalls DEF NextNews
<1>3. CASE KeepResult
  <2>1. phase = "translate" /\ NextNews("unload")
    BY <1>3 DEF KeepResult
  <2> QED
    BY <2>1, TurnFalls DEF NextNews
<1>4. CASE BeginSummaries \/ SwitchModel \/ Unload \/ SendMessages
  <2>1. StagesLeft' < StagesLeft
    BY <1>4 DEF BeginSummaries, SwitchModel, Unload, SendMessages, StagesLeft
  <2> QED
    BY <2>1, Falls
<1> QED
  BY <1>1, <1>2, <1>3, <1>4 DEF Step

(* The chains get through: whatever the models answer or raise, each step  *)
(* takes the run down an order without endless descent, and no fall back,  *)
(* no empty answer and no signal takes it back up.                         *)
THEOREM ChainsAreFinite ==
    /\ IsWellFoundedOn(Less, Nat \X Nat)
    /\ ChainSpec => [][Descends]_chainVars
<1>1. ChainTypeOK /\ ChainTypeOK' /\ (Sigterm \/ DieInChain) => Descends
  <2> SUFFICES ASSUME ChainTypeOK, ChainTypeOK', Sigterm \/ DieInChain
               PROVE  StagesLeft' < StagesLeft
    BY Falls
  <2>1. phase' = "over" /\ phase # "over"
    BY DEF Sigterm, DieInChain
  <2> QED
    BY <2>1 DEF ChainTypeOK, StagesLeft
<1>2. ChainTypeOK /\ ChainTypeOK' /\ [ChainNext]_chainVars => [Descends]_chainVars
  BY <1>1, StepFalls DEF ChainNext
<1>3. ChainSpec => [][Descends]_chainVars
  BY <1>2, ChainTypeCorrect, PTL DEF ChainSpec
<1> QED
  BY <1>3, LessEnds
=============================================================================
