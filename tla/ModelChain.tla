----------------------------- MODULE ModelChain -----------------------------
(***************************************************************************)
(* How one run summarises and translates its items.                        *)
(*                                                                         *)
(* Every item goes through a chain of summarisers, then every result       *)
(* through a chain of translators; the first implementation that does not  *)
(* raise ends its chain.  What an implementation generates with is not its *)
(* own choice: the run picks one engine for all of them, Ollama when there *)
(* is memory enough and the Claude CLI otherwise, and Ollama generates     *)
(* with the model that was loaded last.  The Claude implementations load   *)
(* nothing and never raise: they turn a failure into a result.             *)
(*                                                                         *)
(* Only the scheduled run registers a handler for SIGTERM; a manual run and*)
(* a catch-up run end at once, as every run does that is killed.           *)
(***************************************************************************)
EXTENDS Naturals

CONSTANT Items    \* the run's items are 1..Items

ASSUME ItemsAssumption == Items \in Nat \ {0}

Summarizers == <<"apex", "kanana", "claude">>
Translators == <<"kanana", "claude">>

VARIABLES
    engine,     \* the engine all implementations are given: "ollama", "claude"
    lang,       \* the language detected for each item
    phase,      \* "start", "summarize", "translate", "unload", "send", "over"
    item,       \* the item at hand
    impl,       \* the index of the implementation the chain tries
    current,    \* OllamaEngine._current_model, or "none"
    result,     \* the SummaryResult of each item
    usage,      \* rows of model_usage_log, each with the item it was written for
    calls,      \* history: every call of generate, and how it went
    handler,    \* the run has registered the handler for SIGTERM
    cut         \* history: the process ended without running its handler

ending == <<handler, cut>>
chainVars == <<engine, lang, phase, item, impl, current, result, usage, calls,
            handler, cut>>

Results == [text : {"none", "empty", "summary", "translation"}, error : BOOLEAN,
            summarizer : {"none", "apex", "kanana", "claude"},
            translator : {"none", "kanana", "claude"}]
NoResult == [text |-> "none", error |-> FALSE,
             summarizer |-> "none", translator |-> "none"]

ChainInit ==
    /\ engine \in {"ollama", "claude"}
    /\ lang \in [1..Items -> {"ko", "en"}]
    /\ phase = "start"
    /\ item = 1
    /\ impl = 1
    /\ current = "none"
    /\ result = [i \in 1..Items |-> NoResult]
    /\ usage = {}
    /\ calls = {}
    /\ handler \in BOOLEAN
    /\ cut = FALSE

-----------------------------------------------------------------------------
(* The engines                                                             *)

(* OllamaEngine.load only notes the name; ClaudeCliEngine.load does        *)
(* nothing, and the Claude implementations call neither; variant: the      *)
(* implementations rely on the load before the loop.                       *)
NotLoaded(name)  == current
AfterLoad(name) == IF engine = "ollama" /\ name # "claude" THEN name ELSE current

(* The model that answers.                                                 *)
Model(name) == IF engine = "ollama" THEN AfterLoad(name) ELSE "claude"

(* One call of generate: it answers with text or without, or raises; with  *)
(* no model loaded Ollama always raises.                                   *)
Generate(task, name, outcome) ==
    /\ outcome \in {"text", "empty", "raises"}
    /\ Model(name) = "none" => outcome = "raises"
    /\ current' = AfterLoad(name)
    /\ calls' = calls \cup {[item |-> item, task |-> task, by |-> name,
                             model |-> Model(name), outcome |-> outcome]}

(* The row of a chain names the implementation that ended it; a database   *)
(* that refuses the row stops nothing.                                     *)
Row(task, name, success) ==
    [item |-> item, task |-> task, model |-> name, success |-> success]
Track(task, name, success) ==
    usage' \in {usage, usage \cup {Row(task, name, success)}}

(* The loop goes on to the next item, or its phase is over.                *)
NextNews(following) ==
    /\ impl' = 1
    /\ IF item = Items
       THEN phase' = following /\ item' = 1
       ELSE item' = item + 1 /\ UNCHANGED phase

-----------------------------------------------------------------------------
(* summarize_and_translate                                                 *)

BeginSummaries ==
    /\ phase = "start"
    /\ phase' = "summarize"
    /\ current' = IF engine = "ollama" THEN "apex" ELSE current
    /\ UNCHANGED <<engine, lang, item, impl, result, usage, calls, ending>>

(* Which implementations turn an exception into a result instead of        *)
(* passing it to the chain; variant: all of them.                          *)
AllSwallow(name) == TRUE
Swallows(name)   == name = "claude"

(* FallbackChain.execute goes on to the next implementation; variant: an   *)
(* empty answer counts as a failure.                                       *)
FallsBackOnEmpty(name, outcome) == outcome # "text" /\ ~Swallows(name)
FallsBack(name, outcome)        == outcome = "raises" /\ ~Swallows(name)

(* chain.execute("summarize", item, engine), one implementation at a time. *)
Summarize(outcome) ==
    /\ phase = "summarize"
    /\ LET name == Summarizers[impl] IN
          /\ Generate("summarize", name, outcome)
          /\ IF FallsBack(name, outcome)
             THEN /\ impl' = impl + 1
                  /\ UNCHANGED <<phase, item, result, usage>>
             ELSE /\ result' = [result EXCEPT ![item] =
                          [text |-> IF outcome = "text" THEN "summary" ELSE "empty",
                           error |-> outcome = "raises",
                           summarizer |-> name, translator |-> "none"]]
                  /\ Track("summarize", name, TRUE)
                  /\ NextNews("switch")
    /\ UNCHANGED <<engine, lang, ending>>

(* Between the loops the summary model is unloaded, the other one loaded.  *)
SwitchModel ==
    /\ phase = "switch"
    /\ phase' = "translate"
    /\ current' = IF engine = "ollama" THEN "kanana" ELSE current
    /\ UNCHANGED <<engine, lang, item, impl, result, usage, calls, ending>>

Untranslated(i) == lang[i] = "ko" \/ result[i].text = "empty"

(* A Korean or empty summary is returned as it is, with no call and no row.*)
KeepResult ==
    /\ phase = "translate"
    /\ Untranslated(item)
    /\ NextNews("unload")
    /\ UNCHANGED <<engine, lang, current, result, usage, calls, ending>>

(* The text of a result whose translation raised; variant: it is dropped.  *)
Dropped  == "empty"
KeptText == result[item].text

Translate(outcome) ==
    /\ phase = "translate"
    /\ ~Untranslated(item)
    /\ LET name == Translators[impl] IN
          /\ Generate("translate", name, outcome)
          /\ IF FallsBack(name, outcome)
             THEN /\ impl' = impl + 1
                  /\ UNCHANGED <<phase, item, result, usage>>
             ELSE /\ result' = [result EXCEPT ![item] =
                          [text |-> CASE outcome = "text"   -> "translation"
                                      [] outcome = "empty"  -> "empty"
                                      [] outcome = "raises" -> KeptText,
                           error |-> outcome = "raises",
                           summarizer |-> result[item].summarizer,
                           translator |-> name]]
                  /\ Track("translate", name, TRUE)
                  /\ NextNews("unload")
    /\ UNCHANGED <<engine, lang, ending>>

Unload ==
    /\ phase = "unload"
    /\ phase' = "send"
    /\ current' = IF engine = "ollama" THEN "none" ELSE current
    /\ UNCHANGED <<engine, lang, item, impl, result, usage, calls, ending>>

(* send_messages formats and sends every item with its result, those with  *)
(* an error too.                                                           *)
SendMessages ==
    /\ phase = "send"
    /\ phase' = "over"
    /\ UNCHANGED <<engine, lang, item, impl, current, result, usage, calls, ending>>

(* SIGTERM runs unload_all and ends the process; variant: it only ends it. *)
StillLoaded == current
UnloadedAll == "none"

Sigterm ==
    /\ handler
    /\ phase # "over"
    /\ phase' = "over"
    /\ current' = UnloadedAll
    /\ UNCHANGED <<engine, lang, item, impl, result, usage, calls, ending>>

(* The process dies of SIGTERM where it has no handler, of SIGKILL or of a *)
(* crash: nothing asks Ollama to unload.                                   *)
DieInChain ==
    /\ phase # "over"
    /\ phase' = "over"
    /\ cut' = TRUE
    /\ UNCHANGED <<engine, lang, item, impl, current, result, usage, calls, handler>>

Step ==
    \/ BeginSummaries
    \/ \E outcome \in {"text", "empty", "raises"} :
          Summarize(outcome) \/ Translate(outcome)
    \/ SwitchModel \/ KeepResult \/ Unload \/ SendMessages

ChainNext == Step \/ Sigterm \/ DieInChain

ChainSpec == ChainInit /\ [][ChainNext]_chainVars

-----------------------------------------------------------------------------
(* Properties                                                              *)

Call == [item : 1..Items, task : {"summarize", "translate"},
         by : {"apex", "kanana", "claude"},
         model : {"none", "apex", "kanana", "claude"},
         outcome : {"text", "empty", "raises"}]

(* Every variable has its type. *)
ChainTypeOK ==
    /\ engine \in {"ollama", "claude"}
    /\ lang \in [1..Items -> {"ko", "en"}]
    /\ phase \in {"start", "summarize", "switch", "translate", "unload", "send", "over"}
    /\ item \in 1..Items
    /\ impl \in 1..3
    /\ phase = "translate" => impl \in 1..2
    /\ current \in {"none", "apex", "kanana"}
    /\ result \in [1..Items -> Results]
    /\ usage \subseteq [item : 1..Items, task : {"summarize", "translate"},
                        model : {"apex", "kanana", "claude"}, success : BOOLEAN]
    /\ calls \subseteq Call
    /\ handler \in BOOLEAN /\ cut \in BOOLEAN

CallRaised(i, task, name) ==
    \E c \in calls : c.item = i /\ c.task = task /\ c.by = name /\ c.outcome = "raises"
Answered(i, task) ==
    \E c \in calls : c.item = i /\ c.task = task /\ c.outcome # "raises"

(* With Ollama, each implementation that has a model of its own is         *)
(* answered by that model, whatever the item before it left loaded.        *)
RightModelLoaded ==
    engine = "ollama" => \A c \in calls : c.by # "claude" => c.model = c.by

(* Not true of the code (the documents give the last place of both chains  *)
(* to ClaudeCliEngine): the Claude implementation is answered by Claude.   *)
LastFallbackIsClaude == \A c \in calls : c.by = "claude" => c.model = "claude"

(* The first implementation that answers ends its chain: an implementation *)
(* is called once at most for an item, and only after all those before it  *)
(* in the chain were called for that item and raised.                      *)
ChainOf(task) == IF task = "summarize" THEN Summarizers ELSE Translators
FirstAnswerEnds ==
    \A c \in calls :
        /\ \E k \in DOMAIN ChainOf(c.task) :
              /\ c.by = ChainOf(c.task)[k]
              /\ \A j \in 1..(k - 1) : CallRaised(c.item, c.task, ChainOf(c.task)[j])
        /\ \A d \in calls :
              d.item = c.item /\ d.task = c.task /\ d.by = c.by => d = c

(* A result says error exactly when its whole chain failed: every          *)
(* summariser raised, or every translator did after a summary was there.   *)
ErrorsExplained ==
    phase = "send" =>
        \A i \in 1..Items :
            result[i].error <=>
                \/ \A k \in 1..3 : CallRaised(i, "summarize", Summarizers[k])
                \/ \A k \in 1..2 : CallRaised(i, "translate", Translators[k])

(* A failed translation loses no text: a result is empty only if every     *)
(* summariser raised or a model answered with nothing.                     *)
TextKept ==
    phase = "send" =>
        \A i \in 1..Items : result[i].text = "empty" =>
            \/ ~Answered(i, "summarize")
            \/ \E c \in calls : c.item = i /\ c.outcome = "empty"

(* A run that gets to its end, or that SIGTERM ends where it registered the*)
(* handler, leaves no model loaded, at whatever call of whatever chain it  *)
(* was; only a process that dies without its handler may.                  *)
UnloadedAtEnd == phase = "over" => current = "none" \/ cut

(* The usage log agrees with the results: a row about an item names the    *)
(* implementation that ended its chain, whatever others tried before, and  *)
(* there is none for a translation that nobody tried.                      *)
UsageMatches ==
    phase = "send" =>
        \A u \in usage : u.model = IF u.task = "summarize"
                                  THEN result[u.item].summarizer
                                  ELSE result[u.item].translator
=============================================================================
