------------------------------ MODULE MCParts ------------------------------
(* Finite instances of the components that share no state with each other  *)
(* in the program's runs, or only through what their own modules model: a  *)
(* behaviour is one of a single part, the variables of the others rest.    *)
EXTENDS HotNews, PromptVersions, Migration, HealthCheck, ThresholdSearch,
        DigestFormat, Intake, TelegramSend, ModelChain, Settings

TwoColumns == <<"is_read", "is_filtered">>
OneModel   == <<"apex", "apex">>
TwoSources == <<"geeknews", "hackernews">>

(* A post of each of the first tiers, a blacklisted one, one that Hacker   *)
(* News and Reddit both list, and a whitelisted one, without votes.        *)
Listings   == {<<"release", "lab">>, <<"banned", "lab">>, <<"korean", "geeknews">>,
               <<"shared", "hackernews">>, <<"shared", "reddit">>,
               <<"wanted", "hackernews">>}
Thresholds == [s \in TierThree |-> 1]
Quotas     == <<7, 1, 4>>

VARIABLE part

Parts == {"hot", "prompt", "migrate", "health", "threshold", "digest", "intake",
          "send", "chain", "tokens", "tables"}

AtRest(name) == part # name

Init ==
    /\ part \in Parts
    /\ HotInit    /\ (AtRest("hot") => \A r \in HotRuns : carried[r].url \in Labs)
    /\ PromptInit
    /\ MigInit    /\ (AtRest("migrate") => tables)
    /\ HealthInit
    /\ SearchInit /\ source = CHOOSE s \in RatedSources : TRUE
    /\ DigestInit /\ (AtRest("digest") => \A u, v \in DigestUrls :
                          /\ entryLength[u] = entryLength[v]
                          /\ entryLength[u] <= HeaderLength)
    /\ IntakeInit /\ points[<<"wanted", "hackernews">>] = {}
                  /\ (AtRest("intake") => points[<<"shared", "hackernews">>] = {})
    /\ SendInit   /\ (AtRest("send") => approved = {})
    /\ ChainInit  /\ (AtRest("chain") => /\ engine = "ollama" /\ handler
                                         /\ lang = [i \in 1..Items |-> "ko"])
    /\ SettingsInit
    /\ elsewhere => \A k, l \in EnvKeys : theirs[k] = theirs[l]
    /\ AtRest("tables") => flags = NoFlags
    /\ AtRest("tokens") => /\ ~elsewhere
                           /\ env = [k \in EnvKeys |-> CHOOSE v \in Numbers : v \in EnvValues]

(* The files and the table of Settings share nothing but the runs: saves of*)
(* tokens, then all other saves and the screen.                            *)
TokensNext == /\ SettingsNext
              /\ saveStage' \in [Edits -> {"idle"} \cup TokenStages]
              /\ UNCHANGED screen
TablesNext == /\ SettingsNext
              /\ saveStage' \in [Edits -> Stages \ TokenStages]

(* The variables of all parts but one.                                     *)
OthersRest(name) ==
    /\ name = "hot"       \/ UNCHANGED hotVars
    /\ name = "prompt"    \/ UNCHANGED promptVars
    /\ name = "migrate"   \/ UNCHANGED migVars
    /\ name = "health"    \/ UNCHANGED healthVars
    /\ name = "threshold" \/ UNCHANGED searchVars
    /\ name = "digest"    \/ UNCHANGED digestVars
    /\ name = "intake"    \/ UNCHANGED intakeVars
    /\ name = "send"      \/ UNCHANGED sendVars
    /\ name = "chain"     \/ UNCHANGED chainVars
    /\ name \in {"tokens", "tables"} \/ UNCHANGED settingsVars

Next ==
    /\ UNCHANGED part
    /\ \/ part = "hot"       /\ HotNext
       \/ part = "prompt"    /\ PromptNext
       \/ part = "migrate"   /\ MigNext
       \/ part = "health"    /\ HealthNext
       \/ part = "threshold" /\ SearchNext
       \/ part = "digest"    /\ DigestNext
       \/ part = "intake"    /\ IntakeNext
       \/ part = "send"      /\ SendNext
       \/ part = "chain"     /\ ChainNext
       \/ part = "tokens"    /\ TokensNext
       \/ part = "tables"    /\ TablesNext
    /\ OthersRest(part)

Spec == Init /\ [][Next]_<<part, hotVars, promptVars, migVars, healthVars, searchVars,
                           digestVars, intakeVars, sendVars, chainVars, settingsVars>>
=============================================================================
