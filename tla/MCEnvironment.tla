---------------------------- MODULE MCEnvironment ----------------------------
(* What surrounds the checks of a topic, one component per behaviour, each  *)
(* in a small instance: the sources and the LLM, the scheduler, the anchor  *)
(* of due topics, the knowledge, the settings, the database.                *)
EXTENDS Configuration

CONSTANTS
    \* Who acts: topics, checks, calls, batches, workers, jobs, processes.
    Actors,
    MaxAttempts,
    \* FeedHealth
    FeedThreshold, Cap, MaxArticles, MaxVersions, MaxTroubles, MaxJumps, Jump, MaxPrunes,
    \* ProviderRouter
    Providers, ProviderThreshold, ProviderCooldown, SourceBudget, MaxLosses,
    \* LlmCall
    Articles, MaxRetries, HintTtl, RetryBudget, MaxChanges,
    \* GoogleNews
    Links, Width, Cooldowns, MaxCooldown, MaxMinutes,
    \* Scheduler
    Jobs, CHECK_JOB_ID, Settings, StaleAfter, CycleLimit, MaxFaults,
    \* DueTopics
    Default, Intervals, Skew, Leap, MaxLeaps, MaxNow,
    \* Knowledge
    TokenBudget, Limits, Summaries, MaxVersion,
    \* Migrations
    Newest, MaxStarts

VARIABLES
    scenario,
    version, health, sinceError, holds, had, check, faults, jumps, prunes,
    provider, request, asked, losses,
    accepts, hint, call, confirmed, changes,
    batch, link, cooldown, late, minutes,
    worker, lease, sched, job, byHand, cycle, failures,
    now, rows, topic, since, future, leaps,
    state, revisions, writer,
    ledger, schema, lock, process, starts

feedVars == <<version, health, sinceError, holds, had, check, faults, jumps, prunes>>
providerVars == <<provider, request, asked, losses>>
llmVars == <<accepts, hint, call, confirmed, changes>>
newsVars == <<batch, link, cooldown, late, minutes>>
schedVars == <<worker, lease, sched, job, byHand, cycle, failures>>
dueVars == <<now, rows, topic, since, future, leaps>>
knowledgeVars == <<state, revisions, writer>>
dbVars == <<ledger, schema, lock, process, starts>>
sourceVars == <<feedVars, providerVars, llmVars, newsVars>>
serverVars == <<schedVars, dueVars, knowledgeVars, dbVars>>
allVars == <<scenario, vars, sourceVars, serverVars>>

Feeds == INSTANCE FeedHealth WITH
    Topics <- Actors, Threshold <- FeedThreshold, MaxFaults <- MaxTroubles
Router == INSTANCE ProviderRouter WITH
    Checks <- Actors, Threshold <- ProviderThreshold, Cooldown <- ProviderCooldown,
    Budget <- SourceBudget
Llm == INSTANCE LlmCall WITH Calls <- Actors
News == INSTANCE GoogleNews WITH Batches <- Actors
Sched == INSTANCE Scheduler WITH Workers <- Actors, faults <- failures
Anchor == INSTANCE DueTopics
Facts == INSTANCE Knowledge WITH Jobs <- Actors, Budget <- TokenBudget, job <- writer
Db == INSTANCE Migrations WITH Processes <- Actors

\* Values the run gives the constants that are sequences.
MCProviders == <<"bing_news", "google_news">>
MCSummaries == {<<1>>, <<4, 1>>, <<1, 1, 1, 1>>}

ASSUME EnvironmentAssumption ==
    /\ Feeds!FetchAssumption /\ Feeds!BackoffAssumption /\ Router!RouterAssumption
    /\ Llm!LlmAssumption /\ News!GoogleAssumption /\ Sched!SchedulerAssumption
    /\ Anchor!DueAssumption /\ Facts!KnowledgeAssumption /\ Newest \in Nat \ {0}

\* What does not take part is in one of its initial states.
MCInit ==
    /\ scenario \in {"feeds", "providers", "llm", "news", "scheduler", "due",
                     "knowledge", "database", "settings"}
    /\ Feeds!Init /\ Router!Init /\ News!Init
    /\ Llm!Init /\ (scenario # "llm" => accepts = Llm!Modes)
    /\ Sched!Init /\ (scenario # "scheduler" => \A c \in Actors : worker[c].setting = CHOOSE x \in Settings : TRUE)
    /\ Anchor!Init /\ (scenario # "due" => now = 0 /\ topic.interval = 0)
    /\ Facts!Init /\ (scenario # "knowledge" => state = None)
    /\ Db!Init /\ (scenario # "database" => ledger = {})
    /\ Init /\ (scenario # "settings" => owned = {} /\ \A f \in Fields : file[f] = None)

OfFeeds(A) == /\ scenario = "feeds" /\ A
              /\ UNCHANGED <<scenario, vars, providerVars, llmVars, newsVars, serverVars>>
OfProviders(A) == /\ scenario = "providers" /\ A
                  /\ UNCHANGED <<scenario, vars, feedVars, llmVars, newsVars, serverVars>>
OfLlm(A) == /\ scenario = "llm" /\ A
            /\ UNCHANGED <<scenario, vars, feedVars, providerVars, newsVars, serverVars>>
OfNews(A) == /\ scenario = "news" /\ A
             /\ UNCHANGED <<scenario, vars, feedVars, providerVars, llmVars, serverVars>>
OfScheduler(A) == /\ scenario = "scheduler" /\ A
                  /\ UNCHANGED <<scenario, vars, sourceVars, dueVars, knowledgeVars, dbVars>>
OfDue(A) == /\ scenario = "due" /\ A
            /\ UNCHANGED <<scenario, vars, sourceVars, schedVars, knowledgeVars, dbVars>>
OfKnowledge(A) == /\ scenario = "knowledge" /\ A
                  /\ UNCHANGED <<scenario, vars, sourceVars, schedVars, dueVars, dbVars>>
OfDatabase(A) == /\ scenario = "database" /\ A
                 /\ UNCHANGED <<scenario, vars, sourceVars, schedVars, dueVars, knowledgeVars>>
OfSettings(A) == /\ scenario = "settings" /\ A
                 /\ UNCHANGED <<scenario, sourceVars, serverVars>>

\* A behaviour of the feeds has two troubles at most, and one clock jump or one
\* run of retention, not both.
FewTroubles == jumps' + prunes' <= 1 /\ faults' + jumps' + prunes' <= MaxTroubles

MCNext ==
    \/ OfFeeds(Feeds!Next /\ FewTroubles)
    \/ OfProviders(Router!Next)
    \/ OfLlm(Llm!Next)
    \/ OfNews(News!Next)
    \/ OfScheduler(Sched!Next)
    \/ OfDue(Anchor!Next)
    \/ OfKnowledge(Facts!Next)
    \/ OfDatabase(Db!Next)
    \/ OfSettings(Next)

\* The fairness of the feeds and of the providers.
fairVars == <<feedVars, providerVars>>
Either(f, p) ==
    \/ scenario = "feeds" /\ f /\ UNCHANGED providerVars
    \/ scenario = "providers" /\ p /\ UNCHANGED feedVars
Begins(c) == Either(Feeds!FetchBegins(c), Router!Admit(c) \/ Router!Probe(c))
Answers(c) == Either(Feeds!Served(c), Router!Report(c, "entries"))
TimePasses == Either(Feeds!Tick, Router!Elapse)

MCSpec ==
    /\ MCInit /\ [][MCNext]_allVars
    /\ \A c \in Actors : WF_fairVars(Begins(c)) /\ WF_fairVars(Answers(c))
    /\ WF_fairVars(TimePasses)

\* Only failures of its own put a feed in backoff; see FeedHealth.
BackoffIsEarned == Feeds!BackoffIsEarned

\* Every topic gets articles of a feed it shares, whatever the backoff and the
\* validators other topics left behind; see FeedHealth.
EveryTopicFed == scenario = "feeds" => Feeds!EveryTopicFed

\* A cooldown is ended only by an answer to a request sent after the last
\* failure; see ProviderRouter.
CooldownKept == Router!CooldownKept

\* With every provider out, some provider is used again; see ProviderRouter.
ProvidersRecover == scenario = "providers" => Router!ProviderRecovers

\* The mode hint names a mode a call has succeeded in within the hint's time.
HintConfirmed == Llm!HintConfirmed

\* The articles a result reports as read are those of the answered request.
ReadIsAnswered == Llm!ReadIsAnswered

\* A batch of redirect links that was refused is all but stopped; see GoogleNews.
RefusedBatchStops == News!RefusedBatchStops

\* At most one process of the deployment runs jobs; see Scheduler.
OneTicker == Sched!OneTicker

\* /health does not say "ok" of a process that checks nothing; see Scheduler.
OkIsFresh == Sched!OkIsFresh

\* A stamp from the future delays a topic once; see DueTopics.
CheckedInTime == Anchor!CheckedInTime

\* A summary that is cut loses as little as it can; see Knowledge.
TruncatesLeast == Facts!TruncatesLeast

\* Every diff on the knowledge timeline is one edit; see Knowledge.
HistoryContiguous == Facts!HistoryContiguous

\* No process serves a database it has not the schema of; see Migrations.
ServesItsSchema == Db!ServesItsSchema
=============================================================================
