--------------------------- MODULE CheckPipeline ---------------------------
(***************************************************************************)
(* One topic's checks (check_topic in app/checker.py, with the fetch's     *)
(* storage in app/scraping and the knowledge write in app/analysis):       *)
(*                                                                         *)
(*   P0  read the topic and its knowledge           Begin                  *)
(*   C2  store the new articles, P1c pick the batch Store                  *)
(*   P2, P3, C3  analyze, merge, commit             Commit, LoseRace, Abort *)
(*   P4  send                                       Send                   *)
(*   C4  record the delivery                        RecordDelivery         *)
(*                                                                         *)
(* No database connection is held between two of these steps, so the       *)
(* checks of two processes, the retry drain, the retention job and the     *)
(* deletion of the topic come in between.  P2 and P3 touch nothing but     *)
(* what the check holds, so what they find is chosen where it is used.     *)
(*                                                                         *)
(* The model of the language model: what the analysis calls new is told by *)
(* the articles it read and is not in the summary it was given; a merged   *)
(* summary holds the old facts and the new ones.                           *)
(***************************************************************************)
EXTENDS Subsequences, SequencesExt

CONSTANTS
  Checkers,        \* processes that can be checking the topic at once
  Articles,        \* what a feed can offer, by content_hash
  Facts,
  Tells,           \* the fact each article reports
  Generations,     \* topics.generation: fresh for every topic created
  NoTopic,         \* the topic does not exist
  ResultIds,       \* ids of check_results rows; a free one is taken again
  NoResult,
  MaxArticles,     \* max_articles_per_check
  MaxAttempts,     \* MAX_ANALYSIS_ATTEMPTS
  MaxAlerts,       \* bound: the alerts for one fact are counted up to here
  MaxLosses,       \* bound: the checks that die
  Events           \* the misfortunes and user actions this instance includes

EventKinds == {"stale_merge", "expiry", "deletion", "loss"}

ASSUME PipelineAssumption ==
  /\ Tells \in [Articles -> Facts]
  /\ Generations # {} /\ NoTopic \notin Generations /\ NoResult \notin ResultIds
  /\ MaxArticles \in Nat \ {0} /\ MaxAttempts \in Nat \ {0}
  /\ MaxAlerts \in Nat \ {0, 1} /\ MaxLosses \in Nat
  /\ Events \subseteq EventKinds

VARIABLES
  generation,   \* the generation of the topic that has the row id, or NoTopic
  version,      \* knowledge_states.version
  absorbed,     \* the facts in knowledge_states.summary_text
  row,          \* the articles table
  recency,      \* the stored articles, ORDER BY fetched_at DESC
  results,      \* check_results rows that decided to notify, with their delivery
  check,        \* the checks in progress
  announced,    \* history: the alerts decided for each fact
  losses        \* checks that died so far

vars == <<generation, version, absorbed, row, recency, results, check, announced, losses>>

knowledge == <<version, absorbed>>
articles == <<row, recency>>

\* open is processed = 0.  origin and verdict are history: the topic the article was
\* fetched for, and how the check that finished with it judged it.
Row == [origin : Generations \cup {NoTopic}, open : BOOLEAN, tries : 0..MaxAttempts,
        verdict : {"none", "not_news", "news"}]

NoRow == [origin |-> NoTopic, open |-> FALSE, tries |-> 0, verdict |-> "none"]

\* status is the delivery of the row's intents, sent the column notification_sent.
Result == [generation : Generations \cup {NoTopic},
           status : {"pending", "delivered", "abandoned"}, sent : BOOLEAN]

Blank == [generation |-> NoTopic, status |-> "abandoned", sent |-> FALSE]

CheckRec ==
  [pc : {"idle", "fetching", "analyzing", "sending", "sent"},
   generation : Generations \cup {NoTopic}, version : Nat, base : SUBSET Facts,
   batch : Seq(Articles), result : ResultIds \cup {NoResult}, ok : BOOLEAN]

NoCheck ==
  [pc |-> "idle", generation |-> NoTopic, version |-> 0, base |-> {},
   batch |-> <<>>, result |-> NoResult, ok |-> FALSE]

Stored == {a \in Articles : row[a].origin # NoTopic}
Open == {a \in Articles : row[a].open}

FirstOf(s, n) == SubSeq(s, 1, IF Len(s) < n THEN Len(s) ELSE n)

(***************************************************************************)
(* P0 to P1c                                                               *)
(***************************************************************************)

\* _snapshot_topic
Begin(c) ==
  /\ check[c].pc = "idle"
  /\ generation # NoTopic
  /\ check' = [check EXCEPT ![c] =
       [NoCheck EXCEPT !.pc = "fetching", !.generation = generation,
                       !.version = version, !.base = absorbed]]
  /\ UNCHANGED <<generation, knowledge, articles, results, announced, losses>>

\* An article inserted for topic generation g
NewRow(g) == [origin |-> g, open |-> TRUE, tries |-> 0, verdict |-> "none"]

\* The candidates of one fetch in ranking order: what the topic does not hold.
Fresh == {s \in SetToAllKPermutations(Articles \ Stored) : Len(s) <= MaxArticles}

\* _analysis_batch: the newest unprocessed rows without the new ones, then the new ones.
Batch(unprocessed, new) ==
  LET stranded == Filtered(FirstOf(unprocessed, MaxArticles), Articles \ ToSet(new))
  IN  FirstOf(stranded \o new, MaxArticles)

\* _store_articles fences its INSERTs by the topic's id alone.  Without a topic every one
\* fails its foreign key and counts as a duplicate.
Store(c) ==
  /\ check[c].pc = "fetching"
  /\ \E new \in IF generation = NoTopic THEN {<<>>} ELSE Fresh :
       LET stored == [a \in Articles |->
             IF a \in ToSet(new) THEN NewRow(check[c].generation) ELSE row[a]]
           newest == Reverse(new) \o recency
           batch  == Batch(Filtered(newest, {a \in Articles : stored[a].open}), new)
       IN /\ row' = stored
          /\ recency' = newest
          /\ check' = [check EXCEPT ![c] =
               IF batch = <<>> THEN NoCheck ELSE [@ EXCEPT !.pc = "analyzing", !.batch = batch]]
  /\ UNCHANGED <<generation, knowledge, results, announced, losses>>

(***************************************************************************)
(* P2, P3 and C3                                                           *)
(***************************************************************************)

\* What the analysis and the merge came to: the articles that fitted the prompt, what
\* they told, the gate the findings stopped at, and whether the merge was refused.
Analyses(me) ==
  {x \in [read : {ToSet(FirstOf(me.batch, n)) : n \in 1..Len(me.batch)},
          findings : SUBSET (Facts \ me.base),
          gate : {"error", "quiet", "below", "trivial", "news"}, stale : BOOLEAN] :
     /\ x.findings \subseteq {Tells[a] : a \in x.read}
     /\ x.findings = {} <=> x.gate \in {"error", "quiet"}
     /\ x.stale => x.gate \in {"trivial", "news"} /\ "stale_merge" \in Events}

Planned(x) == x.gate \in {"trivial", "news"} /\ ~x.stale
Unfinished(x) == x.gate = "error" \/ x.stale

\* Mutants: what did not fit the prompt is finished too; a stale merge finishes the batch.
WholeBatchDone(me, x) == IF Unfinished(x) THEN {} ELSE ToSet(me.batch)

\* article_ids; the rest of the batch is failed_article_ids.
Done(me, x) == IF Unfinished(x) THEN {} ELSE x.read

\* What the analysis made of an article, if it read it.
Verdict(a, x) ==
  IF a \notin x.read THEN "none"
  ELSE IF Tells[a] \in x.findings /\ x.gate \in {"trivial", "news"} THEN "news"
  ELSE "not_news"

\* Mutant: an article is tried for ever.
ChargedWithoutEnd(r) == [r EXCEPT !.tries = IF @ < MaxAttempts THEN @ + 1 ELSE @]

\* record_article_analysis_failure
Charged(r) ==
  LET tries == IF r.tries < MaxAttempts THEN r.tries + 1 ELSE r.tries
  IN  [r EXCEPT !.tries = tries, !.open = @ /\ tries < MaxAttempts]

\* mark_articles_processed, record_article_analysis_failure
Disposed(me, x) ==
  LET done == Stored \cap Done(me, x)
  IN  [a \in Articles |->
         CASE a \in done -> [row[a] EXCEPT !.open = FALSE, !.verdict = Verdict(a, x)]
           [] a \in (Stored \cap ToSet(me.batch)) \ done -> Charged(row[a])
           [] OTHER -> row[a]]

Counted(n) == IF n < MaxAlerts THEN n + 1 ELSE n

\* The ids a new row can take.  Rows whose delivery is over and recorded are not looked at
\* again and give up their ids; the rows of a deleted topic are gone, although a check
\* that decided to notify may still hold the id of one.
FreeResults ==
  {r \in ResultIds :
     /\ results[r].status # "pending"
     /\ \A c \in Checkers : check[c].result = r => check[c].generation # generation}

\* Mutants: the fence lacks one of its conjuncts.
FenceVersionOnly(me, x) == Planned(x) => me.version = version
FenceGenerationOnly(me, x) == me.generation = generation

\* topic_generation_matches always, update_knowledge_state_cas when there is a plan
Fence(me, x) == me.generation = generation /\ (Planned(x) => me.version = version)

\* The prepared plan: the summary this check read, with its findings folded in.
Summary(me, x) == me.base \cup x.findings

\* _commit_check_transition
Commit(c, x) ==
  LET me == check[c]
  IN /\ me.pc = "analyzing" /\ generation # NoTopic
     /\ Fence(me, x)
     /\ IF Planned(x)
          THEN version' = version + 1 /\ absorbed' = Summary(me, x)
          ELSE UNCHANGED knowledge
     /\ row' = Disposed(me, x)
     /\ announced' = [f \in Facts |->
          IF x.gate = "news" /\ f \in x.findings THEN Counted(announced[f]) ELSE announced[f]]
     /\ IF x.gate = "news"
          THEN \E r \in FreeResults :
                 /\ results' = [results EXCEPT ![r] =
                      [generation |-> generation, status |-> "pending", sent |-> FALSE]]
                 /\ check' = [check EXCEPT ![c] =
                      [NoCheck EXCEPT !.pc = "sending", !.generation = me.generation,
                                      !.result = r]]
          ELSE /\ check' = [check EXCEPT ![c] = NoCheck]
               /\ UNCHANGED results
     /\ UNCHANGED <<generation, recency, losses>>

\* CheckTransitionAborted: another check's knowledge landed first, everything rolls back.
LoseRace(c) ==
  /\ check[c].pc = "analyzing"
  /\ check[c].generation = generation /\ check[c].version # version
  /\ \E x \in Analyses(check[c]) : Planned(x)
  /\ check' = [check EXCEPT ![c] = NoCheck]
  /\ UNCHANGED <<generation, knowledge, articles, results, announced, losses>>

\* CheckTransitionAborted: the topic was deleted or replaced.
Abort(c) ==
  /\ check[c].pc = "analyzing"
  /\ check[c].generation # generation
  /\ check' = [check EXCEPT ![c] = NoCheck]
  /\ UNCHANGED <<generation, knowledge, articles, results, announced, losses>>

(***************************************************************************)
(* P4 and C4                                                               *)
(***************************************************************************)

\* The intents are still there for this check to claim.
Claimable(me) == results[me.result].generation = me.generation
                  /\ results[me.result].status = "pending"

\* notification_sent: there were deliveries, and all of them succeeded.
AllSent(me, delivered) == delivered /\ Claimable(me)

\* An attempt that fails is queued for the drain.
Send(c) ==
  LET me == check[c]
  IN /\ me.pc = "sending"
     /\ \E delivered \in BOOLEAN :
          /\ results' = IF delivered /\ Claimable(me)
                          THEN [results EXCEPT ![me.result].status = "delivered"] ELSE results
          /\ check' = [check EXCEPT ![c] =
               [@ EXCEPT !.pc = "sent", !.ok = AllSent(me, delivered)]]
     /\ UNCHANGED <<generation, knowledge, articles, announced, losses>>

\* update_check_result_delivery names the row by its id alone.
RecordDelivery(c) ==
  /\ check[c].pc = "sent"
  /\ results' = [results EXCEPT ![check[c].result] =
       IF @.generation = NoTopic THEN @ ELSE [@ EXCEPT !.sent = check[c].ok]]
  /\ check' = [check EXCEPT ![c] = NoCheck]
  /\ UNCHANGED <<generation, knowledge, articles, announced, losses>>

CheckStep(c) ==
  \/ Begin(c) \/ Store(c)
  \/ \E x \in Analyses(check[c]) : Commit(c, x)
  \/ LoseRace(c) \/ Abort(c)
  \/ Send(c) \/ RecordDelivery(c)

(***************************************************************************)
(* Around the checks                                                       *)
(***************************************************************************)

\* The retry drain settles a row's intents (DeliveryQueue has its steps).
Drain(r) ==
  /\ results[r].status = "pending"
  /\ \E s \in {"delivered", "abandoned"} : results' = [results EXCEPT ![r].status = s]
  /\ UNCHANGED <<generation, knowledge, articles, check, announced, losses>>

\* delete_old_articles: the oldest rows go, processed or not.
Expire ==
  /\ "expiry" \in Events
  /\ \E n \in 0..Len(recency) - 1 :
       /\ recency' = SubSeq(recency, 1, n)
       /\ row' = [a \in Articles |->
            IF \E i \in (n + 1)..Len(recency) : recency[i] = a THEN NoRow ELSE row[a]]
  /\ UNCHANGED <<generation, knowledge, results, check, announced, losses>>

\* Everything of the topic's cascades away, and its id is free.
Delete ==
  /\ "deletion" \in Events
  /\ generation # NoTopic
  /\ generation' = NoTopic
  /\ version' = 0 /\ absorbed' = {}
  /\ row' = [a \in Articles |-> NoRow] /\ recency' = <<>>
  /\ results' = [r \in ResultIds |-> Blank]
  /\ announced' = [f \in Facts |-> 0]
  /\ UNCHANGED <<check, losses>>

\* The next topic takes the id; its initialization has given it a baseline.
Create ==
  /\ generation = NoTopic
  /\ generation' \in {g \in Generations : \A c \in Checkers : check[c].generation # g}
  /\ version' = 1 /\ absorbed' \in SUBSET Facts
  /\ UNCHANGED <<articles, results, check, announced, losses>>

\* A check dies: a crash, its deadline, or an exception its caller logs.
Lose(c) ==
  /\ "loss" \in Events /\ losses < MaxLosses
  /\ check[c].pc # "idle"
  /\ check' = [check EXCEPT ![c] = NoCheck]
  /\ losses' = losses + 1
  /\ UNCHANGED <<generation, knowledge, articles, results, announced>>

Init ==
  /\ generation = CHOOSE g \in Generations : TRUE
  /\ version = 1 /\ absorbed = {}
  /\ row = [a \in Articles |-> NoRow] /\ recency = <<>>
  /\ results = [r \in ResultIds |-> Blank]
  /\ check = [c \in Checkers |-> NoCheck]
  /\ announced = [f \in Facts |-> 0]
  /\ losses = 0

Next ==
  \/ \E c \in Checkers : CheckStep(c)
  \/ \E r \in ResultIds : Drain(r)
  \/ Expire \/ Delete \/ Create
  \/ \E c \in Checkers : Lose(c)

Spec == Init /\ [][Next]_vars

\* The scheduler checks the topic again and again, and a check that runs goes on.
Fairness == \A c \in Checkers : WF_vars(CheckStep(c))

(***************************************************************************)
(* Properties                                                              *)
(***************************************************************************)

TypeOK ==
  /\ generation \in Generations \cup {NoTopic}
  /\ version \in Nat /\ absorbed \in SUBSET Facts
  /\ row \in [Articles -> Row]
  /\ recency \in Seq(Articles)
  /\ ToSet(recency) = Stored /\ Len(recency) = Cardinality(Stored)
  /\ results \in [ResultIds -> Result]
  /\ check \in [Checkers -> CheckRec]
  /\ announced \in [Facts -> 0..MaxAlerts]
  /\ losses \in 0..MaxLosses

Atomic == INSTANCE AtomicCheck WITH known <- absorbed, waiting <- Open

\* Overlapping checks come out as if they had run one after the other: what one announces
\* was not known when it committed, and nothing another check learned is lost.
Serializable == Atomic!Spec

\* An article is finished with only by a check that read it, against a summary its news
\* is now part of, or once its attempts are used up: no news is dropped because a prompt
\* was full, a merge failed, a race was lost or a check died.
NoNewsLost ==
  \A a \in Stored : ~row[a].open =>
    \/ row[a].verdict = "not_news"
    \/ row[a].verdict = "news" /\ Tells[a] \in absorbed
    \/ row[a].tries = MaxAttempts

\* No check overwrites what another one learned meanwhile.
KnowledgeGrows == [][generation' = generation => absorbed \subseteq absorbed']_vars

Reporting(f) == {a \in Articles : Tells[a] = f}

\* Merges that keep failing repeat an alert no more often than the attempts of the
\* articles that report the fact allow, and once more for each of these articles and
\* each other check that had it in its batch when its attempts were used up.
AlertsBounded ==
  \A f \in Facts :
    announced[f] <= Cardinality(Reporting(f)) * (MaxAttempts + Cardinality(Checkers) - 1)

\* Articles earlier checks left unfinished come before new ones: one of them is left out of
\* a batch only when the batch has no room.
StrandedFirst ==
  [][\A c \in Checkers :
       (check[c].pc = "fetching" /\ check'[c].pc = "analyzing") =>
         (Open \subseteq ToSet(check'[c].batch) \/ ToSet(check'[c].batch) \subseteq Open)]_vars

\* Check c picks a batch with articles of this fetch in it, and open article a is left out.
CrowdedOut(a, c) ==
  /\ check[c].pc = "fetching" /\ check'[c].pc = "analyzing"
  /\ \E x \in ToSet(check'[c].batch) : row[x].origin = NoTopic
  /\ row[a].open /\ a \notin ToSet(check'[c].batch)

\* Every stored article is finished with in the end, whatever the analysis makes of it, a
\* merge refuses or a race loses, unless fetch after fetch brings newer ones that crowd it
\* out of the batch: nothing else can keep it waiting for good.
ArticlesSettle ==
  \A a \in Articles :
    (row[a].open ~> ~row[a].open) \/ []<><<\E c \in Checkers : CrowdedOut(a, c)>>_vars
============================================================================
