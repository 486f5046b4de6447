------------------------ MODULE CheckPipelineProofs ------------------------
(***************************************************************************)
(* Overlapping checks lose no knowledge, drop no news, and come out as if  *)
(* they had run one after the other.  Everything rests on one fact about   *)
(* the snapshots that checks hold (SnapshotInv): while a topic lives, a    *)
(* snapshot whose version is still current holds the current summary.      *)
(***************************************************************************)
EXTENDS CheckPipeline, FiniteSetTheorems, WellFoundedInduction, TLAPS

(***************************************************************************)
(* The inductive invariant                                                 *)
(***************************************************************************)

\* The ranges the proofs need; what a batch holds does not matter to them.
Shaped(k) ==
  /\ DOMAIN k = {"pc", "generation", "version", "base", "batch", "result", "ok"}
  /\ k.pc \in {"idle", "fetching", "analyzing", "sending", "sent"}
  /\ k.generation \in Generations \cup {NoTopic}
  /\ k.version \in Nat /\ k.base \in SUBSET Facts

TopicType ==
  /\ generation \in Generations \cup {NoTopic}
  /\ version \in Nat /\ absorbed \in SUBSET Facts

ArticleType == row \in [Articles -> Row] /\ announced \in [Facts -> 0..MaxAlerts]

CheckType ==
  /\ check = [c \in Checkers |-> check[c]]
  /\ \A c \in Checkers : Shaped(check[c])

TypeInv == TopicType /\ ArticleType /\ CheckType

\* What a running check read is the present knowledge, or is of an older version.
Faithful(k) ==
  k.pc \in {"fetching", "analyzing"} =>
    /\ k.generation \in Generations
    /\ k.generation = generation =>
         /\ k.version <= version
         /\ k.version = version => k.base = absorbed

SnapshotInv == \A c \in Checkers : Faithful(check[c])

\* A topic that does not exist has no articles.
EmptyInv == generation = NoTopic => \A a \in Articles : row[a] = NoRow

IInv == TypeInv /\ SnapshotInv /\ EmptyInv

LEMMA NoCheckShaped ==
  /\ Shaped(NoCheck) /\ NoCheck.pc = "idle"
  /\ NoRow \in Row
BY PipelineAssumption DEF Shaped, NoCheck, NoRow, Row

LEMMA Initially == Init => IInv
<1> SUFFICES ASSUME Init PROVE IInv
  OBVIOUS
<1>1. generation \in Generations
  BY PipelineAssumption DEF Init
<1>2. TypeInv
  BY <1>1, NoCheckShaped, PipelineAssumption DEF Init, TypeInv, TopicType, ArticleType, CheckType
<1>3. SnapshotInv
  BY NoCheckShaped DEF Init, SnapshotInv, Faithful
<1>4. EmptyInv
  BY <1>1, PipelineAssumption DEF EmptyInv
<1> QED
  BY <1>2, <1>3, <1>4 DEF IInv

(***************************************************************************)
(* What the steps do to the articles and the knowledge                     *)
(***************************************************************************)

\* What the analysis calls new was not in the summary it read.
LEMMA AnalysisShape ==
  ASSUME NEW me, NEW x \in Analyses(me)
  PROVE  /\ x.findings \in SUBSET (Facts \ me.base)
         /\ x.gate \in {"error", "quiet", "below", "trivial", "news"}
         /\ x.stale \in BOOLEAN
         /\ x.stale => x.gate \in {"trivial", "news"} /\ "stale_merge" \in Events
BY DEF Analyses

\* An article is given up with its last attempt.
LEMMA ChargedRow ==
  ASSUME NEW r \in Row
  PROVE  /\ Charged(r) \in Row
         /\ Charged(r).open => r.open
         /\ Charged(r).origin = r.origin /\ Charged(r).verdict = r.verdict
         /\ ~Charged(r).open => ~r.open \/ Charged(r).tries = MaxAttempts
         /\ r.tries = MaxAttempts => Charged(r).tries = MaxAttempts
         /\ Charged(r).open => Charged(r).tries = r.tries + 1 /\ Charged(r).tries < MaxAttempts
<1> DEFINE tries == IF r.tries < MaxAttempts THEN r.tries + 1 ELSE r.tries
           open == r.open /\ tries < MaxAttempts
<1>1. /\ tries \in 0..MaxAttempts /\ (~(tries < MaxAttempts) => tries = MaxAttempts)
      /\ r.tries = MaxAttempts => tries = MaxAttempts
      /\ tries < MaxAttempts => tries = r.tries + 1
  BY PipelineAssumption DEF Row
<1>2. /\ open \in BOOLEAN /\ (open => r.open) /\ (~open => ~r.open \/ tries = MaxAttempts)
      /\ open => tries = r.tries + 1 /\ tries < MaxAttempts
  BY <1>1
<1>3. Charged(r) = [r EXCEPT !.tries = tries, !.open = open]
  BY DEF Charged
<1> HIDE DEF tries, open
<1>4. /\ Charged(r) \in Row
      /\ Charged(r).origin = r.origin /\ Charged(r).verdict = r.verdict
      /\ Charged(r).tries = tries /\ Charged(r).open = open
  BY <1>1, <1>2, <1>3 DEF Row
<1> QED
  BY <1>1, <1>2, <1>4

\* Disposing of a batch opens no article, and gives up only those out of attempts.
LEMMA DisposedRows ==
  ASSUME TypeInv, NEW me, NEW x, NEW a \in Articles
  PROVE  /\ Disposed(me, x) \in [Articles -> Row]
         /\ Disposed(me, x)[a].open => row[a].open
         /\ Disposed(me, x)[a].origin = row[a].origin
         /\ \/ Disposed(me, x)[a] = row[a]
            \/ a \in Done(me, x) /\ Disposed(me, x)[a].verdict = Verdict(a, x)
            \/ /\ Disposed(me, x)[a].verdict = row[a].verdict
               /\ ~Disposed(me, x)[a].open =>
                    ~row[a].open \/ Disposed(me, x)[a].tries = MaxAttempts
               /\ row[a].tries = MaxAttempts => Disposed(me, x)[a].tries = MaxAttempts
<1> DEFINE done == Stored \cap Done(me, x)
           D(b) == CASE b \in done -> [row[b] EXCEPT !.open = FALSE, !.verdict = Verdict(b, x)]
                     [] b \in (Stored \cap ToSet(me.batch)) \ done -> Charged(row[b])
                     [] OTHER -> row[b]
<1>2. ASSUME NEW b \in Articles
      PROVE  Verdict(b, x) \in {"none", "not_news", "news"}
  BY DEF Verdict
<1>3. ASSUME NEW b \in Articles
      PROVE  /\ [row[b] EXCEPT !.open = FALSE, !.verdict = Verdict(b, x)] \in Row
             /\ [row[b] EXCEPT !.open = FALSE, !.verdict = Verdict(b, x)].open = FALSE
             /\ [row[b] EXCEPT !.open = FALSE, !.verdict = Verdict(b, x)].origin = row[b].origin
             /\ [row[b] EXCEPT !.open = FALSE, !.verdict = Verdict(b, x)].verdict = Verdict(b, x)
  BY <1>2 DEF Row, TypeInv, ArticleType
<1>4. ASSUME NEW b \in Articles
      PROVE  /\ D(b) \in Row
             /\ D(b).open => row[b].open
             /\ D(b).origin = row[b].origin
             /\ \/ D(b) = row[b]
                \/ b \in Done(me, x) /\ D(b).verdict = Verdict(b, x)
                \/ /\ D(b).verdict = row[b].verdict
                   /\ ~D(b).open => ~row[b].open \/ D(b).tries = MaxAttempts
                   /\ row[b].tries = MaxAttempts => D(b).tries = MaxAttempts
  <2>1. row[b] \in Row
    BY DEF TypeInv, ArticleType
  <2>2. CASE b \notin done /\ b \notin Stored \cap ToSet(me.batch)
    <3>1. D(b) = row[b]
      BY <2>2
    <3> QED
      BY <2>1, <3>1
  <2>3. CASE b \in done
    <3>1. D(b) = [row[b] EXCEPT !.open = FALSE, !.verdict = Verdict(b, x)]
      BY <2>3
    <3> QED
      BY <3>1, <2>3, <1>3
  <2>4. CASE b \in (Stored \cap ToSet(me.batch)) \ done
    <3>1. D(b) = Charged(row[b])
      BY <2>4
    <3> QED
      BY <2>1, <3>1, ChargedRow
  <2> QED
    BY <2>2, <2>3, <2>4
<1>5. Disposed(me, x) = [b \in Articles |-> D(b)]
  BY DEF Disposed
<1> QED
  BY <1>4, <1>5

\* A planned commit folds its findings into the knowledge of the moment.
LEMMA CommitKnowledge ==
  ASSUME IInv, NEW c \in Checkers, NEW x \in Analyses(check[c]), Commit(c, x)
  PROVE  /\ ~Planned(x) => version' = version /\ absorbed' = absorbed
         /\ Planned(x) => /\ version' = version + 1
                          /\ check[c].base = absorbed
                          /\ absorbed' = absorbed \cup x.findings
         /\ absorbed' \in SUBSET Facts /\ version' \in Nat
         /\ x.findings \in SUBSET Facts
<1>1. Planned(x) => check[c].base = absorbed
  BY DEF Commit, Fence, IInv, SnapshotInv, Faithful
<1>2. x.findings \in SUBSET Facts
  BY AnalysisShape
<1>3. IF Planned(x) THEN version' = version + 1 /\ absorbed' = Summary(check[c], x)
                    ELSE version' = version /\ absorbed' = absorbed
  BY DEF Commit, knowledge
<1>4. version \in Nat /\ absorbed \in SUBSET Facts
  BY DEF IInv, TypeInv, TopicType
<1> QED
  BY <1>1, <1>2, <1>3, <1>4 DEF Summary

(***************************************************************************)
(* Every step preserves the invariant                                      *)
(***************************************************************************)

\* The knowledge stays, or has a new version.
Onward == /\ generation' = generation
          /\ (version' = version /\ absorbed' = absorbed) \/ version' = version + 1

\* A check that stands still keeps a faithful snapshot, unless the topic is another one.
LEMMA StillFaithful ==
  ASSUME IInv, NEW d \in Checkers, check'[d] = check[d],
         Onward \/ generation' # check[d].generation
  PROVE  Faithful(check[d])'
<1>1. Shaped(check[d]) /\ Faithful(check[d]) /\ version \in Nat
  BY DEF IInv, TypeInv, TopicType, CheckType, SnapshotInv
<1> QED
  BY <1>1 DEF Shaped, Faithful, Onward

\* When one check moves, the others hold what they held.
LEMMA OneCheckMoves ==
  ASSUME IInv, Onward, NEW c \in Checkers,
         check' = [check EXCEPT ![c] = check'[c]],
         Shaped(check[c])', Faithful(check[c])'
  PROVE  CheckType' /\ SnapshotInv'
<1>1. check = [d \in Checkers |-> check[d]] /\ \A d \in Checkers : Shaped(check[d])
  BY DEF IInv, TypeInv, CheckType
<1>2. ASSUME NEW d \in Checkers, d # c
      PROVE  check'[d] = check[d]
  BY <1>1, <1>2
<1>3. check' = [d \in Checkers |-> check'[d]]
  BY <1>1
<1>4. \A d \in Checkers : Shaped(check[d])'
  BY <1>1, <1>2
<1>5. \A d \in Checkers : Faithful(check[d])'
  BY <1>2, StillFaithful
<1> QED
  BY <1>3, <1>4, <1>5 DEF CheckType, SnapshotInv

\* A check that is over, or past its commit, holds no snapshot any more.
LEMMA CheckLetsGo ==
  ASSUME IInv, Onward, NEW c \in Checkers,
         check' = [check EXCEPT ![c] = check'[c]], Shaped(check[c])',
         check'[c].pc \notin {"fetching", "analyzing"}
  PROVE  CheckType' /\ SnapshotInv'
BY OneCheckMoves DEF Faithful

\* A step that leaves the topic and its articles alone.
Aside == UNCHANGED <<generation, version, absorbed, row, announced>>

LEMMA AsideKeeps ==
  ASSUME IInv, Aside
  PROVE  TopicType' /\ ArticleType' /\ EmptyInv' /\ Onward
BY DEF Aside, Onward, IInv, TypeInv, TopicType, ArticleType, EmptyInv

LEMMA CheckOver ==
  ASSUME IInv, Aside, NEW c \in Checkers, check' = [check EXCEPT ![c] = NoCheck]
  PROVE  IInv'
<1>1. check'[c] = NoCheck
  BY DEF IInv, TypeInv, CheckType
<1> QED
  BY <1>1, AsideKeeps, CheckLetsGo, NoCheckShaped DEF Shaped, IInv, TypeInv

LEMMA BeginKeeps == ASSUME IInv, NEW c \in Checkers, Begin(c) PROVE IInv'
<1>1. Aside
  BY DEF Begin, Aside, knowledge, articles
<1>2. check'[c] = [NoCheck EXCEPT !.pc = "fetching", !.generation = generation,
                                  !.version = version, !.base = absorbed]
  BY DEF Begin, IInv, TypeInv, CheckType
<1>3. check' = [check EXCEPT ![c] = check'[c]]
  BY <1>2 DEF Begin
<1>4. generation \in Generations /\ version \in Nat /\ absorbed \in SUBSET Facts
  BY DEF Begin, IInv, TypeInv, TopicType
<1>5. Shaped(check[c])' /\ Faithful(check[c])'
  BY <1>1, <1>2, <1>4 DEF Shaped, Faithful, NoCheck, Aside
<1> QED
  BY <1>1, <1>3, <1>5, AsideKeeps, OneCheckMoves DEF IInv, TypeInv

LEMMA NewRowShape ==
  ASSUME NEW g \in Generations
  PROVE  NewRow(g) \in Row /\ NewRow(g).open
BY PipelineAssumption DEF NewRow, Row

\* What a fetch stores is open and new; without a topic nothing is stored.
LEMMA StoredRows ==
  ASSUME IInv, NEW c \in Checkers, Store(c)
  PROVE  /\ row' \in [Articles -> Row]
         /\ \A a \in Articles : row'[a] # row[a] => row'[a].open
         /\ generation = NoTopic => row' = row
<1>1. PICK new \in IF generation = NoTopic THEN {<<>>} ELSE Fresh :
        row' = [a \in Articles |->
                  IF a \in ToSet(new) THEN NewRow(check[c].generation) ELSE row[a]]
  BY DEF Store
<1>2. check[c].generation \in Generations
  BY DEF Store, IInv, SnapshotInv, Faithful
<1>3. NewRow(check[c].generation) \in Row /\ NewRow(check[c].generation).open
  BY <1>2, NewRowShape
<1>4. row \in [Articles -> Row]
  BY DEF IInv, TypeInv, ArticleType
<1>5. ASSUME generation = NoTopic PROVE row' = row
  <2>1. ToSet(new) = {}
    BY <1>1, <1>5 DEF ToSet
  <2> QED
    BY <2>1, <1>1, <1>4
<1> QED
  BY <1>1, <1>3, <1>4, <1>5

LEMMA StoreKeeps == ASSUME IInv, NEW c \in Checkers, Store(c) PROVE IInv'
<1>1. /\ generation' = generation /\ version' = version /\ absorbed' = absorbed
      /\ announced' = announced
  BY DEF Store, knowledge
<1>2. PICK batch : check' = [check EXCEPT ![c] =
        IF batch = <<>> THEN NoCheck ELSE [@ EXCEPT !.pc = "analyzing", !.batch = batch]]
  BY DEF Store
<1>3. check'[c] = IF batch = <<>> THEN NoCheck
                  ELSE [check[c] EXCEPT !.pc = "analyzing", !.batch = batch]
  BY <1>2 DEF IInv, TypeInv, CheckType
<1>4. check' = [check EXCEPT ![c] = check'[c]]
  BY <1>2, <1>3
<1>5. /\ Shaped(check[c]) /\ check[c].pc = "fetching"
      /\ check[c].generation \in Generations
      /\ check[c].generation = generation =>
           check[c].version <= version
           /\ (check[c].version = version => check[c].base = absorbed)
  BY DEF Store, IInv, TypeInv, CheckType, SnapshotInv, Faithful
<1>6. Shaped(check[c])' /\ Faithful(check[c])'
  <2>1. CASE batch = <<>>
    BY <2>1, <1>3, NoCheckShaped DEF Shaped, Faithful
  <2>2. CASE batch # <<>>
    <3>1. /\ DOMAIN check'[c] = DOMAIN check[c] /\ check'[c].pc = "analyzing"
          /\ check'[c].generation = check[c].generation
          /\ check'[c].version = check[c].version /\ check'[c].base = check[c].base
      BY <2>2, <1>3, <1>5 DEF Shaped
    <3> QED
      BY <3>1, <1>1, <1>5 DEF Shaped, Faithful
  <2> QED
    BY <2>1, <2>2
<1>7. TopicType' /\ ArticleType' /\ EmptyInv' /\ Onward
  BY <1>1, StoredRows DEF IInv, TypeInv, TopicType, ArticleType, EmptyInv, Onward
<1> QED
  BY <1>4, <1>6, <1>7, OneCheckMoves DEF IInv, TypeInv

LEMMA CommitKeeps ==
  ASSUME IInv, NEW c \in Checkers, NEW x \in Analyses(check[c]), Commit(c, x)
  PROVE  IInv'
<1>1. /\ generation' = generation /\ generation # NoTopic
      /\ row' = Disposed(check[c], x)
      /\ announced' = [f \in Facts |->
           IF x.gate = "news" /\ f \in x.findings THEN Counted(announced[f]) ELSE announced[f]]
  BY DEF Commit
<1>2. Onward
  BY <1>1, CommitKnowledge DEF Onward
<1>3. TopicType'
  BY <1>1, CommitKnowledge DEF IInv, TypeInv, TopicType
<1>4. \A f \in Facts : announced[f] \in 0..MaxAlerts /\ Counted(announced[f]) \in 0..MaxAlerts
  BY PipelineAssumption DEF IInv, TypeInv, ArticleType, Counted
<1>5. row' \in [Articles -> Row]
  <2>1. CASE Articles = {}
    BY <2>1, <1>1 DEF Disposed
  <2>2. CASE Articles # {}
    BY <2>2, <1>1, DisposedRows DEF IInv
  <2> QED
    BY <2>1, <2>2
<1>6. ArticleType'
  BY <1>1, <1>4, <1>5 DEF ArticleType
<1>7. EmptyInv'
  BY <1>1 DEF EmptyInv
<1>8. PICK r : check' = [check EXCEPT ![c] =
        IF x.gate = "news"
          THEN [NoCheck EXCEPT !.pc = "sending", !.generation = check[c].generation,
                               !.result = r]
          ELSE NoCheck]
  BY DEF Commit
<1>9. check'[c] = IF x.gate = "news"
          THEN [NoCheck EXCEPT !.pc = "sending", !.generation = check[c].generation,
                               !.result = r]
          ELSE NoCheck
  BY <1>8 DEF IInv, TypeInv, CheckType
<1>10. check' = [check EXCEPT ![c] = check'[c]]
  BY <1>8, <1>9
<1>11. Shaped(check[c])' /\ check'[c].pc \notin {"fetching", "analyzing"}
  <2>1. check[c].generation \in Generations \cup {NoTopic}
    BY DEF IInv, TypeInv, CheckType, Shaped
  <2> QED
    BY <2>1, <1>9 DEF Shaped, NoCheck
<1> QED
  BY <1>2, <1>3, <1>6, <1>7, <1>10, <1>11, CheckLetsGo DEF IInv, TypeInv

LEMMA SendKeeps == ASSUME IInv, NEW c \in Checkers, Send(c) PROVE IInv'
<1>1. Aside
  BY DEF Send, Aside, knowledge, articles
<1>2. PICK ok : check' = [check EXCEPT ![c] = [@ EXCEPT !.pc = "sent", !.ok = ok]]
  BY DEF Send
<1>3. Shaped(check[c]) /\ check'[c] = [check[c] EXCEPT !.pc = "sent", !.ok = ok]
  BY <1>2 DEF IInv, TypeInv, CheckType
<1>4. check' = [check EXCEPT ![c] = check'[c]]
  BY <1>2, <1>3
<1>5. Shaped(check[c])' /\ check'[c].pc \notin {"fetching", "analyzing"}
  BY <1>3 DEF Shaped
<1> QED
  BY <1>1, <1>4, <1>5, AsideKeeps, CheckLetsGo DEF IInv, TypeInv

\* Expiry removes rows and changes none.
LEMMA ExpiredRows ==
  ASSUME IInv, Expire
  PROVE  /\ row' \in [Articles -> Row]
         /\ \A a \in Articles : row'[a] = row[a] \/ row'[a] = NoRow
<1>1. PICK n : row' = [a \in Articles |->
        IF \E i \in (n + 1)..Len(recency) : recency[i] = a THEN NoRow ELSE row[a]]
  BY DEF Expire
<1> QED
  BY <1>1, NoCheckShaped DEF IInv, TypeInv, ArticleType

LEMMA ExpireKeeps == ASSUME IInv, Expire PROVE IInv'
<1>1. /\ generation' = generation /\ version' = version /\ absorbed' = absorbed
      /\ announced' = announced /\ check' = check
  BY DEF Expire, knowledge
<1>2. TypeInv'
  BY <1>1, ExpiredRows DEF IInv, TypeInv, TopicType, ArticleType, CheckType
<1>3. SnapshotInv'
  BY <1>1 DEF IInv, SnapshotInv, Faithful
<1>4. EmptyInv'
  BY <1>1, ExpiredRows DEF IInv, EmptyInv
<1> QED
  BY <1>2, <1>3, <1>4 DEF IInv

LEMMA DeleteKeeps == ASSUME IInv, Delete PROVE IInv'
<1>1. /\ generation' = NoTopic /\ version' = 0 /\ absorbed' = {} /\ check' = check
      /\ row' = [a \in Articles |-> NoRow] /\ announced' = [f \in Facts |-> 0]
  BY DEF Delete
<1>2. TypeInv'
  BY <1>1, NoCheckShaped, PipelineAssumption
     DEF IInv, TypeInv, TopicType, ArticleType, CheckType
<1>3. SnapshotInv'
  BY <1>1, PipelineAssumption DEF IInv, SnapshotInv, Faithful
<1>4. EmptyInv'
  BY <1>1 DEF EmptyInv
<1> QED
  BY <1>2, <1>3, <1>4 DEF IInv

LEMMA CreateKeeps == ASSUME IInv, Create PROVE IInv'
<1>1. /\ generation' \in Generations /\ version' = 1 /\ absorbed' \in SUBSET Facts
      /\ \A c \in Checkers : check[c].generation # generation'
      /\ check' = check /\ row' = row /\ announced' = announced
  BY DEF Create, articles
<1>2. TypeInv'
  BY <1>1 DEF IInv, TypeInv, TopicType, ArticleType, CheckType
<1>3. SnapshotInv'
  BY <1>1 DEF IInv, SnapshotInv, Faithful
<1>4. EmptyInv'
  BY <1>1, PipelineAssumption DEF EmptyInv
<1> QED
  BY <1>2, <1>3, <1>4 DEF IInv

\* No step can make a snapshot pass for current that is not.
LEMMA Inductive == ASSUME IInv, [Next]_vars PROVE IInv'
<1>1. ASSUME NEW c \in Checkers, CheckStep(c) PROVE IInv'
  <2>1. ASSUME NEW x \in Analyses(check[c]), Commit(c, x) PROVE IInv'
    BY <2>1, CommitKeeps
  <2>2. ASSUME LoseRace(c) \/ Abort(c) \/ RecordDelivery(c) PROVE IInv'
    BY <2>2, CheckOver DEF LoseRace, Abort, RecordDelivery, Aside, knowledge, articles
  <2> QED
    BY <1>1, <2>1, <2>2, BeginKeeps, StoreKeeps, SendKeeps DEF CheckStep
<1>2. ASSUME NEW r \in ResultIds, Drain(r) PROVE IInv'
  BY <1>2, AsideKeeps DEF Drain, Aside, knowledge, articles,
     IInv, TypeInv, CheckType, SnapshotInv, Faithful
<1>3. ASSUME NEW c \in Checkers, Lose(c) PROVE IInv'
  BY <1>3, CheckOver DEF Lose, Aside, knowledge, articles
<1>4. CASE UNCHANGED vars
  BY <1>4, AsideKeeps DEF vars, Aside, knowledge, articles,
     IInv, TypeInv, CheckType, SnapshotInv, Faithful
<1> QED
  BY <1>1, <1>2, <1>3, <1>4, ExpireKeeps, DeleteKeeps, CreateKeeps DEF Next

\* A snapshot whose version is still current holds the current summary.
THEOREM SnapshotsFaithful == Spec => []IInv
BY Initially, Inductive, PTL DEF Spec

(***************************************************************************)
(* No update is lost                                                       *)
(***************************************************************************)

\* While a topic lives, no step takes a fact out of its knowledge.
LEMMA StepGrows ==
  ASSUME IInv, [Next]_vars, generation' = generation
  PROVE  absorbed \subseteq absorbed'
<1>1. ASSUME NEW c \in Checkers, CheckStep(c) PROVE absorbed \subseteq absorbed'
  <2>1. ASSUME NEW x \in Analyses(check[c]), Commit(c, x) PROVE absorbed \subseteq absorbed'
    BY <2>1, CommitKnowledge
  <2> QED
    BY <1>1, <2>1 DEF CheckStep, Begin, Store, LoseRace, Abort, Send, RecordDelivery, knowledge
<1>2. ~Delete /\ ~Create
  BY PipelineAssumption DEF Delete, Create
<1> QED
  BY <1>1, <1>2 DEF Next, vars, Drain, Expire, Lose, knowledge

\* However many checks of the topic overlap, none overwrites what another one learned.
THEOREM NoLostUpdate == Spec => KnowledgeGrows
<1>1. IInv /\ [Next]_vars => [generation' = generation => absorbed \subseteq absorbed']_vars
  BY StepGrows
<1> QED
  BY <1>1, SnapshotsFaithful, PTL DEF Spec, KnowledgeGrows

(***************************************************************************)
(* No news is dropped                                                      *)
(***************************************************************************)

\* NoNewsLost, for one article
Accounted(a) ==
  row[a].origin # NoTopic /\ ~row[a].open =>
    \/ row[a].verdict = "not_news"
    \/ row[a].verdict = "news" /\ Tells[a] \in absorbed
    \/ row[a].tries = MaxAttempts

LEMMA AccountedAll == NoNewsLost <=> \A a \in Articles : Accounted(a)
BY DEF NoNewsLost, Accounted, Stored

\* A row that stays, or that is not a finished article, stays accounted for.
LEMMA StaysAccounted ==
  ASSUME NEW a \in Articles, Accounted(a),
         \/ row'[a] = row[a] /\ absorbed \subseteq absorbed'
         \/ row'[a].open
         \/ row'[a] = NoRow
  PROVE  Accounted(a)'
BY DEF Accounted, NoRow

\* A commit finishes with what it read, and its news is in the new summary.
LEMMA CommitAccounts ==
  ASSUME IInv, NEW c \in Checkers, NEW x \in Analyses(check[c]), Commit(c, x),
         NEW a \in Articles, Accounted(a)
  PROVE  Accounted(a)'
<1>1. row' = Disposed(check[c], x)
  BY DEF Commit
<1>2. absorbed \subseteq absorbed' /\ (Planned(x) => x.findings \subseteq absorbed')
  BY CommitKnowledge
<1>3. TypeInv
  BY DEF IInv
<1>4. CASE row'[a] = row[a]
  BY <1>2, <1>4, StaysAccounted
<1>5. CASE a \in Done(check[c], x) /\ row'[a].verdict = Verdict(a, x)
  <2>1. ~Unfinished(x) /\ a \in x.read
    BY <1>5 DEF Done
  <2>2. ~x.stale
    BY <2>1 DEF Unfinished
  <2>3. CASE Tells[a] \in x.findings /\ x.gate \in {"trivial", "news"}
    BY <1>2, <1>5, <2>1, <2>2, <2>3 DEF Verdict, Planned, Accounted
  <2>4. CASE ~(Tells[a] \in x.findings /\ x.gate \in {"trivial", "news"})
    BY <1>5, <2>1, <2>4 DEF Verdict, Accounted
  <2> QED
    BY <2>3, <2>4
<1>6. CASE /\ row'[a].verdict = row[a].verdict
           /\ ~row'[a].open => ~row[a].open \/ row'[a].tries = MaxAttempts
           /\ row[a].tries = MaxAttempts => row'[a].tries = MaxAttempts
  <2>1. row'[a].origin = row[a].origin
    BY <1>1, <1>3, DisposedRows
  <2> QED
    BY <1>2, <1>6, <2>1 DEF Accounted
<1> QED
  BY <1>1, <1>3, <1>4, <1>5, <1>6, DisposedRows

LEMMA StepAccounts ==
  ASSUME IInv, [Next]_vars, NEW a \in Articles, Accounted(a)
  PROVE  Accounted(a)'
<1>1. ASSUME row' = row, generation' = generation PROVE Accounted(a)'
  BY <1>1, StepGrows, StaysAccounted
<1>2. ASSUME NEW c \in Checkers, Store(c) PROVE Accounted(a)'
  <2>1. generation' = generation
    BY <1>2 DEF Store
  <2> QED
    BY <1>2, <2>1, StoredRows, StepGrows, StaysAccounted
<1>3. ASSUME NEW c \in Checkers, CheckStep(c) PROVE Accounted(a)'
  <2>1. ASSUME NEW x \in Analyses(check[c]), Commit(c, x) PROVE Accounted(a)'
    BY <2>1, CommitAccounts
  <2> QED
    BY <1>1, <1>2, <1>3, <2>1
       DEF CheckStep, Begin, LoseRace, Abort, Send, RecordDelivery, articles
<1>4. CASE Expire
  BY <1>4, ExpiredRows, StepGrows, StaysAccounted DEF Expire
<1>5. CASE Delete
  BY <1>5, StaysAccounted DEF Delete
<1>6. CASE Create
  BY <1>6, StaysAccounted DEF Create, articles, IInv, EmptyInv
<1>7. ASSUME NEW r \in ResultIds, Drain(r) PROVE Accounted(a)'
  BY <1>1, <1>7 DEF Drain, articles
<1>8. ASSUME NEW c \in Checkers, Lose(c) PROVE Accounted(a)'
  BY <1>1, <1>8 DEF Lose, articles
<1>9. CASE UNCHANGED vars
  BY <1>1, <1>9 DEF vars
<1> QED
  BY <1>3, <1>4, <1>5, <1>6, <1>7, <1>8, <1>9 DEF Next

\* An article is finished with only when its news is known, when a check that read it
\* found none, or when its attempts are used up.
THEOREM EveryArticleAccounted == Spec => []NoNewsLost
<1>1. Init => NoNewsLost
  BY AccountedAll DEF Init, Accounted, NoRow
<1>2. IInv /\ NoNewsLost /\ [Next]_vars => NoNewsLost'
  <2> SUFFICES ASSUME IInv, NoNewsLost, [Next]_vars PROVE NoNewsLost'
    OBVIOUS
  <2>1. \A a \in Articles : Accounted(a)'
    BY StepAccounts, AccountedAll
  <2> QED
    BY <2>1 DEF NoNewsLost, Accounted, Stored
<1> QED
  BY <1>1, <1>2, SnapshotsFaithful, PTL DEF Spec

(***************************************************************************)
(* Overlapping checks are serializable                                     *)
(***************************************************************************)

LEMMA OpenRows == ASSUME TypeInv, TypeInv' PROVE
  /\ Open \subseteq Articles /\ Open' \subseteq Articles
  /\ row' = row => Open' = Open
  /\ (\A a \in Articles : row'[a].open => row[a].open) => Open' \subseteq Open
  /\ (\A a \in Articles : row'[a] # row[a] => row'[a].open) => Open \subseteq Open'
BY DEF Open

\* At the commit a check takes effect: what it found was unknown to the very knowledge it
\* is added to.
LEMMA CommitIsCheck ==
  ASSUME IInv, IInv', "stale_merge" \notin Events,
         NEW c \in Checkers, NEW x \in Analyses(check[c]), Commit(c, x)
  PROVE  Atomic!Check
<1> DEFINE findings == IF Planned(x) THEN x.findings ELSE {}
           alert == x.gate = "news"
<1>1. /\ generation' = generation /\ generation # NoTopic
      /\ announced' = [f \in Facts |->
           IF alert /\ f \in x.findings THEN Counted(announced[f]) ELSE announced[f]]
      /\ row' = Disposed(check[c], x)
  BY DEF Commit
<1>2. /\ x.findings \in SUBSET (Facts \ check[c].base) /\ ~x.stale
  BY AnalysisShape
<1>3. findings \in SUBSET (Facts \ absorbed) /\ absorbed' = absorbed \cup findings
  BY <1>2, CommitKnowledge
<1>4. alert => findings = x.findings
  BY <1>2 DEF Planned
<1>5. announced' = [f \in Facts |->
        IF alert /\ f \in findings THEN Atomic!Counted(announced[f]) ELSE announced[f]]
  BY <1>1, <1>4 DEF Counted, Atomic!Counted
<1>6. Open' \subseteq Open
  BY <1>1, DisposedRows, OpenRows DEF IInv
<1>7. Open \ Open' \in SUBSET Open /\ Open' = Open \ (Open \ Open')
  BY <1>6
<1>8. findings \in Atomic!Findings /\ alert \in BOOLEAN
  BY <1>3 DEF Atomic!Findings
<1> HIDE DEF findings, alert
<1> QED
  BY <1>1, <1>3, <1>5, <1>7, <1>8 DEF Atomic!Check

LEMMA StoreIsArrive ==
  ASSUME IInv, IInv', NEW c \in Checkers, Store(c)
  PROVE  Atomic!Arrive \/ UNCHANGED Atomic!vars
<1>1. /\ generation' = generation /\ absorbed' = absorbed /\ announced' = announced
  BY DEF Store, knowledge
<1>2. CASE generation = NoTopic
  BY <1>1, <1>2, StoredRows, OpenRows DEF Atomic!vars, IInv
<1>3. CASE generation # NoTopic
  <2>1. Open \subseteq Open' /\ Open' \subseteq Articles
    BY StoredRows, OpenRows DEF IInv
  <2>2. Open' \in SUBSET Articles /\ Open' = Open \cup Open'
    BY <2>1
  <2> QED
    BY <1>1, <1>3, <2>2 DEF Atomic!Arrive
<1> QED
  BY <1>2, <1>3

\* Articles that expire unread are articles a check is done with.
LEMMA ExpireIsCheck ==
  ASSUME IInv, IInv', Expire
  PROVE  Atomic!Check \/ UNCHANGED Atomic!vars
<1>1. /\ generation' = generation /\ absorbed' = absorbed /\ announced' = announced
  BY DEF Expire, knowledge
<1>2. Open' \subseteq Open
  BY ExpiredRows, OpenRows DEF IInv, NoRow
<1>3. CASE generation = NoTopic
  <2>1. Open = {} /\ Open' = {}
    BY <1>2, <1>3 DEF IInv, EmptyInv, Open, NoRow
  <2> QED
    BY <1>1, <2>1 DEF Atomic!vars
<1>4. CASE generation # NoTopic
  <2>1. Open \ Open' \in SUBSET Open /\ Open' = Open \ (Open \ Open')
    BY <1>2
  <2>2. {} \in Atomic!Findings /\ FALSE \in BOOLEAN /\ absorbed' = absorbed \cup {}
    BY <1>1 DEF Atomic!Findings
  <2>3. announced' = [f \in Facts |->
          IF FALSE /\ f \in {} THEN Atomic!Counted(announced[f]) ELSE announced[f]]
    BY <1>1 DEF IInv, TypeInv, ArticleType
  <2> QED
    BY <1>1, <1>4, <2>1, <2>2, <2>3 DEF Atomic!Check
<1> QED
  BY <1>3, <1>4

\* Every step is a step of atomic checks, or changes nothing they show.
LEMMA StepRefines ==
  ASSUME IInv, IInv', "stale_merge" \notin Events, [Next]_vars
  PROVE  [Atomic!Next]_Atomic!vars
<1>1. ASSUME UNCHANGED <<generation, absorbed, row, announced>>
      PROVE  UNCHANGED Atomic!vars
  BY <1>1, OpenRows DEF Atomic!vars, IInv
<1>2. ASSUME NEW c \in Checkers, CheckStep(c) PROVE [Atomic!Next]_Atomic!vars
  <2>1. ASSUME NEW x \in Analyses(check[c]), Commit(c, x) PROVE Atomic!Next
    BY <2>1, CommitIsCheck DEF Atomic!Next
  <2>2. CASE Store(c)
    BY <2>2, StoreIsArrive DEF Atomic!Next
  <2>3. CASE Begin(c) \/ LoseRace(c) \/ Abort(c) \/ Send(c) \/ RecordDelivery(c)
    BY <1>1, <2>3 DEF Begin, LoseRace, Abort, Send, RecordDelivery, knowledge, articles
  <2> QED
    BY <1>2, <2>1, <2>2, <2>3 DEF CheckStep
<1>3. CASE Delete
  <2>1. Open' = {}
    BY <1>3 DEF Delete, Open, NoRow
  <2> QED
    BY <1>3, <2>1 DEF Delete, Atomic!Delete, Atomic!Next
<1>4. CASE Create
  BY <1>4, OpenRows DEF Create, articles, IInv, Atomic!Create, Atomic!Next
<1>5. ASSUME NEW r \in ResultIds, Drain(r) PROVE [Atomic!Next]_Atomic!vars
  BY <1>1, <1>5 DEF Drain, knowledge, articles
<1>6. ASSUME NEW c \in Checkers, Lose(c) PROVE [Atomic!Next]_Atomic!vars
  BY <1>1, <1>6 DEF Lose, knowledge, articles
<1>7. CASE Expire
  BY <1>7, ExpireIsCheck DEF Atomic!Next
<1>8. CASE UNCHANGED vars
  BY <1>1, <1>8 DEF vars
<1> QED
  BY <1>2, <1>3, <1>4, <1>5, <1>6, <1>7, <1>8 DEF Next

LEMMA InitRefines == ASSUME Init PROVE Atomic!Init
<1>1. Open = {}
  BY DEF Init, Open, NoRow
<1>2. generation \in Generations
  BY PipelineAssumption DEF Init
<1> QED
  BY <1>1, <1>2 DEF Init, Atomic!Init

\* The overlapping checks of a topic implement checks that run one after the other, each
\* in an instant, whenever no knowledge merge is refused.
THEOREM Refinement == ASSUME "stale_merge" \notin Events PROVE Spec => Serializable
BY InitRefines, StepRefines, SnapshotsFaithful, PTL DEF Spec, Serializable, Atomic!Spec

-----------------------------------------------------------------------------
(* Checks that run one after the other announce no fact twice *)

\* What was announced is known, and a topic that does not exist has announced nothing.
KnownOnce ==
  /\ announced \in [Facts -> {0, 1}]
  /\ \A f \in Facts : announced[f] = 1 => f \in absorbed
  /\ generation = NoTopic => announced = [f \in Facts |-> 0]

LEMMA AtomicInit == Atomic!Init => KnownOnce
BY PipelineAssumption DEF Atomic!Init, KnownOnce

\* What a check announces was not known, so it is announced for the first time.
LEMMA AtomicNext == KnownOnce /\ [Atomic!Next]_(Atomic!vars) => KnownOnce'
<1> SUFFICES ASSUME KnownOnce, [Atomic!Next]_(Atomic!vars) PROVE KnownOnce'
  OBVIOUS
<1> USE PipelineAssumption
<1>1. CASE Atomic!Check
  <2>1. PICK findings \in SUBSET (Facts \ absorbed), alert \in BOOLEAN :
          /\ absorbed' = absorbed \cup findings
          /\ announced' = [f \in Facts |->
               IF alert /\ f \in findings THEN Atomic!Counted(announced[f]) ELSE announced[f]]
    BY <1>1 DEF Atomic!Check, Atomic!Findings
  <2>2. \A f \in findings : announced[f] = 0
    BY <2>1 DEF KnownOnce
  <2>3. Atomic!Counted(0) = 1
    BY DEF Atomic!Counted
  <2>4. generation' # NoTopic
    BY <1>1 DEF Atomic!Check
  <2> QED
    BY <2>1, <2>2, <2>3, <2>4 DEF KnownOnce
<1>2. CASE Atomic!Arrive
  BY <1>2 DEF Atomic!Arrive, KnownOnce
<1>3. CASE Atomic!Delete
  BY <1>3 DEF Atomic!Delete, KnownOnce
<1>4. CASE Atomic!Create
  BY <1>4 DEF Atomic!Create, KnownOnce
<1>5. CASE UNCHANGED Atomic!vars
  BY <1>5 DEF Atomic!vars, KnownOnce
<1> QED
  BY <1>1, <1>2, <1>3, <1>4, <1>5 DEF Atomic!Next

\* No fact is announced twice by checks that run one after the other (AtomicCheck).
THEOREM OneAlertPerFact == Atomic!Spec => []Atomic!AnnouncedOnce
<1>1. KnownOnce => Atomic!AnnouncedOnce
  BY DEF KnownOnce, Atomic!AnnouncedOnce
<1> QED
  BY AtomicInit, AtomicNext, <1>1, PTL DEF Atomic!Spec

\* So a topic announces no fact twice, whatever overlaps.
THEOREM NoFactTwice ==
  ASSUME "stale_merge" \notin Events PROVE Spec => []Atomic!AnnouncedOnce
BY OneAlertPerFact, Refinement, PTL DEF Serializable
(***************************************************************************)
(* Alerts are bounded.  Every alert for a fact is charged to an article    *)
(* that reports it: as long as the article is open, to one of its          *)
(* attempts; when it is closed, to the check that closed it or to one of   *)
(* those that still had it in their batch.                                 *)
(***************************************************************************)

LEMMA Least ==
    ASSUME NEW S \in SUBSET Nat, S # {}
    PROVE  \E x \in S : \A y \in S : x <= y
<1> DEFINE R == {ss \in Nat \X Nat : ss[1] < ss[2]}
<1>1. IsWellFoundedOn(R, Nat)
  BY NatLessThanWellFounded DEF OpToRel
<1> HIDE DEF R
<1>2. PICK x \in S : \A y \in S : ~(<<y, x>> \in R)
  BY <1>1, WFMin
<1>3. ASSUME NEW y \in S PROVE x <= y
  <2>1. <<y, x>> \in Nat \X Nat /\ ~(<<y, x>> \in R)
    BY <1>2
  <2>2. ~(y < x)
    BY <2>1 DEF R
  <2> QED
    BY <2>2
<1> QED
  BY <1>3

\* Numbers up to n have a k-th one for every k up to how many they are.
LEMMA PlaceExists ==
  ASSUME NEW n \in Nat, NEW I \in SUBSET (1..n), NEW k \in 1..Cardinality(I)
  PROVE  Place(I, k) \in I /\ Cardinality({j \in I : j <= Place(I, k)}) = k
<1> DEFINE Upto(m) == {j \in I : j <= m}
           Enough == {m \in Nat : k <= Cardinality(Upto(m))}
<1>0. k \in Nat /\ k > 0 /\ \A j \in I : j \in Nat /\ 1 <= j /\ j <= n
  <2>1. IsFiniteSet(1..n)
    BY FS_Interval
  <2>2. IsFiniteSet(I)
    BY <2>1, FS_Subset
  <2>3. Cardinality(I) \in Nat
    BY <2>2, FS_CardinalityType
  <2> QED
    BY <2>3
<1>1. IsFiniteSet(I) /\ Cardinality(I) \in Nat
  <2>1. IsFiniteSet(1..n)
    BY FS_Interval
  <2>2. IsFiniteSet(I)
    BY <2>1, FS_Subset
  <2> QED
    BY <2>2, FS_CardinalityType
<1>2. \A m \in Nat : IsFiniteSet(Upto(m)) /\ Cardinality(Upto(m)) \in Nat
  <2> SUFFICES ASSUME NEW m \in Nat PROVE IsFiniteSet(Upto(m)) /\ Cardinality(Upto(m)) \in Nat
    OBVIOUS
  <2>1. Upto(m) \in SUBSET I
    OBVIOUS
  <2> QED
    BY <1>1, <2>1, FS_Subset, FS_CardinalityType
<1>3. Upto(n) = I /\ Upto(0) = {}
  <2>1. \A j \in I : j <= n /\ ~(j <= 0)
    BY <1>0
  <2> QED
    BY <2>1
<1>4. n \in Enough /\ 0 \notin Enough
  <2>1. Cardinality(Upto(0)) = 0 /\ Cardinality(Upto(n)) = Cardinality(I)
    BY <1>3, FS_EmptySet
  <2> HIDE DEF Upto
  <2> QED
    BY <1>0, <1>1, <2>1
<1>5. PICK m \in Enough : \A l \in Enough : m <= l
  <2> HIDE DEF Enough
  <2>1. Enough \subseteq Nat /\ Enough # {}
    BY <1>4 DEF Enough
  <2> QED
    BY <2>1, Least
<1>6. m \in Nat /\ m # 0 /\ m - 1 \in Nat /\ m - 1 \notin Enough
  <2>1. m \in Nat /\ m # 0
    BY <1>4, <1>5
  <2>2. m - 1 \in Nat /\ m - 1 < m
    BY <2>1
  <2> HIDE DEF Enough
  <2> QED
    BY <1>5, <2>1, <2>2
<1>7. Cardinality(Upto(m - 1)) < k /\ k <= Cardinality(Upto(m))
  <2>1. ~(k <= Cardinality(Upto(m - 1))) /\ k <= Cardinality(Upto(m))
    BY <1>5, <1>6
  <2>2. Cardinality(Upto(m - 1)) \in Nat
    BY <1>2, <1>6
  <2> HIDE DEF Upto
  <2> QED
    BY <1>0, <2>1, <2>2
<1>8. m \in I /\ Upto(m) = Upto(m - 1) \union {m}
  <2>1. \A j \in I : j <= m => j <= m - 1 \/ j = m
    BY <1>0, <1>6
  <2>2. \A j \in I : j <= m - 1 => j <= m
    BY <1>0, <1>6
  <2>3. m \in I
    <3> SUFFICES ASSUME m \notin I PROVE FALSE
      OBVIOUS
    <3>1. Upto(m) = Upto(m - 1)
      BY <2>1, <2>2
    <3> HIDE DEF Upto
    <3>2. Cardinality(Upto(m)) \in Nat
      BY <1>2, <1>6
    <3> QED
      BY <1>0, <1>7, <3>1, <3>2
  <2>4. m <= m
    BY <1>6
  <2> QED
    BY <2>1, <2>2, <2>3, <2>4
<1>9. Cardinality(Upto(m)) = k
  <2> HIDE DEF Upto
  <2>1. Cardinality(Upto(m - 1) \union {m}) \in {Cardinality(Upto(m - 1)), Cardinality(Upto(m - 1)) + 1}
    BY <1>2, <1>6, FS_AddElement
  <2>2. Cardinality(Upto(m - 1)) \in Nat
    BY <1>2, <1>6
  <2> QED
    BY <1>0, <1>7, <1>8, <2>1, <2>2
<1> QED
  BY <1>8, <1>9 DEF Place

\* A filtered sequence has members of the sequence that are in the set.
LEMMA FilteredMembers ==
  ASSUME NEW T, NEW s \in Seq(T), NEW S
  PROVE  Filtered(s, S) \in Seq(T) /\ ToSet(Filtered(s, S)) \subseteq ToSet(s) \intersect S
<1> DEFINE I == {i \in 1..Len(s) : s[i] \in S}
<1>1. I \in SUBSET (1..Len(s)) /\ Len(s) \in Nat
  OBVIOUS
<1>2. Cardinality(I) \in Nat
  <2>1. IsFiniteSet(1..Len(s))
    BY <1>1, FS_Interval
  <2> QED
    BY <1>1, <2>1, FS_Subset, FS_CardinalityType
<1>3. \A k \in 1..Cardinality(I) : Place(I, k) \in I
  <2> HIDE DEF I
  <2> QED
    BY <1>1, PlaceExists
<1>4. \A k \in 1..Cardinality(I) : s[Place(I, k)] \in T \intersect S /\ s[Place(I, k)] \in ToSet(s)
  <2>1. \A i \in I : s[i] \in T /\ s[i] \in S /\ i \in DOMAIN s
    OBVIOUS
  <2> HIDE DEF I
  <2> QED
    BY <1>3, <2>1 DEF ToSet
<1>5. Filtered(s, S) = [k \in 1..Cardinality(I) |-> s[Place(I, k)]]
  BY DEF Filtered
<1> HIDE DEF I
<1>6. Filtered(s, S) \in Seq(T)
  BY <1>2, <1>4, <1>5
<1> QED
  BY <1>4, <1>5, <1>6 DEF ToSet

LEMMA FirstOfMembers ==
  ASSUME NEW T, NEW s \in Seq(T), NEW n \in Nat
  PROVE  FirstOf(s, n) \in Seq(T) /\ ToSet(FirstOf(s, n)) \subseteq ToSet(s)
<1>1. (IF Len(s) < n THEN Len(s) ELSE n) \in 0..Len(s)
  OBVIOUS
<1> QED
  BY <1>1 DEF FirstOf, ToSet

LEMMA ConcatMembers ==
  ASSUME NEW T, NEW s \in Seq(T), NEW t \in Seq(T)
  PROVE  s \o t \in Seq(T) /\ ToSet(s \o t) \subseteq ToSet(s) \union ToSet(t)
<1>1. ASSUME NEW i \in DOMAIN (s \o t) PROVE (s \o t)[i] \in ToSet(s) \union ToSet(t)
  <2>1. CASE i <= Len(s)
    BY <2>1 DEF ToSet
  <2>2. CASE i > Len(s)
    <3>1. i - Len(s) \in DOMAIN t /\ (s \o t)[i] = t[i - Len(s)]
      BY <2>2
    <3> QED
      BY <3>1 DEF ToSet
  <2> QED
    BY <2>1, <2>2
<1> QED
  BY <1>1 DEF ToSet

\* A batch is made of rows that were unprocessed and of new ones.
LEMMA BatchMembers ==
  ASSUME NEW s \in Seq(Articles), NEW new \in Seq(Articles)
  PROVE  Batch(s, new) \in Seq(Articles) /\ ToSet(Batch(s, new)) \subseteq ToSet(s) \union ToSet(new)
<1> DEFINE first == FirstOf(s, MaxArticles)
           stranded == Filtered(first, Articles \ ToSet(new))
<1>0. MaxArticles \in Nat
  BY PipelineAssumption
<1>1. first \in Seq(Articles) /\ ToSet(first) \subseteq ToSet(s)
  BY <1>0, FirstOfMembers
<1>2. stranded \in Seq(Articles) /\ ToSet(stranded) \subseteq ToSet(first)
  <2> HIDE DEF first
  <2> QED
    BY <1>1, FilteredMembers
<1>3. Batch(s, new) = FirstOf(stranded \o new, MaxArticles)
  BY DEF Batch
<1> HIDE DEF stranded
<1>4. stranded \o new \in Seq(Articles) /\ ToSet(stranded \o new) \subseteq ToSet(stranded) \union ToSet(new)
  BY <1>2, ConcatMembers
<1>5. /\ FirstOf(stranded \o new, MaxArticles) \in Seq(Articles)
      /\ ToSet(FirstOf(stranded \o new, MaxArticles)) \subseteq ToSet(stranded \o new)
  BY <1>0, <1>4, FirstOfMembers
<1> QED
  BY <1>1, <1>2, <1>3, <1>4, <1>5


\* What the members of R have spent, s of them each, as a set of units.
Units(R, M, s) == {u \in R \X (1..M) : u[2] <= s[u[1]]}

\* Whoever spends more, has more units; and all of R have no more than M each.
LEMMA UnitsGrow ==
  ASSUME NEW R, IsFiniteSet(R), NEW M \in Nat,
         NEW s, NEW t, \A a \in R : s[a] \in 0..M /\ t[a] \in 0..M /\ s[a] <= t[a]
  PROVE  /\ Cardinality(Units(R, M, s)) \in Nat /\ Cardinality(Units(R, M, t)) \in Nat
         /\ Cardinality(Units(R, M, s)) <= Cardinality(Units(R, M, t))
         /\ (\E a \in R : s[a] < t[a]) => Cardinality(Units(R, M, s)) + 1 <= Cardinality(Units(R, M, t))
         /\ Cardinality(Units(R, M, t)) <= Cardinality(R) * M
<1>1. /\ IsFiniteSet(R \X (1..M)) /\ Cardinality(R \X (1..M)) = Cardinality(R) * M
  <2>1. IsFiniteSet(1..M) /\ Cardinality(1..M) = M
    BY FS_Interval
  <2> QED
    BY <2>1, FS_Product
<1>2. Units(R, M, s) \in SUBSET (R \X (1..M)) /\ Units(R, M, t) \in SUBSET (R \X (1..M))
  BY DEF Units
<1>3. IsFiniteSet(Units(R, M, s)) /\ IsFiniteSet(Units(R, M, t))
  BY <1>1, <1>2, FS_Subset
<1>4. Cardinality(Units(R, M, s)) \in Nat /\ Cardinality(Units(R, M, t)) \in Nat
  BY <1>3, FS_CardinalityType
<1>5. Cardinality(Units(R, M, t)) <= Cardinality(R) * M
  <2>1. Cardinality(Units(R, M, t)) <= Cardinality(R \X (1..M))
    BY <1>1, <1>2, FS_Subset
  <2> QED
    BY <1>1, <2>1
<1>6. Units(R, M, s) \subseteq Units(R, M, t)
  <2> SUFFICES ASSUME NEW u \in R \X (1..M), u[2] <= s[u[1]] PROVE u[2] <= t[u[1]]
    BY DEF Units
  <2>1. u[1] \in R /\ u[2] \in Nat
    OBVIOUS
  <2>2. s[u[1]] \in Nat /\ t[u[1]] \in Nat /\ s[u[1]] <= t[u[1]]
    BY <2>1
  <2> QED
    BY <2>1, <2>2
<1>7. Cardinality(Units(R, M, s)) <= Cardinality(Units(R, M, t))
  BY <1>3, <1>6, FS_Subset
<1>8. ASSUME NEW a \in R, s[a] < t[a] PROVE Cardinality(Units(R, M, s)) + 1 <= Cardinality(Units(R, M, t))
  <2> DEFINE u == <<a, s[a] + 1>>
  <2>1. s[a] \in Nat /\ t[a] \in Nat /\ t[a] <= M /\ s[a] + 1 <= t[a] /\ ~(s[a] + 1 <= s[a])
    BY <1>8
  <2>2. s[a] + 1 \in 1..M
    BY <2>1
  <2>3. u \in R \X (1..M) /\ u[1] = a /\ u[2] = s[a] + 1
    BY <2>2
  <2>4. u \in Units(R, M, t) /\ u \notin Units(R, M, s)
    BY <2>1, <2>3 DEF Units
  <2> HIDE DEF u
  <2>5. Cardinality(Units(R, M, s) \union {u}) = Cardinality(Units(R, M, s)) + 1
    BY <1>3, <2>4, FS_AddElement
  <2>6. Units(R, M, s) \union {u} \in SUBSET Units(R, M, t)
    BY <1>6, <2>4
  <2> QED
    BY <1>3, <2>5, <2>6, FS_Subset
<1> QED
  BY <1>4, <1>5, <1>7, <1>8

\* The checks that may still finish with an article.
Reads(c, a) ==
  check[c].pc = "analyzing" /\ check[c].generation = generation /\ a \in ToSet(check[c].batch)
Readers(a) == {c \in Checkers : Reads(c, a)}

\* The alerts an article may have paid for so far, and for how many it may pay.
Most == MaxAttempts + Cardinality(Checkers) - 1
Spent == [a \in Articles |->
  IF row[a].origin = NoTopic THEN 0
  ELSE IF row[a].open THEN row[a].tries ELSE Most - Cardinality(Readers(a))]

PaidFor == \A f \in Facts : announced[f] <= Cardinality(Units(Reporting(f), Most, Spent))

BatchInv ==
  /\ recency \in Seq(Articles)
  /\ \A c \in Checkers : check[c].pc = "analyzing" =>
       /\ check[c].batch \in Seq(Articles)
       /\ check[c].generation = generation => \A a \in ToSet(check[c].batch) : row[a].origin # NoTopic

OpenInv == \A a \in Articles : row[a].open => row[a].origin # NoTopic /\ row[a].tries < MaxAttempts

AlertInv == IInv /\ BatchInv /\ OpenInv /\ PaidFor

\* Articles are never forgotten, and there are finitely many.
Retained == "expiry" \notin Events /\ IsFiniteSet(Articles) /\ IsFiniteSet(Checkers)

LEMMA SpentRange ==
  ASSUME Retained, IInv, OpenInv
  PROVE  /\ Most \in Nat
         /\ \A a \in Articles : Spent[a] \in 0..Most
         /\ \A a \in Articles : IsFiniteSet(Readers(a)) /\ Cardinality(Readers(a)) \in Nat
                                /\ Cardinality(Readers(a)) <= Cardinality(Checkers)
<1>1. Cardinality(Checkers) \in Nat /\ MaxAttempts \in Nat \ {0}
  BY FS_CardinalityType, PipelineAssumption DEF Retained
<1>2. Most \in Nat
  BY <1>1 DEF Most
<1>3. ASSUME NEW a \in Articles
      PROVE  /\ IsFiniteSet(Readers(a)) /\ Cardinality(Readers(a)) \in Nat
             /\ Cardinality(Readers(a)) <= Cardinality(Checkers)
  <2>1. Readers(a) \in SUBSET Checkers /\ IsFiniteSet(Checkers)
    BY DEF Readers, Retained
  <2> QED
    BY <2>1, FS_Subset, FS_CardinalityType
<1>4. ASSUME NEW a \in Articles PROVE Spent[a] \in 0..Most
  <2>1. row[a].tries \in 0..MaxAttempts
    BY DEF IInv, TypeInv, ArticleType, Row
  <2>2. CASE row[a].origin = NoTopic
    BY <1>2, <2>2 DEF Spent
  <2>3. CASE row[a].origin # NoTopic /\ row[a].open
    <3>1. Spent[a] = row[a].tries /\ row[a].tries < MaxAttempts
      BY <2>3 DEF Spent, OpenInv
    <3> QED
      BY <1>1, <2>1, <3>1 DEF Most
  <2>4. CASE row[a].origin # NoTopic /\ ~row[a].open
    <3>1. Spent[a] = Most - Cardinality(Readers(a))
      BY <2>4 DEF Spent
    <3> QED
      BY <1>1, <1>3, <3>1 DEF Most
  <2> QED
    BY <2>2, <2>3, <2>4
<1> QED
  BY <1>2, <1>3, <1>4

LEMMA Reporters == ASSUME Retained, NEW f PROVE Reporting(f) \in SUBSET Articles /\ IsFiniteSet(Reporting(f))
<1>1. Reporting(f) \in SUBSET Articles
  BY DEF Reporting
<1> QED
  BY <1>1, FS_Subset DEF Retained

SpentInRange == Most \in Nat /\ \A a \in Articles : Spent[a] \in 0..Most

LEMMA SpentBounded == Retained /\ IInv /\ OpenInv => SpentInRange
BY SpentRange DEF SpentInRange

\* Alerts stay paid for when no article gets cheaper, and one that reports the fact
\* gets dearer with every alert for it.
LEMMA StaysPaid ==
  ASSUME Retained, IInv, OpenInv, PaidFor, IInv', OpenInv',
         \A a \in Articles : Spent[a] <= Spent'[a],
         \A f \in Facts : \/ announced'[f] <= announced[f]
                          \/ announced'[f] <= announced[f] + 1 /\ \E a \in Reporting(f) : Spent[a] < Spent'[a]
  PROVE  PaidFor'
<1>1. SpentInRange
  BY SpentBounded
<1>2. SpentInRange'
  <2>1. (Retained /\ IInv /\ OpenInv)' => SpentInRange'
    BY SpentBounded, PTL
  <2> QED
    BY <2>1 DEF Retained
<1>3. Most' = Most
  BY DEF Most
<1> SUFFICES ASSUME NEW f \in Facts
             PROVE  announced'[f] <= Cardinality(Units(Reporting(f), Most, Spent'))
  BY <1>3 DEF PaidFor, Units, Reporting
<1>4. \A a \in Reporting(f) : Spent[a] \in 0..Most /\ Spent'[a] \in 0..Most /\ Spent[a] <= Spent'[a]
  BY <1>1, <1>2, <1>3, Reporters DEF SpentInRange
<1> DEFINE m == Cardinality(Units(Reporting(f), Most, Spent))
           n == Cardinality(Units(Reporting(f), Most, Spent'))
<1>5. m \in Nat /\ n \in Nat /\ m <= n /\ ((\E a \in Reporting(f) : Spent[a] < Spent'[a]) => m + 1 <= n)
  BY <1>1, <1>4, Reporters, UnitsGrow DEF SpentInRange
<1>6. announced[f] \in Nat /\ announced'[f] \in Nat /\ announced[f] <= m
  BY DEF IInv, TypeInv, ArticleType, PaidFor
<1> HIDE DEF m, n
<1>7. announced'[f] <= n
  BY <1>5, <1>6
<1> QED
  BY <1>7 DEF n

\* What the readers of an article come to when its row stays, and nobody reads it anew.
LEMMA FewerReaders ==
  ASSUME Retained, IInv, OpenInv, NEW a \in Articles, row'[a] = row[a],
         ~row[a].open => \A c \in Checkers : Reads(c, a)' => Reads(c, a)
  PROVE  Spent[a] <= Spent'[a]
<1>1. /\ Most \in Nat /\ Spent[a] \in 0..Most /\ Most' = Most
      /\ IsFiniteSet(Readers(a)) /\ Cardinality(Readers(a)) \in Nat
  BY SpentRange DEF Most
<1>2. CASE row[a].origin = NoTopic \/ row[a].open
  <2>1. Spent'[a] = Spent[a]
    BY <1>2 DEF Spent
  <2> QED
    BY <1>1, <2>1
<1>3. CASE row[a].origin # NoTopic /\ ~row[a].open
  <2>1. Readers(a)' \in SUBSET Readers(a)
    BY <1>3 DEF Readers
  <2>2. Cardinality(Readers(a)') <= Cardinality(Readers(a)) /\ Cardinality(Readers(a)') \in Nat
    BY <1>1, <2>1, FS_Subset, FS_CardinalityType
  <2>3. Spent[a] = Most - Cardinality(Readers(a)) /\ Spent'[a] = Most - Cardinality(Readers(a)')
    BY <1>1, <1>3 DEF Spent
  <2> QED
    BY <1>1, <2>2, <2>3
<1> QED
  BY <1>2, <1>3

\* Who finishes with an article, or tries it once more, pays for an alert.
LEMMA OneReaderPays ==
  ASSUME Retained, IInv, OpenInv, NEW a \in Articles, NEW c \in Checkers, Reads(c, a),
         row[a].origin # NoTopic, row'[a].origin # NoTopic,
         row[a].open \in BOOLEAN, row'[a].open => row[a].open /\ row'[a].tries = row[a].tries + 1,
         ~Reads(c, a)', \A d \in Checkers : Reads(d, a)' => Reads(d, a)
  PROVE  Spent[a] < Spent'[a]
<1>1. /\ Most \in Nat /\ Spent[a] \in 0..Most /\ Most' = Most /\ MaxAttempts \in Nat
      /\ IsFiniteSet(Readers(a)) /\ Cardinality(Readers(a)) \in Nat
      /\ Cardinality(Readers(a)) <= Cardinality(Checkers) /\ Cardinality(Checkers) \in Nat
      /\ Most = MaxAttempts + Cardinality(Checkers) - 1
  BY SpentRange, PipelineAssumption, FS_CardinalityType DEF Most, Retained
<1>2. row[a].tries \in Nat
  BY DEF IInv, TypeInv, ArticleType, Row
<1>3. CASE row'[a].open
  <2>1. Spent[a] = row[a].tries /\ Spent'[a] = row[a].tries + 1
    BY <1>3 DEF Spent
  <2> QED
    BY <1>2, <2>1
<1>4. CASE ~row'[a].open
  <2>1. Readers(a)' \in SUBSET (Readers(a) \ {c}) /\ c \in Readers(a)
    BY DEF Readers
  <2>2. Cardinality(Readers(a) \ {c}) = Cardinality(Readers(a)) - 1 /\ IsFiniteSet(Readers(a) \ {c})
    BY <1>1, <2>1, FS_RemoveElement
  <2>3. Cardinality(Readers(a)') \in Nat /\ Cardinality(Readers(a)') <= Cardinality(Readers(a)) - 1
    BY <2>1, <2>2, FS_Subset, FS_CardinalityType
  <2>4. Spent'[a] = Most - Cardinality(Readers(a)')
    BY <1>1, <1>4 DEF Spent
  <2>5. CASE row[a].open
    <3>1. Spent[a] = row[a].tries /\ row[a].tries < MaxAttempts
      BY <2>5 DEF Spent, OpenInv
    <3> QED
      BY <1>1, <1>2, <2>3, <2>4, <3>1
  <2>6. CASE ~row[a].open
    <3>1. Spent[a] = Most - Cardinality(Readers(a))
      BY <2>6 DEF Spent
    <3> QED
      BY <1>1, <2>3, <2>4, <3>1
  <2> QED
    BY <2>5, <2>6
<1> QED
  BY <1>3, <1>4

\* A step that leaves the articles alone, and by which no check comes to read.
LEMMA NobodyReads ==
  ASSUME Retained, AlertInv, IInv', row' = row, recency' = recency, announced' = announced,
         \A c \in Checkers : check'[c] = check[c] \/ check'[c].pc # "analyzing",
         generation' = generation \/ \A c \in Checkers : check[c].generation # generation'
  PROVE  AlertInv'
<1> USE DEF AlertInv
<1>1. BatchInv'
  BY DEF BatchInv
<1>2. OpenInv'
  BY DEF OpenInv
<1>3. \A c \in Checkers, a \in Articles : Reads(c, a)' => Reads(c, a)
  BY DEF Reads
<1>4. \A a \in Articles : Spent[a] <= Spent'[a]
  BY <1>3, FewerReaders
<1>5. \A f \in Facts : announced[f] <= announced[f]
  BY DEF IInv, TypeInv, ArticleType
<1>6. PaidFor'
  BY <1>2, <1>4, <1>5, StaysPaid
<1> QED
  BY <1>1, <1>2, <1>6

\* What a fetch stores costs nothing yet, and its batch is of open articles.
LEMMA StorePays ==
  ASSUME Retained, AlertInv, IInv', NEW c \in Checkers, Store(c)
  PROVE  AlertInv'
<1> USE DEF AlertInv
<1>1. PICK new \in IF generation = NoTopic THEN {<<>>} ELSE Fresh :
        LET stored == [a \in Articles |->
              IF a \in ToSet(new) THEN NewRow(check[c].generation) ELSE row[a]]
            newest == Reverse(new) \o recency
            batch  == Batch(Filtered(newest, {a \in Articles : stored[a].open}), new)
        IN /\ row' = stored
           /\ recency' = newest
           /\ check' = [check EXCEPT ![c] =
                IF batch = <<>> THEN NoCheck ELSE [@ EXCEPT !.pc = "analyzing", !.batch = batch]]
  BY DEF Store
<1> DEFINE newest == Reverse(new) \o recency
           waiting == Filtered(newest, {a \in Articles : row'[a].open})
           batch == Batch(waiting, new)
<1>2. /\ row' = [a \in Articles |-> IF a \in ToSet(new) THEN NewRow(check[c].generation) ELSE row[a]]
      /\ recency' = newest
      /\ check' = [check EXCEPT ![c] =
           IF batch = <<>> THEN NoCheck ELSE [@ EXCEPT !.pc = "analyzing", !.batch = batch]]
      /\ generation' = generation /\ announced' = announced
  BY <1>1 DEF Store
<1>3. new \in Seq(Articles) /\ \A a \in ToSet(new) : a \in Articles /\ row[a].origin = NoTopic
  <2>1. CASE new = <<>>
    BY <2>1 DEF ToSet
  <2>2. CASE new \in Fresh
    <3>1. PICK S \in SUBSET (Articles \ Stored) : new \in SetToSeqs(S)
      BY <2>2 DEF Fresh, SetToAllKPermutations
    <3>2. new \in [1..Cardinality(S) -> S]
      BY <3>1 DEF SetToSeqs
    <3>3. IsFiniteSet(S) /\ Cardinality(S) \in Nat
      BY <3>1, FS_Subset, FS_CardinalityType DEF Retained
    <3>4. new \in Seq(Articles)
      BY <3>1, <3>2, <3>3
    <3>5. \A a \in ToSet(new) : a \in S
      BY <3>2 DEF ToSet
    <3> QED
      BY <3>1, <3>4, <3>5 DEF Stored
  <2> QED
    BY <1>1, <2>1, <2>2
<1>4. newest \in Seq(Articles)
  <2>1. Reverse(new) \in Seq(Articles)
    BY <1>3 DEF Reverse
  <2> QED
    BY <2>1 DEF BatchInv
<1>5. batch \in Seq(Articles) /\ \A a \in ToSet(batch) : a \in Articles /\ (row'[a].open \/ a \in ToSet(new))
  <2> HIDE DEF newest
  <2>1. /\ waiting \in Seq(Articles)
        /\ ToSet(waiting) \subseteq ToSet(newest) \intersect {a \in Articles : row'[a].open}
    BY <1>4, FilteredMembers
  <2> HIDE DEF waiting
  <2>2. batch \in Seq(Articles) /\ ToSet(batch) \subseteq ToSet(waiting) \union ToSet(new)
    BY <1>3, <2>1, BatchMembers
  <2> QED
    BY <1>3, <2>1, <2>2
<1> HIDE DEF newest, batch
<1>6. check[c].generation \in Generations /\ check[c].generation # NoTopic
  BY PipelineAssumption DEF Store, IInv, SnapshotInv, Faithful
<1>7. /\ NewRow(check[c].generation).open /\ NewRow(check[c].generation).tries = 0
      /\ NewRow(check[c].generation).origin = check[c].generation
  BY DEF NewRow
<1>8. /\ \A a \in Articles : a \notin ToSet(new) => row'[a] = row[a]
      /\ \A a \in ToSet(new) : row'[a].open /\ row'[a].tries = 0 /\ row'[a].origin # NoTopic
  BY <1>2, <1>3, <1>6, <1>7
<1>9. OpenInv'
  <2>1. 0 < MaxAttempts
    BY PipelineAssumption
  <2> QED
    BY <1>8, <2>1 DEF OpenInv
<1>10. \A d \in Checkers : d # c => check'[d] = check[d]
  BY <1>2 DEF IInv, TypeInv, CheckType
<1>11. check'[c].pc = "analyzing" => check'[c].batch = batch
  <2>1. check'[c] = IF batch = <<>> THEN NoCheck ELSE [check[c] EXCEPT !.pc = "analyzing", !.batch = batch]
    BY <1>2 DEF IInv, TypeInv, CheckType
  <2>2. "batch" \in DOMAIN check[c]
    BY DEF IInv, TypeInv, CheckType, Shaped
  <2> QED
    BY <2>1, <2>2, NoCheckShaped
<1>12. \A a \in Articles : row[a].origin # NoTopic => row'[a].origin # NoTopic
  BY <1>8
<1>13. BatchInv'
  <2>1. \A a \in ToSet(batch) : row'[a].origin # NoTopic
    BY <1>5, <1>8, <1>9 DEF OpenInv
  <2>2. \A d \in Checkers : d # c /\ check[d].pc = "analyzing" =>
            \A a \in ToSet(check[d].batch) : a \in Articles
    BY DEF BatchInv, ToSet
  <2> QED
    BY <1>2, <1>4, <1>5, <1>10, <1>11, <1>12, <2>1, <2>2 DEF BatchInv
<1>14. ASSUME NEW a \in Articles PROVE Spent[a] <= Spent'[a]
  <2>1. CASE a \in ToSet(new)
    <3>1. Spent[a] = 0 /\ Spent'[a] = 0
      BY <1>3, <1>8, <2>1 DEF Spent
    <3> QED
      BY <3>1
  <2>2. CASE a \notin ToSet(new)
    <3>1. row'[a] = row[a]
      BY <1>8, <2>2
    <3>2. ~row[a].open => \A d \in Checkers : Reads(d, a)' => Reads(d, a)
      BY <1>2, <1>5, <1>10, <1>11, <2>2, <3>1 DEF Reads
    <3> QED
      BY <3>1, <3>2, FewerReaders
  <2> QED
    BY <2>1, <2>2
<1>15. \A f \in Facts : announced[f] <= announced[f]
  BY DEF IInv, TypeInv, ArticleType
<1>16. PaidFor'
  BY <1>2, <1>9, <1>14, <1>15, StaysPaid
<1> QED
  BY <1>9, <1>13, <1>16

\* What a commit makes of an article: one of its batch is finished or has one try more.
LEMMA DisposedPays ==
  ASSUME TypeInv, NEW me, NEW x, Done(me, x) \subseteq ToSet(me.batch), NEW a \in Articles
  PROVE  /\ a \notin ToSet(me.batch) => Disposed(me, x)[a] = row[a]
         /\ a \in ToSet(me.batch) /\ row[a].origin # NoTopic /\ Disposed(me, x)[a].open =>
              /\ row[a].open
              /\ Disposed(me, x)[a].tries = row[a].tries + 1
              /\ Disposed(me, x)[a].tries < MaxAttempts
<1> DEFINE done == Stored \cap Done(me, x)
<1>1. Disposed(me, x)[a] =
        CASE a \in done -> [row[a] EXCEPT !.open = FALSE, !.verdict = Verdict(a, x)]
          [] a \in (Stored \cap ToSet(me.batch)) \ done -> Charged(row[a])
          [] OTHER -> row[a]
  BY DEF Disposed
<1>2. row[a] \in Row
  BY DEF TypeInv, ArticleType
<1>3. CASE a \notin ToSet(me.batch)
  <2>1. Disposed(me, x)[a] = row[a]
    BY <1>1, <1>3
  <2> QED
    BY <1>3, <2>1
<1>4. CASE a \in ToSet(me.batch) /\ row[a].origin # NoTopic /\ Disposed(me, x)[a].open
  <2>1. a \in Stored
    BY <1>4 DEF Stored
  <2>2. CASE a \in done
    <3>1. Disposed(me, x)[a] = [row[a] EXCEPT !.open = FALSE, !.verdict = Verdict(a, x)]
      BY <1>1, <2>2
    <3>2. Disposed(me, x)[a].open = FALSE
      BY <1>2, <3>1 DEF Row
    <3> QED
      BY <1>4, <3>2
  <2>3. CASE a \notin done
    <3>1. Disposed(me, x)[a] = Charged(row[a])
      BY <1>1, <1>4, <2>1, <2>3
    <3> QED
      BY <1>2, <1>4, <3>1, ChargedRow
  <2> QED
    BY <2>2, <2>3
<1> QED
  BY <1>3, <1>4

\* What an analysis tells, an article of its batch tells.
LEMMA TellersRead ==
  ASSUME PipelineAssumption, NEW me, me.batch \in Seq(Articles), NEW x \in Analyses(me)
  PROVE  /\ Done(me, x) \subseteq ToSet(me.batch)
         /\ \A f \in x.findings : \E a \in ToSet(me.batch) : a \in Articles /\ Tells[a] = f
<1>1. PICK n \in 1..Len(me.batch) : x.read = ToSet(FirstOf(me.batch, n))
  BY DEF Analyses
<1>2. x.read \subseteq ToSet(me.batch)
  BY <1>1, FirstOfMembers
<1>3. ToSet(me.batch) \subseteq Articles
  BY DEF ToSet
<1>4. \A f \in x.findings : f \in {Tells[a] : a \in x.read}
  BY DEF Analyses
<1> QED
  BY <1>2, <1>3, <1>4 DEF Done

\* Whoever commits has the articles of its batch pay for what it announces.
LEMMA CommitPays ==
  ASSUME Retained, AlertInv, IInv', NEW c \in Checkers, NEW x \in Analyses(check[c]), Commit(c, x)
  PROVE  AlertInv'
<1> USE DEF AlertInv
<1> DEFINE batch == check[c].batch
<1>1. /\ row' = Disposed(check[c], x) /\ recency' = recency /\ generation' = generation
      /\ check[c].pc = "analyzing" /\ check[c].generation = generation
      /\ announced' = [f \in Facts |->
           IF x.gate = "news" /\ f \in x.findings THEN Counted(announced[f]) ELSE announced[f]]
  BY DEF Commit, Fence
<1>2. batch \in Seq(Articles) /\ \A a \in ToSet(batch) : a \in Articles /\ row[a].origin # NoTopic
  BY <1>1 DEF BatchInv, ToSet
<1>3. /\ Done(check[c], x) \subseteq ToSet(batch)
      /\ \A f \in x.findings : \E a \in ToSet(batch) : a \in Articles /\ Tells[a] = f
  BY <1>2, TellersRead, PipelineAssumption
<1>4. \A d \in Checkers : d # c => check'[d] = check[d]
  BY DEF Commit, IInv, TypeInv, CheckType
<1>5. check'[c].pc # "analyzing"
  <2>1. \A r : [NoCheck EXCEPT !.pc = "sending", !.generation = check[c].generation, !.result = r].pc = "sending"
    BY DEF NoCheck
  <2> QED
    BY <2>1, NoCheckShaped DEF Commit, IInv, TypeInv, CheckType
<1>6. ASSUME NEW a \in Articles
      PROVE  /\ row'[a].origin = row[a].origin /\ (row'[a].open => row[a].open)
             /\ a \notin ToSet(batch) => row'[a] = row[a]
             /\ a \in ToSet(batch) /\ row'[a].open =>
                  row'[a].tries = row[a].tries + 1 /\ row'[a].tries < MaxAttempts
  <2>1. row'[a].origin = row[a].origin /\ (row'[a].open => row[a].open)
    BY <1>1, DisposedRows DEF IInv
  <2>2. /\ a \notin ToSet(batch) => row'[a] = row[a]
        /\ a \in ToSet(batch) /\ row[a].origin # NoTopic /\ row'[a].open =>
             row'[a].tries = row[a].tries + 1 /\ row'[a].tries < MaxAttempts
    BY <1>1, <1>3, DisposedPays DEF IInv
  <2> QED
    BY <1>2, <2>1, <2>2
<1> HIDE DEF batch
<1>7. OpenInv'
  BY <1>6 DEF OpenInv
<1>8. BatchInv'
  <2>1. \A d \in Checkers : check[d].pc = "analyzing" => \A a \in ToSet(check[d].batch) : a \in Articles
    BY DEF BatchInv, ToSet
  <2> QED
    BY <1>1, <1>4, <1>5, <1>6, <2>1 DEF BatchInv
<1>9. \A d \in Checkers, a \in Articles : Reads(d, a)' => Reads(d, a)
  BY <1>1, <1>4, <1>5 DEF Reads
<1>10. \A a \in Articles : row[a].open \in BOOLEAN
  BY DEF IInv, TypeInv, ArticleType, Row
<1>11. ASSUME NEW a \in ToSet(batch) PROVE Spent[a] < Spent'[a]
  <2>1. Reads(c, a) /\ ~Reads(c, a)'
    BY <1>1, <1>5, <1>11 DEF Reads, batch
  <2> QED
    BY <1>2, <1>6, <1>9, <1>10, <1>11, <2>1, OneReaderPays
<1>12. ASSUME NEW a \in Articles PROVE Spent[a] <= Spent'[a]
  <2>1. CASE a \in ToSet(batch)
    <3>1. Spent[a] < Spent'[a]
      BY <1>11, <2>1
    <3>2. SpentInRange /\ SpentInRange'
      <4>1. (Retained /\ IInv /\ OpenInv)' => SpentInRange'
        BY SpentBounded, PTL
      <4> QED
        BY <1>7, <4>1, SpentBounded DEF Retained
    <3> QED
      BY <3>1, <3>2 DEF SpentInRange
  <2>2. CASE a \notin ToSet(batch)
    BY <1>6, <1>9, <2>2, FewerReaders
  <2> QED
    BY <2>1, <2>2
<1>13. ASSUME NEW f \in Facts
       PROVE  \/ announced'[f] <= announced[f]
              \/ announced'[f] <= announced[f] + 1 /\ \E a \in Reporting(f) : Spent[a] < Spent'[a]
  <2>1. announced[f] \in Nat /\ Counted(announced[f]) <= announced[f] + 1
    BY PipelineAssumption DEF IInv, TypeInv, ArticleType, Counted
  <2>2. CASE x.gate = "news" /\ f \in x.findings
    <3>1. PICK a \in ToSet(batch) : a \in Articles /\ Tells[a] = f
      BY <1>3, <2>2 DEF batch
    <3>2. a \in Reporting(f) /\ Spent[a] < Spent'[a]
      BY <1>11, <3>1 DEF Reporting
    <3> QED
      BY <1>1, <2>1, <2>2, <3>2
  <2>3. CASE ~(x.gate = "news" /\ f \in x.findings)
    BY <1>1, <2>1, <2>3
  <2> QED
    BY <2>2, <2>3
<1>14. PaidFor'
  BY <1>7, <1>12, <1>13, StaysPaid
<1> QED
  BY <1>7, <1>8, <1>14

Silent == \A f \in Facts : announced[f] = 0

LEMMA SilentIsPaid == Retained /\ IInv /\ OpenInv /\ Silent => PaidFor
<1> SUFFICES ASSUME Retained, IInv, OpenInv, Silent, NEW f \in Facts
             PROVE  announced[f] <= Cardinality(Units(Reporting(f), Most, Spent))
  BY DEF PaidFor
<1>1. SpentInRange
  BY SpentBounded
<1>2. \A a \in Reporting(f) : Spent[a] \in 0..Most /\ Spent[a] <= Spent[a]
  BY <1>1, Reporters DEF SpentInRange
<1>3. Cardinality(Units(Reporting(f), Most, Spent)) \in Nat
  BY <1>1, <1>2, Reporters, UnitsGrow DEF SpentInRange
<1> QED
  BY <1>3 DEF Silent

\* A deleted topic owes nothing, and no check reads for the topic that is not there.
LEMMA DeletePays ==
  ASSUME Retained, AlertInv, IInv', Delete
  PROVE  AlertInv'
<1>1. /\ \A a \in Articles : row'[a] = NoRow
      /\ recency' = <<>> /\ check' = check /\ generation' = NoTopic /\ Silent'
  BY DEF Delete, Silent
<1>2. OpenInv'
  BY <1>1 DEF OpenInv, NoRow
<1>3. BatchInv'
  <2>1. \A c \in Checkers : check[c].pc = "analyzing" => check[c].generation # NoTopic
    BY PipelineAssumption DEF AlertInv, IInv, SnapshotInv, Faithful
  <2> QED
    BY <1>1, <2>1 DEF BatchInv, AlertInv
<1>4. PaidFor'
  <2>1. (Retained /\ IInv /\ OpenInv /\ Silent)' => PaidFor'
    BY SilentIsPaid, PTL
  <2> QED
    BY <1>1, <1>2, <2>1 DEF Retained
<1> QED
  BY <1>2, <1>3, <1>4 DEF AlertInv

\* A check that ends reads no more.
LEMMA OverReads ==
  ASSUME IInv, NEW c \in Checkers, check' = [check EXCEPT ![c] = NoCheck]
  PROVE  \A d \in Checkers : check'[d] = check[d] \/ check'[d].pc # "analyzing"
BY NoCheckShaped DEF IInv, TypeInv, CheckType

LEMMA AlertInit == Retained /\ Init => AlertInv
<1> SUFFICES ASSUME Retained, Init PROVE AlertInv
  OBVIOUS
<1>1. IInv
  BY Initially
<1>2. OpenInv
  BY DEF Init, OpenInv, NoRow
<1>3. BatchInv
  BY NoCheckShaped DEF Init, BatchInv
<1>4. Silent
  BY DEF Init, Silent
<1> QED
  BY <1>1, <1>2, <1>3, <1>4, SilentIsPaid DEF AlertInv

LEMMA AlertNext == Retained /\ AlertInv /\ [Next]_vars => AlertInv'
<1> SUFFICES ASSUME Retained, AlertInv, [Next]_vars PROVE AlertInv'
  OBVIOUS
<1>1. IInv /\ IInv'
  BY Inductive DEF AlertInv
<1>2. ASSUME NEW c \in Checkers, CheckStep(c) PROVE AlertInv'
  <2>1. ASSUME NEW x \in Analyses(check[c]), Commit(c, x) PROVE AlertInv'
    BY <1>1, <2>1, CommitPays
  <2>2. CASE Store(c)
    BY <1>1, <2>2, StorePays
  <2>3. CASE LoseRace(c) \/ Abort(c) \/ RecordDelivery(c)
    BY <1>1, <2>3, OverReads, NobodyReads DEF LoseRace, Abort, RecordDelivery, articles
  <2>4. CASE Begin(c)
    <3>1. check'[c].pc = "fetching"
      <4>1. check'[c] = [NoCheck EXCEPT !.pc = "fetching", !.generation = generation,
                                        !.version = version, !.base = absorbed]
        BY <1>1, <2>4 DEF Begin, IInv, TypeInv, CheckType
      <4> QED
        BY <4>1 DEF NoCheck
    <3>2. \A d \in Checkers : check'[d] = check[d] \/ check'[d].pc # "analyzing"
      BY <1>1, <2>4, <3>1 DEF Begin, IInv, TypeInv, CheckType
    <3> QED
      BY <1>1, <2>4, <3>2, NobodyReads DEF Begin, articles
  <2>5. CASE Send(c)
    <3>1. check'[c].pc = "sent"
      BY <1>1, <2>5 DEF Send, IInv, TypeInv, CheckType, Shaped
    <3>2. \A d \in Checkers : check'[d] = check[d] \/ check'[d].pc # "analyzing"
      BY <1>1, <2>5, <3>1 DEF Send, IInv, TypeInv, CheckType
    <3> QED
      BY <1>1, <2>5, <3>2, NobodyReads DEF Send, articles
  <2> QED
    BY <1>2, <2>1, <2>2, <2>3, <2>4, <2>5 DEF CheckStep
<1>3. ASSUME NEW r \in ResultIds, Drain(r) PROVE AlertInv'
  BY <1>1, <1>3, NobodyReads DEF Drain, articles
<1>4. ~Expire
  BY DEF Expire, Retained
<1>5. CASE Delete
  BY <1>1, <1>5, DeletePays
<1>6. CASE Create
  BY <1>1, <1>6, NobodyReads DEF Create, articles
<1>7. ASSUME NEW c \in Checkers, Lose(c) PROVE AlertInv'
  BY <1>1, <1>7, OverReads, NobodyReads DEF Lose, articles
<1>8. CASE UNCHANGED vars
  BY <1>1, <1>8, NobodyReads DEF vars, articles
<1> QED
  BY <1>2, <1>3, <1>4, <1>5, <1>6, <1>7, <1>8 DEF Next

LEMMA PaidIsBounded == Retained /\ AlertInv => AlertsBounded
<1> SUFFICES ASSUME Retained, AlertInv, NEW f \in Facts
             PROVE  announced[f] <= Cardinality(Reporting(f)) * Most
  BY DEF AlertsBounded, Most
<1>1. SpentInRange
  BY SpentBounded DEF AlertInv
<1>2. \A a \in Reporting(f) : Spent[a] \in 0..Most /\ Spent[a] <= Spent[a]
  BY <1>1, Reporters DEF SpentInRange
<1> DEFINE m == Cardinality(Units(Reporting(f), Most, Spent))
           n == Cardinality(Reporting(f)) * Most
<1>3. m \in Nat /\ m <= n
  BY <1>1, <1>2, Reporters, UnitsGrow DEF SpentInRange
<1>4. announced[f] <= m /\ announced[f] \in Nat
  BY DEF AlertInv, PaidFor, IInv, TypeInv, ArticleType
<1>5. n \in Nat
  <2>1. Cardinality(Reporting(f)) \in Nat /\ Most \in Nat
    BY <1>1, Reporters, FS_CardinalityType DEF SpentInRange
  <2> QED
    BY <2>1
<1> HIDE DEF m, n
<1>6. announced[f] <= n
  BY <1>3, <1>4, <1>5
<1> QED
  BY <1>6 DEF n

\* A knowledge merge that is refused again and again repeats an alert a bounded number of
\* times, however many checks overlap, die, or lose their topic, as long as no article
\* expires: the articles that report the fact pay for every alert with an attempt, or with
\* one check that was still going to finish with them.
THEOREM AlertsPaidFor ==
  ASSUME "expiry" \notin Events, IsFiniteSet(Articles), IsFiniteSet(Checkers)
  PROVE  Spec => []AlertsBounded
<1>1. Retained
  BY DEF Retained
<1>2. Init => AlertInv
  BY <1>1, AlertInit
<1>3. AlertInv /\ [Next]_vars => AlertInv'
  BY <1>1, AlertNext
<1>4. AlertInv => AlertsBounded
  BY <1>1, PaidIsBounded
<1> QED
  BY <1>2, <1>3, <1>4, PTL DEF Spec
============================================================================
