----------------------------- MODULE Knowledge -----------------------------
(***************************************************************************)
(* The knowledge of a topic: the summary, fitted into the token budget,    *)
(* its version, and the history of revisions the diffs are made of.        *)
(*                                                                         *)
(* A job (a check or an initialization, of any process) notes the version, *)
(* has the LLM write a summary with no connection open, has it compressed  *)
(* or cuts it when it is over the budget, and writes summary, revision and *)
(* pruning in one transaction.                                             *)
(*                                                                         *)
(* A summary is the sequence of the token counts of its sentences.         *)
(***************************************************************************)
EXTENDS Naturals, Sequences, SequencesExt

CONSTANTS
    Jobs, None,
    Budget,      \* knowledge_state_max_tokens
    Limits,      \* values of knowledge_revision_limit
    Summaries,   \* what the LLM writes
    MaxVersion   \* bound: writes

KnowledgeAssumption ==
    /\ None \notin Nat /\ Limits \subseteq Nat \ {0}
    /\ Summaries \subseteq Seq(Nat) \ {<<>>} /\ Budget \in Nat

VARIABLES
    state,      \* knowledge_states: the version, None without a row
    revisions,  \* knowledge_revisions, in the order of their ids
    job         \* per job: where it is, what it noted, its plan

vars == <<state, revisions, job>>

Idle == [at |-> "idle", source |-> "init", base |-> 0, whole |-> <<>>, text |-> <<>>]

-----------------------------------------------------------------------------
(* _truncate_to_budget *)

\* The tokens of the first k sentences, for every k.
count_first(text) ==
    LET count[k \in 0..Len(text)] == IF k = 0 THEN 0 ELSE count[k - 1] + text[k]
    IN count

count_tokens(text) == count_first(text)[Len(text)]
Fits(text) == count_tokens(text) <= Budget

\* One round of the binary search.
Halved(text, s) ==
    LET mid == (s.lo + s.hi) \div 2 IN
    IF s.lo > s.hi THEN s
    ELSE IF Fits(SubSeq(text, 1, mid)) THEN [lo |-> mid + 1, hi |-> s.hi, best |-> mid]
    ELSE [s EXCEPT !.hi = mid - 1]

\* Mutant: the search ends with one candidate left.
SearchTooShort(text) ==
    LET search[i \in 0..Len(text)] ==
            IF i = 0 THEN [lo |-> 1, hi |-> Len(text) - 1, best |-> 0]
            ELSE IF search[i - 1].lo = search[i - 1].hi THEN search[i - 1]
            ELSE Halved(text, search[i - 1])
    IN search[Len(text)].best

\* How many leading sentences fit, by binary search, which is over in less than as many
\* rounds; 0 if not even the first does.
Search(text) ==
    LET search[i \in 0..Len(text)] ==
            IF i = 0 THEN [lo |-> 1, hi |-> Len(text) - 1, best |-> 0]
            ELSE Halved(text, search[i - 1])
    IN search

BestPrefix(text) == Search(text)[Len(text)].best

Truncated(text) ==
    IF Fits(text) \/ Len(text) = 1 THEN text
    ELSE SubSeq(text, 1, IF BestPrefix(text) = 0 THEN 1 ELSE BestPrefix(text))

-----------------------------------------------------------------------------
(* prepare_initial_knowledge, prepare_knowledge_update *)

Snapshot(j) ==
    /\ job[j].at = "idle"
    /\ \E source \in {"init", "update"} :
        /\ source = "update" => state # None
        /\ job' = [job EXCEPT ![j] = [Idle EXCEPT !.at = "generating", !.source = source,
                                        !.base = IF state = None THEN 0 ELSE state]]
    /\ UNCHANGED <<state, revisions>>

Plan(j, whole, text) == job' = [job EXCEPT ![j].at = "ready", ![j].whole = whole, ![j].text = text]

Generate(j) ==
    /\ job[j].at = "generating"
    /\ \E text \in Summaries :
        IF Fits(text) THEN Plan(j, text, text)
        ELSE job' = [job EXCEPT ![j].at = "compressing", ![j].whole = text]
    /\ UNCHANGED <<state, revisions>>

\* The call fails, or the findings are too vague to merge.
NoPlan(j) ==
    /\ job[j].at = "generating"
    /\ job' = [job EXCEPT ![j] = Idle]
    /\ UNCHANGED <<state, revisions>>

\* compress_knowledge: a failure cuts the original, a summary that is still over
\* the budget is cut itself.
Compress(j) ==
    /\ job[j].at = "compressing"
    /\ \/ Plan(j, job[j].whole, Truncated(job[j].whole))
       \/ \E text \in Summaries : Plan(j, text, Truncated(text))
    /\ UNCHANGED <<state, revisions>>

-----------------------------------------------------------------------------
(* apply_knowledge_update, in the transaction of its caller *)

\* Mutant: the oldest revisions are kept.
OldestKept(revs, keep) == SubSeq(revs, 1, IF Len(revs) < keep THEN Len(revs) ELSE keep)

prune_knowledge_revisions(revs, keep) ==
    SubSeq(revs, IF Len(revs) > keep THEN Len(revs) - keep + 1 ELSE 1, Len(revs))

\* update_knowledge_state_cas, or the first row of the topic
Applies(j) == state \in {job[j].base, None}

Apply(j) ==
    /\ job[j].at = "ready" /\ Applies(j)
    /\ state' = IF state = None THEN 1 ELSE state + 1
    /\ state' <= MaxVersion
    /\ \E keep \in Limits :
        revisions' = prune_knowledge_revisions(
            Append(revisions, [version |-> state', base |-> job[j].base, source |-> job[j].source]), keep)
    /\ job' = [job EXCEPT ![j] = Idle]

\* The summary moved: the caller aborts its transaction.
Discard(j) ==
    /\ job[j].at = "ready" /\ ~Applies(j)
    /\ job' = [job EXCEPT ![j] = Idle]
    /\ UNCHANGED <<state, revisions>>

\* The server starts, perhaps with a lower limit: what it was doing is gone, the
\* jobs of other processes go on (prune_all_knowledge_revisions).
Start(gone) ==
    /\ \E keep \in Limits : revisions' = prune_knowledge_revisions(revisions, keep)
    /\ job' = [j \in Jobs |-> IF j \in gone THEN Idle ELSE job[j]]
    /\ UNCHANGED state

\* A new topic, or one that is older than versions, with its backfilled revision.
Init ==
    /\ state \in {None, 0}
    /\ revisions = IF state = None THEN <<>>
                   ELSE <<[version |-> 0, base |-> 0, source |-> "init"]>>
    /\ job = [j \in Jobs |-> Idle]

Next ==
    \/ \E j \in Jobs : Snapshot(j) \/ Generate(j) \/ NoPlan(j) \/ Compress(j) \/ Apply(j) \/ Discard(j)
    \/ \E gone \in SUBSET Jobs : Start(gone)

Spec == Init /\ [][Next]_vars

-----------------------------------------------------------------------------
(* Properties *)

\* A summary that is cut loses as little as it can: it is the longest prefix of
\* whole sentences within the budget, or the first sentence if none is.
TruncatesLeast ==
    \A j \in Jobs : job[j].at = "ready" =>
        LET whole == job[j].whole  n == Len(job[j].text) IN
        /\ job[j].text = SubSeq(whole, 1, n)
        /\ n = 1 \/ Fits(job[j].text)
        /\ \A m \in (n + 1)..Len(whole) : ~Fits(SubSeq(whole, 1, m))

\* Every diff on the timeline is one edit: the retained revisions are adjacent,
\* an update was written over the one before it, and the newest is the summary
\* in use; whatever raced, was pruned, or was interrupted (AUG-146).
HistoryContiguous ==
    /\ state # None => Last(revisions).version = state
    /\ \A i \in 1..(Len(revisions) - 1) :
        /\ revisions[i + 1].version = revisions[i].version + 1
        /\ revisions[i + 1].source = "update" => revisions[i + 1].base = revisions[i].version
=============================================================================
