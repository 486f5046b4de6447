--------------------------- MODULE DeliveryQueue ---------------------------
(***************************************************************************)
(* The durable delivery queue: one row of pending_notifications (or        *)
(* pending_webhooks, its mirror) per message and target, claimed, sent and *)
(* settled by tasks of several processes that share nothing but the        *)
(* database (app/crud.py, app/checker.py, app/webhooks.py).                *)
(*                                                                         *)
(* A row goes pending -> sending -> sent | abandoned, or pending ->        *)
(* revoked.  A LANE is one call of deliver_notification_intents: the       *)
(* batch a check has just committed, or the batch the process's            *)
(* single-flight drain has read from the table.  task[l][r] is the         *)
(* coroutine of lane l for the row id r: what it carries was read when the *)
(* batch was built and may be stale by the time it runs.                   *)
(***************************************************************************)
EXTENDS Naturals, FiniteSets, Functions

CONSTANTS
  Procs,         \* operating-system processes: the server, a CLI command
  Checks,        \* names of the lanes in which a process delivers what it committed
  Msgs,          \* messages, one per (event, target); each is committed at most once
  NoMsg,
  TopicOf,       \* the topic each message belongs to
  Heartbeats,    \* the messages of kind heartbeat_alert or heartbeat_recovery
  Legacy,        \* messages whose row predates per-target intents (url NULL)
  Tokens,        \* claim tokens; secrets.token_hex never repeats one in use
  NoToken,
  MaxRows,       \* bound on row ids
  MaxRetries,    \* PendingNotification.max_retries
  DrainLimit,    \* _RETRY_DRAIN_LIMIT
  Concurrency,   \* _DELIVERY_CONCURRENCY
  TimesOut,      \* TRUE for Apprise: an expired send reports an unknown outcome
  Faults,        \* the misfortunes this instance includes
  MaxInterrupts, \* bound on crashes and cancellations
  CountCap        \* the history counters saturate here

FaultKinds ==
  {"crash", "cancel", "clock_step", "db_error", "db_down", "lost_ack", "send_raises",
   "topic_delete"}

ASSUME ConstantsAssumption ==
  /\ MaxRows \in Nat /\ MaxRetries \in Nat \ {0} /\ DrainLimit \in Nat
  /\ Concurrency \in Nat /\ MaxInterrupts \in Nat /\ CountCap \in Nat
  /\ NoMsg \notin Msgs /\ NoToken \notin Tokens
  /\ Heartbeats \subseteq Msgs /\ Legacy \subseteq Msgs
  /\ "drain" \notin Checks
  /\ TimesOut \in BOOLEAN /\ Faults \subseteq FaultKinds

VARIABLES
  row,        \* the table, indexed by row id
  task,       \* the coroutines, indexed by lane and row id
  stray,      \* Apprise threads whose coroutine stopped waiting for them
  created,    \* messages committed so far, or whose topic is gone
  interrupts, \* crashes and cancellations so far
  sends,      \* history: physical sends started, per message
  accepts     \* history: times the target accepted the message

vars == <<row, task, stray, created, interrupts, sends, accepts>>
history == <<sends, accepts>>

Rows == 1..MaxRows
Topics == {TopicOf[m] : m \in Msgs}
Lanes == Procs \X (Checks \cup {"drain"})

Terminal == {"sent", "abandoned", "revoked"}
Statuses == {"absent", "pending", "sending"} \cup Terminal

\* ripe: next_attempt_at has passed (pending), claimed_at is before the stale cutoff (sending).
RowRec ==
  [status : Statuses, msg : Msgs \cup {NoMsg}, retries : 0..MaxRetries,
   token : Tokens \cup {NoToken}, ripe : BOOLEAN]

NoRow ==
  [status |-> "absent", msg |-> NoMsg, retries |-> 0, token |-> NoToken, ripe |-> FALSE]

NewRow(m) == [NoRow EXCEPT !.status = "pending", !.msg = m, !.ripe = TRUE]

Stages == {"idle", "listed", "unaddressed", "sending", "returned", "raised"}
Outcomes == {"none", "ok", "failed", "terminal"}

TaskRec ==
  [pc : Stages, msg : Msgs \cup {NoMsg}, token : Tokens \cup {NoToken},
   accepted : BOOLEAN, out : Outcomes]

NoTask ==
  [pc |-> "idle", msg |-> NoMsg, token |-> NoToken, accepted |-> FALSE, out |-> "none"]

\* A thread that cannot be cancelled: its message, its claim, and whether it has delivered.
StrayRec == [proc : Procs, msg : Msgs, token : Tokens, accepted : BOOLEAN]

Listed(m) == [NoTask EXCEPT !.pc = "listed", !.msg = m]

\* The stages in which a task holds the claim it won.
Holding == {"unaddressed", "sending", "returned", "raised"}

LaneIdle(l) == \A r \in Rows : task[l][r].pc = "idle"

InFlight(l) == {r \in Rows : task[l][r].pc \in Holding}

\* Mutant: the release ignores live claims.
NoLiveTokens(p) == {}

\* live_claim_tokens(): the claims this process is sending at this moment.
LiveTokens(p) ==
  {t \in Tokens : \E l \in Lanes, r \in Rows :
     l[1] = p /\ task[l][r].token = t /\ task[l][r].pc \in {"sending", "returned", "raised"}}

StrayTokens == {s.token : s \in stray}

UsedTokens ==
  {t \in Tokens : \/ \E r \in Rows : row[r].token = t
                  \/ \E l \in Lanes, r \in Rows : task[l][r].token = t
                  \/ t \in StrayTokens}

FreshToken == CHOOSE t \in Tokens : t \notin UsedTokens

(***************************************************************************)
(* The table's statements                                                  *)
(***************************************************************************)

\* Mutant: a claim takes any row that is not being sent.
DueUnlessSending(rec) == rec.status # "sending" /\ rec.retries < MaxRetries /\ rec.ripe

Due(rec) == rec.status = "pending" /\ rec.retries < MaxRetries /\ rec.ripe

Claimed(rec, t) == [rec EXCEPT !.status = "sending", !.token = t, !.ripe = FALSE]

\* Mutant: a failure is not charged to the row.
SettledUncharged(rec, out) ==
  IF out = "ok"
    THEN [rec EXCEPT !.status = "sent", !.token = NoToken]
    ELSE [rec EXCEPT !.token = NoToken, !.ripe = FALSE,
            !.status = IF out = "terminal" THEN "abandoned" ELSE "pending"]

\* What apply_notification_outcome writes when the fence lets it.
Settled(rec, out) ==
  IF out = "ok"
    THEN [rec EXCEPT !.status = "sent", !.token = NoToken]
    ELSE [rec EXCEPT !.retries = rec.retries + 1, !.token = NoToken, !.ripe = FALSE,
            !.status = IF out = "terminal" \/ rec.retries + 1 >= MaxRetries
                         THEN "abandoned" ELSE "pending"]

\* Mutant: the fence looks at the status alone.
FencedByStatus(l, r) == row[r].status = "sending"

\* WHERE id = ? AND claim_token = ? AND status = 'sending'
Fenced(l, r) == row[r].status = "sending" /\ row[r].token = task[l][r].token

ApplyOutcome(l, r, out) ==
  row' = IF Fenced(l, r) THEN [row EXCEPT ![r] = Settled(row[r], out)] ELSE row

\* Mutant: nothing is ever released.
NeverReleased(rec, live) == rec

\* release_stale_notification_claims, seen from a process whose live tokens are excluded.
Released(rec, live) ==
  IF rec.status = "sending" /\ rec.ripe /\ rec.token \notin live
    THEN [rec EXCEPT !.status = "pending", !.token = NoToken]
    ELSE rec

Abandoned(rec) ==
  IF rec.status = "pending" /\ rec.retries >= MaxRetries
    THEN [rec EXCEPT !.status = "abandoned"]
    ELSE rec

\* The oldest DrainLimit of the rows that are due.
DueBatch(table) ==
  LET due == {r \in Rows : Due(table[r])}
  IN  {r \in due : Cardinality({q \in due : q < r}) < DrainLimit}

\* INTEGER PRIMARY KEY without AUTOINCREMENT: new ids follow the largest one in the
\* table, so the ids of deleted rows come back.
AreNextIds(ids) ==
  \A r \in ids :
    /\ \A q \in Rows : row[q].status # "absent" => q < r
    /\ r > 1 => row[r - 1].status # "absent" \/ (r - 1) \in ids

(***************************************************************************)
(* Commit and drain                                                        *)
(***************************************************************************)

\* A check (or a forced resend) commits one intent per target and then delivers
\* the list it has just inserted.
CommitIntents(l, S) ==
  /\ l[2] \in Checks /\ LaneIdle(l)
  /\ S # {} /\ S \cap created = {}
  /\ \A a, b \in S : TopicOf[a] = TopicOf[b]
  /\ \E id \in Injection(S, Rows) :
       LET ids == {id[m] : m \in S}
           At(r) == CHOOSE m \in S : id[m] = r
       IN /\ AreNextIds(ids)
          /\ row' = [r \in Rows |-> IF r \in ids THEN NewRow(At(r)) ELSE row[r]]
          /\ task' = [task EXCEPT ![l] =
                        [r \in Rows |-> IF r \in ids THEN Listed(At(r)) ELSE NoTask]]
  /\ created' = created \cup S
  /\ UNCHANGED <<stray, interrupts, history>>

\* One drain per process at a time: release, abandon and list in one short connection.
Drain(p) ==
  LET l == <<p, "drain">>
      table == [r \in Rows |-> Abandoned(Released(row[r], LiveTokens(p)))]
      batch == DueBatch(table)
  IN /\ LaneIdle(l)
     /\ row' = table
     /\ task' = [task EXCEPT ![l] =
                   [r \in Rows |-> IF r \in batch THEN Listed(table[r].msg) ELSE NoTask]]
     /\ UNCHANGED <<stray, created, interrupts, history>>

(***************************************************************************)
(* One task: claim, send, apply                                            *)
(***************************************************************************)

\* The claim names the row by id alone, and what is sent is the task's own copy.
WinClaim(l, r) ==
  /\ task[l][r].pc = "listed"
  /\ Cardinality(InFlight(l)) < Concurrency
  /\ Due(row[r])
  /\ UsedTokens # Tokens
  /\ row' = [row EXCEPT ![r] = Claimed(row[r], FreshToken)]
  /\ IF task[l][r].msg \in Legacy
       THEN /\ task' = [task EXCEPT ![l][r] = [@ EXCEPT !.pc = "unaddressed", !.token = FreshToken]]
            /\ UNCHANGED sends
       ELSE /\ task' = [task EXCEPT ![l][r] = [@ EXCEPT !.pc = "sending", !.token = FreshToken]]
            /\ sends' = [sends EXCEPT ![task[l][r].msg] = IF @ < CountCap THEN @ + 1 ELSE @]
  /\ UNCHANGED <<stray, created, interrupts, accepts>>

LoseClaim(l, r) ==
  /\ task[l][r].pc = "listed"
  /\ Cardinality(InFlight(l)) < Concurrency
  /\ ~Due(row[r])
  /\ task' = [task EXCEPT ![l][r] = NoTask]
  /\ UNCHANGED <<row, stray, created, interrupts, history>>

\* A row without a target is abandoned, or left claimed if the write itself fails.
DropUnaddressed(l, r) ==
  /\ task[l][r].pc = "unaddressed"
  /\ \/ ApplyOutcome(l, r, "terminal")
     \/ "db_down" \in Faults /\ UNCHANGED row
  /\ task' = [task EXCEPT ![l][r] = NoTask]
  /\ UNCHANGED <<stray, created, interrupts, history>>

\* The target takes the message: nobody in the program sees this happen.
Accept(l, r) ==
  /\ task[l][r].pc = "sending" /\ ~task[l][r].accepted
  /\ task' = [task EXCEPT ![l][r] = [@ EXCEPT !.accepted = TRUE]]
  /\ accepts' = [accepts EXCEPT ![task[l][r].msg] = IF @ < CountCap THEN @ + 1 ELSE @]
  /\ UNCHANGED <<row, stray, created, interrupts, sends>>

Return(l, r, out) ==
  /\ task[l][r].pc = "sending"
  /\ CASE out = "ok"       -> task[l][r].accepted
       [] out = "failed"   -> ~task[l][r].accepted \/ "lost_ack" \in Faults
       [] out = "terminal" -> ~task[l][r].accepted
  /\ task' = [task EXCEPT ![l][r] = [@ EXCEPT !.pc = "returned", !.out = out]]
  /\ UNCHANGED <<row, stray, created, interrupts, history>>

\* The threads a lane leaves behind when it stops waiting for its sends to S.
LeftBehind(l, S) ==
  {[proc |-> l[1], msg |-> task[l][r].msg, token |-> task[l][r].token,
    accepted |-> task[l][r].accepted] : r \in {q \in S : task[l][q].pc = "sending"}}

\* An Apprise send that outlives its deadline: the coroutine returns and its token stops
\* being live, the row stays 'sending', and the thread runs on.
TimeOut(l, r) ==
  /\ TimesOut
  /\ task[l][r].pc = "sending"
  /\ task' = [task EXCEPT ![l][r] = NoTask]
  /\ stray' = stray \cup LeftBehind(l, {r})
  /\ UNCHANGED <<row, created, interrupts, history>>

\* A thread nobody waits for delivers after all.
LateAccept(s) ==
  /\ ~s.accepted
  /\ stray' = (stray \ {s}) \cup {[s EXCEPT !.accepted = TRUE]}
  /\ accepts' = [accepts EXCEPT ![s.msg] = IF @ < CountCap THEN @ + 1 ELSE @]
  /\ UNCHANGED <<row, task, created, interrupts, sends>>

\* Its socket I/O returns: whatever it has to say, nobody hears it.
LateEnd(s) ==
  /\ stray' = stray \ {s}
  /\ UNCHANGED <<row, task, created, interrupts, history>>

SendRaises(l, r) ==
  /\ "send_raises" \in Faults
  /\ task[l][r].pc = "sending"
  /\ task' = [task EXCEPT ![l][r] = [@ EXCEPT !.pc = "raised"]]
  /\ UNCHANGED <<row, stray, created, interrupts, history>>

Apply(l, r) ==
  /\ task[l][r].pc = "returned"
  /\ ApplyOutcome(l, r, task[l][r].out)
  /\ task' = [task EXCEPT ![l][r] = NoTask]
  /\ UNCHANGED <<stray, created, interrupts, history>>

\* The first apply raises, whether or not its commit landed.
ApplyRaises(l, r) ==
  /\ "db_error" \in Faults
  /\ task[l][r].pc = "returned"
  /\ \/ ApplyOutcome(l, r, task[l][r].out)
     \/ UNCHANGED row
  /\ task' = [task EXCEPT ![l][r] = [@ EXCEPT !.pc = "raised"]]
  /\ UNCHANGED <<stray, created, interrupts, history>>

\* Mutant: the handler's second apply always records a success.
ApplyAgainAsSent(l, r) ==
  /\ task[l][r].pc = "raised"
  /\ ApplyOutcome(l, r, "ok")
  /\ task' = [task EXCEPT ![l][r] = NoTask]
  /\ UNCHANGED <<stray, created, interrupts, history>>

\* The handler's second apply keeps a success and turns anything else into a retry;
\* if it fails too, the claim is left to the stale release.
ApplyAgain(l, r) ==
  /\ task[l][r].pc = "raised"
  /\ \/ ApplyOutcome(l, r, IF task[l][r].out = "ok" THEN "ok" ELSE "failed")
     \/ "db_down" \in Faults /\ UNCHANGED row
  /\ task' = [task EXCEPT ![l][r] = NoTask]
  /\ UNCHANGED <<stray, created, interrupts, history>>

TaskStep(l, r) ==
  \/ WinClaim(l, r)
  \/ LoseClaim(l, r)
  \/ DropUnaddressed(l, r)
  \/ \E out \in Outcomes \ {"none"} : Return(l, r, out)
  \/ TimeOut(l, r)
  \/ SendRaises(l, r)
  \/ Apply(l, r)
  \/ ApplyRaises(l, r)
  \/ ApplyAgain(l, r)

(***************************************************************************)
(* What happens around the tasks                                           *)
(***************************************************************************)

\* asyncio cancels a batch (check deadline, shutdown): every claim it held stays
\* 'sending', its tokens stop being live, and its Apprise threads run on.
Cancel(l) ==
  /\ "cancel" \in Faults /\ interrupts < MaxInterrupts
  /\ ~LaneIdle(l)
  /\ task' = [task EXCEPT ![l] = [r \in Rows |-> NoTask]]
  /\ stray' = IF TimesOut THEN stray \cup LeftBehind(l, Rows) ELSE stray
  /\ interrupts' = interrupts + 1
  /\ UNCHANGED <<row, created, history>>

\* A process dies, and starts again with nothing in memory.
Crash(p) ==
  /\ "crash" \in Faults /\ interrupts < MaxInterrupts
  /\ task' = [l \in Lanes |-> IF l[1] = p THEN [r \in Rows |-> NoTask] ELSE task[l]]
  /\ stray' = {s \in stray : s.proc # p}
  /\ interrupts' = interrupts + 1
  /\ UNCHANGED <<row, created, history>>

\* Wall-clock time passes for one row: a backoff ends, or a claim grows stale.
\* A send, and the thread it may leave behind, is bounded far below ten minutes: only a
\* clock step ages its claim while it runs.
Ripen(r) ==
  /\ row[r].status \in {"pending", "sending"} /\ ~row[r].ripe
  /\ \/ row[r].status = "pending"
     \/ "clock_step" \in Faults
     \/ /\ row[r].token \notin StrayTokens
        /\ \A p \in Procs : row[r].token \notin LiveTokens(p)
  /\ row' = [row EXCEPT ![r].ripe = TRUE]
  /\ UNCHANGED <<task, stray, created, interrupts, history>>

\* A heartbeat transition (one topic) or the feature's off switch (all topics).
RevokeHeartbeats(T) ==
  /\ row' = [r \in Rows |->
               IF row[r].status = "pending" /\ row[r].msg \in Heartbeats
                    /\ TopicOf[row[r].msg] \in T
                 THEN [row[r] EXCEPT !.status = "revoked"] ELSE row[r]]
  /\ UNCHANGED <<task, stray, created, interrupts, history>>

\* ON DELETE CASCADE.  Nothing new is committed for a topic that is gone.
DeleteTopic(t) ==
  /\ "topic_delete" \in Faults
  /\ row' = [r \in Rows |->
               IF row[r].status # "absent" /\ TopicOf[row[r].msg] = t THEN NoRow ELSE row[r]]
  /\ created' = created \cup {m \in Msgs : TopicOf[m] = t}
  /\ UNCHANGED <<task, stray, interrupts, history>>

\* Retention: a terminal row of thirty days, which no batch or thread in memory still names.
Prune(r) ==
  /\ row[r].status \in Terminal /\ stray = {}
  /\ \A l \in Lanes : task[l][r].pc = "idle"
  /\ row' = [row EXCEPT ![r] = NoRow]
  /\ UNCHANGED <<task, stray, created, interrupts, history>>

Init ==
  /\ \E id \in Injection(Legacy, Rows), n \in [Legacy -> 0..MaxRetries] :
       row = [r \in Rows |->
                IF \E m \in Legacy : id[m] = r
                  THEN LET m == CHOOSE m \in Legacy : id[m] = r
                       IN [NewRow(m) EXCEPT !.retries = n[m]]
                  ELSE NoRow]
  /\ task = [l \in Lanes |-> [r \in Rows |-> NoTask]]
  /\ stray = {}
  /\ created = Legacy
  /\ interrupts = 0
  /\ sends = [m \in Msgs |-> 0]
  /\ accepts = [m \in Msgs |-> 0]

Next ==
  \/ \E l \in Lanes, S \in SUBSET Msgs : CommitIntents(l, S)
  \/ \E p \in Procs : Drain(p) \/ Crash(p)
  \/ \E l \in Lanes, r \in Rows : TaskStep(l, r) \/ Accept(l, r)
  \/ \E s \in stray : LateAccept(s) \/ LateEnd(s)
  \/ \E l \in Lanes : Cancel(l)
  \/ \E r \in Rows : Ripen(r) \/ Prune(r)
  \/ \E T \in {{t} : t \in Topics} \cup {Topics} : RevokeHeartbeats(T)
  \/ \E t \in Topics : DeleteTopic(t)

Spec == Init /\ [][Next]_vars

\* The scheduler drains every tick for ever, an event loop runs what it has
\* started, and wall-clock time passes.  Nothing makes a target answer.
Fairness ==
  /\ \A p \in Procs : WF_vars(Drain(p))
  /\ \A l \in Lanes, r \in Rows : WF_vars(TaskStep(l, r))
  /\ \A r \in Rows : WF_vars(Ripen(r))

FairSpec == Spec /\ Fairness

(***************************************************************************)
(* Properties                                                              *)
(***************************************************************************)

\* Every variable stays in its range, and a row carries a claim token exactly while it
\* is 'sending': no path settles or releases a claim and leaves its token behind.
TypeOK ==
  /\ row \in [Rows -> RowRec]
  /\ \A r \in Rows : row[r].status = "sending" <=> row[r].token # NoToken
  /\ task \in [Lanes -> [Rows -> TaskRec]]
  /\ stray \subseteq StrayRec
  /\ created \subseteq Msgs
  /\ interrupts \in 0..MaxInterrupts
  /\ sends \in [Msgs -> 0..CountCap]
  /\ accepts \in [Msgs -> 0..CountCap]

\* No message is being sent twice at the same time: neither an overlapping inline batch,
\* nor a drain holding a stale list, nor the stale-claim release can put a second sender
\* beside a task that is sending (TW-AUD-006, AUG-277) or, while clocks do not step, beside
\* a thread that outlived its task (AUG-071).
OneSender ==
  /\ \A k, l \in DOMAIN task, q, r \in DOMAIN row :
       /\ task[k][q].pc = "sending" /\ task[l][r].pc = "sending"
       /\ task[k][q].msg = task[l][r].msg
       => k = l /\ q = r
  /\ "clock_step" \notin Faults =>
       \A s \in stray :
         /\ \A l \in DOMAIN task, r \in DOMAIN row :
              ~(task[l][r].pc = "sending" /\ task[l][r].msg = s.msg)
         /\ \A t \in stray : t.msg = s.msg => t = s

\* The ledger is final: once a row is sent, abandoned or revoked no late apply, no
\* release, no revocation and no second claim changes it; it can only be deleted.
LedgerIsFinal ==
  [][\A r \in Rows : row[r].status \in Terminal => row'[r] \in {row[r], NoRow}]_vars

\* The claim fence: a claim is settled, and an attempt is charged to its row, only by
\* a step of the task that holds the token in the row.  A task whose claim was
\* released as stale and taken over changes nothing (AUG-277).
OnlyOwnerSettles ==
  [][\A r \in Rows :
       /\ row[r].status = "sending"
       /\ row'[r].status \in {"sent", "abandoned"} \/ row'[r].retries > row[r].retries
       => \E l \in Lanes :
            /\ task[l][r].pc \in Holding /\ task[l][r].token = row[r].token
            /\ task'[l][r] # task[l][r]]_vars

\* The ledger is honest: a row that says 'sent' names a message its target took.
SentMeansDelivered ==
  \A r \in DOMAIN row : row[r].status = "sent" => accepts[row[r].msg] > 0

\* No message is physically sent more than max_retries times: each attempt is charged to its
\* row before the next begins, where every send ends with a known outcome.
WithinBudget == \A m \in Msgs : sends[m] <= MaxRetries

\* What the table says of a message, whatever row it is in.
RowOf(m) == CHOOSE r \in DOMAIN row : row[r].msg = m
Named(m) == \E r \in DOMAIN row : row[r].msg = m
Standing == [m \in Msgs |-> IF Named(m) THEN row[RowOf(m)].status ELSE "none"]
Taken == {m \in Msgs : Named(m) /\ accepts[m] > 0}

Promise == INSTANCE Outbox WITH Messages <- Msgs, status <- Standing, told <- Taken

\* The queue keeps its promise: for all the tasks, tokens, stale lists, failing writes and
\* releases, what becomes of a message is what Outbox says can.  It is sent only while it
\* is claimed and recorded as sent only if its target took it; what is claimed is never
\* revoked or queued again before that send has ended, and what is settled stays so.  It
\* holds under SafeSends: a clock step puts a timed-out send's row back in the queue, or a
\* live one's from another process, while the send goes on.
KeepsPromise == Promise!Spec

Owed(m) == \E r \in Rows : row[r].msg = m /\ row[r].status \in {"pending", "sending"}

-----------------------------------------------------------------------------
(***************************************************************************)
(* The inductive strengthening the proofs use                              *)
(***************************************************************************)

Live == {"sending", "returned"}

RowsInv ==
  /\ \A r \in Rows :
       /\ row[r].status = "absent" <=> row[r].msg = NoMsg
       /\ row[r].status # "absent" => row[r].msg \in created
       /\ row[r].status = "sending" => row[r].retries < MaxRetries
  /\ \A q, r \in Rows : row[q].msg = row[r].msg /\ row[q].msg # NoMsg => q = r

TasksInv ==
  \A l \in Lanes, r \in Rows :
    /\ task[l][r].pc # "idle" => task[l][r].msg \in Msgs
    /\ task[l][r].accepted => task[l][r].pc # "idle"
    /\ task[l][r].pc \in Holding <=> task[l][r].token # NoToken
    /\ task[l][r].out = "ok" => task[l][r].accepted
    /\ task[l][r].accepted /\ CountCap > 0 => accepts[task[l][r].msg] > 0

\* A token names one claim: one task at most holds it, and only on the row it was stamped on.
TokensInv ==
  /\ \A k, l \in Lanes, q, r \in Rows :
       task[k][q].token = task[l][r].token /\ task[l][r].token # NoToken => k = l /\ q = r
  /\ \A l \in Lanes, q, r \in Rows :
       task[l][r].token = row[q].token /\ row[q].token # NoToken => q = r

\* A thread left behind keeps its token to itself.
StraysInv ==
  /\ ~TimesOut => stray = {}
  /\ \A s \in stray, l \in Lanes, r \in Rows : task[l][r].token # s.token
  /\ \A s, t \in stray : s.token = t.token => s = t

\* While topics stay, a batch's row is still the row it was built from.
BatchInv ==
  \A l \in Lanes, r \in Rows :
    task[l][r].pc # "idle" => row[r].msg = task[l][r].msg

\* The clock never steps, or one process does everything.
SafeClock == "clock_step" \notin Faults \/ \A p, q \in Procs : p = q

\* ... and then with sends that end when their task does, as webhooks do.
SafeSends == "clock_step" \notin Faults \/ (~TimesOut /\ \A p, q \in Procs : p = q)

\* A live claim stands: its row is still 'sending' under the task's own token.
ClaimInv ==
  \A l \in Lanes, r \in Rows :
    /\ task[l][r].pc \in Live => Fenced(l, r)
    /\ "clock_step" \notin Faults /\ task[l][r].pc \in Live => ~row[r].ripe

\* Without clock steps the row of a thread left behind waits for it: it stays 'sending'
\* under the thread's token, and does not grow stale.
ParkedInv ==
  \A s \in stray : \E r \in Rows :
    row[r].status = "sending" /\ row[r].token = s.token /\ row[r].msg = s.msg /\ ~row[r].ripe

IInv ==
  /\ TypeOK /\ RowsInv /\ TasksInv /\ TokensInv
  /\ "topic_delete" \notin Faults => BatchInv
  /\ "topic_delete" \notin Faults /\ SafeClock => ClaimInv
  /\ StraysInv
  /\ "topic_delete" \notin Faults /\ "clock_step" \notin Faults => ParkedInv
  /\ "topic_delete" \notin Faults /\ CountCap > 0 => SentMeansDelivered
=============================================================================
