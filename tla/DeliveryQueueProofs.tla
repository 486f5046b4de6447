------------------------ MODULE DeliveryQueueProofs ------------------------
(* Theorems about the delivery queue for every value of its constants. *)
EXTENDS DeliveryQueue, TLAPS

LEMMA FreshTokenIsFresh ==
  ASSUME UsedTokens # Tokens
  PROVE  /\ FreshToken \in Tokens /\ FreshToken # NoToken
         /\ \A r \in Rows : row[r].token # FreshToken
         /\ \A l \in Lanes, r \in Rows : task[l][r].token # FreshToken
         /\ FreshToken \notin StrayTokens
<1>1. \E t \in Tokens : t \notin UsedTokens
  BY DEF UsedTokens
<1>2. FreshToken \in Tokens /\ FreshToken \notin UsedTokens
  BY <1>1 DEF FreshToken
<1>3. QED
  BY <1>2, ConstantsAssumption DEF UsedTokens

BaseInv == TypeOK /\ RowsInv /\ TasksInv /\ TokensInv

LEMMA SettledRow ==
  ASSUME NEW rec \in RowRec, rec.retries < MaxRetries, NEW out \in Outcomes
  PROVE  /\ Settled(rec, out) \in RowRec
         /\ Settled(rec, out).msg = rec.msg
         /\ Settled(rec, out).token = NoToken
         /\ Settled(rec, out).status \in {"sent", "abandoned", "pending"}
         /\ Settled(rec, out).status = "sent" <=> out = "ok"
<1>1. CASE out = "ok"
  BY <1>1 DEF Settled, RowRec, Statuses, Terminal
<1>2. CASE out # "ok"
  <2>1. rec.retries + 1 \in 0..MaxRetries
    BY ConstantsAssumption DEF RowRec
  <2>2. QED
    BY <1>2, <2>1 DEF Settled, RowRec, Statuses, Terminal
<1>3. QED
  BY <1>1, <1>2

LEMMA ApplyBase ==
  ASSUME BaseInv, NEW l \in Lanes, NEW r \in Rows, NEW out \in Outcomes,
         ApplyOutcome(l, r, out)
  PROVE  /\ row' \in [Rows -> RowRec]
         /\ \A q \in Rows : q # r => row'[q] = row[q]
         /\ row'[r] = row[r] \/ row'[r].token = NoToken
         /\ row'[r].msg = row[r].msg
         /\ row'[r] # row[r] => row'[r].status \in {"sent", "abandoned", "pending"}
         /\ row'[r] # row[r] => row[r].status = "sending"
         /\ row'[r] # row[r] /\ row'[r].status = "sent" => out = "ok"
<1>1. CASE Fenced(l, r)
  <2>1. row' = [row EXCEPT ![r] = Settled(row[r], out)]
    BY <1>1 DEF ApplyOutcome
  <2>2. row \in [Rows -> RowRec] /\ row[r].retries < MaxRetries /\ row[r].status = "sending"
    BY <1>1 DEF BaseInv, TypeOK, RowsInv, Fenced
  <2>3. row'[r] = Settled(row[r], out)
    BY <2>1, <2>2
  <2>4. QED
    BY <2>1, <2>2, <2>3, SettledRow
<1>2. CASE ~Fenced(l, r)
  BY <1>2 DEF ApplyOutcome, BaseInv, TypeOK
<1>3. QED
  BY <1>1, <1>2

\* Claims only ever end, unless a claim is won: tokens that are only dropped stay unique.
LEMMA TokensShrink ==
  ASSUME TokensInv,
         \A q \in Rows : row'[q].token \in {row[q].token, NoToken},
         \A k \in Lanes, q \in Rows : task'[k][q].token \in {task[k][q].token, NoToken}
  PROVE  TokensInv'
BY DEF TokensInv

\* One task changes in a step that settles at most its own row, keeping or dropping its claim.
LEMMA TaskChanges ==
  ASSUME BaseInv, stray' \subseteq StrayRec, NEW l \in Lanes, NEW r \in Rows, NEW out \in Outcomes, NEW t \in TaskRec,
         ApplyOutcome(l, r, out) \/ UNCHANGED row,
         task' = [task EXCEPT ![l][r] = t],
         t.token \in {task[l][r].token, NoToken},
         t.pc # "idle" => t.msg \in Msgs, t.accepted => t.pc # "idle",
         t.pc \in Holding <=> t.token # NoToken,
         t.out = "ok" => t.accepted,
         t.accepted /\ CountCap > 0 => accepts'[t.msg] > 0,
         accepts' \in [Msgs -> 0..CountCap], sends' \in [Msgs -> 0..CountCap],
         \A m \in Msgs : accepts[m] > 0 => accepts'[m] > 0,
         created' = created, interrupts' = interrupts
  PROVE  BaseInv'
<1>1. /\ row' \in [Rows -> RowRec]
      /\ \A q \in Rows : q # r => row'[q] = row[q]
      /\ row'[r].msg = row[r].msg
      /\ row'[r] # row[r] => /\ row'[r].status \in {"sent", "abandoned", "pending"}
                             /\ row'[r].token = NoToken /\ row[r].status = "sending"
  BY ApplyBase DEF BaseInv, TypeOK
<1>2. \A q \in Rows : row'[q].token \in {row[q].token, NoToken}
  BY <1>1
<1>3. task' \in [Lanes -> [Rows -> TaskRec]]
  BY DEF BaseInv, TypeOK
<1>4. \A k \in Lanes, q \in Rows :
        task'[k][q] = IF k = l /\ q = r THEN t ELSE task[k][q]
  BY DEF BaseInv, TypeOK
<1>5. TypeOK'
  BY <1>1, <1>3 DEF BaseInv, TypeOK
<1>6. RowsInv'
  <2>1. \A q \in Rows :
          /\ row'[q].msg = row[q].msg
          /\ row'[q].status = "absent" <=> row[q].status = "absent"
          /\ row'[q].status = "sending" => row'[q] = row[q]
    BY <1>1
  <2>2. QED
    BY <2>1 DEF BaseInv, RowsInv
<1>7. TasksInv'
  <2> SUFFICES ASSUME NEW k \in Lanes, NEW q \in Rows
               PROVE  /\ task'[k][q].pc # "idle" => task'[k][q].msg \in Msgs
                      /\ task'[k][q].accepted => task'[k][q].pc # "idle"
                      /\ task'[k][q].pc \in Holding <=> task'[k][q].token # NoToken
                      /\ task'[k][q].out = "ok" => task'[k][q].accepted
                      /\ task'[k][q].accepted /\ CountCap > 0
                           => accepts'[task'[k][q].msg] > 0
    BY DEF TasksInv
  <2>1. CASE k = l /\ q = r
    BY <1>4, <2>1
  <2>2. CASE ~(k = l /\ q = r)
    <3>1. task'[k][q] = task[k][q]
      BY <1>4, <2>2
    <3>2. task[k][q].accepted => task[k][q].msg \in Msgs
      BY DEF BaseInv, TasksInv
    <3>3. QED
      BY <3>1, <3>2 DEF BaseInv, TasksInv
  <2>3. QED
    BY <2>1, <2>2
<1>8. TokensInv'
  BY <1>2, <1>4, TokensShrink DEF BaseInv
<1>9. QED
  BY <1>5, <1>6, <1>7, <1>8 DEF BaseInv

\* A task ends: what is left of it is NoTask.
LEMMA TaskEnds ==
  ASSUME BaseInv, stray' \subseteq StrayRec, NEW l \in Lanes, NEW r \in Rows, NEW out \in Outcomes,
         ApplyOutcome(l, r, out) \/ UNCHANGED row,
         task' = [task EXCEPT ![l][r] = NoTask],
         UNCHANGED <<created, interrupts, history>>
  PROVE  BaseInv'
<1>1. NoTask \in TaskRec
  BY DEF NoTask, TaskRec, Stages, Outcomes
<1>2. /\ accepts' = accepts /\ sends' = sends
      /\ created' = created /\ interrupts' = interrupts
  BY DEF history
<1>3. accepts \in [Msgs -> 0..CountCap] /\ sends \in [Msgs -> 0..CountCap]
  BY DEF BaseInv, TypeOK
<1>4. /\ NoTask.token = NoToken /\ NoTask.pc = "idle" /\ ~NoTask.accepted
      /\ NoTask.out # "ok"
  BY DEF NoTask
<1>5. "idle" \notin Holding
  BY DEF Holding
<1>6. QED
  BY <1>1, <1>2, <1>3, <1>4, <1>5, TaskChanges

LEMMA WinClaimBase ==
  ASSUME BaseInv, stray' \subseteq StrayRec, NEW l \in Lanes, NEW r \in Rows, WinClaim(l, r)
  PROVE  BaseInv'
<1> DEFINE t == [task[l][r] EXCEPT !.pc = IF task[l][r].msg \in Legacy THEN "unaddressed"
                                                                     ELSE "sending",
                                   !.token = FreshToken]
<1>1. /\ FreshToken \in Tokens /\ FreshToken # NoToken
      /\ \A q \in Rows : row[q].token # FreshToken
      /\ \A k \in Lanes, q \in Rows : task[k][q].token # FreshToken
  BY FreshTokenIsFresh DEF WinClaim
<1>2. /\ task[l][r] \in TaskRec /\ task[l][r].pc = "listed" /\ task[l][r].msg \in Msgs
      /\ row[r] \in RowRec /\ row[r].status = "pending" /\ row[r].retries < MaxRetries
      /\ row[r].msg \in created
  BY DEF BaseInv, TypeOK, RowsInv, TasksInv, WinClaim, Due
<1>3. /\ t \in TaskRec /\ t.token = FreshToken /\ t.msg = task[l][r].msg
      /\ t.pc \in {"unaddressed", "sending"}
      /\ t.accepted = task[l][r].accepted /\ t.out = task[l][r].out
  BY <1>1, <1>2 DEF TaskRec, Stages
<1>4. task' = [task EXCEPT ![l][r] = t]
  BY DEF WinClaim
<1>5. \A k \in Lanes, q \in Rows :
        task'[k][q] = IF k = l /\ q = r THEN t ELSE task[k][q]
  BY <1>4 DEF BaseInv, TypeOK
<1>6. row' = [row EXCEPT ![r] = Claimed(row[r], FreshToken)]
  BY DEF WinClaim
<1>7. /\ Claimed(row[r], FreshToken) \in RowRec
      /\ Claimed(row[r], FreshToken).status = "sending"
      /\ Claimed(row[r], FreshToken).token = FreshToken
      /\ Claimed(row[r], FreshToken).msg = row[r].msg
      /\ Claimed(row[r], FreshToken).retries = row[r].retries
  BY <1>1, <1>2 DEF Claimed, RowRec, Statuses
<1>8. \A q \in Rows : row'[q] = IF q = r THEN Claimed(row[r], FreshToken) ELSE row[q]
  BY <1>6 DEF BaseInv, TypeOK
<1>9. /\ created' = created /\ interrupts' = interrupts /\ accepts' = accepts
      /\ sends' \in [Msgs -> 0..CountCap]
  BY <1>2, ConstantsAssumption DEF WinClaim, BaseInv, TypeOK
<1>10. TypeOK'
  <2>1. task' \in [Lanes -> [Rows -> TaskRec]] /\ row' \in [Rows -> RowRec]
    BY <1>3, <1>4, <1>6, <1>7 DEF BaseInv, TypeOK
  <2>2. \A q \in Rows : row'[q].status = "sending" <=> row'[q].token # NoToken
    BY <1>1, <1>7, <1>8 DEF BaseInv, TypeOK
  <2>3. QED
    BY <1>9, <2>1, <2>2 DEF BaseInv, TypeOK
<1>11. RowsInv'
  <2>1. \A q \in Rows :
          /\ row'[q].msg = row[q].msg /\ row'[q].retries = row[q].retries
          /\ row'[q].status = "absent" <=> row[q].status = "absent"
          /\ row'[q].status = "sending" => q = r \/ row'[q] = row[q]
    BY <1>2, <1>7, <1>8
  <2>2. \A q \in Rows :
          /\ row[q].status = "absent" <=> row[q].msg = NoMsg
          /\ row[q].status # "absent" => row[q].msg \in created
          /\ row[q].status = "sending" => row[q].retries < MaxRetries
    BY DEF BaseInv, RowsInv
  <2>3. row[r].retries < MaxRetries /\ created' = created
    BY <1>2, <1>9
  <2> HIDE DEF t
  <2>4. \A q \in Rows :
          /\ row'[q].status = "absent" <=> row'[q].msg = NoMsg
          /\ row'[q].status # "absent" => row'[q].msg \in created'
          /\ row'[q].status = "sending" => row'[q].retries < MaxRetries
    BY <2>1, <2>2, <2>3
  <2>5. \A p, q \in Rows : row'[p].msg = row'[q].msg /\ row'[p].msg # NoMsg => p = q
    BY <2>1 DEF BaseInv, RowsInv
  <2>6. QED
    BY <2>4, <2>5 DEF RowsInv
<1>12. TasksInv'
  <2> SUFFICES ASSUME NEW k \in Lanes, NEW q \in Rows
               PROVE  /\ task'[k][q].pc # "idle" => task'[k][q].msg \in Msgs
                      /\ task'[k][q].accepted => task'[k][q].pc # "idle"
                      /\ task'[k][q].pc \in Holding <=> task'[k][q].token # NoToken
                      /\ task'[k][q].out = "ok" => task'[k][q].accepted
                      /\ task'[k][q].accepted /\ CountCap > 0
                           => accepts'[task'[k][q].msg] > 0
    BY DEF TasksInv
  <2>1. CASE k = l /\ q = r
    <3>1. task'[k][q] = t /\ accepts' = accepts
      BY <1>5, <1>9, <2>1
    <3>2. /\ task[l][r].out = "ok" => task[l][r].accepted
          /\ task[l][r].accepted /\ CountCap > 0 => accepts[task[l][r].msg] > 0
      BY DEF BaseInv, TasksInv
    <3>3. t.pc \in Holding /\ t.pc # "idle"
      BY <1>3 DEF Holding
    <3> HIDE DEF t
    <3>4. QED
      BY <1>1, <1>2, <1>3, <3>1, <3>2, <3>3
  <2>2. CASE ~(k = l /\ q = r)
    BY <1>5, <1>9, <2>2 DEF BaseInv, TasksInv
  <2>3. QED
    BY <2>1, <2>2
<1>13. TokensInv'
  <2>1. \A k \in Lanes, q \in Rows :
          task'[k][q].token = IF k = l /\ q = r THEN FreshToken ELSE task[k][q].token
    BY <1>3, <1>5
  <2>2. \A q \in Rows : row'[q].token = IF q = r THEN FreshToken ELSE row[q].token
    BY <1>7, <1>8
  <2>3. QED
    BY <1>1, <2>1, <2>2 DEF BaseInv, TokensInv
<1>14. QED
  BY <1>10, <1>11, <1>12, <1>13 DEF BaseInv

LEMMA TaskStepBase ==
  ASSUME BaseInv, stray' \subseteq StrayRec, NEW l \in Lanes, NEW r \in Rows, TaskStep(l, r)
  PROVE  BaseInv'
<1>1. /\ task[l][r] \in TaskRec
      /\ accepts \in [Msgs -> 0..CountCap] /\ sends \in [Msgs -> 0..CountCap]
      /\ task[l][r].pc # "idle" => task[l][r].msg \in Msgs
      /\ task[l][r].pc \in Holding <=> task[l][r].token # NoToken
      /\ task[l][r].out = "ok" => task[l][r].accepted
      /\ task[l][r].accepted /\ CountCap > 0 => accepts[task[l][r].msg] > 0
  BY DEF BaseInv, TypeOK, TasksInv
<1>2. CASE WinClaim(l, r)
  BY <1>2, WinClaimBase
<1>3. CASE LoseClaim(l, r)
  <2>1. "none" \in Outcomes
    BY DEF Outcomes
  <2>2. QED
    BY <1>3, <2>1, TaskEnds DEF LoseClaim
<1>4. CASE DropUnaddressed(l, r)
  <2>1. "terminal" \in Outcomes
    BY DEF Outcomes
  <2>2. QED
    BY <1>4, <2>1, TaskEnds DEF DropUnaddressed
<1>5. ASSUME NEW out \in Outcomes \ {"none"}, Return(l, r, out)
      PROVE  BaseInv'
  <2> DEFINE t == [task[l][r] EXCEPT !.pc = "returned", !.out = out]
  <2>1. /\ t \in TaskRec /\ t.token = task[l][r].token /\ t.msg = task[l][r].msg
        /\ t.pc = "returned" /\ t.out = out /\ t.accepted = task[l][r].accepted
    BY <1>1, <1>5 DEF TaskRec, Stages
  <2>2. /\ task' = [task EXCEPT ![l][r] = t] /\ UNCHANGED row
        /\ accepts' = accepts /\ sends' = sends
        /\ created' = created /\ interrupts' = interrupts
        /\ task[l][r].pc = "sending"
        /\ out = "ok" => task[l][r].accepted
    BY <1>5 DEF Return, history, Outcomes
  <2>3. "returned" \in Holding /\ "sending" \in Holding
    BY DEF Holding
  <2> HIDE DEF t
  <2>4. QED
    BY <1>1, <2>1, <2>2, <2>3, TaskChanges
<1>6. CASE TimeOut(l, r)
  <2>1. "none" \in Outcomes
    BY DEF Outcomes
  <2>2. QED
    BY <1>6, <2>1, TaskEnds DEF TimeOut
<1>7. ASSUME SendRaises(l, r) \/ ApplyRaises(l, r)
      PROVE  BaseInv'
  <2> DEFINE t == [task[l][r] EXCEPT !.pc = "raised"]
  <2>1. /\ t \in TaskRec /\ t.token = task[l][r].token /\ t.msg = task[l][r].msg
        /\ t.pc = "raised" /\ t.out = task[l][r].out /\ t.accepted = task[l][r].accepted
    BY <1>1 DEF TaskRec, Stages
  <2>2. /\ task' = [task EXCEPT ![l][r] = t]
        /\ accepts' = accepts /\ sends' = sends
        /\ created' = created /\ interrupts' = interrupts
        /\ task[l][r].pc \in {"sending", "returned"}
        /\ ApplyOutcome(l, r, task[l][r].out) \/ UNCHANGED row
    BY <1>7 DEF SendRaises, ApplyRaises, history
  <2>3. /\ "returned" \in Holding /\ "sending" \in Holding /\ "raised" \in Holding
        /\ task[l][r].out \in Outcomes
    BY <1>1 DEF Holding, TaskRec
  <2> HIDE DEF t
  <2>4. QED
    BY <1>1, <2>1, <2>2, <2>3, TaskChanges
<1>8. CASE Apply(l, r)
  <2>1. task[l][r].out \in Outcomes
    BY <1>1 DEF TaskRec
  <2>2. QED
    BY <1>8, <2>1, TaskEnds DEF Apply
<1>9. CASE ApplyAgain(l, r)
  <2> DEFINE out == IF task[l][r].out = "ok" THEN "ok" ELSE "failed"
  <2>1. out \in Outcomes
    BY DEF Outcomes
  <2>2. ApplyOutcome(l, r, out) \/ UNCHANGED row
    BY <1>9 DEF ApplyAgain
  <2> HIDE DEF out
  <2>3. QED
    BY <1>9, <2>1, <2>2, TaskEnds DEF ApplyAgain
<1>10. QED
  BY <1>2, <1>3, <1>4, <1>5, <1>6, <1>7, <1>8, <1>9 DEF TaskStep

LEMMA AcceptBase ==
  ASSUME BaseInv, stray' \subseteq StrayRec, NEW l \in Lanes, NEW r \in Rows, Accept(l, r)
  PROVE  BaseInv'
<1> DEFINE t == [task[l][r] EXCEPT !.accepted = TRUE]
<1>1. /\ task[l][r] \in TaskRec /\ task[l][r].pc = "sending" /\ task[l][r].msg \in Msgs
      /\ accepts \in [Msgs -> 0..CountCap] /\ sends \in [Msgs -> 0..CountCap]
      /\ task[l][r].pc \in Holding <=> task[l][r].token # NoToken
  BY DEF BaseInv, TypeOK, TasksInv, Accept
<1>2. /\ t \in TaskRec /\ t.token = task[l][r].token /\ t.msg = task[l][r].msg
      /\ t.pc = "sending" /\ t.accepted
  BY <1>1 DEF TaskRec
<1>3. /\ task' = [task EXCEPT ![l][r] = t] /\ UNCHANGED row /\ sends' = sends
      /\ created' = created /\ interrupts' = interrupts
      /\ accepts' = [accepts EXCEPT ![task[l][r].msg] = IF @ < CountCap THEN @ + 1 ELSE @]
  BY DEF Accept
<1>4. /\ accepts' \in [Msgs -> 0..CountCap]
      /\ \A m \in Msgs : accepts[m] > 0 => accepts'[m] > 0
      /\ CountCap > 0 => accepts'[task[l][r].msg] > 0
  BY <1>1, <1>3, ConstantsAssumption
<1>5. "none" \in Outcomes /\ "sending" \in Holding
  BY DEF Outcomes, Holding
<1> HIDE DEF t
<1>6. QED
  BY <1>1, <1>2, <1>3, <1>4, <1>5, TaskChanges

\* Tasks that are left alone, wiped, or listed anew hold no claim they did not hold.
LEMMA QuietTasks ==
  ASSUME BaseInv,
         \A k \in Lanes, q \in Rows :
           \/ task'[k][q] = task[k][q] \/ task'[k][q] = NoTask
           \/ \E m \in Msgs : task'[k][q] = Listed(m),
         accepts' = accepts
  PROVE  /\ TasksInv'
         /\ \A k \in Lanes, q \in Rows :
              /\ task'[k][q] \in TaskRec
              /\ task'[k][q].token \in {task[k][q].token, NoToken}
<1>1. /\ NoTask \in TaskRec /\ NoTask.pc = "idle" /\ NoTask.token = NoToken
      /\ ~NoTask.accepted /\ NoTask.out = "none"
  BY DEF NoTask, TaskRec, Stages, Outcomes
<1>2. \A m \in Msgs :
        /\ Listed(m) \in TaskRec /\ Listed(m).pc = "listed" /\ Listed(m).token = NoToken
        /\ Listed(m).msg = m /\ ~Listed(m).accepted /\ Listed(m).out = "none"
  BY DEF Listed, NoTask, TaskRec, Stages, Outcomes
<1>3. "idle" \notin Holding /\ "listed" \notin Holding
  BY DEF Holding
<1> SUFFICES ASSUME NEW k \in Lanes, NEW q \in Rows
             PROVE  /\ task'[k][q].pc # "idle" => task'[k][q].msg \in Msgs
                    /\ task'[k][q].accepted => task'[k][q].pc # "idle"
                    /\ task'[k][q].pc \in Holding <=> task'[k][q].token # NoToken
                    /\ task'[k][q].out = "ok" => task'[k][q].accepted
                    /\ task'[k][q].accepted /\ CountCap > 0
                         => accepts'[task'[k][q].msg] > 0
                    /\ task'[k][q] \in TaskRec
                    /\ task'[k][q].token \in {task[k][q].token, NoToken}
  BY DEF TasksInv
<1>4. CASE task'[k][q] = task[k][q]
  BY <1>4 DEF BaseInv, TasksInv, TypeOK
<1>5. CASE task'[k][q] = NoTask
  BY <1>1, <1>3, <1>5
<1>6. ASSUME NEW m \in Msgs, task'[k][q] = Listed(m)
      PROVE  /\ task'[k][q].pc = "listed" /\ task'[k][q].token = NoToken
             /\ task'[k][q].msg \in Msgs /\ ~task'[k][q].accepted
             /\ task'[k][q].out = "none" /\ task'[k][q] \in TaskRec
  BY <1>2, <1>6
<1>7. QED
  BY <1>3, <1>4, <1>5, <1>6

\* Rows that keep their message or vanish, and whose claims stand or end.
LEMMA QuietRows ==
  ASSUME BaseInv,
         row' \in [Rows -> RowRec],
         \A q \in Rows :
           \/ row'[q] = NoRow
           \/ /\ row'[q].msg = row[q].msg
              /\ row'[q].status = "absent" <=> row[q].status = "absent"
              /\ row'[q].token \in {row[q].token, NoToken}
              /\ row'[q].status = "sending" <=> row'[q].token # NoToken
              /\ row'[q].retries = row[q].retries,
         created \subseteq created'
  PROVE  /\ RowsInv'
         /\ \A q \in Rows : row'[q].token \in {row[q].token, NoToken}
         /\ \A q \in Rows : row'[q].status = "sending" <=> row'[q].token # NoToken
<1>1. NoRow.status = "absent" /\ NoRow.msg = NoMsg /\ NoRow.token = NoToken
  BY DEF NoRow
<1>2. \A q \in Rows : row'[q].token \in {row[q].token, NoToken}
  BY <1>1
<1>3. \A q \in Rows : row'[q].status = "sending" <=> row'[q].token # NoToken
  BY <1>1
<1>4. \A q \in Rows :
        /\ row[q].status = "absent" <=> row[q].msg = NoMsg
        /\ row[q].status # "absent" => row[q].msg \in created
        /\ row[q].status = "sending" => row[q].retries < MaxRetries
        /\ row[q].status = "sending" <=> row[q].token # NoToken
  BY DEF BaseInv, TypeOK, RowsInv
<1>5. \A q \in Rows :
        /\ row'[q].status = "absent" <=> row'[q].msg = NoMsg
        /\ row'[q].status # "absent" => row'[q].msg \in created'
        /\ row'[q].status = "sending" => row'[q].retries < MaxRetries
  <2> SUFFICES ASSUME NEW q \in Rows
               PROVE  /\ row'[q].status = "absent" <=> row'[q].msg = NoMsg
                      /\ row'[q].status # "absent" => row'[q].msg \in created'
                      /\ row'[q].status = "sending" => row'[q].retries < MaxRetries
    OBVIOUS
  <2>1. CASE row'[q] = NoRow
    BY <1>1, <2>1
  <2>2. CASE row'[q] # NoRow
    BY <1>4, <2>2
  <2>3. QED
    BY <2>1, <2>2
<1>6. \A q \in Rows : row'[q].msg \in {row[q].msg, NoMsg}
  BY <1>1
<1>7. \A p, q \in Rows : row'[p].msg = row'[q].msg /\ row'[p].msg # NoMsg => p = q
  BY <1>6 DEF BaseInv, RowsInv
<1>8. QED
  BY <1>2, <1>3, <1>5, <1>7 DEF RowsInv

\* A step that only wipes or lists tasks, and only ends claims, preserves BaseInv.
LEMMA QuietStep ==
  ASSUME BaseInv, stray' \subseteq StrayRec,
         row' \in [Rows -> RowRec],
         \A q \in Rows :
           \/ row'[q] = NoRow
           \/ /\ row'[q].msg = row[q].msg
              /\ row'[q].status = "absent" <=> row[q].status = "absent"
              /\ row'[q].token \in {row[q].token, NoToken}
              /\ row'[q].status = "sending" <=> row'[q].token # NoToken
              /\ row'[q].retries = row[q].retries,
         task' \in [Lanes -> [Rows -> TaskRec]],
         \A k \in Lanes, q \in Rows :
           \/ task'[k][q] = task[k][q] \/ task'[k][q] = NoTask
           \/ \E m \in Msgs : task'[k][q] = Listed(m),
         created \subseteq created', created' \subseteq Msgs,
         interrupts' \in 0..MaxInterrupts,
         UNCHANGED history
  PROVE  BaseInv'
<1>1. accepts' = accepts /\ sends' = sends
  BY DEF history
<1>2. /\ TasksInv'
      /\ \A k \in Lanes, q \in Rows : task'[k][q].token \in {task[k][q].token, NoToken}
  BY <1>1, QuietTasks
<1>3. /\ RowsInv'
      /\ \A q \in Rows : row'[q].token \in {row[q].token, NoToken}
      /\ \A q \in Rows : row'[q].status = "sending" <=> row'[q].token # NoToken
  BY QuietRows
<1>4. TokensInv'
  BY <1>2, <1>3, TokensShrink DEF BaseInv
<1>5. TypeOK'
  BY <1>1, <1>3 DEF BaseInv, TypeOK
<1>6. QED
  BY <1>2, <1>3, <1>4, <1>5 DEF BaseInv

LEMMA NoTaskType == NoTask \in TaskRec
BY DEF NoTask, TaskRec, Stages, Outcomes

LEMMA NoRowType == NoRow \in RowRec
BY ConstantsAssumption DEF NoRow, RowRec, Statuses

LEMMA ReleasedRow ==
  ASSUME NEW rec \in RowRec, NEW live, rec.status = "sending" <=> rec.token # NoToken
  PROVE  /\ Released(rec, live) \in RowRec
         /\ Released(rec, live).msg = rec.msg
         /\ Released(rec, live).retries = rec.retries
         /\ \/ Released(rec, live) = rec
            \/ /\ rec.status = "sending" /\ rec.ripe /\ rec.token \notin live
               /\ Released(rec, live).status = "pending"
               /\ Released(rec, live).token = NoToken
<1> DEFINE new == [rec EXCEPT !.status = "pending", !.token = NoToken]
<1>1. /\ new \in RowRec /\ new.msg = rec.msg /\ new.retries = rec.retries
      /\ new.status = "pending" /\ new.token = NoToken
  BY DEF RowRec, Statuses
<1>2. Released(rec, live) = IF rec.status = "sending" /\ rec.ripe /\ rec.token \notin live
                              THEN new ELSE rec
  BY DEF Released
<1> HIDE DEF new
<1>3. QED
  BY <1>1, <1>2

LEMMA AbandonedRow ==
  ASSUME NEW rec \in RowRec
  PROVE  /\ Abandoned(rec) \in RowRec
         /\ Abandoned(rec).msg = rec.msg
         /\ Abandoned(rec).retries = rec.retries
         /\ Abandoned(rec).token = rec.token
         /\ \/ Abandoned(rec) = rec
            \/ /\ rec.status = "pending" /\ rec.retries >= MaxRetries
               /\ Abandoned(rec).status = "abandoned"
<1> DEFINE new == [rec EXCEPT !.status = "abandoned"]
<1>1. /\ new \in RowRec /\ new.msg = rec.msg /\ new.retries = rec.retries
      /\ new.status = "abandoned" /\ new.token = rec.token
  BY DEF RowRec, Statuses, Terminal
<1>2. Abandoned(rec) = IF rec.status = "pending" /\ rec.retries >= MaxRetries
                         THEN new ELSE rec
  BY DEF Abandoned
<1> HIDE DEF new
<1>3. QED
  BY <1>1, <1>2

LEMMA RevokedRow ==
  ASSUME NEW rec \in RowRec
  PROVE  LET new == [rec EXCEPT !.status = "revoked"]
         IN  /\ new \in RowRec /\ new.msg = rec.msg /\ new.retries = rec.retries
             /\ new.token = rec.token /\ new.status = "revoked"
BY DEF RowRec, Statuses, Terminal

LEMMA AroundBase ==
  ASSUME BaseInv, stray' \subseteq StrayRec,
         \/ \E l \in Lanes : Cancel(l)
         \/ \E p \in Procs : Crash(p)
         \/ \E r \in Rows : Ripen(r) \/ Prune(r)
         \/ \E T : RevokeHeartbeats(T)
         \/ \E t \in Topics : DeleteTopic(t)
  PROVE  BaseInv'
<1>1. /\ row \in [Rows -> RowRec] /\ task \in [Lanes -> [Rows -> TaskRec]]
      /\ created \subseteq Msgs /\ interrupts \in 0..MaxInterrupts
      /\ \A q \in Rows : row[q].status = "sending" <=> row[q].token # NoToken
  BY DEF BaseInv, TypeOK
<1>2. ASSUME NEW l \in Lanes, Cancel(l)
      PROVE  BaseInv'
  <2>1. /\ row' = row /\ created' = created /\ UNCHANGED history
        /\ interrupts' \in 0..MaxInterrupts
    BY <1>1, <1>2, ConstantsAssumption DEF Cancel
  <2>2. task' = [task EXCEPT ![l] = [r \in Rows |-> NoTask]]
    BY <1>2 DEF Cancel
  <2>3. task' \in [Lanes -> [Rows -> TaskRec]]
    BY <1>1, <2>2, NoTaskType
  <2>4. \A k \in Lanes, q \in Rows : task'[k][q] = task[k][q] \/ task'[k][q] = NoTask
    BY <1>1, <2>2
  <2>5. QED
    BY <1>1, <2>1, <2>3, <2>4, QuietStep
<1>3. ASSUME NEW p \in Procs, Crash(p)
      PROVE  BaseInv'
  <2>1. /\ row' = row /\ created' = created /\ UNCHANGED history
        /\ interrupts' \in 0..MaxInterrupts
    BY <1>1, <1>3, ConstantsAssumption DEF Crash
  <2>2. task' = [l \in Lanes |-> IF l[1] = p THEN [r \in Rows |-> NoTask] ELSE task[l]]
    BY <1>3 DEF Crash
  <2>3. task' \in [Lanes -> [Rows -> TaskRec]]
    BY <1>1, <2>2, NoTaskType
  <2>4. \A k \in Lanes, q \in Rows : task'[k][q] = task[k][q] \/ task'[k][q] = NoTask
    BY <1>1, <2>2
  <2>5. QED
    BY <1>1, <2>1, <2>3, <2>4, QuietStep
<1>4. ASSUME NEW r \in Rows, Ripen(r)
      PROVE  BaseInv'
  <2>1. row' = [row EXCEPT ![r].ripe = TRUE] /\ UNCHANGED <<task, created, interrupts, history>>
    BY <1>4 DEF Ripen
  <2>2. /\ row' \in [Rows -> RowRec]
        /\ \A q \in Rows :
             /\ row'[q].msg = row[q].msg /\ row'[q].status = row[q].status
             /\ row'[q].token = row[q].token /\ row'[q].retries = row[q].retries
    <3>1. row[r] \in RowRec /\ [row[r] EXCEPT !.ripe = TRUE] \in RowRec
      BY <1>1 DEF RowRec
    <3>2. row' \in [Rows -> RowRec]
      BY <1>1, <2>1, <3>1
    <3>3. ASSUME NEW q \in Rows
          PROVE  /\ row'[q].msg = row[q].msg /\ row'[q].status = row[q].status
                 /\ row'[q].token = row[q].token /\ row'[q].retries = row[q].retries
      BY <1>1, <2>1, <3>1 DEF RowRec
    <3> QED
      BY <3>2, <3>3
  <2>3. QED
    BY <1>1, <2>1, <2>2, QuietStep
<1>5. ASSUME NEW r \in Rows, Prune(r)
      PROVE  BaseInv'
  <2>1. row' = [row EXCEPT ![r] = NoRow] /\ UNCHANGED <<task, created, interrupts, history>>
    BY <1>5 DEF Prune
  <2>2. /\ row' \in [Rows -> RowRec]
        /\ \A q \in Rows : row'[q] = NoRow \/ row'[q] = row[q]
    BY <1>1, <2>1, NoRowType
  <2>3. QED
    BY <1>1, <2>1, <2>2, QuietStep
<1>6. ASSUME NEW T, RevokeHeartbeats(T)
      PROVE  BaseInv'
  <2>1. UNCHANGED <<task, created, interrupts, history>>
    BY <1>6 DEF RevokeHeartbeats
  <2>2. \A q \in Rows :
          \/ row'[q] = row[q]
          \/ row[q].status = "pending" /\ row'[q] = [row[q] EXCEPT !.status = "revoked"]
    BY <1>6 DEF RevokeHeartbeats
  <2>3. \A q \in Rows :
          /\ row'[q] \in RowRec
          /\ row'[q].msg = row[q].msg /\ row'[q].token = row[q].token
          /\ row'[q].retries = row[q].retries
          /\ \/ row'[q].status = row[q].status
             \/ row[q].status = "pending" /\ row'[q].status = "revoked"
    <3> SUFFICES ASSUME NEW q \in Rows, row'[q] # row[q]
                 PROVE  /\ row'[q] \in RowRec
                        /\ row'[q].msg = row[q].msg /\ row'[q].token = row[q].token
                        /\ row'[q].retries = row[q].retries
                        /\ row[q].status = "pending" /\ row'[q].status = "revoked"
      BY <1>1
    <3> DEFINE new == [row[q] EXCEPT !.status = "revoked"]
    <3>1. /\ new \in RowRec /\ new.msg = row[q].msg /\ new.token = row[q].token
          /\ new.retries = row[q].retries /\ new.status = "revoked"
      BY <1>1, RevokedRow
    <3>2. row[q].status = "pending" /\ row'[q] = new
      BY <2>2
    <3> HIDE DEF new
    <3>3. QED
      BY <3>1, <3>2
  <2>4. row' \in [Rows -> RowRec]
    BY <1>6, <2>3 DEF RevokeHeartbeats
  <2>5. QED
    BY <1>1, <2>1, <2>3, <2>4, QuietStep
<1>7. ASSUME NEW t \in Topics, DeleteTopic(t)
      PROVE  BaseInv'
  <2>1. /\ UNCHANGED <<task, interrupts, history>>
        /\ created \subseteq created' /\ created' \subseteq Msgs
    BY <1>1, <1>7 DEF DeleteTopic
  <2>2. /\ row' \in [Rows -> RowRec]
        /\ \A q \in Rows : row'[q] = NoRow \/ row'[q] = row[q]
    BY <1>1, <1>7, NoRowType DEF DeleteTopic
  <2>3. QED
    BY <1>1, <2>1, <2>2, QuietStep
<1>8. QED
  BY <1>2, <1>3, <1>4, <1>5, <1>6, <1>7

LEMMA DrainBase ==
  ASSUME BaseInv, stray' \subseteq StrayRec, NEW p \in Procs, Drain(p)
  PROVE  BaseInv'
<1> DEFINE table == [r \in Rows |-> Abandoned(Released(row[r], LiveTokens(p)))]
           l == <<p, "drain">>
           batch == DueBatch(table)
<1>1. /\ row' = table /\ UNCHANGED <<created, interrupts, history>>
      /\ task' = [task EXCEPT ![l] =
                    [r \in Rows |-> IF r \in batch THEN Listed(table[r].msg) ELSE NoTask]]
  BY DEF Drain
<1>2. /\ row \in [Rows -> RowRec] /\ task \in [Lanes -> [Rows -> TaskRec]]
      /\ created \subseteq Msgs /\ interrupts \in 0..MaxInterrupts
      /\ \A q \in Rows : row[q].status = "sending" <=> row[q].token # NoToken
      /\ \A q \in Rows : row[q].status # "absent" => row[q].msg \in created
  BY DEF BaseInv, TypeOK, RowsInv
<1>3. ASSUME NEW q \in Rows
      PROVE  /\ table[q] \in RowRec
             /\ table[q].msg = row[q].msg /\ table[q].retries = row[q].retries
             /\ table[q].status = "absent" <=> row[q].status = "absent"
             /\ table[q].token \in {row[q].token, NoToken}
             /\ table[q].status = "sending" <=> table[q].token # NoToken
  <2> DEFINE rel == Released(row[q], LiveTokens(p))
  <2>1. /\ rel \in RowRec /\ rel.msg = row[q].msg /\ rel.retries = row[q].retries
        /\ \/ rel = row[q]
           \/ /\ row[q].status = "sending" /\ rel.status = "pending"
              /\ rel.token = NoToken
    BY <1>2, ReleasedRow
  <2> HIDE DEF rel
  <2>2. table[q] = Abandoned(rel)
    BY DEF rel
  <2>3. /\ Abandoned(rel) \in RowRec /\ Abandoned(rel).msg = rel.msg
        /\ Abandoned(rel).retries = rel.retries /\ Abandoned(rel).token = rel.token
        /\ \/ Abandoned(rel).status = rel.status
           \/ rel.status = "pending" /\ Abandoned(rel).status = "abandoned"
    BY <2>1, AbandonedRow
  <2>4. QED
    BY <1>2, <2>1, <2>2, <2>3
<1>4. \A q \in batch : q \in Rows /\ table[q].status = "pending"
  BY DEF DueBatch, Due
<1>5. \A q \in batch : table[q].msg \in Msgs
  BY <1>2, <1>3, <1>4
<1>6. table \in [Rows -> RowRec]
  BY <1>3
<1>7. \A m \in Msgs : Listed(m) \in TaskRec
  BY DEF Listed, NoTask, TaskRec, Stages, Outcomes
<1> HIDE DEF table, l, batch
<1>8. \A k \in Lanes, q \in Rows :
        \/ task'[k][q] = task[k][q] \/ task'[k][q] = NoTask
        \/ \E m \in Msgs : task'[k][q] = Listed(m)
  BY <1>1, <1>2, <1>5
<1>9. task' \in [Lanes -> [Rows -> TaskRec]]
  BY <1>1, <1>2, <1>5, <1>7, NoTaskType
<1>10. QED
  BY <1>1, <1>2, <1>3, <1>6, <1>8, <1>9, QuietStep

\* A new row is pending, unclaimed, and names its message.
LEMMA NewRowFacts ==
  ASSUME NEW m \in Msgs
  PROVE  /\ NewRow(m) \in RowRec
         /\ NewRow(m).status = "pending" /\ NewRow(m).msg = m /\ NewRow(m).token = NoToken
<1> DEFINE new == [NoRow EXCEPT !.status = "pending", !.msg = m, !.ripe = TRUE]
<1>1. NoRow \in RowRec /\ NoRow.token = NoToken
  BY NoRowType DEF NoRow
<1>2. /\ new \in RowRec /\ new.status = "pending" /\ new.msg = m
      /\ new.token = NoRow.token
  BY <1>1 DEF RowRec, Statuses
<1>3. NewRow(m) = new
  BY DEF NewRow
<1> HIDE DEF new
<1>4. QED
  BY <1>1, <1>2, <1>3

\* Ids chosen by an injection name one message each.
LEMMA IdsName ==
  ASSUME NEW S, NEW T, NEW id \in Injection(S, T), NEW r, \E m \in S : id[m] = r
  PROVE  LET a == CHOOSE m \in S : id[m] = r
         IN  a \in S /\ id[a] = r
OBVIOUS

LEMMA CommitBase ==
  ASSUME BaseInv, stray' \subseteq StrayRec, NEW l \in Lanes, NEW S \in SUBSET Msgs, CommitIntents(l, S)
  PROVE  BaseInv'
<1> DEFINE Names(id) == {id[m] : m \in S}
           At(id, r) == CHOOSE m \in S : id[m] = r
<1>1. PICK id \in Injection(S, Rows) :
        /\ AreNextIds(Names(id))
        /\ row' = [r \in Rows |-> IF r \in Names(id) THEN NewRow(At(id, r)) ELSE row[r]]
        /\ task' = [task EXCEPT ![l] =
                      [r \in Rows |-> IF r \in Names(id) THEN Listed(At(id, r)) ELSE NoTask]]
  BY DEF CommitIntents
<1> DEFINE ids == Names(id)
           New(r) == At(id, r)
<1>2. /\ AreNextIds(ids)
      /\ row' = [r \in Rows |-> IF r \in ids THEN NewRow(New(r)) ELSE row[r]]
      /\ task' = [task EXCEPT ![l] =
                    [r \in Rows |-> IF r \in ids THEN Listed(New(r)) ELSE NoTask]]
  BY <1>1
<1>3. /\ row \in [Rows -> RowRec] /\ task \in [Lanes -> [Rows -> TaskRec]]
      /\ created \subseteq Msgs
      /\ \A q \in Rows : row[q].status = "sending" <=> row[q].token # NoToken
  BY DEF BaseInv, TypeOK
<1>4. /\ S \cap created = {} /\ created' = created \cup S
      /\ interrupts' = interrupts /\ sends' = sends /\ accepts' = accepts
  BY DEF CommitIntents, history
<1>5. /\ \A r \in ids : New(r) \in S /\ New(r) \in Msgs /\ id[New(r)] = r
      /\ ids \subseteq Rows
  BY IdsName DEF Injection
<1>6. \A r \in ids : row[r].status = "absent"
  <2>1. \A r \in Rows : ~(r < r)
    BY ConstantsAssumption DEF Rows
  <2> HIDE DEF ids
  <2>2. QED
    BY <1>2, <1>5, <2>1 DEF AreNextIds
<1>7. \A m \in Msgs : Listed(m) \in TaskRec
  BY DEF Listed, NoTask, TaskRec, Stages, Outcomes
<1> HIDE DEF New, ids
<1>8. \A q \in Rows :
        /\ q \in ids => /\ row'[q] = NewRow(New(q)) /\ row'[q].status = "pending"
                        /\ row'[q].msg = New(q) /\ row'[q].token = NoToken
        /\ q \notin ids => row'[q] = row[q]
  BY <1>2, <1>5, NewRowFacts
<1>9. row' \in [Rows -> RowRec]
  BY <1>2, <1>3, <1>5, NewRowFacts
<1>10. \A k \in Lanes, q \in Rows :
         \/ task'[k][q] = task[k][q] \/ task'[k][q] = NoTask
         \/ \E m \in Msgs : task'[k][q] = Listed(m)
  BY <1>2, <1>3, <1>5
<1>11. task' \in [Lanes -> [Rows -> TaskRec]]
  BY <1>2, <1>3, <1>5, <1>7, NoTaskType
<1>12. TypeOK'
  <2>1. \A q \in Rows : row'[q].status = "sending" <=> row'[q].token # NoToken
    BY <1>3, <1>8
  <2>2. QED
    BY <1>4, <1>9, <1>11, <2>1 DEF BaseInv, TypeOK
<1>13. RowsInv'
  <2>1. \A q \in Rows :
          /\ row[q].status = "absent" <=> row[q].msg = NoMsg
          /\ row[q].status # "absent" => row[q].msg \in created
          /\ row[q].status = "sending" => row[q].retries < MaxRetries
    BY DEF BaseInv, RowsInv
  <2>2. NoMsg \notin Msgs
    BY ConstantsAssumption
  <2>3. \A q \in Rows :
          /\ row'[q].status = "absent" <=> row'[q].msg = NoMsg
          /\ row'[q].status # "absent" => row'[q].msg \in created'
          /\ row'[q].status = "sending" => row'[q].retries < MaxRetries
    BY <1>4, <1>5, <1>8, <2>1, <2>2
  <2>4. ASSUME NEW p \in Rows, NEW q \in Rows, row'[p].msg = row'[q].msg,
               row'[p].msg # NoMsg
        PROVE  p = q
    <3>1. CASE p \in ids /\ q \in ids
      BY <1>5, <1>8, <2>4, <3>1
    <3>2. CASE p \notin ids /\ q \notin ids
      BY <1>8, <2>4, <3>2 DEF BaseInv, RowsInv
    <3>3. CASE (p \in ids /\ q \notin ids) \/ (p \notin ids /\ q \in ids)
      BY <1>4, <1>5, <1>8, <2>1, <2>4, <3>3
    <3>4. QED
      BY <3>1, <3>2, <3>3
  <2>5. QED
    BY <2>3, <2>4 DEF RowsInv
<1>14. /\ TasksInv'
       /\ \A k \in Lanes, q \in Rows : task'[k][q].token \in {task[k][q].token, NoToken}
  BY <1>4, <1>10, QuietTasks
<1>15. TokensInv'
  BY <1>8, <1>14, TokensShrink DEF BaseInv
<1>16. QED
  BY <1>12, <1>13, <1>14, <1>15 DEF BaseInv

LEMMA InitBase == Init => BaseInv
<1> SUFFICES ASSUME Init PROVE BaseInv
  OBVIOUS
<1>1. PICK id \in Injection(Legacy, Rows), n \in [Legacy -> 0..MaxRetries] :
        row = [r \in Rows |->
                 IF \E m \in Legacy : id[m] = r
                   THEN LET m == CHOOSE m \in Legacy : id[m] = r
                        IN [NewRow(m) EXCEPT !.retries = n[m]]
                   ELSE NoRow]
  BY DEF Init
<1>2. /\ task = [l \in Lanes |-> [r \in Rows |-> NoTask]]
      /\ created = Legacy /\ interrupts = 0 /\ stray = {}
      /\ sends = [m \in Msgs |-> 0] /\ accepts = [m \in Msgs |-> 0]
  BY DEF Init
<1>3. Legacy \subseteq Msgs /\ NoMsg \notin Msgs
  BY ConstantsAssumption
<1>4. ASSUME NEW r \in Rows
      PROVE  \/ row[r] = NoRow
             \/ \E m \in Legacy :
                  /\ id[m] = r /\ row[r] \in RowRec
                  /\ row[r].status = "pending" /\ row[r].msg = m /\ row[r].token = NoToken
  <2>1. CASE \E m \in Legacy : id[m] = r
    <3> DEFINE m == CHOOSE a \in Legacy : id[a] = r
    <3>1. m \in Legacy /\ id[m] = r
      BY <2>1
    <3>2. row[r] = [NewRow(m) EXCEPT !.retries = n[m]]
      BY <1>1, <2>1
    <3> HIDE DEF m
    <3>3. n[m] \in 0..MaxRetries /\ m \in Msgs
      BY <1>3, <3>1
    <3> DEFINE new == [NewRow(m) EXCEPT !.retries = n[m]]
    <3>4. /\ new \in RowRec /\ new.status = "pending" /\ new.msg = m /\ new.token = NoToken
      BY <3>3, NewRowFacts DEF RowRec
    <3> HIDE DEF new
    <3>5. row[r] = new
      BY <3>2 DEF new
    <3>6. QED
      BY <3>1, <3>4, <3>5
  <2>2. CASE ~ \E m \in Legacy : id[m] = r
    BY <1>1, <2>2
  <2>3. QED
    BY <2>1, <2>2
<1>5. NoRow \in RowRec /\ NoRow.status = "absent" /\ NoRow.msg = NoMsg /\ NoRow.token = NoToken
  BY NoRowType DEF NoRow
<1>6. \A l \in Lanes, r \in Rows :
        /\ task[l][r].pc = "idle" /\ task[l][r].token = NoToken /\ task[l][r].out = "none"
        /\ ~task[l][r].accepted
  BY <1>2 DEF NoTask
<1>7. TypeOK
  <2>1. row \in [Rows -> RowRec]
    BY <1>1, <1>4, <1>5
  <2>2. \A r \in Rows : row[r].status = "sending" <=> row[r].token # NoToken
    BY <1>4, <1>5
  <2>3. QED
    BY <1>2, <1>3, <2>1, <2>2, NoTaskType, ConstantsAssumption DEF TypeOK
<1>8. RowsInv
  <2>1. \A r \in Rows :
          /\ row[r].status = "absent" <=> row[r].msg = NoMsg
          /\ row[r].status # "absent" => row[r].msg \in created
          /\ row[r].status # "sending"
    BY <1>2, <1>3, <1>4, <1>5
  <2>2. \A q, r \in Rows : row[q].msg = row[r].msg /\ row[q].msg # NoMsg => q = r
    BY <1>4, <1>5
  <2>3. QED
    BY <2>1, <2>2 DEF RowsInv
<1>9. TasksInv
  BY <1>6 DEF TasksInv, Holding
<1>10. TokensInv
  BY <1>6 DEF TokensInv
<1>11. QED
  BY <1>7, <1>8, <1>9, <1>10 DEF BaseInv

LEMMA StutterBase == BaseInv /\ UNCHANGED vars => BaseInv'
BY DEF BaseInv, TypeOK, RowsInv, TasksInv, TokensInv, vars

\* A task that holds a claim, as the thread it leaves behind.
Leaving(k, q) ==
  [proc |-> k[1], msg |-> task[k][q].msg, token |-> task[k][q].token,
   accepted |-> task[k][q].accepted]

Delivered(s) == [s EXCEPT !.accepted = TRUE]

\* A lane stops waiting for some of its sends.
Leave(l, S) ==
  /\ TimesOut /\ UNCHANGED row
  /\ \A q \in S : task'[l][q] = NoTask
  /\ stray' = stray \cup LeftBehind(l, S)

\* What a step does to the threads: some end, one delivers, or a lane leaves some behind.
StrayStep ==
  \/ stray' \subseteq stray
  \/ \E s \in stray : stray' = (stray \ {s}) \cup {Delivered(s)}
  \/ \E l \in Lanes, S \in SUBSET Rows : Leave(l, S)

LEMMA TaskStepStrays ==
  ASSUME BaseInv, NEW l \in Lanes, NEW r \in Rows, TaskStep(l, r) \/ Accept(l, r)
  PROVE  StrayStep
<1>1. CASE TimeOut(l, r)
  <2>1. task \in [Lanes -> [Rows -> TaskRec]]
    BY DEF BaseInv, TypeOK
  <2>2. Leave(l, {r})
    BY <1>1, <2>1 DEF TimeOut, Leave
  <2>3. {r} \in SUBSET Rows
    OBVIOUS
  <2> QED
    BY <2>2, <2>3 DEF StrayStep
<1>2. CASE ~TimeOut(l, r)
  <2>1. UNCHANGED stray
    BY <1>2 DEF TaskStep, Accept, WinClaim, LoseClaim, DropUnaddressed, Return, SendRaises,
         Apply, ApplyRaises, ApplyAgain
  <2> QED
    BY <2>1 DEF StrayStep
<1> QED
  BY <1>1, <1>2

LEMMA NextStrays ==
  ASSUME BaseInv, Next
  PROVE  StrayStep
<1>1. CASE \E l \in Lanes, r \in Rows : TaskStep(l, r) \/ Accept(l, r)
  BY <1>1, TaskStepStrays
<1>2. ASSUME NEW l \in Lanes, Cancel(l) PROVE StrayStep
  <2>1. task \in [Lanes -> [Rows -> TaskRec]]
    BY DEF BaseInv, TypeOK
  <2>2. UNCHANGED row /\ \A q \in Rows : task'[l][q] = NoTask
    BY <1>2, <2>1 DEF Cancel
  <2>3. CASE TimesOut
    <3>1. Leave(l, Rows)
      BY <1>2, <2>2, <2>3 DEF Cancel, Leave
    <3> QED
      BY <3>1 DEF StrayStep
  <2>4. CASE ~TimesOut
    BY <1>2, <2>4 DEF Cancel, StrayStep
  <2> QED
    BY <2>3, <2>4
<1>3. CASE \E s \in stray : LateAccept(s)
  BY <1>3 DEF LateAccept, StrayStep, Delivered
<1>4. CASE (\E s \in stray : LateEnd(s)) \/ \E p \in Procs : Crash(p)
  BY <1>4 DEF LateEnd, Crash, StrayStep
<1>5. CASE \/ \E l \in Lanes, S \in SUBSET Msgs : CommitIntents(l, S)
           \/ \E p \in Procs : Drain(p)
           \/ \E r \in Rows : Ripen(r) \/ Prune(r)
           \/ \E T : RevokeHeartbeats(T)
           \/ \E t \in Topics : DeleteTopic(t)
  <2>1. UNCHANGED stray
    BY <1>5 DEF CommitIntents, Drain, Ripen, Prune, RevokeHeartbeats, DeleteTopic
  <2> QED
    BY <2>1 DEF StrayStep
<1> QED
  BY <1>1, <1>2, <1>3, <1>4, <1>5 DEF Next

\* Where a thread of the next state comes from.
Continues(s) ==
  \E t \in stray : s.msg = t.msg /\ s.token = t.token /\ s \in {t, Delivered(t)}

Left(s) ==
  \E k \in Lanes, q \in Rows :
    /\ s = Leaving(k, q) /\ task[k][q].pc = "sending"
    /\ TimesOut /\ task'[k][q] = NoTask /\ UNCHANGED row

LEMMA StrayOrigin ==
  ASSUME BaseInv, StrayStep
  PROVE  \A s \in stray' : Continues(s) \/ Left(s)
<1>1. CASE stray' \subseteq stray
  BY <1>1 DEF Continues
<1>2. ASSUME NEW u \in stray, stray' = (stray \ {u}) \cup {Delivered(u)}
      PROVE  \A s \in stray' : Continues(s)
  <2>1. u \in StrayRec
    BY DEF BaseInv, TypeOK
  <2>2. Delivered(u).msg = u.msg /\ Delivered(u).token = u.token
    BY <2>1 DEF Delivered, StrayRec
  <2> QED
    BY <1>2, <2>2 DEF Continues
<1>3. ASSUME NEW l \in Lanes, NEW S \in SUBSET Rows, Leave(l, S)
      PROVE  \A s \in stray' : Continues(s) \/ Left(s)
  <2> SUFFICES ASSUME NEW s \in LeftBehind(l, S) PROVE Left(s)
    BY <1>3 DEF Leave, Continues
  <2>1. PICK q \in S : task[l][q].pc = "sending" /\ s = Leaving(l, q)
    BY DEF LeftBehind, Leaving
  <2> QED
    BY <1>3, <2>1 DEF Leave, Left
<1> QED
  BY <1>1, <1>2, <1>3 DEF StrayStep

LEMMA StrayTypes ==
  ASSUME BaseInv, StrayStep
  PROVE  stray' \subseteq StrayRec
<1> SUFFICES ASSUME NEW s \in stray' PROVE s \in StrayRec
  OBVIOUS
<1>1. CASE Continues(s)
  BY <1>1 DEF Continues, Delivered, BaseInv, TypeOK, StrayRec
<1>2. ASSUME NEW k \in Lanes, NEW q \in Rows, s = Leaving(k, q), task[k][q].pc = "sending"
      PROVE  s \in StrayRec
  <2>1. task[k][q] \in TaskRec /\ task[k][q].msg \in Msgs /\ task[k][q].token # NoToken
    BY <1>2 DEF BaseInv, TypeOK, TasksInv, Holding
  <2>2. k[1] \in Procs
    BY DEF Lanes
  <2> QED
    BY <1>2, <2>1, <2>2 DEF Leaving, TaskRec, StrayRec
<1> QED
  BY <1>1, <1>2, StrayOrigin DEF Left

\* A thread nobody waits for touches neither the table nor a task.
LEMMA LateBase ==
  ASSUME BaseInv, stray' \subseteq StrayRec, NEW s \in stray, LateAccept(s) \/ LateEnd(s)
  PROVE  BaseInv'
<1>1. /\ UNCHANGED <<row, task, created, interrupts, sends>>
      /\ accepts' = accepts
           \/ accepts' = [accepts EXCEPT ![s.msg] = IF @ < CountCap THEN @ + 1 ELSE @]
  BY DEF LateAccept, LateEnd, history
<1>2. accepts \in [Msgs -> 0..CountCap] /\ CountCap \in Nat
  BY ConstantsAssumption DEF BaseInv, TypeOK
<1>3. accepts' \in [Msgs -> 0..CountCap] /\ \A m \in Msgs : accepts[m] > 0 => accepts'[m] > 0
  BY <1>1, <1>2
<1>4. TypeOK'
  BY <1>1, <1>3 DEF BaseInv, TypeOK
<1>5. \A l \in Lanes, r \in Rows : task[l][r].accepted => task[l][r].msg \in Msgs
  BY DEF BaseInv, TasksInv
<1>6. TasksInv'
  BY <1>1, <1>3, <1>5 DEF BaseInv, TasksInv
<1>7. RowsInv' /\ TokensInv'
  BY <1>1 DEF BaseInv, RowsInv, TokensInv
<1> QED
  BY <1>4, <1>6, <1>7 DEF BaseInv

LEMMA NextBase == BaseInv /\ [Next]_vars => BaseInv'
<1> SUFFICES ASSUME BaseInv, Next PROVE BaseInv'
  BY StutterBase
<1>0. stray' \subseteq StrayRec
  BY NextStrays, StrayTypes
<1>1. CASE \E l \in Lanes, S \in SUBSET Msgs : CommitIntents(l, S)
  BY <1>0, <1>1, CommitBase
<1>2. CASE \E p \in Procs : Drain(p)
  BY <1>0, <1>2, DrainBase
<1>3. CASE \E l \in Lanes, r \in Rows : TaskStep(l, r)
  BY <1>0, <1>3, TaskStepBase
<1>4. CASE \E l \in Lanes, r \in Rows : Accept(l, r)
  BY <1>0, <1>4, AcceptBase
<1>5. CASE \/ \E l \in Lanes : Cancel(l)
           \/ \E p \in Procs : Crash(p)
           \/ \E r \in Rows : Ripen(r) \/ Prune(r)
           \/ \E T : RevokeHeartbeats(T)
           \/ \E t \in Topics : DeleteTopic(t)
  BY <1>0, <1>5, AroundBase
<1>6. CASE \E s \in stray : LateAccept(s) \/ LateEnd(s)
  BY <1>0, <1>6, LateBase
<1> QED
  BY <1>1, <1>2, <1>3, <1>4, <1>5, <1>6 DEF Next

LEMMA BaseAlways == Spec => []BaseInv
BY InitBase, NextBase, PTL DEF Spec

\* In every reachable state of every instance a row carries a claim token exactly while
\* it is 'sending', and every variable is in its range.
THEOREM TypeCorrect == Spec => []TypeOK
<1>1. BaseInv => TypeOK
  BY DEF BaseInv
<1>2. QED
  BY <1>1, BaseAlways, PTL

-----------------------------------------------------------------------------
(* What one step may do to a row, and to a task. *)

Kept(r) == row'[r] = row[r]

\* A row is deleted with its topic, or pruned when no batch names it.
Gone(r) ==
  /\ row'[r] = NoRow
  /\ \/ "topic_delete" \in Faults
     \/ /\ row[r].status \in Terminal /\ UNCHANGED task
        /\ \A l \in Lanes : task[l][r].pc = "idle"

Born(r) == row[r].status = "absent" /\ row'[r].status = "pending"

\* A row of the queue is claimed, revoked, abandoned, or becomes due.
Queued(r) ==
  /\ row[r].status = "pending"
  /\ row'[r].status \in {"pending", "sending", "abandoned", "revoked"}
  /\ row'[r].msg = row[r].msg /\ row'[r].retries = row[r].retries
  /\ row'[r].status = "abandoned" => row[r].retries >= MaxRetries

\* A claim grows stale.
Aged(r) ==
  /\ row[r].status = "sending" /\ row'[r].status = "sending"
  /\ row'[r].token = row[r].token /\ row'[r].msg = row[r].msg
  /\ row'[r].retries = row[r].retries
  /\ \/ "clock_step" \in Faults
     \/ row[r].token \notin StrayTokens /\ \A p \in Procs : row[r].token \notin LiveTokens(p)

\* A stale claim is released by a process that does not know it as live.
Rearmed(r) ==
  /\ row[r].status = "sending" /\ row[r].ripe /\ row'[r].status = "pending"
  /\ row'[r].msg = row[r].msg /\ row'[r].retries = row[r].retries
  /\ \E p \in Procs : row[r].token \notin LiveTokens(p)

\* The task that holds the claim settles it.
Owned(r) ==
  \E l \in Lanes :
    /\ row[r].status = "sending" /\ row[r].token = task[l][r].token
    /\ task[l][r].pc \in Holding
    /\ task'[l][r] # task[l][r] /\ task'[l][r].pc \notin Live
    /\ row'[r].msg = row[r].msg
    /\ row'[r].status \in {"sent", "abandoned", "pending"}
    /\ row'[r].status = "sent" => task[l][r].out = "ok"

RowStep(r) == Kept(r) \/ Gone(r) \/ Born(r) \/ Queued(r) \/ Aged(r) \/ Rearmed(r) \/ Owned(r)

LEMMA OwnerSettles ==
  ASSUME BaseInv, NEW l \in Lanes, NEW r \in Rows, NEW out \in Outcomes,
         ApplyOutcome(l, r, out) \/ UNCHANGED row,
         task[l][r].pc \in Holding,
         task'[l][r] # task[l][r], task'[l][r].pc \notin Live,
         out = "ok" => task[l][r].out = "ok"
  PROVE  \A q \in Rows : RowStep(q)
<1>1. CASE UNCHANGED row
  BY <1>1 DEF RowStep, Kept
<1>2. CASE ApplyOutcome(l, r, out)
  <2>1. /\ \A q \in Rows : q # r => row'[q] = row[q]
        /\ row'[r].msg = row[r].msg
        /\ row'[r] # row[r] => /\ row'[r].status \in {"sent", "abandoned", "pending"}
                               /\ row[r].status = "sending"
        /\ row'[r] # row[r] /\ row'[r].status = "sent" => out = "ok"
    BY <1>2, ApplyBase
  <2>2. row'[r] # row[r] => row[r].token = task[l][r].token
    BY <1>2 DEF ApplyOutcome, Fenced
  <2>3. row'[r] # row[r] => Owned(r)
    BY <2>1, <2>2 DEF Owned
  <2>4. QED
    BY <2>1, <2>3 DEF RowStep, Kept
<1>3. QED
  BY <1>1, <1>2

LEMMA TaskStepRows ==
  ASSUME BaseInv, NEW l \in Lanes, NEW r \in Rows, TaskStep(l, r)
  PROVE  \A q \in Rows : RowStep(q)
<1>1. /\ task \in [Lanes -> [Rows -> TaskRec]] /\ task[l][r] \in TaskRec
      /\ row \in [Rows -> RowRec]
  BY DEF BaseInv, TypeOK
<1>2. CASE WinClaim(l, r)
  <2>1. row' = [row EXCEPT ![r] = Claimed(row[r], FreshToken)] /\ row[r].status = "pending"
    BY <1>2 DEF WinClaim, Due
  <2>2. /\ \A q \in Rows : q # r => row'[q] = row[q]
        /\ row'[r] = Claimed(row[r], FreshToken)
    BY <1>1, <2>1
  <2>3. /\ Claimed(row[r], FreshToken).status = "sending"
        /\ Claimed(row[r], FreshToken).msg = row[r].msg
        /\ Claimed(row[r], FreshToken).retries = row[r].retries
    BY <1>1 DEF Claimed, RowRec
  <2>4. Queued(r)
    BY <2>1, <2>2, <2>3 DEF Queued
  <2>5. QED
    BY <2>2, <2>4 DEF RowStep, Kept
<1>3. CASE LoseClaim(l, r) \/ TimeOut(l, r) \/ SendRaises(l, r)
  BY <1>3 DEF LoseClaim, TimeOut, SendRaises, RowStep, Kept
<1>4. ASSUME NEW out \in Outcomes \ {"none"}, Return(l, r, out)
      PROVE  \A q \in Rows : RowStep(q)
  BY <1>4 DEF Return, RowStep, Kept
<1>5. NoTask.pc = "idle" /\ "idle" \notin Holding /\ "idle" \notin Live /\ "raised" \notin Live
  BY DEF NoTask, Holding, Live
<1>6. CASE DropUnaddressed(l, r)
  <2>1. task[l][r].pc = "unaddressed" /\ task'[l][r] = NoTask
    BY <1>1, <1>6 DEF DropUnaddressed
  <2>2. "terminal" \in Outcomes /\ "unaddressed" \in Holding
    BY DEF Outcomes, Holding
  <2>3. QED
    BY <1>5, <1>6, <2>1, <2>2, OwnerSettles DEF DropUnaddressed
<1>7. CASE Apply(l, r)
  <2>1. task[l][r].pc = "returned" /\ task'[l][r] = NoTask /\ task[l][r].out \in Outcomes
    BY <1>1, <1>7 DEF Apply, TaskRec
  <2>2. "returned" \in Holding
    BY DEF Holding
  <2>3. QED
    BY <1>5, <1>7, <2>1, <2>2, OwnerSettles DEF Apply
<1>8. CASE ApplyRaises(l, r)
  <2>1. /\ task[l][r].pc = "returned" /\ task[l][r].out \in Outcomes
        /\ task' = [task EXCEPT ![l][r] = [@ EXCEPT !.pc = "raised"]]
    BY <1>1, <1>8 DEF ApplyRaises, TaskRec
  <2>2. task'[l][r].pc = "raised"
    BY <1>1, <2>1 DEF TaskRec
  <2>3. "returned" \in Holding
    BY DEF Holding
  <2>4. QED
    BY <1>5, <1>8, <2>1, <2>2, <2>3, OwnerSettles DEF ApplyRaises
<1>9. CASE ApplyAgain(l, r)
  <2> DEFINE out == IF task[l][r].out = "ok" THEN "ok" ELSE "failed"
  <2>1. task[l][r].pc = "raised" /\ task'[l][r] = NoTask
    BY <1>1, <1>9 DEF ApplyAgain
  <2>2. "raised" \in Holding /\ out \in Outcomes /\ (out = "ok" => task[l][r].out = "ok")
    BY DEF Holding, Outcomes
  <2>3. ApplyOutcome(l, r, out) \/ UNCHANGED row
    BY <1>9 DEF ApplyAgain
  <2> HIDE DEF out
  <2>4. QED
    BY <1>5, <2>1, <2>2, <2>3, OwnerSettles
<1>10. QED
  BY <1>2, <1>3, <1>4, <1>6, <1>7, <1>8, <1>9 DEF TaskStep

LEMMA DrainRows ==
  ASSUME BaseInv, NEW p \in Procs, Drain(p)
  PROVE  \A q \in Rows : Kept(q) \/ (Queued(q) /\ row'[q].status = "abandoned") \/ Rearmed(q)
<1> DEFINE Step(q) == Kept(q) \/ (Queued(q) /\ row'[q].status = "abandoned") \/ Rearmed(q)
<1> SUFFICES ASSUME NEW q \in Rows PROVE Step(q)
  OBVIOUS
<1> DEFINE rel == Released(row[q], LiveTokens(p))
<1>1. row'[q] = Abandoned(rel)
  BY DEF Drain
<1>2. /\ row[q] \in RowRec
      /\ row[q].status = "sending" <=> row[q].token # NoToken
      /\ row[q].status = "sending" => row[q].retries < MaxRetries
      /\ row[q].retries \in Nat /\ MaxRetries \in Nat
  BY ConstantsAssumption DEF BaseInv, TypeOK, RowsInv, RowRec
<1>3. /\ rel \in RowRec /\ rel.msg = row[q].msg /\ rel.retries = row[q].retries
      /\ \/ rel = row[q]
         \/ /\ row[q].status = "sending" /\ row[q].ripe
            /\ row[q].token \notin LiveTokens(p)
            /\ rel.status = "pending"
  BY <1>2, ReleasedRow
<1> HIDE DEF rel
<1>4. /\ Abandoned(rel).msg = rel.msg /\ Abandoned(rel).retries = rel.retries
      /\ \/ Abandoned(rel) = rel
         \/ /\ rel.status = "pending" /\ rel.retries >= MaxRetries
            /\ Abandoned(rel).status = "abandoned"
  BY <1>3, AbandonedRow
<1>5. CASE rel = row[q]
  <2>1. CASE Abandoned(rel) = rel
    BY <1>1, <1>5, <2>1 DEF Kept
  <2>2. CASE Abandoned(rel) # rel
    <3>1. Queued(q) /\ row'[q].status = "abandoned"
      BY <1>1, <1>4, <1>5, <2>2 DEF Queued
    <3>2. QED
      BY <3>1
  <2>3. QED
    BY <2>1, <2>2
<1>6. CASE rel # row[q]
  <2>1. Abandoned(rel) = rel
    BY <1>2, <1>3, <1>4, <1>6
  <2>2. Rearmed(q)
    BY <1>1, <1>3, <1>6, <2>1 DEF Rearmed
  <2>3. QED
    BY <2>2
<1>7. QED
  BY <1>5, <1>6

LEMMA CommitRows ==
  ASSUME BaseInv, NEW l \in Lanes, NEW S \in SUBSET Msgs, CommitIntents(l, S)
  PROVE  \A q \in Rows : Kept(q) \/ Born(q)
<1> DEFINE Names(id) == {id[m] : m \in S}
           At(id, r) == CHOOSE m \in S : id[m] = r
<1>1. PICK id \in Injection(S, Rows) :
        /\ AreNextIds(Names(id))
        /\ row' = [r \in Rows |-> IF r \in Names(id) THEN NewRow(At(id, r)) ELSE row[r]]
  BY DEF CommitIntents
<1> SUFFICES ASSUME NEW q \in Rows PROVE Kept(q) \/ Born(q)
  OBVIOUS
<1>2. CASE q \in Names(id)
  <2>1. At(id, q) \in Msgs /\ row'[q] = NewRow(At(id, q))
    BY <1>1, <1>2
  <2> HIDE DEF At, Names
  <2>2. row'[q].status = "pending"
    BY <2>1, NewRowFacts
  <2>3. ~(q < q)
    BY ConstantsAssumption DEF Rows
  <2>4. row[q].status = "absent"
    BY <1>1, <1>2, <2>3 DEF AreNextIds
  <2>5. QED
    BY <2>2, <2>4 DEF Born
<1>3. CASE q \notin Names(id)
  BY <1>1, <1>3 DEF Kept
<1>4. QED
  BY <1>2, <1>3

LEMMA NextRows ==
  ASSUME BaseInv, Next
  PROVE  \A q \in Rows : RowStep(q)
<1>0. row \in [Rows -> RowRec]
  BY DEF BaseInv, TypeOK
<1>1. CASE \E l \in Lanes, S \in SUBSET Msgs : CommitIntents(l, S)
  BY <1>1, CommitRows DEF RowStep
<1>2. CASE \E p \in Procs : Drain(p)
  BY <1>2, DrainRows DEF RowStep
<1>3. CASE \E l \in Lanes, r \in Rows : TaskStep(l, r)
  BY <1>3, TaskStepRows
<1>4. CASE \/ \E l \in Lanes, r \in Rows : Accept(l, r)
           \/ \E p \in Procs : Crash(p)
           \/ \E l \in Lanes : Cancel(l)
           \/ \E s \in stray : LateAccept(s) \/ LateEnd(s)
  BY <1>4 DEF Accept, Crash, Cancel, LateAccept, LateEnd, RowStep, Kept
<1>5. ASSUME NEW r \in Rows, Ripen(r)
      PROVE  \A q \in Rows : RowStep(q)
  <2> DEFINE new == [row[r] EXCEPT !.ripe = TRUE]
  <2>1. /\ row' = [row EXCEPT ![r] = new]
        /\ row[r].status \in {"pending", "sending"}
    BY <1>5 DEF Ripen
  <2>2. new.status = row[r].status /\ new.msg = row[r].msg /\ new.token = row[r].token
        /\ new.retries = row[r].retries
    BY <1>0 DEF RowRec
  <2> HIDE DEF new
  <2>3. row'[r] = new /\ \A q \in Rows : q # r => row'[q] = row[q]
    BY <1>0, <2>1
  <2>4. CASE row[r].status = "pending"
    BY <2>2, <2>3, <2>4 DEF RowStep, Queued, Kept
  <2>5. CASE row[r].status = "sending"
    <3>1. \/ "clock_step" \in Faults
          \/ /\ row[r].token \notin StrayTokens
             /\ \A p \in Procs : row[r].token \notin LiveTokens(p)
      BY <1>5, <2>5 DEF Ripen
    <3>2. Aged(r)
      BY <2>2, <2>3, <2>5, <3>1 DEF Aged
    <3>3. QED
      BY <2>3, <3>2 DEF RowStep, Kept
  <2>6. QED
    BY <2>1, <2>4, <2>5
<1>6. ASSUME NEW r \in Rows, Prune(r)
      PROVE  \A q \in Rows : RowStep(q)
  BY <1>0, <1>6 DEF Prune, RowStep, Kept, Gone
<1>7. ASSUME NEW T, RevokeHeartbeats(T)
      PROVE  \A q \in Rows : RowStep(q)
  <2> SUFFICES ASSUME NEW q \in Rows, row'[q] # row[q] PROVE Queued(q)
    BY DEF RowStep, Kept
  <2> DEFINE new == [row[q] EXCEPT !.status = "revoked"]
  <2>1. row[q].status = "pending" /\ row'[q] = new
    BY <1>7 DEF RevokeHeartbeats
  <2>2. new.status = "revoked" /\ new.msg = row[q].msg /\ new.retries = row[q].retries
    BY <1>0, RevokedRow
  <2> HIDE DEF new
  <2>3. QED
    BY <2>1, <2>2 DEF Queued
<1>8. ASSUME NEW t \in Topics, DeleteTopic(t)
      PROVE  \A q \in Rows : RowStep(q)
  BY <1>8 DEF DeleteTopic, RowStep, Kept, Gone
<1>9. QED
  BY <1>1, <1>2, <1>3, <1>4, <1>5, <1>6, <1>7, <1>8 DEF Next

\* A row that is sent, abandoned or revoked never changes again while it exists, and a
\* claim is settled by its owner alone: the two fences of the queue.
THEOREM LedgerFinality == Spec => LedgerIsFinal
<1>1. BaseInv /\ [Next]_vars =>
        \A r \in Rows : row[r].status \in Terminal => row'[r] \in {row[r], NoRow}
  <2> SUFFICES ASSUME BaseInv, [Next]_vars, NEW r \in Rows, row[r].status \in Terminal
               PROVE  row'[r] \in {row[r], NoRow}
    OBVIOUS
  <2>1. CASE UNCHANGED vars
    BY <2>1 DEF vars
  <2>2. CASE Next
    <3>1. RowStep(r)
      BY <2>2, NextRows
    <3>2. QED
      BY <3>1 DEF RowStep, Kept, Gone, Born, Queued, Aged, Rearmed, Owned, Terminal
  <2>3. QED
    BY <2>1, <2>2
<1>2. QED
  BY <1>1, BaseAlways, PTL DEF Spec, LedgerIsFinal

\* A claim is settled, and an attempt charged to its row, by the task that holds its token.
THEOREM OwnerAlone == Spec => OnlyOwnerSettles
<1> DEFINE Step ==
      \A r \in Rows :
        /\ row[r].status = "sending"
        /\ row'[r].status \in {"sent", "abandoned"} \/ row'[r].retries > row[r].retries
        => \E l \in Lanes :
             /\ task[l][r].pc \in Holding /\ task[l][r].token = row[r].token
             /\ task'[l][r] # task[l][r]
<1>1. BaseInv /\ [Next]_vars => Step
  <2> SUFFICES ASSUME BaseInv, [Next]_vars, NEW r \in Rows, row[r].status = "sending",
                      row'[r].status \in {"sent", "abandoned"}
                        \/ row'[r].retries > row[r].retries
               PROVE  \E l \in Lanes :
                        /\ task[l][r].pc \in Holding /\ task[l][r].token = row[r].token
                        /\ task'[l][r] # task[l][r]
    OBVIOUS
  <2>1. row[r].retries \in Nat /\ ~(row[r].retries > row[r].retries)
    BY ConstantsAssumption DEF BaseInv, TypeOK, RowRec
  <2>2. CASE UNCHANGED vars
    BY <2>1, <2>2 DEF vars
  <2>3. CASE Next
    <3>1. RowStep(r)
      BY <2>3, NextRows
    <3>2. ~Kept(r) /\ ~Born(r) /\ ~Queued(r) /\ ~Aged(r) /\ ~Rearmed(r)
      BY <2>1 DEF Kept, Born, Queued, Aged, Rearmed
    <3>3. ~Gone(r)
      BY <2>1 DEF Gone, NoRow
    <3>4. Owned(r)
      BY <3>1, <3>2, <3>3 DEF RowStep
    <3>5. QED
      BY <3>4 DEF Owned
  <2>4. QED
    BY <2>2, <2>3
<1>2. QED
  BY <1>1, BaseAlways, PTL DEF Spec, OnlyOwnerSettles

Ended(k, r) == task'[k][r] = NoTask

\* A batch is built from the row it names.
Offered(k, r) ==
  /\ task'[k][r].pc = "listed" /\ task'[k][r].msg = row'[r].msg

\* A claim is won: the row carries the task's token and a fresh stamp.
Started(k, r) ==
  /\ task[k][r].pc = "listed" /\ task'[k][r].msg = task[k][r].msg
  /\ row'[r].status = "sending" /\ row'[r].token = task'[k][r].token /\ ~row'[r].ripe
  /\ row'[r].msg = row[r].msg
  /\ task'[k][r].token \notin StrayTokens /\ UNCHANGED stray

\* A task goes on with the claim it has; once it is not live it never is again.
Moved(k, r) ==
  /\ task[k][r].pc # "idle"
  /\ task'[k][r].msg = task[k][r].msg /\ task'[k][r].token = task[k][r].token
  /\ task'[k][r].pc \in Live => task[k][r].pc \in Live

TaskKind(k, r) ==
  \/ task'[k][r] = task[k][r]
  \/ Ended(k, r) \/ Offered(k, r) \/ Started(k, r) \/ Moved(k, r)

LEMMA TaskStepTasks ==
  ASSUME BaseInv, NEW l \in Lanes, NEW r \in Rows, TaskStep(l, r) \/ Accept(l, r)
  PROVE  \A k \in Lanes, q \in Rows : TaskKind(k, q)
<1>1. /\ task \in [Lanes -> [Rows -> TaskRec]] /\ task[l][r] \in TaskRec
      /\ row \in [Rows -> RowRec]
  BY DEF BaseInv, TypeOK
<1>2. ASSUME NEW t, task' = [task EXCEPT ![l][r] = t]
      PROVE  /\ task'[l][r] = t
             /\ \A k \in Lanes, q \in Rows : ~(k = l /\ q = r) => task'[k][q] = task[k][q]
  BY <1>1, <1>2
<1>3. ASSUME TaskKind(l, r), NEW t, task' = [task EXCEPT ![l][r] = t]
      PROVE  \A k \in Lanes, q \in Rows : TaskKind(k, q)
  BY <1>2, <1>3 DEF TaskKind
<1>4. CASE WinClaim(l, r)
  <2> DEFINE t == [task[l][r] EXCEPT !.pc = IF task[l][r].msg \in Legacy THEN "unaddressed"
                                                                       ELSE "sending",
                                     !.token = FreshToken]
  <2>1. task' = [task EXCEPT ![l][r] = t] /\ task[l][r].pc = "listed"
    BY <1>4 DEF WinClaim
  <2>2. t.msg = task[l][r].msg /\ t.token = FreshToken
    BY <1>1 DEF TaskRec
  <2> HIDE DEF t
  <2>3. task'[l][r] = t
    BY <1>2, <2>1
  <2>4. row'[r] = Claimed(row[r], FreshToken)
    BY <1>1, <1>4 DEF WinClaim
  <2>5. /\ Claimed(row[r], FreshToken).status = "sending"
        /\ Claimed(row[r], FreshToken).msg = row[r].msg
        /\ Claimed(row[r], FreshToken).token = FreshToken
        /\ ~Claimed(row[r], FreshToken).ripe
    BY <1>1 DEF Claimed, RowRec
  <2> UNCHANGED stray /\ FreshToken \notin StrayTokens
    BY <1>4, FreshTokenIsFresh DEF WinClaim
  <2>6. Started(l, r)
    BY <2>1, <2>2, <2>3, <2>4, <2>5 DEF Started
  <2>7. QED
    BY <1>3, <2>1, <2>6 DEF TaskKind
<1>5. CASE \/ LoseClaim(l, r) \/ DropUnaddressed(l, r) \/ TimeOut(l, r)
           \/ Apply(l, r) \/ ApplyAgain(l, r)
  <2>1. task' = [task EXCEPT ![l][r] = NoTask]
    BY <1>5 DEF LoseClaim, DropUnaddressed, TimeOut, Apply, ApplyAgain
  <2>2. Ended(l, r)
    BY <1>2, <2>1 DEF Ended
  <2>3. QED
    BY <1>3, <2>1, <2>2 DEF TaskKind
<1>6. ASSUME NEW out \in Outcomes \ {"none"}, Return(l, r, out)
      PROVE  \A k \in Lanes, q \in Rows : TaskKind(k, q)
  <2> DEFINE t == [task[l][r] EXCEPT !.pc = "returned", !.out = out]
  <2>1. task' = [task EXCEPT ![l][r] = t] /\ task[l][r].pc = "sending"
    BY <1>6 DEF Return
  <2>2. t.msg = task[l][r].msg /\ t.token = task[l][r].token /\ t.pc = "returned"
    BY <1>1 DEF TaskRec
  <2> HIDE DEF t
  <2>3. task'[l][r] = t
    BY <1>2, <2>1
  <2>4. Moved(l, r)
    BY <2>1, <2>2, <2>3 DEF Moved, Live
  <2>5. QED
    BY <1>3, <2>1, <2>4 DEF TaskKind
<1>7. CASE SendRaises(l, r) \/ ApplyRaises(l, r)
  <2> DEFINE t == [task[l][r] EXCEPT !.pc = "raised"]
  <2>1. /\ task' = [task EXCEPT ![l][r] = t]
        /\ task[l][r].pc = "sending" \/ task[l][r].pc = "returned"
    BY <1>7 DEF SendRaises, ApplyRaises
  <2>2. t.msg = task[l][r].msg /\ t.token = task[l][r].token /\ t.pc = "raised"
    BY <1>1 DEF TaskRec
  <2> HIDE DEF t
  <2>3. task'[l][r] = t
    BY <1>2, <2>1
  <2>4. Moved(l, r)
    BY <2>1, <2>2, <2>3 DEF Moved, Live
  <2>5. QED
    BY <1>3, <2>1, <2>4 DEF TaskKind
<1>8. CASE Accept(l, r)
  <2> DEFINE t == [task[l][r] EXCEPT !.accepted = TRUE]
  <2>1. task' = [task EXCEPT ![l][r] = t] /\ task[l][r].pc = "sending"
    BY <1>8 DEF Accept
  <2>2. t.msg = task[l][r].msg /\ t.token = task[l][r].token /\ t.pc = "sending"
    BY <1>1, <2>1 DEF TaskRec
  <2> HIDE DEF t
  <2>3. task'[l][r] = t
    BY <1>2, <2>1
  <2>4. Moved(l, r)
    BY <2>1, <2>2, <2>3 DEF Moved, Live
  <2>5. QED
    BY <1>3, <2>1, <2>4 DEF TaskKind
<1>9. QED
  BY <1>4, <1>5, <1>6, <1>7, <1>8 DEF TaskStep

LEMMA DrainTasks ==
  ASSUME BaseInv, NEW p \in Procs, Drain(p)
  PROVE  \A k \in Lanes, q \in Rows : TaskKind(k, q)
<1> DEFINE table == [r \in Rows |-> Abandoned(Released(row[r], LiveTokens(p)))]
           l == <<p, "drain">>
           batch == DueBatch(table)
<1>1. /\ row' = table
      /\ task' = [task EXCEPT ![l] =
                    [r \in Rows |-> IF r \in batch THEN Listed(table[r].msg) ELSE NoTask]]
  BY DEF Drain
<1>2. task \in [Lanes -> [Rows -> TaskRec]]
  BY DEF BaseInv, TypeOK
<1>3. \A m : Listed(m).pc = "listed" /\ Listed(m).msg = m
  BY DEF Listed, NoTask
<1> HIDE DEF table, l, batch
<1>4. \A k \in Lanes, q \in Rows :
        \/ task'[k][q] = task[k][q] \/ task'[k][q] = NoTask
        \/ task'[k][q] = Listed(row'[q].msg)
  BY <1>1, <1>2
<1>5. QED
  BY <1>3, <1>4 DEF TaskKind, Ended, Offered

LEMMA CommitTasks ==
  ASSUME BaseInv, NEW l \in Lanes, NEW S \in SUBSET Msgs, CommitIntents(l, S)
  PROVE  \A k \in Lanes, q \in Rows : TaskKind(k, q)
<1> DEFINE Names(id) == {id[m] : m \in S}
           At(id, r) == CHOOSE m \in S : id[m] = r
<1>1. PICK id \in Injection(S, Rows) :
        /\ row' = [r \in Rows |-> IF r \in Names(id) THEN NewRow(At(id, r)) ELSE row[r]]
        /\ task' = [task EXCEPT ![l] =
                      [r \in Rows |-> IF r \in Names(id) THEN Listed(At(id, r)) ELSE NoTask]]
  BY DEF CommitIntents
<1>2. task \in [Lanes -> [Rows -> TaskRec]]
  BY DEF BaseInv, TypeOK
<1>3. \A m : Listed(m).pc = "listed" /\ Listed(m).msg = m
  BY DEF Listed, NoTask
<1>4. \A r \in Names(id) : At(id, r) \in Msgs
  OBVIOUS
<1> HIDE DEF Names, At
<1>5. \A q \in Names(id) : q \in Rows => row'[q].msg = At(id, q)
  BY <1>1, <1>4, NewRowFacts
<1>6. \A k \in Lanes, q \in Rows :
        \/ task'[k][q] = task[k][q] \/ task'[k][q] = NoTask
        \/ q \in Names(id) /\ task'[k][q] = Listed(At(id, q))
  BY <1>1, <1>2
<1>7. QED
  BY <1>3, <1>5, <1>6 DEF TaskKind, Ended, Offered

LEMMA NextTasks ==
  ASSUME BaseInv, Next
  PROVE  \A k \in Lanes, q \in Rows : TaskKind(k, q)
<1>0. task \in [Lanes -> [Rows -> TaskRec]]
  BY DEF BaseInv, TypeOK
<1>1. CASE \E l \in Lanes, S \in SUBSET Msgs : CommitIntents(l, S)
  BY <1>1, CommitTasks
<1>2. CASE \E p \in Procs : Drain(p)
  BY <1>2, DrainTasks
<1>3. CASE \E l \in Lanes, r \in Rows : TaskStep(l, r) \/ Accept(l, r)
  BY <1>3, TaskStepTasks
<1>4. ASSUME NEW l \in Lanes, Cancel(l)
      PROVE  \A k \in Lanes, q \in Rows : TaskKind(k, q)
  <2>1. task' = [task EXCEPT ![l] = [r \in Rows |-> NoTask]]
    BY <1>4 DEF Cancel
  <2>2. QED
    BY <1>0, <2>1 DEF TaskKind, Ended
<1>5. ASSUME NEW p \in Procs, Crash(p)
      PROVE  \A k \in Lanes, q \in Rows : TaskKind(k, q)
  <2>1. task' = [l \in Lanes |-> IF l[1] = p THEN [r \in Rows |-> NoTask] ELSE task[l]]
    BY <1>5 DEF Crash
  <2>2. QED
    BY <1>0, <2>1 DEF TaskKind, Ended
<1>6. CASE \/ \E r \in Rows : Ripen(r) \/ Prune(r)
           \/ \E T : RevokeHeartbeats(T)
           \/ \E t \in Topics : DeleteTopic(t)
           \/ \E s \in stray : LateAccept(s) \/ LateEnd(s)
  BY <1>6 DEF Ripen, Prune, RevokeHeartbeats, DeleteTopic, LateAccept, LateEnd, TaskKind
<1>7. QED
  BY <1>1, <1>2, <1>3, <1>4, <1>5, <1>6 DEF Next

-----------------------------------------------------------------------------
(* While topics stay: batches keep their rows, live claims stand, the ledger is honest. *)

StrongInv ==
  /\ BaseInv
  /\ "topic_delete" \notin Faults => BatchInv
  /\ "topic_delete" \notin Faults /\ SafeClock => ClaimInv
  /\ StraysInv
  /\ "topic_delete" \notin Faults /\ "clock_step" \notin Faults => ParkedInv
  /\ "topic_delete" \notin Faults /\ CountCap > 0 => SentMeansDelivered

\* A table that an older release left holds rows of the queue only.
LEMMA InitRows == Init => \A r \in Rows : row[r].status \in {"pending", "absent"}
<1> SUFFICES ASSUME Init PROVE \A r \in Rows : row[r].status \in {"pending", "absent"}
  OBVIOUS
<1>1. PICK id \in Injection(Legacy, Rows), n \in [Legacy -> 0..MaxRetries] :
        row = [r \in Rows |->
                 IF \E m \in Legacy : id[m] = r
                   THEN LET m == CHOOSE m \in Legacy : id[m] = r
                        IN [NewRow(m) EXCEPT !.retries = n[m]]
                   ELSE NoRow]
  BY DEF Init
<1>2. ASSUME NEW m \in Legacy, NEW c
      PROVE  [NewRow(m) EXCEPT !.retries = c].status = "pending"
  <2>1. NewRow(m) \in RowRec /\ NewRow(m).status = "pending"
    BY NewRowFacts, ConstantsAssumption
  <2>2. QED
    BY <2>1 DEF RowRec
<1>3. NoRow.status = "absent"
  BY DEF NoRow
<1>4. QED
  BY <1>1, <1>2, <1>3

LEMMA InitStrong == Init => StrongInv
<1> SUFFICES ASSUME Init PROVE StrongInv
  OBVIOUS
<1>1. \A l \in Lanes, r \in Rows : task[l][r].pc = "idle"
  BY DEF Init, NoTask
<1>2. BaseInv
  BY InitBase
<1>3. \A r \in Rows : row[r].status # "sent"
  BY InitRows
<1>4. QED
  BY <1>1, <1>2, <1>3 DEF StrongInv, BatchInv, ClaimInv, Live, SentMeansDelivered, BaseInv, TypeOK,
       StraysInv, ParkedInv, Init

LEMMA BatchNext ==
  ASSUME BaseInv, BatchInv, Next, "topic_delete" \notin Faults
  PROVE  BatchInv'
<1> SUFFICES ASSUME NEW k \in Lanes, NEW r \in Rows, task'[k][r].pc # "idle"
             PROVE  row'[r].msg = task'[k][r].msg
  BY DEF BatchInv
<1>1. RowStep(r) /\ TaskKind(k, r)
  BY NextRows, NextTasks
<1>2. CASE Ended(k, r)
  BY <1>2 DEF Ended, NoTask
<1>3. CASE Offered(k, r)
  BY <1>3 DEF Offered
<1>4. CASE Started(k, r)
  BY <1>4 DEF Started, BatchInv
<1>5. CASE Moved(k, r) \/ task'[k][r] = task[k][r]
  <2>1. task[k][r].pc # "idle" /\ task'[k][r].msg = task[k][r].msg
    BY <1>5 DEF Moved
  <2>2. row[r].msg = task[k][r].msg /\ task[k][r].msg \in Msgs
    BY <2>1 DEF BatchInv, BaseInv, TasksInv
  <2>3. row[r].status # "absent"
    BY <2>2, ConstantsAssumption DEF BaseInv, RowsInv
  <2>4. ~Gone(r) /\ ~Born(r)
    BY <2>1, <2>3 DEF Gone, Born
  <2>5. row'[r].msg = row[r].msg
    BY <1>1, <2>4 DEF RowStep, Kept, Queued, Aged, Rearmed, Owned
  <2>6. QED
    BY <2>1, <2>2, <2>5
<1>6. QED
  BY <1>1, <1>2, <1>3, <1>4, <1>5 DEF TaskKind

LEMMA ClaimNext ==
  ASSUME BaseInv, ClaimInv, Next, "topic_delete" \notin Faults, SafeClock
  PROVE  ClaimInv'
<1> SUFFICES ASSUME NEW k \in Lanes, NEW r \in Rows, task'[k][r].pc \in Live
             PROVE  /\ row'[r].status = "sending" /\ row'[r].token = task'[k][r].token
                    /\ "clock_step" \notin Faults => ~row'[r].ripe
  BY DEF ClaimInv, Fenced
<1>1. RowStep(r) /\ TaskKind(k, r)
  BY NextRows, NextTasks
<1>2. "idle" \notin Live /\ "listed" \notin Live /\ NoTask.pc = "idle"
  BY DEF Live, NoTask
<1>3. CASE Ended(k, r) \/ Offered(k, r)
  BY <1>2, <1>3 DEF Ended, Offered
<1>4. CASE Started(k, r)
  BY <1>4 DEF Started
<1>5. CASE Moved(k, r) \/ task'[k][r] = task[k][r]
  <2>1. task[k][r].pc \in Live /\ task'[k][r].token = task[k][r].token
    BY <1>5 DEF Moved
  <2>2. /\ row[r].status = "sending" /\ row[r].token = task[k][r].token
        /\ "clock_step" \notin Faults => ~row[r].ripe
    BY <2>1 DEF ClaimInv, Fenced
  <2>3. row[r].token # NoToken /\ row[r].token \in Tokens
    BY <2>2 DEF BaseInv, TypeOK, RowRec
  <2>4. k[1] \in Procs /\ row[r].token \in LiveTokens(k[1])
    BY <2>1, <2>2, <2>3 DEF LiveTokens, Lanes, Live
  <2>5. ~Gone(r) /\ ~Born(r) /\ ~Queued(r)
    BY <2>2 DEF Gone, Born, Queued, Terminal
  <2>6. ~Rearmed(r)
    BY <2>2, <2>4 DEF Rearmed, SafeClock
  <2>7. ~Owned(r)
    <3> SUFFICES ASSUME NEW l \in Lanes, row[r].token = task[l][r].token,
                        task'[l][r].pc \notin Live
                 PROVE  FALSE
      BY DEF Owned
    <3>1. task[l][r].token = task[k][r].token /\ task[k][r].token # NoToken
      BY <2>2, <2>3
    <3>2. \A i, j \in Lanes, q, x \in Rows :
            task[i][q].token = task[j][x].token /\ task[j][x].token # NoToken
            => i = j /\ q = x
      BY DEF BaseInv, TokensInv
    <3>3. l = k
      BY <3>1, <3>2
    <3>4. QED
      BY <3>3
  <2>8. CASE Kept(r)
    BY <2>1, <2>2, <2>8 DEF Kept
  <2>9. CASE Aged(r)
    BY <2>1, <2>2, <2>4, <2>9 DEF Aged
  <2>10. QED
    BY <1>1, <2>5, <2>6, <2>7, <2>8, <2>9 DEF RowStep
<1>6. QED
  BY <1>1, <1>3, <1>4, <1>5 DEF TaskKind

LEMMA AcceptsGrow ==
  ASSUME BaseInv, Next, NEW m \in Msgs, accepts[m] > 0
  PROVE  accepts'[m] > 0
<1>1. accepts \in [Msgs -> 0..CountCap] /\ CountCap \in Nat
  BY ConstantsAssumption DEF BaseInv, TypeOK
<1>2. CASE UNCHANGED accepts
  BY <1>2
<1>3. CASE \/ \E l \in Lanes, r \in Rows : Accept(l, r)
           \/ \E s \in stray : LateAccept(s) \/ LateEnd(s)
  BY <1>1, <1>3 DEF Accept, LateAccept, LateEnd, history
<1>4. CASE \E l \in Lanes, S \in SUBSET Msgs : CommitIntents(l, S)
  BY <1>2, <1>4 DEF CommitIntents, history
<1>5. CASE \E p \in Procs : Drain(p) \/ Crash(p)
  BY <1>2, <1>5 DEF Drain, Crash, history
<1>6. CASE \E l \in Lanes, r \in Rows : TaskStep(l, r)
  <2> SUFFICES ASSUME NEW l \in Lanes, NEW r \in Rows, TaskStep(l, r)
               PROVE  UNCHANGED accepts
    BY <1>2, <1>6
  <2>1. CASE WinClaim(l, r)
    BY <2>1 DEF WinClaim
  <2>2. CASE ~WinClaim(l, r)
    BY <2>2 DEF TaskStep, history, LoseClaim, DropUnaddressed, Return, TimeOut, SendRaises,
         Apply, ApplyRaises, ApplyAgain
  <2>3. QED
    BY <2>1, <2>2
<1>7. CASE \/ \E l \in Lanes : Cancel(l)
           \/ \E r \in Rows : Ripen(r) \/ Prune(r)
           \/ \E T : RevokeHeartbeats(T)
           \/ \E t \in Topics : DeleteTopic(t)
  BY <1>2, <1>7 DEF Cancel, Ripen, Prune, RevokeHeartbeats, DeleteTopic, history
<1>8. QED
  BY <1>3, <1>4, <1>5, <1>6, <1>7 DEF Next

LEMMA HonestNext ==
  ASSUME BaseInv, BatchInv, SentMeansDelivered, Next, CountCap > 0
  PROVE  SentMeansDelivered'
<1> SUFFICES ASSUME NEW r \in Rows, row'[r].status = "sent"
             PROVE  accepts'[row'[r].msg] > 0
  BY NextBase DEF SentMeansDelivered, BaseInv, TypeOK
<1>1. RowStep(r)
  BY NextRows
<1>2. CASE Kept(r)
  <2>1. row[r].msg \in Msgs /\ accepts[row[r].msg] > 0
    BY <1>2 DEF Kept, SentMeansDelivered, BaseInv, RowsInv, TypeOK
  <2>2. QED
    BY <1>2, <2>1, AcceptsGrow DEF Kept
<1>3. CASE Owned(r)
  <2>1. PICK l \in Lanes :
          /\ task[l][r].pc \in Holding /\ task[l][r].out = "ok" /\ row'[r].msg = row[r].msg
    BY <1>3 DEF Owned
  <2>2. task[l][r].pc # "idle"
    BY <2>1 DEF Holding
  <2>3. /\ task[l][r].msg \in Msgs /\ accepts[task[l][r].msg] > 0
        /\ row[r].msg = task[l][r].msg
    BY <2>1, <2>2 DEF BaseInv, TasksInv, BatchInv
  <2>4. QED
    BY <2>1, <2>3, AcceptsGrow
<1>4. ~Gone(r) /\ ~Born(r) /\ ~Queued(r) /\ ~Aged(r) /\ ~Rearmed(r)
  BY DEF Gone, NoRow, Born, Queued, Aged, Rearmed
<1>5. QED
  BY <1>1, <1>2, <1>3, <1>4 DEF RowStep

LEMMA StraysNext ==
  ASSUME BaseInv, BaseInv', StraysInv, Next
  PROVE  StraysInv'
<1>1. StrayStep /\ \A k \in Lanes, q \in Rows : TaskKind(k, q)
  BY NextStrays, NextTasks
<1>2. NoToken \notin Tokens /\ \A s \in stray' : s.token \in Tokens
  BY ConstantsAssumption DEF BaseInv, TypeOK, StrayRec
<1>3. \A k \in Lanes, q \in Rows :
        \/ task'[k][q].token \in {task[k][q].token, NoToken}
        \/ task'[k][q].token \notin StrayTokens /\ UNCHANGED stray
  <2> SUFFICES ASSUME NEW k \in Lanes, NEW q \in Rows
               PROVE  \/ task'[k][q].token \in {task[k][q].token, NoToken}
                      \/ task'[k][q].token \notin StrayTokens /\ UNCHANGED stray
    OBVIOUS
  <2>1. CASE Offered(k, q)
    BY <2>1 DEF Offered, BaseInv, TasksInv, Holding
  <2> QED
    BY <1>1, <2>1 DEF TaskKind, Ended, Started, Moved, NoTask
<1>4. ~TimesOut => stray' = {}
  BY <1>1, StrayOrigin DEF Continues, Left, StraysInv
<1>5. ASSUME NEW s \in stray', NEW k \in Lanes, NEW q \in Rows, task'[k][q].token = s.token
      PROVE  FALSE
  <2>1. CASE Continues(s)
    BY <1>2, <1>3, <1>5, <2>1 DEF Continues, StraysInv, StrayTokens
  <2>2. CASE Left(s)
    <3>1. PICK j \in Lanes, p \in Rows :
            s = Leaving(j, p) /\ task[j][p].pc = "sending" /\ task'[j][p] = NoTask
      BY <2>2 DEF Left
    <3>2. s.token = task[j][p].token
      BY <3>1 DEF Leaving
    <3>3. task[j][p].token # NoToken /\ \A t \in stray : t.token # task[j][p].token
      BY <1>2, <3>2 DEF StraysInv
    <3>4. task[k][q].token = task[j][p].token
      <4>1. CASE task'[k][q].token = task[k][q].token
        BY <1>5, <3>2, <4>1
      <4>2. CASE UNCHANGED stray
        BY <3>2, <3>3, <4>2
      <4> QED
        BY <1>2, <1>3, <1>5, <4>1, <4>2
    <3>5. k = j /\ q = p
      BY <3>3, <3>4 DEF BaseInv, TokensInv
    <3>6. task'[k][q].token = NoToken
      BY <3>1, <3>5 DEF NoTask
    <3> QED
      BY <1>2, <1>5, <3>6
  <2> QED
    BY <1>1, <2>1, <2>2, StrayOrigin
<1>6. \A s, t \in stray' : s.token = t.token => s = t
  <2>1. CASE stray' \subseteq stray
    BY <2>1 DEF StraysInv
  <2>2. ASSUME NEW u \in stray, stray' = (stray \ {u}) \cup {Delivered(u)}
        PROVE  \A s, t \in stray' : s.token = t.token => s = t
    <3>1. u \in StrayRec
      BY DEF BaseInv, TypeOK
    <3>2. Delivered(u).token = u.token
      BY <3>1 DEF Delivered, StrayRec
    <3> QED
      BY <2>2, <3>2 DEF StraysInv
  <2>3. ASSUME NEW l \in Lanes, NEW S \in SUBSET Rows, Leave(l, S)
        PROVE  \A s, t \in stray' : s.token = t.token => s = t
    <3>1. stray' = stray \cup LeftBehind(l, S)
      BY <2>3 DEF Leave
    <3>2. ASSUME NEW s \in LeftBehind(l, S)
          PROVE  \E q \in S : /\ s = Leaving(l, q) /\ s.token = task[l][q].token
                              /\ task[l][q].token # NoToken
      <4>1. PICK q \in S : task[l][q].pc = "sending" /\ s = Leaving(l, q)
        BY DEF LeftBehind, Leaving
      <4>2. task[l][q].token # NoToken /\ s.token = task[l][q].token
        BY <4>1 DEF BaseInv, TasksInv, Holding, Leaving
      <4> QED
        BY <4>1, <4>2
    <3>3. \A s \in stray, t \in LeftBehind(l, S) : s.token # t.token
      BY <3>2 DEF StraysInv
    <3>4. \A s, t \in LeftBehind(l, S) : s.token = t.token => s = t
      BY <3>2 DEF BaseInv, TokensInv
    <3> QED
      BY <3>1, <3>3, <3>4 DEF StraysInv
  <2> QED
    BY <1>1, <2>1, <2>2, <2>3 DEF StrayStep
<1> QED
  BY <1>4, <1>5, <1>6 DEF StraysInv

\* Without clock steps a row waits for the thread that may still deliver it.
LEMMA ParkedNext ==
  ASSUME BaseInv, BatchInv, ClaimInv, StraysInv, ParkedInv, Next,
         "topic_delete" \notin Faults, "clock_step" \notin Faults
  PROVE  ParkedInv'
<1> DEFINE Parked(s, r) == /\ row[r].status = "sending" /\ row[r].token = s.token
                           /\ row[r].msg = s.msg /\ ~row[r].ripe
<1> SUFFICES ASSUME NEW s \in stray' PROVE \E r \in Rows : Parked(s, r)'
  BY DEF ParkedInv
<1>1. Continues(s) \/ Left(s)
  BY NextStrays, StrayOrigin
<1>2. CASE Continues(s)
  <2>1. PICK t \in stray : s.msg = t.msg /\ s.token = t.token
    BY <1>2 DEF Continues
  <2>2. PICK r \in Rows : Parked(t, r)
    BY DEF ParkedInv
  <2>3. RowStep(r)
    BY NextRows
  <2>4. row[r].token \in StrayTokens
    BY <2>2 DEF StrayTokens
  <2>5. ~Gone(r) /\ ~Born(r) /\ ~Queued(r) /\ ~Rearmed(r) /\ ~Aged(r)
    BY <2>2, <2>4 DEF Gone, Born, Queued, Rearmed, Aged, Terminal
  <2>6. ~Owned(r)
    BY <2>2 DEF Owned, StraysInv
  <2>7. row'[r] = row[r]
    BY <2>3, <2>5, <2>6 DEF RowStep, Kept
  <2> QED
    BY <2>1, <2>2, <2>7
<1>3. CASE Left(s)
  <2>1. PICK k \in Lanes, q \in Rows :
          s = Leaving(k, q) /\ task[k][q].pc = "sending" /\ UNCHANGED row
    BY <1>3 DEF Left
  <2>2. s.msg = task[k][q].msg /\ s.token = task[k][q].token
    BY <2>1 DEF Leaving
  <2>3. /\ row[q].status = "sending" /\ row[q].token = task[k][q].token
        /\ row[q].msg = task[k][q].msg /\ ~row[q].ripe
    BY <2>1 DEF ClaimInv, BatchInv, Fenced, Live
  <2> QED
    BY <2>1, <2>2, <2>3
<1> QED
  BY <1>1, <1>2, <1>3

LEMMA NextStrong == StrongInv /\ [Next]_vars => StrongInv'
<1>1. StrongInv /\ UNCHANGED vars => StrongInv'
  BY StutterBase DEF StrongInv, vars, BatchInv, ClaimInv, Fenced, SentMeansDelivered, StraysInv,
       ParkedInv
<1>2. StrongInv /\ Next => StrongInv'
  <2> SUFFICES ASSUME StrongInv, Next PROVE StrongInv'
    OBVIOUS
  <2>1. BaseInv' /\ StraysInv'
    BY NextBase, StraysNext DEF StrongInv
  <2>2. "topic_delete" \notin Faults => BatchInv'
    BY BatchNext DEF StrongInv
  <2>3. "topic_delete" \notin Faults /\ SafeClock => ClaimInv'
    BY ClaimNext DEF StrongInv
  <2>4. "topic_delete" \notin Faults /\ "clock_step" \notin Faults => ParkedInv'
    BY ParkedNext DEF StrongInv, SafeClock
  <2>5. "topic_delete" \notin Faults /\ CountCap > 0 => SentMeansDelivered'
    BY HonestNext DEF StrongInv
  <2> QED
    BY <2>1, <2>2, <2>3, <2>4, <2>5 DEF StrongInv
<1>3. QED
  BY <1>1, <1>2

LEMMA StrongAlways == Spec => []StrongInv
BY InitStrong, NextStrong, PTL DEF Spec

\* The inductive invariant TLC checks on small instances holds in every instance.
THEOREM Inductive == Spec => []IInv
<1>1. StrongInv => IInv
  BY DEF StrongInv, BaseInv, IInv
<1>2. QED
  BY <1>1, StrongAlways, PTL

\* While no topic is deleted under a running batch, a row that says 'sent' names a
\* message its target took, whatever crashes, clock steps and failed applies intervene.
THEOREM HonestLedger ==
  ASSUME "topic_delete" \notin Faults, CountCap > 0
  PROVE  Spec => []SentMeansDelivered
<1>1. StrongInv => SentMeansDelivered
  BY DEF StrongInv
<1>2. QED
  BY <1>1, StrongAlways, PTL

\* With a clock that does not step, or in a single process, no message is being sent by
\* two tasks at the same time; and while no clock steps, no send that outlived its task goes
\* on beside another send of the message.
THEOREM ExclusiveSending ==
  ASSUME "topic_delete" \notin Faults, SafeClock
  PROVE  Spec => []OneSender
<1>1. ASSUME StrongInv
      PROVE  \A k, l \in Lanes, q, r \in Rows :
               /\ task[k][q].pc = "sending" /\ task[l][r].pc = "sending"
               /\ task[k][q].msg = task[l][r].msg
               => k = l /\ q = r
  <2> SUFFICES ASSUME NEW k \in Lanes, NEW l \in Lanes,
                      NEW q \in Rows, NEW r \in Rows,
                      task[k][q].pc = "sending", task[l][r].pc = "sending",
                      task[k][q].msg = task[l][r].msg
               PROVE  k = l /\ q = r
    OBVIOUS
  <2> USE <1>1
  <2>1. /\ row[q].msg = task[k][q].msg /\ row[r].msg = task[l][r].msg
        /\ task[k][q].msg \in Msgs
    BY DEF StrongInv, BaseInv, BatchInv, TasksInv
  <2>2. q = r
    BY <2>1, ConstantsAssumption DEF StrongInv, BaseInv, RowsInv
  <2>3. /\ row[q].token = task[k][q].token /\ row[r].token = task[l][r].token
        /\ row[r].status = "sending"
    BY DEF StrongInv, ClaimInv, Fenced, Live
  <2>4. task[k][q].token = task[l][r].token /\ task[l][r].token # NoToken
    BY <2>2, <2>3 DEF StrongInv, BaseInv, TypeOK
  <2>5. QED
    BY <2>4 DEF StrongInv, BaseInv, TokensInv
<1>2. ASSUME StrongInv, "clock_step" \notin Faults, NEW s \in stray
      PROVE  /\ \A l \in Lanes, r \in Rows :
                  ~(task[l][r].pc = "sending" /\ task[l][r].msg = s.msg)
             /\ \A t \in stray : t.msg = s.msg => t = s
  <2>1. /\ BaseInv /\ BatchInv /\ ClaimInv /\ StraysInv /\ ParkedInv
    BY <1>2 DEF StrongInv
  <2>2. PICK p \in Rows : row[p].token = s.token /\ row[p].msg = s.msg
    BY <2>1 DEF ParkedInv
  <2>3. s.msg \in Msgs /\ s.msg # NoMsg
    BY <2>1, ConstantsAssumption DEF BaseInv, TypeOK, StrayRec
  <2>4. \A r \in Rows : row[r].msg = s.msg => r = p
    BY <2>1, <2>2, <2>3 DEF BaseInv, RowsInv
  <2>5. ASSUME NEW l \in Lanes, NEW r \in Rows, task[l][r].pc = "sending", task[l][r].msg = s.msg
        PROVE  FALSE
    <3>1. row[r].msg = s.msg /\ row[r].token = task[l][r].token
      BY <2>1, <2>5 DEF BatchInv, ClaimInv, Fenced, Live
    <3> QED
      BY <2>1, <2>2, <2>4, <3>1 DEF StraysInv
  <2>6. ASSUME NEW t \in stray, t.msg = s.msg PROVE t = s
    <3>1. PICK r \in Rows : row[r].token = t.token /\ row[r].msg = t.msg
      BY <2>1 DEF ParkedInv
    <3> QED
      BY <2>1, <2>2, <2>4, <2>6, <3>1 DEF StraysInv
  <2> QED
    BY <2>5, <2>6
<1>3. StrongInv => OneSender
  <2>1. ASSUME StrongInv PROVE DOMAIN task = Lanes /\ DOMAIN row = Rows
    BY <2>1 DEF StrongInv, BaseInv, TypeOK
  <2> QED
    BY <1>1, <1>2, <2>1 DEF OneSender
<1> QED
  BY <1>3, StrongAlways, PTL


-----------------------------------------------------------------------------
(* Where every outcome is known, an attempt is charged to its row before the next begins. *)

\* A send ends with an answer, and the program lives to write it down.
KnownOutcomes ==
  /\ ~TimesOut /\ SafeClock
  /\ Faults \cap {"crash", "cancel", "db_down", "topic_delete"} = {}

\* The attempts a row accounts for: those charged, and the one it is making or that ended it.
Charge(rec) == IF rec.status \in {"sending", "sent"} THEN rec.retries + 1 ELSE rec.retries

SendsInv ==
  /\ \A m \in Msgs : sends[m] <= MaxRetries
  /\ \A m \in Msgs : m \notin created \/ m \in Legacy => sends[m] = 0
  /\ \A r \in Rows : row[r].status # "absent" => sends[row[r].msg] <= Charge(row[r])
  /\ \A r \in Rows : row[r].status = "sent" => row[r].retries < MaxRetries

Holds(l, r) ==
  task[l][r].pc \in {"sending", "returned", "raised"} /\ task[l][r].token = row[r].token

\* Somebody is about to settle each claim, and the claim has not grown stale meanwhile.
HeldInv ==
  \A r \in Rows : row[r].status = "sending" /\ row[r].msg \notin Legacy =>
    /\ "clock_step" \notin Faults => ~row[r].ripe
    /\ \E l \in Lanes : Holds(l, r)

BudgetInv == SendsInv /\ HeldInv

\* A row goes, or accounts for as many attempts as before; rows without a target make none.
Charged(r) ==
  \/ row'[r] = row[r]
  \/ row'[r].status = "absent"
  \/ /\ row[r].status # "absent" /\ row'[r].msg = row[r].msg
     /\ row[r].msg \in Legacy \/ Charge(row[r]) <= Charge(row'[r])
     /\ row'[r].status = "sent" => row'[r].retries < MaxRetries

LEMMA ChargeType == \A rec \in RowRec : Charge(rec) \in Nat
BY ConstantsAssumption DEF Charge, RowRec

LEMMA SendsKept ==
  ASSUME BaseInv, BaseInv', SendsInv, UNCHANGED <<sends, created>>, \A r \in Rows : Charged(r)
  PROVE  SendsInv'
<1>1. ASSUME NEW r \in Rows, row'[r].status # "absent"
      PROVE  sends[row'[r].msg] <= Charge(row'[r])
             /\ (row'[r].status = "sent" => row'[r].retries < MaxRetries)
  <2>1. CASE row'[r] = row[r]
    BY <1>1, <2>1 DEF SendsInv
  <2>2. CASE row'[r] # row[r]
    <3>1. /\ row[r].status # "absent" /\ row'[r].msg = row[r].msg
          /\ row[r].msg \in Legacy \/ Charge(row[r]) <= Charge(row'[r])
          /\ row'[r].status = "sent" => row'[r].retries < MaxRetries
      BY <1>1, <2>2 DEF Charged
    <3>2. /\ sends[row[r].msg] <= Charge(row[r])
          /\ row[r].msg \in Msgs /\ sends[row[r].msg] \in Nat
          /\ row[r].msg \in Legacy => sends[row[r].msg] = 0
      BY <3>1, ConstantsAssumption DEF SendsInv, BaseInv, TypeOK, RowsInv
    <3>3. Charge(row[r]) \in Nat /\ Charge(row'[r]) \in Nat
      BY ChargeType DEF BaseInv, TypeOK
    <3> QED
      BY <3>1, <3>2, <3>3
  <2> QED
    BY <2>1, <2>2
<1> QED
  BY <1>1 DEF SendsInv

\* No claim is won, and who holds one goes on with it.
LEMMA HeldKept ==
  ASSUME HeldInv,
         \A r \in Rows : row'[r].status = "sending" /\ row'[r].msg \notin Legacy =>
           /\ row[r].status = "sending" /\ row'[r].msg = row[r].msg
           /\ row'[r].token = row[r].token
           /\ row'[r].ripe /\ "clock_step" \notin Faults => row[r].ripe
           /\ \A l \in Lanes : Holds(l, r) => Holds(l, r)'
  PROVE  HeldInv'
BY DEF HeldInv

\* A settled claim charges its attempt, unless it is the one that went through.
LEMMA SettledCharge ==
  ASSUME BaseInv, NEW l \in Lanes, NEW r \in Rows, NEW out \in Outcomes,
         ApplyOutcome(l, r, out)
  PROVE  /\ \A q \in Rows : Charged(q) /\ (q # r => row'[q] = row[q])
         /\ Fenced(l, r) => row'[r].status # "sending"
         /\ ~Fenced(l, r) => row' = row
<1>1. CASE Fenced(l, r)
  <2>1. row' = [row EXCEPT ![r] = Settled(row[r], out)]
    BY <1>1 DEF ApplyOutcome
  <2>2. row \in [Rows -> RowRec] /\ row[r].retries < MaxRetries /\ row[r].status = "sending"
    BY <1>1 DEF BaseInv, TypeOK, RowsInv, Fenced
  <2>3. row'[r] = Settled(row[r], out) /\ \A q \in Rows : q # r => row'[q] = row[q]
    BY <2>1, <2>2
  <2>4. /\ Settled(row[r], out).msg = row[r].msg
        /\ Settled(row[r], out).status \in {"sent", "abandoned", "pending"}
        /\ Settled(row[r], out).status = "sent" <=> out = "ok"
    BY <2>2, SettledRow
  <2>5. Settled(row[r], out).retries = IF out = "ok" THEN row[r].retries ELSE row[r].retries + 1
    BY <2>2 DEF Settled, RowRec
  <2>6. row[r].retries \in Nat
    BY <2>2, ConstantsAssumption DEF RowRec
  <2>7. Charge(row[r]) <= Charge(Settled(row[r], out))
    BY <2>2, <2>4, <2>5, <2>6 DEF Charge
  <2> QED
    BY <1>1, <2>2, <2>3, <2>4, <2>5, <2>7 DEF Charged
<1>2. CASE ~Fenced(l, r)
  BY <1>2 DEF ApplyOutcome, Charged
<1> QED
  BY <1>1, <1>2

\* One attempt begins: the row it is charged to has attempts left.
LEMMA WinSends ==
  ASSUME BaseInv, BaseInv', BatchInv, BudgetInv, NEW l \in Lanes, NEW r \in Rows, WinClaim(l, r)
  PROVE  BudgetInv'
<1> DEFINE m == task[l][r].msg
           t == [task[l][r] EXCEPT !.pc = IF m \in Legacy THEN "unaddressed" ELSE "sending",
                                   !.token = FreshToken]
           new == Claimed(row[r], FreshToken)
<1>1. /\ task[l][r] \in TaskRec /\ task[l][r].pc = "listed" /\ m \in Msgs
      /\ row[r] \in RowRec /\ row[r].status = "pending" /\ row[r].retries < MaxRetries
      /\ row[r].msg = m /\ m \in created /\ row[r].retries \in Nat
  BY ConstantsAssumption DEF BaseInv, TypeOK, RowsInv, TasksInv, BatchInv, WinClaim, Due, RowRec
<1>2. /\ task' = [task EXCEPT ![l][r] = t] /\ row' = [row EXCEPT ![r] = new]
      /\ created' = created
      /\ sends' = IF m \in Legacy THEN sends
                  ELSE [sends EXCEPT ![m] = IF @ < CountCap THEN @ + 1 ELSE @]
  BY DEF WinClaim
<1>3. /\ new.status = "sending" /\ new.msg = row[r].msg /\ new.retries = row[r].retries
      /\ new.token = FreshToken /\ ~new.ripe
  BY <1>1 DEF Claimed, RowRec
<1>4. /\ t.token = FreshToken /\ (m \notin Legacy => t.pc = "sending")
  BY <1>1 DEF TaskRec
<1> HIDE DEF new, t
<1>5. /\ row'[r] = new /\ \A q \in Rows : q # r => row'[q] = row[q]
      /\ \A k \in Lanes, q \in Rows : task'[k][q] = IF k = l /\ q = r THEN t ELSE task[k][q]
  BY <1>2 DEF BaseInv, TypeOK
<1>6. sends \in [Msgs -> 0..CountCap] /\ CountCap \in Nat /\ MaxRetries \in Nat
  BY ConstantsAssumption DEF BaseInv, TypeOK
<1>7. /\ \A n \in Msgs : n # m => sends'[n] = sends[n]
      /\ sends'[m] \in Nat /\ sends'[m] <= sends[m] + 1
      /\ m \in Legacy => sends'[m] = sends[m]
  BY <1>1, <1>2, <1>6
<1>8. sends[m] <= row[r].retries
  BY <1>1 DEF BudgetInv, SendsInv, Charge
<1>9. sends[m] \in Nat
  BY <1>1, <1>6
<1> HIDE DEF m
<1>10. sends'[m] <= row[r].retries + 1 /\ sends'[m] <= MaxRetries
  BY <1>1, <1>6, <1>7, <1>8, <1>9
<1>11. SendsInv'
  <2>1. \A n \in Msgs : sends'[n] <= MaxRetries
    BY <1>7, <1>10 DEF BudgetInv, SendsInv
  <2>2. \A n \in Msgs : n \notin created' \/ n \in Legacy => sends'[n] = 0
    BY <1>1, <1>2, <1>7 DEF BudgetInv, SendsInv
  <2>3. ASSUME NEW q \in Rows, row'[q].status # "absent"
        PROVE  sends'[row'[q].msg] <= Charge(row'[q])
    <3>1. CASE q = r
      BY <1>1, <1>3, <1>5, <1>10, <3>1 DEF Charge
    <3>2. CASE q # r
      <4>1. row'[q] = row[q] /\ row[q].msg # m
        BY <1>1, <1>5, <2>3, <3>2 DEF BaseInv, RowsInv
      <4>2. row[q].msg \in Msgs
        BY <2>3, <4>1 DEF BaseInv, RowsInv, TypeOK
      <4> QED
        BY <1>7, <2>3, <4>1, <4>2 DEF BudgetInv, SendsInv
    <3> QED
      BY <3>1, <3>2
  <2>4. \A q \in Rows : row'[q].status = "sent" => row'[q].retries < MaxRetries
    BY <1>3, <1>5 DEF BudgetInv, SendsInv
  <2> QED
    BY <2>1, <2>2, <2>3, <2>4 DEF SendsInv
<1>12. HeldInv'
  <2> SUFFICES ASSUME NEW q \in Rows, row'[q].status = "sending", row'[q].msg \notin Legacy
               PROVE  /\ "clock_step" \notin Faults => ~row'[q].ripe
                      /\ \E k \in Lanes : Holds(k, q)'
    BY DEF HeldInv
  <2>1. CASE q = r
    <3>1. Holds(l, r)'
      BY <1>1, <1>3, <1>4, <1>5, <2>1 DEF Holds
    <3> QED
      BY <1>3, <1>5, <2>1, <3>1
  <2>2. CASE q # r
    <3>1. row'[q] = row[q] /\ \A k \in Lanes : task'[k][q] = task[k][q]
      BY <1>5, <2>2
    <3> QED
      BY <3>1 DEF BudgetInv, HeldInv, Holds
  <2> QED
    BY <2>1, <2>2
<1> QED
  BY <1>11, <1>12 DEF BudgetInv

\* A task that stops holding a claim has settled it.
LEMMA TaskSends ==
  ASSUME KnownOutcomes, BaseInv, BaseInv', BudgetInv, NEW l \in Lanes, NEW r \in Rows,
         TaskStep(l, r) \/ Accept(l, r), ~WinClaim(l, r)
  PROVE  BudgetInv'
<1>1. /\ task \in [Lanes -> [Rows -> TaskRec]] /\ task[l][r] \in TaskRec
      /\ UNCHANGED <<sends, created>>
  <2>1. ASSUME Accept(l, r) PROVE UNCHANGED <<sends, created>>
    BY <2>1 DEF Accept
  <2>2. ASSUME TaskStep(l, r) PROVE UNCHANGED <<sends, created>>
    BY <2>2 DEF TaskStep, LoseClaim, DropUnaddressed, Return, TimeOut, SendRaises,
         Apply, ApplyRaises, ApplyAgain, history
  <2>3. task \in [Lanes -> [Rows -> TaskRec]] /\ task[l][r] \in TaskRec
    BY DEF BaseInv, TypeOK
  <2> QED
    BY <2>1, <2>2, <2>3
<1>2. \A k \in Lanes, q \in Rows : k # l \/ q # r => task'[k][q] = task[k][q]
  <2>1. \E t : task' = [task EXCEPT ![l][r] = t]
    BY DEF TaskStep, LoseClaim, DropUnaddressed, Return, TimeOut, SendRaises,
           Apply, ApplyRaises, ApplyAgain, Accept
  <2> QED
    BY <1>1, <2>1
<1>3. "db_down" \notin Faults /\ ~TimesOut
  BY DEF KnownOutcomes
<1>4. \/ /\ UNCHANGED row
         /\ \/ task[l][r].pc = "listed"
            \/ task[l][r].pc = "sending" /\ task'[l][r].pc \in {"sending", "returned", "raised"}
               /\ task'[l][r].token = task[l][r].token
            \/ task[l][r].pc = "returned" /\ task'[l][r].pc = "raised"
               /\ task'[l][r].token = task[l][r].token
      \/ \E out \in Outcomes : ApplyOutcome(l, r, out)
  <2>1. CASE LoseClaim(l, r)
    BY <2>1 DEF LoseClaim
  <2>2. ASSUME NEW out \in Outcomes \ {"none"}, Return(l, r, out)
        PROVE  /\ UNCHANGED row /\ task[l][r].pc = "sending"
               /\ task'[l][r].pc = "returned" /\ task'[l][r].token = task[l][r].token
    BY <1>1, <2>2 DEF Return, TaskRec
  <2>3. CASE SendRaises(l, r) \/ Accept(l, r)
    BY <1>1, <2>3 DEF SendRaises, Accept, TaskRec
  <2>4. CASE DropUnaddressed(l, r)
    BY <1>3, <2>4 DEF DropUnaddressed, Outcomes
  <2>5. CASE Apply(l, r)
    BY <1>1, <2>5 DEF Apply, TaskRec
  <2>6. CASE ApplyRaises(l, r)
    BY <1>1, <2>6 DEF ApplyRaises, TaskRec
  <2>7. CASE ApplyAgain(l, r)
    BY <1>3, <2>7 DEF ApplyAgain, Outcomes
  <2> QED
    BY <1>3, <2>1, <2>2, <2>3, <2>4, <2>5, <2>6, <2>7 DEF TaskStep, TimeOut
<1>5. CASE UNCHANGED row
  <2>1. SendsInv'
    BY <1>1, <1>5, SendsKept DEF BudgetInv, Charged
  <2>2. CASE \E out \in Outcomes : ApplyOutcome(l, r, out)
    <3>1. ~Fenced(l, r) \/ row[r].status # "sending"
      BY <1>5, <2>2, SettledCharge
    <3>2. row[r].status = "sending" => ~Holds(l, r)
      BY <3>1 DEF Fenced, Holds
    <3>3. HeldInv'
      BY <1>2, <1>5, <3>2, HeldKept DEF BudgetInv, Holds
    <3> QED
      BY <2>1, <3>3 DEF BudgetInv
  <2>3. CASE ~\E out \in Outcomes : ApplyOutcome(l, r, out)
    <3>1. Holds(l, r) => Holds(l, r)'
      BY <1>4, <1>5, <2>3 DEF Holds
    <3>2. HeldInv'
      BY <1>2, <1>5, <3>1, HeldKept DEF BudgetInv, Holds
    <3> QED
      BY <2>1, <3>2 DEF BudgetInv
  <2> QED
    BY <2>2, <2>3
<1>6. CASE ~UNCHANGED row
  <2>1. PICK out \in Outcomes : ApplyOutcome(l, r, out)
    BY <1>4, <1>6
  <2>2. /\ \A q \in Rows : Charged(q) /\ (q # r => row'[q] = row[q])
        /\ row'[r].status # "sending"
    BY <1>6, <2>1, SettledCharge
  <2>3. SendsInv'
    BY <1>1, <2>2, SendsKept DEF BudgetInv
  <2>4. HeldInv'
    BY <1>2, <2>2, HeldKept DEF BudgetInv, Holds
  <2> QED
    BY <2>3, <2>4 DEF BudgetInv
<1> QED
  BY <1>5, <1>6

\* Nobody releases a claim that is held.
LEMMA NotReleased ==
  ASSUME KnownOutcomes, BaseInv, HeldInv, NEW r \in Rows,
         row[r].status = "sending", row[r].msg \notin Legacy
  PROVE  /\ \E p \in Procs : row[r].token \in LiveTokens(p)
         /\ ~Rearmed(r)
<1>1. PICK l \in Lanes : Holds(l, r)
  BY DEF HeldInv
<1>2. row[r].token \in Tokens
  BY DEF BaseInv, TypeOK, RowRec
<1>3. l[1] \in Procs /\ row[r].token \in LiveTokens(l[1])
  BY <1>1, <1>2 DEF Holds, LiveTokens, Lanes
<1>4. ~Rearmed(r)
  BY <1>3 DEF Rearmed, KnownOutcomes, SafeClock, HeldInv
<1> QED
  BY <1>3, <1>4

LEMMA DrainSends ==
  ASSUME KnownOutcomes, BaseInv, BaseInv', BudgetInv, NEW p \in Procs, Drain(p)
  PROVE  BudgetInv'
<1>1. UNCHANGED <<sends, created>>
  BY DEF Drain, history
<1>2. \A q \in Rows : \/ Kept(q)
                      \/ Queued(q) /\ row'[q].status = "abandoned"
                      \/ Rearmed(q) /\ row[q].msg \in Legacy
  BY DrainRows, NotReleased DEF BudgetInv, Rearmed
<1>3. \A q \in Rows : Charged(q)
  <2>1. ASSUME NEW q \in Rows, Queued(q), row'[q].status = "abandoned" PROVE Charged(q)
    <3>1. row[q].retries \in Nat /\ row[q].retries <= row[q].retries
      BY ConstantsAssumption DEF BaseInv, TypeOK, RowRec
    <3> QED
      BY <2>1, <3>1 DEF Charged, Charge, Queued
  <2>2. ASSUME NEW q \in Rows, Rearmed(q), row[q].msg \in Legacy PROVE Charged(q)
    BY <2>2 DEF Charged, Rearmed
  <2> QED
    BY <1>2, <2>1, <2>2 DEF Charged, Kept
<1>4. SendsInv'
  BY <1>1, <1>3, SendsKept DEF BudgetInv
<1>5. \A q \in Rows : row'[q].status = "sending" => row'[q] = row[q]
  BY <1>2 DEF Kept, Rearmed
<1>6. \A k \in Lanes, q \in Rows : task[k][q].pc # "idle" => task'[k][q] = task[k][q]
  <2>1. \E batch : task' = [task EXCEPT ![<<p, "drain">>] = batch]
    BY DEF Drain
  <2>2. task \in [Lanes -> [Rows -> TaskRec]] /\ \A q \in Rows : task[<<p, "drain">>][q].pc = "idle"
    BY DEF Drain, LaneIdle, BaseInv, TypeOK
  <2> QED
    BY <2>1, <2>2
<1>7. HeldInv'
  BY <1>5, <1>6, HeldKept DEF BudgetInv, Holds
<1> QED
  BY <1>4, <1>7 DEF BudgetInv

\* Time, retention and the heartbeat's revocations begin no attempt.
LEMMA AroundSends ==
  ASSUME KnownOutcomes, BaseInv, BaseInv', BudgetInv,
         (\E r \in Rows : Ripen(r) \/ Prune(r)) \/ \E T : RevokeHeartbeats(T)
  PROVE  BudgetInv'
<1>1. UNCHANGED <<sends, created, task>>
  BY DEF Ripen, Prune, RevokeHeartbeats, history
<1>2. row \in [Rows -> RowRec] /\ \A q \in Rows : row[q].retries \in Nat
  BY ConstantsAssumption DEF BaseInv, TypeOK, RowRec
<1>3. \A q \in Rows :
        \/ row'[q] = row[q]
        \/ row'[q] = NoRow
        \/ /\ row'[q] = [row[q] EXCEPT !.ripe = TRUE] /\ row[q].status \in {"pending", "sending"}
           /\ \/ row[q].status = "pending"
              \/ "clock_step" \in Faults
              \/ \A p \in Procs : row[q].token \notin LiveTokens(p)
        \/ row'[q] = [row[q] EXCEPT !.status = "revoked"] /\ row[q].status = "pending"
  BY <1>2 DEF Ripen, Prune, RevokeHeartbeats
<1>4. \A rec \in RowRec :
        /\ \A e : e = [rec EXCEPT !.ripe = TRUE] =>
             /\ e.status = rec.status /\ e.msg = rec.msg /\ e.retries = rec.retries
             /\ e.token = rec.token
        /\ \A e : e = [rec EXCEPT !.status = "revoked"] =>
             /\ e.status = "revoked" /\ e.msg = rec.msg /\ e.retries = rec.retries
  BY DEF RowRec
<1>5. \A q \in Rows :
        \/ row'[q] = row[q]
        \/ row'[q].status = "absent"
        \/ /\ row'[q].status = row[q].status /\ row[q].status \in {"pending", "sending"}
           /\ row'[q].msg = row[q].msg /\ row'[q].retries = row[q].retries
           /\ row'[q].token = row[q].token
           /\ \/ row[q].status = "pending"
              \/ "clock_step" \in Faults
              \/ \A p \in Procs : row[q].token \notin LiveTokens(p)
        \/ /\ row'[q].status = "revoked" /\ row[q].status = "pending"
           /\ row'[q].msg = row[q].msg /\ row'[q].retries = row[q].retries
  <2> SUFFICES ASSUME NEW q \in Rows
               PROVE  \/ row'[q] = row[q]
                      \/ row'[q].status = "absent"
                      \/ /\ row'[q].status = row[q].status /\ row[q].status \in {"pending", "sending"}
                         /\ row'[q].msg = row[q].msg /\ row'[q].retries = row[q].retries
                         /\ row'[q].token = row[q].token
                         /\ \/ row[q].status = "pending"
                            \/ "clock_step" \in Faults
                            \/ \A p \in Procs : row[q].token \notin LiveTokens(p)
                      \/ /\ row'[q].status = "revoked" /\ row[q].status = "pending"
                         /\ row'[q].msg = row[q].msg /\ row'[q].retries = row[q].retries
    OBVIOUS
  <2>1. NoRow.status = "absent" /\ row[q] \in RowRec
    BY <1>2 DEF NoRow
  <2>2. CASE row'[q] = row[q] \/ row'[q] = NoRow
    BY <2>1, <2>2
  <2>3. CASE row'[q] = [row[q] EXCEPT !.ripe = TRUE]
    <3>1. row'[q].status = row[q].status /\ row'[q].msg = row[q].msg
          /\ row'[q].retries = row[q].retries /\ row'[q].token = row[q].token
      BY <1>4, <2>1, <2>3
    <3>2. row'[q].status # "revoked" \/ row[q].status = "revoked"
      BY <3>1
    <3> QED
      BY <1>3, <2>1, <3>1, <3>2
  <2>4. CASE row'[q] = [row[q] EXCEPT !.status = "revoked"] /\ row[q].status = "pending"
    BY <1>4, <2>1, <2>4
  <2> QED
    BY <1>3, <2>2, <2>3, <2>4
<1>6. \A q \in Rows : Charged(q)
  BY <1>2, <1>5 DEF Charged, Charge
<1>7. SendsInv'
  BY <1>1, <1>6, SendsKept DEF BudgetInv
<1>8. HeldInv'
  <2>1. ASSUME NEW q \in Rows, row'[q].status = "sending", row'[q].msg \notin Legacy
        PROVE  /\ row[q].status = "sending" /\ row'[q].msg = row[q].msg
               /\ row'[q].token = row[q].token
               /\ row'[q].ripe /\ "clock_step" \notin Faults => row[q].ripe
    BY <1>5, <2>1, NotReleased DEF BudgetInv
  <2>2. \A q \in Rows : row'[q].token = row[q].token => \A l \in Lanes : Holds(l, q) => Holds(l, q)'
    BY <1>1 DEF Holds
  <2> QED
    BY <2>1, <2>2, HeldKept DEF BudgetInv
<1> QED
  BY <1>7, <1>8 DEF BudgetInv

\* A message is committed once, before any attempt.
LEMMA CommitSends ==
  ASSUME BaseInv, BaseInv', BudgetInv, NEW l \in Lanes, NEW S \in SUBSET Msgs, CommitIntents(l, S)
  PROVE  BudgetInv'
<1> DEFINE Names(id) == {id[m] : m \in S}
           At(id, r) == CHOOSE m \in S : id[m] = r
<1>1. PICK id \in Injection(S, Rows) :
        /\ row' = [r \in Rows |-> IF r \in Names(id) THEN NewRow(At(id, r)) ELSE row[r]]
        /\ task' = [task EXCEPT ![l] =
                      [r \in Rows |-> IF r \in Names(id) THEN Listed(At(id, r)) ELSE NoTask]]
  BY DEF CommitIntents
<1>2. /\ created' = created \cup S /\ sends' = sends /\ S \cap created = {} /\ LaneIdle(l)
  BY DEF CommitIntents, history
<1>3. \A q \in Names(id) : At(id, q) \in S
  OBVIOUS
<1> HIDE DEF Names, At
<1>4. \A q \in Rows : row'[q] = row[q] \/ \E m \in S : row'[q] = NewRow(m)
  BY <1>1, <1>3
<1>5. \A m \in S : NewRow(m).status = "pending" /\ NewRow(m).msg = m /\ Charge(NewRow(m)) = 0
  BY DEF NewRow, NoRow, Charge
<1>6. SendsInv'
  <2>1. \A m \in S : sends[m] = 0
    BY <1>2 DEF BudgetInv, SendsInv
  <2>2. \A q \in Rows : row'[q].status # "absent" => sends'[row'[q].msg] <= Charge(row'[q])
    <3> SUFFICES ASSUME NEW q \in Rows, row'[q].status # "absent"
                 PROVE  sends[row'[q].msg] <= Charge(row'[q])
      BY <1>2
    <3>1. CASE row'[q] = row[q]
      BY <3>1 DEF BudgetInv, SendsInv
    <3>2. ASSUME NEW m \in S, row'[q] = NewRow(m) PROVE sends[row'[q].msg] <= Charge(row'[q])
      BY <1>5, <2>1, <3>2
    <3> QED
      BY <1>4, <3>1, <3>2
  <2>3. \A q \in Rows : row'[q].status = "sent" => row'[q].retries < MaxRetries
    BY <1>4, <1>5 DEF BudgetInv, SendsInv
  <2> QED
    BY <1>2, <2>2, <2>3 DEF BudgetInv, SendsInv
<1>7. HeldInv'
  <2>1. \A q \in Rows : row'[q].status = "sending" => row'[q] = row[q]
    BY <1>4, <1>5
  <2>2. \A k \in Lanes, q \in Rows : task[k][q].pc # "idle" => task'[k][q] = task[k][q]
    BY <1>1, <1>2 DEF LaneIdle, BaseInv, TypeOK
  <2> QED
    BY <2>1, <2>2, HeldKept DEF BudgetInv, Holds
<1> QED
  BY <1>6, <1>7 DEF BudgetInv

LEMMA BudgetInit == Init => BudgetInv
<1> SUFFICES ASSUME Init PROVE BudgetInv
  OBVIOUS
<1>1. BaseInv /\ sends = [m \in Msgs |-> 0]
  BY InitBase DEF Init
<1>2. \A r \in Rows : row[r].status \in {"pending", "absent"}
  BY InitRows
<1>3. \A r \in Rows : /\ row[r].status # "absent" => row[r].msg \in Msgs
                      /\ row[r] \in RowRec
  BY <1>1 DEF BaseInv, RowsInv, TypeOK
<1>4. SendsInv
  <2>1. \A r \in Rows : row[r].status # "absent" => sends[row[r].msg] <= Charge(row[r])
    <3> SUFFICES ASSUME NEW r \in Rows, row[r].status # "absent"
                 PROVE  sends[row[r].msg] <= Charge(row[r])
      OBVIOUS
    <3>1. sends[row[r].msg] = 0 /\ Charge(row[r]) \in Nat
      BY <1>1, <1>3, ChargeType
    <3> QED
      BY <3>1
  <2> QED
    BY <1>1, <1>2, <2>1, ConstantsAssumption DEF SendsInv
<1>5. HeldInv
  BY <1>2 DEF HeldInv
<1> QED
  BY <1>4, <1>5 DEF BudgetInv

LEMMA BudgetNext ==
  ASSUME KnownOutcomes
  PROVE  BaseInv /\ BaseInv' /\ BatchInv /\ StraysInv /\ BudgetInv /\ [Next]_vars => BudgetInv'
<1> SUFFICES ASSUME BaseInv, BaseInv', BatchInv, StraysInv, BudgetInv, [Next]_vars PROVE BudgetInv'
  OBVIOUS
<1>1. CASE UNCHANGED vars
  BY <1>1 DEF vars, BudgetInv, SendsInv, HeldInv, Holds
<1>2. ASSUME NEW l \in Lanes, NEW r \in Rows, TaskStep(l, r) \/ Accept(l, r) PROVE BudgetInv'
  BY <1>2, WinSends, TaskSends
<1>3. CASE \/ \E p \in Procs : Crash(p)
           \/ \E l \in Lanes : Cancel(l)
           \/ \E t \in Topics : DeleteTopic(t)
  BY <1>3 DEF KnownOutcomes, Crash, Cancel, DeleteTopic
<1>4. CASE \E s \in stray : LateAccept(s) \/ LateEnd(s)
  BY <1>4 DEF KnownOutcomes, StraysInv
<1> QED
  BY <1>1, <1>2, <1>3, <1>4, CommitSends, DrainSends, AroundSends DEF Next

\* Where every send ends with an answer that is written down (no deadline cuts it off, no
\* crash or cancellation takes the task, the second apply succeeds, no topic is deleted under
\* a running batch, and the clock does not step under a second process), no message is
\* physically sent more than max_retries times, however checks, resends and drains of several
\* processes overlap, first applies fail and acknowledgements get lost.
THEOREM SendsWithinBudget ==
  ASSUME KnownOutcomes
  PROVE  Spec => []WithinBudget
<1>1. StrongInv => BaseInv /\ BatchInv /\ StraysInv
  BY DEF StrongInv, KnownOutcomes
<1>2. BaseInv /\ BaseInv' /\ BatchInv /\ StraysInv /\ BudgetInv /\ [Next]_vars => BudgetInv'
  BY BudgetNext
<1>3. BudgetInv => WithinBudget
  BY DEF BudgetInv, SendsInv, WithinBudget
<1> QED
  BY <1>1, <1>2, <1>3, BudgetInit, StrongAlways, PTL DEF Spec

-----------------------------------------------------------------------------
(* The table implements the outbox: one status per message. *)

\* Every named message is in one row, and the rows of the table name messages.
LEMMA StandingIs ==
  ASSUME BaseInv
  PROVE  /\ \A r \in Rows : row[r].msg \in Msgs => Standing[row[r].msg] = row[r].status
         /\ \A m \in Msgs : (\A r \in Rows : row[r].msg # m) => Standing[m] = "none"
         /\ \A m \in Msgs : m \in Taken <=> accepts[m] > 0 /\ \E r \in Rows : row[r].msg = m
<1>1. DOMAIN row = Rows
  BY DEF BaseInv, TypeOK
<1>2. ASSUME NEW r \in Rows, row[r].msg \in Msgs
      PROVE  Standing[row[r].msg] = row[r].status
  <2>1. RowOf(row[r].msg) \in Rows /\ row[RowOf(row[r].msg)].msg = row[r].msg
    BY <1>1 DEF RowOf
  <2>2. row[r].msg # NoMsg
    BY <1>2, ConstantsAssumption
  <2>3. RowOf(row[r].msg) = r
    BY <2>1, <2>2 DEF BaseInv, RowsInv
  <2> QED
    BY <1>1, <1>2, <2>3 DEF Standing, Named
<1>3. \A m \in Msgs : (\A r \in Rows : row[r].msg # m) => Standing[m] = "none"
  BY <1>1 DEF Standing, Named
<1>4. \A m \in Msgs : m \in Taken <=> accepts[m] > 0 /\ \E r \in Rows : row[r].msg = m
  BY <1>1 DEF Taken, Named
<1> QED
  BY <1>2, <1>3, <1>4

LEMMA StandingNext ==
  ASSUME BaseInv'
  PROVE  /\ \A r \in Rows : row'[r].msg \in Msgs => Standing'[row'[r].msg] = row'[r].status
         /\ \A m \in Msgs : (\A r \in Rows : row'[r].msg # m) => Standing'[m] = "none"
         /\ \A m \in Msgs : m \in Taken' <=> accepts'[m] > 0 /\ \E r \in Rows : row'[r].msg = m
<1>1. DOMAIN row' = Rows
  BY DEF BaseInv, TypeOK
<1>2. ASSUME NEW r \in Rows, row'[r].msg \in Msgs
      PROVE  Standing'[row'[r].msg] = row'[r].status
  <2> DEFINE m == row'[r].msg
             q == CHOOSE q \in DOMAIN row' : row'[q].msg = m
  <2>1. q \in Rows /\ row'[q].msg = m
    BY <1>1
  <2>2. m # NoMsg
    BY <1>2, ConstantsAssumption
  <2>3. q = r
    BY <2>1, <2>2 DEF BaseInv, RowsInv
  <2> QED
    BY <1>1, <1>2, <2>3 DEF Standing, Named, RowOf
<1>3. \A m \in Msgs : (\A r \in Rows : row'[r].msg # m) => Standing'[m] = "none"
  BY <1>1 DEF Standing, Named
<1>4. \A m \in Msgs : m \in Taken' <=> accepts'[m] > 0 /\ \E r \in Rows : row'[r].msg = m
  BY <1>1 DEF Taken, Named
<1> QED
  BY <1>2, <1>3, <1>4

\* A function of the messages that agrees with every row of the next table is its standing.
LEMMA StandingBecomes ==
  ASSUME BaseInv', NEW s,
         s = [m \in Msgs |-> s[m]],
         \A r \in Rows : row'[r].msg \in Msgs => s[row'[r].msg] = row'[r].status,
         \A m \in Msgs : (\A r \in Rows : row'[r].msg # m) => s[m] = "none"
  PROVE  Standing' = s
<1>1. \A m \in Msgs : Standing'[m] = s[m]
  BY StandingNext
<1>2. Standing' = [m \in Msgs |-> Standing'[m]]
  BY DEF Standing
<1> HIDE DEF Standing
<1> QED
  BY <1>1, <1>2

\* While no row changes its message, what was taken grows only by what is accepted.
LEMMA TakenKept ==
  ASSUME BaseInv, BaseInv', UNCHANGED accepts, \A r \in Rows : row'[r].msg = row[r].msg
  PROVE  Taken' = Taken
<1>1. \A m \in Msgs : m \in Taken' <=> m \in Taken
  BY StandingIs, StandingNext
<1>2. Taken \subseteq Msgs /\ Taken' \subseteq Msgs
  BY DEF Taken
<1> QED
  BY <1>1, <1>2

\* One row changes its status and keeps its message.
LEMMA OneMoves ==
  ASSUME BaseInv, BaseInv', UNCHANGED accepts, NEW r \in Rows,
         row[r].msg \in Msgs, row'[r].msg = row[r].msg,
         \A q \in Rows : q # r => row'[q] = row[q]
  PROVE  /\ Standing' = [Standing EXCEPT ![row[r].msg] = row'[r].status]
         /\ Taken' = Taken
<1> DEFINE s == [Standing EXCEPT ![row[r].msg] = row'[r].status]
<1>1. /\ s = [m \in Msgs |-> s[m]]
      /\ s[row[r].msg] = row'[r].status
      /\ \A m \in Msgs : m # row[r].msg => s[m] = Standing[m]
  BY DEF Standing
<1> HIDE DEF s
<1>2. \A q \in Rows : row'[q].msg = row[q].msg
  OBVIOUS
<1>3. \A q \in Rows : q # r => row[q].msg # row[r].msg
  BY ConstantsAssumption DEF BaseInv, RowsInv
<1>4. \A q \in Rows : row'[q].msg \in Msgs => s[row'[q].msg] = row'[q].status
  BY <1>1, <1>2, <1>3, StandingIs
<1>5. \A m \in Msgs : (\A q \in Rows : row'[q].msg # m) => s[m] = "none"
  BY <1>1, <1>2, StandingIs
<1>6. Standing' = s
  BY <1>1, <1>4, <1>5, StandingBecomes
<1> QED
  BY <1>2, <1>6, TakenKept DEF s

\* No row changes its status or its message.
LEMMA NothingMoves ==
  ASSUME BaseInv, BaseInv', UNCHANGED accepts,
         \A r \in Rows : row'[r].msg = row[r].msg /\ row'[r].status = row[r].status
  PROVE  UNCHANGED <<Standing, Taken>>
<1>1. Standing = [m \in Msgs |-> Standing[m]]
  BY DEF Standing
<1>2. Standing' = Standing
  <2>1. \A r \in Rows : row'[r].msg \in Msgs => Standing[row'[r].msg] = row'[r].status
    BY StandingIs
  <2>2. \A m \in Msgs : (\A r \in Rows : row'[r].msg # m) => Standing[m] = "none"
    BY StandingIs
  <2> HIDE DEF Standing
  <2> QED
    BY <1>1, <2>1, <2>2, StandingBecomes
<1> QED
  BY <1>2, TakenKept

\* What no transaction has committed yet, no target has taken.
UnbornInv == \A m \in Msgs : m \notin created => accepts[m] = 0

\* What holds of the tasks while topics stay and live claims are safe.
CalmInv == BaseInv /\ BatchInv /\ ClaimInv /\ UnbornInv

\* No thread is left behind, or its row waits for it.
NoneAstray == stray = {} \/ ParkedInv

\* A task that is not idle works on the row its message is in.
LEMMA TaskNamesRow ==
  ASSUME BaseInv, BatchInv, NEW l \in Lanes, NEW r \in Rows, task[l][r].pc # "idle"
  PROVE  /\ row[r].msg = task[l][r].msg /\ row[r].msg \in Msgs /\ row[r].msg \in created
         /\ Standing[row[r].msg] = row[r].status
<1>1. row[r].msg = task[l][r].msg /\ row[r].msg \in Msgs
  BY DEF BaseInv, BatchInv, TasksInv
<1>2. row[r].status # "absent"
  BY <1>1, ConstantsAssumption DEF BaseInv, RowsInv
<1> QED
  BY <1>1, <1>2, StandingIs DEF BaseInv, RowsInv

LEMMA TaskStepHistory ==
  ASSUME NEW l \in Lanes, NEW r \in Rows, TaskStep(l, r)
  PROVE  UNCHANGED <<created, accepts>>
<1>1. CASE WinClaim(l, r)
  BY <1>1 DEF WinClaim
<1>2. CASE ~WinClaim(l, r)
  BY <1>2 DEF TaskStep, history, LoseClaim, DropUnaddressed, Return, TimeOut, SendRaises,
       Apply, ApplyRaises, ApplyAgain
<1> QED
  BY <1>1, <1>2

\* What is committed stays so, and only a target takes a message.
LEMMA NextHistory ==
  ASSUME Next
  PROVE  /\ created \subseteq created'
         /\ \/ UNCHANGED accepts
            \/ \E l \in Lanes, r \in Rows : Accept(l, r)
            \/ \E s \in stray : LateAccept(s)
<1>1. CASE \E l \in Lanes, S \in SUBSET Msgs : CommitIntents(l, S)
  BY <1>1 DEF CommitIntents, history
<1>2. CASE \E p \in Procs : Drain(p) \/ Crash(p)
  BY <1>2 DEF Drain, Crash, history
<1>3. CASE \E l \in Lanes, r \in Rows : TaskStep(l, r)
  BY <1>3, TaskStepHistory
<1>4. CASE \E l \in Lanes, r \in Rows : Accept(l, r)
  BY <1>4 DEF Accept
<1>5. CASE \/ \E l \in Lanes : Cancel(l)
           \/ \E r \in Rows : Ripen(r) \/ Prune(r)
           \/ \E T : RevokeHeartbeats(T)
           \/ \E t \in Topics : DeleteTopic(t)
  BY <1>5 DEF Cancel, Ripen, Prune, RevokeHeartbeats, DeleteTopic, history
<1>6. CASE \E s \in stray : LateAccept(s) \/ LateEnd(s)
  BY <1>6 DEF LateAccept, LateEnd, history
<1> QED
  BY <1>1, <1>2, <1>3, <1>4, <1>5, <1>6 DEF Next

\* A thread that may still deliver belongs to a row that is claimed.
LEMMA StrayNamesRow ==
  ASSUME BaseInv, NoneAstray, NEW s \in stray
  PROVE  s.msg \in Msgs /\ s.msg \in created /\ Standing[s.msg] = "sending"
         /\ \E r \in Rows : row[r].msg = s.msg
<1>1. PICK r \in Rows : row[r].status = "sending" /\ row[r].msg = s.msg
  BY DEF NoneAstray, ParkedInv
<1>2. s.msg \in Msgs
  BY DEF BaseInv, TypeOK, StrayRec
<1> QED
  BY <1>1, <1>2, StandingIs DEF BaseInv, RowsInv

LEMMA UnbornNext ==
  ASSUME BaseInv, BatchInv, NoneAstray, UnbornInv, Next
  PROVE  UnbornInv'
<1>1. CASE UNCHANGED accepts
  BY <1>1, NextHistory DEF UnbornInv
<1>2. ASSUME NEW l \in Lanes, NEW r \in Rows, Accept(l, r)
      PROVE  UnbornInv'
  <2>1. task[l][r].msg \in created
    BY <1>2, TaskNamesRow DEF Accept
  <2>2. accepts \in [Msgs -> 0..CountCap]
    BY DEF BaseInv, TypeOK
  <2>3. \A m \in Msgs : m # task[l][r].msg => accepts'[m] = accepts[m]
    BY <1>2, <2>2 DEF Accept
  <2> QED
    BY <2>1, <2>3, NextHistory DEF UnbornInv
<1>3. ASSUME NEW s \in stray, LateAccept(s)
      PROVE  UnbornInv'
  <2>1. s.msg \in created
    BY StrayNamesRow
  <2>2. accepts \in [Msgs -> 0..CountCap]
    BY DEF BaseInv, TypeOK
  <2>3. \A m \in Msgs : m # s.msg => accepts'[m] = accepts[m]
    BY <1>3, <2>2 DEF LateAccept
  <2> QED
    BY <2>1, <2>3, NextHistory DEF UnbornInv
<1> QED
  BY <1>1, <1>2, <1>3, NextHistory

\* An outcome is recorded under the claim it belongs to, or not at all.
LEMMA OutcomeKeepsPromise ==
  ASSUME BaseInv, BaseInv', BatchInv, CountCap > 0, UNCHANGED accepts,
         NEW l \in Lanes, NEW r \in Rows, NEW out \in Outcomes,
         task[l][r].pc # "idle", out = "ok" => task[l][r].out = "ok",
         ApplyOutcome(l, r, out) \/ UNCHANGED row
  PROVE  [Promise!Next]_(Promise!vars)
<1>1. CASE UNCHANGED row
  BY <1>1, NothingMoves DEF Promise!vars
<1>2. CASE ~UNCHANGED row
  <2> DEFINE m == row[r].msg
  <2>1. /\ \A q \in Rows : q # r => row'[q] = row[q]
        /\ row'[r].msg = m
        /\ row'[r].status \in {"sent", "abandoned", "pending"}
        /\ row[r].status = "sending"
        /\ row'[r].status = "sent" => out = "ok"
    <3>1. row' # row /\ ApplyOutcome(l, r, out)
      BY <1>2
    <3>2. row'[r] # row[r]
      BY <3>1, ApplyBase DEF BaseInv, TypeOK
    <3> QED
      BY <3>1, <3>2, ApplyBase
  <2>2. m = task[l][r].msg /\ m \in Msgs /\ Standing[m] = "sending"
    BY <2>1, TaskNamesRow
  <2>3. Standing' = [Standing EXCEPT ![m] = row'[r].status] /\ Taken' = Taken
    BY <2>1, <2>2, OneMoves
  <2>4. CASE row'[r].status = "sent"
    <3>1. accepts[m] > 0
      BY <2>1, <2>2, <2>4 DEF BaseInv, TasksInv
    <3>2. m \in Taken
      BY <2>2, <3>1, StandingIs
    <3>3. Promise!Sent(m)
      BY <2>2, <2>3, <2>4, <3>2 DEF Promise!Sent
    <3> QED
      BY <2>2, <3>3 DEF Promise!Next, Promise!Settle
  <2>5. CASE row'[r].status # "sent"
    <3>1. Promise!Fail(m, row'[r].status) /\ row'[r].status \in {"pending", "abandoned"}
      BY <2>1, <2>2, <2>3, <2>5 DEF Promise!Fail
    <3> QED
      BY <2>2, <3>1 DEF Promise!Next, Promise!Settle
  <2> QED
    BY <2>4, <2>5
<1> QED
  BY <1>1, <1>2

\* One step of a task: a claim is won, an outcome is recorded, or the outbox sees nothing.
LEMMA TaskKeepsPromise ==
  ASSUME CalmInv, BaseInv', CountCap > 0, NEW l \in Lanes, NEW r \in Rows, TaskStep(l, r)
  PROVE  [Promise!Next]_(Promise!vars)
<1> USE DEF CalmInv
<1>1. task[l][r].pc # "idle"
  BY DEF TaskStep, WinClaim, LoseClaim, DropUnaddressed, Return, TimeOut, SendRaises,
       Apply, ApplyRaises, ApplyAgain
<1>2. CASE WinClaim(l, r)
  <2> DEFINE m == row[r].msg
             new == Claimed(row[r], FreshToken)
  <2>1. row \in [Rows -> RowRec]
    BY DEF BaseInv, TypeOK
  <2>2. row' = [row EXCEPT ![r] = new] /\ row[r].status = "pending" /\ UNCHANGED accepts
    BY <1>2 DEF WinClaim, Due
  <2>3. new.status = "sending" /\ new.msg = m
    BY <2>1 DEF Claimed, RowRec
  <2> HIDE DEF new
  <2>4. row'[r] = new /\ \A q \in Rows : q # r => row'[q] = row[q]
    BY <2>1, <2>2
  <2>5. m \in Msgs /\ Standing[m] = "pending"
    BY <1>1, <2>2, TaskNamesRow
  <2>6. Standing' = [Standing EXCEPT ![m] = "sending"] /\ Taken' = Taken
    BY <2>2, <2>3, <2>4, <2>5, OneMoves
  <2>7. Promise!Claim(m)
    BY <2>5, <2>6 DEF Promise!Claim
  <2> QED
    BY <2>5, <2>7 DEF Promise!Next
<1>3. UNCHANGED accepts
  BY TaskStepHistory
<1>4. CASE LoseClaim(l, r) \/ TimeOut(l, r) \/ SendRaises(l, r)
           \/ \E out \in Outcomes \ {"none"} : Return(l, r, out)
  <2>1. UNCHANGED row
    BY <1>4 DEF LoseClaim, TimeOut, SendRaises, Return
  <2> QED
    BY <1>3, <2>1, NothingMoves DEF Promise!vars
<1>5. CASE DropUnaddressed(l, r)
  <2>1. "terminal" \in Outcomes
    BY DEF Outcomes
  <2> QED
    BY <1>1, <1>3, <1>5, <2>1, OutcomeKeepsPromise DEF DropUnaddressed
<1>6. CASE Apply(l, r) \/ ApplyRaises(l, r)
  <2>1. task[l][r].out \in Outcomes
    BY DEF BaseInv, TypeOK, TaskRec
  <2> QED
    BY <1>1, <1>3, <1>6, <2>1, OutcomeKeepsPromise DEF Apply, ApplyRaises
<1>7. CASE ApplyAgain(l, r)
  <2> DEFINE out == IF task[l][r].out = "ok" THEN "ok" ELSE "failed"
  <2>1. out \in Outcomes /\ (out = "ok" => task[l][r].out = "ok")
    BY DEF Outcomes
  <2>2. ApplyOutcome(l, r, out) \/ UNCHANGED row
    BY <1>7 DEF ApplyAgain
  <2> HIDE DEF out
  <2> QED
    BY <1>1, <1>3, <2>1, <2>2, OutcomeKeepsPromise
<1> QED
  BY <1>2, <1>4, <1>5, <1>6, <1>7 DEF TaskStep

\* One more acceptance of a message that is claimed.
LEMMA TakeKeepsPromise ==
  ASSUME BaseInv, BaseInv', CountCap > 0, NEW m \in Msgs, Standing[m] = "sending",
         \E r \in Rows : row[r].msg = m, UNCHANGED row,
         accepts' = [accepts EXCEPT ![m] = IF @ < CountCap THEN @ + 1 ELSE @]
  PROVE  Promise!Next
<1>1. accepts \in [Msgs -> 0..CountCap] /\ CountCap \in Nat
  BY ConstantsAssumption DEF BaseInv, TypeOK
<1>2. accepts'[m] > 0 /\ \A n \in Msgs : n # m => accepts'[n] = accepts[n]
  BY <1>1
<1>3. UNCHANGED Standing
  BY DEF Standing, Named, RowOf
<1>4. \A n \in Msgs : n \in Taken' <=> n \in Taken \/ n = m
  BY <1>1, <1>2, StandingIs, StandingNext
<1>5. Taken \subseteq Msgs /\ Taken' \subseteq Msgs
  BY DEF Taken
<1>6. Taken' = Taken \cup {m}
  BY <1>4, <1>5
<1>7. Promise!Accept(m)
  BY <1>3, <1>6 DEF Promise!Accept
<1> QED
  BY <1>7 DEF Promise!Next

\* The target takes a message that is claimed: the claim of a live send stands.
LEMMA AcceptKeepsPromise ==
  ASSUME CalmInv, BaseInv', CountCap > 0, NEW l \in Lanes, NEW r \in Rows, Accept(l, r)
  PROVE  Promise!Next
<1> USE DEF CalmInv
<1>1. row[r].msg = task[l][r].msg /\ row[r].msg \in Msgs /\ Standing[row[r].msg] = row[r].status
  BY TaskNamesRow DEF Accept
<1>2. row[r].status = "sending"
  BY DEF Accept, ClaimInv, Live, Fenced
<1> QED
  BY <1>1, <1>2, TakeKeepsPromise DEF Accept

\* It takes one from a thread nobody waits for: the row waits.
LEMMA LateKeepsPromise ==
  ASSUME CalmInv, NoneAstray, BaseInv', CountCap > 0, NEW s \in stray, LateAccept(s)
  PROVE  Promise!Next
<1>1. s.msg \in Msgs /\ Standing[s.msg] = "sending" /\ \E r \in Rows : row[r].msg = s.msg
  BY StrayNamesRow DEF CalmInv
<1> QED
  BY <1>1, TakeKeepsPromise DEF LateAccept, CalmInv

\* A drain moves many rows at once: stale claims back to the queue, spent rows out of it.
LEMMA DrainKeepsPromise ==
  ASSUME BaseInv, BaseInv', NEW p \in Procs, Drain(p)
  PROVE  Promise!Next
<1> DEFINE Stale(q) == Rearmed(q)
           Spent(q) == Queued(q) /\ row'[q].status = "abandoned"
           stale == {m \in Msgs : \E q \in Rows : row[q].msg = m /\ Stale(q)}
           spent == {m \in Msgs : \E q \in Rows : row[q].msg = m /\ Spent(q)}
           s == [m \in Msgs |-> CASE m \in stale -> "pending"
                                  [] m \in spent -> "abandoned"
                                  [] OTHER       -> Standing[m]]
<1>1. /\ \A q \in Rows : Kept(q) \/ Spent(q) \/ Stale(q)
      /\ \A q \in Rows : Stale(q) => /\ row[q].status = "sending" /\ row'[q].status = "pending"
                                     /\ row'[q].msg = row[q].msg
      /\ \A q \in Rows : Spent(q) => /\ row[q].status = "pending" /\ row'[q].status = "abandoned"
                                     /\ row'[q].msg = row[q].msg
  BY DrainRows DEF Rearmed, Queued
<1> HIDE DEF Stale, Spent
<1>2. UNCHANGED accepts /\ \A q \in Rows : row'[q].msg = row[q].msg
  BY <1>1 DEF Drain, history, Kept
<1>3. \A q, r \in Rows : row[q].msg = row[r].msg /\ row[q].msg \in Msgs => q = r
  BY ConstantsAssumption DEF BaseInv, RowsInv
<1>4. (\A m \in stale : Standing[m] = "sending") /\ \A m \in spent : Standing[m] = "pending"
  BY <1>1, StandingIs
<1>5. \A q \in Rows : row'[q].msg \in Msgs => s[row'[q].msg] = row'[q].status
  <2> SUFFICES ASSUME NEW q \in Rows, row[q].msg \in Msgs
               PROVE  s[row[q].msg] = row'[q].status
    BY <1>2
  <2>1. row[q].msg \in stale <=> Stale(q)
    BY <1>3
  <2>2. row[q].msg \in spent <=> Spent(q)
    BY <1>3
  <2> HIDE DEF stale, spent
  <2>3. s[row[q].msg] = CASE Stale(q) -> "pending" [] Spent(q) -> "abandoned"
                          [] OTHER -> Standing[row[q].msg]
    BY <2>1, <2>2
  <2> QED
    BY <1>1, <2>3, StandingIs DEF Kept
<1>6. \A m \in Msgs : (\A q \in Rows : row'[q].msg # m) => s[m] = "none"
  BY <1>2, StandingIs
<1>7. s = [m \in Msgs |-> s[m]]
  OBVIOUS
<1>8. stale \in SUBSET Msgs /\ spent \in SUBSET Msgs
  OBVIOUS
<1>9. Standing' = s
  <2> HIDE DEF s
  <2> QED
    BY <1>5, <1>6, <1>7, StandingBecomes
<1>10. Taken' = Taken
  BY <1>2, TakenKept
<1>11. Promise!Sweep(stale, spent)
  <2> HIDE DEF stale, spent
  <2> QED
    BY <1>4, <1>9, <1>10 DEF Promise!Sweep
<1> HIDE DEF stale, spent, s
<1> QED
  BY <1>8, <1>11 DEF Promise!Next

\* A transaction of the owner that revokes R, forgets F and queues Q, message by message.
Writes(R, F, Q) ==
  /\ R \in SUBSET Msgs /\ F \in SUBSET Msgs /\ Q \in SUBSET Msgs
  /\ \A m \in R : Standing[m] = "pending"
  /\ \A m \in F : Standing[m] \notin {"pending", "sending"}
  /\ \A m \in Q : Standing[m] = "none"
  /\ \A m \in Q : Standing'[m] = "pending"
  /\ \A m \in F \ Q : Standing'[m] = "none"
  /\ \A m \in R \ (Q \cup F) : Standing'[m] = "revoked"
  /\ \A m \in Msgs \ (Q \cup F \cup R) : Standing'[m] = Standing[m]
  /\ Taken' = Taken \ F

\* The owner writes: what a transaction revokes, forgets and queues it finds as it must be.
LEMMA WriteStep ==
  ASSUME NEW R, NEW F, NEW Q, Writes(R, F, Q)
  PROVE  Promise!Next
<1>1. Standing' = [m \in Msgs |-> Standing'[m]]
  BY DEF Standing
<1> HIDE DEF Standing
<1>2. Standing' = [m \in Msgs |-> IF m \in Q THEN "pending" ELSE IF m \in F THEN "none"
                                  ELSE IF m \in R THEN "revoked" ELSE Standing[m]]
  <2>1. ASSUME NEW m \in Msgs
        PROVE  Standing'[m] = IF m \in Q THEN "pending" ELSE IF m \in F THEN "none"
                              ELSE IF m \in R THEN "revoked" ELSE Standing[m]
    BY DEF Writes
  <2> QED
    BY <1>1, <2>1
<1>3. Promise!Write(R, F, Q)
  BY <1>2 DEF Promise!Write, Writes
<1> QED
  BY <1>3 DEF Promise!Next, Writes

\* A transaction queues messages no row ever named.
LEMMA CommitKeepsPromise ==
  ASSUME BaseInv, BaseInv', UnbornInv, NEW l \in Lanes, NEW S \in SUBSET Msgs, CommitIntents(l, S)
  PROVE  Promise!Next
<1> DEFINE Names(id) == {id[m] : m \in S}
           At(id, r) == CHOOSE m \in S : id[m] = r
<1>1. PICK id \in Injection(S, Rows) :
        /\ AreNextIds(Names(id))
        /\ row' = [r \in Rows |-> IF r \in Names(id) THEN NewRow(At(id, r)) ELSE row[r]]
  BY DEF CommitIntents
<1>2. S \cap created = {} /\ UNCHANGED accepts
  BY DEF CommitIntents, history
<1>3. /\ id \in [S -> Rows]
      /\ \A m \in S : id[m] \in Names(id) /\ id[m] \in Rows /\ At(id, id[m]) = m
  BY <1>1 DEF Injection, IsInjective
<1>4. \A r \in Names(id) : At(id, r) \in S
  OBVIOUS
<1>5. \A r \in Names(id) : r \in Rows /\ row[r].status = "absent"
  <2>1. \A r \in Names(id) : r \in Rows /\ ~(r < r)
    BY <1>3, ConstantsAssumption DEF Rows
  <2> QED
    BY <1>1, <2>1 DEF AreNextIds
<1> HIDE DEF Names, At
<1>6. \A m \in S : row'[id[m]].msg = m /\ row'[id[m]].status = "pending"
  BY <1>1, <1>3, NewRowFacts
<1>7. \A r \in Rows : r \in Names(id) => row'[r].msg \in S
  BY <1>1, <1>4, NewRowFacts
<1>8. \A r \in Rows : r \notin Names(id) => row'[r] = row[r]
  BY <1>1
<1>9. \A r \in Rows : row[r].msg \notin S
  BY <1>2, ConstantsAssumption DEF BaseInv, RowsInv
<1>10. \A m \in S : Standing[m] = "none" /\ Standing'[m] = "pending"
  BY <1>3, <1>6, <1>9, StandingIs, StandingNext
<1>11. \A r \in Names(id) : row[r].msg = NoMsg
  BY <1>5 DEF BaseInv, RowsInv
<1>12. ASSUME NEW m \in Msgs, m \notin S
       PROVE  Standing'[m] = Standing[m] /\ (m \in Taken' <=> m \in Taken)
  <2>1. CASE \E r \in Rows : row[r].msg = m
    <3>1. PICK r \in Rows : row[r].msg = m
      BY <2>1
    <3>2. r \notin Names(id)
      BY <1>11, <3>1, ConstantsAssumption
    <3>3. row'[r] = row[r]
      BY <1>8, <3>2
    <3> QED
      BY <1>2, <3>1, <3>3, StandingIs, StandingNext
  <2>2. CASE \A r \in Rows : row[r].msg # m
    <3>1. \A r \in Rows : row'[r].msg # m
      BY <1>7, <1>8, <1>12, <2>2
    <3> QED
      BY <2>2, <3>1, StandingIs, StandingNext
  <2> QED
    BY <2>1, <2>2
<1>13. \A m \in S : m \notin Taken /\ m \notin Taken'
  <2>1. \A m \in S : ~(accepts[m] > 0) /\ ~(accepts'[m] > 0)
    BY <1>2 DEF UnbornInv
  <2> QED
    BY <2>1, StandingIs, StandingNext
<1>14. Taken' = Taken \ {}
  <2>1. Taken \subseteq Msgs /\ Taken' \subseteq Msgs
    BY DEF Taken
  <2> QED
    BY <1>12, <1>13, <2>1
<1>15. Writes({}, {}, S)
  BY <1>10, <1>12, <1>14 DEF Writes
<1> QED
  BY <1>15, WriteStep

\* A heartbeat transition revokes queued messages only.
LEMMA RevokeKeepsPromise ==
  ASSUME BaseInv, BaseInv', NEW T, RevokeHeartbeats(T)
  PROVE  Promise!Next
<1> DEFINE Hit(r) == row[r].status = "pending" /\ row[r].msg \in Heartbeats /\ TopicOf[row[r].msg] \in T
           R == {m \in Msgs : \E r \in Rows : row[r].msg = m /\ Hit(r)}
<1>1. row \in [Rows -> RowRec] /\ UNCHANGED accepts
  BY DEF BaseInv, TypeOK, RevokeHeartbeats, history
<1>2. \A r \in Rows : row'[r] = IF Hit(r) THEN [row[r] EXCEPT !.status = "revoked"] ELSE row[r]
  BY DEF RevokeHeartbeats
<1>3. \A r \in Rows : [row[r] EXCEPT !.status = "revoked"].status = "revoked"
                      /\ [row[r] EXCEPT !.status = "revoked"].msg = row[r].msg
  BY <1>1, RevokedRow
<1>4. \A r \in Rows : /\ Hit(r) => row[r].status = "pending" /\ row'[r].status = "revoked"
                      /\ ~Hit(r) => row'[r].status = row[r].status
                      /\ row'[r].msg = row[r].msg
  BY <1>2, <1>3
<1> HIDE DEF Hit
<1>5. \A q, r \in Rows : row[q].msg = row[r].msg /\ row[q].msg \in Msgs => q = r
  BY ConstantsAssumption DEF BaseInv, RowsInv
<1>6. \A m \in R : Standing[m] = "pending" /\ Standing'[m] = "revoked"
  BY <1>4, StandingIs, StandingNext
<1>7. ASSUME NEW m \in Msgs, m \notin R
      PROVE  Standing'[m] = Standing[m]
  <2>1. CASE \E r \in Rows : row[r].msg = m
    <3>1. PICK r \in Rows : row[r].msg = m
      BY <2>1
    <3>2. ~Hit(r)
      BY <1>7, <3>1
    <3> QED
      BY <1>4, <3>1, <3>2, StandingIs, StandingNext
  <2>2. CASE \A r \in Rows : row[r].msg # m
    BY <1>4, <2>2, StandingIs, StandingNext
  <2> QED
    BY <2>1, <2>2
<1>8. Taken' = Taken \ {}
  BY <1>1, <1>4, TakenKept
<1>9. R \in SUBSET Msgs
  OBVIOUS
<1> HIDE DEF R
<1>10. Writes(R, {}, {})
  BY <1>6, <1>7, <1>8, <1>9 DEF Writes
<1> QED
  BY <1>10, WriteStep

\* Retention forgets settled messages only.
LEMMA PruneKeepsPromise ==
  ASSUME BaseInv, BaseInv', NEW r \in Rows, Prune(r)
  PROVE  Promise!Next
<1> DEFINE m == row[r].msg
<1>1. /\ row'[r] = NoRow /\ \A q \in Rows : q # r => row'[q] = row[q]
      /\ row[r].status \in Terminal /\ UNCHANGED accepts
  BY DEF BaseInv, TypeOK, Prune, history
<1>2. m \in Msgs /\ row'[r].msg = NoMsg
  <2>1. row[r].status # "absent" /\ row[r] \in RowRec
    BY <1>1 DEF Terminal, BaseInv, TypeOK
  <2> QED
    BY <1>1, <2>1 DEF NoRow, BaseInv, RowsInv, RowRec
<1>3. \A q \in Rows : q # r => row[q].msg # m
  BY <1>2, ConstantsAssumption DEF BaseInv, RowsInv
<1>4. \A q \in Rows : row'[q].msg # m
  BY <1>1, <1>2, <1>3, ConstantsAssumption
<1>5. Standing[m] \notin {"pending", "sending"} /\ Standing'[m] = "none"
      /\ m \notin Taken'
  BY <1>1, <1>2, <1>4, StandingIs, StandingNext DEF Terminal
<1>6. ASSUME NEW n \in Msgs, n # m
      PROVE  Standing'[n] = Standing[n] /\ (n \in Taken' <=> n \in Taken)
  <2>1. CASE \E q \in Rows : row[q].msg = n
    <3>1. PICK q \in Rows : row[q].msg = n
      BY <2>1
    <3>2. row'[q] = row[q]
      BY <1>1, <1>6, <3>1
    <3> QED
      BY <1>1, <3>1, <3>2, StandingIs, StandingNext
  <2>2. CASE \A q \in Rows : row[q].msg # n
    <3>1. \A q \in Rows : row'[q].msg # n
      BY <1>1, <1>2, <2>2, ConstantsAssumption
    <3> QED
      BY <2>2, <3>1, StandingIs, StandingNext
  <2> QED
    BY <2>1, <2>2
<1>7. Taken' = Taken \ {m}
  <2>1. Taken \subseteq Msgs /\ Taken' \subseteq Msgs
    BY DEF Taken
  <2> QED
    BY <1>5, <1>6, <2>1
<1> HIDE DEF m
<1>8. Writes({}, {m}, {})
  BY <1>2, <1>5, <1>6, <1>7 DEF Writes
<1> QED
  BY <1>8, WriteStep

LEMMA NextKeepsPromise ==
  ASSUME CalmInv, NoneAstray, BaseInv', CountCap > 0, "topic_delete" \notin Faults, [Next]_vars
  PROVE  [Promise!Next]_(Promise!vars)
<1>1. CASE UNCHANGED vars
  BY <1>1 DEF vars, Promise!vars, Standing, Taken, Named, RowOf
<1>2. CASE \/ \E p \in Procs : Crash(p)
           \/ \E l \in Lanes : Cancel(l)
  BY <1>2 DEF Crash, Cancel, history, Promise!vars, Standing, Taken, Named, RowOf
<1>3. ASSUME NEW r \in Rows, Ripen(r)
      PROVE  [Promise!Next]_(Promise!vars)
  <2> DEFINE new == [row[r] EXCEPT !.ripe = TRUE]
  <2>1. row \in [Rows -> RowRec] /\ row' = [row EXCEPT ![r] = new] /\ UNCHANGED accepts
    BY <1>3 DEF CalmInv, BaseInv, TypeOK, Ripen, history
  <2>2. new.status = row[r].status /\ new.msg = row[r].msg
    BY <2>1 DEF RowRec
  <2> HIDE DEF new
  <2>3. \A q \in Rows : row'[q].msg = row[q].msg /\ row'[q].status = row[q].status
    BY <2>1, <2>2
  <2> QED
    BY <2>1, <2>3, NothingMoves DEF CalmInv, Promise!vars
<1>4. ASSUME NEW l \in Lanes, NEW r \in Rows, TaskStep(l, r) \/ Accept(l, r)
      PROVE  [Promise!Next]_(Promise!vars)
  BY <1>4, TaskKeepsPromise, AcceptKeepsPromise
<1>5. CASE \E p \in Procs : Drain(p)
  BY <1>5, DrainKeepsPromise DEF CalmInv
<1>6. CASE \E l \in Lanes, S \in SUBSET Msgs : CommitIntents(l, S)
  BY <1>6, CommitKeepsPromise DEF CalmInv
<1>7. CASE \E r \in Rows : Prune(r)
  BY <1>7, PruneKeepsPromise DEF CalmInv
<1>8. CASE \E T : RevokeHeartbeats(T)
  BY <1>8, RevokeKeepsPromise DEF CalmInv
<1>9. CASE \E t \in Topics : DeleteTopic(t)
  BY <1>9 DEF DeleteTopic
<1>10. CASE \E s \in stray : LateAccept(s)
  BY <1>10, LateKeepsPromise
<1>11. CASE \E s \in stray : LateEnd(s)
  BY <1>11 DEF LateEnd, history, Promise!vars, Standing, Taken, Named, RowOf
<1> QED
  BY <1>1, <1>2, <1>3, <1>4, <1>5, <1>6, <1>7, <1>8, <1>9, <1>10, <1>11 DEF Next

LEMMA InitKeepsPromise == Init => Promise!Init /\ UnbornInv
<1> SUFFICES ASSUME Init PROVE Promise!Init /\ UnbornInv
  OBVIOUS
<1>1. BaseInv /\ accepts = [m \in Msgs |-> 0]
  BY InitBase DEF Init
<1>2. \A r \in Rows : row[r].status \in {"pending", "absent"}
  BY InitRows
<1>3. ASSUME NEW m \in Msgs
      PROVE  Standing[m] \in {"none", "pending"} /\ m \notin Taken
  <2>1. CASE \E r \in Rows : row[r].msg = m
    <3>1. PICK r \in Rows : row[r].msg = m
      BY <2>1
    <3>2. row[r].status # "absent"
      BY <1>1, <3>1, ConstantsAssumption DEF BaseInv, RowsInv
    <3> QED
      BY <1>1, <1>2, <3>1, <3>2, StandingIs
  <2>2. CASE \A r \in Rows : row[r].msg # m
    BY <1>1, <2>2, StandingIs
  <2> QED
    BY <2>1, <2>2
<1>4. Standing \in [Msgs -> {"none", "pending"}]
  BY <1>3 DEF Standing
<1>5. Taken = {}
  BY <1>3 DEF Taken
<1> QED
  BY <1>1, <1>4, <1>5 DEF Promise!Init, UnbornInv

\* The queue implements the outbox: whatever processes, lanes, tokens, retries, crashes and
\* stale lists there are, each message goes through the abstract states only, is taken only
\* while it is claimed, and is recorded as sent only if its target took it.  It needs topics
\* that stay while a batch runs, and clocks that do not step: a step makes a second process
\* release a live claim, and any process the claim of a send that outlived its task.  One
\* process whose sends end with their tasks (webhooks) needs no such clock.
THEOREM QueueKeepsPromise ==
  ASSUME "topic_delete" \notin Faults, SafeSends, CountCap > 0
  PROVE  Spec => KeepsPromise
<1>1. Init => Promise!Init /\ UnbornInv
  BY InitKeepsPromise
<1>2. StrongInv => BaseInv /\ BatchInv /\ ClaimInv /\ NoneAstray
  BY DEF StrongInv, SafeSends, SafeClock, StraysInv, NoneAstray
<1>3. BaseInv /\ BatchInv /\ NoneAstray /\ UnbornInv /\ [Next]_vars => UnbornInv'
  <2>1. UnbornInv /\ UNCHANGED vars => UnbornInv'
    BY DEF UnbornInv, vars
  <2> QED
    BY <2>1, UnbornNext
<1>4. BaseInv /\ BaseInv' /\ BatchInv /\ ClaimInv /\ NoneAstray /\ UnbornInv /\ [Next]_vars
      => [Promise!Next]_(Promise!vars)
  BY NextKeepsPromise DEF CalmInv
<1>5. BaseInv /\ [Next]_vars => BaseInv'
  BY NextBase
<1> QED
  BY <1>1, <1>2, <1>3, <1>4, <1>5, StrongAlways, PTL DEF Spec, KeepsPromise, Promise!Spec
=============================================================================
