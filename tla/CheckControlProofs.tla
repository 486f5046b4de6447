------------------------- MODULE CheckControlProofs -------------------------
(***************************************************************************)
(* Manual checks and the guard, for any number of intents, any bounds and  *)
(* any deadline that is shorter than the age at which guards are evicted   *)
(* and claims released.  A running check with a deadline has its process's *)
(* guard and is younger than the deadline (GuardInv), so that no eviction  *)
(* reaches it.  Claims are told apart by their tokens (ClaimInv), and as   *)
(* long as the clock has not jumped a claim stands while its run lives     *)
(* (FirmInv).  The component is CheckControl as MCTopics composes it.      *)
(***************************************************************************)
EXTENDS MCTopics, FiniteSetTheorems, TLAPS

Stages == {"idle", "queued", "claimed", "unready", "checking", "committed"}

TypeInv ==
    /\ newest \in Nat /\ jumps \in Nat
    /\ intent \in [Intents -> Control!IntentRows \union {None}]
    /\ pc \in [Control!Threads -> Stages] /\ token \in [Control!Threads -> Nat]
    /\ slot \in [Control!Procs -> [holder : Control!Threads \union {None, due, byApi}, age : Nat]]
    /\ cycle \in [Control!Procs -> [gate : BOOLEAN, todo : SUBSET Intents, due : {"no", "due", "checking"}]]
    /\ commits \in [Intents -> Nat]

Running(t) == pc[t] \in {"checking", "committed"}
Claiming(t) == pc[t] \in {"claimed", "unready", "checking", "committed"}

\* A check that runs under a deadline holds the guard, and is within the deadline.
GuardInv ==
    /\ \A t \in Control!Threads :
         Running(t) => slot[Control!Proc(t)].holder = t /\ slot[Control!Proc(t)].age <= CheckTimeout
    /\ \A p \in Control!Procs :
         cycle[p].due = "checking" => slot[p].holder = due /\ slot[p].age <= CheckTimeout

\* Every claim has a token of its own, and no row is claimed more than MaxAttempts times.
ClaimInv ==
    /\ \A i \in Intents : intent[i] # None => intent[i].attempts <= MaxAttempts
    /\ \A t \in Control!Threads : Claiming(t) =>
         intent[t[2]] # None /\ token[t] > 0 /\ token[t] <= intent[t[2]].attempts
    /\ \A t, u \in Control!Threads :
         Claiming(t) /\ Claiming(u) /\ t # u /\ t[2] = u[2] => token[t] # token[u]

\* Without a clock jump no claim is released under its run.
Firm(t) ==
    /\ intent[t[2]].status = "running" /\ intent[t[2]].token = token[t]
    /\ Running(t) => intent[t[2]].age <= slot[Control!Proc(t)].age
    /\ ~Running(t) => intent[t[2]].age = 0
FirmInv == jumps = 0 => \A t \in Control!Threads : Claiming(t) => Firm(t)

\* What a run committed answers its intent, so that none begins afterwards.
On(i, t) == t[2] = i /\ pc[t] = "checking"
CommitOf(i) ==
    /\ intent[i] # None => intent[i].base <= newest
    /\ commits[i] > 0 => intent[i] # None /\ intent[i].base < newest
    /\ commits[i] <= 2
    /\ commits[i] = 2 => jumps > 0 /\ \A t \in Control!Threads : ~On(i, t)
    /\ commits[i] = 1 => /\ \A t, u \in Control!Threads : On(i, t) /\ On(i, u) => t = u
                         /\ jumps = 0 => \A t \in Control!Threads : ~On(i, t)
CommitInv == \A i \in Intents : CommitOf(i)

IInv == TypeInv /\ GuardInv /\ ClaimInv /\ FirmInv /\ CommitInv

-----------------------------------------------------------------------------
(* Constants, threads and rows *)

LEMMA ControlCardinality == ASSUME NEW S PROVE Control!Cardinality(S) = Cardinality(S)
BY DEF Control!Cardinality, Cardinality

LEMMA Constants ==
    ASSUME Control!ControlAssumption
    PROVE  /\ MaxAttempts \in Nat \ {0} /\ CheckTimeout \in Nat \ {0} /\ StaleAfter \in Nat \ {0}
           /\ CheckTimeout < StaleAfter /\ due # byApi
           /\ None \notin Control!Threads /\ due \notin Control!Threads /\ byApi \notin Control!Threads
           /\ None # due /\ None # byApi /\ None \notin Control!IntentRows
           /\ server \in Control!Procs /\ cli \in Control!Procs /\ server # cli /\ Control!Procs = {server, cli}
BY DEF Control!ControlAssumption, Control!Procs

LEMMA ThreadFacts ==
    ASSUME NEW t \in Control!Threads
    PROVE  Control!Proc(t) \in Control!Procs /\ t[2] \in Intents
BY DEF Control!Threads, Control!Proc, Control!Procs

LEMMA ThreadOf ==
    ASSUME Control!ControlAssumption, NEW p \in Control!Procs, NEW i \in Intents
    PROVE  <<p, i>> \in Control!Threads /\ Control!Proc(<<p, i>>) = p /\ <<p, i>>[2] = i
BY DEF Control!ControlAssumption, Control!Threads, Control!Proc, Control!Procs

IntentStatus == {"pending", "running", "done", "abandoned"}

\* A row that was written keeps its baseline.
LEMMA RowFields ==
    ASSUME NEW r \in Control!IntentRows
    PROVE  /\ r.status \in IntentStatus /\ r.attempts \in Nat /\ r.ripe \in BOOLEAN
           /\ r.base \in Nat /\ r.token \in Nat /\ r.age \in Nat /\ r.result \in Nat
BY DEF Control!IntentRows, IntentStatus

LEMMA ClaimedIntent ==
    ASSUME NEW i \in Intents, intent[i] \in Control!IntentRows
    PROVE  /\ Control!ClaimedRow(i) \in Control!IntentRows
           /\ Control!ClaimedRow(i).status = "running" /\ Control!ClaimedRow(i).age = 0
           /\ Control!ClaimedRow(i).attempts = intent[i].attempts + 1
           /\ Control!ClaimedRow(i).token = intent[i].attempts + 1
           /\ Control!ClaimedRow(i).base = intent[i].base
<1> DEFINE n == intent[i].attempts + 1
           r == [intent[i] EXCEPT !.status = "running", !.attempts = n, !.token = n, !.age = 0]
<1>1. Control!ClaimedRow(i) = r /\ n \in Nat
  BY DEF Control!ClaimedRow, Control!IntentRows
<1> HIDE DEF n
<1>2. r \in Control!IntentRows
  BY <1>1, ZenonT(60) DEF Control!IntentRows
<1>3. r.status = "running" /\ r.age = 0 /\ r.attempts = n /\ r.token = n /\ r.base = intent[i].base
  BY DEF Control!IntentRows
<1> QED
  BY <1>1, <1>2, <1>3 DEF n

\* The rows that an outcome or a release writes: no claim, the same attempts and baseline.
FreedRow(r, st, b, n) ==
    [r EXCEPT !.status = st, !.ripe = b, !.result = n, !.token = 0, !.age = 0]
ReleasedRow(r, st) == [r EXCEPT !.status = st, !.token = 0, !.age = 0, !.ripe = TRUE]

LEMMA FreedIntent ==
    ASSUME NEW r \in Control!IntentRows, NEW s \in IntentStatus, NEW n \in Nat
    PROVE  /\ FreedRow(r, s, FALSE, n) \in Control!IntentRows
           /\ FreedRow(r, s, FALSE, n).attempts = r.attempts
           /\ FreedRow(r, s, FALSE, n).base = r.base
           /\ ReleasedRow(r, s) \in Control!IntentRows /\ ReleasedRow(r, s).attempts = r.attempts
           /\ ReleasedRow(r, s).base = r.base
<1>1. FreedRow(r, s, FALSE, n) \in Control!IntentRows
  BY 0 \in Nat, FALSE \in BOOLEAN, ZenonT(60) DEF Control!IntentRows, IntentStatus, FreedRow
<1>2. ReleasedRow(r, s) \in Control!IntentRows
  BY 0 \in Nat, TRUE \in BOOLEAN, ZenonT(60) DEF Control!IntentRows, IntentStatus, ReleasedRow
<1>3. FreedRow(r, s, FALSE, n).attempts = r.attempts /\ FreedRow(r, s, FALSE, n).base = r.base
  BY DEF Control!IntentRows, FreedRow
<1>4. ReleasedRow(r, s).attempts = r.attempts /\ ReleasedRow(r, s).base = r.base
  BY DEF Control!IntentRows, ReleasedRow
<1> QED
  BY <1>1, <1>2, <1>3, <1>4

\* The rows that time and the clock leave: older, or due again.
LEMMA AgedIntent ==
    ASSUME NEW r \in Control!IntentRows, NEW n \in Nat, NEW b \in BOOLEAN
    PROVE  LET q == [r EXCEPT !.age = n]
               w == [r EXCEPT !.ripe = b]
           IN /\ q \in Control!IntentRows /\ q.attempts = r.attempts /\ q.base = r.base
              /\ q.status = r.status /\ q.token = r.token /\ q.age = n
              /\ w \in Control!IntentRows /\ w.attempts = r.attempts /\ w.base = r.base
              /\ w.status = r.status /\ w.token = r.token /\ w.age = r.age
BY DEF Control!IntentRows

-----------------------------------------------------------------------------
(* Kinds of steps *)

\* The rows keep attempts and baseline.
Kept(i) ==
    /\ intent'[i] \in Control!IntentRows \union {None}
    /\ intent[i] # None => /\ intent'[i] # None
                           /\ intent'[i].attempts = intent[i].attempts
                           /\ intent'[i].base = intent[i].base

LEMMA InitIInv == ASSUME Control!ControlAssumption PROVE Control!Init => IInv
<1> SUFFICES ASSUME Control!Init PROVE IInv
  OBVIOUS
<1>1. TypeInv
  BY Constants DEF Control!Init, TypeInv, Control!FreeGuard, Control!NoCycle, Stages
<1>2. \A t \in Control!Threads : pc[t] = "idle"
  BY DEF Control!Init
<1>3. GuardInv
  BY <1>2 DEF Control!Init, GuardInv, Running, Control!NoCycle
<1>4. ClaimInv /\ FirmInv
  BY <1>2 DEF Control!Init, ClaimInv, FirmInv, Claiming
<1>5. CommitInv
  BY <1>2 DEF Control!Init, CommitInv, CommitOf
<1> QED
  BY <1>1, <1>3, <1>4, <1>5 DEF IInv

\* Steps in which no run begins or claims, no commit happens, and only the rows that no
\* run of this behaviour can hold lose their claim.
LEMMA QuietStep ==
    ASSUME Control!ControlAssumption, IInv, newest' \in Nat, newest <= newest', commits' = commits,
           jumps' \in Nat, jumps <= jumps',
           pc' \in [Control!Threads -> Stages], token' \in [Control!Threads -> Nat],
           intent' \in [Intents -> Control!IntentRows \union {None}],
           \A i \in Intents : Kept(i),
           \A i \in Intents : intent[i] = None /\ intent'[i] # None => intent'[i].attempts = 0 /\ intent'[i].base <= newest',
           \A t \in Control!Threads : \/ pc'[t] \in {"idle", "queued"}
                                      \/ pc'[t] = pc[t] /\ token'[t] = token[t]
                                      \/ pc[t] = "claimed" /\ pc'[t] = "unready" /\ token'[t] = token[t],
           jumps' = 0 => \A t \in Control!Threads : Claiming(t)' => Firm(t)'
    PROVE  ClaimInv' /\ FirmInv' /\ CommitInv'
<1> USE Constants, ThreadFacts, RowFields DEF IInv
<1>1. ClaimInv'
  <2>1. ASSUME NEW i \in Intents, intent'[i] # None PROVE intent'[i].attempts <= MaxAttempts
    <3>1. CASE intent[i] = None
      BY <2>1, <3>1
    <3>2. CASE intent[i] # None
      BY <2>1, <3>2 DEF ClaimInv, Kept
    <3> QED
      BY <3>1, <3>2
  <2>2. \A t \in Control!Threads : Claiming(t)' => Claiming(t) /\ token'[t] = token[t]
    BY DEF Claiming
  <2>3. \A t \in Control!Threads : Claiming(t)' =>
            intent'[t[2]] # None /\ token'[t] > 0 /\ token'[t] <= intent'[t[2]].attempts
    BY <2>2 DEF ClaimInv, Kept
  <2>4. \A t, u \in Control!Threads :
            Claiming(t)' /\ Claiming(u)' /\ t # u /\ t[2] = u[2] => token'[t] # token'[u]
    BY <2>2 DEF ClaimInv
  <2> QED
    BY <2>1, <2>3, <2>4 DEF ClaimInv
<1>2. FirmInv'
  BY DEF FirmInv
<1>3. CommitInv'
  <2> SUFFICES ASSUME NEW i \in Intents
               PROVE  CommitOf(i)'
    BY DEF CommitInv
  <2>1. \A t \in Control!Threads : On(i, t)' => On(i, t)
    BY DEF On
  <2>2. commits[i] > 0 => intent'[i] # None /\ intent'[i].base < newest'
    <3> SUFFICES ASSUME commits[i] > 0 PROVE intent'[i] # None /\ intent'[i].base < newest'
      OBVIOUS
    <3>1. intent[i] # None /\ intent[i].base < newest /\ intent[i] \in Control!IntentRows
      BY DEF CommitInv, CommitOf, TypeInv
    <3>2. intent'[i] # None /\ intent'[i].base = intent[i].base
      BY <3>1 DEF Kept
    <3> QED
      BY <3>1, <3>2 DEF TypeInv
  <2>3. commits[i] \in Nat /\ jumps \in Nat
    BY DEF TypeInv
  <2>4. intent'[i] # None => intent'[i].base <= newest'
    <3>1. CASE intent[i] = None
      BY <3>1
    <3>2. CASE intent[i] # None
      <4>1. intent[i] \in Control!IntentRows /\ intent[i].base <= newest /\ intent'[i].base = intent[i].base
        BY <3>2 DEF CommitInv, CommitOf, TypeInv, Kept
      <4> QED
        BY <4>1 DEF TypeInv
    <3> QED
      BY <3>1, <3>2
  <2> QED
    BY <2>1, <2>2, <2>3, <2>4 DEF CommitInv, CommitOf
<1> QED
  BY <1>1, <1>2, <1>3

Guards == [holder : Control!Threads \union {None, due, byApi}, age : Nat]
Cycles == [gate : BOOLEAN, todo : SUBSET Intents, due : {"no", "due", "checking"}]

\* Releasing the guard of p under h takes it from h alone.
LEMMA FreedGuard ==
    ASSUME slot \in [Control!Procs -> Guards], NEW p \in Control!Procs, NEW h
    PROVE  /\ Control!Freed(p, h) \in [Control!Procs -> Guards]
           /\ \A q \in Control!Procs : q # p \/ slot[q].holder # h => Control!Freed(p, h)[q] = slot[q]
BY DEF Control!Freed, Guards, Control!FreeGuard

\* Nobody who runs under a deadline loses the guard, nor begins.
LEMMA KeepGuard ==
    ASSUME IInv,
           \A t \in Control!Threads : Running(t)' => Running(t) /\ slot'[Control!Proc(t)] = slot[Control!Proc(t)],
           \A p \in Control!Procs : cycle'[p].due = "checking" =>
                              cycle[p].due = "checking" /\ slot'[p] = slot[p]
    PROVE  GuardInv'
BY DEF GuardInv, Running, IInv

\* A run ends, for whatever reason: its outcome is applied if the claim is still its own.
LEMMA EndStep ==
    ASSUME Control!ControlAssumption, IInv, NEW t \in Control!Threads, Claiming(t),
           NEW s \in IntentStatus, NEW n \in Nat, Control!End(t, s, n),
           UNCHANGED <<newest, jumps, commits, cycle>>, slot' \in {slot, Control!Freed(Control!Proc(t), t)}
    PROVE  IInv'
<1> DEFINE i == t[2]
           mine == intent[i] # None /\ intent[i].status = "running" /\ intent[i].token = token[t]
<1>1. i \in Intents /\ Control!Proc(t) \in Control!Procs /\ intent[i] \in Control!IntentRows \union {None}
  BY ThreadFacts DEF IInv, TypeInv
<1>2. intent' = Control!Outcome(t, s, n) /\ pc' = [pc EXCEPT ![t] = "idle"] /\ token' = [token EXCEPT ![t] = 0]
  BY DEF Control!End
<1>3. /\ intent' \in [Intents -> Control!IntentRows \union {None}] /\ \A j \in Intents : Kept(j)
      /\ \A j \in Intents : j # i => intent'[j] = intent[j]
      /\ ~mine => intent'[i] = intent[i]
      /\ \A j \in Intents : intent[j] = None => intent'[j] = None
  <2>1. CASE ~mine
    BY <1>1, <1>2, <2>1 DEF Control!Outcome, Kept, IInv, TypeInv
  <2>2. CASE mine
    <3> DEFINE st == IF s = "pending" /\ intent[i].attempts >= MaxAttempts THEN "abandoned" ELSE s
               q == FreedRow(intent[i], st, FALSE, n)
    <3>1. st \in IntentStatus /\ intent' = [intent EXCEPT ![i] = q] /\ intent[i] \in Control!IntentRows
      BY <1>1, <1>2, <2>2 DEF Control!Outcome, IntentStatus, FreedRow
    <3> HIDE DEF st
    <3>2. q \in Control!IntentRows /\ q.attempts = intent[i].attempts /\ q.base = intent[i].base
      BY <3>1, FreedIntent
    <3> HIDE DEF q
    <3>3. q # None
      BY <3>2, Constants
    <3> QED
      BY <1>1, <2>2, <3>1, <3>2, <3>3 DEF Kept, IInv, TypeInv
  <2> QED
    BY <2>1, <2>2
<1>4. /\ pc' \in [Control!Threads -> Stages] /\ token' \in [Control!Threads -> Nat] /\ pc'[t] = "idle"
      /\ \A u \in Control!Threads : u # t => pc'[u] = pc[u] /\ token'[u] = token[u]
  BY <1>2 DEF IInv, TypeInv, Stages
<1>5. /\ slot' \in [Control!Procs -> Guards]
      /\ \A u \in Control!Threads : u # t /\ Running(u) => slot'[Control!Proc(u)] = slot[Control!Proc(u)]
      /\ \A p \in Control!Procs : cycle[p].due = "checking" => slot'[p] = slot[p]
  BY <1>1, FreedGuard, ThreadFacts, Constants DEF IInv, TypeInv, GuardInv, Guards
<1>6. TypeInv'
  BY <1>3, <1>4, <1>5 DEF IInv, TypeInv, Guards
<1>7. GuardInv'
  <2>1. \A u \in Control!Threads : Running(u)' => Running(u) /\ slot'[Control!Proc(u)] = slot[Control!Proc(u)]
    BY <1>4, <1>5 DEF Running
  <2> QED
    BY <1>5, <2>1, KeepGuard
<1>8. jumps' = 0 => \A u \in Control!Threads : Claiming(u)' => Firm(u)'
  <2> SUFFICES ASSUME jumps = 0, NEW u \in Control!Threads, Claiming(u)' PROVE Firm(u)'
    OBVIOUS
  <2>1. u # t /\ Claiming(u) /\ Firm(u) /\ Firm(t) /\ token'[u] = token[u] /\ pc'[u] = pc[u]
    BY <1>4 DEF Claiming, IInv, FirmInv
  <2>2. u[2] # i
    BY <2>1 DEF IInv, ClaimInv, Firm
  <2>3. intent'[u[2]] = intent[u[2]]
    BY <1>3, <2>2, ThreadFacts
  <2>4. Running(u) => slot'[Control!Proc(u)] = slot[Control!Proc(u)]
    BY <1>5, <2>1
  <2> QED
    BY <2>1, <2>3, <2>4 DEF Firm, Running
<1>9. ClaimInv' /\ FirmInv' /\ CommitInv'
  <2>1. /\ newest' \in Nat /\ newest <= newest' /\ commits' = commits
        /\ jumps' \in Nat /\ jumps <= jumps'
    BY DEF IInv, TypeInv
  <2>2. \A j \in Intents : intent[j] = None /\ intent'[j] # None => intent'[j].attempts = 0 /\ intent'[j].base <= newest'
    BY <1>3
  <2>3. \A u \in Control!Threads : \/ pc'[u] \in {"idle", "queued"}
                                   \/ pc'[u] = pc[u] /\ token'[u] = token[u]
                                   \/ pc[u] = "claimed" /\ pc'[u] = "unready" /\ token'[u] = token[u]
    BY <1>4
  <2> QED
    BY <1>3, <1>4, <1>8, <2>1, <2>2, <2>3, QuietStep
<1> QED
  BY <1>6, <1>7, <1>9 DEF IInv
\* A step that leaves every claim and every deadline as it found them.
LEMMA CalmStep ==
    ASSUME Control!ControlAssumption, IInv, TypeInv', newest <= newest', UNCHANGED <<commits, jumps>>,
           \A i \in Intents : Kept(i),
           \A i \in Intents : intent[i] # None /\ intent[i].status = "running" => intent'[i] = intent[i],
           \A i \in Intents : intent[i] = None /\ intent'[i] # None => intent'[i].attempts = 0 /\ intent'[i].base <= newest',
           \A t \in Control!Threads : \/ pc'[t] \in {"idle", "queued"}
                                      \/ pc'[t] = pc[t] /\ token'[t] = token[t],
           \A t \in Control!Threads : Running(t)' => slot'[Control!Proc(t)] = slot[Control!Proc(t)],
           \A p \in Control!Procs : cycle'[p].due = "checking" =>
                              cycle[p].due = "checking" /\ slot'[p] = slot[p]
    PROVE  IInv'
<1>1. \A t \in Control!Threads : Claiming(t)' => Claiming(t) /\ pc'[t] = pc[t] /\ token'[t] = token[t]
  BY DEF Claiming
<1>2. \A t \in Control!Threads : Running(t)' => Running(t) /\ slot'[Control!Proc(t)] = slot[Control!Proc(t)]
  BY DEF Running
<1>3. GuardInv'
  BY <1>2, KeepGuard
<1>4. jumps' = 0 => \A t \in Control!Threads : Claiming(t)' => Firm(t)'
  <2> SUFFICES ASSUME jumps = 0, NEW t \in Control!Threads, Claiming(t)' PROVE Firm(t)'
    OBVIOUS
  <2>1. Claiming(t) /\ Firm(t) /\ pc'[t] = pc[t] /\ token'[t] = token[t]
    BY <1>1 DEF IInv, FirmInv
  <2>2. intent'[t[2]] = intent[t[2]]
    BY <2>1, ThreadFacts DEF Firm, IInv, ClaimInv
  <2>3. Running(t) => slot'[Control!Proc(t)] = slot[Control!Proc(t)]
    BY <2>1 DEF Running
  <2> QED
    BY <2>1, <2>2, <2>3 DEF Firm, Running
<1>5. /\ newest' \in Nat /\ jumps' \in Nat /\ jumps <= jumps' /\ commits' = commits
      /\ pc' \in [Control!Threads -> Stages] /\ token' \in [Control!Threads -> Nat]
      /\ intent' \in [Intents -> Control!IntentRows \union {None}]
  BY DEF IInv, TypeInv
<1>6. ClaimInv' /\ FirmInv' /\ CommitInv'
  BY <1>4, <1>5, QuietStep
<1> QED
  BY <1>3, <1>6 DEF IInv

-----------------------------------------------------------------------------
(* The actions *)

LEMMA AdmitStep == ASSUME Control!ControlAssumption, IInv, NEW i \in Intents, Control!Admit(i) PROVE IInv'
<1> DEFINE new == [status |-> "pending", attempts |-> 0, ripe |-> TRUE, base |-> newest,
                   token |-> 0, age |-> 0, result |-> 0]
<1>1. new \in Control!IntentRows /\ new.attempts = 0 /\ new.base = newest
  BY DEF Control!IntentRows, IInv, TypeInv
<1> HIDE DEF new
<1>2. /\ intent[i] = None /\ intent' = [intent EXCEPT ![i] = new]
      /\ pc' = [pc EXCEPT ![<<background, i>>] = "queued"] /\ slot' = Control!Cleared
      /\ UNCHANGED <<newest, token, cycle, jumps, commits>>
  BY DEF Control!Admit, new
<1>3. <<background, i>> \in Control!Threads
  BY DEF Control!Threads
<1>4. slot' \in [Control!Procs -> Guards] /\ \A p \in Control!Procs : slot'[p] # slot[p] => slot[p].age >= StaleAfter
  BY <1>2, Constants DEF Control!Cleared, Control!FreeGuard, IInv, TypeInv, Guards
<1>5. TypeInv'
  BY <1>1, <1>2, <1>3, <1>4 DEF IInv, TypeInv, Stages, Guards
<1>6. /\ \A j \in Intents : Kept(j)
      /\ \A j \in Intents : intent[j] # None => intent'[j] = intent[j]
      /\ \A j \in Intents : intent[j] = None /\ intent'[j] # None => intent'[j].attempts = 0 /\ intent'[j].base <= newest'
  BY <1>1, <1>2 DEF Kept, IInv, TypeInv
<1>7. \A t \in Control!Threads : pc'[t] = "queued" \/ pc'[t] = pc[t]
  BY <1>2 DEF IInv, TypeInv
<1>8. /\ \A t \in Control!Threads : Running(t)' => slot'[Control!Proc(t)] = slot[Control!Proc(t)]
      /\ \A p \in Control!Procs : cycle[p].due = "checking" => slot'[p] = slot[p]
  BY <1>4, <1>7, ThreadFacts, Constants DEF IInv, TypeInv, GuardInv, Running, Guards
<1> QED
  BY <1>2, <1>5, <1>6, <1>7, <1>8, CalmStep DEF IInv, TypeInv

LEMMA RipenStep == ASSUME Control!ControlAssumption, IInv, NEW i \in Intents, Control!Ripens(i) PROVE IInv'
<1> DEFINE moved == [intent[i] EXCEPT !.ripe = TRUE]
<1>1. /\ intent[i] \in Control!IntentRows /\ intent[i].status # "running" /\ intent' = [intent EXCEPT ![i] = moved]
      /\ UNCHANGED <<newest, pc, token, slot, cycle, jumps, commits>>
  BY DEF Control!Ripens, IInv, TypeInv
<1>2. moved \in Control!IntentRows /\ moved.attempts = intent[i].attempts /\ moved.base = intent[i].base
  BY <1>1, AgedIntent
<1> HIDE DEF moved
<1>3. moved # None
  BY <1>2, Constants
<1>4. TypeInv' /\ \A j \in Intents : Kept(j) /\ (j # i => intent'[j] = intent[j])
  BY <1>1, <1>2, <1>3 DEF IInv, TypeInv, Kept
<1> QED
  BY <1>1, <1>4, CalmStep, Constants DEF IInv, TypeInv

LEMMA ApiStep == ASSUME Control!ControlAssumption, IInv, Control!ApiCheck \/ Control!ApiEnds PROVE IInv'
<1>1. UNCHANGED <<intent, pc, token, cycle, jumps, commits>>
  BY DEF Control!ApiCheck, Control!ApiEnds
<1>2. newest' \in Nat /\ newest <= newest'
  BY DEF Control!ApiCheck, Control!ApiEnds, IInv, TypeInv
<1>3. /\ slot' \in [Control!Procs -> Guards]
      /\ \A p \in Control!Procs : \/ slot'[p] = slot[p] \/ slot[p].holder \in {None, byApi}
                                  \/ slot[p].age >= StaleAfter
  <2>1. CASE Control!ApiCheck
    BY <2>1, Constants DEF Control!ApiCheck, Control!Cleared, Control!FreeGuard, IInv, TypeInv, Guards
  <2>2. CASE Control!ApiEnds
    BY <2>2, Constants, FreedGuard DEF Control!ApiEnds, Control!FinishCheck, IInv, TypeInv, Guards
  <2> QED
    BY <2>1, <2>2
<1>4. TypeInv'
  BY <1>1, <1>2, <1>3 DEF IInv, TypeInv, Guards
<1>5. /\ \A t \in Control!Threads : Running(t)' => slot'[Control!Proc(t)] = slot[Control!Proc(t)]
      /\ \A p \in Control!Procs : cycle[p].due = "checking" => slot'[p] = slot[p]
  BY <1>1, <1>3, ThreadFacts, Constants DEF IInv, TypeInv, GuardInv, Running, Guards
<1>6. \A j \in Intents : Kept(j)
  BY <1>1 DEF Kept, IInv, TypeInv
<1> QED
  BY <1>1, <1>2, <1>4, <1>5, <1>6, CalmStep
\* What runs under a check's deadline is younger than what a cycle may release.
LEMMA CycleStartStep == ASSUME Control!ControlAssumption, IInv, NEW p \in Control!Procs, Control!CycleStart(p) PROVE IInv'
<1>1. /\ intent' = Control!Released(p) /\ UNCHANGED <<newest, pc, token, slot, jumps, commits>>
      /\ cycle' \in [Control!Procs -> Cycles] /\ \A q \in Control!Procs : cycle'[q].due = "checking" => cycle[q].due = "checking"
  <2>1. PICK turn \in {"no", "due"}, todo \in SUBSET Intents :
            cycle' = [cycle EXCEPT ![p] = [gate |-> TRUE, due |-> turn, todo |-> todo]]
    BY DEF Control!CycleStart
  <2>2. cycle' \in [Control!Procs -> Cycles]
    BY <2>1 DEF IInv, TypeInv, Cycles
  <2>3. \A q \in Control!Procs : cycle'[q].due = "checking" => cycle[q].due = "checking"
    BY <2>1 DEF IInv, TypeInv
  <2> QED
    BY <2>2, <2>3 DEF Control!CycleStart
<1>2. ASSUME NEW i \in Intents
      PROVE  /\ Kept(i) /\ (intent[i] = None => intent'[i] = None)
             /\ \/ intent'[i] = intent[i]
                \/ intent[i].status = "running" /\ intent[i].age >= StaleAfter
  <2> DEFINE st == IF intent[i].attempts >= MaxAttempts THEN "abandoned" ELSE "pending"
             moved == ReleasedRow(intent[i], st)
  <2>1. st \in IntentStatus
    BY DEF IntentStatus
  <2>2. CASE intent'[i] = intent[i]
    BY <2>2 DEF Kept, IInv, TypeInv
  <2>3. CASE intent'[i] # intent[i]
    <3>1. /\ intent[i] # None /\ intent'[i] = moved
          /\ intent[i].status = "running" /\ intent[i].age >= StaleAfter
      BY <1>1, <2>3 DEF Control!Released, ReleasedRow
    <3>2. intent[i] \in Control!IntentRows
      BY <3>1 DEF IInv, TypeInv
    <3> HIDE DEF st
    <3>3. moved \in Control!IntentRows /\ moved.attempts = intent[i].attempts /\ moved.base = intent[i].base
      BY <2>1, <3>2, 0 \in Nat, FreedIntent
    <3> HIDE DEF moved
    <3>4. moved # None
      BY <3>3, Constants
    <3> QED
      BY <3>1, <3>3, <3>4 DEF Kept
  <2> QED
    BY <2>2, <2>3
<1>3. intent' \in [Intents -> Control!IntentRows \union {None}]
  <2>1. DOMAIN intent' = Intents /\ intent' = [i \in Intents |-> intent'[i]]
    BY <1>1 DEF Control!Released
  <2> QED
    BY <1>2, <2>1 DEF Kept
<1>4. TypeInv'
  BY <1>1, <1>3 DEF IInv, TypeInv, Cycles
<1>5. GuardInv'
  BY <1>1, KeepGuard DEF Running
<1>6. jumps' = 0 => \A t \in Control!Threads : Claiming(t)' => Firm(t)'
  <2> SUFFICES ASSUME jumps = 0, NEW t \in Control!Threads, Claiming(t) PROVE Firm(t)'
    BY <1>1 DEF Claiming
  <2>1. Firm(t) /\ t[2] \in Intents /\ intent[t[2]] \in Control!IntentRows
    BY ThreadFacts DEF IInv, FirmInv, ClaimInv, TypeInv
  <2>2. intent[t[2]].age < StaleAfter
    BY <2>1, RowFields, Constants, ThreadFacts DEF Firm, IInv, GuardInv, TypeInv, Guards
  <2>3. intent'[t[2]] = intent[t[2]]
    BY <1>2, <2>1, <2>2, RowFields, Constants
  <2> QED
    BY <1>1, <2>1, <2>3 DEF Firm, Running
<1>7. ClaimInv' /\ FirmInv' /\ CommitInv'
  <2>1. /\ newest' \in Nat /\ newest <= newest' /\ commits' = commits
        /\ jumps' \in Nat /\ jumps <= jumps'
        /\ pc' \in [Control!Threads -> Stages] /\ token' \in [Control!Threads -> Nat]
    BY <1>1 DEF IInv, TypeInv
  <2>2. \A t \in Control!Threads : pc'[t] = pc[t] /\ token'[t] = token[t]
    BY <1>1
  <2> QED
    BY <1>2, <1>3, <1>6, <2>1, <2>2, QuietStep
<1> QED
  BY <1>4, <1>5, <1>7 DEF IInv

LEMMA DueBeginStep == ASSUME Control!ControlAssumption, IInv, NEW p \in Control!Procs, Control!DueBegin(p) PROVE IInv'
<1>1. UNCHANGED <<newest, intent, pc, token, jumps, commits>> /\ cycle[p].due = "due"
  BY DEF Control!DueBegin
<1>2. \A j \in Intents : Kept(j)
  BY <1>1 DEF Kept, IInv, TypeInv
<1>3. CASE slot' = slot /\ cycle' = [cycle EXCEPT ![p].due = "no"]
  <2>1. TypeInv' /\ \A q \in Control!Procs : cycle'[q].due = "checking" => cycle[q].due = "checking"
    BY <1>1, <1>3 DEF IInv, TypeInv
  <2> QED
    BY <1>1, <1>2, <1>3, <2>1, CalmStep DEF IInv, TypeInv
<1>4. CASE /\ slot[p].holder = None /\ slot' = [slot EXCEPT ![p] = [holder |-> due, age |-> 0]]
           /\ cycle' = [cycle EXCEPT ![p].due = "checking"]
  <2>1. TypeInv'
    BY <1>1, <1>4 DEF IInv, TypeInv, Guards, Cycles
  <2>2. \A t \in Control!Threads : Running(t) => slot'[Control!Proc(t)] = slot[Control!Proc(t)]
    BY <1>4, Constants, ThreadFacts DEF IInv, GuardInv, TypeInv
  <2>3. GuardInv'
    <3>1. \A t \in Control!Threads : Running(t)' => Running(t)
      BY <1>1 DEF Running
    <3>2. slot'[p].holder = due /\ slot'[p].age <= CheckTimeout
      BY <1>4, Constants DEF IInv, TypeInv
    <3>3. \A q \in Control!Procs : q # p => slot'[q] = slot[q] /\ cycle'[q] = cycle[q]
      BY <1>4 DEF IInv, TypeInv
    <3> QED
      BY <2>2, <3>1, <3>2, <3>3 DEF IInv, GuardInv
  <2>4. jumps' = 0 => \A t \in Control!Threads : Claiming(t)' => Firm(t)'
    BY <1>1, <2>2 DEF IInv, FirmInv, Firm, Claiming, Running
  <2>5. ClaimInv' /\ FirmInv' /\ CommitInv'
    <3>1. /\ newest' \in Nat /\ newest <= newest' /\ commits' = commits
          /\ jumps' \in Nat /\ jumps <= jumps' /\ intent' = intent
          /\ pc' \in [Control!Threads -> Stages] /\ token' \in [Control!Threads -> Nat]
          /\ intent' \in [Intents -> Control!IntentRows \union {None}]
      BY <1>1 DEF IInv, TypeInv
    <3>2. \A t \in Control!Threads : pc'[t] = pc[t] /\ token'[t] = token[t]
      BY <1>1
    <3> QED
      BY <1>2, <2>4, <3>1, <3>2, QuietStep
  <2> QED
    BY <2>1, <2>3, <2>5 DEF IInv
<1> QED
  BY <1>3, <1>4 DEF Control!DueBegin, Control!StartCheck
LEMMA DueEndStep == ASSUME Control!ControlAssumption, IInv, NEW p \in Control!Procs, Control!DueEnd(p) PROVE IInv'
<1>1. /\ UNCHANGED <<intent, pc, token, jumps, commits>> /\ cycle[p].due = "checking"
      /\ cycle' = [cycle EXCEPT ![p].due = "no"] /\ slot' = Control!Freed(p, due)
  BY DEF Control!DueEnd, Control!FinishCheck
<1>2. newest' \in Nat /\ newest <= newest'
  BY DEF Control!DueEnd, IInv, TypeInv
<1>3. slot' \in [Control!Procs -> Guards] /\ \A q \in Control!Procs : q # p => slot'[q] = slot[q]
  BY <1>1, FreedGuard DEF IInv, TypeInv, Guards
<1>4. /\ cycle' \in [Control!Procs -> Cycles] /\ cycle'[p].due = "no"
      /\ \A q \in Control!Procs : q # p => cycle'[q] = cycle[q]
  BY <1>1 DEF IInv, TypeInv, Cycles
<1>5. TypeInv'
  BY <1>1, <1>2, <1>3, <1>4 DEF IInv, TypeInv, Guards, Cycles
<1>6. \A t \in Control!Threads : Running(t)' => slot'[Control!Proc(t)] = slot[Control!Proc(t)]
  BY <1>1, <1>3, ThreadFacts, Constants DEF IInv, GuardInv, Running
<1>7. \A q \in Control!Procs : cycle'[q].due = "checking" => cycle[q].due = "checking" /\ slot'[q] = slot[q]
  BY <1>3, <1>4
<1>8. \A j \in Intents : Kept(j)
  BY <1>1 DEF Kept, IInv, TypeInv
<1> QED
  BY <1>1, <1>2, <1>5, <1>6, <1>7, <1>8, CalmStep

LEMMA CycleSteps ==
    ASSUME Control!ControlAssumption, IInv, NEW p \in Control!Procs, Control!CycleEnd(p) \/ \E i \in Intents : Control!CycleTake(p, i)
    PROVE  IInv'
<1>1. UNCHANGED <<newest, intent, token, slot, jumps, commits>>
  BY DEF Control!CycleEnd, Control!CycleTake
<1>2. pc' \in [Control!Threads -> Stages] /\ \A t \in Control!Threads : pc'[t] = "queued" \/ pc'[t] = pc[t]
  BY DEF Control!CycleEnd, Control!CycleTake, IInv, TypeInv, Stages
<1>3. /\ cycle' \in [Control!Procs -> Cycles]
      /\ \A q \in Control!Procs : cycle'[q].due = "checking" => cycle[q].due = "checking"
  <2>1. CASE Control!CycleEnd(p)
    BY <2>1 DEF Control!CycleEnd, Control!NoCycle, IInv, TypeInv, Cycles
  <2>2. CASE \E i \in Intents : Control!CycleTake(p, i)
    <3>1. PICK i \in Intents : Control!CycleTake(p, i)
      BY <2>2
    <3> DEFINE rest == cycle[p].todo \ {i}
    <3>2. cycle' = [cycle EXCEPT ![p].todo = rest] /\ rest \in SUBSET Intents
      BY <3>1 DEF Control!CycleTake, IInv, TypeInv
    <3> HIDE DEF rest
    <3> QED
      BY <3>2 DEF IInv, TypeInv, Cycles
  <2> QED
    BY <2>1, <2>2
<1>4. TypeInv'
  BY <1>1, <1>2, <1>3 DEF IInv, TypeInv, Cycles
<1>5. \A j \in Intents : Kept(j)
  BY <1>1 DEF Kept, IInv, TypeInv
<1>6. \A t \in Control!Threads : pc'[t] \in {"idle", "queued"} \/ (pc'[t] = pc[t] /\ token'[t] = token[t])
  BY <1>1, <1>2
<1>7. newest <= newest'
  BY <1>1 DEF IInv, TypeInv
<1> QED
  BY <1>1, <1>3, <1>4, <1>5, <1>6, <1>7, CalmStep

\* A process dies, or its cycle is cancelled: its runs are gone, their claims stand.
LEMMA CrashStep ==
    ASSUME Control!ControlAssumption, IInv, Control!CycleTimesOut \/ \E p \in Control!Procs : Control!Crash(p)
    PROVE  IInv'
<1>1. UNCHANGED <<newest, intent, jumps, commits>>
  BY DEF Control!Crash, Control!CycleTimesOut
<1>2. PICK p \in Control!Procs, gone \in SUBSET Control!Threads, g \in Guards :
        /\ pc' = [t \in Control!Threads |-> IF t \in gone THEN "idle" ELSE pc[t]]
        /\ token' = [t \in Control!Threads |-> IF t \in gone THEN 0 ELSE token[t]]
        /\ slot' = [slot EXCEPT ![p] = g] /\ cycle' = [cycle EXCEPT ![p] = Control!NoCycle]
        /\ \A t \in Control!Threads : Control!Proc(t) = p /\ Running(t) /\ t \notin gone => g = slot[p]
  <2>1. CASE \E p \in Control!Procs : Control!Crash(p)
    <3>1. PICK p \in Control!Procs : Control!Crash(p)
      BY <2>1
    <3> DEFINE gone == {t \in Control!Threads : Control!Proc(t) = p}
    <3>2. /\ pc' = [t \in Control!Threads |-> IF t \in gone THEN "idle" ELSE pc[t]]
          /\ token' = [t \in Control!Threads |-> IF t \in gone THEN 0 ELSE token[t]]
          /\ slot' = [slot EXCEPT ![p] = Control!FreeGuard] /\ cycle' = [cycle EXCEPT ![p] = Control!NoCycle]
      BY <3>1 DEF Control!Crash
    <3>3. Control!FreeGuard \in Guards /\ gone \in SUBSET Control!Threads
      BY DEF Control!FreeGuard, Guards
    <3> QED
      BY <3>2, <3>3
  <2>2. CASE Control!CycleTimesOut
    <3> DEFINE gone == {server} \X Intents
    <3>1. /\ pc' = [t \in Control!Threads |-> IF t \in gone THEN "idle" ELSE pc[t]]
          /\ token' = [t \in Control!Threads |-> IF t \in gone THEN 0 ELSE token[t]]
          /\ cycle' = [cycle EXCEPT ![server] = Control!NoCycle]
          /\ slot' = IF slot[server].holder \in gone \union {due}
                        THEN Control!Freed(server, slot[server].holder) ELSE slot
      BY <2>2 DEF Control!CycleTimesOut
    <3>2. server \in Control!Procs /\ gone \in SUBSET Control!Threads
      BY DEF Control!Procs, Control!Threads
    <3>3. slot \in [Control!Procs -> Guards]
      BY DEF IInv, TypeInv, Guards
    <3>4. CASE slot[server].holder \in gone \union {due}
      <4>1. slot' = [slot EXCEPT ![server] = Control!FreeGuard] /\ Control!FreeGuard \in Guards
        BY <3>1, <3>4, <3>3, <3>2 DEF Control!Freed, Control!FreeGuard, Guards
      <4>2. \A t \in Control!Threads : Control!Proc(t) = server /\ Running(t) => t \in gone
        BY <3>4, Constants DEF IInv, GuardInv
      <4> QED
        BY <3>1, <3>2, <4>1, <4>2
    <3>5. CASE slot[server].holder \notin gone \union {due}
      <4>1. slot' = [slot EXCEPT ![server] = slot[server]] /\ slot[server] \in Guards
        BY <3>1, <3>2, <3>3, <3>5
      <4> QED
        BY <3>1, <3>2, <4>1
    <3> QED
      BY <3>4, <3>5
  <2> QED
    BY <2>1, <2>2
<1>3. TypeInv'
  BY <1>1, <1>2 DEF IInv, TypeInv, Guards, Control!NoCycle, Stages
<1>4. \A t \in Control!Threads : pc'[t] = "idle" \/ (t \notin gone /\ pc'[t] = pc[t] /\ token'[t] = token[t])
  BY <1>2
<1>5. \A t \in Control!Threads : Running(t)' => slot'[Control!Proc(t)] = slot[Control!Proc(t)]
  BY <1>2, <1>4, ThreadFacts DEF Running, IInv, TypeInv
<1>6. \A q \in Control!Procs : cycle'[q].due = "checking" => cycle[q].due = "checking" /\ slot'[q] = slot[q]
  BY <1>2 DEF Control!NoCycle, IInv, TypeInv
<1>7. \A j \in Intents : Kept(j)
  BY <1>1 DEF Kept, IInv, TypeInv
<1>8. newest <= newest'
  BY <1>1 DEF IInv, TypeInv
<1> QED
  BY <1>1, <1>3, <1>4, <1>5, <1>6, <1>7, <1>8, CalmStep

LEMMA StatusStep == ASSUME Control!ControlAssumption, IInv, Control!StatusMoves PROVE IInv'
<1>1. UNCHANGED <<newest, intent, pc, token, slot, cycle, jumps, commits>>
  BY DEF Control!StatusMoves
<1> QED
  BY <1>1 DEF IInv, TypeInv, GuardInv, ClaimInv, FirmInv, CommitInv, CommitOf, Running, Claiming, Firm, On

\* A claimed intent is pending: no run of it is alive that the clock has not disowned.
LEMMA ClaimStep == ASSUME Control!ControlAssumption, IInv, NEW t \in Control!Threads, Control!Claim(t) PROVE IInv'
<1> DEFINE i == t[2]
           moved == Control!ClaimedRow(i)
<1>1. /\ pc[t] = "queued" /\ i \in Intents /\ UNCHANGED <<newest, slot, cycle, jumps, commits>>
  BY ThreadFacts DEF Control!Claim
<1>2. CASE pc' = [pc EXCEPT ![t] = "idle"] /\ UNCHANGED <<intent, token>>
  <2>1. TypeInv' /\ \A j \in Intents : Kept(j)
    BY <1>1, <1>2 DEF IInv, TypeInv, Kept, Stages
  <2>2. \A u \in Control!Threads : pc'[u] = "idle" \/ (pc'[u] = pc[u] /\ token'[u] = token[u])
    BY <1>2 DEF IInv, TypeInv
  <2> QED
    BY <1>1, <1>2, <2>1, <2>2, CalmStep DEF IInv, TypeInv
<1>3. CASE /\ Control!DueIntent(i) /\ intent' = [intent EXCEPT ![i] = moved]
           /\ token' = [token EXCEPT ![t] = moved.token] /\ pc' = [pc EXCEPT ![t] = "claimed"]
  <2>1. /\ intent[i] \in Control!IntentRows /\ intent[i] # None /\ intent[i].status = "pending"
        /\ intent[i].attempts < MaxAttempts /\ intent[i].attempts \in Nat
    BY <1>1, <1>3, RowFields DEF Control!DueIntent, IInv, TypeInv
  <2> DEFINE n == intent[i].attempts
  <2>2. /\ moved \in Control!IntentRows /\ moved.status = "running" /\ moved.age = 0
        /\ moved.attempts = n + 1 /\ moved.token = n + 1 /\ moved.base = intent[i].base
    BY <1>1, <2>1, ClaimedIntent
  <2> HIDE DEF moved
  <2>3. moved # None
    BY <2>2, Constants
  <2>4. TypeInv'
    BY <1>1, <1>3, <2>1, <2>2 DEF IInv, TypeInv, Stages
  <2>5. /\ pc'[t] = "claimed" /\ token'[t] = n + 1 /\ intent'[i] = moved
        /\ \A u \in Control!Threads : u # t => pc'[u] = pc[u] /\ token'[u] = token[u]
        /\ \A j \in Intents : j # i => intent'[j] = intent[j]
    BY <1>1, <1>3, <2>2 DEF IInv, TypeInv
  <2>6. GuardInv'
    BY <1>1, <2>5, KeepGuard DEF Running
  <2>7. ClaimInv'
    <3>1. \A j \in Intents : intent'[j] # None => intent'[j].attempts <= MaxAttempts
      BY <2>1, <2>2, <2>5, Constants DEF IInv, ClaimInv
    <3>2. \A u \in Control!Threads : u # t /\ Claiming(u)' => Claiming(u) /\ token'[u] = token[u]
      BY <2>5 DEF Claiming
    <3>3. \A u \in Control!Threads : u # t /\ Claiming(u)' /\ u[2] = i => token'[u] <= n
      BY <3>2 DEF IInv, ClaimInv
    <3>4. ASSUME NEW u \in Control!Threads, Claiming(u)'
          PROVE intent'[u[2]] # None /\ token'[u] > 0 /\ token'[u] <= intent'[u[2]].attempts
      <4>1. CASE u = t
        BY <2>1, <2>2, <2>3, <2>5, <4>1
      <4>2. CASE u # t /\ u[2] = i
        BY <2>1, <2>2, <2>3, <2>5, <3>2, <3>3, <3>4, <4>2 DEF IInv, ClaimInv, TypeInv
      <4>3. CASE u # t /\ u[2] # i
        BY <2>5, <3>2, <3>4, <4>3, ThreadFacts DEF IInv, ClaimInv
      <4> QED
        BY <4>1, <4>2, <4>3
    <3>5. ASSUME NEW u \in Control!Threads, NEW v \in Control!Threads, Claiming(u)', Claiming(v)', u # v, u[2] = v[2]
          PROVE token'[u] # token'[v]
      <4>1. \A w \in Control!Threads : token[w] \in Nat
        BY DEF IInv, TypeInv
      <4>2. CASE u = t \/ v = t
        BY <2>1, <2>5, <3>2, <3>3, <3>5, <4>1, <4>2
      <4>3. CASE u # t /\ v # t
        BY <3>2, <3>5, <4>3 DEF IInv, ClaimInv
      <4> QED
        BY <4>2, <4>3
    <3> QED
      BY <3>1, <3>4, <3>5 DEF ClaimInv
  <2>8. FirmInv'
    <3> SUFFICES ASSUME jumps = 0, NEW u \in Control!Threads, Claiming(u)' PROVE Firm(u)'
      BY <1>1 DEF FirmInv
    <3>1. CASE u = t
      BY <2>2, <2>5, <3>1 DEF Firm, Running
    <3>2. CASE u # t
      <4>1. Firm(u) /\ pc'[u] = pc[u] /\ token'[u] = token[u]
        BY <2>5, <3>2 DEF IInv, FirmInv, Claiming
      <4>2. u[2] # i
        BY <2>1, <4>1 DEF Firm
      <4> QED
        BY <1>1, <2>5, <4>1, <4>2, ThreadFacts DEF Firm, Running
    <3> QED
      BY <3>1, <3>2
  <2>9. CommitInv'
    <3>1. \A j \in Intents : /\ intent[j] # None <=> intent'[j] # None
                             /\ intent'[j].base = intent[j].base
      BY <2>1, <2>2, <2>3, <2>5
    <3>2. \A u \in Control!Threads, j \in Intents : On(j, u)' <=> On(j, u)
      BY <1>1, <2>5 DEF On
    <3> QED
      BY <1>1, <3>1, <3>2 DEF IInv, CommitInv, CommitOf
  <2> QED
    BY <2>4, <2>6, <2>7, <2>8, <2>9 DEF IInv
<1> QED
  <2>1. CASE Control!DueIntent(i)
    <3>1. intent' = [intent EXCEPT ![i] = moved] /\ intent'[i] = moved
      BY <1>1, <2>1 DEF Control!Claim, IInv, TypeInv
    <3> QED
      BY <1>3, <2>1, <3>1 DEF Control!Claim
  <2>2. CASE ~Control!DueIntent(i)
    BY <1>2, <2>2 DEF Control!Claim
  <2> QED
    BY <2>1, <2>2
\* A run begins: the guard was free, and nothing it committed answers the intent yet.
LEMMA BeginStep == ASSUME Control!ControlAssumption, IInv, NEW t \in Control!Threads, Control!Begin(t) PROVE IInv'
<1> DEFINE p == Control!Proc(t)
           i == t[2]
<1>1. /\ pc[t] = "claimed" /\ slot[p].holder = None /\ p \in Control!Procs /\ i \in Intents
      /\ slot' = [slot EXCEPT ![p] = [holder |-> t, age |-> 0]]
      /\ UNCHANGED <<newest, intent, token, cycle, jumps, commits>>
  BY ThreadFacts DEF Control!Begin, Control!StartCheck
<1>2. PICK stage \in {"checking", "unready"} : pc' = [pc EXCEPT ![t] = stage]
  BY DEF Control!Begin
<1>3. /\ pc'[t] = stage /\ slot'[p].holder = t /\ slot'[p].age = 0
      /\ \A u \in Control!Threads : u # t => pc'[u] = pc[u]
      /\ \A q \in Control!Procs : q # p => slot'[q] = slot[q]
  BY <1>1, <1>2 DEF IInv, TypeInv
<1>4. TypeInv'
  BY <1>1, <1>2 DEF IInv, TypeInv, Stages
<1>5. \A u \in Control!Threads : Running(u) => slot'[Control!Proc(u)] = slot[Control!Proc(u)]
  BY <1>1, <1>3, Constants, ThreadFacts DEF IInv, GuardInv
<1>6. GuardInv'
  <2>1. ASSUME NEW u \in Control!Threads, Running(u)'
        PROVE slot'[Control!Proc(u)].holder = u /\ slot'[Control!Proc(u)].age <= CheckTimeout
    <3>1. CASE u = t
      BY <1>3, <3>1, Constants
    <3>2. CASE u # t
      BY <1>3, <1>5, <2>1, <3>2 DEF Running, IInv, GuardInv
    <3> QED
      BY <3>1, <3>2
  <2>2. \A q \in Control!Procs : cycle'[q].due = "checking" =>
                           slot'[q].holder = due /\ slot'[q].age <= CheckTimeout
    BY <1>1, <1>3, Constants DEF IInv, GuardInv
  <2> QED
    BY <2>1, <2>2 DEF GuardInv
<1>7. \A u \in Control!Threads : Claiming(u)' => Claiming(u)
  BY <1>1, <1>3 DEF Claiming
<1>8. ClaimInv'
  BY <1>1, <1>7 DEF IInv, ClaimInv
<1>9. FirmInv'
  <2> SUFFICES ASSUME jumps = 0, NEW u \in Control!Threads, Claiming(u)' PROVE Firm(u)'
    BY <1>1 DEF FirmInv
  <2>1. Firm(u) /\ intent'[u[2]] = intent[u[2]] /\ token'[u] = token[u]
    BY <1>1, <1>7 DEF IInv, FirmInv
  <2>2. CASE u = t
    BY <1>1, <1>3, <2>1, <2>2 DEF Firm, Running
  <2>3. CASE u # t
    BY <1>3, <1>5, <2>1, <2>3 DEF Firm, Running
  <2> QED
    BY <2>2, <2>3
<1>10. CommitInv'
  <2>1. commits[i] = 0
    <3>1. intent[i] \in Control!IntentRows /\ ~(newest > intent[i].base)
      BY <1>1 DEF Control!Begin, Control!Unanswered, Control!Answered, IInv, ClaimInv, TypeInv, Claiming
    <3>2. ~(intent[i].base < newest)
      BY <3>1, RowFields DEF IInv, TypeInv
    <3> QED
      BY <1>1, <3>2 DEF IInv, CommitInv, CommitOf, TypeInv
  <2>2. \A j \in Intents, u \in Control!Threads : On(j, u)' => On(j, u) \/ j = i
    BY <1>3 DEF On
  <2> QED
    BY <1>1, <2>1, <2>2 DEF IInv, CommitInv, CommitOf
<1> QED
  BY <1>4, <1>6, <1>8, <1>9, <1>10 DEF IInv

\* The runs of one intent that are checking at once are of different processes, and only
\* after a clock jump is there more than one.
LEMMA OneEach ==
    ASSUME Control!ControlAssumption, IInv, NEW i \in Intents, NEW t \in Control!Threads, On(i, t)
    PROVE  /\ \A u \in Control!Threads : On(i, u) /\ Control!Proc(u) = Control!Proc(t) => u = t
           /\ \A u, v \in Control!Threads : On(i, u) /\ On(i, v) /\ u # t /\ v # t => u = v
           /\ jumps = 0 => \A u \in Control!Threads : On(i, u) => u = t
<1>1. \A u \in Control!Threads : On(i, u) => /\ slot[Control!Proc(u)].holder = u /\ Control!Proc(u) \in Control!Procs
                                             /\ Claiming(u) /\ u[2] = i
  BY ThreadFacts DEF On, IInv, GuardInv, Running, Claiming
<1>2. \A u \in Control!Threads : On(i, u) /\ Control!Proc(u) = Control!Proc(t) => u = t
  BY <1>1
<1>3. \A u, v \in Control!Threads : On(i, u) /\ On(i, v) /\ u # t /\ v # t => u = v
  BY <1>1, <1>2, Constants
<1>4. jumps = 0 => \A u \in Control!Threads : On(i, u) => u = t
  BY <1>1 DEF IInv, FirmInv, Firm, ClaimInv
<1> QED
  BY <1>2, <1>3, <1>4

\* A commit for one intent keeps what is said of the others.
LEMMA Others ==
    ASSUME Control!ControlAssumption, IInv, newest' = newest + 1, jumps' = jumps, NEW j \in Intents,
           intent'[j] = intent[j], commits'[j] = commits[j],
           \A t \in Control!Threads : On(j, t)' => On(j, t)
    PROVE  CommitOf(j)'
<1>1. CommitOf(j) /\ newest \in Nat /\ commits[j] \in Nat /\ jumps \in Nat
  BY DEF IInv, CommitInv, TypeInv
<1>2. intent[j] # None => intent[j].base \in Nat
  BY RowFields DEF IInv, TypeInv
<1> QED
  BY <1>1, <1>2 DEF CommitOf

LEMMA CommitStep == ASSUME Control!ControlAssumption, IInv, NEW t \in Control!Threads, Control!CheckCommits(t) PROVE IInv'
<1> DEFINE i == t[2]
<1>1. /\ pc[t] = "checking" /\ i \in Intents /\ newest' = newest + 1
      /\ pc' = [pc EXCEPT ![t] = "committed"] /\ commits' = [commits EXCEPT ![i] = @ + 1]
      /\ UNCHANGED <<intent, token, slot, cycle, jumps>>
  BY ThreadFacts DEF Control!CheckCommits
<1>2. TypeInv' /\ newest \in Nat /\ commits[i] \in Nat /\ jumps \in Nat
  BY <1>1 DEF IInv, TypeInv, Stages
<1>3. \A u \in Control!Threads : (Running(u)' <=> Running(u)) /\ (Claiming(u)' <=> Claiming(u))
  BY <1>1 DEF Running, Claiming, IInv, TypeInv
<1>4. GuardInv'
  BY <1>1, <1>3 DEF IInv, GuardInv
<1>5. ClaimInv'
  BY <1>1, <1>3 DEF IInv, ClaimInv
<1>6. FirmInv'
  BY <1>1, <1>3 DEF IInv, FirmInv, Firm
<1>7. CommitInv'
  <2>1. ASSUME NEW j \in Intents PROVE intent'[j] # None => intent'[j].base < newest' /\ intent'[j].base <= newest'
    <3>1. CASE intent[j] # None
      <4>1. intent[j] \in Control!IntentRows /\ intent[j].base <= newest
        BY <3>1 DEF IInv, TypeInv, CommitInv, CommitOf
      <4> QED
        BY <1>1, <1>2, <4>1, RowFields
    <3> QED
      BY <1>1, <3>1
  <2>2. \A j \in Intents, u \in Control!Threads : On(j, u)' <=> On(j, u) /\ u # t
    BY <1>1 DEF On, IInv, TypeInv
  <2>3. On(i, t) /\ intent[i] # None
    BY <1>1 DEF On, IInv, ClaimInv, Claiming
  <2>4. commits[i] # 2 /\ commits[i] <= 2
    BY <1>1, <2>3 DEF IInv, CommitInv, CommitOf
  <2>5. CASE commits[i] = 0
    <3>1. commits'[i] = 1 /\ \A j \in Intents : j # i => commits'[j] = commits[j]
      BY <1>1, <2>5 DEF IInv, TypeInv
    <3>2. /\ \A u, v \in Control!Threads : On(i, u)' /\ On(i, v)' => u = v
          /\ jumps = 0 => \A u \in Control!Threads : ~On(i, u)'
      BY <1>1, <2>2, <2>3, OneEach
    <3>3. CommitOf(i)'
      BY <1>1, <1>2, <2>1, <2>2, <2>3, <3>1, <3>2 DEF CommitOf
    <3>4. \A j \in Intents : j # i => CommitOf(j)'
      BY <1>1, <2>1, <2>2, <3>1, Others
    <3> QED
      BY <3>3, <3>4 DEF CommitInv
  <2>6. CASE commits[i] = 1
    <3>1. commits'[i] = 2 /\ \A j \in Intents : j # i => commits'[j] = commits[j]
      BY <1>1, <2>6 DEF IInv, TypeInv
    <3>2. jumps > 0 /\ \A u \in Control!Threads : ~On(i, u)'
      BY <1>1, <1>2, <2>2, <2>3, <2>6 DEF IInv, CommitInv, CommitOf
    <3>3. CommitOf(i)'
      BY <1>1, <1>2, <2>1, <2>2, <2>3, <3>1, <3>2 DEF CommitOf
    <3>4. \A j \in Intents : j # i => CommitOf(j)'
      BY <1>1, <2>1, <2>2, <3>1, Others
    <3> QED
      BY <3>3, <3>4 DEF CommitInv
  <2> QED
    BY <1>2, <2>4, <2>5, <2>6
<1> QED
  BY <1>2, <1>4, <1>5, <1>6, <1>7 DEF IInv
\* The clock jumps: from here on claims are not firm.
LEMMA JumpStep == ASSUME Control!ControlAssumption, IInv, Control!ClockJump PROVE IInv'
<1>1. /\ UNCHANGED <<newest, pc, token, slot, cycle, commits>> /\ jumps' = jumps + 1
      /\ intent' = [i \in Intents |-> IF intent[i] # None /\ intent[i].status = "running"
                                        THEN [intent[i] EXCEPT !.age = StaleAfter] ELSE intent[i]]
  BY DEF Control!ClockJump
<1>2. ASSUME NEW i \in Intents PROVE Kept(i) /\ (intent[i] = None => intent'[i] = None)
  <2>1. CASE intent'[i] = intent[i]
    BY <2>1 DEF Kept, IInv, TypeInv
  <2>2. CASE intent'[i] # intent[i]
    <3> DEFINE moved == [intent[i] EXCEPT !.age = StaleAfter]
    <3>1. intent[i] \in Control!IntentRows /\ intent'[i] = moved /\ intent[i] # None
      BY <1>1, <2>2 DEF IInv, TypeInv
    <3>2. moved \in Control!IntentRows /\ moved.attempts = intent[i].attempts /\ moved.base = intent[i].base
      BY <3>1, AgedIntent, Constants, TRUE \in BOOLEAN
    <3> HIDE DEF moved
    <3>3. moved # None
      BY <3>2, Constants
    <3> QED
      BY <3>1, <3>2, <3>3 DEF Kept
  <2> QED
    BY <2>1, <2>2
<1>3. intent' \in [Intents -> Control!IntentRows \union {None}]
  BY <1>1, <1>2 DEF Kept
<1>4. TypeInv'
  BY <1>1, <1>3 DEF IInv, TypeInv
<1>5. GuardInv'
  BY <1>1, KeepGuard DEF Running
<1>6. /\ newest' \in Nat /\ newest <= newest' /\ jumps' \in Nat /\ jumps <= jumps' /\ jumps' # 0
      /\ pc' \in [Control!Threads -> Stages] /\ token' \in [Control!Threads -> Nat]
  BY <1>1 DEF IInv, TypeInv
<1>7. \A t \in Control!Threads : pc'[t] = pc[t] /\ token'[t] = token[t]
  BY <1>1
<1>8. ClaimInv' /\ FirmInv' /\ CommitInv'
  BY <1>1, <1>2, <1>3, <1>6, <1>7, QuietStep
<1> QED
  BY <1>4, <1>5, <1>8 DEF IInv

\* Time passes alike for a claim and for the guard its run holds.
LEMMA ElapseStep == ASSUME Control!ControlAssumption, IInv, Control!Elapse PROVE IInv'
<1>1. /\ UNCHANGED <<newest, pc, token, cycle, jumps, commits>>
      /\ \A p \in Control!Procs : slot[p].holder \notin {None, byApi} => slot[p].age < CheckTimeout
      /\ \A t \in Control!Threads : pc[t] \notin {"claimed", "unready"}
      /\ slot' = [p \in Control!Procs |-> IF slot[p].holder # None /\ slot[p].age < StaleAfter
                                     THEN [slot[p] EXCEPT !.age = @ + 1] ELSE slot[p]]
      /\ intent' = [i \in Intents |->
                      IF intent[i] # None /\ intent[i].status = "running" /\ intent[i].age < StaleAfter
                        THEN [intent[i] EXCEPT !.age = @ + 1] ELSE intent[i]]
  BY DEF Control!Elapse
<1>2. ASSUME NEW i \in Intents
      PROVE  /\ Kept(i) /\ (intent[i] = None => intent'[i] = None)
             /\ intent[i] # None => /\ intent'[i].status = intent[i].status
                                    /\ intent'[i].token = intent[i].token
                                    /\ intent'[i].age <= intent[i].age + 1
  <2>1. CASE intent'[i] = intent[i]
    BY <2>1, RowFields DEF Kept, IInv, TypeInv
  <2>2. CASE intent'[i] # intent[i]
    <3> DEFINE n == intent[i].age + 1
               moved == [intent[i] EXCEPT !.age = n]
    <3>1. intent[i] \in Control!IntentRows /\ intent'[i] = moved /\ intent[i] # None /\ n \in Nat
      BY <1>1, <2>2, RowFields DEF IInv, TypeInv
    <3> HIDE DEF n
    <3>2. /\ moved \in Control!IntentRows /\ moved.attempts = intent[i].attempts /\ moved.base = intent[i].base
          /\ moved.status = intent[i].status /\ moved.token = intent[i].token /\ moved.age = n
      BY <3>1, AgedIntent, TRUE \in BOOLEAN
    <3> HIDE DEF moved
    <3>3. moved # None /\ n <= intent[i].age + 1
      BY <3>1, <3>2, Constants, RowFields DEF n
    <3> QED
      BY <3>1, <3>2, <3>3 DEF Kept
  <2> QED
    BY <2>1, <2>2
<1>3. intent' \in [Intents -> Control!IntentRows \union {None}]
  BY <1>1, <1>2 DEF Kept
<1>4. ASSUME NEW p \in Control!Procs
      PROVE  /\ slot'[p] \in Guards /\ slot'[p].holder = slot[p].holder
             /\ slot[p].holder \notin {None, byApi} =>
                  slot'[p].age = slot[p].age + 1 /\ slot'[p].age <= CheckTimeout
  BY <1>1, Constants DEF IInv, TypeInv, Guards
<1>5. slot' \in [Control!Procs -> Guards]
  BY <1>1, <1>4
<1>6. TypeInv'
  BY <1>1, <1>3, <1>5 DEF IInv, TypeInv, Guards
<1>7. GuardInv'
  BY <1>1, <1>4, ThreadFacts, Constants DEF IInv, GuardInv, Running
<1>8. jumps' = 0 => \A t \in Control!Threads : Claiming(t)' => Firm(t)'
  <2> SUFFICES ASSUME jumps = 0, NEW t \in Control!Threads, Claiming(t) PROVE Firm(t)'
    BY <1>1 DEF Claiming
  <2>1. /\ Firm(t) /\ Running(t) /\ t[2] \in Intents /\ Control!Proc(t) \in Control!Procs
        /\ intent[t[2]] \in Control!IntentRows /\ intent[t[2]] # None
        /\ slot[Control!Proc(t)].holder = t /\ slot[Control!Proc(t)] \in Guards
    BY <1>1, ThreadFacts DEF IInv, FirmInv, ClaimInv, GuardInv, TypeInv, Claiming, Running, Guards
  <2>2. intent'[t[2]].age <= intent[t[2]].age + 1 /\ slot'[Control!Proc(t)].age = slot[Control!Proc(t)].age + 1
    BY <1>2, <1>4, <2>1, Constants
  <2>3. /\ intent[t[2]].age \in Nat /\ slot[Control!Proc(t)].age \in Nat /\ intent'[t[2]].age \in Nat
        /\ intent[t[2]].age <= slot[Control!Proc(t)].age
    BY <1>2, <2>1, RowFields DEF Guards, Firm, Kept
  <2>4. intent'[t[2]].age <= slot'[Control!Proc(t)].age
    BY <2>2, <2>3
  <2> QED
    BY <1>1, <1>2, <2>1, <2>4 DEF Firm, Running
<1>9. ClaimInv' /\ FirmInv' /\ CommitInv'
  <2>1. /\ newest' \in Nat /\ newest <= newest' /\ jumps' \in Nat /\ jumps <= jumps'
        /\ pc' \in [Control!Threads -> Stages] /\ token' \in [Control!Threads -> Nat] /\ commits' = commits
    BY <1>1 DEF IInv, TypeInv
  <2>2. \A t \in Control!Threads : pc'[t] = pc[t] /\ token'[t] = token[t]
    BY <1>1
  <2> QED
    BY <1>2, <1>3, <1>8, <2>1, <2>2, QuietStep
<1> QED
  BY <1>6, <1>7, <1>9 DEF IInv

LEMMA RunEndStep ==
    ASSUME Control!ControlAssumption, IInv, NEW t \in Control!Threads,
           \/ Control!Satisfied(t) \/ Control!Abandon(t) \/ Control!Busy(t) \/ Control!CheckEnds(t) \/ Control!CheckFails(t) \/ Control!CheckAborted(t)
    PROVE  IInv'
<1>1. Claiming(t) /\ UNCHANGED <<newest, jumps, commits, cycle>> /\ slot' \in {slot, Control!Freed(Control!Proc(t), t)}
  BY DEF Control!Satisfied, Control!Abandon, Control!Busy, Control!CheckEnds, Control!CheckFails, Control!CheckAborted, Control!FinishCheck, Claiming
<1>2. PICK s \in IntentStatus, n \in {0, newest} : Control!End(t, s, n)
  BY DEF Control!Satisfied, Control!Abandon, Control!Busy, Control!CheckEnds, Control!CheckFails, Control!CheckAborted, IntentStatus
<1>3. n \in Nat
  BY <1>2 DEF IInv, TypeInv
<1> QED
  BY <1>1, <1>2, <1>3, EndStep

LEMMA StutterStep == ASSUME IInv, UNCHANGED Control!vars PROVE IInv'
BY DEF Control!vars, IInv, TypeInv, GuardInv, ClaimInv, FirmInv, CommitInv, CommitOf, Running, Claiming,
       Firm, On

LEMMA NextIInv == ASSUME Control!ControlAssumption, IInv, [Control!Next]_(Control!vars) PROVE IInv'
<1>1. ASSUME NEW i \in Intents, Control!Admit(i) \/ Control!Ripens(i) PROVE IInv'
  BY <1>1, AdmitStep, RipenStep
<1>2. CASE Control!ApiCheck \/ Control!ApiEnds
  BY <1>2, ApiStep
<1>3. ASSUME NEW p \in Control!Procs, Control!CycleStart(p) \/ Control!Cycle(p) PROVE IInv'
  BY <1>3, CycleStartStep, DueBeginStep, DueEndStep, CycleSteps DEF Control!Cycle
<1>4. CASE Control!CycleTimesOut \/ \E p \in Control!Procs : Control!Crash(p)
  BY <1>4, CrashStep
<1>5. ASSUME NEW t \in Control!Threads, Control!Run(t) \/ Control!CheckCommits(t) \/ Control!CheckAborted(t) PROVE IInv'
  BY <1>5, ClaimStep, BeginStep, RunEndStep, CommitStep DEF Control!Run
<1>6. CASE Control!ClockJump \/ Control!StatusMoves \/ Control!Elapse \/ UNCHANGED Control!vars
  BY <1>6, JumpStep, StatusStep, ElapseStep, StutterStep
<1> QED
  BY <1>1, <1>2, <1>3, <1>4, <1>5, <1>6 DEF Control!Next
-----------------------------------------------------------------------------
(* Giving an intent up *)

GivenUp(i) ==
    intent[i] # None /\ intent[i].status # "abandoned" /\ intent'[i].status = "abandoned"
MayGiveUp(i) ==
    \/ intent[i].attempts = MaxAttempts
    \/ \E t \in Control!Threads : t[2] = i /\ token[t] = intent[i].token /\ pc[t] \in {"unready", "checking"}

\* An outcome abandons for want of attempts, or is itself "abandoned".
LEMMA OutcomeGivesUp ==
    ASSUME Control!ControlAssumption, IInv, NEW t \in Control!Threads, NEW s \in IntentStatus, NEW n, Control!End(t, s, n),
           NEW i \in Intents, GivenUp(i)
    PROVE  /\ i = t[2] /\ token[t] = intent[i].token
           /\ intent[i].attempts = MaxAttempts \/ s = "abandoned"
<1>1. /\ intent' = Control!Outcome(t, s, n) /\ t[2] \in Intents /\ intent[i] \in Control!IntentRows
      /\ intent'[i].status # intent[i].status
  BY ThreadFacts DEF Control!End, GivenUp, IInv, TypeInv
<1>2. i = t[2] /\ intent[i].token = token[t]
  BY <1>1 DEF Control!Outcome, IInv, TypeInv
<1>3. intent'[i].status = IF s = "pending" /\ intent[i].attempts >= MaxAttempts THEN "abandoned" ELSE s
  BY <1>1, <1>2 DEF Control!Outcome, IInv, TypeInv, Control!IntentRows
<1>4. intent[i].attempts >= MaxAttempts => intent[i].attempts = MaxAttempts
  BY <1>1, RowFields, Constants DEF IInv, ClaimInv, GivenUp
<1> QED
  BY <1>2, <1>3, <1>4 DEF GivenUp

LEMMA GiveUpStep ==
    ASSUME Control!ControlAssumption, IInv, [Control!Next]_(Control!vars), NEW i \in Intents, GivenUp(i)
    PROVE  MayGiveUp(i)
<1>1. intent[i] \in Control!IntentRows /\ intent[i] # None /\ intent'[i] # intent[i]
  BY DEF GivenUp, IInv, TypeInv
<1>2. intent[i].attempts >= MaxAttempts => intent[i].attempts = MaxAttempts
  BY <1>1, RowFields, Constants DEF IInv, ClaimInv
<1>3. ASSUME NEW p \in Control!Procs, Control!CycleStart(p) PROVE MayGiveUp(i)
  BY <1>1, <1>2, <1>3 DEF Control!CycleStart, Control!Released, Control!IntentRows, GivenUp, MayGiveUp
<1>4. ASSUME NEW t \in Control!Threads, Control!Claim(t) PROVE FALSE
  <2>1. t[2] = i /\ intent' = [intent EXCEPT ![i] = Control!ClaimedRow(i)]
    BY <1>1, <1>4, ThreadFacts DEF Control!Claim, IInv, TypeInv
  <2>2. intent'[i].status = "running"
    BY <1>1, <2>1, ClaimedIntent DEF IInv, TypeInv
  <2> QED
    BY <2>2 DEF GivenUp
<1>5. ASSUME NEW t \in Control!Threads, Control!Satisfied(t) \/ Control!Busy(t) \/ Control!CheckEnds(t) \/ Control!CheckFails(t)
      PROVE  MayGiveUp(i)
  <2>1. PICK s \in {"done", "pending"}, n \in {0, newest} : Control!End(t, s, n)
    BY <1>5 DEF Control!Satisfied, Control!Busy, Control!CheckEnds, Control!CheckFails
  <2> QED
    BY <2>1, OutcomeGivesUp DEF MayGiveUp, IntentStatus
<1>6. ASSUME NEW t \in Control!Threads, Control!Abandon(t) \/ Control!CheckAborted(t) PROVE MayGiveUp(i)
  <2>1. Control!End(t, "abandoned", 0) /\ pc[t] \in {"unready", "checking"}
    BY <1>6 DEF Control!Abandon, Control!CheckAborted
  <2> QED
    BY <2>1, OutcomeGivesUp DEF MayGiveUp, IntentStatus
<1>7. ASSUME NEW j \in Intents, Control!Admit(j) \/ Control!Ripens(j) PROVE FALSE
  <2>1. CASE Control!Admit(j)
    BY <1>1, <2>1 DEF Control!Admit, IInv, TypeInv
  <2>2. CASE Control!Ripens(j)
    BY <1>1, <2>2 DEF Control!Ripens, IInv, TypeInv, Control!IntentRows, GivenUp
  <2> QED
    BY <1>7, <2>1, <2>2
<1>8. CASE Control!ClockJump
  BY <1>1, <1>8 DEF Control!ClockJump, Control!IntentRows, GivenUp
<1>9. CASE Control!Elapse
  BY <1>1, <1>9 DEF Control!Elapse, Control!IntentRows, GivenUp
<1>10. ASSUME \/ Control!ApiCheck \/ Control!ApiEnds \/ Control!CycleTimesOut \/ Control!StatusMoves \/ UNCHANGED Control!vars
              \/ \E p \in Control!Procs : Control!Cycle(p) \/ Control!Crash(p)
              \/ \E t \in Control!Threads : Control!Begin(t) \/ Control!CheckCommits(t)
       PROVE  FALSE
  BY <1>1, <1>10 DEF Control!ApiCheck, Control!ApiEnds, Control!CycleTimesOut, Control!StatusMoves, Control!vars, Control!Cycle, Control!DueBegin, Control!DueEnd,
     Control!CycleEnd, Control!CycleTake, Control!Crash, Control!Begin, Control!CheckCommits
<1> QED
  BY <1>3, <1>4, <1>5, <1>6, <1>7, <1>8, <1>9, <1>10 DEF Control!Next, Control!Run

-----------------------------------------------------------------------------
(* Theorems *)

\* The inductive invariant: guards and deadlines, claims and tokens, commits.
THEOREM ControlInvariant == ASSUME Control!ControlAssumption PROVE Control!Spec => []IInv
<1>1. Control!Init => IInv
  BY InitIInv
<1>2. IInv /\ [Control!Next]_(Control!vars) => IInv'
  BY NextIInv
<1> QED
  BY <1>1, <1>2, PTL DEF Control!Spec

\* clear_stale never leads to two checks of a topic that have a deadline, in one
\* process: whatever the deadline is, if evictions wait longer.
THEOREM ChecksExclusive == ASSUME Control!ControlAssumption PROVE Control!Spec => []BoundedChecksExclusive
<1>1. IInv => BoundedChecksExclusive
  <2> SUFFICES ASSUME IInv, NEW p \in Control!Procs PROVE Cardinality(Control!Bounded(p)) <= 1
    BY ControlCardinality DEF BoundedChecksExclusive, Control!BoundedChecksExclusive
  <2>1. Control!Bounded(p) \subseteq {slot[p].holder}
    BY DEF Control!Bounded, IInv, GuardInv, Running
  <2>2. IsFiniteSet({slot[p].holder}) /\ Cardinality({slot[p].holder}) = 1
    BY FS_Singleton
  <2> QED
    BY <2>1, <2>2, FS_Subset
<1> QED
  BY <1>1, ControlInvariant, PTL

\* check_intents: one accepted check commits one result, whatever crashes, times out or
\* is applied late; after a clock jump, one for each process.
THEOREM CommitOnce == ASSUME Control!ControlAssumption PROVE Control!Spec => []CommitsOnce
<1>1. IInv => CommitsOnce
  <2> SUFFICES ASSUME IInv, NEW i \in Intents
               PROVE  commits[i] <= IF jumps = 0 THEN 1 ELSE Cardinality(Control!Procs)
    BY ControlCardinality DEF CommitsOnce, Control!CommitsOnce
  <2>1. Cardinality(Control!Procs) = 2
    <3>1. IsFiniteSet({server}) /\ Cardinality({server}) = 1 /\ cli \notin {server}
      BY FS_Singleton, Constants
    <3>2. Cardinality({server} \union {cli}) = 2
      BY <3>1, FS_AddElement
    <3>3. Control!Procs = {server} \union {cli}
      BY DEF Control!Procs
    <3> QED
      BY <3>2, <3>3
  <2>2. commits[i] \in Nat /\ jumps \in Nat /\ commits[i] <= 2 /\ (commits[i] = 2 => jumps > 0)
    BY DEF IInv, TypeInv, CommitInv, CommitOf
  <2> QED
    BY <2>1, <2>2
<1> QED
  BY <1>1, ControlInvariant, PTL

\* An accepted check is given up for want of attempts, or by the run that holds its claim
\* because the topic is not READY or moved: nothing else drops one.
THEOREM NothingDropped == ASSUME Control!ControlAssumption PROVE Control!Spec => NotDropped
<1>1. IInv /\ [Control!Next]_(Control!vars) => [\A i \in Intents : GivenUp(i) => MayGiveUp(i)]_(Control!vars)
  BY GiveUpStep
<1>2. (\A i \in Intents : GivenUp(i) => MayGiveUp(i)) <=>
        \A i \in Intents :
          intent[i] # None /\ intent[i].status # "abandoned" /\ intent'[i].status = "abandoned"
            => \/ intent[i].attempts = MaxAttempts
               \/ \E t \in Control!Threads : t[2] = i /\ token[t] = intent[i].token
                                             /\ pc[t] \in {"unready", "checking"}
  BY DEF GivenUp, MayGiveUp
<1> QED
  BY <1>1, <1>2, ControlInvariant, PTL DEF Control!Spec, NotDropped, Control!NotDropped
=============================================================================
