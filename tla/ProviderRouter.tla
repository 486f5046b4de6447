--------------------------- MODULE ProviderRouter ---------------------------
(***************************************************************************)
(* The health of the news providers of automatic topics, and the checks    *)
(* that share it.                                                          *)
(*                                                                         *)
(* A check asks the router for a provider: the first healthy one, or the   *)
(* half-open probe of one whose cooldown has passed, or none.  It fetches  *)
(* with nothing held, and reports: a success resets the streak unless a    *)
(* failure was reported meanwhile (the epoch), a failure advances it.  An  *)
(* empty or failed fetch cascades to the next healthy provider.  The tries  *)
(* of one fetch (Retries) are part of the wait for its answer.             *)
(*                                                                         *)
(* Monotonic time passes in units of the probe's lease; ages are counted   *)
(* up to the cooldown.                                                     *)
(***************************************************************************)
EXTENDS FeedFetch, FiniteSets, Sequences

CONSTANTS
    Checks,      \* checks in flight at once
    None,
    Providers,   \* DEFAULT_PROVIDERS, in order of preference
    Threshold,   \* _FAILURE_THRESHOLD
    Cooldown,    \* _UNHEALTHY_COOLDOWN_SECONDS, in units of the lease
    Budget,      \* SOURCE_ATTEMPT_BUDGET_SECONDS, in the same units
    MaxLosses    \* bound: fetches that do not bring entries, cancelled checks

RouterAssumption ==
    /\ {Threshold, Budget} \subseteq Nat \ {0} /\ MaxLosses \in Nat
    /\ Cooldown \in Nat /\ Cooldown > Budget
    /\ Len(Providers) \in Nat \ {0} /\ DOMAIN Providers = 1..Len(Providers)
    /\ \A i \in DOMAIN Providers : Providers[i] # None
    /\ \A i, j \in DOMAIN Providers : Providers[i] = Providers[j] => i = j

Names == {Providers[i] : i \in DOMAIN Providers}

VARIABLES
    provider,  \* per provider: fails, the age of the last failure, epoch, lease of the probe
    request,   \* per check: the request in flight
    asked,   \* history: no failure was reported since the request was sent
    losses

vars == <<provider, request, asked, losses>>

NoFetch == [at |-> None, epoch |-> 0, age |-> 0, first |-> TRUE, probe |-> FALSE]

-----------------------------------------------------------------------------
(* ProviderRouter *)

Healthy(p) == provider[p].fails < Threshold
Recovering(p) == ~Healthy(p) /\ provider[p].age > Cooldown

HealthyIn(ps) == {i \in ps : Healthy(Providers[i])}
First(is) == CHOOSE i \in is : \A j \in is : i <= j

\* _take_probe: only when no probe is out, or its lease has run out.
ProbeFree(p) == ~provider[p].lease

\* The candidate whose failure is the oldest; among equals the preferred one.
\* (Ages stop at Cooldown + 1, so that the order of older ones is left open.)
Oldest(p) == Recovering(p) /\ \A q \in Names : Recovering(q) => provider[p].age >= provider[q].age

\* Mutant: any success clears the cooldown.
HealthyAnyway(p, epoch) == [provider[p] EXCEPT !.fails = 0, !.age = 0, !.lease = FALSE]

\* mark_healthy: ignored when a failure was reported since the epoch was read.
mark_healthy(p, epoch) ==
    IF provider[p].epoch = epoch THEN [provider[p] EXCEPT !.fails = 0, !.age = 0, !.lease = FALSE]
                               ELSE provider[p]

mark_unhealthy(p) ==
    [provider[p] EXCEPT !.fails = IF @ < Threshold THEN @ + 1 ELSE @,
                      !.age = 0, !.epoch = @ + 1, !.lease = FALSE]

-----------------------------------------------------------------------------
(* _fetch_auto and _fetch_one_provider *)

Send(c, p, first, probe) ==
    /\ request' = [request EXCEPT ![c] = [at |-> p, epoch |-> provider'[p].epoch,
                                      age |-> IF first THEN 0 ELSE request[c].age,
                                      first |-> first, probe |-> probe]]
    /\ asked' = [asked EXCEPT ![c] = TRUE]

\* admit_provider; with no provider the check counts a failed source and ends.
Admit(c) ==
    /\ request[c].at = None
    /\ HealthyIn(DOMAIN Providers) # {}
    /\ provider' = provider
    /\ Send(c, Providers[First(HealthyIn(DOMAIN Providers))], TRUE, FALSE)
    /\ UNCHANGED losses

Probe(c) ==
    /\ request[c].at = None
    /\ HealthyIn(DOMAIN Providers) = {}
    /\ \E p \in Names :
          /\ Oldest(p) /\ ProbeFree(p)
          /\ provider' = [provider EXCEPT ![p].lease = TRUE]
          /\ Send(c, p, TRUE, TRUE)
    /\ UNCHANGED losses

Reported(p, epoch, status) ==
    CASE succeeded(status) -> mark_healthy(p, epoch)
      [] is_source_failure(status) -> mark_unhealthy(p)
      [] OTHER -> provider[p]

\* get_next_provider, by the provider this outcome leaves.
Next1(p, h) ==
    LET at == CHOOSE i \in DOMAIN Providers : Providers[i] = p
        later == {i \in DOMAIN Providers : i > at /\ h[Providers[i]].fails < Threshold}
    IN IF later = {} THEN None ELSE Providers[First(later)]

Report(c, reply) ==
    LET p == request[c].at
        charge == IF reply = "entries" THEN 0 ELSE 1
        next == Next1(p, provider')
    IN
    /\ p # None /\ losses + charge <= MaxLosses
    /\ losses' = losses + charge
    /\ provider' = [provider EXCEPT ![p] = Reported(p, request[c].epoch, Status(reply))]
    /\ \E expired \in BOOLEAN :
         IF request[c].first /\ should_cascade(Status(reply)) /\ next # None /\ ~expired
           THEN request' = [request EXCEPT ![c] = [at |-> next, epoch |-> provider[next].epoch,
                                               age |-> @.age, first |-> FALSE, probe |-> FALSE]]
           ELSE request' = [request EXCEPT ![c] = NoFetch]
    /\ asked' = [d \in Checks |->
                   IF d = c THEN TRUE
                   ELSE asked[d] /\ ~(request[d].at = p /\ is_source_failure(Status(reply)))]

\* The check is cancelled or its task dies: no outcome is reported.
Cancel(c) ==
    /\ request[c].at # None /\ losses < MaxLosses
    /\ losses' = losses + 1
    /\ request' = [request EXCEPT ![c] = NoFetch]
    /\ asked' = [asked EXCEPT ![c] = TRUE]
    /\ UNCHANGED provider

\* Mutant: the lease of a probe that never reports is never taken back.
LeaseKept(p) == provider[p].lease

LeaseLeft(p) == FALSE

\* One lease's time.  No request outlives the source budget.
Elapse ==
    /\ \A c \in Checks : request[c].at # None => request[c].age < Budget
    /\ request' = [c \in Checks |-> IF request[c].at = None THEN NoFetch
                                    ELSE [request[c] EXCEPT !.age = @ + 1]]
    /\ provider' = [p \in Names |->
                    [provider[p] EXCEPT !.age = IF provider[p].fails > 0 /\ @ <= Cooldown THEN @ + 1 ELSE @,
                                      !.lease = LeaseLeft(p)]]
    /\ request' # request \/ provider' # provider
    /\ UNCHANGED <<asked, losses>>

-----------------------------------------------------------------------------
Init ==
    /\ provider = [p \in Names |-> [fails |-> 0, age |-> 0, epoch |-> 0, lease |-> FALSE]]
    /\ request = [c \in Checks |-> NoFetch]
    /\ asked = [c \in Checks |-> TRUE]
    /\ losses = 0

Next ==
    \/ \E c \in Checks :
         \/ Admit(c) \/ Probe(c) \/ Cancel(c)
         \/ \E r \in Replies : Report(c, r)
    \/ Elapse

Spec == Init /\ [][Next]_vars

\* Topics are checked again and again, time passes, and once the losses are used
\* up a provider that is asked answers.
Fairness ==
    /\ \A c \in Checks : WF_vars(Admit(c) \/ Probe(c)) /\ WF_vars(Report(c, "entries"))
    /\ WF_vars(Elapse)
FairSpec == Spec /\ Fairness

-----------------------------------------------------------------------------
(* Properties *)

\* A cooldown is ended by an answer to a request that was sent after the last
\* failure: a success that raced with the failures does not wipe it.
CooldownKept ==
    [][\A p \in Names : ~Healthy(p) /\ provider'[p].fails = 0
         => \E c \in Checks : request[c].at = p /\ asked[c] /\ request'[c] # request[c]]_vars

\* With every provider out, some provider is used again: a probe that is lost
\* with its check does not wedge recovery.
ProviderRecovers ==
    (\A p \in Names : ~Healthy(p)) ~> (\E p \in Names : Healthy(p))

=============================================================================
