---------------------------- MODULE SourceProofs ----------------------------
(***************************************************************************)
(* Where a check gets its articles and its analysis from, for any number   *)
(* of checks, providers, links and articles: the news providers, the LLM   *)
(* client, the redirect links of Google News, the health of the feeds.     *)
(* The components are those MCEnvironment composes.                        *)
(***************************************************************************)
EXTENDS MCEnvironment, FiniteSetTheorems, WellFoundedInduction, TLAPS

(***************************************************************************)
(* The cooldown of a provider, for any list of providers, any number of    *)
(* checks and any thresholds.  What a request carries is the epoch its     *)
(* provider had when it was sent, and every failure advances the epoch: a  *)
(* request that still has the provider's epoch was therefore sent after    *)
(* the last failure (EpochInv), and only such a one may clear a streak.    *)
(***************************************************************************)

ProviderHealth == [fails : Nat, age : Nat, epoch : Nat, lease : BOOLEAN]
ProviderRequest == [at : Router!Names \union {None}, epoch : Nat, age : Nat, first : BOOLEAN, probe : BOOLEAN]

RouterType ==
    /\ provider \in [Router!Names -> ProviderHealth]
    /\ request \in [Actors -> ProviderRequest]
    /\ asked \in [Actors -> BOOLEAN]

\* Epochs only grow, and a request with the epoch of its provider outran no failure.
Current(c, p) == request[c].at = p => /\ request[c].epoch <= provider[p].epoch
                                      /\ request[c].epoch = provider[p].epoch => asked[c]
EpochInv == \A c \in Actors, p \in Router!Names : Current(c, p)

RouterInv == RouterType /\ EpochInv

-----------------------------------------------------------------------------
(* Providers in order of preference *)

LEMMA RouterConstants ==
    ASSUME Router!RouterAssumption
    PROVE  /\ ProviderThreshold \in Nat \ {0} /\ DOMAIN Providers \subseteq Nat /\ None \notin Router!Names
           /\ Router!Names = {Providers[i] : i \in DOMAIN Providers}
BY DEF Router!RouterAssumption, Router!Names

LEMMA Least ==
    ASSUME NEW S \in SUBSET Nat, S # {}
    PROVE  \E x \in S : \A y \in S : x <= y
<1> DEFINE R == {ss \in Nat \X Nat : ss[1] < ss[2]}
<1>1. IsWellFoundedOn(R, Nat)
  BY NatLessThanWellFounded DEF OpToRel
<1> HIDE DEF R
<1>2. PICK x \in S : \A y \in S : ~(<<y, x>> \in R)
  BY <1>1, WFMin
<1>3. ASSUME NEW y \in S PROVE x <= y
  <2>1. <<y, x>> \in Nat \X Nat /\ ~(<<y, x>> \in R)
    BY <1>2
  <2>2. ~(y < x)
    BY <2>1 DEF R
  <2> QED
    BY <2>2
<1> QED
  BY <1>3

\* First picks a provider among those it is given.
LEMMA FirstIsOne ==
    ASSUME Router!RouterAssumption, NEW is \in SUBSET DOMAIN Providers, is # {}
    PROVE  Router!First(is) \in is /\ Providers[Router!First(is)] \in Router!Names
<1>1. is \in SUBSET Nat
  BY RouterConstants
<1>2. \E i \in is : \A j \in is : i <= j
  BY <1>1, Least
<1> QED
  BY <1>2 DEF Router!First, Router!Names

LEMMA NextIsOne ==
    ASSUME Router!RouterAssumption, NEW p, NEW h
    PROVE  Router!Next1(p, h) \in Router!Names \union {None}
<1> DEFINE at == CHOOSE i \in DOMAIN Providers : Providers[i] = p
           later == {i \in DOMAIN Providers : i > at /\ h[Providers[i]].fails < ProviderThreshold}
<1>1. later \in SUBSET DOMAIN Providers
  OBVIOUS
<1>2. Router!Next1(p, h) = IF later = {} THEN None ELSE Providers[Router!First(later)]
  BY DEF Router!Next1
<1> HIDE DEF later
<1> QED
  BY <1>1, <1>2, FirstIsOne

-----------------------------------------------------------------------------
(* What a report does to a provider *)

LEMMA Healthier ==
    ASSUME RouterType, NEW p \in Router!Names, NEW e \in Nat
    PROVE  /\ Router!mark_healthy(p, e) \in ProviderHealth /\ Router!mark_healthy(p, e).epoch = provider[p].epoch
           /\ provider[p].epoch # e => Router!mark_healthy(p, e) = provider[p]
<1>1. provider[p] \in ProviderHealth
  BY DEF RouterType
<1>2. [provider[p] EXCEPT !.fails = 0, !.age = 0, !.lease = FALSE] \in ProviderHealth
  BY <1>1, 0 \in Nat, FALSE \in BOOLEAN, ZenonT(30) DEF ProviderHealth
<1>3. [provider[p] EXCEPT !.fails = 0, !.age = 0, !.lease = FALSE].epoch = provider[p].epoch
  BY <1>1 DEF ProviderHealth
<1> QED
  BY <1>1, <1>2, <1>3 DEF Router!mark_healthy

LEMMA Sicker ==
    ASSUME Router!RouterAssumption, RouterType, NEW p \in Router!Names
    PROVE  /\ Router!mark_unhealthy(p) \in ProviderHealth /\ Router!mark_unhealthy(p).epoch = provider[p].epoch + 1
           /\ Router!mark_unhealthy(p).fails > 0
<1>1. provider[p] \in ProviderHealth /\ ProviderThreshold \in Nat \ {0}
  BY RouterConstants DEF RouterType
<1> DEFINE fs == IF provider[p].fails < ProviderThreshold THEN provider[p].fails + 1 ELSE provider[p].fails
           ep == provider[p].epoch + 1
           new == [provider[p] EXCEPT !.fails = fs, !.age = 0, !.epoch = ep, !.lease = FALSE]
<1>2. fs \in Nat /\ ep \in Nat /\ fs > 0
  BY <1>1 DEF ProviderHealth
<1>3. Router!mark_unhealthy(p) = new
  BY <1>1 DEF Router!mark_unhealthy, ProviderHealth
<1> HIDE DEF fs, ep
<1>4. new \in ProviderHealth
  BY <1>1, <1>2, 0 \in Nat, FALSE \in BOOLEAN, ZenonT(30) DEF ProviderHealth
<1>5. new.epoch = ep /\ new.fails = fs
  BY <1>1 DEF ProviderHealth
<1> HIDE DEF new
<1> QED
  BY <1>2, <1>3, <1>4, <1>5 DEF ep

\* A report resets a streak only under the provider's own epoch, and a failure ends the epoch.
LEMMA ReportedProvider ==
    ASSUME Router!RouterAssumption, RouterType, NEW p \in Router!Names, NEW e \in Nat, NEW s
    PROVE  LET h == Router!Reported(p, e, s) IN
           /\ h \in ProviderHealth /\ h.epoch >= provider[p].epoch
           /\ Router!is_source_failure(s) => h.epoch = provider[p].epoch + 1
           /\ h.fails = 0 /\ provider[p].fails # 0 => provider[p].epoch = e
<1>1. provider[p] \in ProviderHealth /\ provider[p].epoch \in Nat
  BY DEF RouterType, ProviderHealth
<1>2. CASE Router!succeeded(s)
  <2>1. ~Router!is_source_failure(s)
    BY <1>2 DEF Router!succeeded, Router!is_source_failure, Router!OK, Router!NOT_MODIFIED, Router!EMPTY, Router!FAILED
  <2> QED
    BY <1>1, <1>2, <2>1, Healthier DEF Router!Reported
<1>3. CASE ~Router!succeeded(s) /\ Router!is_source_failure(s)
  BY <1>1, <1>3, Sicker DEF Router!Reported
<1>4. CASE ~Router!succeeded(s) /\ ~Router!is_source_failure(s)
  BY <1>1, <1>4 DEF Router!Reported
<1> QED
  BY <1>2, <1>3, <1>4
-----------------------------------------------------------------------------
(* The actions *)

LEMMA RouterInit == ASSUME Router!RouterAssumption PROVE Router!Init => RouterInv
BY RouterConstants DEF Router!Init, RouterInv, RouterType, EpochInv, Current, ProviderHealth, ProviderRequest, Router!NoFetch

\* A check asks a provider, whose lease may be taken with it.
LEMMA SendStep ==
    ASSUME Router!RouterAssumption, RouterInv, NEW c \in Actors, NEW p \in Router!Names, NEW b \in BOOLEAN,
           provider' \in [Router!Names -> ProviderHealth],
           \A q \in Router!Names : provider'[q].epoch = provider[q].epoch, Router!Send(c, p, TRUE, b)
    PROVE  RouterInv'
<1>1. /\ request' = [request EXCEPT ![c] = [at |-> p, epoch |-> provider'[p].epoch, age |-> 0,
                                            first |-> TRUE, probe |-> b]]
      /\ asked' = [asked EXCEPT ![c] = TRUE]
  BY DEF Router!Send
<1>2. provider'[p].epoch \in Nat
  BY DEF ProviderHealth
<1>3. RouterType'
  BY <1>1, <1>2 DEF RouterInv, RouterType, ProviderRequest
<1>4. ASSUME NEW d \in Actors, NEW q \in Router!Names PROVE Current(d, q)'
  <2>1. CASE d = c
    BY <1>1, <1>2, <2>1 DEF Current, RouterInv, RouterType
  <2>2. CASE d # c
    BY <1>1, <2>2 DEF Current, RouterInv, RouterType, EpochInv
  <2> QED
    BY <2>1, <2>2
<1> QED
  BY <1>3, <1>4 DEF RouterInv, EpochInv

LEMMA AskStep == ASSUME Router!RouterAssumption, RouterInv, NEW c \in Actors, Router!Admit(c) \/ Router!Probe(c) PROVE RouterInv'
<1>1. CASE Router!Admit(c)
  <2> DEFINE is == Router!HealthyIn(DOMAIN Providers)
  <2>1. is # {} /\ is \in SUBSET DOMAIN Providers /\ provider' = provider
    BY <1>1 DEF Router!Admit, Router!HealthyIn
  <2>2. Providers[Router!First(is)] \in Router!Names
    BY <2>1, FirstIsOne
  <2> QED
    BY <1>1, <2>1, <2>2, SendStep, FALSE \in BOOLEAN DEF Router!Admit, RouterInv, RouterType
<1>2. CASE Router!Probe(c)
  <2>1. PICK p \in Router!Names : provider' = [provider EXCEPT ![p].lease = TRUE] /\ Router!Send(c, p, TRUE, TRUE)
    BY <1>2 DEF Router!Probe
  <2>2. /\ provider' \in [Router!Names -> ProviderHealth]
        /\ \A q \in Router!Names : provider'[q].epoch = provider[q].epoch
    BY <2>1 DEF RouterInv, RouterType, ProviderHealth
  <2> QED
    BY <2>1, <2>2, SendStep, TRUE \in BOOLEAN
<1> QED
  BY <1>1, <1>2

LEMMA CancelStep == ASSUME Router!RouterAssumption, RouterInv, NEW c \in Actors, Router!Cancel(c) PROVE RouterInv'
<1>1. /\ request' = [request EXCEPT ![c] = Router!NoFetch] /\ asked' = [asked EXCEPT ![c] = TRUE]
      /\ provider' = provider
  BY DEF Router!Cancel
<1>2. RouterType'
  BY <1>1 DEF RouterInv, RouterType, ProviderRequest, Router!NoFetch
<1>3. ASSUME NEW d \in Actors, NEW q \in Router!Names PROVE Current(d, q)'
  BY <1>1, RouterConstants DEF Current, RouterInv, RouterType, EpochInv, Router!NoFetch
<1> QED
  BY <1>2, <1>3 DEF RouterInv, EpochInv

\* What a report writes, whether the fetch cascades or ends.
LEMMA ReportWrites ==
    ASSUME Router!RouterAssumption, RouterInv, NEW c \in Actors, NEW r, Router!Report(c, r)
    PROVE  LET p == request[c].at IN
           /\ p \in Router!Names
           /\ provider' = [provider EXCEPT ![p] = Router!Reported(p, request[c].epoch, Router!Status(r))]
           /\ \/ request' = [request EXCEPT ![c] = Router!NoFetch]
              \/ \E n \in Router!Names :
                   /\ request[c].first
                   /\ request' = [request EXCEPT ![c] =
                                    [at |-> n, epoch |-> provider[n].epoch, age |-> request[c].age,
                                     first |-> FALSE, probe |-> FALSE]]
           /\ asked' = [d \in Actors |->
                          IF d = c THEN TRUE
                          ELSE asked[d] /\ ~(request[d].at = p /\ Router!is_source_failure(Router!Status(r)))]
<1> DEFINE p == request[c].at
           n == Router!Next1(p, provider')
<1>1. p \in Router!Names
  BY DEF Router!Report, RouterInv, RouterType, ProviderRequest
<1>2. n \in Router!Names \union {None}
  BY NextIsOne
<1> HIDE DEF n
<1>3. \/ request' = [request EXCEPT ![c] = Router!NoFetch]
      \/ /\ request[c].first /\ n # None
         /\ request' = [request EXCEPT ![c] =
                          [at |-> n, epoch |-> provider[n].epoch, age |-> request[c].age,
                           first |-> FALSE, probe |-> FALSE]]
  BY DEF Router!Report, n, RouterInv, RouterType
<1> QED
  BY <1>1, <1>2, <1>3 DEF Router!Report

LEMMA ReportStep == ASSUME Router!RouterAssumption, RouterInv, NEW c \in Actors, NEW r, Router!Report(c, r) PROVE RouterInv'
<1> DEFINE p == request[c].at
           h == Router!Reported(p, request[c].epoch, Router!Status(r))
<1>1. /\ p \in Router!Names /\ provider' = [provider EXCEPT ![p] = h]
      /\ asked' = [d \in Actors |->
                     IF d = c THEN TRUE
                     ELSE asked[d] /\ ~(request[d].at = p /\ Router!is_source_failure(Router!Status(r)))]
      /\ request[c] \in ProviderRequest /\ request[c].epoch \in Nat
  BY ReportWrites DEF RouterInv, RouterType, ProviderRequest
<1>2. /\ h \in ProviderHealth /\ h.epoch >= provider[p].epoch
      /\ Router!is_source_failure(Router!Status(r)) => h.epoch = provider[p].epoch + 1
  BY <1>1, ReportedProvider DEF RouterInv
<1> HIDE DEF h
<1>3. provider' \in [Router!Names -> ProviderHealth] /\ \A q \in Router!Names : provider'[q].epoch >= provider[q].epoch
  BY <1>1, <1>2 DEF RouterInv, RouterType, ProviderHealth
<1>4. PICK new \in ProviderRequest :
        /\ request' = [request EXCEPT ![c] = new]
        /\ new.at = None \/ (new.at \in Router!Names /\ new.epoch = provider[new.at].epoch)
  <2>1. CASE request' = [request EXCEPT ![c] = Router!NoFetch]
    <3>1. Router!NoFetch \in ProviderRequest /\ Router!NoFetch.at = None
      BY DEF Router!NoFetch, ProviderRequest
    <3> QED
      BY <2>1, <3>1
  <2>2. ASSUME NEW n \in Router!Names,
               request' = [request EXCEPT ![c] =
                             [at |-> n, epoch |-> provider[n].epoch, age |-> request[c].age,
                              first |-> FALSE, probe |-> FALSE]]
        PROVE  \E new \in ProviderRequest :
                 /\ request' = [request EXCEPT ![c] = new]
                 /\ new.at = None \/ (new.at \in Router!Names /\ new.epoch = provider[new.at].epoch)
    <3> DEFINE new == [at |-> n, epoch |-> provider[n].epoch, age |-> request[c].age,
                       first |-> FALSE, probe |-> FALSE]
    <3>1. new \in ProviderRequest /\ new.at = n /\ new.epoch = provider[n].epoch
      BY <1>1 DEF ProviderRequest, RouterInv, RouterType, ProviderHealth
    <3> HIDE DEF new
    <3>2. request' = [request EXCEPT ![c] = new]
      BY <2>2 DEF new
    <3> QED
      BY <3>1, <3>2
  <2> QED
    BY <2>1, <2>2, ReportWrites
<1>5. RouterType'
  BY <1>1, <1>3, <1>4 DEF RouterInv, RouterType
<1>6. ASSUME NEW d \in Actors, NEW q \in Router!Names PROVE Current(d, q)'
  <2>1. CASE d = c
    <3>1. asked'[d] = TRUE /\ request'[d] = new
      BY <1>1, <1>4, <2>1 DEF RouterInv, RouterType
    <3>2. new.at = q => new.epoch = provider[q].epoch
      BY <1>4, RouterConstants
    <3> QED
      BY <1>3, <3>1, <3>2 DEF Current
  <2>2. CASE d # c
    <3>1. request'[d] = request[d] /\ request[d] \in ProviderRequest /\ request[d].epoch \in Nat
      BY <1>4, <2>2 DEF RouterInv, RouterType, ProviderRequest
    <3>2. provider[q].epoch \in Nat /\ provider'[q].epoch \in Nat /\ provider'[q].epoch >= provider[q].epoch
      BY <1>3 DEF RouterInv, RouterType, ProviderHealth
    <3>3. CASE q = p /\ Router!is_source_failure(Router!Status(r))
      <4>1. provider'[q].epoch = provider[q].epoch + 1
        BY <1>1, <1>2, <3>3 DEF RouterInv, RouterType
      <4> QED
        BY <3>1, <3>2, <4>1 DEF Current, RouterInv, EpochInv
    <3>4. CASE ~(q = p /\ Router!is_source_failure(Router!Status(r)))
      <4>1. request[d].at = q => asked'[d] = asked[d]
        BY <1>1, <2>2, <3>4 DEF RouterInv, RouterType
      <4> QED
        BY <3>1, <3>2, <4>1 DEF Current, RouterInv, EpochInv
    <3> QED
      BY <3>3, <3>4
  <2> QED
    BY <2>1, <2>2
<1> QED
  BY <1>5, <1>6 DEF RouterInv, EpochInv

LEMMA ElapseStep == ASSUME Router!RouterAssumption, RouterInv, Router!Elapse PROVE RouterInv'
<1>1. ASSUME NEW c \in Actors
      PROVE  /\ request'[c] \in ProviderRequest
             /\ request'[c].at = request[c].at
             /\ request[c].at # None => request'[c].epoch = request[c].epoch
  <2>1. CASE request[c].at = None
    BY <2>1 DEF Router!Elapse, Router!NoFetch, ProviderRequest
  <2>2. CASE request[c].at # None
    <3>1. request'[c] = [request[c] EXCEPT !.age = @ + 1] /\ request[c] \in ProviderRequest
      BY <2>2 DEF Router!Elapse, RouterInv, RouterType
    <3> QED
      BY <3>1 DEF ProviderRequest
  <2> QED
    BY <2>1, <2>2
<1>2. ASSUME NEW p \in Router!Names
      PROVE  provider'[p] \in ProviderHealth /\ provider'[p].epoch = provider[p].epoch
  <2> DEFINE a == IF provider[p].fails > 0 /\ provider[p].age <= ProviderCooldown
                    THEN provider[p].age + 1 ELSE provider[p].age
  <2>1. a \in Nat /\ provider'[p] = [provider[p] EXCEPT !.age = a, !.lease = FALSE]
    <3>1. a \in Nat
      BY DEF RouterInv, RouterType, ProviderHealth
    <3>2. provider'[p] = [provider[p] EXCEPT !.age = a, !.lease = FALSE]
      BY DEF Router!Elapse, Router!LeaseLeft
    <3> QED
      BY <3>1, <3>2
  <2> HIDE DEF a
  <2>2. provider[p] \in ProviderHealth
    BY DEF RouterInv, RouterType
  <2> QED
    BY <2>1, <2>2 DEF ProviderHealth
<1>3. asked' = asked /\ DOMAIN request' = Actors /\ DOMAIN provider' = Router!Names
  BY DEF Router!Elapse
<1>4. request' = [c \in Actors |-> request'[c]] /\ provider' = [p \in Router!Names |-> provider'[p]]
  BY <1>3 DEF Router!Elapse
<1>5. RouterType'
  BY <1>1, <1>2, <1>3, <1>4 DEF RouterInv, RouterType
<1>6. ASSUME NEW d \in Actors, NEW q \in Router!Names PROVE Current(d, q)'
  BY <1>1, <1>2, <1>3, RouterConstants DEF Current, RouterInv, EpochInv
<1> QED
  BY <1>5, <1>6 DEF RouterInv, EpochInv

LEMMA RouterNext == ASSUME Router!RouterAssumption, RouterInv, [Router!Next]_(Router!vars) PROVE RouterInv'
<1>1. CASE UNCHANGED Router!vars
  BY <1>1 DEF Router!vars, RouterInv, RouterType, EpochInv, Current
<1> QED
  BY <1>1, AskStep, CancelStep, ReportStep, ElapseStep DEF Router!Next
-----------------------------------------------------------------------------
(* Theorems *)

\* The inductive invariant: what a request carries says whether a failure was reported
\* since it was sent.
THEOREM RouterInvariant == ASSUME Router!RouterAssumption PROVE Router!Spec => []RouterInv
<1>1. Router!Init => RouterInv
  BY RouterInit
<1>2. RouterInv /\ [Router!Next]_(Router!vars) => RouterInv'
  BY RouterNext
<1> QED
  BY <1>1, <1>2, PTL DEF Router!Spec

Ended(p) == ~Router!Healthy(p) /\ provider'[p].fails = 0
Earned(p) == \E c \in Actors : request[c].at = p /\ asked[c] /\ request'[c] # request[c]

\* The cooldown of a provider ends with the report of a request sent after its last failure.
LEMMA EndedIsEarned ==
    ASSUME Router!RouterAssumption, RouterInv, [Router!Next]_(Router!vars), NEW p \in Router!Names, Ended(p)
    PROVE  Earned(p)
<1>1. provider[p].fails # 0 /\ provider'[p].fails = 0 /\ provider'[p] # provider[p]
  BY RouterConstants DEF Ended, Router!Healthy, RouterInv, RouterType, ProviderHealth
<1>2. ASSUME NEW c \in Actors, Router!Probe(c) PROVE FALSE
  BY <1>1, <1>2 DEF Router!Probe, RouterInv, RouterType, ProviderHealth
<1>3. CASE Router!Elapse
  BY <1>1, <1>3 DEF Router!Elapse, RouterInv, RouterType, ProviderHealth
<1>4. ASSUME NEW c \in Actors, NEW r, Router!Report(c, r) PROVE Earned(p)
  <2> DEFINE q == request[c].at
             h == Router!Reported(q, request[c].epoch, Router!Status(r))
  <2>1. q \in Router!Names /\ provider' = [provider EXCEPT ![q] = h] /\ request[c].epoch \in Nat
    BY <1>4, ReportWrites DEF RouterInv, RouterType, ProviderRequest
  <2>2. q = p /\ h.fails = 0
    BY <1>1, <2>1 DEF RouterInv, RouterType
  <2>3. provider[p].epoch = request[c].epoch
    BY <1>1, <2>1, <2>2, ReportedProvider DEF RouterInv
  <2>4. asked[c]
    BY <2>2, <2>3 DEF RouterInv, EpochInv, Current
  <2>5. request'[c] # request[c]
    <3>1. CASE request' = [request EXCEPT ![c] = Router!NoFetch]
      BY <2>2, <3>1, RouterConstants DEF Router!NoFetch, RouterInv, RouterType
    <3>2. ASSUME NEW n \in Router!Names, request[c].first,
                 request' = [request EXCEPT ![c] =
                               [at |-> n, epoch |-> provider[n].epoch, age |-> request[c].age,
                                first |-> FALSE, probe |-> FALSE]]
          PROVE  request'[c] # request[c]
      <4>1. request'[c].first = FALSE
        BY <3>2 DEF RouterInv, RouterType
      <4> QED
        BY <3>2, <4>1
    <3> QED
      BY <1>4, <3>1, <3>2, ReportWrites
  <2> QED
    BY <2>2, <2>4, <2>5 DEF Earned
<1>5. ASSUME \/ UNCHANGED Router!vars \/ \E c \in Actors : Router!Admit(c) \/ Router!Cancel(c)
      PROVE  FALSE
  BY <1>1, <1>5 DEF Router!vars, Router!Admit, Router!Cancel
<1> QED
  BY <1>2, <1>3, <1>4, <1>5 DEF Router!Next

\* mark_healthy: a success that raced with the failures does not wipe a cooldown, for any
\* number of checks in flight and any order of their reports.
THEOREM CooldownHolds == ASSUME Router!RouterAssumption PROVE Router!Spec => CooldownKept
<1>1. RouterInv /\ [Router!Next]_(Router!vars) => [\A p \in Router!Names : Ended(p) => Earned(p)]_(Router!vars)
  BY EndedIsEarned
<1>2. (\A p \in Router!Names : Ended(p) => Earned(p)) <=>
        \A p \in Router!Names : ~Router!Healthy(p) /\ provider'[p].fails = 0
          => \E c \in Actors : request[c].at = p /\ asked[c] /\ request'[c] # request[c]
  BY DEF Ended, Earned
<1> QED
  BY <1>1, <1>2, RouterInvariant, PTL DEF Router!Spec, CooldownKept, Router!CooldownKept
-----------------------------------------------------------------------------
(***************************************************************************)
(* The LLM client, for any number of calls, modes accepted and retries.    *)
(* The hint is no longer valid than the success it stores is old, and a    *)
(* request in flight carries what its closure holds as fitted.             *)
(***************************************************************************)

CallRec == [pc : {"idle", "asking", "waiting", "done", "failed"}, mode : Llm!Modes,
            attempt : Nat, prompts : Nat, elapsed : Nat, wait : Nat,
            fitted : Nat, carried : Nat, read : Nat, answered : Nat]

LlmType ==
    /\ accepts \subseteq Llm!Modes /\ confirmed \in [Llm!Modes -> 0..HintTtl]
    /\ hint # None => hint \in [mode : Llm!Modes, left : 1..HintTtl]
    /\ call \in [Actors -> CallRec]

HintInv == hint # None => confirmed[hint.mode] + hint.left <= HintTtl

Answered(q) == (q.pc = "asking" => q.fitted = q.carried) /\ q.read = q.answered
CallInv == \A c \in Actors : Answered(call[c])

LlmInv == LlmType /\ HintInv /\ CallInv

LEMMA LlmConstants ==
    ASSUME Llm!LlmAssumption
    PROVE  /\ HintTtl \in Nat \ {0} /\ Articles \in Nat /\ MaxRetries \in Nat /\ RetryBudget \in Nat
           /\ Llm!Idle \in CallRec /\ Answered(Llm!Idle)
BY DEF Llm!LlmAssumption, Llm!Idle, CallRec, Answered, Llm!Modes

LEMMA LlmInit == ASSUME Llm!LlmAssumption PROVE Llm!Init => LlmInv
BY LlmConstants DEF Llm!Init, LlmInv, LlmType, HintInv, CallInv

\* A step of one call that leaves the hint alone.
LEMMA CallStep ==
    ASSUME LlmInv, NEW c \in Actors, NEW q \in CallRec, call' = [call EXCEPT ![c] = q], Answered(q),
           UNCHANGED <<accepts, hint, confirmed>>
    PROVE  LlmInv'
BY DEF LlmInv, LlmType, HintInv, CallInv

LEMMA ModeToStart == ASSUME LlmInv PROVE Llm!StartingMode \in Llm!Modes
BY DEF LlmInv, LlmType, Llm!StartingMode, Llm!Modes

\* A request built anew carries what is fitted for it.
LEMMA RequestStep ==
    ASSUME Llm!LlmAssumption, LlmInv, NEW c \in Actors, NEW mode \in Llm!Modes, NEW n \in Nat,
           Llm!Ask(c, mode, n), UNCHANGED <<accepts, hint, confirmed>>
    PROVE  LlmInv'
<1>1. PICK sent \in Llm!Fitting :
         call' = [call EXCEPT ![c] =
                    [@ EXCEPT !.pc = "asking", !.mode = mode, !.attempt = n, !.prompts = 0,
                              !.wait = 0, !.carried = sent, !.fitted = sent]]
  BY DEF Llm!Ask, Llm!Rebound
<1> DEFINE q == [call[c] EXCEPT !.pc = "asking", !.mode = mode, !.attempt = n, !.prompts = 0,
                                !.wait = 0, !.carried = sent, !.fitted = sent]
<1>2. call[c] \in CallRec /\ Answered(call[c]) /\ call' = [call EXCEPT ![c] = q]
  BY <1>1 DEF LlmInv, LlmType, CallInv
<1>3. sent \in Nat
  BY LlmConstants DEF Llm!Fitting
<1> DEFINE r == [call[c] EXCEPT !.pc = "asking", !.mode = mode, !.attempt = n, !.prompts = 0]
<1>4. q \in CallRec
  <2>1. r \in CallRec
    BY <1>2 DEF CallRec
  <2>2. q = [r EXCEPT !.wait = 0, !.carried = sent, !.fitted = sent]
    OBVIOUS
  <2> HIDE DEF q, r
  <2> QED
    BY <1>3, <2>1, <2>2 DEF CallRec
<1>5. Answered(q)
  BY <1>2 DEF CallRec, Answered
<1> HIDE DEF q
<1> QED
  BY <1>2, <1>4, <1>5, CallStep

LEMMA FinishStep ==
    ASSUME Llm!LlmAssumption, LlmInv, NEW c \in Actors, Llm!Finish(c, "failed"),
           UNCHANGED <<accepts, hint, confirmed>>
    PROVE  LlmInv'
<1> DEFINE q == [Llm!Idle EXCEPT !.pc = "failed"]
<1>1. call' = [call EXCEPT ![c] = q]
  BY DEF Llm!Finish
<1>2. q \in CallRec /\ Answered(q)
  BY DEF Llm!Idle, CallRec, Answered, Llm!Modes
<1> HIDE DEF q
<1> QED
  BY <1>1, <1>2, CallStep

LEMMA ReplyStep ==
    ASSUME Llm!LlmAssumption, LlmInv, NEW c \in Actors, Llm!Start(c) \/ Llm!Reply(c) \/ Llm!Wake(c)
    PROVE  LlmInv'
<1>1. call[c] \in CallRec /\ Answered(call[c]) /\ call \in [Actors -> CallRec]
  BY DEF LlmInv, LlmType, CallInv
<1>2. /\ call[c].mode \in Llm!Modes /\ call[c].attempt \in Nat /\ call[c].prompts \in Nat
      /\ call[c].elapsed \in Nat /\ call[c].fitted \in Nat /\ call[c].carried \in Nat
  BY <1>1 DEF CallRec
<1>3. CASE Llm!Start(c)
  <2>1. PICK sent \in Llm!Fitting :
          call' = [call EXCEPT ![c] = [Llm!Idle EXCEPT !.pc = "asking", !.mode = Llm!StartingMode,
                                                       !.carried = sent, !.fitted = sent]]
    BY <1>3 DEF Llm!Start
  <2> DEFINE q == [Llm!Idle EXCEPT !.pc = "asking", !.mode = Llm!StartingMode,
                                   !.carried = sent, !.fitted = sent]
  <2>2. sent \in Nat /\ Llm!StartingMode \in Llm!Modes
    BY LlmConstants, ModeToStart DEF Llm!Fitting
  <2>3. Answered(q)
    BY DEF Llm!Idle, Answered
  <2>4. q \in CallRec
    BY <2>2, LlmConstants DEF CallRec
  <2>5. call' = [call EXCEPT ![c] = q] /\ UNCHANGED <<accepts, hint, confirmed>>
    BY <1>3, <2>1 DEF Llm!Start
  <2> HIDE DEF q
  <2> QED
    BY <2>3, <2>4, <2>5, CallStep
<1>4. CASE Llm!Succeed(c)
  <2> DEFINE m == call[c].mode
             q == [Llm!Idle EXCEPT !.pc = "done", !.read = call[c].fitted,
                                   !.answered = call[c].carried]
  <2>1. /\ call[c].pc = "asking" /\ accepts' = accepts
        /\ hint' = [mode |-> m, left |-> HintTtl] /\ confirmed' = [confirmed EXCEPT ![m] = 0]
        /\ call' = [call EXCEPT ![c] = q]
    BY <1>4 DEF Llm!Succeed
  <2>2. q \in CallRec
    BY <1>2, LlmConstants DEF CallRec
  <2>3. q.read = call[c].fitted /\ q.answered = call[c].carried /\ q.pc = "done"
    BY DEF Llm!Idle
  <2>4. Answered(q)
    BY <1>1, <2>1, <2>3 DEF Answered
  <2> HIDE DEF m, q
  <2>5. m \in Llm!Modes
    BY <1>2 DEF m
  <2>6. LlmType'
    BY <2>1, <2>2, <2>5, LlmConstants DEF LlmInv, LlmType
  <2>7. HintInv'
    <3>1. hint'.mode = m /\ hint'.left = HintTtl /\ confirmed'[m] = 0
      BY <2>1, <2>5 DEF LlmInv, LlmType
    <3> QED
      BY <3>1, LlmConstants DEF HintInv
  <2>8. CallInv'
    BY <2>1, <2>4 DEF LlmInv, LlmType, CallInv
  <2> QED
    BY <2>6, <2>7, <2>8 DEF LlmInv
<1>5. CASE Llm!Reject(c)
  <2>1. /\ UNCHANGED <<accepts, hint, confirmed>>
        /\ \/ Llm!Finish(c, "failed")
           \/ \E mode \in {"JSON", "MD_JSON"} : Llm!Ask(c, mode, call[c].attempt)
    BY <1>5 DEF Llm!Reject, Llm!HintAfterHop, Llm!Fallback
  <2> QED
    BY <1>2, <2>1, FinishStep, RequestStep DEF Llm!Modes
<1>6. CASE Llm!Invalid(c)
  <2>1. UNCHANGED <<accepts, hint, confirmed>>
    BY <1>6 DEF Llm!Invalid
  <2>2. CASE call[c].prompts < MaxRetries
    <3> DEFINE q == [call[c] EXCEPT !.prompts = call[c].prompts + 1]
    <3>1. call' = [call EXCEPT ![c] = q]
      BY <1>1, <1>6, <2>2 DEF Llm!Invalid
    <3>2. q \in CallRec
      BY <1>1, <1>2 DEF CallRec
    <3>3. Answered(q)
      BY <1>1 DEF Answered, CallRec
    <3> HIDE DEF q
    <3> QED
      BY <2>1, <3>1, <3>2, <3>3, CallStep
  <2>3. CASE ~(call[c].prompts < MaxRetries)
    BY <1>6, <2>1, <2>3, FinishStep DEF Llm!Invalid
  <2> QED
    BY <2>2, <2>3
<1>7. CASE Llm!Permanent(c)
  BY <1>7, FinishStep DEF Llm!Permanent
<1>8. CASE Llm!Transient(c)
  <2>1. UNCHANGED <<accepts, hint, confirmed>> /\ call[c].pc = "asking"
    BY <1>8 DEF Llm!Transient
  <2>2. CASE Llm!Owed(c)
    <3>1. PICK delay \in {1, 2} :
             call' = [call EXCEPT ![c].pc = "waiting",
                                  ![c].wait = Llm!Delay(delay, RetryBudget - call[c].elapsed)]
      BY <1>8, <2>2 DEF Llm!Transient
    <3> DEFINE wait == Llm!Delay(delay, RetryBudget - call[c].elapsed)
               q == [call[c] EXCEPT !.pc = "waiting", !.wait = wait]
    <3>2. wait \in Nat
      BY <1>2, <2>2, LlmConstants DEF Llm!Owed, Llm!Delay
    <3>3. call' = [call EXCEPT ![c] = q]
      BY <1>1, <3>1
    <3> HIDE DEF wait
    <3>4. q \in CallRec
      BY <1>1, <3>2 DEF CallRec
    <3>5. Answered(q)
      BY <1>1 DEF Answered, CallRec
    <3> HIDE DEF q
    <3> QED
      BY <2>1, <3>3, <3>4, <3>5, CallStep
  <2>3. CASE ~Llm!Owed(c)
    BY <1>8, <2>1, <2>3, FinishStep DEF Llm!Transient
  <2> QED
    BY <2>2, <2>3
<1>9. CASE Llm!Wake(c)
  <2>1. Llm!Ask(c, Llm!StartingMode, call[c].attempt + 1) /\ UNCHANGED <<accepts, hint, confirmed>>
    BY <1>9 DEF Llm!Wake
  <2>2. call[c].attempt + 1 \in Nat
    BY <1>2
  <2> QED
    BY <2>1, <2>2, ModeToStart, RequestStep
<1> QED
  BY <1>3, <1>4, <1>5, <1>6, <1>7, <1>8, <1>9 DEF Llm!Reply

LEMMA LlmElapse == ASSUME Llm!LlmAssumption, LlmInv, Llm!Elapse PROVE LlmInv'
<1>1. /\ accepts' = accepts
      /\ hint' = IF hint = None \/ hint.left = 1 THEN None ELSE [hint EXCEPT !.left = @ - 1]
      /\ confirmed' = [m \in Llm!Modes |-> IF confirmed[m] < HintTtl THEN confirmed[m] + 1 ELSE HintTtl]
  BY DEF Llm!Elapse
<1>2. confirmed' \in [Llm!Modes -> 0..HintTtl]
  BY <1>1, LlmConstants DEF LlmInv, LlmType
<1>3. ASSUME hint' # None
      PROVE  hint' \in [mode : Llm!Modes, left : 1..HintTtl] /\ confirmed'[hint'.mode] + hint'.left <= HintTtl
  <2>1. /\ hint # None /\ hint.left # 1 /\ hint' = [hint EXCEPT !.left = @ - 1]
        /\ hint \in [mode : Llm!Modes, left : 1..HintTtl] /\ confirmed[hint.mode] + hint.left <= HintTtl
    BY <1>1, <1>3 DEF LlmInv, LlmType, HintInv
  <2>2. hint.mode \in Llm!Modes /\ hint.left \in 2..HintTtl
    BY <2>1, LlmConstants
  <2>3. hint'.mode = hint.mode /\ hint'.left = hint.left - 1
    BY <2>1
  <2>4. hint.left - 1 \in 1..HintTtl
    BY <2>2, LlmConstants
  <2>5. hint' \in [mode : Llm!Modes, left : 1..HintTtl]
    BY <2>1, <2>4
  <2>6. confirmed[hint.mode] \in 0..HintTtl
    BY <2>2 DEF LlmInv, LlmType
  <2>7. confirmed'[hint.mode] = confirmed[hint.mode] + 1
    BY <1>1, <2>1, <2>2, <2>6, LlmConstants
  <2>8. (confirmed[hint.mode] + 1) + (hint.left - 1) <= HintTtl
    BY <2>1, <2>2, <2>6, LlmConstants
  <2> QED
    BY <2>3, <2>5, <2>7, <2>8
<1>4. ASSUME NEW c \in Actors PROVE call'[c] \in CallRec /\ Answered(call'[c])
  <2>1. call[c] \in CallRec /\ Answered(call[c])
    BY DEF LlmInv, LlmType, CallInv
  <2>2. call[c].elapsed \in Nat /\ call[c].wait \in Nat
    BY <2>1 DEF CallRec
  <2> DEFINE n == IF call[c].elapsed <= RetryBudget THEN call[c].elapsed + 1 ELSE call[c].elapsed
             w == call[c].wait - 1
  <2>3. n \in Nat
    BY <2>2
  <2> HIDE DEF n
  <2>4. \/ call'[c] = [call[c] EXCEPT !.elapsed = n]
        \/ call'[c] = [call[c] EXCEPT !.elapsed = n, !.wait = w] /\ call[c].wait > 0
        \/ call'[c] = call[c]
    <3>1. CASE call[c].pc = "asking"
      BY <3>1 DEF Llm!Elapse, n
    <3>2. CASE call[c].pc = "waiting"
      BY <3>2 DEF Llm!Elapse, n
    <3>3. CASE call[c].pc \notin {"asking", "waiting"}
      BY <3>3 DEF Llm!Elapse
    <3> QED
      BY <3>1, <3>2, <3>3
  <2>5. CASE call'[c] = [call[c] EXCEPT !.elapsed = n]
    BY <2>1, <2>3, <2>5 DEF CallRec, Answered
  <2>6. CASE call'[c] = [call[c] EXCEPT !.elapsed = n, !.wait = w] /\ call[c].wait > 0
    <3>1. w \in Nat
      BY <2>2, <2>6
    <3> HIDE DEF w
    <3> QED
      BY <2>1, <2>3, <2>6, <3>1 DEF CallRec, Answered
  <2> QED
    BY <2>1, <2>4, <2>5, <2>6
<1>5. call' = [c \in Actors |-> call'[c]]
  BY DEF Llm!Elapse
<1>6. call' \in [Actors -> CallRec]
  BY <1>4, <1>5
<1> QED
  BY <1>1, <1>2, <1>3, <1>4, <1>6 DEF LlmInv, LlmType, HintInv, CallInv

LEMMA LlmInvariant == ASSUME Llm!LlmAssumption PROVE Llm!Spec => []LlmInv
<1>1. ASSUME LlmInv, [Llm!Next]_(Llm!vars) PROVE LlmInv'
  <2>1. CASE Llm!ProviderChanges
    BY <1>1, <2>1 DEF Llm!ProviderChanges, LlmInv, LlmType, HintInv, CallInv
  <2>2. CASE UNCHANGED Llm!vars
    BY <1>1, <2>2 DEF Llm!vars, LlmInv, LlmType, HintInv, CallInv
  <2> QED
    BY <1>1, <2>1, <2>2, ReplyStep, LlmElapse DEF Llm!Next
<1> QED
  BY LlmInit, <1>1, PTL DEF Llm!Spec

\* The mode hint names a mode some call succeeded in within the hint's time,
\* whatever calls fail and hop at the same time (analysis/llm.py: _remember_mode,
\* _create_structured).
THEOREM HintsAreConfirmed == ASSUME Llm!LlmAssumption PROVE Llm!Spec => []HintConfirmed
<1>1. LlmInv => HintConfirmed
  <2> SUFFICES ASSUME LlmInv, hint # None PROVE confirmed[hint.mode] <= HintTtl - hint.left
    BY DEF HintConfirmed, Llm!HintConfirmed
  <2>1. hint.mode \in Llm!Modes /\ hint.left \in 1..HintTtl /\ confirmed[hint.mode] \in 0..HintTtl
    BY DEF LlmInv, LlmType
  <2> QED
    BY <2>1, LlmConstants DEF LlmInv, HintInv
<1> QED
  BY <1>1, LlmInvariant, PTL

\* The articles a result reports as read are those of the request that was
\* answered, whatever was fitted for earlier attempts and modes (analysis/llm.py:
\* _fit_article_prompt and the callers that rebind fitted).
THEOREM ReadMeansAnswered == ASSUME Llm!LlmAssumption PROVE Llm!Spec => []ReadIsAnswered
<1>1. LlmInv => ReadIsAnswered
  BY DEF LlmInv, CallInv, Answered, ReadIsAnswered, Llm!ReadIsAnswered
<1> QED
  BY <1>1, LlmInvariant, PTL

-----------------------------------------------------------------------------
(***************************************************************************)
(* The redirect links, for any batches and links and any width of the      *)
(* gate.  When a batch is refused, the refused link leaves the gate; those *)
(* of its links that may still ask are in the gate already.                *)
(***************************************************************************)

LinkPlaces == {"idle", "gate", "pause", "done"} \union News!Requests

NewsType ==
    /\ batch \in [Actors -> [at : {"idle", "running", "returned"}, aborted : BOOLEAN, expired : BOOLEAN]]
    /\ link \in [News!Tasks -> LinkPlaces] /\ late \in [Actors -> Nat]

\* The links of a batch that may still ask, when it does not look any more.
Pausing(b) == {t \in News!Tasks : t[1] = b /\ link[t] = "pause"}

GateInv == IsFiniteSet(News!InGate) /\ Cardinality(News!InGate) <= Width

LateInv ==
    \A b \in Actors : IF batch[b].aborted THEN late[b] + Cardinality(Pausing(b)) < Width
                      ELSE late[b] = 0

NewsInv == NewsType /\ GateInv /\ LateInv

LEMMA NewsCardinality == ASSUME NEW S PROVE News!Cardinality(S) = Cardinality(S)
BY DEF News!Cardinality, Cardinality

LEMMA Inside ==
    ASSUME GateInv, NEW b \in Actors
    PROVE  /\ Cardinality(News!InGate) \in Nat
           /\ Pausing(b) \in SUBSET News!InGate
           /\ IsFiniteSet(Pausing(b)) /\ Cardinality(Pausing(b)) \in Nat
<1>1. Pausing(b) \in SUBSET News!InGate
  BY DEF Pausing, News!InGate
<1> QED
  BY <1>1, FS_Subset, FS_CardinalityType DEF GateInv

LEMMA NewsInit == ASSUME News!GoogleAssumption PROVE News!Init => NewsInv
<1> SUFFICES ASSUME News!Init PROVE NewsInv
  OBVIOUS
<1>1. NewsType
  BY DEF News!Init, NewsType, LinkPlaces
<1>2. News!InGate = {}
  BY DEF News!Init, News!InGate, News!Requests
<1>3. GateInv
  BY <1>2, FS_EmptySet DEF GateInv, News!GoogleAssumption
<1>4. LateInv
  BY DEF News!Init, LateInv
<1> QED
  BY <1>1, <1>3, <1>4 DEF NewsInv

\* A step by which nobody enters the gate, or comes to pause, or asks too late.
LEMMA QuietNewsStep ==
    ASSUME News!GoogleAssumption, NewsInv, NewsType', News!InGate' \subseteq News!InGate,
           \A b \in Actors : Pausing(b)' \subseteq Pausing(b) /\ batch'[b].aborted = batch[b].aborted,
           late' = late
    PROVE  NewsInv'
<1>1. GateInv'
  <2>1. /\ IsFiniteSet(News!InGate') /\ Cardinality(News!InGate') <= Cardinality(News!InGate)
        /\ Cardinality(News!InGate') \in Nat /\ Cardinality(News!InGate) \in Nat
    BY FS_Subset, FS_CardinalityType DEF NewsInv, GateInv
  <2> QED
    BY <2>1 DEF NewsInv, GateInv, News!GoogleAssumption
<1>2. LateInv'
  <2> SUFFICES ASSUME NEW b \in Actors
               PROVE  IF batch'[b].aborted THEN late'[b] + Cardinality(Pausing(b)') < Width
                      ELSE late'[b] = 0
    BY DEF LateInv
  <2>1. /\ Cardinality(Pausing(b)') <= Cardinality(Pausing(b))
        /\ Cardinality(Pausing(b)') \in Nat /\ Cardinality(Pausing(b)) \in Nat
    BY Inside, FS_Subset, FS_CardinalityType DEF NewsInv
  <2>2. late[b] \in Nat /\ late'[b] = late[b] /\ batch'[b].aborted = batch[b].aborted /\ Width \in Nat
    BY DEF NewsInv, NewsType, News!GoogleAssumption
  <2>3. IF batch[b].aborted THEN late[b] + Cardinality(Pausing(b)) < Width ELSE late[b] = 0
    BY DEF NewsInv, LateInv
  <2> QED
    BY <2>1, <2>2, <2>3
<1> QED
  BY <1>1, <1>2 DEF NewsInv

\* A link that moves to a place where it does not pause, and in the gate only if it was there.
LEMMA LinkMoves ==
    ASSUME News!GoogleAssumption, NewsInv, NEW t \in News!Tasks, NEW at \in LinkPlaces, News!Moved(t, at),
           at # "pause", at \in News!Requests => t \in News!InGate, UNCHANGED <<batch, late>>
    PROVE  NewsInv'
<1>1. link' = [link EXCEPT ![t] = at] /\ link \in [News!Tasks -> LinkPlaces]
  BY DEF News!Moved, NewsInv, NewsType
<1>2. NewsType'
  BY <1>1 DEF NewsInv, NewsType
<1>3. News!InGate' \subseteq News!InGate
  BY <1>1 DEF News!InGate
<1>4. \A b \in Actors : Pausing(b)' \subseteq Pausing(b)
  BY <1>1 DEF Pausing
<1> QED
  BY <1>2, <1>3, <1>4, QuietNewsStep

LEMMA EnterStep ==
    ASSUME News!GoogleAssumption, NewsInv, NEW t \in News!Tasks, News!Enter(t)
    PROVE  NewsInv'
<1> DEFINE b == t[1]
<1>1. b \in Actors /\ link \in [News!Tasks -> LinkPlaces] /\ Width \in Nat \ {0}
  BY DEF News!Tasks, NewsInv, NewsType, News!GoogleAssumption
<1>2. CASE News!StandsBack(b)
  BY <1>2, LinkMoves DEF News!Enter, LinkPlaces, News!Requests
<1>3. CASE ~News!StandsBack(b)
  <2>1. /\ link[t] = "gate" /\ link' = [link EXCEPT ![t] = "pause"] /\ UNCHANGED <<batch, late>>
        /\ Cardinality(News!InGate) < Width /\ ~batch[b].aborted
    BY <1>3, NewsCardinality DEF News!Enter, News!Moved, News!StandsBack
  <2>2. NewsType'
    BY <1>1, <2>1 DEF NewsInv, NewsType, LinkPlaces
  <2>3. News!InGate' = News!InGate \union {t}
    BY <1>1, <2>1 DEF News!InGate
  <2>4. GateInv'
    <3>1. /\ IsFiniteSet(News!InGate') /\ Cardinality(News!InGate) \in Nat
          /\ Cardinality(News!InGate') \in {Cardinality(News!InGate), Cardinality(News!InGate) + 1}
      BY <2>3, FS_AddElement, FS_CardinalityType DEF NewsInv, GateInv
    <3> QED
      BY <1>1, <2>1, <3>1 DEF GateInv
  <2>5. ASSUME NEW c \in Actors, batch[c].aborted PROVE Pausing(c)' = Pausing(c)
    BY <1>1, <2>1, <2>5 DEF Pausing
  <2>6. LateInv'
    BY <2>1, <2>5 DEF NewsInv, LateInv
  <2> QED
    BY <2>2, <2>4, <2>6 DEF NewsInv
<1> QED
  BY <1>2, <1>3

\* A link that asks does not pause any more: what may still come is one less.
LEMMA AskingStep ==
    ASSUME News!GoogleAssumption, NewsInv, NEW t \in News!Tasks, News!Ask(t)
    PROVE  NewsInv'
<1> DEFINE b == t[1]
<1>1. b \in Actors /\ link \in [News!Tasks -> LinkPlaces] /\ late \in [Actors -> Nat] /\ t \in News!InGate
  BY DEF News!Tasks, NewsInv, NewsType, News!Ask, News!InGate
<1>2. PICK at \in {"done", "articles"} : link' = [link EXCEPT ![t] = at]
  BY DEF News!Ask, News!Moved
<1>3. CASE late' = late
  <2>1. batch' = batch /\ at \in LinkPlaces /\ at # "pause"
    BY DEF News!Ask, LinkPlaces, News!Requests
  <2> QED
    BY <1>1, <1>2, <1>3, <2>1, LinkMoves DEF News!Moved
<1>4. CASE batch[b].aborted /\ late' = [late EXCEPT ![b] = @ + 1]
  <2>1. batch' = batch /\ link[t] = "pause"
    BY DEF News!Ask
  <2>2. NewsType'
    BY <1>1, <1>2, <1>4, <2>1 DEF NewsInv, NewsType, LinkPlaces, News!Requests
  <2>3. News!InGate' \in SUBSET News!InGate
    BY <1>1, <1>2 DEF News!InGate
  <2>4. GateInv'
    <3>1. /\ IsFiniteSet(News!InGate') /\ Cardinality(News!InGate') <= Cardinality(News!InGate)
          /\ Cardinality(News!InGate') \in Nat /\ Cardinality(News!InGate) \in Nat
      BY <2>3, FS_Subset, FS_CardinalityType DEF NewsInv, GateInv
    <3> QED
      BY <3>1 DEF NewsInv, GateInv, News!GoogleAssumption
  <2>5. ASSUME NEW c \in Actors, c # b PROVE Pausing(c)' = Pausing(c) /\ late'[c] = late[c]
    BY <1>1, <1>2, <1>4, <2>5 DEF Pausing
  <2>6. Pausing(b)' = Pausing(b) \ {t} /\ t \in Pausing(b) /\ late'[b] = late[b] + 1
    BY <1>1, <1>2, <1>4, <2>1 DEF Pausing
  <2>7. /\ Cardinality(Pausing(b)') = Cardinality(Pausing(b)) - 1 /\ Cardinality(Pausing(b)) \in Nat
    <3>1. IsFiniteSet(Pausing(b)) /\ Cardinality(Pausing(b)) \in Nat
      BY <1>1, Inside DEF NewsInv
    <3>2. Cardinality(Pausing(b) \ {t}) = Cardinality(Pausing(b)) - 1
      BY <2>6, <3>1, FS_RemoveElement
    <3> QED
      BY <2>6, <3>1, <3>2
  <2>8. late'[b] + Cardinality(Pausing(b)') < Width
    <3>1. late[b] + Cardinality(Pausing(b)) < Width /\ late[b] \in Nat
      BY <1>1, <1>4 DEF NewsInv, LateInv
    <3>2. (late[b] + 1) + (Cardinality(Pausing(b)) - 1) = late[b] + Cardinality(Pausing(b))
      BY <2>7, <3>1
    <3> QED
      BY <2>6, <2>7, <3>1, <3>2
  <2>9. LateInv'
    BY <1>4, <2>1, <2>5, <2>8 DEF NewsInv, LateInv
  <2> QED
    BY <2>2, <2>4, <2>9 DEF NewsInv
<1> QED
  BY <1>3, <1>4 DEF News!Ask

\* The refused link leaves the gate: at most the others of it come too late.
LEMMA TooManyStep ==
    ASSUME News!GoogleAssumption, NewsInv, NEW t \in News!Tasks, News!TooMany(t)
    PROVE  NewsInv'
<1> DEFINE b == t[1]
<1>1. /\ b \in Actors /\ link \in [News!Tasks -> LinkPlaces] /\ late' = late
      /\ link[t] \in News!Requests /\ link' = [link EXCEPT ![t] = "done"]
      /\ batch' = [batch EXCEPT ![b].aborted = TRUE]
  BY DEF News!Tasks, NewsInv, NewsType, News!TooMany, News!Asking, News!Moved
<1>2. NewsType'
  BY <1>1 DEF NewsInv, NewsType, LinkPlaces
<1>3. News!InGate' = News!InGate \ {t} /\ t \in News!InGate
  BY <1>1 DEF News!InGate, News!Requests
<1>4. /\ IsFiniteSet(News!InGate') /\ Cardinality(News!InGate) \in Nat
      /\ Cardinality(News!InGate') = Cardinality(News!InGate) - 1
      /\ Cardinality(News!InGate') \in Nat
  BY <1>3, FS_RemoveElement, FS_CardinalityType DEF NewsInv, GateInv
<1>5. Width \in Nat /\ Cardinality(News!InGate) <= Width
  BY DEF NewsInv, GateInv, News!GoogleAssumption
<1>6. GateInv'
  BY <1>4, <1>5 DEF GateInv
<1>7. \A c \in Actors : Pausing(c)' = Pausing(c)
  BY <1>1 DEF Pausing, News!Requests
<1>8. ASSUME NEW c \in Actors
      PROVE  IF batch'[c].aborted THEN late'[c] + Cardinality(Pausing(c)') < Width
             ELSE late'[c] = 0
  <2>1. IF batch[c].aborted THEN late[c] + Cardinality(Pausing(c)) < Width ELSE late[c] = 0
    BY DEF NewsInv, LateInv
  <2>2. CASE c # b \/ batch[c].aborted
    BY <1>1, <1>7, <2>1, <2>2 DEF NewsInv, NewsType
  <2>3. CASE c = b /\ ~batch[c].aborted
    <3>1. late'[c] = 0
      BY <1>1, <2>1, <2>3
    <3>2. Pausing(c) \in SUBSET News!InGate'
      BY <1>1, <1>3 DEF Pausing, News!InGate, News!Requests
    <3>3. Cardinality(Pausing(c)) <= Cardinality(News!InGate') /\ Cardinality(Pausing(c)) \in Nat
      BY <1>4, <3>2, FS_Subset, FS_CardinalityType
    <3>4. 0 + Cardinality(Pausing(c)) < Width
      BY <1>4, <1>5, <3>3
    <3> QED
      BY <1>7, <2>3, <3>1, <3>4
  <2> QED
    BY <2>2, <2>3
<1> QED
  BY <1>2, <1>6, <1>8 DEF NewsInv, LateInv


LEMMA NewsNext == ASSUME News!GoogleAssumption PROVE NewsInv /\ [News!Next]_(News!vars) => NewsInv'
<1> SUFFICES ASSUME NewsInv, [News!Next]_(News!vars) PROVE NewsInv'
  OBVIOUS
<1> USE DEF NewsInv
<1>1. CASE UNCHANGED News!vars
  <2>1. NewsType' /\ News!InGate' \subseteq News!InGate
    BY <1>1 DEF News!vars, NewsType, News!InGate
  <2>2. late' = late /\ \A b \in Actors : Pausing(b)' \subseteq Pausing(b) /\ batch'[b].aborted = batch[b].aborted
    BY <1>1 DEF News!vars, Pausing
  <2> QED
    BY <2>1, <2>2, QuietNewsStep
<1>2. ASSUME NEW b \in Actors, News!Begin(b) PROVE NewsInv'
  <2>1. link' \in [News!Tasks -> LinkPlaces] /\ News!InGate' \subseteq News!InGate
    BY <1>2 DEF News!Begin, NewsType, LinkPlaces, News!InGate, News!Requests
  <2>2. NewsType'
    BY <1>2, <2>1 DEF News!Begin, NewsType
  <2>3. \A c \in Actors : Pausing(c)' \subseteq Pausing(c)
    BY <1>2 DEF News!Begin, Pausing
  <2>4. late' = late /\ \A c \in Actors : batch'[c].aborted = batch[c].aborted
    BY <1>2 DEF News!Begin, NewsType
  <2> QED
    BY <2>1, <2>2, <2>3, <2>4, QuietNewsStep
<1>3. ASSUME NEW b \in Actors, News!Expire(b) PROVE NewsInv'
  <2>1. link' \in [News!Tasks -> LinkPlaces] /\ News!InGate' \subseteq News!InGate
    BY <1>3 DEF News!Expire, NewsType, LinkPlaces, News!InGate, News!Requests
  <2>2. NewsType'
    BY <1>3, <2>1 DEF News!Expire, NewsType
  <2>3. \A c \in Actors : Pausing(c)' \subseteq Pausing(c)
    BY <1>3 DEF News!Expire, Pausing
  <2>4. late' = late /\ \A c \in Actors : batch'[c].aborted = batch[c].aborted
    BY <1>3 DEF News!Expire, NewsType
  <2> QED
    BY <2>1, <2>2, <2>3, <2>4, QuietNewsStep
<1>4. ASSUME NEW b \in Actors, News!Return(b) PROVE NewsInv'
  <2>1. NewsType' /\ News!InGate' \subseteq News!InGate
    BY <1>4 DEF News!Return, NewsType, News!InGate
  <2>2. late' = late /\ \A c \in Actors : Pausing(c)' \subseteq Pausing(c) /\ batch'[c].aborted = batch[c].aborted
    BY <1>4 DEF News!Return, NewsType, Pausing
  <2> QED
    BY <2>1, <2>2, QuietNewsStep
<1>5. CASE News!Elapse
  <2>1. NewsType' /\ News!InGate' \subseteq News!InGate
    BY <1>5 DEF News!Elapse, NewsType, News!InGate
  <2>2. late' = late /\ \A b \in Actors : Pausing(b)' \subseteq Pausing(b) /\ batch'[b].aborted = batch[b].aborted
    BY <1>5 DEF News!Elapse, Pausing
  <2> QED
    BY <2>1, <2>2, QuietNewsStep
<1>6. ASSUME NEW t \in News!Tasks, News!Page(t) \/ News!Decode(t) PROVE NewsInv'
  <2>1. /\ link[t] \in News!Requests /\ UNCHANGED <<batch, late>>
        /\ \E at \in {"batchexecute", "rss/articles", "done"} : News!Moved(t, at)
    BY <1>6 DEF News!Page, News!Decode, News!Requests
  <2>2. t \in News!InGate /\ {"batchexecute", "rss/articles", "done"} \subseteq LinkPlaces
    BY <2>1 DEF News!InGate, LinkPlaces, News!Requests
  <2> QED
    BY <2>1, <2>2, LinkMoves
<1> QED
  BY <1>1, <1>2, <1>3, <1>4, <1>5, <1>6, EnterStep, AskingStep, TooManyStep DEF News!Next

\* A batch that was refused asks Google fewer times than the gate is wide: only
\* its links that were in the gate at the refusal are still to come
\* (scraping/google_news.py: resolve_google_news_urls, _resolve_one).
THEOREM RefusedStops == ASSUME News!GoogleAssumption PROVE News!Spec => []RefusedBatchStops
<1>1. NewsInv => RefusedBatchStops
  <2> SUFFICES ASSUME NewsInv, NEW b \in Actors PROVE late[b] < Width
    BY DEF RefusedBatchStops, News!RefusedBatchStops
  <2>1. late[b] \in Nat /\ Width \in Nat \ {0} /\ Cardinality(Pausing(b)) \in Nat
    BY Inside DEF NewsInv, NewsType, News!GoogleAssumption
  <2> QED
    BY <2>1 DEF NewsInv, LateInv
<1> QED
  BY <1>1, NewsInit, NewsNext, PTL DEF News!Spec

-----------------------------------------------------------------------------
(***************************************************************************)
(* The health row of a feed, for any threshold and any number of topics.   *)
(* The streak grows by failures only, and an outcome that is a failure     *)
(* carries no entries, so that its check ends with it.                     *)
(***************************************************************************)

Statuses == {"ok", "not_modified", "empty", "failed", "aborted"}
FeedStages == {"idle", "fetching", "collected", "storing"}
FeedCheck == [pc : FeedStages, sent : Nat, attempt : Nat, status : Statuses, tag : Nat,
              entries : SUBSET Nat]
Ages == Int \union {None}
HealthRow == [fails : Nat, errAge : Ages, tag : Nat]

FeedType ==
    /\ version \in Nat /\ health \in HealthRow
    /\ check \in [Actors -> FeedCheck]

FailuresAreEmpty == \A t \in Actors : check[t].status = "failed" => check[t].entries = {}

FeedInv == FeedType /\ FailuresAreEmpty

LEMMA FeedIdle == Feeds!Idle \in FeedCheck /\ Feeds!Idle.status = "empty"
BY DEF Feeds!Idle, FeedCheck, FeedStages, Statuses, Feeds!EMPTY

LEMMA FeedInit == Feeds!Init => FeedInv
<1> SUFFICES ASSUME Feeds!Init PROVE FeedInv
  OBVIOUS
<1>1. version \in Nat /\ health \in HealthRow
  BY DEF Feeds!Init, HealthRow, Ages
<1>2. check \in [Actors -> FeedCheck] /\ \A t \in Actors : check[t].status = "empty"
  BY FeedIdle DEF Feeds!Init
<1> QED
  BY <1>1, <1>2 DEF FeedInv, FeedType, FailuresAreEmpty

\* One check goes on to c; a failure among what it may become has no entries.
LEMMA FeedCheckMoves ==
    ASSUME FeedInv, NEW t \in Actors, NEW c \in FeedCheck, c.status = "failed" => c.entries = {},
           check' = [check EXCEPT ![t] = c], version' \in Nat, health' \in HealthRow
    PROVE  FeedInv'
BY DEF FeedInv, FeedType, FailuresAreEmpty

\* The outcome of a check is applied: the streak reaches the threshold by a failure only.
LEMMA AppliedRow ==
    ASSUME Feeds!BackoffAssumption, health \in HealthRow, NEW c \in FeedCheck
    PROVE  /\ Feeds!Applied(c) \in HealthRow
           /\ c.status # "failed" => Feeds!Applied(c).fails \in {0, health.fails}
<1> USE DEF Feeds!Applied, Feeds!succeeded, Feeds!OK, Feeds!NOT_MODIFIED, Feeds!EMPTY, Feeds!ABORTED
<1>0. c.status \in Statuses /\ c.tag \in Nat /\ health.fails \in Nat
  BY DEF FeedCheck, HealthRow
<1>4. 0 \in Ages
  BY DEF Ages
<1>1. CASE Feeds!succeeded(c.status)
  <2>1. PICK tag \in Nat : Feeds!Applied(c) = [health EXCEPT !.fails = 0, !.tag = tag]
    BY <1>0, <1>1 DEF HealthRow
  <2>2. [health EXCEPT !.fails = 0, !.tag = tag] \in HealthRow
    BY DEF HealthRow
  <2>3. [health EXCEPT !.fails = 0, !.tag = tag].fails = 0
    BY DEF HealthRow
  <2> QED
    BY <2>1, <2>2, <2>3
<1>2. CASE c.status = "aborted"
  <2>1. Feeds!Applied(c) = [health EXCEPT !.errAge = 0]
    BY <1>2
  <2>2. [health EXCEPT !.errAge = 0] \in HealthRow /\ [health EXCEPT !.errAge = 0].fails = health.fails
    BY <1>4 DEF HealthRow
  <2> QED
    BY <2>1, <2>2
<1>3. CASE c.status = "failed"
  <2>1. Feeds!Applied(c) = [health EXCEPT !.fails = @ + 1, !.errAge = 0]
    BY <1>3
  <2>2. [health EXCEPT !.fails = @ + 1, !.errAge = 0] \in HealthRow
    <3>1. \A n \in Nat : [health EXCEPT !.fails = n, !.errAge = 0] \in HealthRow
      BY <1>4 DEF HealthRow
    <3>2. health.fails + 1 \in Nat
      BY <1>0
    <3> QED
      BY <3>1, <3>2
  <2> QED
    BY <1>3, <2>1, <2>2
<1> QED
  BY <1>0, <1>1, <1>2, <1>3 DEF Statuses

LEMMA FeedAnswers ==
    ASSUME FeedInv, NEW t \in Actors, NEW r \in Feeds!Replies, Feeds!Answer(t, r)
    PROVE  FeedInv'
<1> DEFINE status == Feeds!Status(r)
           entries == IF r = "entries" THEN Feeds!Entries(version) ELSE {}
<1>1. check[t] \in FeedCheck /\ version \in Nat
  BY DEF FeedInv, FeedType
<1>2. status \in Statuses /\ (status = "failed" => r # "entries")
  BY DEF Feeds!Status, Feeds!OK, Feeds!NOT_MODIFIED, Feeds!EMPTY, Feeds!FAILED, Feeds!ABORTED, Statuses
<1>3. entries \in SUBSET Nat
  BY <1>1 DEF Feeds!Entries
<1>4. PICK tag \in Nat : check' = [check EXCEPT ![t] =
          [@ EXCEPT !.pc = "collected", !.attempt = 0, !.status = status, !.tag = tag, !.entries = entries]]
  BY <1>1 DEF Feeds!Answer
<1> DEFINE c == [check[t] EXCEPT !.pc = "collected", !.attempt = 0, !.status = status, !.tag = tag, !.entries = entries]
<1>5. \A s \in Statuses, e \in SUBSET Nat :
          LET d == [check[t] EXCEPT !.pc = "collected", !.attempt = 0, !.status = s, !.tag = tag, !.entries = e]
          IN  d \in FeedCheck /\ d.status = s /\ d.entries = e
  BY <1>1 DEF FeedCheck, FeedStages
<1>6. c \in FeedCheck /\ c.status = status /\ c.entries = entries
  <2> HIDE DEF status, entries
  <2> QED
    BY <1>2, <1>3, <1>5
<1>7. check' = [check EXCEPT ![t] = c]
  BY <1>4
<1>8. c.status = "failed" => c.entries = {}
  BY <1>2, <1>6
<1>9. version' \in Nat /\ health' \in HealthRow
  BY DEF Feeds!Answer, FeedInv, FeedType
<1> QED
  <2> HIDE DEF c
  <2> QED
    BY <1>6, <1>7, <1>8, <1>9, FeedCheckMoves

LEMMA FeedNext == ASSUME Feeds!BackoffAssumption PROVE FeedInv /\ [Feeds!Next]_(Feeds!vars) => FeedInv'
<1> SUFFICES ASSUME FeedInv, [Feeds!Next]_(Feeds!vars) PROVE FeedInv'
  OBVIOUS
<1>0. version \in Nat /\ health \in HealthRow /\ check \in [Actors -> FeedCheck]
  BY DEF FeedInv, FeedType
<1>1. CASE UNCHANGED Feeds!vars
  BY <1>1 DEF Feeds!vars, FeedInv, FeedType, FailuresAreEmpty
<1>2. ASSUME NEW t \in Actors, Feeds!FetchBegins(t) PROVE FeedInv'
  <2>1. Feeds!Validator(t) \in Nat
    BY <1>0 DEF Feeds!Validator, HealthRow
  <2>2. \A v \in Nat : LET c == [Feeds!Idle EXCEPT !.pc = "fetching", !.attempt = 1, !.sent = v]
                       IN  c \in FeedCheck /\ c.status = "empty"
    BY FeedIdle DEF FeedCheck, FeedStages
  <2>3. PICK c \in FeedCheck : c.status = "empty" /\ check' = [check EXCEPT ![t] = c]
    BY <1>2, <2>1, <2>2 DEF Feeds!FetchBegins
  <2> QED
    BY <1>0, <1>2, <2>3, FeedCheckMoves DEF Feeds!FetchBegins
<1>3. ASSUME NEW t \in Actors, Feeds!ApplyHealth(t) PROVE FeedInv'
  <2>1. Feeds!Candidates(t) \in SUBSET Nat
    BY <1>0 DEF Feeds!Candidates, FeedCheck
  <2>2. \A e \in SUBSET Nat : LET c == [Feeds!Idle EXCEPT !.pc = "storing", !.entries = e]
                              IN  c \in FeedCheck /\ c.status = "empty"
    BY FeedIdle DEF FeedCheck, FeedStages
  <2>3. PICK c \in FeedCheck : c.status = "empty" /\ check' = [check EXCEPT ![t] = c]
    BY <1>3, <2>1, <2>2, FeedIdle DEF Feeds!ApplyHealth
  <2>4. health' \in HealthRow /\ version' \in Nat
    BY <1>0, <1>3, AppliedRow DEF Feeds!ApplyHealth, Feeds!HealthApplied
  <2> QED
    BY <2>3, <2>4, FeedCheckMoves
<1>4. ASSUME NEW t \in Actors, Feeds!Store(t) PROVE FeedInv'
  BY <1>0, <1>4, FeedIdle, FeedCheckMoves DEF Feeds!Store
<1>5. ASSUME NEW t \in Actors, Feeds!Cancel(t) PROVE FeedInv'
  <2>1. health' \in HealthRow /\ version' \in Nat
    BY <1>0, <1>5, AppliedRow DEF Feeds!Cancel, Feeds!HealthApplied
  <2> QED
    BY <1>5, <2>1, FeedIdle, FeedCheckMoves DEF Feeds!Cancel
<1>6. ASSUME NEW t \in Actors, Feeds!Retention(t) PROVE FeedInv'
  BY <1>6 DEF Feeds!Retention, FeedInv, FeedType, FailuresAreEmpty
<1>7. ASSUME NEW t \in Actors, NEW r \in Feeds!Replies, Feeds!Retry(t, r) PROVE FeedInv'
  <2>1. LET c == [check[t] EXCEPT !.attempt = @ + 1]
        IN  c \in FeedCheck /\ c.status = check[t].status /\ c.entries = check[t].entries
    BY <1>0 DEF FeedCheck
  <2>2. PICK c \in FeedCheck : /\ c.status = check[t].status /\ c.entries = check[t].entries
                               /\ check' = [check EXCEPT ![t] = c]
    BY <1>7, <2>1 DEF Feeds!Retry
  <2>3. c.status = "failed" => c.entries = {}
    BY <2>2 DEF FeedInv, FailuresAreEmpty
  <2> QED
    BY <1>0, <1>7, <2>2, <2>3, FeedCheckMoves DEF Feeds!Retry
<1>8. CASE Feeds!Crash
  BY <1>0, <1>8, FeedIdle DEF Feeds!Crash, FeedInv, FeedType, FailuresAreEmpty
<1>9. CASE Feeds!Publish
  BY <1>0, <1>9 DEF Feeds!Publish, FeedInv, FeedType, FailuresAreEmpty
<1>10. CASE Feeds!Tick
  BY <1>0, <1>10 DEF Feeds!Tick, FeedInv, FeedType, FailuresAreEmpty, HealthRow, Ages
<1>11. CASE Feeds!ClockJump
  BY <1>0, <1>11 DEF Feeds!ClockJump, FeedInv, FeedType, FailuresAreEmpty, HealthRow, Ages, Feeds!BackoffAssumption
<1> QED
  BY <1>1, <1>2, <1>3, <1>4, <1>5, <1>6, <1>7, <1>8, <1>9, <1>10, <1>11, FeedAnswers DEF Feeds!Next

\* A backoff begins when a streak comes to the threshold, which the end of a failed
\* check does and nothing else.
LEMMA FeedEarns ==
    ASSUME Feeds!BackoffAssumption, FeedInv, [Feeds!Next]_(Feeds!vars), Feeds!BackoffBegins
    PROVE  Feeds!OwnFailure
<1>0. /\ health \in HealthRow /\ check \in [Actors -> FeedCheck] /\ health.fails \in Nat
      /\ FeedThreshold \in Nat \ {0} /\ health'.fails >= FeedThreshold
  BY DEF FeedInv, FeedType, HealthRow, Feeds!BackoffAssumption, Feeds!BackoffBegins, Feeds!Skipped
<1> SUFFICES ASSUME health.fails < FeedThreshold
             PROVE  \E t \in Actors : check[t].status = "failed" /\ check'[t] = Feeds!Idle
  BY <1>0 DEF Feeds!OwnFailure, Feeds!FAILED
<1>1. health'.fails \notin {0, health.fails}
  BY <1>0
<1>2. PICK t \in Actors : /\ Feeds!ApplyHealth(t) \/ Feeds!Cancel(t)
                          /\ health' = Feeds!Applied(check[t])
  <2>1. health' # health
    BY <1>1
  <2>2. \/ \E t \in Actors : Feeds!ApplyHealth(t) \/ Feeds!Cancel(t)
        \/ Feeds!Tick \/ Feeds!ClockJump
    BY <2>1 DEF Feeds!Next, Feeds!vars, Feeds!FetchBegins, Feeds!Store, Feeds!Retention, Feeds!Retry,
                Feeds!Answer, Feeds!Crash, Feeds!Publish
  <2>3. ~Feeds!Tick /\ ~Feeds!ClockJump
    BY <1>0, <1>1 DEF Feeds!Tick, Feeds!ClockJump, HealthRow
  <2> QED
    BY <2>1, <2>2, <2>3 DEF Feeds!ApplyHealth, Feeds!Cancel, Feeds!HealthApplied
<1>3. check[t] \in FeedCheck
  BY <1>0
<1>4. check[t].status = "failed"
  BY <1>0, <1>1, <1>2, <1>3, AppliedRow
<1>5. Feeds!Candidates(t) = {}
  BY <1>4 DEF FeedInv, FailuresAreEmpty, Feeds!Candidates
<1>6. check'[t] = Feeds!Idle
  BY <1>0, <1>2, <1>5 DEF Feeds!ApplyHealth, Feeds!Cancel
<1> QED
  BY <1>4, <1>6

\* Failures of its own put a feed in backoff, whatever fetches are given up,
\* cancelled or cut by a crash meanwhile (scraping/feed_backoff.py, crud.py:
\* apply_feed_health).
THEOREM BackoffEarned == ASSUME Feeds!BackoffAssumption PROVE Feeds!Spec => BackoffIsEarned
<1>1. FeedInv /\ [Feeds!Next]_(Feeds!vars) => [Feeds!BackoffBegins => Feeds!OwnFailure]_(Feeds!vars)
  BY FeedEarns
<1> QED
  BY <1>1, FeedInit, FeedNext, PTL DEF Feeds!Spec, BackoffIsEarned, Feeds!BackoffIsEarned

=============================================================================
