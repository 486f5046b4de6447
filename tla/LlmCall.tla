------------------------------ MODULE LlmCall ------------------------------
(***************************************************************************)
(* Structured-output calls to the LLM provider, and the mode hint they     *)
(* share.                                                                  *)
(*                                                                         *)
(* A call asks in the hinted mode (TOOLS without a hint).  A rejection a   *)
(* mode switch could fix hops TOOLS -> JSON -> MD_JSON within the attempt; *)
(* an answer that does not fit the schema is prompted for again; a         *)
(* transient failure waits and starts a new attempt, within a number and   *)
(* a total time; anything else ends the call.  A success stores its mode   *)
(* as the hint of every call with the same key.                            *)
(*                                                                         *)
(* Each attempt fits the articles into the context window anew, and the    *)
(* result says which articles the answered request carried.  Time passes   *)
(* in units of half the longest delay.                                     *)
(***************************************************************************)
EXTENDS Integers, FiniteSets

CONSTANTS
    Calls,        \* calls in flight at once, with one hint key
    None,
    Articles,     \* how many articles a call is given to read
    MaxRetries,   \* llm_max_retries
    HintTtl,      \* _MODE_HINT_TTL_SECONDS, in units
    RetryBudget,  \* _RETRY_TOTAL_BUDGET_SECONDS, in units
    MaxChanges    \* bound: how often the provider changes what it accepts

LlmAssumption == HintTtl \in Nat \ {0} /\ {Articles, MaxRetries, RetryBudget} \subseteq Nat

Modes == {"TOOLS", "JSON", "MD_JSON"}

VARIABLES
    accepts,   \* the modes the provider accepts
    hint,      \* the _mode_hints entry: mode and time left, or None
    call,      \* per call: where it is
    confirmed, \* history, per mode: time since a call succeeded in it, up to HintTtl
    changes

vars == <<accepts, hint, call, confirmed, changes>>

\* elapsed counts to just beyond the budget; fitted is the closure's variable,
\* carried what the request in flight really holds.
Idle == [pc |-> "idle", mode |-> "TOOLS", attempt |-> 0, prompts |-> 0, elapsed |-> 0,
         wait |-> 0, fitted |-> 0, carried |-> 0, read |-> 0, answered |-> 0]

-----------------------------------------------------------------------------
(* Modes *)

\* _starting_mode
StartingMode == IF hint = None THEN "TOOLS" ELSE hint.mode

\* _fallback_mode, for a rejection that is not the same in every mode.
Fallback(mode) ==
    CASE mode = "TOOLS" -> "JSON" [] mode = "JSON" -> "MD_JSON" [] OTHER -> None

\* Mutant: the hop is remembered before anything has accepted it.
HintHopped(mode) == [mode |-> mode, left |-> HintTtl]

\* What a hop leaves of the hint.
HintAfterHop(mode) == hint

-----------------------------------------------------------------------------
(* Requests *)

\* Mutant: the articles are those of the first request built.
KeptFirst(c, sent) == call[c].fitted

\* _fit_article_prompt rebinds fitted with every request it builds.
Rebound(c, sent) == sent

\* The leading articles that fit: all, or half as often as it takes, but one.
\* What fits depends on the counting, which may fall back between two requests.
Fitting == 1..Articles

Ask(c, mode, attempt) ==
    \E sent \in Fitting :
        call' = [call EXCEPT ![c] =
                   [@ EXCEPT !.pc = "asking", !.mode = mode, !.attempt = attempt, !.prompts = 0,
                             !.wait = 0, !.carried = sent, !.fitted = Rebound(c, sent)]]

Start(c) ==
    /\ call[c].pc \in {"idle", "done", "failed"}
    /\ \E sent \in Fitting :
          call' = [call EXCEPT ![c] = [Idle EXCEPT !.pc = "asking", !.mode = StartingMode,
                                                   !.carried = sent, !.fitted = sent]]
    /\ UNCHANGED <<accepts, hint, confirmed, changes>>

Finish(c, how) == call' = [call EXCEPT ![c] = [Idle EXCEPT !.pc = how]]

\* _remember_mode; the result reports the articles as analyzed.
Succeed(c) ==
    /\ call[c].pc = "asking" /\ call[c].mode \in accepts
    /\ hint' = [mode |-> call[c].mode, left |-> HintTtl]
    /\ confirmed' = [confirmed EXCEPT ![call[c].mode] = 0]
    /\ call' = [call EXCEPT ![c] = [Idle EXCEPT !.pc = "done", !.read = call[c].fitted,
                                                !.answered = call[c].carried]]
    /\ UNCHANGED <<accepts, changes>>

\* 400: hop, with a request built anew, or give up at the end of the chain.
Reject(c) ==
    LET next == Fallback(call[c].mode) IN
    /\ call[c].pc = "asking" /\ call[c].mode \notin accepts
    /\ IF next = None THEN Finish(c, "failed") /\ UNCHANGED hint
                      ELSE Ask(c, next, call[c].attempt) /\ hint' = HintAfterHop(next)
    /\ UNCHANGED <<accepts, confirmed, changes>>

\* The answer does not fit the schema: instructor prompts again, without a wait.
Invalid(c) ==
    /\ call[c].pc = "asking" /\ call[c].mode \in accepts
    /\ IF call[c].prompts < MaxRetries
         THEN call' = [call EXCEPT ![c].prompts = @ + 1]
         ELSE Finish(c, "failed")
    /\ UNCHANGED <<accepts, hint, confirmed, changes>>

\* Context window, max_tokens, 401, an unknown error: never sent again.
Permanent(c) ==
    /\ call[c].pc = "asking"
    /\ Finish(c, "failed")
    /\ UNCHANGED <<accepts, hint, confirmed, changes>>

\* The wait before another attempt.
Delay(delay, left) == IF delay < left THEN delay ELSE left

\* Another attempt is owed.
Owed(c) == call[c].attempt < MaxRetries /\ call[c].elapsed < RetryBudget

\* 429, 408, 5xx, network: _call_with_transport_retry.
Transient(c) ==
    /\ call[c].pc = "asking"
    /\ IF Owed(c)
         THEN \E delay \in {1, 2} :
                call' = [call EXCEPT ![c].pc = "waiting",
                                     ![c].wait = Delay(delay, RetryBudget - call[c].elapsed)]
         ELSE Finish(c, "failed")
    /\ UNCHANGED <<accepts, hint, confirmed, changes>>

\* A new attempt begins in the hinted mode again.
Wake(c) ==
    /\ call[c].pc = "waiting" /\ call[c].wait = 0
    /\ Ask(c, StartingMode, call[c].attempt + 1)
    /\ UNCHANGED <<accepts, hint, confirmed, changes>>

-----------------------------------------------------------------------------
(* The environment *)

\* A unit of time; a request that hangs runs into its timeout, which is transient.
Elapse ==
    /\ \A c \in Calls : call[c].pc = "waiting" => call[c].wait > 0
    /\ hint' = IF hint = None \/ hint.left = 1 THEN None ELSE [hint EXCEPT !.left = @ - 1]
    /\ confirmed' = [m \in Modes |-> IF confirmed[m] < HintTtl THEN confirmed[m] + 1 ELSE HintTtl]
    /\ call' = [c \in Calls |->
                  CASE call[c].pc = "asking" ->
                         [call[c] EXCEPT !.elapsed = IF @ <= RetryBudget THEN @ + 1 ELSE @]
                    [] call[c].pc = "waiting" ->
                         [call[c] EXCEPT !.elapsed = IF @ <= RetryBudget THEN @ + 1 ELSE @,
                                         !.wait = @ - 1]
                    [] OTHER -> call[c]]
    /\ UNCHANGED <<accepts, changes>>

\* The gateway or the model behind the key is another one now.
ProviderChanges ==
    /\ changes < MaxChanges
    /\ changes' = changes + 1
    /\ accepts' \in (SUBSET Modes) \ {{}, accepts}
    /\ UNCHANGED <<hint, call, confirmed>>

-----------------------------------------------------------------------------
Init ==
    /\ accepts \in (SUBSET Modes) \ {{}}
    /\ hint = None
    /\ call = [c \in Calls |-> Idle]
    /\ confirmed = [m \in Modes |-> HintTtl]
    /\ changes = 0

Reply(c) == Succeed(c) \/ Reject(c) \/ Invalid(c) \/ Permanent(c) \/ Transient(c)

Next ==
    \/ \E c \in Calls : Start(c) \/ Reply(c) \/ Wake(c)
    \/ Elapse \/ ProviderChanges

Spec == Init /\ [][Next]_vars

-----------------------------------------------------------------------------
(* Properties *)

\* llm.py, _create_structured: no mode is remembered that nothing has accepted.
\* Whatever calls fail and hop at the same time, the hint names a mode some call
\* succeeded in within the hint's time.
HintConfirmed == hint # None => confirmed[hint.mode] <= HintTtl - hint.left

\* An article the model never read must not be marked processed: the articles a
\* result reports are those of the request that was answered, whatever was
\* fitted for earlier attempts and modes.
ReadIsAnswered == \A c \in Calls : call[c].read = call[c].answered

=============================================================================
