------------------------------ MODULE MCTopics ------------------------------
(* A topic and the checks a user asks for, one of the two per behaviour:    *)
(* its status with the initializers, handlers and checks that meet at it;   *)
(* or one manual check and two processes, with one kind of trouble.         *)
EXTENDS TopicLifecycle

CONSTANTS
    server, cli, background, due, byApi,
    Intents, MaxAttempts, CheckTimeout, StaleAfter, MaxResults, MaxCrashes, MaxJumps, WithApi

VARIABLES
    scenario,
    ready, newest, intent, pc, token, slot, cycle, api, crashes, jumps, starts, commits

intentVars ==
    <<ready, newest, intent, pc, token, slot, cycle, api, crashes, jumps, starts, commits>>
allVars == <<scenario, vars, intentVars>>

Control == INSTANCE CheckControl WITH
    Server <- server, Cli <- cli, Task <- background, Due <- due, Api <- byApi, guard <- slot

ASSUME IntentsAssumption == Control!ControlAssumption

MCInit ==
    /\ scenario \in {"lifecycle", "intents"}
    /\ Init /\ (scenario = "intents" => row = None)
    /\ ready = TRUE /\ newest = 0
    /\ intent = [i \in Intents |-> None]
    /\ pc = [t \in Control!Threads |-> "idle"] /\ token = [t \in Control!Threads |-> 0]
    /\ slot = [p \in {server, cli} |-> Control!FreeGuard]
    /\ cycle = [p \in {server, cli} |-> Control!NoCycle]
    /\ starts = [i \in Intents |-> 0] /\ commits = [i \in Intents |-> 0]
    \* What the other behaviours may do is used up from the start: a crash or a
    \* cancelled cycle, or a clock jump, or API checks.
    /\ \/ crashes = 0 /\ jumps = MaxJumps /\ api = "off" /\ scenario = "intents"
       \/ crashes = MaxCrashes /\ jumps = 0 /\ api = "off" /\ scenario = "intents"
       \/ crashes = MaxCrashes /\ jumps = MaxJumps /\ api = "off"
       \/ crashes = MaxCrashes /\ jumps = MaxJumps /\ api = "no" /\ scenario = "intents"

OfLifecycle(A) == scenario = "lifecycle" /\ A /\ UNCHANGED <<scenario, intentVars>>
OfIntents(A) == scenario = "intents" /\ A /\ UNCHANGED <<scenario, vars>>

\* The topic stops being READY when no other trouble is left, and of the due
\* checks only the server's are run: the CLI's are to it what the server's are.
Quiet == crashes = MaxCrashes /\ jumps = MaxJumps /\ api = "off"

\* Of the lifecycle's troubles, the clock jumps or the user pauses, not both.
OneTrouble == jumped' # 0 => toggles' = 0
MCNext ==
    \/ OfLifecycle(Next /\ OneTrouble)
    \/ OfIntents(Control!Next /\ (ready' # ready => Quiet) /\ cycle'[cli].due = "no")

\* The fairness of TopicLifecycle and of CheckControl, an assumption of the one
\* beside one of the other.
Either(l, i) == OfLifecycle(l) \/ OfIntents(i)
Fair ==
    /\ WF_allVars(Either(Elapse, Control!Elapse))
    /\ WF_allVars(Either(Restart, Control!CycleStart(server)))
    /\ WF_allVars(Either(RecoverStuck, Control!Cycle(server)))
    /\ WF_allVars(Either(PauseWrite, Control!Cycle(cli)))
    /\ WF_allVars(Either(CheckEnd, Control!ApiEnds))
    /\ \A i \in Intents :
        /\ WF_allVars(Either(\E t \in WebTasks : RunInit(t), Control!Run(<<server, i>>)))
        /\ WF_allVars(Either(\E t \in ServerTasks : InitTimedOut(t) \/ TimeoutReason(t),
                             Control!Run(<<cli, i>>)))
        /\ WF_allVars(OfIntents(Control!Run(<<background, i>>)))
        /\ WF_allVars(OfIntents(Control!Ripens(i)))

MCSpec == MCInit /\ [][MCNext]_allVars /\ Fair

\* One accepted check commits one result; see CheckControl.
CommitsOnce == Control!CommitsOnce

\* Of the checks with a deadline a process never runs two of a topic at once;
\* see CheckControl.
BoundedChecksExclusive == Control!BoundedChecksExclusive

\* An accepted check is given up only for the reasons CheckControl names.
NotDropped == Control!NotDropped

\* Every accepted check is answered or given up; see CheckControl.
IntentsSettle == Control!IntentsSettle
=============================================================================
