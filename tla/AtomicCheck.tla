---------------------------- MODULE AtomicCheck ----------------------------
(***************************************************************************)
(* What the checks of one topic promise, as if each ran alone and at once: *)
(* it looks at what is known at that moment, absorbs what is new, perhaps  *)
(* announces it, and is done with some of the waiting articles.  A check   *)
(* of the real pipeline takes minutes, reads the knowledge at its          *)
(* beginning, and may overlap another process's check of the same topic.   *)
(***************************************************************************)
EXTENDS Naturals

CONSTANTS
  Articles, Facts, Generations,
  NoTopic,      \* the topic does not exist
  MaxAlerts     \* the alerts for one fact are counted up to here

\* What the theorems need of the constants; CheckPipeline's assumption implies it.
AtomicAssumption == NoTopic \notin Generations /\ MaxAlerts \in Nat \ {0, 1}

VARIABLES
  generation,   \* the topic's identity
  known,        \* the facts its knowledge holds
  waiting,      \* stored articles no check is done with
  announced     \* alerts decided for each fact

vars == <<generation, known, waiting, announced>>

Counted(n) == IF n < MaxAlerts THEN n + 1 ELSE n

Init ==
  /\ generation \in Generations
  /\ known = {} /\ waiting = {}
  /\ announced = [f \in Facts |-> 0]

Arrive ==
  /\ generation # NoTopic
  /\ \E new \in SUBSET Articles : waiting' = waiting \cup new
  /\ UNCHANGED <<generation, known, announced>>

\* The knowledge snapshot a check is judged against.
Findings == SUBSET (Facts \ known)

\* Whatever is announced was unknown, and is known afterwards.
Check ==
  /\ generation # NoTopic
  /\ \E findings \in Findings, alert \in BOOLEAN :
       /\ known' = known \cup findings
       /\ announced' = [f \in Facts |->
            IF alert /\ f \in findings THEN Counted(announced[f]) ELSE announced[f]]
  /\ \E done \in SUBSET waiting : waiting' = waiting \ done
  /\ UNCHANGED generation

Delete ==
  /\ generation' = NoTopic
  /\ known' = {} /\ waiting' = {} /\ announced' = [f \in Facts |-> 0]

\* A topic comes to life with the baseline its initialization built.
Create ==
  /\ generation = NoTopic
  /\ generation' \in Generations
  /\ known' \in SUBSET Facts
  /\ UNCHANGED <<waiting, announced>>

Next == Arrive \/ Check \/ Delete \/ Create

Spec == Init /\ [][Next]_vars

\* A topic announces no fact twice.
AnnouncedOnce == \A f \in Facts : announced[f] <= 1
============================================================================
