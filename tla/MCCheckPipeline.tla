-------------------------- MODULE MCCheckPipeline --------------------------
(* Small instances of the check pipeline for TLC. *)
EXTENDS CheckPipeline

CONSTANTS c1, c2, a1, a2, f1, f2, g1, g2

\* Two articles report one fact, or one each.
OneStory == (a1 :> f1) @@ (a2 :> f1)
TwoStories == (a1 :> f1) @@ (a2 :> f2)

\* No definition tells one checker from another.
CheckerSymmetry == Permutations(Checkers)

\* The feeds never run dry: the name of an article that is finished with, was not
\* announced and is in no check's hands stands for the next one they offer.
NextArticle(a) ==
  /\ a \in Stored /\ ~row[a].open /\ announced[Tells[a]] = 0
  /\ \A c \in Checkers : a \notin ToSet(check[c].batch)
  /\ row' = [row EXCEPT ![a] = NoRow]
  /\ recency' = Filtered(recency, Articles \ {a})
  /\ UNCHANGED <<generation, knowledge, results, check, announced, losses>>

StreamSpec ==
  Init /\ [][Next \/ NextArticle(a1)]_vars /\ Fairness
============================================================================
