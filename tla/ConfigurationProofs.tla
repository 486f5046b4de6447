------------------------ MODULE ConfigurationProofs ------------------------
(* Proofs about Configuration, for all settings, values, tabs and visitors. *)
EXTENDS Configuration, TLAPS

Stored == [Fields -> Values \union {None}]
Merges == [Fields -> Values \union {None, Env}]

TypeInv ==
    /\ file \in Stored /\ owned \in SUBSET Fields /\ live \in Merges
    /\ open \in BOOLEAN /\ drift \in BOOLEAN /\ scheduler \in {"none", "runs", "refused"}
    /\ tab \in [Tabs -> Stored \union {None}]
    /\ setup \in [Visitors -> Merges \union {None}]

\* The fields the process holds from the environment are those the environment supplies.
Follows(s) == \A f \in Fields : s[f] = Env <=> f \in owned

\* A visitor's submission has them too, differs from what the process holds in the key
\* only, and no other visitor is beside it.
SetupInv ==
    /\ \A v \in Visitors : setup[v] # None =>
          Follows(setup[v]) /\ \A f \in Fields \ {Key} : setup[v][f] = live[f]
    /\ \A u, v \in Visitors : setup[u] # None /\ setup[v] # None => u = v
    /\ open => \A v \in Visitors : setup[v] = None

IInv == TypeInv /\ Follows(live) /\ SetupInv /\ LiveIsRestart /\ OpenMeansStarted

-----------------------------------------------------------------------------
(* The operators *)

\* What a load makes of a stored document follows the environment.
LEMMA LoadedFollows ==
    ASSUME NEW doc \in Stored, NEW env \in SUBSET Fields
    PROVE  /\ Loaded(doc, env) \in Merges
           /\ \A f \in Fields : Loaded(doc, env)[f] = Env <=> f \in env
<1>1. \A f \in Fields : doc[f] \in Values \union {None} /\ doc[f] # Env
  BY ConfigAssumption DEF Stored
<1> QED
  BY <1>1 DEF Loaded, Merges

\* Settings that follow the environment are what a load returns once they are saved,
\* and nothing of the environment gets into the document.
LEMMA SavedIsLoaded ==
    ASSUME NEW doc \in Stored, NEW s \in Merges, owned \in SUBSET Fields, Follows(s)
    PROVE  Saved(doc, s) \in Stored /\ s = Loaded(Saved(doc, s), owned)
<1>1. \A f \in Fields : f \notin owned => s[f] \in Values \union {None}
  BY DEF Merges, Follows
<1>2. Saved(doc, s) \in Stored
  BY <1>1 DEF Saved, Stored
<1>3. \A f \in Fields : s[f] = Loaded(Saved(doc, s), owned)[f]
  BY DEF Loaded, Saved, Follows
<1>4. Loaded(Saved(doc, s), owned) = [f \in Fields |-> Loaded(Saved(doc, s), owned)[f]]
  BY DEF Loaded
<1>5. s = [f \in Fields |-> s[f]]
  BY DEF Merges
<1> QED
  BY <1>2, <1>3, <1>4, <1>5

\* A form merged with the environment follows it.
LEMMA MergedFollows ==
    ASSUME NEW form, owned \in SUBSET Fields,
           \A f \in Fields : f \notin owned => form[f] \in Values \union {None}
    PROVE  Merged(form) \in Merges /\ Follows(Merged(form))
BY ConfigAssumption DEF Merged, Merges, Follows

-----------------------------------------------------------------------------
(* The invariant *)

LEMMA InitIInv == Init => IInv
<1> SUFFICES ASSUME Init PROVE IInv
  OBVIOUS
<1>1. file \in Stored /\ owned \in SUBSET Fields
  BY DEF Init, Stored
<1>2. live \in Merges /\ Follows(live)
  BY <1>1, LoadedFollows DEF Init, Follows
<1>3. TypeInv /\ SetupInv /\ LiveIsRestart /\ OpenMeansStarted
  BY <1>1, <1>2 DEF Init, TypeInv, SetupInv, LiveIsRestart, OpenMeansStarted, Configured, Boots, Starts
<1> QED
  BY <1>2, <1>3 DEF IInv

\* Every save through the form leaves the file and the process in step.
LEMMA SubmitIInv == ASSUME IInv, NEW t \in Tabs, Submit(t) PROVE IInv'
<1>1. PICK form \in Stored :
        LET kept == [form EXCEPT ![Key] = IF @ = None THEN Loaded(file, owned)[Key] ELSE @]
        IN file' = Saved(file, Merged(kept)) /\ live' = Merged(kept)
  BY DEF Submit, Stored
<1> DEFINE kept == [form EXCEPT ![Key] = IF @ = None THEN Loaded(file, owned)[Key] ELSE @]
<1>2. file \in Stored /\ owned \in SUBSET Fields
  BY DEF IInv, TypeInv
<1>3. \A f \in Fields : f \notin owned => kept[f] \in Values \union {None}
  BY <1>2, ConfigAssumption DEF Stored, Loaded
<1>4. Merged(kept) \in Merges /\ Follows(Merged(kept))
  BY <1>2, <1>3, MergedFollows
<1>5. file' \in Stored /\ live' = Loaded(file', owned)
  BY <1>1, <1>2, <1>4, SavedIsLoaded
<1>6. live' \in Merges /\ Follows(live)'
  BY <1>1, <1>4 DEF Submit, Follows
<1>7. TypeInv'
  BY <1>5, <1>6 DEF IInv, TypeInv, Submit
<1>8. SetupInv' /\ LiveIsRestart' /\ OpenMeansStarted'
  BY <1>5 DEF IInv, SetupInv, Follows, LiveIsRestart, OpenMeansStarted, Submit
<1> QED
  BY <1>6, <1>7, <1>8 DEF IInv

LEMMA PublishIInv ==
    ASSUME IInv, NEW v \in Visitors, NEW start \in Starts, Publish(v, start) PROVE IInv'
<1>1. /\ file \in Stored /\ owned \in SUBSET Fields
      /\ setup[v] \in Merges /\ Follows(setup[v])
  BY DEF IInv, TypeInv, SetupInv, Publish
<1>2. file' \in Stored /\ setup[v] = Loaded(file', owned)
  BY <1>1, SavedIsLoaded DEF Publish
<1>3. live' \in Merges /\ Follows(live)'
  BY <1>1 DEF IInv, TypeInv, Publish, Follows
<1>4. TypeInv'
  BY <1>2, <1>3 DEF IInv, TypeInv, Publish, Starts
<1>5. SetupInv'
  BY DEF IInv, TypeInv, SetupInv, Follows, Publish
<1>6. LiveIsRestart' /\ OpenMeansStarted'
  BY <1>2 DEF LiveIsRestart, OpenMeansStarted, Publish, Starts
<1> QED
  BY <1>3, <1>4, <1>5, <1>6 DEF IInv

LEMMA PostIInv == ASSUME IInv, NEW v \in Visitors, Post(v) PROVE IInv'
<1>1. PICK k \in Values : setup' = [setup EXCEPT ![v] = Merged([live EXCEPT ![Key] = k])]
  BY DEF Post
<1> DEFINE s == Merged([live EXCEPT ![Key] = k])
<1>2. s \in Merges /\ Follows(s)
  <2>1. \A f \in Fields : f \notin owned => [live EXCEPT ![Key] = k][f] \in Values \union {None}
    BY DEF IInv, TypeInv, Follows, Merges
  <2> QED
    BY <2>1, MergedFollows DEF IInv, TypeInv
<1>3. TypeInv'
  BY <1>1, <1>2 DEF IInv, TypeInv, Post
<1>4. SetupInv'
  <2>1. ASSUME NEW f \in Fields, f # Key PROVE s[f] = live[f]
    <3>1. live \in Merges /\ (live[f] = Env <=> f \in owned) /\ [live EXCEPT ![Key] = k][f] = live[f]
      BY <2>1 DEF IInv, TypeInv, Follows, Merges
    <3> QED
      BY <3>1 DEF Merged
  <2> HIDE DEF s
  <2>2. setup' = [setup EXCEPT ![v] = s] /\ UNCHANGED <<live, owned, open>> /\ ~open
    BY <1>1 DEF Post, s
  <2>3. Follows(s) /\ \A u \in Visitors : setup[u] = None
    BY <1>2 DEF Post
  <2>4. \A u \in Visitors : setup'[u] = IF u = v THEN s ELSE None
    BY <2>2, <2>3 DEF IInv, TypeInv
  <2> QED
    BY <2>1, <2>2, <2>3, <2>4 DEF SetupInv, Follows
<1>5. Follows(live)' /\ LiveIsRestart' /\ OpenMeansStarted'
  BY DEF IInv, Follows, LiveIsRestart, OpenMeansStarted, Post
<1> QED
  BY <1>3, <1>4, <1>5 DEF IInv

LEMMA RestartIInv == ASSUME IInv, Restart PROVE IInv'
<1>1. file' \in Stored /\ owned' \in SUBSET Fields /\ live' = Loaded(file', owned')
  BY DEF IInv, TypeInv, Restart
<1>2. live' \in Merges /\ Follows(live)'
  BY <1>1, LoadedFollows DEF Follows
<1>3. TypeInv' /\ SetupInv' /\ LiveIsRestart' /\ OpenMeansStarted'
  BY <1>1, <1>2 DEF IInv, TypeInv, SetupInv, LiveIsRestart, OpenMeansStarted, Configured, Boots, Starts,
              Restart
<1> QED
  BY <1>2, <1>3 DEF IInv

LEMMA NextIInv == IInv /\ [Next]_vars => IInv'
<1> SUFFICES ASSUME IInv, [Next]_vars PROVE IInv'
  OBVIOUS
<1>1. ASSUME NEW t \in Tabs, OpenForm(t) \/ Refused(t) PROVE IInv'
  BY <1>1 DEF OpenForm, Refused, IInv, TypeInv, SetupInv, Follows, LiveIsRestart,
              OpenMeansStarted
<1>2. ASSUME NEW v \in Visitors, ProbeFails(v) PROVE IInv'
  BY <1>2 DEF ProbeFails, IInv, TypeInv, SetupInv, Follows, LiveIsRestart, OpenMeansStarted
<1>3. ASSUME NEW f \in Fields, EditFile(f) PROVE IInv'
  BY <1>3 DEF EditFile, IInv, TypeInv, Stored, SetupInv, Follows, LiveIsRestart,
              OpenMeansStarted
<1>4. CASE UNCHANGED vars
  BY <1>4 DEF vars, IInv, TypeInv, SetupInv, Follows, LiveIsRestart, OpenMeansStarted
<1> QED
  BY <1>1, <1>2, <1>3, <1>4, SubmitIInv, PublishIInv, PostIInv, RestartIInv DEF Next

\* The strengthening holds throughout.
THEOREM ConfigurationInvariant == Spec => []IInv
BY InitIInv, NextIInv, PTL DEF Spec

-----------------------------------------------------------------------------
(* The theorems *)

\* The settings the process lives by are those a restart would load, unless the
\* file was changed behind its back (config.py, routers/settings.py).
THEOREM LiveSettingsAreDurable == Spec => []LiveIsRestart
<1>1. IInv => LiveIsRestart
  BY DEF IInv
<1> QED
  BY <1>1, ConfigurationInvariant, PTL

\* No save writes what the environment supplies into config.yml.
THEOREM EnvironmentStaysOut == Spec => []EnvStaysOut
<1>1. IInv => EnvStaysOut
  BY ConfigAssumption DEF IInv, TypeInv, Stored, EnvStaysOut
<1> QED
  BY <1>1, ConfigurationInvariant, PTL

\* The application is open just when start_scheduler has returned for the settings it lives
\* by: after a start that raised, setup is still to be had and no scheduler is left over. A
\* start that was refused the lease returns too, and opens it (settings.py, main.py).
THEOREM OpenIsStarted == Spec => []OpenMeansStarted
<1>1. IInv => OpenMeansStarted
  BY DEF IInv
<1> QED
  BY <1>1, ConfigurationInvariant, PTL

\* The settings form overwrites no value that stands on no form. The setup form overwrites
\* the key and, of what it does not show, only values that were put into the file behind
\* the back of the process: it saves what the process has held since it started.
THEOREM NothingUnseenIsLost == Spec => NoUnseenLoss
<1> DEFINE Seen ==
        \/ \E g \in Fields : EditFile(g)
        \/ \A f \in Fields : file'[f] # file[f] =>
              \/ open /\ \E t \in Tabs : tab[t] # None /\ tab[t][f] = file[f]
              \/ ~open /\ (f = Key \/ drift)
<1>1. ASSUME IInv, [Next]_vars PROVE [Seen]_vars
  <2>1. ASSUME NEW t \in Tabs, Submit(t) PROVE Seen
    BY <2>1 DEF Submit, SameRevision
  <2>2. ASSUME NEW v \in Visitors, NEW start \in Starts, Publish(v, start) PROVE Seen
    <3>1. ASSUME NEW f \in Fields, f # Key, ~drift PROVE file'[f] = file[f]
      <4>1. setup[v][f] = live[f] /\ live = Loaded(file, owned)
        BY <1>1, <2>2, <3>1 DEF IInv, SetupInv, LiveIsRestart, Publish
      <4>2. file' = Saved(file, setup[v])
        BY <2>2 DEF Publish
      <4> QED
        BY <4>1, <4>2 DEF Saved, Loaded
    <3>2. ~open
      BY <1>1, <2>2 DEF IInv, SetupInv, Publish
    <3> QED
      BY <3>1, <3>2
  <2>3. ASSUME file' = file PROVE Seen
    BY <2>3
  <2>4. ASSUME NEW f \in Fields, EditFile(f) PROVE Seen
    BY <2>4
  <2>5. ASSUME NEW t \in Tabs, OpenForm(t) \/ Refused(t) PROVE file' = file
    BY <2>5 DEF OpenForm, Refused
  <2>6. ASSUME NEW v \in Visitors, Post(v) \/ ProbeFails(v) PROVE file' = file
    BY <2>6 DEF Post, ProbeFails
  <2>7. Restart => file' = file
    BY DEF Restart
  <2> HIDE DEF Seen
  <2> QED
    BY <1>1, <2>1, <2>2, <2>3, <2>4, <2>5, <2>6, <2>7 DEF Next
<1> QED
  BY <1>1, ConfigurationInvariant, PTL DEF Spec, NoUnseenLoss
=============================================================================
