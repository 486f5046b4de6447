--------------------------- MODULE Configuration ---------------------------
(***************************************************************************)
(* The settings of the application: config.yml, the environment that       *)
(* outranks it, the copy the process lives by, and who changes them: the   *)
(* settings form in several browser tabs, the first-run setup, an editor.  *)
(*                                                                         *)
(* A field that the environment supplies belongs to it: it is read from    *)
(* it at every load, and no save writes it.  A save of the form is refused *)
(* unless the file is the one the form was rendered from.  The first-run   *)
(* setup holds a lock, probes the credentials, writes the file, starts the *)
(* scheduler, and only then opens the application.  A start that raises is *)
(* taken back; one that is refused the scheduler's lease is not noticed.   *)
(*                                                                         *)
(* A field is its value; None is a field nobody has set.  A save is atomic *)
(* for the file and for the one event loop it runs in.                     *)
(***************************************************************************)
EXTENDS Naturals

CONSTANTS
    Fields, Key,    \* the settings; the LLM key, without which the app is not configured
    Values, None,
    Env,            \* the value of a field in the environment
    Tabs,           \* browser tabs with the settings form
    Visitors,       \* submissions of the setup form
    MaxEdits        \* bound: edits of the file by hand, restarts, failures, saves

ASSUME ConfigAssumption == Key \in Fields /\ None \notin Values /\ Env \notin Values \union {None}

VARIABLES
    file,    \* config.yml
    owned,   \* env_owned_field_paths: fields the environment supplies
    live,    \* app.state.settings
    open,    \* ~setup_required
    scheduler, \* of this process: it "runs", was "refused" its lease, or there is "none"
    tab,     \* per tab: the file its form was rendered from, or None
    setup,   \* per visitor: the settings it will publish when its probe is over, or None
    drift,   \* history: the file was changed without the process taking it over
    edits

vars == <<file, owned, live, open, scheduler, tab, setup, drift, edits>>

Edit == edits < MaxEdits /\ edits' = edits + 1

-----------------------------------------------------------------------------
(* config.py *)

\* load_settings: the environment outranks the file.
Loaded(doc, env) == [f \in Fields |-> IF f \in env THEN Env ELSE doc[f]]

Configured(s) == s[Key] # None

\* Mutant: a cleared field stays.
ClearedKept(doc, s) ==
    [f \in Fields |-> IF f \in owned \/ s[f] = None THEN doc[f] ELSE s[f]]

\* save_settings_to_yaml: what the environment supplies is not written.
Saved(doc, s) == [f \in Fields |-> IF f \in owned THEN doc[f] ELSE s[f]]

\* strip_env_owned, and the merge that follows it.
Merged(submitted) == [f \in Fields |-> IF f \in owned THEN Env ELSE submitted[f]]

-----------------------------------------------------------------------------
(* The settings form *)

OpenForm(t) ==
    /\ open
    /\ tab' = [tab EXCEPT ![t] = file]
    /\ UNCHANGED <<file, owned, live, open, scheduler, setup, drift, edits>>

\* Mutant: the save goes through whatever was rendered.
AnyRevision(t) == TRUE
SameRevision(t) == tab[t] = file

\* A stale form is rendered again from the file (409).
Refused(t) ==
    /\ open /\ tab[t] # None /\ ~SameRevision(t)
    /\ tab' = [tab EXCEPT ![t] = file]
    /\ UNCHANGED <<file, owned, live, open, scheduler, setup, drift, edits>>

\* A blank key keeps the stored one; any other field may be cleared.
Submit(t) ==
    /\ open /\ tab[t] # None /\ SameRevision(t) /\ Edit
    /\ \E form \in [Fields -> Values \union {None}] :
        LET kept == [form EXCEPT ![Key] = IF @ = None THEN Loaded(file, owned)[Key] ELSE @]
        IN /\ file' = Saved(file, Merged(kept))
           /\ live' = Merged(kept)
    /\ tab' = [tab EXCEPT ![t] = file']
    /\ drift' = FALSE
    /\ UNCHANGED <<owned, open, scheduler, setup>>

-----------------------------------------------------------------------------
(* The first-run setup *)

\* The lock lets one submission probe at a time; an open application redirects.
\* The other settings are those the process holds.
Post(v) ==
    /\ ~open /\ \A u \in Visitors : setup[u] = None
    /\ \E k \in Values : setup' = [setup EXCEPT ![v] = Merged([live EXCEPT ![Key] = k])]
    /\ UNCHANGED <<file, owned, live, open, scheduler, tab, drift, edits>>

ProbeFails(v) ==
    /\ setup[v] # None
    /\ setup' = [setup EXCEPT ![v] = None]
    /\ UNCHANGED <<file, owned, live, open, scheduler, tab, drift, edits>>

\* What comes of start_scheduler: it runs; it returns None, because another process has
\* the lease or the lease file cannot be opened or locked; it raises.
Starts == {"runs", "refused", "raises"}

\* _publish_setup: when the start raises the settings are put back, the file stays, and
\* setup can be tried again; the application opens after any other start.
Publish(v, start) ==
    /\ setup[v] # None /\ (start = "raises" => edits < MaxEdits)
    /\ file' = Saved(file, setup[v])
    /\ IF start = "raises"
         THEN open' = FALSE /\ scheduler' = "none" /\ drift' = TRUE
              /\ edits' = edits + 1 /\ UNCHANGED live
         ELSE open' = TRUE /\ scheduler' = start /\ drift' = FALSE
              /\ live' = setup[v] /\ UNCHANGED edits
    /\ setup' = [setup EXCEPT ![v] = None]
    /\ UNCHANGED <<owned, tab>>

-----------------------------------------------------------------------------
(* The editor, and the process *)

EditFile(f) ==
    /\ Edit
    /\ \E v \in Values \union {None} : v # file[f] /\ file' = [file EXCEPT ![f] = v]
    /\ drift' = TRUE
    /\ UNCHANGED <<owned, live, open, scheduler, tab, setup>>

\* What the lifespan makes of its start: without a key the application is in setup, and
\* with one it is open, also when the scheduler is refused.  A start that raises ends the
\* process before it serves anything.
Boots(opens, sched) == IF opens THEN sched \in Starts \ {"raises"} ELSE sched = "none"

\* The process ends at any point between two saves and starts again, perhaps
\* with another environment; the tabs outlive it.
Restart ==
    /\ Edit
    /\ owned' \in SUBSET Fields
    /\ live' = Loaded(file, owned')
    /\ open' = Configured(live')
    /\ scheduler' \in Starts \union {"none"} /\ Boots(open', scheduler')
    /\ setup' = [v \in Visitors |-> None]
    /\ drift' = FALSE
    /\ UNCHANGED <<file, tab>>

Init ==
    /\ file \in [Fields -> Values \union {None}]
    /\ owned \in SUBSET Fields
    /\ live = Loaded(file, owned)
    /\ open = Configured(live)
    /\ scheduler \in Starts \union {"none"} /\ Boots(open, scheduler)
    /\ tab = [t \in Tabs |-> None] /\ setup = [v \in Visitors |-> None]
    /\ drift = FALSE /\ edits = 0

Next ==
    \/ \E t \in Tabs : OpenForm(t) \/ Refused(t) \/ Submit(t)
    \/ \E v \in Visitors : Post(v) \/ ProbeFails(v) \/ \E start \in Starts : Publish(v, start)
    \/ \E f \in Fields : EditFile(f)
    \/ Restart

Spec == Init /\ [][Next]_vars

-----------------------------------------------------------------------------
(* Properties *)

\* What the environment supplies is never written to the file, through forms,
\* setup, restarts and changes of the environment.
EnvStaysOut == \A f \in Fields : file[f] # Env

\* The settings the process lives by are those a restart would load, unless the
\* file was changed behind its back.
LiveIsRestart == ~drift => live = Loaded(file, owned)

\* The application is open just when a scheduler was started for the settings it lives by,
\* or was refused the lease: after a start that raised, setup is still to be had, and no
\* scheduler is left over.
OpenMeansStarted == open <=> scheduler \in {"runs", "refused"}

\* A save replaces no value that nobody was shown: the settings form one that is on some
\* form; setup the key, and other fields only if the file was changed behind the process's
\* back. What is edited by hand is the editor's.
NoUnseenLoss ==
    [][(\E g \in Fields : EditFile(g)) \/ \A f \in Fields :
         file'[f] # file[f] =>
           \/ open /\ \E t \in Tabs : tab[t] # None /\ tab[t][f] = file[f]
           \/ ~open /\ (f = Key \/ drift)]_vars

=============================================================================
