---------------------------- MODULE SchemaApply ----------------------------
(***************************************************************************)
(* How one `deploy` gets its schema into the database: the gate before      *)
(* anything ships, the new app on the box, and one execution of the         *)
(* sql-push extension, polled over a network that loses calls and replies   *)
(* (app/deploy_schema_gate.go, deploy_schema_push.go, extensionrun/run.go),  *)
(* up to what the user is told (app/command_deploy_outcome.go).  The        *)
(* extension runs on a server and does not stop when the CLI does.          *)
(***************************************************************************)
EXTENDS FiniteSets

VARIABLES
    scpc,    \* where the deploy is
    setup,   \* what it was asked to do, and of which database
    todo,    \* the statements that would bring the database to the model
    served,  \* the version of the app that runs: "old", "new", "none"
    push,    \* the execution of sql-push: status, plan, statements run
    gate,    \* schemaGateResult, with the answered steps of the poll loop
    verdict, \* what is reported: the outcome's state, and schemaRolledBack
    lost     \* did a statement of this deploy delete data

schemavars == <<scpc, setup, todo, served, push, gate, verdict, lost>>

\* "add" creates, "drop" deletes data that is in the database and not in the model.
Changes == {"add", "drop"}

\* before: is there a recorded database that pre-flight can diff.
\* atomic: Postgres, with nothing in the plan that refuses a transaction.
Setups == [before: {"none", "recorded"}, allow: {"no", "yes"}, app: {"no", "yes"},
           skip: {"no", "yes"}, atomic: {"no", "yes"}]

SchemaInit ==
    /\ scpc = "preflight"
    /\ setup \in Setups
    /\ todo \in {{"add"}, {"add", "drop"}} \cup
               (IF setup.before = "recorded" THEN SUBSET Changes ELSE {})
    /\ served = IF setup.before = "recorded" /\ setup.app = "yes" THEN "old" ELSE "none"
    /\ push = [status |-> "none", plan |-> {}, ran |-> {}]
    /\ gate = [plan |-> {}, blocked |-> "no", issued |-> "no", answered |-> "no"]
    /\ verdict = [state |-> "none", rolledBack |-> "no"]
    /\ lost = "no"

DatabaseSide == <<todo, served, push, lost>>

-----------------------------------------------------------------------------
(* Before anything ships *)

\* The gate on a re-deploy's diff, or a first deploy's script that does not render.
PreflightStops ==
    /\ scpc = "preflight" /\ setup.skip = "no"
    /\ IF setup.before = "recorded" THEN setup.allow = "no" /\ "drop" \in todo ELSE TRUE
    /\ scpc' = "stopped"
    /\ UNCHANGED <<setup, gate, verdict, DatabaseSide>>

\* No reason to stop, or the pre-flight could not be computed, which is no reason.
PreflightPasses ==
    /\ scpc = "preflight" /\ scpc' = "ship"
    /\ UNCHANGED <<setup, gate, verdict, DatabaseSide>>

\* The bootstrap restarts the app; publishing the catalog then sets the outcome
\* that a skipped apply leaves as it is.
Ship ==
    /\ scpc = "ship"
    /\ served' = IF setup.app = "yes" THEN "new" ELSE served
    /\ IF setup.skip = "yes" THEN scpc' = "over" /\ verdict' = [verdict EXCEPT !.state = "applied"]
                             ELSE scpc' = "start" /\ UNCHANGED verdict
    /\ UNCHANGED <<setup, todo, push, gate, lost>>

-----------------------------------------------------------------------------
(* The run of the extension, as the CLI sees it *)

\* errored: did Run return an error.
Classify(errored, g) ==
    /\ scpc' = "over"
    /\ LET state == IF ~errored THEN "applied"
                    ELSE IF g.blocked = "yes" THEN "blocked"
                    ELSE IF g.issued = "no" THEN "failed before SQL"
                    ELSE "failed during apply"
       IN  verdict' = [state |-> state,
               rolledBack |-> IF /\ state = "failed during apply" /\ g.plan # {}
                                 /\ setup.atomic = "yes" THEN "yes" ELSE "no"]

StartRun ==
    /\ scpc = "start" /\ scpc' = "poll"
    /\ push' = [push EXCEPT !.status = "diffing"]
    /\ UNCHANGED <<setup, todo, served, gate, verdict, lost>>

\* The extension is not found, or does not start, or starts and the reply is lost.
StartFails ==
    /\ scpc = "start" /\ Classify(TRUE, gate)
    /\ push' \in {push, [push EXCEPT !.status = "diffing"]}
    /\ UNCHANGED <<setup, todo, served, gate, lost>>

PollLost ==
    /\ scpc = "poll" /\ Classify(TRUE, gate)
    /\ UNCHANGED <<setup, gate, DatabaseSide>>

\* The execution has ended; a rejected step has ended it as "cancelled".
PollEnded ==
    /\ scpc = "poll" /\ push.status \in {"succeeded", "failed", "cancelled"}
    /\ Classify(push.status # "succeeded", gate)
    /\ UNCHANGED <<setup, gate, DatabaseSide>>

PollStep ==
    /\ scpc = "poll" /\ push.status = "waiting" /\ gate.answered = "no"
    /\ scpc' = "answer" /\ UNCHANGED <<setup, gate, verdict, DatabaseSide>>

\* decideSchemaApply.
Confirms(plan) == "drop" \notin plan \/ setup.allow = "yes"

\* Mutant of Decided: the gate before shipping is taken to have decided.
DecidedBefore ==
    [plan |-> push.plan, answered |-> "yes", blocked |-> "no", issued |-> "yes"]

\* Mutant of Decided: what was issued is noted once the answer is known to have arrived.
DecidedNotTracked ==
    [plan |-> push.plan, answered |-> "yes", issued |-> "no",
     blocked |-> IF Confirms(push.plan) THEN "no" ELSE "yes"]

\* The decider under `track`: the plan of the prompt, and what is answered to it.
Decided ==
    [plan |-> push.plan, answered |-> "yes",
     blocked |-> IF Confirms(push.plan) THEN "no" ELSE "yes",
     issued  |-> IF Confirms(push.plan) THEN "yes" ELSE "no"]

\* submitStep: the answer arrives or not, and its reply arrives or not.
Answer ==
    /\ scpc = "answer" /\ gate' = Decided
    /\ LET taken == [push EXCEPT !.status =
                        IF gate'.blocked = "no" THEN "running" ELSE "cancelled"]
       IN  \/ push' = taken /\ scpc' = "poll" /\ UNCHANGED verdict
           \/ push' \in {taken, push} /\ Classify(TRUE, gate')
    /\ UNCHANGED <<setup, todo, served, lost>>

-----------------------------------------------------------------------------
(* The extension, and other people *)

\* What it computes against the database as it is now.  An empty migration ends
\* the execution without a question.
PushDiffs ==
    /\ push.status = "diffing"
    /\ push' = [push EXCEPT !.plan = todo, !.status = IF todo = {} THEN "succeeded" ELSE "waiting"]
    /\ UNCHANGED <<scpc, setup, todo, served, gate, verdict, lost>>

PushFails ==
    /\ push.status \in {"diffing", "running"}
    /\ push' = [push EXCEPT !.status = "failed"]
    /\ UNCHANGED <<scpc, setup, todo, served, gate, verdict, lost>>

Execute(stmts) ==
    /\ todo' = todo \ stmts
    /\ lost' = IF "drop" \in stmts THEN "yes" ELSE lost
    /\ push' = [push EXCEPT !.ran = @ \cup stmts,
                            !.status = IF push.ran \cup stmts = push.plan THEN "succeeded" ELSE @]
    /\ UNCHANGED <<scpc, setup, served, gate, verdict>>

\* One transaction, or one statement at a time.
PushRuns ==
    /\ push.status = "running"
    /\ IF setup.atomic = "yes" THEN Execute(push.plan)
       ELSE \E s \in push.plan \ push.ran : Execute({s})

\* Somebody adds to the database by hand what the model does not have.
Drift ==
    /\ scpc \notin {"over", "stopped"} /\ setup.before = "recorded" /\ "drop" \notin todo
    /\ todo' = todo \cup {"drop"}
    /\ UNCHANGED <<scpc, setup, served, push, gate, verdict, lost>>

SchemaNext ==
    \/ PreflightStops \/ PreflightPasses \/ Ship
    \/ StartRun \/ StartFails \/ PollLost \/ PollEnded \/ PollStep \/ Answer
    \/ PushDiffs \/ PushFails \/ PushRuns \/ Drift

SchemaSpec == SchemaInit /\ [][SchemaNext]_schemavars

-----------------------------------------------------------------------------
(* Properties *)

SchemaTypeOK ==
    /\ scpc \in {"preflight", "stopped", "ship", "start", "poll", "answer", "over"}
    /\ setup \in Setups /\ todo \subseteq Changes
    /\ served \in {"none", "old", "new"} /\ lost \in {"no", "yes"}
    /\ push.plan \subseteq Changes /\ push.ran \subseteq push.plan
    /\ gate.plan \subseteq Changes

\* app/deploy_schema_gate.go:42-56: whatever the pre-flight could not compute and
\* whatever changed in the database since, data is deleted only by a deploy that
\* was given --allow-destructive, even after the CLI is gone.
LossIsAuthorized == lost = "yes" => setup.allow = "yes"

\* app/command_deploy_outcome.go:130-152: a deploy that says the database was
\* sent nothing (blocked, or failed before SQL) sent nothing and never will, and
\* one that says the schema was applied has seen all of the plan run.
SaysWhatRan ==
    /\ verdict.state \in {"blocked", "failed before SQL"} => push.status # "running" /\ push.ran = {}
    /\ verdict.state = "applied" /\ setup.skip = "no" => push.ran = push.plan /\ push.status = "succeeded"

-----------------------------------------------------------------------------
(* What messages say and the code does not do *)

\* app/command_deploy_outcome.go:151, "The app and database are unchanged and
\* consistent": the app of this deploy runs on a database that has its schema.
UnchangedIsConsistent ==
    verdict.state = "failed before SQL" /\ setup.before = "recorded" =>
        served # "new" \/ todo = {}

\* app/command_deploy_outcome.go:161, "the whole migration rolled back and the
\* database is as it was".
RolledBackIsTrue == verdict.rolledBack = "yes" => push.ran = {}
=============================================================================
