--------------------------- MODULE Outcome_proof ---------------------------
(***************************************************************************)
(* What a deploy leaves behind, whatever earlier runs left and whichever    *)
(* calls and replies are lost.  It deletes data only when it was allowed    *)
(* to, and says of the database what happened to it (SchemaApply); its      *)
(* cluster runs the code that it generated (K8sRelease), for any number of  *)
(* runs; its record keeps what is known of it (RecordStore), for any number *)
(* of terminals, commands and fields; what destroy says in the end is so    *)
(* (DestroyReport); and it says which step failed and resumes at the one    *)
(* that did not finish (DeployRun), for any number of runs.                 *)
(***************************************************************************)
EXTENDS SchemaApply, K8sRelease, RecordStore, DestroyReport, DeployRun, TLAPS

(* The schema *)


YesNo == {"yes", "no"}
Pushes == [status : {"none", "diffing", "waiting", "running", "succeeded", "failed", "cancelled"},
           plan : SUBSET Changes, ran : SUBSET Changes]
Gates == [plan : SUBSET Changes, blocked : YesNo, issued : YesNo, answered : YesNo]
Verdicts == [state : {"none", "applied", "blocked", "failed before SQL", "failed during apply"},
             rolledBack : YesNo]

SchemaTypes ==
    /\ setup \in Setups /\ todo \in SUBSET Changes /\ lost \in YesNo
    /\ push \in Pushes /\ gate \in Gates /\ verdict \in Verdicts

\* The execution asks once and waits for the answer; nothing runs before it.
AskedFirst ==
    /\ scpc \in {"preflight", "stopped", "ship", "start"} =>
           push.status = "none" /\ push.ran = {} /\ gate.answered = "no"
    /\ scpc = "answer" => push.status = "waiting"
    /\ push.status \in {"none", "diffing", "waiting", "cancelled"} => push.ran = {}
    /\ gate.answered = "no" => gate.issued = "no" /\ gate.blocked = "no"

\* What runs was issued, by a gate that its plan passes.
RunsWhatWasIssued ==
    /\ push.status = "running" \/ push.ran # {} => gate.issued = "yes" /\ gate.blocked = "no"
    /\ push.status = "running" => Confirms(push.plan)
    /\ push.status = "succeeded" => push.ran = push.plan

\* The verdict is that of the gate and of the execution when it was given.
VerdictOfGate ==
    /\ verdict.state = "blocked" => scpc = "over" /\ gate.blocked = "yes"
    /\ verdict.state = "failed before SQL" => scpc = "over" /\ gate.issued = "no"
    /\ verdict.state = "applied" /\ setup.skip = "no" => scpc = "over" /\ push.status = "succeeded"

SchemaInv == SchemaTypes /\ AskedFirst /\ RunsWhatWasIssued /\ VerdictOfGate /\ LossIsAuthorized

-----------------------------------------------------------------------------

\* Before the deploy starts, nothing has run.
LEMMA SchemaInitially == SchemaInit => SchemaInv
  <1> SUFFICES ASSUME SchemaInit PROVE SchemaInv
    OBVIOUS
  <1>1. SchemaTypes
    BY DEF SchemaInit, SchemaTypes, Setups, Changes, Pushes, Gates, Verdicts, YesNo
  <1>2. AskedFirst /\ RunsWhatWasIssued /\ VerdictOfGate /\ LossIsAuthorized
    BY DEF SchemaInit, AskedFirst, RunsWhatWasIssued, VerdictOfGate, LossIsAuthorized
  <1> QED  BY <1>1, <1>2 DEF SchemaInv

\* What Classify reports of a run that ended with an error, or without one.
LEMMA ClassifyIs ==
    ASSUME NEW errored \in BOOLEAN, NEW g, Classify(errored, g)
    PROVE  /\ scpc' = "over" /\ verdict' \in Verdicts
           /\ errored => verdict'.state # "applied"
           /\ ~errored => verdict'.state = "applied"
           /\ verdict'.state = "blocked" => g.blocked = "yes"
           /\ verdict'.state = "failed before SQL" => g.issued = "no"
  <1>1. PICK rolledBack \in YesNo :
          verdict' = [state |-> IF ~errored THEN "applied"
                                ELSE IF g.blocked = "yes" THEN "blocked"
                                ELSE IF g.issued = "no" THEN "failed before SQL"
                                ELSE "failed during apply",
                      rolledBack |-> rolledBack]
    BY DEF Classify, YesNo
  <1>2. scpc' = "over"
    BY DEF Classify
  <1>3. CASE errored = FALSE
    BY <1>1, <1>2, <1>3 DEF Verdicts
  <1>4. CASE errored = TRUE
    BY <1>1, <1>2, <1>4 DEF Verdicts
  <1> QED  BY <1>3, <1>4

\* Up to the start of the push, the database's side does not move.
LEMMA ShippingKeeps ==
    ASSUME SchemaInv, PreflightStops \/ PreflightPasses \/ Ship
    PROVE  SchemaInv'
  <1>1. /\ scpc \in {"preflight", "ship"} /\ scpc' \in {"stopped", "ship", "start", "over"}
        /\ setup' = setup /\ todo' = todo /\ push' = push /\ gate' = gate /\ lost' = lost
    BY DEF PreflightStops, PreflightPasses, Ship, DatabaseSide
  <1>2. \/ verdict' = verdict
        \/ /\ scpc' = "over" /\ setup.skip = "yes"
           /\ verdict' = [verdict EXCEPT !.state = "applied"]
    BY DEF PreflightStops, PreflightPasses, Ship
  <1>3. SchemaTypes'
    BY <1>1, <1>2 DEF SchemaInv, SchemaTypes, Verdicts
  <1>4. verdict'.state \in {verdict.state, "applied"} /\
        (verdict'.state # verdict.state => setup.skip = "yes")
    BY <1>2 DEF SchemaInv, SchemaTypes, Verdicts
  <1>5. AskedFirst' /\ RunsWhatWasIssued' /\ LossIsAuthorized'
    BY <1>1 DEF SchemaInv, AskedFirst, RunsWhatWasIssued, LossIsAuthorized, Confirms
  <1>6. VerdictOfGate'
    BY <1>1, <1>4 DEF SchemaInv, VerdictOfGate
  <1> QED  BY <1>3, <1>5, <1>6 DEF SchemaInv

\* The CLI starts the run, polls it, or loses sight of it.
LEMMA PollingKeeps ==
    ASSUME SchemaInv, StartRun \/ StartFails \/ PollLost \/ PollEnded \/ PollStep
    PROVE  SchemaInv'
  <1>1. setup' = setup /\ todo' = todo /\ gate' = gate /\ lost' = lost
    BY DEF StartRun, StartFails, PollLost, PollEnded, PollStep, DatabaseSide
  <1>2. \/ push' = push
        \/ scpc = "start" /\ push' = [push EXCEPT !.status = "diffing"]
    BY DEF StartRun, StartFails, PollLost, PollEnded, PollStep, DatabaseSide
  <1>3. push' \in Pushes
    BY <1>2 DEF SchemaInv, SchemaTypes, Pushes
  <1>4. \/ push'.status = push.status /\ push'.ran = push.ran /\ push'.plan = push.plan
        \/ push'.status = "diffing" /\ push'.ran = {} /\ push.status = "none"
    BY <1>2 DEF SchemaInv, SchemaTypes, Pushes, AskedFirst
  <1>5. CASE StartRun \/ PollStep
    <2>1. /\ verdict' = verdict /\ scpc' \in {"poll", "answer"} /\ scpc # "over"
          /\ scpc' = "answer" => push'.status = "waiting"
      BY <1>5 DEF StartRun, PollStep, DatabaseSide
    <2>2. SchemaTypes'
      BY <1>1, <1>3, <2>1 DEF SchemaInv, SchemaTypes
    <2>3. AskedFirst' /\ RunsWhatWasIssued' /\ LossIsAuthorized'
      BY <1>1, <1>4, <2>1 DEF SchemaInv, AskedFirst, RunsWhatWasIssued, LossIsAuthorized, Confirms
    <2>4. VerdictOfGate'
      BY <1>1, <1>4, <2>1 DEF SchemaInv, VerdictOfGate
    <2> QED  BY <2>2, <2>3, <2>4 DEF SchemaInv
  <1>6. ASSUME NEW errored \in BOOLEAN, Classify(errored, gate), ~errored => push'.status = "succeeded"
        PROVE  SchemaInv'
    <2>1. /\ scpc' = "over" /\ verdict' \in Verdicts
          /\ errored => verdict'.state # "applied"
          /\ ~errored => verdict'.state = "applied"
          /\ verdict'.state = "blocked" => gate.blocked = "yes"
          /\ verdict'.state = "failed before SQL" => gate.issued = "no"
      BY <1>6, ClassifyIs
    <2>2. SchemaTypes'
      BY <1>1, <1>3, <2>1 DEF SchemaInv, SchemaTypes
    <2>3. AskedFirst' /\ RunsWhatWasIssued' /\ LossIsAuthorized'
      BY <1>1, <1>4, <2>1 DEF SchemaInv, AskedFirst, RunsWhatWasIssued, LossIsAuthorized, Confirms
    <2>4. VerdictOfGate'
      BY <1>1, <1>6, <2>1 DEF VerdictOfGate
    <2> QED  BY <2>2, <2>3, <2>4 DEF SchemaInv
  <1>7. CASE StartFails \/ PollLost
    BY <1>6, <1>7 DEF StartFails, PollLost
  <1>8. CASE PollEnded
    <2>1. push' = push
      BY <1>8 DEF PollEnded, DatabaseSide
    <2> QED  BY <1>6, <1>8, <2>1 DEF PollEnded
  <1> QED  BY <1>5, <1>7, <1>8

\* The answer to the plan, and the plan's execution when the answer arrives.
LEMMA AnswerKeeps == ASSUME SchemaInv, Answer PROVE SchemaInv'
  <1>1. /\ setup' = setup /\ todo' = todo /\ lost' = lost /\ gate' = Decided
        /\ scpc = "answer" /\ push.status = "waiting" /\ push.ran = {}
    BY DEF Answer, SchemaInv, AskedFirst
  <1>2. /\ gate' \in Gates /\ gate'.answered = "yes"
        /\ gate'.blocked = "no" => gate'.issued = "yes" /\ Confirms(push.plan)
        /\ gate'.issued = "no" => gate'.blocked = "yes"
    BY <1>1 DEF Decided, Gates, YesNo, SchemaInv, SchemaTypes, Pushes
  <1>3. \/ push' = push
        \/ push' = [push EXCEPT !.status = IF gate'.blocked = "no" THEN "running" ELSE "cancelled"]
    BY DEF Answer
  <1>4. /\ push' \in Pushes /\ push'.ran = {} /\ push'.plan = push.plan
        /\ push'.status \in {"waiting", "running", "cancelled"}
        /\ push'.status = "running" => gate'.blocked = "no"
    BY <1>1, <1>3 DEF SchemaInv, SchemaTypes, Pushes
  <1>5. \/ scpc' = "poll" /\ verdict' = verdict
        \/ Classify(TRUE, gate')
    BY DEF Answer
  <1>6. /\ scpc' \in {"poll", "over"} /\ verdict' \in Verdicts
        /\ scpc' = "poll" => verdict' = verdict
        /\ scpc' = "over" => /\ verdict'.state # "applied"
                             /\ verdict'.state = "blocked" => gate'.blocked = "yes"
                             /\ verdict'.state = "failed before SQL" => gate'.issued = "no"
    <2>1. CASE scpc' = "poll" /\ verdict' = verdict
      BY <2>1 DEF SchemaInv, SchemaTypes
    <2>2. CASE Classify(TRUE, gate')
      BY <2>2, ClassifyIs
    <2> QED  BY <1>5, <2>1, <2>2
  <1>7. SchemaTypes'
    BY <1>1, <1>2, <1>4, <1>6 DEF SchemaInv, SchemaTypes
  <1>8. AskedFirst' /\ LossIsAuthorized'
    BY <1>1, <1>2, <1>4, <1>6 DEF SchemaInv, AskedFirst, LossIsAuthorized
  <1>9. RunsWhatWasIssued'
    <2>1. Confirms(push.plan) => Confirms(push.plan)'
      BY <1>1, <1>4 DEF Confirms
    <2> QED  BY <1>2, <1>4, <2>1 DEF RunsWhatWasIssued
  <1>10. VerdictOfGate'
    BY <1>1, <1>6 DEF SchemaInv, VerdictOfGate
  <1> QED  BY <1>7, <1>8, <1>9, <1>10 DEF SchemaInv

\* The extension computes its plan, or fails; other people change the database.
LEMMA DiffingKeeps ==
    ASSUME SchemaInv, PushDiffs \/ PushFails \/ Drift
    PROVE  SchemaInv'
  <1>1. /\ scpc' = scpc /\ setup' = setup /\ gate' = gate /\ verdict' = verdict /\ lost' = lost
        /\ todo' \in SUBSET Changes
    BY DEF PushDiffs, PushFails, Drift, Changes, SchemaInv, SchemaTypes
  <1>2. \/ push' = push
        \/ /\ push.status = "diffing"
           /\ push' = [push EXCEPT !.plan = todo,
                                   !.status = IF todo = {} THEN "succeeded" ELSE "waiting"]
        \/ push.status \in {"diffing", "running"} /\ push' = [push EXCEPT !.status = "failed"]
    BY DEF PushDiffs, PushFails, Drift
  <1>3. push' \in Pushes /\ push'.ran = push.ran
    BY <1>2 DEF SchemaInv, SchemaTypes, Pushes
  <1>4. \/ push' = push
        \/ /\ push.status = "diffing" /\ push'.plan = todo
           /\ push'.status = IF todo = {} THEN "succeeded" ELSE "waiting"
        \/ push.status \in {"diffing", "running"} /\ push'.status = "failed"
    BY <1>2 DEF SchemaInv, SchemaTypes, Pushes
  <1>5. SchemaTypes'
    BY <1>1, <1>3 DEF SchemaInv, SchemaTypes
  <1>6. AskedFirst' /\ LossIsAuthorized'
    BY <1>1, <1>3, <1>4 DEF SchemaInv, AskedFirst, LossIsAuthorized
  <1>7. RunsWhatWasIssued'
    BY <1>1, <1>3, <1>4 DEF SchemaInv, AskedFirst, RunsWhatWasIssued, Confirms
  <1>8. VerdictOfGate'
    BY <1>1, <1>4 DEF SchemaInv, VerdictOfGate
  <1> QED  BY <1>5, <1>6, <1>7, <1>8 DEF SchemaInv

\* The extension runs statements of the plan that was confirmed.
LEMMA PushRunsKeeps == ASSUME SchemaInv, PushRuns PROVE SchemaInv'
  <1>1. PICK stmts \in SUBSET push.plan : Execute(stmts) /\ push.status = "running"
    <2>1. CASE setup.atomic = "yes"
      BY <2>1 DEF PushRuns
    <2>2. CASE setup.atomic # "yes"
      <3>1. PICK s \in push.plan \ push.ran : Execute({s}) /\ push.status = "running"
        BY <2>2 DEF PushRuns
      <3> QED  BY <3>1
    <2> QED  BY <2>1, <2>2
  <1>2. /\ scpc' = scpc /\ setup' = setup /\ gate' = gate /\ verdict' = verdict
        /\ todo' = todo \ stmts /\ lost' = IF "drop" \in stmts THEN "yes" ELSE lost
        /\ push' = [push EXCEPT !.ran = @ \cup stmts,
                      !.status = IF push.ran \cup stmts = push.plan THEN "succeeded" ELSE @]
    BY <1>1 DEF Execute
  <1>3. /\ push' \in Pushes /\ push'.plan = push.plan /\ push'.ran = push.ran \cup stmts
        /\ push'.status = IF push.ran \cup stmts = push.plan THEN "succeeded" ELSE "running"
    BY <1>1, <1>2 DEF SchemaInv, SchemaTypes, Pushes
  <1>4. Confirms(push.plan) /\ gate.issued = "yes" /\ gate.blocked = "no"
    BY <1>1 DEF SchemaInv, RunsWhatWasIssued
  <1>5. SchemaTypes'
    BY <1>2, <1>3 DEF SchemaInv, SchemaTypes, YesNo
  <1>6. AskedFirst'
    BY <1>1, <1>2, <1>3 DEF SchemaInv, AskedFirst
  <1>7. RunsWhatWasIssued'
    BY <1>1, <1>2, <1>3, <1>4 DEF RunsWhatWasIssued, Confirms
  <1>8. VerdictOfGate'
    BY <1>1, <1>2 DEF SchemaInv, VerdictOfGate
  <1>9. LossIsAuthorized'
    BY <1>1, <1>2, <1>4 DEF SchemaInv, LossIsAuthorized, Confirms
  <1> QED  BY <1>5, <1>6, <1>7, <1>8, <1>9 DEF SchemaInv

\* The invariant is inductive.
LEMMA SchemaInductive == SchemaInv /\ [SchemaNext]_schemavars => SchemaInv'
  <1> SUFFICES ASSUME SchemaInv, [SchemaNext]_schemavars PROVE SchemaInv'
    OBVIOUS
  <1>1. CASE SchemaNext
    BY <1>1, ShippingKeeps, PollingKeeps, AnswerKeeps, DiffingKeeps, PushRunsKeeps DEF SchemaNext
  <1>2. CASE UNCHANGED schemavars
    BY <1>2 DEF schemavars, SchemaInv, SchemaTypes, AskedFirst, RunsWhatWasIssued, VerdictOfGate,
       LossIsAuthorized, Confirms
  <1> QED  BY <1>1, <1>2

\* Whatever drifted since the pre-flight, and whichever replies were lost: data
\* is deleted only by a deploy that was given --allow-destructive, even when the
\* extension goes on after the CLI has gone (decideSchemaApply).
THEOREM LossIsAlwaysAuthorized == SchemaSpec => []LossIsAuthorized
  <1>1. SchemaInv => LossIsAuthorized
    BY DEF SchemaInv
  <1> QED  BY <1>1, SchemaInitially, SchemaInductive, PTL DEF SchemaSpec

\* A deploy that reports that the database was sent nothing sent nothing and
\* never will; one that reports the schema applied has seen all of it run
\* (deploySchemaState, track).
THEOREM AlwaysSaysWhatRan == SchemaSpec => []SaysWhatRan
  <1>1. SchemaInv => SaysWhatRan
    BY DEF SchemaInv, RunsWhatWasIssued, VerdictOfGate, SaysWhatRan, SchemaTypes, Gates, YesNo
  <1> QED  BY <1>1, SchemaInitially, SchemaInductive, PTL DEF SchemaSpec

-----------------------------------------------------------------------------
(* A Kubernetes release *)

Releases == [image : Nat, chart : Nat]
Trees == [code : Nat, chart : Nat]
K8sRuns == [flags : SUBSET {"no-wait", "no-commit", "release-only"}, prior : Releases, code : Nat,
            chart : Nat, sha : Nat, image : Nat, hosts : SUBSET Hosts, polls : Nat, blind : YesNo]

\* A run that commits what it generates.
Committing == k8run.flags \subseteq {"no-wait"}

K8sTypes ==
    /\ k8pc \in {"idle", "stamp", "commit", "push", "head", "ci", "image", "helm", "record",
                 "done", "failed"}
    /\ k8runs \in Nat /\ k8run \in K8sRuns /\ tree \in Trees /\ k8rec \in Releases
    /\ commits \in Seq(Trees) /\ Len(commits) # 0

\* The workspace is what the run generated, and then what it stamped.
TreeOfRun ==
    /\ k8pc # "idle" => tree.code = k8run.code
    /\ k8pc \notin {"idle", "stamp"} => tree.chart = k8run.chart

\* The commit and the image are the workspace's, and so is what helm installed.
CommitOfRun ==
    /\ k8pc = "push" => commits[Len(commits)] = tree
    /\ k8pc \in {"ci", "image", "helm", "record", "done"} =>
           k8run.sha \in 1..Len(commits) /\ commits[k8run.sha] = tree
    /\ k8pc \in {"helm", "record", "done"} => k8run.image = k8run.sha
    /\ k8pc \in {"record", "done"} => live.image = k8run.sha /\ live.chart = tree.chart

K8sInv ==
    /\ K8sTypes
    /\ Committing => k8pc # "head" /\ TreeOfRun /\ CommitOfRun

\* A workspace without a chart or a commit of nuzur's.
LEMMA K8sInitially == K8sInit => K8sInv
  <1> SUFFICES ASSUME K8sInit PROVE K8sInv
    OBVIOUS
  <1>1. k8run \in K8sRuns /\ tree \in Trees /\ k8rec \in Releases
    BY DEF K8sInit, NoK8sRun, K8sRuns, Trees, Releases, NoImage, YesNo
  <1>2. commits \in Seq(Trees) /\ Len(commits) = 1
    BY <1>1 DEF K8sInit
  <1> QED  BY <1>1, <1>2 DEF K8sInit, K8sInv, K8sTypes, TreeOfRun, CommitOfRun

\* A run that commits goes on with its run's flags, and has seen no other code.
LEMMA BeginK8sKeeps == ASSUME K8sInv, BeginK8s PROVE K8sInv'
  <1>1. PICK opts \in K8sFlags, hosts \in SUBSET Hosts, new \in {tree.code, k8runs + 1} :
          /\ k8run' = [NoK8sRun EXCEPT !.flags = opts, !.prior = k8rec, !.code = new, !.hosts = hosts]
          /\ IF "release-only" \in opts
             THEN k8pc' = "image" /\ tree' = tree
             ELSE k8pc' = "stamp" /\ tree' = [code |-> new, chart |-> 0]
    BY DEF BeginK8s, To
  <1>2. /\ k8runs' = k8runs + 1 /\ commits' = commits /\ k8rec' = k8rec
    BY DEF BeginK8s
  <1>3. new \in Nat
    BY DEF K8sInv, K8sTypes, Trees
  <1>4. k8run' \in K8sRuns /\ k8run'.flags = opts /\ k8run'.code = new
    BY <1>1, <1>3 DEF K8sInv, K8sTypes, NoK8sRun, K8sRuns, K8sFlags, NoImage, YesNo
  <1>5. tree' \in Trees
    BY <1>1, <1>3 DEF K8sInv, K8sTypes, Trees
  <1>6. K8sTypes'
    BY <1>1, <1>2, <1>4, <1>5 DEF K8sInv, K8sTypes
  <1>7. Committing' => k8pc' = "stamp" /\ tree'.code = new
    BY <1>1, <1>4 DEF Committing
  <1> QED  BY <1>4, <1>6, <1>7 DEF K8sInv, TreeOfRun, CommitOfRun

\* The chart is stamped, and committed unless the commit was forbidden.
LEMMA StampKeeps == ASSUME K8sInv, Stamp PROVE K8sInv'
  <1> DEFINE prior == IF k8run.prior.chart # 0 THEN k8run.prior.chart ELSE tree.chart
  <1>1. /\ k8run' = [k8run EXCEPT !.chart = prior + 1] /\ tree' = [tree EXCEPT !.chart = prior + 1]
        /\ k8pc' = IF Has("no-commit") THEN (IF Has("no-wait") THEN "image" ELSE "head") ELSE "commit"
        /\ k8pc = "stamp" /\ k8runs' = k8runs /\ commits' = commits /\ k8rec' = k8rec
    BY DEF Stamp, To, KeepCluster, NextChartVersion
  <1>2. prior \in Nat
    BY DEF K8sInv, K8sTypes, K8sRuns, Releases, Trees
  <1>3. /\ k8run' \in K8sRuns /\ k8run'.flags = k8run.flags /\ k8run'.code = k8run.code
        /\ k8run'.chart = prior + 1
    BY <1>1, <1>2 DEF K8sInv, K8sTypes, K8sRuns
  <1>4. tree' \in Trees /\ tree'.code = tree.code /\ tree'.chart = prior + 1
    BY <1>1, <1>2 DEF K8sInv, K8sTypes, Trees
  <1>5. K8sTypes'
    BY <1>1, <1>3, <1>4 DEF K8sInv, K8sTypes
  <1>6. Committing' => Committing /\ k8pc' = "commit"
    BY <1>1, <1>3 DEF Committing, Has
  <1>7. Committing' => TreeOfRun' /\ CommitOfRun'
    BY <1>1, <1>3, <1>4, <1>6 DEF K8sInv, TreeOfRun, CommitOfRun
  <1> QED  BY <1>5, <1>6, <1>7 DEF K8sInv

\* The run finds its commit: it makes and pushes one, HEAD has the tree already,
\* or HEAD is all that --no-commit allows.
LEMMA CommitKeeps ==
    ASSUME K8sInv, CommitTree \/ NoChanges \/ Push \/ TakeHead
    PROVE  K8sInv'
  <1>0. k8runs' = k8runs /\ k8rec' = k8rec /\ tree' = tree
    BY DEF CommitTree, NoChanges, Push, TakeHead, KeepCluster
  <1>t. Len(commits) \in Nat \ {0}
    BY DEF K8sInv, K8sTypes
  <1>1. CASE CommitTree
    <2>1. k8pc = "commit" /\ k8pc' = "push" /\ k8run' = k8run /\ commits' = Append(commits, tree)
      BY <1>1 DEF CommitTree, To
    <2>2. /\ commits' \in Seq(Trees) /\ Len(commits') = Len(commits) + 1
          /\ commits'[Len(commits')] = tree
      BY <2>1, <1>t DEF K8sInv, K8sTypes
    <2>3. K8sTypes'
      BY <1>0, <1>t, <2>1, <2>2 DEF K8sInv, K8sTypes
    <2> QED  BY <1>0, <2>1, <2>2, <2>3 DEF K8sInv, Committing, TreeOfRun, CommitOfRun
  <1>2. CASE NoChanges \/ Push
    <2>1. /\ k8pc \in {"commit", "push"} /\ k8pc' = AfterCommit /\ commits' = commits
          /\ k8run' = [k8run EXCEPT !.sha = Len(commits)]
          /\ k8pc = "commit" => ~HasChanges
      BY <1>2 DEF NoChanges, Push, To
    <2>2. /\ k8run' \in K8sRuns /\ k8run'.sha = Len(commits) /\ k8run'.flags = k8run.flags
          /\ k8run'.code = k8run.code /\ k8run'.chart = k8run.chart
      BY <2>1, <1>t DEF K8sInv, K8sTypes, K8sRuns
    <2>3. k8pc' \in {"ci", "image"}
      BY <2>1 DEF AfterCommit
    <2>4. K8sTypes'
      BY <1>0, <2>1, <2>2, <2>3 DEF K8sInv, K8sTypes
    <2>5. Committing => commits[Len(commits)] = tree
      BY <2>1 DEF HasChanges, K8sInv, CommitOfRun
    <2>6. Committing' => Committing /\ TreeOfRun' /\ CommitOfRun'
      BY <1>0, <1>t, <2>1, <2>2, <2>3, <2>5 DEF K8sInv, Committing, TreeOfRun, CommitOfRun
    <2> QED  BY <2>3, <2>4, <2>6 DEF K8sInv
  <1>3. CASE TakeHead
    <2>1. /\ k8pc = "head" /\ k8pc' \in {"ci", "failed"} /\ commits' = commits
          /\ k8run' \in {k8run, [k8run EXCEPT !.sha = Len(commits)]}
      BY <1>3 DEF TakeHead, To
    <2>2. k8run' \in K8sRuns /\ k8run'.flags = k8run.flags
      BY <2>1, <1>t DEF K8sInv, K8sTypes, K8sRuns
    <2>3. K8sTypes' /\ ~Committing'
      BY <1>0, <2>1, <2>2 DEF K8sInv, K8sTypes, Committing
    <2> QED  BY <2>3 DEF K8sInv
  <1> QED  BY <1>1, <1>2, <1>3

\* The run waits for its image and names it.
LEMMA ImageKeeps == ASSUME K8sInv, Poll \/ ResolveImage PROVE K8sInv'
  <1>0. /\ k8runs' = k8runs /\ k8rec' = k8rec /\ tree' = tree /\ commits' = commits /\ live' = live
    BY DEF Poll, ResolveImage, KeepCluster
  <1>1. CASE Poll
    <2>1. /\ k8pc = "ci" /\ k8pc' \in {"ci", "image", "failed"}
          /\ k8run' \in {k8run, [k8run EXCEPT !.polls = @ + 1]}
      <3>1. CASE ci[k8run.sha] = "success"
        BY <1>1, <3>1 DEF Poll, To
      <3>2. CASE ci[k8run.sha] = "failure"
        BY <1>1, <3>2 DEF Poll, To
      <3>3. CASE ci[k8run.sha] \notin {"success", "failure"}
        BY <1>1, <3>3 DEF Poll, To
      <3> QED  BY <3>1, <3>2, <3>3
    <2>2. /\ k8run' \in K8sRuns /\ k8run'.sha = k8run.sha /\ k8run'.flags = k8run.flags
          /\ k8run'.code = k8run.code /\ k8run'.chart = k8run.chart
      BY <2>1 DEF K8sInv, K8sTypes, K8sRuns
    <2>3. K8sTypes'
      BY <1>0, <2>1, <2>2 DEF K8sInv, K8sTypes
    <2> QED  BY <1>0, <2>1, <2>2, <2>3 DEF K8sInv, Committing, TreeOfRun, CommitOfRun
  <1>2. CASE ResolveImage
    <2> DEFINE image == IF Has("release-only") THEN k8run.prior.image ELSE k8run.sha
               chart == IF Has("release-only") THEN k8run.prior.chart ELSE k8run.chart
    <2>1. /\ k8pc = "image"
          /\ \/ k8pc' = "failed" /\ k8run' = k8run
             \/ k8pc' = "helm" /\ k8run' = [k8run EXCEPT !.image = image, !.chart = chart]
      BY <1>2 DEF ResolveImage, To
    <2>2. image \in Nat /\ chart \in Nat
      BY DEF K8sInv, K8sTypes, K8sRuns, Releases
    <2>3. /\ k8run' \in K8sRuns /\ k8run'.sha = k8run.sha /\ k8run'.flags = k8run.flags
          /\ k8run'.code = k8run.code
          /\ k8pc' = "helm" => k8run'.image = image /\ k8run'.chart = chart
          /\ k8pc' = "failed" => k8run' = k8run
      BY <2>1, <2>2 DEF K8sInv, K8sTypes, K8sRuns
    <2>4. Committing => image = k8run.sha /\ chart = k8run.chart
      BY DEF Committing, Has
    <2>5. K8sTypes'
      BY <1>0, <2>1, <2>3 DEF K8sInv, K8sTypes
    <2> HIDE DEF image, chart
    <2> QED  BY <1>0, <2>1, <2>3, <2>4, <2>5 DEF K8sInv, Committing, TreeOfRun, CommitOfRun
  <1> QED  BY <1>1, <1>2

\* helm installs what is in the workspace, and the run records it.
LEMMA ReleaseKeeps == ASSUME K8sInv, Helm \/ Record PROVE K8sInv'
  <1>0. k8runs' = k8runs /\ tree' = tree /\ commits' = commits
    BY DEF Helm, Record, KeepCluster
  <1>1. CASE Helm
    <2>1. PICK blind \in {"yes", "no"} :
            /\ k8run' = [k8run EXCEPT !.blind = blind]
            /\ \/ k8pc' = "failed"
               \/ /\ k8pc' = "record"
                  /\ live' = [image |-> k8run.image, chart |-> tree.chart, hosts |-> k8run.hosts]
      BY <1>1 DEF Helm, To
    <2>2. k8pc = "helm" /\ k8rec' = k8rec
      BY <1>1 DEF Helm
    <2>3. /\ k8run' \in K8sRuns /\ k8run'.sha = k8run.sha /\ k8run'.flags = k8run.flags
          /\ k8run'.code = k8run.code /\ k8run'.chart = k8run.chart /\ k8run'.image = k8run.image
      BY <2>1 DEF K8sInv, K8sTypes, K8sRuns, YesNo
    <2>4. K8sTypes'
      BY <1>0, <2>1, <2>2, <2>3 DEF K8sInv, K8sTypes
    <2> QED  BY <1>0, <2>1, <2>2, <2>3, <2>4 DEF K8sInv, Committing, TreeOfRun, CommitOfRun
  <1>2. CASE Record
    <2>1. /\ k8pc = "record" /\ k8pc' = "done" /\ k8run' = k8run /\ live' = live
          /\ k8rec' = [image |-> k8run.image, chart |-> k8run.chart]
      BY <1>2 DEF Record, To, KeepCluster
    <2>2. k8rec' \in Releases
      BY <2>1 DEF K8sInv, K8sTypes, K8sRuns, Releases
    <2>3. K8sTypes'
      BY <1>0, <2>1, <2>2 DEF K8sInv, K8sTypes
    <2> QED  BY <1>0, <2>1, <2>3 DEF K8sInv, Committing, TreeOfRun, CommitOfRun
  <1> QED  BY <1>1, <1>2

\* The invariant is inductive.
LEMMA K8sInductive == K8sInv /\ [K8sNext]_k8vars => K8sInv'
  <1> SUFFICES ASSUME K8sInv, [K8sNext]_k8vars PROVE K8sInv'
    OBVIOUS
  <1>1. CASE CIBuilds \/ UNCHANGED k8vars
    BY <1>1 DEF CIBuilds, k8vars, K8sInv, K8sTypes, Committing, TreeOfRun, CommitOfRun
  <1>2. CASE K8sEnds
    <2>1. /\ k8pc' = "idle" /\ k8run' = NoK8sRun /\ k8runs' = k8runs /\ tree' = tree
          /\ commits' = commits /\ k8rec' = k8rec
      BY <1>2 DEF K8sEnds, To, KeepCluster
    <2>2. NoK8sRun \in K8sRuns
      BY DEF NoK8sRun, K8sRuns, Releases, NoImage, YesNo
    <2> QED  BY <2>1, <2>2 DEF K8sInv, K8sTypes, TreeOfRun, CommitOfRun
  <1> QED
    BY <1>1, <1>2, BeginK8sKeeps, StampKeeps, CommitKeeps, ImageKeeps, ReleaseKeeps DEF K8sNext

\* Whatever earlier runs left in the workspace, committed without pushing or
\* failed to release, and for any number of runs: a deploy that commits and runs
\* to its end leaves the cluster with the code it generated and the chart it
\* stamped (stepK8sCommitPush, stepK8sResolveImage).
THEOREM AlwaysDeploysWhatItGenerated == K8sSpec => []DeploysWhatItGenerated
  <1>1. K8sInv => DeploysWhatItGenerated
    <2> SUFFICES ASSUME K8sInv, k8pc = "done", Committing PROVE
                   commits[live.image] = [code |-> k8run.code, chart |-> k8run.chart]
                     /\ live.chart = k8run.chart
      BY DEF DeploysWhatItGenerated, Committing
    <2>1. tree = [code |-> k8run.code, chart |-> k8run.chart]
      BY DEF K8sInv, K8sTypes, Trees, TreeOfRun
    <2> QED  BY <2>1 DEF K8sInv, TreeOfRun, CommitOfRun
  <1> QED  BY <1>1, K8sInitially, K8sInductive, PTL DEF K8sSpec

-----------------------------------------------------------------------------
(* The record *)

OpPcs == {"idle", "open", "write", "rename", "clean up", "remove"}

Ops == [pc : OpPcs, field : Fields \cup {"none"}, rec : SUBSET Fields, fd : Files \cup {0}]

StoreTypeOK ==
    /\ recFile \in Files \cup {0} /\ tmpFile \in Files \cup {0}
    /\ inodes \in [Files -> (SUBSET Fields) \cup {TornRecord}]
    /\ store \in [Writers -> Ops]
    /\ broken \in {"yes", "no"}

\* Nobody touches a record that nobody could read.
BrokenIsLeft ==
    broken = "yes" => recFile = 1 /\ inodes[1] = TornRecord /\ \A t \in Writers : StoreAt(t, "idle")

OneMutator == \A t, u \in Writers : Mutating(t) /\ Mutating(u) => t = u

RecordWhole ==
    broken = "no" /\ recFile # 0 => inodes[recFile] # TornRecord /\ known \subseteq inodes[recFile]

NothingKnownOfNothing == recFile = 0 => known = {}

TmpIsApart == tmpFile # 0 => tmpFile # recFile

\* A mutation's copy has what is known, and its own file is the temporary one.
CopyIsCurrent ==
    \A t \in Writers :
        /\ store[t].pc \in {"open", "write", "rename"} =>
               known \subseteq store[t].rec /\ store[t].field \in store[t].rec
        /\ StoreAt(t, "write") => tmpFile = store[t].fd /\ tmpFile # 0
                                  /\ inodes[tmpFile] = TornRecord
        /\ StoreAt(t, "rename") => tmpFile = store[t].fd /\ tmpFile # 0
                                   /\ inodes[tmpFile] = store[t].rec

\* What holds as long as no two mutations ran at once.
Ordered ==
    /\ OneMutator /\ RecordWhole /\ NothingKnownOfNothing /\ TmpIsApart /\ CopyIsCurrent

StoreInv == StoreTypeOK /\ BrokenIsLeft /\ (overlapped = "no" => Ordered)

-----------------------------------------------------------------------------

\* A record with fields is no part of one (MutateDeployment can tell them apart).
LEMMA WholeIsNotTorn == \A r \in SUBSET Fields : r # TornRecord
  BY StoreAssumption DEF TornRecord

\* The first file is one.
LEMMA FirstFile == 1 \in Files /\ 0 \notin Files
  BY StoreAssumption DEF Files

\* The initial records satisfy the invariant.
LEMMA StoreInitially == StoreInit => StoreInv
  <1> SUFFICES ASSUME StoreInit PROVE StoreInv
    OBVIOUS
  <1>1. PICK found \in {"missing", "whole", "torn"} :
          /\ recFile = IF found = "missing" THEN 0 ELSE 1
          /\ inodes = [n \in Files |-> IF n = 1 /\ found = "whole" THEN {} ELSE TornRecord]
          /\ broken = IF found = "torn" THEN "yes" ELSE "no"
    BY DEF StoreInit
  <1>2. \A t \in Writers : store[t] = IdleOp
    BY DEF StoreInit
  <1>3. StoreTypeOK
    BY <1>1, FirstFile DEF StoreTypeOK, StoreInit, IdleOp, OpPcs, Ops
  <1>4. BrokenIsLeft
    BY <1>1, <1>2, FirstFile DEF BrokenIsLeft, StoreAt, IdleOp
  <1>5. RecordWhole
    <2>1. recFile # 0 /\ broken = "no" => recFile = 1 /\ inodes[1] = {}
      BY <1>1, FirstFile
    <2>2. known = {}
      BY DEF StoreInit
    <2> QED  BY <2>1, <2>2, WholeIsNotTorn DEF RecordWhole
  <1>6. OneMutator /\ NothingKnownOfNothing /\ TmpIsApart /\ CopyIsCurrent
    BY <1>2 DEF StoreInit, OneMutator, NothingKnownOfNothing, TmpIsApart, CopyIsCurrent,
       Mutating, StoreAt, IdleOp
  <1> QED  BY <1>3, <1>4, <1>5, <1>6 DEF StoreInv, Ordered

\* A command goes on to pc, or ends.
LEMMA GotoIs ==
    ASSUME StoreTypeOK, NEW t \in Writers, NEW pc \in OpPcs, StoreGoto(t, pc)
    PROVE  /\ store' \in [Writers -> Ops] /\ store'[t].pc = pc
           /\ \A u \in Writers : u # t => store'[u] = store[u]
  <1> DEFINE r == IF pc = "idle" THEN IdleOp ELSE [store[t] EXCEPT !.pc = pc]
  <1>1. r \in Ops /\ r.pc = pc
    BY DEF StoreTypeOK, Ops, OpPcs, IdleOp
  <1>2. store' = [store EXCEPT ![t] = r]
    BY DEF StoreGoto
  <1> HIDE DEF r
  <1> QED  BY <1>1, <1>2 DEF StoreTypeOK

-----------------------------------------------------------------------------
(* One lemma per step *)

\* MutateDeployment reads: its copy is what the record is now.
LEMMA ReadKeeps == ASSUME StoreInv, NEW t \in Writers, Read(t) PROVE StoreInv'
  <1>1. PICK f \in Fields :
          store' = [store EXCEPT ![t] = [pc |-> "open", field |-> f, fd |-> 0,
              rec |-> {f} \cup (IF recFile = 0 THEN {} ELSE inodes[recFile])]]
    BY DEF Read
  <1> DEFINE copy == {f} \cup (IF recFile = 0 THEN {} ELSE inodes[recFile])
  <1>2. copy \in SUBSET Fields
    BY DEF Read, StoreInv, StoreTypeOK
  <1>3. /\ store'[t].pc = "open" /\ store'[t].field = f /\ store'[t].rec = copy
        /\ \A u \in Writers : u # t => store'[u] = store[u]
    BY <1>1 DEF StoreInv, StoreTypeOK
  <1>4. StoreTypeOK'
    BY <1>1, <1>2, FirstFile DEF StoreInv, StoreTypeOK, OpPcs, Ops, Read
  <1>5. broken = "no" /\ BrokenIsLeft'
    BY FirstFile DEF Read, StoreInv, StoreTypeOK, BrokenIsLeft
  <1>6. ASSUME overlapped' = "no" PROVE Ordered'
    <2>1. overlapped = "no" /\ \A u \in Writers : ~Mutating(u)
      BY <1>6 DEF Read
    <2>2. Ordered
      BY <2>1 DEF StoreInv
    <2>3. OneMutator'
      BY <1>3, <2>1 DEF OneMutator, Mutating
    <2>4. RecordWhole' /\ NothingKnownOfNothing' /\ TmpIsApart'
      BY <2>2 DEF Read, Ordered, RecordWhole, NothingKnownOfNothing, TmpIsApart
    <2>5. known \subseteq copy
      BY <1>5, <2>2 DEF Ordered, RecordWhole, NothingKnownOfNothing
    <2>6. CopyIsCurrent'
      BY <1>3, <2>1, <2>2, <2>5 DEF CopyIsCurrent, Ordered, StoreAt, Read, Mutating
    <2> QED  BY <2>3, <2>4, <2>6 DEF Ordered
  <1> QED  BY <1>4, <1>5, <1>6 DEF StoreInv

\* The temporary file is opened, and never the one that is the record.
LEMMA OpenTmpKeeps == ASSUME StoreInv, NEW t \in Writers, OpenTmp(t) PROVE StoreInv'
  <1>1. PICK n \in Files :
          /\ (tmpFile = 0 => n # recFile) /\ (tmpFile # 0 => n = tmpFile)
          /\ tmpFile' = n /\ inodes' = [inodes EXCEPT ![n] = TornRecord]
          /\ store' = [store EXCEPT ![t].pc = "write", ![t].fd = n]
    BY DEF OpenTmp, UnusedFiles, StoreInv, StoreTypeOK
  <1>2. recFile' = recFile /\ known' = known /\ broken' = broken /\ overlapped' = overlapped
    BY DEF OpenTmp, History
  <1>3. /\ store'[t].pc = "write" /\ store'[t].fd = n
        /\ store'[t].rec = store[t].rec /\ store'[t].field = store[t].field
        /\ \A u \in Writers : u # t => store'[u] = store[u]
    BY <1>1 DEF StoreInv, StoreTypeOK
  <1>4. StoreTypeOK'
    BY <1>1, <1>2 DEF StoreInv, StoreTypeOK, OpPcs, Ops
  <1>5. broken = "no" /\ BrokenIsLeft'
    BY <1>2 DEF OpenTmp, StoreAt, StoreInv, StoreTypeOK, BrokenIsLeft
  <1>6. ASSUME overlapped' = "no" PROVE Ordered'
    <2>1. Ordered
      BY <1>2, <1>6 DEF StoreInv
    <2>2. n # recFile
      BY <1>1, <2>1 DEF Ordered, TmpIsApart
    <2>3. \A u \in Writers : u # t => ~Mutating(u)
      BY <2>1 DEF Ordered, OneMutator, Mutating, OpenTmp, StoreAt
    <2>4. OneMutator'
      BY <1>3, <2>3 DEF OneMutator, Mutating
    <2>5. recFile # 0 => inodes'[recFile] = inodes[recFile]
      BY <1>1, <2>2 DEF StoreInv, StoreTypeOK
    <2>6. RecordWhole' /\ NothingKnownOfNothing' /\ TmpIsApart'
      BY <1>1, <1>2, <2>1, <2>2, <2>5 DEF Ordered, RecordWhole, NothingKnownOfNothing, TmpIsApart
    <2>7. CopyIsCurrent'
      <3>1. known \subseteq store[t].rec /\ store[t].field \in store[t].rec
        BY <2>1 DEF Ordered, CopyIsCurrent, OpenTmp, StoreAt
      <3>2. inodes'[n] = TornRecord /\ n # 0
        BY <1>1, FirstFile DEF StoreInv, StoreTypeOK
      <3>3. \A u \in Writers : u # t => store'[u].pc \notin {"open", "write", "rename"}
        BY <1>3, <2>3 DEF Mutating
      <3> QED  BY <1>1, <1>2, <1>3, <3>1, <3>2, <3>3 DEF CopyIsCurrent, StoreAt
    <2> QED  BY <2>4, <2>6, <2>7 DEF Ordered
  <1> QED  BY <1>4, <1>5, <1>6 DEF StoreInv

\* The bytes arrive; alone, in one piece.
LEMMA WriteTmpKeeps == ASSUME StoreInv, NEW t \in Writers, WriteTmp(t) PROVE StoreInv'
  <1>1. PICK bytes \in {store[t].rec} \cup
                       (IF inodes[store[t].fd] = TornRecord THEN {} ELSE {TornRecord}) :
          inodes' = [inodes EXCEPT ![store[t].fd] = bytes]
    BY DEF WriteTmp
  <1>2. /\ store' = [store EXCEPT ![t] = [@ EXCEPT !.pc = "rename"]]
        /\ recFile' = recFile /\ tmpFile' = tmpFile
        /\ known' = known /\ broken' = broken /\ overlapped' = overlapped
    BY DEF WriteTmp, StoreGoto, History
  <1>3. /\ store'[t].pc = "rename" /\ store'[t].fd = store[t].fd
        /\ store'[t].rec = store[t].rec /\ store'[t].field = store[t].field
        /\ \A u \in Writers : u # t => store'[u] = store[u]
    BY <1>2 DEF StoreInv, StoreTypeOK
  <1>4. StoreTypeOK'
    BY <1>1, <1>2 DEF StoreInv, StoreTypeOK, OpPcs, Ops
  <1>5. broken = "no" /\ BrokenIsLeft'
    BY <1>2 DEF WriteTmp, StoreAt, StoreInv, StoreTypeOK, BrokenIsLeft
  <1>6. ASSUME overlapped' = "no" PROVE Ordered'
    <2>1. Ordered
      BY <1>2, <1>6 DEF StoreInv
    <2>2. \A u \in Writers : u # t => ~Mutating(u)
      BY <2>1 DEF Ordered, OneMutator, Mutating, WriteTmp, StoreAt
    <2>3. /\ tmpFile = store[t].fd /\ tmpFile # 0
          /\ known \subseteq store[t].rec /\ store[t].field \in store[t].rec
      BY <2>1 DEF Ordered, CopyIsCurrent, WriteTmp, StoreAt
    <2>4. tmpFile \in Files /\ tmpFile # recFile
      BY <2>1, <2>3 DEF StoreInv, StoreTypeOK, Ordered, TmpIsApart
    <2>5. OneMutator'
      BY <1>3, <2>2 DEF OneMutator, Mutating
    <2>6. recFile # 0 => inodes'[recFile] = inodes[recFile]
      BY <1>1, <2>3, <2>4 DEF StoreInv, StoreTypeOK
    <2>7. RecordWhole' /\ NothingKnownOfNothing' /\ TmpIsApart'
      BY <1>2, <2>1, <2>6 DEF Ordered, RecordWhole, NothingKnownOfNothing, TmpIsApart
    <2>8. CopyIsCurrent'
      <3>1. inodes[tmpFile] = TornRecord
        BY <2>1 DEF Ordered, CopyIsCurrent, WriteTmp, StoreAt
      <3>2. inodes'[tmpFile] = store[t].rec
        BY <1>1, <2>3, <2>4, <3>1 DEF StoreInv, StoreTypeOK
      <3>3. \A u \in Writers : u # t => store'[u].pc \notin {"open", "write", "rename"}
        BY <1>3, <2>2 DEF Mutating
      <3> QED  BY <1>2, <1>3, <2>3, <3>2, <3>3 DEF CopyIsCurrent, StoreAt
    <2> QED  BY <2>5, <2>7, <2>8 DEF Ordered
  <1> QED  BY <1>4, <1>5, <1>6 DEF StoreInv

\* The temporary file becomes the record, with all that was known and one field.
LEMMA RenameTmpKeeps == ASSUME StoreInv, NEW t \in Writers, RenameTmp(t) PROVE StoreInv'
  <1>1. inodes' = inodes /\ broken' = broken /\ overlapped' = overlapped
    BY DEF RenameTmp
  <1>2. /\ store' \in [Writers -> Ops] /\ store'[t].pc \in {"clean up", "idle"}
        /\ \A u \in Writers : u # t => store'[u] = store[u]
    <2>1. PICK pc \in {"clean up", "idle"} : StoreGoto(t, pc)
      BY DEF RenameTmp
    <2>2. pc \in OpPcs
      BY DEF OpPcs
    <2> QED  BY <2>1, <2>2, GotoIs DEF StoreInv
  <1>3. StoreTypeOK'
    BY <1>1, <1>2 DEF RenameTmp, StoreInv, StoreTypeOK
  <1>4. broken = "no" /\ BrokenIsLeft'
    BY <1>1 DEF RenameTmp, StoreAt, StoreInv, StoreTypeOK, BrokenIsLeft
  <1>5. ASSUME overlapped' = "no" PROVE Ordered'
    <2>1. Ordered
      BY <1>1, <1>5 DEF StoreInv
    <2>2. \A u \in Writers : u # t => ~Mutating(u)
      BY <2>1 DEF Ordered, OneMutator, Mutating, RenameTmp, StoreAt
    <2>3. /\ tmpFile # 0 /\ inodes[tmpFile] = store[t].rec
          /\ known \subseteq store[t].rec /\ store[t].field \in store[t].rec
          /\ store[t].rec # TornRecord
      <3>1. store[t].rec # TornRecord
        BY WholeIsNotTorn DEF StoreInv, StoreTypeOK, Ops
      <3> QED  BY <2>1, <3>1 DEF Ordered, CopyIsCurrent, RenameTmp, StoreAt
    <2>4. /\ recFile' = tmpFile /\ tmpFile' = 0 /\ known' = known \cup {store[t].field}
          /\ StoreGoto(t, "idle")
      BY <2>3 DEF RenameTmp
    <2>5. store'[t].pc = "idle"
      BY <2>4, GotoIs DEF StoreInv, OpPcs
    <2>6. OneMutator'
      BY <1>2, <2>2, <2>5 DEF OneMutator, Mutating
    <2>7. RecordWhole' /\ NothingKnownOfNothing' /\ TmpIsApart'
      BY <1>1, <2>3, <2>4 DEF RecordWhole, NothingKnownOfNothing, TmpIsApart
    <2>8. CopyIsCurrent'
      BY <1>2, <2>2, <2>5 DEF CopyIsCurrent, StoreAt, Mutating
    <2> QED  BY <2>6, <2>7, <2>8 DEF Ordered
  <1> QED  BY <1>3, <1>4, <1>5 DEF StoreInv

\* The other steps leave the record and its files, or remove the record.
LEMMA OthersKeep ==
    ASSUME StoreInv, NEW t \in Writers,
           CleanUp(t) \/ LoadForDestroy(t) \/ DeleteDeployment(t) \/ StoreDies(t)
    PROVE  StoreInv'
  <1>1. /\ inodes' = inodes /\ broken' = broken /\ overlapped' = overlapped
        /\ (recFile' = recFile /\ known' = known) \/ (recFile' = 0 /\ known' = {})
        /\ tmpFile' \in {tmpFile, 0}
    BY DEF CleanUp, LoadForDestroy, DeleteDeployment, StoreDies, History
  <1>2. /\ store' \in [Writers -> Ops] /\ store'[t].pc \in {"idle", "remove"}
        /\ \A u \in Writers : u # t => store'[u] = store[u]
    <2>1. PICK pc \in {"idle", "remove"} : StoreGoto(t, pc)
      BY DEF CleanUp, LoadForDestroy, DeleteDeployment, StoreDies
    <2>2. pc \in OpPcs
      BY DEF OpPcs
    <2> QED  BY <2>1, <2>2, GotoIs DEF StoreInv
  <1>3. StoreTypeOK'
    BY <1>1, <1>2 DEF StoreInv, StoreTypeOK
  <1>4. broken = "no" /\ BrokenIsLeft'
    BY <1>1, FirstFile DEF CleanUp, LoadForDestroy, DeleteDeployment, StoreDies, StoreAt,
       StoreInv, StoreTypeOK, BrokenIsLeft
  <1>5. ASSUME overlapped' = "no" PROVE Ordered'
    <2>1. Ordered
      BY <1>1, <1>5 DEF StoreInv
    <2>2. OneMutator'
      BY <1>2, <2>1 DEF Ordered, OneMutator, Mutating
    <2>3. RecordWhole' /\ NothingKnownOfNothing' /\ TmpIsApart'
      BY <1>1, <2>1 DEF Ordered, RecordWhole, NothingKnownOfNothing, TmpIsApart
    <2>4. tmpFile' = tmpFile \/ \A u \in Writers : u # t => ~Mutating(u)
      BY <2>1 DEF Ordered, OneMutator, Mutating, CleanUp, LoadForDestroy, DeleteDeployment,
         StoreDies, StoreAt, History
    <2>5. CopyIsCurrent'
      BY <1>1, <1>2, <2>1, <2>4 DEF Ordered, CopyIsCurrent, StoreAt, Mutating
    <2> QED  BY <2>2, <2>3, <2>5 DEF Ordered
  <1> QED  BY <1>3, <1>4, <1>5 DEF StoreInv

\* The invariant is inductive.
LEMMA StoreInductive == StoreInv /\ [StoreNext]_storevars => StoreInv'
  <1> SUFFICES ASSUME StoreInv, [StoreNext]_storevars PROVE StoreInv'
    OBVIOUS
  <1>1. CASE StoreNext
    BY <1>1, ReadKeeps, OpenTmpKeeps, WriteTmpKeeps, RenameTmpKeeps, OthersKeep DEF StoreNext
  <1>2. CASE UNCHANGED storevars
    BY <1>2 DEF storevars, StoreInv, StoreTypeOK, BrokenIsLeft, Ordered, OneMutator, RecordWhole,
       NothingKnownOfNothing, TmpIsApart, CopyIsCurrent, Mutating, StoreAt
  <1> QED  BY <1>1, <1>2

\* For any number of terminals, commands and fields: as long as no two mutations
\* ran at once, the record that MutateDeployment and destroy leave on disk is
\* whole and has every field that was written to it, wherever commands died.
THEOREM RecordAlwaysKeepsWhatIsKnown == StoreSpec => []RecordKeepsWhatIsKnown
  <1>1. StoreInv => RecordKeepsWhatIsKnown
    BY DEF StoreInv, StoreTypeOK, BrokenIsLeft, Ordered, RecordWhole, RecordKeepsWhatIsKnown
  <1> QED  BY <1>1, StoreInitially, StoreInductive, PTL DEF StoreSpec

-----------------------------------------------------------------------------
(* The end of a destroy *)

Outcomes == [server : {"skipped", "done", "failed"},
             vm : {"n/a", "deleted", "already gone", "never created", "kept", "delete failed"},
             revoked : YesNo, purge : YesNo,
             warned : SUBSET {"teardown", "agent", "lookup", "vm"}]

DestroyTypes ==
    /\ drpc \in {"server", "agent", "vm", "record", "done"}
    /\ drec \in Records /\ flags \in DestroyFlags /\ outcome \in Outcomes
    /\ world \in [vm : {"running", "gone"}, db : {"up", "none", "dropped", "not dropped"},
                  agent : {"active", "none"}]

\* What the outcome says of the VM and of the agent is so.
FateIsSo ==
    /\ world.vm = "gone" => drec.provider = "vm"
    /\ outcome.vm \in {"deleted", "already gone"} => world.vm = "gone"
    /\ outcome.vm = "never created" => drec.id = "unknown"
    /\ outcome.revoked = "yes" => world.agent = "none"

\* The VM's fate is open until its step, and is settled there.
FateIsSettled ==
    /\ drpc \in {"server", "agent", "vm"} => outcome.vm = "n/a"
    /\ drpc \in {"record", "done"} /\ IsLast /\ drec.provider = "vm" =>
           /\ outcome.vm # "n/a"
           /\ world.vm = "running" =>
                  outcome.vm = "kept" \/ outcome.warned \cap {"lookup", "vm"} # {}

\* The database of a bootstrapped box goes with the VM, or by a teardown that purges.
DatabaseFollows ==
    drec.phase = "deployed" /\ drec.provider # "k8s" =>
        /\ drpc = "server" => outcome.server = "skipped"
        /\ drec.db = "external" => world.db = "up"
        /\ drec.db = "own" /\ world.vm = "gone" => world.db = "none"
        /\ drec.db = "own" /\ world.vm = "running" =>
               /\ outcome.server = "skipped" => world.db = "up"
               /\ outcome.server = "done" =>
                      \/ outcome.purge = "yes" /\ world.db \in {"dropped", "not dropped"}
                      \/ outcome.purge = "no" /\ world.db = "up"

DestroyInv == DestroyTypes /\ FateIsSo /\ FateIsSettled /\ DatabaseFollows

LEMMA DestroyInitially == ReportInit => DestroyInv
  <1> SUFFICES ASSUME ReportInit PROVE DestroyInv
    OBVIOUS
  <1>1. /\ world \in [vm : {"running", "gone"}, db : {"up", "none"}, agent : {"active", "none"}]
        /\ world.vm = "gone" => drec.provider = "vm"
        /\ world.db = "up" <=> \/ drec.db = "external"
                               \/ drec.phase = "deployed" /\ drec.provider # "k8s"
                                  /\ world.vm = "running"
    BY DEF ReportInit, Worlds
  <1>2. /\ outcome \in Outcomes /\ outcome.vm = "n/a" /\ outcome.server = "skipped"
        /\ outcome.revoked = "no"
    BY DEF ReportInit, Outcomes, YesNo
  <1>3. DestroyTypes
    BY <1>1, <1>2 DEF ReportInit, DestroyTypes
  <1> QED  BY <1>1, <1>2, <1>3 DEF ReportInit, DestroyInv, FateIsSo, FateIsSettled, DatabaseFollows

\* The teardown of the box, done, failed or skipped.
LEMMA TeardownKeeps == ASSUME DestroyInv, Teardown \/ TeardownFails \/ TeardownSkipped
                       PROVE  DestroyInv'
  <1> DEFINE purge == "purge" \in flags /\ ~(drec.db = "external" /\ drec.provider # "k8s")
             answer == IF purge THEN "yes" ELSE "no"
             drops == purge /\ drec.provider # "k8s"
             fell(now) == [world EXCEPT !.db = now]
  <1>1. drpc = "server" /\ drpc' = "agent" /\ drec' = drec /\ flags' = flags
    BY DEF Teardown, TeardownFails, TeardownSkipped
  <1>2. /\ outcome.vm = "n/a" /\ outcome \in Outcomes /\ answer \in YesNo
        /\ \A now \in {"dropped", "not dropped"} :
             /\ fell(now).vm = world.vm /\ fell(now).agent = world.agent /\ fell(now).db = now
             /\ fell(now) \in [vm : {"running", "gone"}, db : {"up", "none", "dropped", "not dropped"},
                     agent : {"active", "none"}]
    BY <1>1 DEF DestroyInv, DestroyTypes, FateIsSettled, Outcomes, YesNo
  <1>3. CASE Teardown
    <2>1. /\ drec.phase = "deployed" /\ world.vm = "running"
          /\ outcome' = [outcome EXCEPT !.server = "done", !.purge = answer]
          /\ IF drops THEN \E now \in {"dropped", "not dropped"} : world' = fell(now)
                      ELSE world' = world
      BY <1>3, <1>2 DEF Teardown, Drops, Out, DestroyInv, DestroyTypes
    <2>2. /\ outcome' \in Outcomes /\ outcome'.vm = "n/a" /\ outcome'.revoked = outcome.revoked
          /\ outcome'.server = "done" /\ outcome'.purge = answer
      BY <2>1, <1>2 DEF Outcomes
    <2> HIDE DEF fell
    <2>3. DestroyTypes' /\ FateIsSo' /\ FateIsSettled'
      BY <1>1, <1>2, <2>1, <2>2 DEF DestroyInv, DestroyTypes, FateIsSo, FateIsSettled
    <2>4. DatabaseFollows'
      <3>1. CASE drops
        <4>1. world'.vm = "running" /\ world'.db \in {"dropped", "not dropped"}
          BY <1>2, <2>1, <3>1
        <4>2. drec.db # "external" /\ drpc' # "server" /\ outcome'.purge = "yes"
          BY <1>1, <2>2, <3>1
        <4> QED  BY <1>1, <2>2, <4>1, <4>2 DEF DatabaseFollows
      <3>2. CASE ~drops
        BY <1>1, <1>2, <2>1, <2>2, <3>2 DEF DestroyInv, DatabaseFollows
      <3> QED  BY <3>1, <3>2
    <2> QED  BY <2>3, <2>4 DEF DestroyInv
  <1>4. CASE TeardownFails
    <2>1. /\ drec.phase = "deployed"
          /\ outcome' = [outcome EXCEPT !.server = "failed", !.purge = answer,
                                        !.warned = Warn("teardown")]
          /\ \/ world' = world
             \/ /\ drops /\ world.vm = "running"
                /\ \E now \in {"dropped", "not dropped"} : world' = fell(now)
      BY <1>4 DEF TeardownFails, Drops, Out
    <2>2. /\ outcome' \in Outcomes /\ outcome'.vm = "n/a" /\ outcome'.revoked = outcome.revoked
          /\ outcome'.server = "failed"
      BY <2>1, <1>2 DEF Outcomes, Warn
    <2> HIDE DEF fell
    <2>3. DestroyTypes' /\ FateIsSo' /\ FateIsSettled'
      BY <1>1, <1>2, <2>1, <2>2 DEF DestroyInv, DestroyTypes, FateIsSo, FateIsSettled
    <2>4. DatabaseFollows'
      BY <1>1, <1>2, <2>1, <2>2 DEF DestroyInv, DatabaseFollows
    <2> QED  BY <2>3, <2>4 DEF DestroyInv
  <1>5. CASE TeardownSkipped
    BY <1>1, <1>5 DEF TeardownSkipped, DestroyInv, DestroyTypes, FateIsSo, FateIsSettled,
       DatabaseFollows, IsLast
  <1> QED  BY <1>3, <1>4, <1>5

\* The agent revoked, or left to the other projects.
LEMMA AgentStepKeeps == ASSUME DestroyInv, Revoke \/ KeepAgent PROVE DestroyInv'
  <1>1. drpc = "agent" /\ drpc' = "vm" /\ drec' = drec /\ flags' = flags
    BY DEF Revoke, KeepAgent
  <1>2. /\ outcome \in Outcomes
        /\ world \in [vm : {"running", "gone"}, db : {"up", "none", "dropped", "not dropped"},
                      agent : {"active", "none"}]
    BY DEF DestroyInv, DestroyTypes
  <1>3. /\ \/ outcome' = outcome
           \/ outcome' = [outcome EXCEPT !.warned = Warn("agent")]
           \/ outcome' = [outcome EXCEPT !.revoked = "yes"] /\ world'.agent = "none"
        /\ world' = world \/ world' = [world EXCEPT !.agent = "none"]
    BY <1>2 DEF Revoke, KeepAgent, Out
  <1>4. /\ outcome' \in Outcomes /\ outcome'.vm = outcome.vm /\ outcome'.server = outcome.server
        /\ outcome'.purge = outcome.purge
        /\ outcome'.revoked = outcome.revoked \/ world'.agent = "none"
    BY <1>2, <1>3 DEF Outcomes, YesNo, Warn
  <1>5. /\ world'.vm = world.vm /\ world'.db = world.db
        /\ world' \in [vm : {"running", "gone"}, db : {"up", "none", "dropped", "not dropped"},
                       agent : {"active", "none"}]
        /\ world.agent = "none" => world'.agent = "none"
    BY <1>2, <1>3
  <1>6. DestroyTypes' /\ FateIsSo' /\ FateIsSettled'
    BY <1>1, <1>4, <1>5 DEF DestroyInv, DestroyTypes, FateIsSo, FateIsSettled
  <1>7. DatabaseFollows'
    BY <1>1, <1>4, <1>5 DEF DestroyInv, DatabaseFollows
  <1> QED  BY <1>6, <1>7 DEF DestroyInv

\* The VM deleted, kept or left running by a call that failed.
LEMMA VMStepKeeps == ASSUME DestroyInv, LookupFails \/ DeleteFails \/ DeleteVM \/ KeepVM
                     PROVE  DestroyInv'
  <1> DEFINE gone == [world EXCEPT !.vm = "gone", !.db = IF drec.db = "own" THEN "none" ELSE @]
  <1>1. drpc = "vm" /\ drpc' = "record" /\ drec' = drec /\ flags' = flags
    BY DEF LookupFails, DeleteFails, DeleteVM, KeepVM
  <1>2. /\ outcome \in Outcomes /\ outcome.vm = "n/a"
        /\ world \in [vm : {"running", "gone"}, db : {"up", "none", "dropped", "not dropped"},
                      agent : {"active", "none"}]
    BY <1>1 DEF DestroyInv, DestroyTypes, FateIsSettled
  <1>3. CASE LookupFails \/ DeleteFails \/ KeepVM
    <2>1. /\ world' = world
          /\ \/ /\ drec.id = "unknown"
                /\ outcome' = [outcome EXCEPT !.vm = "never created", !.warned = Warn("lookup")]
             \/ outcome' = [outcome EXCEPT !.vm = "delete failed", !.warned = Warn("vm")]
             \/ outcome' = [outcome EXCEPT !.vm = "kept"]
             \/ outcome' = outcome /\ ~(IsLast /\ drec.provider = "vm")
      BY <1>3 DEF LookupFails, DeleteFails, KeepVM, Out
    <2>2. /\ outcome' \in Outcomes /\ outcome'.server = outcome.server
          /\ outcome'.purge = outcome.purge /\ outcome'.revoked = outcome.revoked
          /\ \/ /\ outcome'.vm = "never created" /\ drec.id = "unknown"
                /\ "lookup" \in outcome'.warned
             \/ outcome'.vm = "delete failed" /\ "vm" \in outcome'.warned
             \/ outcome'.vm = "kept"
             \/ outcome'.vm = "n/a" /\ ~(IsLast /\ drec.provider = "vm")
      <3>1. CASE /\ drec.id = "unknown"
                 /\ outcome' = [outcome EXCEPT !.vm = "never created", !.warned = Warn("lookup")]
        BY <1>2, <3>1 DEF Outcomes, Warn
      <3>2. CASE outcome' = [outcome EXCEPT !.vm = "delete failed", !.warned = Warn("vm")]
        BY <1>2, <3>2 DEF Outcomes, Warn
      <3>3. CASE outcome' = [outcome EXCEPT !.vm = "kept"]
        BY <1>2, <3>3 DEF Outcomes
      <3>4. CASE outcome' = outcome /\ ~(IsLast /\ drec.provider = "vm")
        BY <1>2, <3>4
      <3> QED  BY <2>1, <3>1, <3>2, <3>3, <3>4
    <2>3. DestroyTypes' /\ FateIsSo'
      BY <1>1, <2>1, <2>2 DEF DestroyInv, DestroyTypes, FateIsSo
    <2>4. FateIsSettled'
      BY <1>1, <2>1, <2>2 DEF FateIsSettled, IsLast
    <2>5. DatabaseFollows'
      BY <1>1, <2>1, <2>2 DEF DestroyInv, DatabaseFollows
    <2> QED  BY <2>3, <2>4, <2>5 DEF DestroyInv
  <1>4. CASE DeleteVM
    <2>1. /\ drec.provider = "vm" /\ world' = gone
          /\ outcome' = [outcome EXCEPT !.vm = IF world.vm = "running" THEN "deleted"
                                               ELSE IF drec.id = "unknown" THEN "never created"
                                               ELSE "already gone"]
      BY <1>4 DEF DeleteVM, DeletesVM, Out
    <2>2. /\ outcome' \in Outcomes /\ outcome'.revoked = outcome.revoked
          /\ outcome'.vm \in {"deleted", "never created", "already gone"}
          /\ outcome'.vm = "never created" => drec.id = "unknown"
      BY <1>2, <2>1 DEF Outcomes
    <2>3. /\ world'.vm = "gone" /\ world'.agent = world.agent
          /\ world'.db = (IF drec.db = "own" THEN "none" ELSE world.db)
          /\ world' \in [vm : {"running", "gone"}, db : {"up", "none", "dropped", "not dropped"},
                         agent : {"active", "none"}]
      BY <1>2, <2>1
    <2> HIDE DEF gone
    <2>4. DestroyTypes' /\ FateIsSo' /\ FateIsSettled'
      BY <1>1, <2>1, <2>2, <2>3 DEF DestroyInv, DestroyTypes, FateIsSo, FateIsSettled
    <2>5. DatabaseFollows'
      BY <1>1, <2>3 DEF DestroyInv, DatabaseFollows
    <2> QED  BY <2>4, <2>5 DEF DestroyInv
  <1> QED  BY <1>3, <1>4

\* The invariant is inductive.
LEMMA DestroyInductive == DestroyInv /\ [ReportNext]_drvars => DestroyInv'
  <1> SUFFICES ASSUME DestroyInv, [ReportNext]_drvars PROVE DestroyInv'
    OBVIOUS
  <1>1. CASE RemoveRecord \/ UNCHANGED drvars
    <2>1. /\ drec' = drec /\ flags' = flags /\ world' = world /\ outcome' = outcome
          /\ drpc' = drpc \/ (drpc = "record" /\ drpc' = "done")
      BY <1>1 DEF RemoveRecord, drvars
    <2>2. DestroyTypes' /\ FateIsSo'
      BY <2>1 DEF DestroyInv, DestroyTypes, FateIsSo
    <2>3. FateIsSettled'
      BY <2>1 DEF DestroyInv, FateIsSettled, IsLast
    <2>4. DatabaseFollows'
      BY <2>1 DEF DestroyInv, DatabaseFollows
    <2> QED  BY <2>2, <2>3, <2>4 DEF DestroyInv
  <1>2. CASE VMVanishes
    <2>1. /\ drpc \in {"server", "agent", "vm"} /\ drpc' = drpc /\ drec' = drec /\ flags' = flags
          /\ outcome' = outcome /\ drec.provider = "vm"
      BY <1>2 DEF VMVanishes
    <2>2. /\ world'.vm = "gone" /\ world'.agent = world.agent
          /\ world'.db = (IF drec.db = "own" THEN "none" ELSE world.db)
          /\ world' \in [vm : {"running", "gone"}, db : {"up", "none", "dropped", "not dropped"},
                         agent : {"active", "none"}]
      BY <1>2 DEF VMVanishes, DestroyInv, DestroyTypes
    <2>3. DestroyTypes' /\ FateIsSo' /\ FateIsSettled'
      BY <2>1, <2>2 DEF DestroyInv, DestroyTypes, FateIsSo, FateIsSettled
    <2>4. DatabaseFollows'
      BY <2>1, <2>2 DEF DestroyInv, DatabaseFollows
    <2> QED  BY <2>3, <2>4 DEF DestroyInv
  <1> QED  BY <1>1, <1>2, TeardownKeeps, AgentStepKeeps, VMStepKeeps DEF ReportNext

\* For every record, set of flags and failure: a VM that runs on after the last
\* destroy was kept by a flag, or the user was warned of it (vmFate).
THEOREM BillingIsAlwaysTold == ReportSpec => []BillingIsTold
  <1>1. DestroyInv => BillingIsTold
    BY DEF DestroyInv, FateIsSettled, BillingIsTold
  <1> QED  BY <1>1, DestroyInitially, DestroyInductive, PTL DEF ReportSpec

\* For every record, set of flags and failure but that of the teardown: what the
\* headline and the sentence about the database claim is so when they are printed.
THEOREM LastReportIsAlwaysTrue == ReportSpec => []LastReportIsTrue
  <1>1. ASSUME DestroyInv, drpc = "done", IsLast, drec.phase = "deployed", drec.provider # "k8s",
               outcome.server # "failed", ~(outcome.vm = "kept" /\ world.vm = "gone")
        PROVE  /\ \A clause \in Headline : TrueOf(clause)
               /\ \/ TrueOf(DatabaseLine)
                  \/ outcome.vm = "delete failed"
                  \/ DatabaseLine = "dropped" /\ world.db = "not dropped"
    <2>1. drec.id = "known" /\ drec.db \in {"own", "external"} /\ drec.provider \in {"ssh", "vm"}
      BY <1>1 DEF DestroyInv, DestroyTypes, Records
    <2>2. outcome.server \in {"skipped", "done"} /\ outcome.purge \in YesNo /\ outcome \in Outcomes
      BY <1>1 DEF DestroyInv, DestroyTypes, Outcomes
    <2>3. ASSUME NEW clause \in Headline PROVE TrueOf(clause)
      <3>1. \/ clause \in {"server cleaned up", "server left untouched", "VM could NOT be deleted",
                           "VM kept"}
            \/ clause = "VM deleted" /\ outcome.vm = "deleted"
            \/ clause = "nothing is billing" /\ outcome.vm = "already gone"
            \/ clause = "no VM was ever created" /\ outcome.vm = "never created"
            \/ clause = "shared agent revoked" /\ outcome.revoked = "yes"
        BY <1>1, <2>2 DEF Headline, Outcomes
      <3> QED  BY <1>1, <2>1, <3>1 DEF DestroyInv, FateIsSo, TrueOf
    <2>4. ASSUME outcome.vm # "delete failed"
          PROVE  TrueOf(DatabaseLine) \/ (DatabaseLine = "dropped" /\ world.db = "not dropped")
      <3>1. CASE drec.db = "external"
        <4>1. world.db = "up"
          BY <1>1, <3>1 DEF DestroyInv, DatabaseFollows
        <4>2. DatabaseLine = "external, untouched"
          BY <1>1, <3>1 DEF DatabaseLine
        <4> QED  BY <4>1, <4>2 DEF TrueOf
      <3>2. CASE drec.db = "own" /\ outcome.vm \in {"deleted", "already gone"}
        <4>1. world.db = "none"
          BY <1>1, <3>2 DEF DestroyInv, DatabaseFollows, FateIsSo
        <4>2. DatabaseLine \in {"went with the VM", "gone with the VM"}
          BY <1>1, <3>2 DEF DatabaseLine
        <4> QED  BY <4>1, <4>2 DEF TrueOf
      <3>3. CASE drec.db = "own" /\ outcome.vm \notin {"deleted", "already gone"}
        <4>1. outcome.vm \in {"n/a", "kept"}
          BY <1>1, <2>1, <2>2, <2>4, <3>3 DEF Outcomes, DestroyInv, FateIsSo
        <4>2. world.vm = "running"
          BY <1>1, <4>1 DEF DestroyInv, DestroyTypes, FateIsSo, FateIsSettled
        <4>3. /\ outcome.server = "skipped" => world.db = "up"
              /\ outcome.server = "done" /\ outcome.purge = "no" => world.db = "up"
              /\ outcome.server = "done" /\ outcome.purge = "yes" =>
                     world.db \in {"dropped", "not dropped"}
          BY <1>1, <3>3, <4>2 DEF DestroyInv, DatabaseFollows
        <4>4. DatabaseLine = (IF outcome.server = "done"
                              THEN IF outcome.purge = "yes" THEN "dropped" ELSE "kept"
                              ELSE "not touched")
          BY <1>1, <2>2, <3>3 DEF DatabaseLine
        <4>5. \/ DatabaseLine = "dropped" /\ world.db \in {"dropped", "not dropped"}
              \/ DatabaseLine = "kept" /\ world.db = "up"
              \/ DatabaseLine = "not touched" /\ world.db = "up"
          BY <2>2, <4>3, <4>4 DEF YesNo
        <4> QED  BY <4>5 DEF TrueOf
      <3> QED  BY <2>1, <3>1, <3>2, <3>3
    <2> QED  BY <2>3, <2>4
  <1>2. DestroyInv => LastReportIsTrue
    BY <1>1 DEF LastReportIsTrue
  <1> QED  BY <1>2, DestroyInitially, DestroyInductive, PTL DEF ReportSpec

-----------------------------------------------------------------------------
(* The run *)

LEMMA StepsAre ==
    Steps = {"pending", "setvm", "create", "created", "box", "report", "setrev",
             "bootstrap", "agent", "publish", "schema", "finalize", "activate", "last"}
BY DEF Steps, NewVM

LEMMA AfterIs ==
    /\ After("pending") = "setvm" /\ After("setvm") = "create"
    /\ After("create") = "created" /\ After("created") = "box"
    /\ After("box") = "report" /\ After("report") = "setrev"
    /\ After("setrev") = "bootstrap" /\ After("bootstrap") = "agent"
    /\ After("agent") = "publish" /\ After("publish") = "schema"
    /\ After("schema") = "finalize" /\ After("finalize") = "activate"
    /\ After("activate") = "last"
BY DEF After, NewVM

LEMMA OrderStarts ==
    ASSUME NEW kind \in DOMAIN Order
    PROVE  Head(Order[kind]) \in {"pending", "box"}
BY DEF Order, NewVM

NamedSteps == {"pending", "created", "box", "agent", "finalize"}

LEMMA CheckpointIs ==
    /\ DOMAIN Checkpoint = NamedSteps
    /\ Checkpoint["pending"] = "pending_recorded"
    /\ Checkpoint["created"] = "instance_created"
    /\ Checkpoint["box"] = "box_recorded"
    /\ Checkpoint["agent"] = "agent_paired"
    /\ Checkpoint["finalize"] = "finalized"
BY DEF Checkpoint, NamedSteps

P1 == {"pending_recorded"}
P2 == P1 \cup {"instance_created"}
P3 == P2 \cup {"box_recorded"}
P4 == P3 \cup {"agent_paired"}
P5 == P4 \cup {"finalized"}

LEMMA ReachedIs ==
    /\ Reached("pending_recorded") = P1
    /\ Reached("instance_created") = P2
    /\ Reached("box_recorded") = P3
    /\ Reached("agent_paired") = P4
    /\ Reached("finalized") = P5
<1>1. Reached("pending_recorded") = P1
  BY DEF Reached, Checkpoints, P1
<1>2. Reached("instance_created") = P2
  BY DEF Reached, Checkpoints, P1, P2
<1>3. Reached("box_recorded") = P3
  BY DEF Reached, Checkpoints, P1, P2, P3
<1>4. Reached("agent_paired") = P4
  BY DEF Reached, Checkpoints, P1, P2, P3, P4
<1>5. Reached("finalized") = P5
  BY DEF Reached, Checkpoints, P1, P2, P3, P4, P5
<1>6. QED
  BY <1>1, <1>2, <1>3, <1>4, <1>5

\* The checkpoints the pipeline may have written before it comes to a step.
Written(step) ==
    CASE step = "pending" -> {}
      [] step \in {"setvm", "create", "created"} -> P1
      [] step = "box" -> P2
      [] step \in {"report", "setrev", "bootstrap", "agent"} -> P3
      [] step \in {"publish", "schema", "finalize"} -> P4
      [] OTHER -> P5

-----------------------------------------------------------------------------
(* The inductive invariant *)

SavedNames == {"none"} \cup P5

RunTypes ==
    /\ RunTypeOK
    /\ cell \in [rev : 0..MaxRuns, cp : SavedNames, vm : 0..MaxRuns]
    /\ said \in [rev : 0..MaxRuns, cp : SavedNames, vm : 0..MaxRuns]
    /\ seen \in [step : SavedNames, vm : 0..MaxRuns]
    /\ rec \in [by : 0..MaxRuns, step : SavedNames, err : 0..MaxRuns]
    /\ Alive => run \in Runs
    /\ noted # "none" => cell.cp = noted

\* The handler is told of a VM before it is requested.
VMKnown ==
    /\ vm <= run
    /\ runpc = "create" => cell.vm = run
    /\ Alive /\ vm = run => cell.vm = run
    /\ VMAnnounced

\* A revision is opened only after this run wrote the record of its box.
RevisionAfterBox ==
    /\ rec.by <= run
    /\ runpc \in {"report", "setrev"} \/ cell.rev # 0 => rec.by = run

\* What the record says has been noted, and is behind the step.
CellIsNotBehind ==
    /\ Alive /\ rec.by = run => rec.step \in Written(runpc) \cap Reached(cell.cp)
    /\ SaidIsNotBehind

RunInv == RunTypes /\ VMKnown /\ RevisionAfterBox /\ CellIsNotBehind

LEMMA NamedAre == DOMAIN Checkpoint = {"pending", "created", "box", "agent", "finalize"}
BY CheckpointIs DEF NamedSteps

LEMMA CpsHold == "none" \in SavedNames /\ \A s \in DOMAIN Checkpoint : Checkpoint[s] \in SavedNames
BY CheckpointIs DEF SavedNames, NamedSteps, P1, P2, P3, P4, P5

LEMMA RunInvInit == RunInit => RunInv
<1> SUFFICES ASSUME RunInit PROVE RunInv
  OBVIOUS
<1>1. RunTypes
  BY RunBound, StepsAre DEF RunInit, RunTypes, RunTypeOK, NoCell, NoWord, NothingSeen, SavedNames, P1, P2, P3, P4, P5, Alive, Runs
<1>2. VMKnown /\ RevisionAfterBox /\ CellIsNotBehind
  BY RunBound DEF RunInit, VMKnown, VMAnnounced, RevisionAfterBox, CellIsNotBehind,
                  SaidIsNotBehind, NoCell, NoWord, NothingSeen, Alive
<1>3. QED
  BY <1>1, <1>2 DEF RunInv

LEMMA NoneTyped ==
    /\ NoCell \in [rev : 0..MaxRuns, cp : SavedNames, vm : 0..MaxRuns]
    /\ NoWord \in [rev : 0..MaxRuns, cp : SavedNames, vm : 0..MaxRuns]
    /\ NothingSeen \in [step : SavedNames, vm : 0..MaxRuns]
BY RunBound, CpsHold DEF NoCell, NoWord, NothingSeen

LEMMA SavedTyped ==
    ASSUME NEW r \in 0..MaxRuns, NEW s \in DOMAIN Checkpoint, NEW e \in 0..MaxRuns
    PROVE  \A e2 \in {0, e} : [by |-> r, step |-> Checkpoint[s], err |-> e2]
              \in [by : 0..MaxRuns, step : SavedNames, err : 0..MaxRuns]
BY RunBound, CpsHold

\* What the other conjuncts need of the types.
LEMMA RunFacts ==
    ASSUME RunTypes
    PROVE  /\ run \in Nat /\ vm \in Nat /\ rec.by \in Nat
           /\ cell = [rev |-> cell.rev, cp |-> cell.cp, vm |-> cell.vm]
           /\ rec = [by |-> rec.by, step |-> rec.step, err |-> rec.err]
           /\ runpc = "over" \/ run > 0
           /\ noted # "none" => /\ runpc \in DOMAIN Checkpoint
                                /\ noted = Checkpoint[runpc] /\ cell.cp = noted
<1>1. run \in 0..MaxRuns /\ vm \in 0..MaxRuns /\ rec.by \in 0..MaxRuns
  BY DEF RunTypes, RunTypeOK
<1>2. run \in Nat /\ vm \in Nat /\ rec.by \in Nat
  BY <1>1, RunBound
<1>3. cell = [rev |-> cell.rev, cp |-> cell.cp, vm |-> cell.vm]
  <2>1. cell \in [rev : 0..MaxRuns, cp : SavedNames, vm : 0..MaxRuns]
    BY DEF RunTypes
  <2>2. QED
    BY <2>1
<1>4. rec = [by |-> rec.by, step |-> rec.step, err |-> rec.err]
  <2>1. rec \in [by : 0..MaxRuns, step : SavedNames, err : 0..MaxRuns]
    BY DEF RunTypes
  <2>2. QED
    BY <2>1
<1>5. runpc = "over" \/ run > 0
  <2>1. runpc # "over" => run \in 1..MaxRuns
    BY DEF RunTypes, Alive, Runs
  <2>2. QED
    BY <2>1, RunBound
<1>6. noted # "none" => runpc \in DOMAIN Checkpoint /\ noted = Checkpoint[runpc] /\ cell.cp = noted
  BY DEF RunTypes, RunTypeOK
<1>7. QED
  BY <1>2, <1>3, <1>4, <1>5, <1>6

LEMMA SaveTypes ==
    ASSUME RunTypes, SaveCheckpoint
    PROVE  rec' \in [by : 0..MaxRuns, step : SavedNames, err : 0..MaxRuns]
<1>1. PICK e \in {0, rec.err} : rec' = [by |-> run, step |-> Checkpoint[runpc], err |-> e]
  BY RunFacts DEF SaveCheckpoint
<1>2. run \in 0..MaxRuns /\ rec.err \in 0..MaxRuns
  BY DEF RunTypes, RunTypeOK
<1>3. runpc \in DOMAIN Checkpoint
  BY RunFacts DEF SaveCheckpoint
<1>4. QED
  BY <1>1, <1>2, <1>3, SavedTyped

LEMMA StartCounts ==
    ASSUME RunTypes, StartDeploy PROVE run' \in Runs /\ run' \in 0..MaxRuns
<1>1. run \in 0..MaxRuns
  BY DEF RunTypes, RunTypeOK
<1>2. run < MaxRuns /\ run' = run + 1
  BY DEF StartDeploy
<1>3. QED
  BY <1>1, <1>2, RunBound DEF Runs

\* A first checkpoint or step, and a cell that knows nothing.
LEMMA StartTypes == ASSUME RunTypes, StartDeploy PROVE RunTypes'
<1>1. runpc' \in {"pending", "box"}
  BY OrderStarts DEF StartDeploy
<1>2. /\ noted' = "none" /\ runErr' = "nil" /\ cell' = NoCell /\ sig' = "none"
      /\ said' = NoWord /\ seen' = NothingSeen /\ rec' = rec /\ revs' = revs /\ vm' = vm
  BY DEF StartDeploy
<1>3. /\ vm \in 0..MaxRuns /\ rec.by \in 0..MaxRuns /\ rec.err \in 0..MaxRuns
      /\ revs \in [Runs -> {"none", "in progress", "active", "failed"}]
      /\ rec \in [by : 0..MaxRuns, step : SavedNames, err : 0..MaxRuns]
  BY DEF RunTypes, RunTypeOK
<1>4. NoCell.rev \in 0..MaxRuns /\ NoCell.vm \in 0..MaxRuns
  BY RunBound DEF NoCell
<1>5. RunTypeOK'
  BY <1>1, <1>2, <1>3, <1>4, StartCounts, StepsAre DEF RunTypeOK
<1>6. QED
  BY <1>2, <1>3, <1>5, StartCounts, NoneTyped DEF RunTypes

LEMMA RunTypesStep == RunInv /\ [RunNext]_runvars => RunTypes'
<1> SUFFICES ASSUME RunInv, [RunNext]_runvars PROVE RunTypes'
  OBVIOUS
<1> USE RunBound, NamedAre DEF RunInv, RunTypes, RunTypeOK, Alive, Runs
<1>1. CASE StartDeploy
  BY <1>1, StartTypes
<1>2. CASE StepFails
  BY <1>2 DEF StepFails, RunFails
<1>3. CASE NoteCheckpoint
  BY <1>3, CpsHold DEF NoteCheckpoint
<1>4. CASE SaveCheckpoint
  <2>1. rec' \in [by : 0..MaxRuns, step : SavedNames, err : 0..MaxRuns]
    BY <1>4, SaveTypes
  <2>2. runpc' \in Steps
    BY <1>4, AfterIs, StepsAre DEF SaveCheckpoint
  <2>3. QED
    BY <1>4, <2>1, <2>2 DEF SaveCheckpoint
<1>5. CASE SaveFails
  BY <1>5, AfterIs, StepsAre DEF SaveFails, RunFails
<1>6. CASE SetPendingVM
  BY <1>6, AfterIs, StepsAre DEF SetPendingVM
<1>7. CASE CreateVM
  BY <1>7, AfterIs, StepsAre DEF CreateVM
<1>8. CASE ReportInProgress
  BY <1>8, StepsAre DEF ReportInProgress
<1>9. CASE SetDeployRev
  BY <1>9, AfterIs, StepsAre DEF SetDeployRev
<1>10. CASE Progress
  BY <1>10, AfterIs, StepsAre DEF Progress, UpdateRevision
<1>11. CASE AgentTimesOut
  BY <1>11 DEF AgentTimesOut, RunFails
<1>12. CASE FinalizeRevision
  BY <1>12, AfterIs, StepsAre DEF FinalizeRevision
<1>13. CASE Report
  BY <1>13 DEF Report, RunFails
<1>14. CASE Hook
  BY <1>14 DEF Hook, UpdateRevision
<1>15. CASE Kill
  BY <1>15 DEF Kill
<1>16. CASE Handler
  <2>1. CASE ReadRevision \/ MarkFailed
    BY <2>1 DEF HandlesSignal, ReadRevision, MarkFailed
  <2>2. CASE ReadCheckpoint
    BY <2>2, CpsHold DEF HandlesSignal, ReadCheckpoint
  <2>3. CASE ReadPendingVM \/ Exit
    BY <2>3 DEF HandlesSignal, ReadPendingVM, Exit
  <2>4. QED
    BY <1>16, <2>1, <2>2, <2>3 DEF Handler
<1>17. CASE Interrupt
  BY <1>17 DEF Interrupt
<1>18. CASE UNCHANGED runvars
  BY <1>18 DEF runvars
<1>19. QED
  BY <1>1, <1>2, <1>3, <1>4, <1>5, <1>6, <1>7, <1>8, <1>9, <1>10, <1>11, <1>12,
     <1>13, <1>14, <1>15, <1>16, <1>17, <1>18 DEF RunNext, Main

LEMMA VMKnownStep == RunInv /\ [RunNext]_runvars => VMKnown'
<1> SUFFICES ASSUME RunInv, [RunNext]_runvars PROVE VMKnown'
  OBVIOUS
<1> USE NamedAre, RunFacts DEF RunInv, VMKnown, VMAnnounced, Alive
<1>1. CASE StartDeploy
  <2>1. runpc' \in {"pending", "box"}
    BY <1>1, OrderStarts DEF StartDeploy
  <2>2. run' # 0 /\ vm' <= run' /\ vm' # run' /\ seen'.vm # run'
    BY <1>1 DEF StartDeploy, NothingSeen
  <2>3. QED
    BY <2>1, <2>2
<1>2. CASE StepFails \/ AgentTimesOut \/ Report
  BY <1>2 DEF StepFails, AgentTimesOut, Report, RunFails
<1>3. CASE NoteCheckpoint
  BY <1>3 DEF NoteCheckpoint
<1>4. CASE SaveCheckpoint
  BY <1>4, AfterIs DEF SaveCheckpoint
<1>5. CASE SaveFails
  BY <1>5, AfterIs DEF SaveFails, RunFails
<1>6. CASE SetPendingVM
  BY <1>6 DEF SetPendingVM
<1>7. CASE CreateVM
  BY <1>7, AfterIs DEF CreateVM
<1>8. CASE ReportInProgress
  BY <1>8 DEF ReportInProgress
<1>9. CASE SetDeployRev
  BY <1>9, AfterIs DEF SetDeployRev
<1>10. CASE Progress
  BY <1>10, AfterIs DEF Progress
<1>11. CASE FinalizeRevision
  BY <1>11, AfterIs DEF FinalizeRevision
<1>12. CASE Hook
  BY <1>12 DEF Hook
<1>13. CASE Interrupt \/ Kill
  BY <1>13 DEF Interrupt, Kill
<1>14. CASE Handler
  <2>1. CASE ReadRevision \/ MarkFailed \/ ReadCheckpoint
    BY <2>1 DEF HandlesSignal, ReadRevision, MarkFailed, ReadCheckpoint, RunTypes
  <2>2. CASE ReadPendingVM
    BY <2>2 DEF HandlesSignal, ReadPendingVM, RunTypes
  <2>3. CASE Exit
    BY <2>3 DEF Exit
  <2>4. QED
    BY <1>14, <2>1, <2>2, <2>3 DEF Handler
<1>15. CASE UNCHANGED runvars
  BY <1>15 DEF runvars
<1>16. QED
  BY <1>1, <1>2, <1>3, <1>4, <1>5, <1>6, <1>7, <1>8, <1>9, <1>10, <1>11, <1>12,
     <1>13, <1>14, <1>15 DEF RunNext, Main

LEMMA RevisionAfterBoxStep == RunInv /\ [RunNext]_runvars => RevisionAfterBox'
<1> SUFFICES ASSUME RunInv, [RunNext]_runvars PROVE RevisionAfterBox'
  OBVIOUS
<1> USE NamedAre, RunFacts DEF RunInv, RevisionAfterBox, Alive
<1>1. CASE StartDeploy
  <2>1. runpc' \in {"pending", "box"}
    BY <1>1, OrderStarts DEF StartDeploy
  <2>2. QED
    BY <1>1, <2>1 DEF StartDeploy, NoCell
<1>2. CASE StepFails \/ AgentTimesOut \/ Report
  BY <1>2 DEF StepFails, AgentTimesOut, Report, RunFails
<1>3. CASE NoteCheckpoint
  BY <1>3 DEF NoteCheckpoint
<1>4. CASE SaveCheckpoint
  BY <1>4, AfterIs DEF SaveCheckpoint
<1>5. CASE SaveFails
  BY <1>5, AfterIs DEF SaveFails, RunFails
<1>6. CASE SetPendingVM
  BY <1>6, AfterIs DEF SetPendingVM
<1>7. CASE CreateVM
  BY <1>7, AfterIs DEF CreateVM
<1>8. CASE ReportInProgress
  BY <1>8 DEF ReportInProgress
<1>9. CASE SetDeployRev
  BY <1>9, AfterIs DEF SetDeployRev
<1>10. CASE Progress
  BY <1>10, AfterIs DEF Progress
<1>11. CASE FinalizeRevision
  BY <1>11, AfterIs DEF FinalizeRevision
<1>12. CASE Hook
  BY <1>12 DEF Hook
<1>13. CASE Interrupt \/ Kill \/ Handler
  BY <1>13 DEF Interrupt, Kill, Handler, HandlesSignal, ReadRevision, MarkFailed, ReadCheckpoint,
               ReadPendingVM, Exit
<1>14. CASE UNCHANGED runvars
  BY <1>14 DEF runvars
<1>15. QED
  BY <1>1, <1>2, <1>3, <1>4, <1>5, <1>6, <1>7, <1>8, <1>9, <1>10, <1>11, <1>12,
     <1>13, <1>14 DEF RunNext, Main

LEMMA WrittenGrows ==
    /\ \A s \in Steps : Written(s) \subseteq Written("hook")
    /\ \A s \in Steps : Written(s) \subseteq Written("over")
    /\ Written("hook") \subseteq Written("over")
    /\ Written("report") \subseteq Written("bootstrap")
    /\ \A s \in Steps \ {"last"} : Written(s) \subseteq Written(After(s))
    /\ \A s \in NamedSteps : /\ Written(s) \subseteq Reached(Checkpoint[s])
                        /\ Checkpoint[s] \in Written(After(s))
                        /\ Checkpoint[s] \in Reached(Checkpoint[s])
<1>1. \A s \in Steps : Written(s) \subseteq P5
  BY StepsAre DEF Written, P1, P2, P3, P4, P5
<1>2. Written("hook") = P5 /\ Written("over") = P5
  BY DEF Written
<1>3. \A s \in Steps \ {"last"} : Written(s) \subseteq Written(After(s))
  BY StepsAre, AfterIs DEF Written, P1, P2, P3, P4, P5
<1>4. \A s \in NamedSteps : Written(s) \subseteq Reached(Checkpoint[s])
  BY CheckpointIs, ReachedIs DEF NamedSteps, Written, P1, P2, P3, P4, P5
<1>5. \A s \in NamedSteps : Checkpoint[s] \in Written(After(s))
  BY CheckpointIs, AfterIs DEF NamedSteps, Written, P1, P2, P3, P4, P5
<1>6. \A s \in NamedSteps : Checkpoint[s] \in Reached(Checkpoint[s])
  BY CheckpointIs, ReachedIs DEF NamedSteps, P1, P2, P3, P4, P5
<1>7. Written("report") \subseteq Written("bootstrap")
  BY DEF Written
<1>8. QED
  BY <1>1, <1>2, <1>3, <1>4, <1>5, <1>6, <1>7

LEMMA CellIsNotBehindStep == RunInv /\ [RunNext]_runvars => CellIsNotBehind'
<1> SUFFICES ASSUME RunInv, [RunNext]_runvars PROVE CellIsNotBehind'
  OBVIOUS
<1>0. runpc \in Steps \cup {"hook", "over"}
  BY DEF RunInv, RunTypes, RunTypeOK
<1> USE RunFacts, WrittenGrows, StepsAre
    DEF RunInv, VMKnown, CellIsNotBehind, SaidIsNotBehind, Alive
<1>1. CASE StartDeploy
  BY <1>1 DEF StartDeploy, RevisionAfterBox, NothingSeen
<1>2. CASE StepFails \/ AgentTimesOut \/ Report
  BY <1>0, <1>2 DEF StepFails, AgentTimesOut, Report, RunFails
<1>3. CASE NoteCheckpoint
  BY <1>3, NamedAre DEF NoteCheckpoint, NamedSteps
<1>4. CASE SaveCheckpoint
  BY <1>4, NamedAre DEF SaveCheckpoint, NamedSteps
<1>5. CASE SaveFails
  BY <1>5, NamedAre DEF SaveFails, RunFails, NamedSteps
<1>6. CASE SetPendingVM
  BY <1>6 DEF SetPendingVM
<1>7. CASE CreateVM
  BY <1>7 DEF CreateVM
<1>8. CASE ReportInProgress
  BY <1>8, AfterIs DEF ReportInProgress
<1>9. CASE SetDeployRev
  BY <1>9 DEF SetDeployRev
<1>10. CASE Progress
  BY <1>10 DEF Progress
<1>11. CASE FinalizeRevision
  BY <1>11 DEF FinalizeRevision
<1>12. CASE Hook
  BY <1>12 DEF Hook
<1>13. CASE Interrupt \/ ReadRevision \/ MarkFailed \/ ReadPendingVM
  BY <1>13 DEF Interrupt, HandlesSignal, ReadRevision, MarkFailed, ReadPendingVM, RunTypes
<1>14. CASE Kill \/ Exit
  BY <1>0, <1>14 DEF Kill, Exit
<1>15. CASE ReadCheckpoint
  BY <1>15 DEF ReadCheckpoint, HandlesSignal, RunTypes
<1>16. CASE UNCHANGED runvars
  BY <1>16 DEF runvars
<1>17. QED
  BY <1>1, <1>2, <1>3, <1>4, <1>5, <1>6, <1>7, <1>8, <1>9, <1>10, <1>11, <1>12,
     <1>13, <1>14, <1>15, <1>16 DEF RunNext, Main, Handler

LEMMA RunInvHolds == RunSpec => []RunInv
<1>1. RunInv /\ [RunNext]_runvars => RunInv'
  BY RunTypesStep, VMKnownStep, RevisionAfterBoxStep, CellIsNotBehindStep DEF RunInv
<1>2. QED
  BY <1>1, RunInvInit, PTL DEF RunSpec

-----------------------------------------------------------------------------
(* Theorems *)

\* RunTypeOK: the checkpoint being saved is that of the step the run is at.
THEOREM RunTypesCorrect == RunSpec => []RunTypeOK
<1>1. RunInv => RunTypeOK
  BY DEF RunInv, RunTypes
<1>2. QED
  BY <1>1, RunInvHolds, PTL

\* VMAnnounced, of the signal handler in app/command_deploy.go: however the
\* two goroutines interleave, a VM requested before the handler looked is named.
THEOREM VMAlwaysAnnounced == RunSpec => []VMAnnounced
<1>1. RunInv => VMAnnounced
  BY DEF RunInv, VMKnown
<1>2. QED
  BY <1>1, RunInvHolds, PTL

\* SaidIsNotBehind, of the same handler: the checkpoint it names is never one
\* that the record had passed when it read it.
THEOREM SaidIsNeverBehind == RunSpec => []SaidIsNotBehind
<1>1. RunInv => SaidIsNotBehind
  BY DEF RunInv, CellIsNotBehind
<1>2. QED
  BY <1>1, RunInvHolds, PTL

\* ErrorIsOwn, of runDeploy's deferred hook: an error goes only on a record
\* the failed run has written.
THEOREM ErrorsAreOwn == RunSpec => ErrorIsOwn
<1> DEFINE Own == rec'.err # rec.err /\ rec'.err # 0 => rec.by = run
<1>1. RunInv /\ [RunNext]_runvars => [Own]_runvars
  <2> SUFFICES ASSUME RunInv, RunNext, ~Own PROVE FALSE
    OBVIOUS
  <2>1. CASE SaveCheckpoint
    BY <2>1 DEF SaveCheckpoint
  <2>2. CASE Hook
    BY <2>2 DEF Hook, RunInv, RevisionAfterBox
  <2>3. CASE rec' = rec
    BY <2>3
  <2>4. QED
    BY <2>1, <2>2, <2>3 DEF RunNext, Main, StartDeploy, StepFails, NoteCheckpoint, SaveFails,
       SetPendingVM, CreateVM, ReportInProgress, SetDeployRev, Progress, AgentTimesOut,
       FinalizeRevision, Report, Interrupt, Handler, HandlesSignal, ReadRevision, MarkFailed,
       ReadCheckpoint, ReadPendingVM, Exit, Kill
<1>2. QED
  BY <1>1, RunInvHolds, PTL DEF RunSpec, ErrorIsOwn
=============================================================================
