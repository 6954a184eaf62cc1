----------------------------- MODULE K8sRelease -----------------------------
(***************************************************************************)
(* `nuzur-cli deploy --provider k8s` (app/deploy_k8s.go): generate, stamp   *)
(* the chart, commit and push, wait for the image that CI builds, release   *)
(* with helm, record.  One record, run after run, each of which may die     *)
(* anywhere.  A commit is named by its place in `commits` and stands for    *)
(* the image tag that CI publishes for it; code is what the generator       *)
(* emits for the project's version; chart versions are counted, 0 being     *)
(* the 0.0.1 of an unstamped chart and 1 the first released one.           *)
(***************************************************************************)
EXTENDS Naturals, Sequences, FiniteSets

CONSTANTS MaxK8sRuns, MaxPolls, Hosts

ASSUME K8sAssumption == MaxK8sRuns \in Nat /\ MaxPolls \in Nat \ {0}

VARIABLES k8pc,     \* the step the run is at
          k8runs,   \* runs begun
          k8run,    \* the run's deployState
          tree,     \* the workspace: what was generated, and the chart's version
          commits,  \* local history, each [code, chart]
          pushed,   \* how many of them origin has
          ci,       \* per commit: "none", "building", "success" or "failure"
          k8rec,    \* the deployment record's image and chart version
          live      \* what helm runs: image, chart version, ingress hosts

k8vars == <<k8pc, k8runs, k8run, tree, commits, pushed, ci, k8rec, live>>

NoImage == 0
NoK8sRun == [flags |-> {}, prior |-> [image |-> NoImage, chart |-> 0], code |-> 0,
          chart |-> 0, sha |-> NoImage, image |-> NoImage, hosts |-> {}, polls |-> 0,
          blind |-> "no"]

K8sFlags == {{}, {"no-wait"}, {"no-commit"}, {"no-commit", "no-wait"}, {"release-only"}}
Has(flag) == flag \in k8run.flags

K8sInit ==
    /\ k8pc = "idle" /\ k8runs = 0 /\ k8run = NoK8sRun
    /\ tree = [code |-> 0, chart |-> 0] /\ commits = <<tree>> /\ pushed = 1
    /\ ci = [c \in 1..(MaxK8sRuns + 1) |-> "none"]
    /\ k8rec = [image |-> NoImage, chart |-> 0]
    /\ live = [image |-> NoImage, chart |-> 0, hosts |-> {}]

To(pc) == k8pc' = pc
KeepCluster == UNCHANGED <<k8runs, pushed, ci, live>>

\* stepGenerate wipes .helm/ and emits an unstamped chart.
BeginK8s ==
    /\ k8pc = "idle" /\ k8runs < MaxK8sRuns /\ k8runs' = k8runs + 1
    /\ \E flags \in K8sFlags, hosts \in SUBSET Hosts :
         \E new \in {tree.code, k8runs + 1} :
           /\ k8run' = [NoK8sRun EXCEPT !.flags = flags, !.prior = k8rec, !.code = new, !.hosts = hosts]
           /\ IF "release-only" \in flags
              THEN To("image") /\ UNCHANGED tree
              ELSE To("stamp") /\ tree' = [code |-> new, chart |-> 0]
    /\ UNCHANGED <<commits, pushed, ci, k8rec, live>>

NextChartVersion(prior) == prior + 1

\* The version the record has, or the file's when no record has one.
Stamp ==
    /\ k8pc = "stamp"
    /\ LET prior == IF k8run.prior.chart # 0 THEN k8run.prior.chart ELSE tree.chart
       IN  /\ k8run' = [k8run EXCEPT !.chart = NextChartVersion(prior)]
           /\ tree'  = [tree EXCEPT !.chart = NextChartVersion(prior)]
    /\ To(IF Has("no-commit") THEN (IF Has("no-wait") THEN "image" ELSE "head") ELSE "commit")
    /\ KeepCluster /\ UNCHANGED <<commits, k8rec>>

HasChanges == tree # commits[Len(commits)]
AfterCommit == IF Has("no-wait") THEN "image" ELSE "ci"

\* git add and git commit of the workspace.
CommitTree ==
    /\ k8pc = "commit" /\ HasChanges
    /\ commits' = Append(commits, tree)
    /\ To("push") /\ KeepCluster /\ UNCHANGED <<k8run, tree, k8rec>>

\* Mutant: HEAD is taken without a look at the tree.
NoChangesUnchecked ==
    /\ k8pc = "commit"
    /\ k8run' = [k8run EXCEPT !.sha = Len(commits)]
    /\ To(AfterCommit) /\ KeepCluster /\ UNCHANGED <<tree, commits, k8rec>>

NoChanges ==
    /\ k8pc = "commit" /\ ~HasChanges
    /\ k8run' = [k8run EXCEPT !.sha = Len(commits)]
    /\ To(AfterCommit) /\ KeepCluster /\ UNCHANGED <<tree, commits, k8rec>>

\* A push sends all local commits; CI builds the newest.
Push ==
    /\ k8pc = "push"
    /\ pushed' = Len(commits) /\ ci' = [ci EXCEPT ![Len(commits)] = "building"]
    /\ k8run' = [k8run EXCEPT !.sha = Len(commits)]
    /\ To(AfterCommit) /\ UNCHANGED <<k8runs, tree, commits, k8rec, live>>

\* --no-commit: HEAD must have been pushed.
TakeHead ==
    /\ k8pc = "head"
    /\ IF Len(commits) <= pushed
       THEN k8run' = [k8run EXCEPT !.sha = Len(commits)] /\ To("ci")
       ELSE To("failed") /\ UNCHANGED k8run
    /\ KeepCluster /\ UNCHANGED <<tree, commits, k8rec>>

\* Mutant: the deadline is not looked at.
PollForever ==
    /\ k8pc = "ci" /\ UNCHANGED <<tree, commits, k8rec>> /\ KeepCluster
    /\ CASE ci[k8run.sha] = "success" -> To("image") /\ UNCHANGED k8run
         [] ci[k8run.sha] = "failure" -> To("failed") /\ UNCHANGED k8run
         [] OTHER -> UNCHANGED <<k8pc, k8run>>

\* One round of WaitForImageBuild: the newest run of this commit, then the deadline.
Poll ==
    /\ k8pc = "ci" /\ UNCHANGED <<tree, commits, k8rec>> /\ KeepCluster
    /\ CASE ci[k8run.sha] = "success" -> To("image") /\ UNCHANGED k8run
         [] ci[k8run.sha] = "failure" -> To("failed") /\ UNCHANGED k8run
         [] OTHER -> IF k8run.polls = MaxPolls
                     THEN To("failed") /\ UNCHANGED k8run
                     ELSE k8run' = [k8run EXCEPT !.polls = @ + 1] /\ UNCHANGED k8pc

CIBuilds ==
    \E c \in DOMAIN ci : /\ ci[c] = "building"
                         /\ \E r \in {"success", "failure"} : ci' = [ci EXCEPT ![c] = r]
                         /\ UNCHANGED <<k8pc, k8runs, k8run, tree, commits, pushed, k8rec, live>>

\* --release-only repeats what the prior record has; otherwise the commit names the image.
ResolveImage ==
    /\ k8pc = "image"
    /\ LET image == IF Has("release-only") THEN k8run.prior.image ELSE k8run.sha
           chart == IF Has("release-only") THEN k8run.prior.chart ELSE k8run.chart
       IN  IF image = NoImage THEN To("failed") /\ UNCHANGED k8run
           ELSE To("helm") /\ k8run' = [k8run EXCEPT !.image = image, !.chart = chart]
    /\ KeepCluster /\ UNCHANGED <<tree, commits, k8rec>>

\* guardIngressRemoval.
IngressGuard(count) == count <= Cardinality(k8run.hosts)

\* helm upgrade --wait --atomic: the pods become ready with an image that
\* exists, or the release stays what it was.  The chart is the one on disk.  A
\* cluster that cannot say which hosts it serves is taken to serve none.
Helm ==
    /\ k8pc = "helm" /\ UNCHANGED <<k8runs, tree, commits, pushed, ci, k8rec>>
    /\ \E blind \in {"yes", "no"} :
         /\ k8run' = [k8run EXCEPT !.blind = blind]
         /\ IF /\ IngressGuard(IF blind = "yes" THEN 0 ELSE Cardinality(live.hosts))
               /\ ci[k8run.image] = "success"
            THEN /\ To("record")
                 /\ live' = [image |-> k8run.image, chart |-> tree.chart, hosts |-> k8run.hosts]
            ELSE To("failed") /\ UNCHANGED live

Record ==
    /\ k8pc = "record" /\ To("done")
    /\ k8rec' = [image |-> k8run.image, chart |-> k8run.chart]
    /\ KeepCluster /\ UNCHANGED <<k8run, tree, commits>>

\* The run ends, or dies: an error of any step, a signal, a crash.
K8sEnds ==
    /\ k8pc # "idle" /\ To("idle") /\ k8run' = NoK8sRun
    /\ KeepCluster /\ UNCHANGED <<tree, commits, k8rec>>

K8sNext == \/ BeginK8s \/ Stamp \/ CommitTree \/ NoChanges \/ Push \/ TakeHead \/ Poll
        \/ CIBuilds \/ ResolveImage \/ Helm \/ Record \/ K8sEnds

K8sSpec == K8sInit /\ [][K8sNext]_k8vars

\* The poll loop runs on its own timer.
K8sFairSpec == K8sSpec /\ WF_k8vars(Poll)

-----------------------------------------------------------------------------
(* Properties *)

\* stepK8sCommitPush and stepK8sResolveImage: a deploy that commits and runs to
\* its end leaves the cluster with the code it generated, and with the chart
\* it stamped, whatever runs before it left in the tree or unpushed.
DeploysWhatItGenerated ==
    k8pc = "done" /\ k8run.flags \subseteq {"no-wait"} =>
        commits[live.image] = [code |-> k8run.code, chart |-> k8run.chart]
          /\ live.chart = k8run.chart

\* deploy/ci.go, WaitForImageBuild: the wait ends, even for a commit that no
\* workflow will ever run for.
CIWaitEnds == (k8pc = "ci") ~> (k8pc # "ci")

-----------------------------------------------------------------------------
(* What comments say and the code does not do *)

\* app/deploy_k8s.go:428, "The existing HEAD is what CI built": a commit that
\* is waited for has been pushed.
HeadWasPushed == k8pc = "ci" => k8run.sha <= pushed

\* app/deploy_k8s.go:488, "--release-only repeats the last deploy": the
\* chart it records is the chart it released.
ReleaseOnlyRepeats == k8pc = "done" => live.chart = k8rec.chart
=============================================================================
