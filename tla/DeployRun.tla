----------------------------- MODULE DeployRun -----------------------------
(***************************************************************************)
(* One machine's runs of `deploy' on one record, seen from what an         *)
(* interrupt can cut in two: the checkpoints written to the record, the    *)
(* revision opened in nuzur, and the goroutine that handles Ctrl-C, which  *)
(* sees the deploy only through the interrupt cell, one field at a time,   *)
(* while the main goroutine goes on.  What the steps do to the box is left *)
(* out (see Deploy).  A revision is named by its run.                      *)
(***************************************************************************)
EXTENDS Naturals, Sequences

CONSTANTS MaxRuns \* bound: runs started

ASSUME RunBound == MaxRuns \in Nat \ {0}

VARIABLES
    run,   \* the number of the latest run, 0 before the first
    runpc,    \* its main goroutine: a step, or "hook", or "over"
    noted, \* that step's checkpoint while it is noted and not yet saved, else "none"
    runErr,   \* what the run returns: "nil", "plain" or "exit" (*cli.ExitError)
    cell,  \* the interrupt cell: revision, checkpoint, pending VM
    sig,   \* the signal handler: how far it got
    said,  \* the revision, checkpoint and VM the handler read and named
    seen,  \* history: the record's checkpoint and the VM when it read them
    rec,   \* the record: whose, its checkpoint, and the run of its LastError
    revs,  \* status of each run's revision in nuzur
    vm     \* the run whose VM creation was requested, 0 if none was

runvars == <<run, runpc, noted, runErr, cell, sig, said, seen, rec, revs, vm>>

Runs == 1..MaxRuns
NoCell == [rev |-> 0, cp |-> "none", vm |-> 0]
NoWord == [rev |-> 0, cp |-> "none", vm |-> 0]
NothingSeen == [step |-> "none", vm |-> 0]

\* The steps this module tells apart, in the pipeline's order.
NewVM == <<"pending", "setvm", "create", "created", "box", "report", "setrev",
           "bootstrap", "agent", "publish", "schema", "finalize", "activate", "last">>
Steps == {NewVM[i] : i \in 1..Len(NewVM)}
Order == [managed |-> NewVM, given |-> SubSeq(NewVM, 5, Len(NewVM))]

After(step) == LET at == CHOOSE i \in 1..Len(NewVM) : NewVM[i] = step
               IN  NewVM[at + 1]

Checkpoint ==
    [pending |-> "pending_recorded", created |-> "instance_created",
     box |-> "box_recorded", agent |-> "agent_paired", finalize |-> "finalized"]

RunInit ==
    /\ run = 0 /\ runpc = "over" /\ noted = "none" /\ runErr = "nil"
    /\ cell = NoCell /\ sig = "none" /\ said = NoWord /\ seen = NothingSeen
    /\ rec = [by |-> 0, step |-> "none", err |-> 0]
    /\ revs = [r \in Runs |-> "none"]
    /\ vm = 0

-----------------------------------------------------------------------------
(* The main goroutine *)

Alive == runpc # "over"

StartDeploy ==
    /\ ~Alive /\ run < MaxRuns
    /\ run' = run + 1
    /\ \E kind \in DOMAIN Order : runpc' = Head(Order[kind])
    /\ noted' = "none" /\ runErr' = "nil" /\ cell' = NoCell
    /\ sig' = "none" /\ said' = NoWord /\ seen' = NothingSeen
    /\ UNCHANGED <<rec, revs, vm>>

RunFails(e) == runpc' = "hook" /\ runErr' = e

\* A step without a checkpoint of its own returns an error.
StepFails ==
    /\ runpc \in {"create", "bootstrap"} /\ RunFails("plain")
    /\ UNCHANGED <<run, noted, cell, sig, said, seen, rec, revs, vm>>

\* Mutant of NoteCheckpoint: the cell is not told.
NoteCheckpointNot ==
    /\ runpc \in DOMAIN Checkpoint /\ noted = "none"
    /\ noted' = Checkpoint[runpc]
    /\ UNCHANGED <<run, runpc, runErr, cell, sig, said, seen, rec, revs, vm>>

\* noteCheckpoint runs inside the mutator, before the file is written ...
NoteCheckpoint ==
    /\ runpc \in DOMAIN Checkpoint /\ noted = "none"
    /\ noted' = Checkpoint[runpc]
    /\ cell' = [cell EXCEPT !.cp = noted']
    /\ UNCHANGED <<run, runpc, runErr, sig, said, seen, rec, revs, vm>>

\* ... and the rename makes it the record's.  The final one clears LastError.
SaveCheckpoint ==
    /\ noted # "none"
    /\ rec' = [by |-> run, step |-> noted,
               err |-> IF runpc = "finalize" THEN 0 ELSE rec.err]
    /\ noted' = "none" /\ runpc' = After(runpc)
    /\ UNCHANGED <<run, runErr, cell, sig, said, seen, revs, vm>>

\* The save fails: a warning for OnInstanceCreated and the pairing, else fatal.
SaveFails ==
    /\ noted # "none" /\ noted' = "none"
    /\ IF runpc \in {"created", "agent"} THEN runpc' = After(runpc) /\ UNCHANGED runErr
                                      ELSE RunFails("plain")
    /\ UNCHANGED <<run, cell, sig, said, seen, rec, revs, vm>>

\* Mutant of SetPendingVM: the handler is not told.
SetPendingVMNot ==
    /\ runpc = "setvm" /\ runpc' = After(runpc)
    /\ UNCHANGED <<run, noted, runErr, cell, sig, said, seen, rec, revs, vm>>

SetPendingVM ==
    /\ runpc = "setvm" /\ runpc' = After(runpc)
    /\ cell' = [cell EXCEPT !.vm = run]
    /\ UNCHANGED <<run, noted, runErr, sig, said, seen, rec, revs, vm>>

CreateVM ==
    /\ runpc = "create" /\ runpc' = After(runpc)
    /\ vm' = run
    /\ UNCHANGED <<run, noted, runErr, cell, sig, said, seen, rec, revs>>

\* stepReportInProgress: the revision is open in nuzur before its uuid is
\* here; an error, the reply lost or not, leaves the run without one.
ReportInProgress ==
    /\ runpc = "report"
    /\ \/ revs' = [revs EXCEPT ![run] = "in progress"] /\ runpc' = "setrev"
       \/ revs' \in {revs, [revs EXCEPT ![run] = "in progress"]} /\ runpc' = "bootstrap"
    /\ UNCHANGED <<run, noted, runErr, cell, sig, said, seen, rec, vm>>

SetDeployRev ==
    /\ runpc = "setrev" /\ runpc' = After(runpc)
    /\ cell' = [cell EXCEPT !.rev = run]
    /\ UNCHANGED <<run, noted, runErr, sig, said, seen, rec, revs, vm>>

\* updateDeployRevision: nothing without a revision, best-effort with one.
UpdateRevision(status) ==
    \/ cell.rev # 0 /\ revs' = [revs EXCEPT ![cell.rev] = status]
    \/ UNCHANGED revs

\* Steps that report progress: none of them has a checkpoint to write, and
\* neither publishing nor the schema fails the deploy.
Progress ==
    /\ runpc \in {"bootstrap", "publish", "schema"}
    /\ UpdateRevision("in progress")
    /\ runpc' = After(runpc)
    /\ UNCHANGED <<run, noted, runErr, cell, sig, said, seen, rec, vm>>

\* stepWaitAgent times out before its checkpoint.
AgentTimesOut ==
    /\ runpc = "agent" /\ noted = "none" /\ RunFails("plain")
    /\ UNCHANGED <<run, noted, cell, sig, said, seen, rec, revs, vm>>

\* stepFinalizeRevision: the revision of step 6c, or a new one, best-effort.
FinalizeRevision ==
    /\ runpc = "activate" /\ runpc' = After(runpc)
    /\ revs' \in {revs, [revs EXCEPT ![run] = "active"]}
    /\ UNCHANGED <<run, noted, runErr, cell, sig, said, seen, rec, vm>>

\* stepReport: a schema that did not reach the database is an exit error.
Report ==
    /\ runpc = "last"
    /\ \E e \in {"nil", "exit"} : RunFails(e)
    /\ UNCHANGED <<run, noted, cell, sig, said, seen, rec, revs, vm>>

RevisionShouldFail(e) == e = "plain"

\* Mutant of Hook: LastError is written without a revision of this run, too.
HookWithoutRevision ==
    /\ runpc = "hook" /\ runpc' = "over"
    /\ IF RevisionShouldFail(runErr)
       THEN /\ UpdateRevision("failed")
            /\ rec' \in {rec, IF rec.by = 0 THEN rec ELSE [rec EXCEPT !.err = run]}
       ELSE UNCHANGED <<revs, rec>>
    /\ UNCHANGED <<run, noted, runErr, cell, sig, said, seen, vm>>

\* The deferred hook; LastError goes on a record that exists.
Hook ==
    /\ runpc = "hook" /\ runpc' = "over"
    /\ IF cell.rev # 0 /\ RevisionShouldFail(runErr)
       THEN /\ UpdateRevision("failed")
            /\ rec' \in {rec, IF rec.by = 0 THEN rec ELSE [rec EXCEPT !.err = run]}
       ELSE UNCHANGED <<revs, rec>>
    /\ UNCHANGED <<run, noted, runErr, cell, sig, said, seen, vm>>

-----------------------------------------------------------------------------
(* The signal handler, and SIGKILL *)

Interrupt ==
    /\ Alive /\ runpc # "hook" /\ sig = "none"
    /\ sig' = "caught"
    /\ UNCHANGED <<run, runpc, noted, runErr, cell, said, seen, rec, revs, vm>>

\* The handler's steps; the main goroutine may get in between any two, and may
\* end the process before the last.
HandlesSignal(from, to) ==
    /\ Alive /\ sig = from /\ sig' = to
    /\ UNCHANGED <<run, noted, runErr, cell, rec, vm>>

ReadRevision ==
    /\ HandlesSignal("caught", "marking")
    /\ said' = [said EXCEPT !.rev = cell.rev]
    /\ UNCHANGED <<runpc, seen, revs>>

\* An RPC, best-effort, for a revision that the handler knows.
MarkFailed ==
    /\ HandlesSignal("marking", "marked")
    /\ \/ said.rev # 0 /\ revs' = [revs EXCEPT ![said.rev] = "failed"]
       \/ UNCHANGED revs
    /\ UNCHANGED <<runpc, said, seen>>

ReadCheckpoint ==
    /\ HandlesSignal("marked", "checkpoint")
    /\ said' = [said EXCEPT !.cp = cell.cp]
    /\ seen' = [seen EXCEPT !.step = IF rec.by = run THEN rec.step ELSE "none"]
    /\ UNCHANGED <<runpc, revs>>

ReadPendingVM ==
    /\ HandlesSignal("checkpoint", "vm")
    /\ said' = [said EXCEPT !.vm = cell.vm]
    /\ seen' = [seen EXCEPT !.vm = vm]
    /\ UNCHANGED <<runpc, revs>>

\* os.Exit(130), wherever the main goroutine is by now.
Exit ==
    /\ Alive /\ sig = "vm" /\ sig' = "exited"
    /\ runpc' = "over" /\ noted' = "none"
    /\ UNCHANGED <<run, runErr, cell, said, seen, rec, revs, vm>>

Kill ==
    /\ Alive /\ runpc' = "over" /\ noted' = "none"
    /\ UNCHANGED <<run, runErr, cell, sig, said, seen, rec, revs, vm>>

Handler == ReadRevision \/ MarkFailed \/ ReadCheckpoint \/ ReadPendingVM \/ Exit

Main ==
    \/ StepFails \/ NoteCheckpoint \/ SaveCheckpoint \/ SaveFails
    \/ SetPendingVM \/ CreateVM \/ ReportInProgress \/ SetDeployRev \/ Progress
    \/ AgentTimesOut \/ FinalizeRevision \/ Report \/ Hook

RunNext == StartDeploy \/ Main \/ Interrupt \/ Handler \/ Kill

RunSpec == RunInit /\ [][RunNext]_runvars

-----------------------------------------------------------------------------
(* Properties *)

RunTypeOK ==
    /\ run \in 0..MaxRuns /\ vm \in 0..MaxRuns
    /\ runpc \in Steps \cup {"hook", "over"}
    /\ noted # "none" => runpc \in DOMAIN Checkpoint /\ noted = Checkpoint[runpc]
    /\ runErr \in {"nil", "plain", "exit"}
    /\ cell.rev \in 0..MaxRuns /\ cell.vm \in 0..MaxRuns
    /\ sig \in {"none", "caught", "marking", "marked", "checkpoint", "vm", "exited"}
    /\ rec.by \in 0..MaxRuns /\ rec.err \in 0..MaxRuns
    /\ revs \in [Runs -> {"none", "in progress", "active", "failed"}]

\* app/command_deploy.go:207, the signal handler: a VM that was requested by
\* the time the handler looks for one is named to whoever pressed Ctrl-C.  One
\* requested after that, and before the exit, is not; the record has it.
VMAnnounced == seen.vm = run => said.vm = run

Checkpoints == <<"pending_recorded", "instance_created", "box_recorded",
                 "agent_paired", "finalized">>

\* The checkpoints a run has reached when the latest is cp.
Reached(cp) == {Checkpoints[i] : i \in {i \in 1..Len(Checkpoints) :
                                  \E j \in i..Len(Checkpoints) : Checkpoints[j] = cp}}

\* app/command_deploy.go:195-205: the checkpoint that the handler names may be
\* one the record does not have yet, and the run may go past it before it dies,
\* but it is never one that the record had passed when the handler read it.
SaidIsNotBehind == seen.step # "none" => seen.step \in Reached(said.cp)

\* app/command_deploy.go, the hook: a run puts its error only on a record it
\* has written itself, never on the one an earlier deploy left.
ErrorIsOwn ==
    [][rec'.err # rec.err /\ rec'.err # 0 => rec.by = run]_runvars

-----------------------------------------------------------------------------
(* What a comment promises and the code does not do *)

\* app/command_deploy.go:193, "Interrupted (%s) before the deploy was
\* recorded in nuzur", said when the handler knows no revision: then none is
\* left in progress there (lines 165-168, "strand the revision").
InterruptStrandsNothing ==
    sig = "exited" /\ said.rev = 0 => revs[run] # "in progress"
=============================================================================
