------------------------------- MODULE Deploy -------------------------------
(***************************************************************************)
(* `nuzur-cli deploy' and `nuzur-cli destroy' over what they share: the    *)
(* machine's deployment records, the provider's VMs, the boxes and the     *)
(* agents registered in nuzur.  Each Clis is a terminal that runs one      *)
(* command at a time; the pipeline is one action per step that another     *)
(* process or a crash can get in between, and it may stop anywhere.        *)
(*                                                                         *)
(* Attempt n of deploy mints fresh values: the record id, the connection,  *)
(* the VM's resource name, and the agent its bootstrap would pair are all  *)
(* called n.  A VM is known by its resource name; its instance id and its  *)
(* address are that name too, once the deploy has learned them.            *)
(***************************************************************************)
EXTENDS DeployTargeting, FiniteSets

CONSTANTS
    Clis,          \* terminals
    Ssh,           \* the provider that uses a box of the user's
    GivenHosts,    \* boxes of the user's
    Apps,          \* <<project, identifier>> pairs that are deployed
    SelectorNewVM, \* whether --deployment or --host comes with --new-vm
    MaxAttempts,   \* bound: deploys started
    MaxDestroys    \* bound: destroys started

Attempts == 1..MaxAttempts

ASSUME SshIsGiven == Ssh \notin Managed /\ Ssh \notin {K8s, None}
ASSUME CommandBounds == MaxAttempts \in Nat /\ MaxDestroys \in Nat
ASSUME FewTerminals == IsFiniteSet(Clis)
\* An address is no resource name, and neither is empty.
ASSUME NamesDiffer == GivenHosts \cap Attempts = {} /\ None \notin GivenHosts \cup Attempts
ASSUME AppsAreNamed == \A app \in Apps : app[1] # None /\ app[2] # None
Boxes == GivenHosts \cup Attempts

VARIABLES
    attempts,   \* deploys started so far
    destroys,   \* destroys started so far
    recs,       \* the record store: a record, or None where there is no file
    vms,        \* VMs the provider runs, each with its provider and its app
    paired,     \* the agent whose credentials are on a box, or None
    registered, \* agents nuzur lists
    cli,        \* the running commands
    asked,      \* history: VMs named by a record that destroy removed
    excused     \* history: VMs a destroy kept or failed to delete, and said so

vars == <<attempts, destroys, recs, vms, paired, registered, cli, asked, excused>>
bounds == <<attempts, destroys>>
cloud == <<vms, paired, registered>>
history == <<asked, excused>>

NoRecs == [n \in Attempts |-> None]

NoRequest == [project |-> None, ident |-> None, prov |-> None, host |-> None,
              newVM |-> FALSE]

\* seen is the list of records a command read; prior and box are ids in it.
IdleCli ==
    [pc |-> "idle", n |-> 0, req |-> NoRequest, seen |-> NoRecs, id |-> None,
     prior |-> None, box |-> None, host |-> None, boxAgent |-> None,
     agent |-> None, existing |-> {}, dep |-> EmptyRecord, last |-> FALSE]

Init ==
    /\ attempts = 0 /\ destroys = 0
    /\ recs = NoRecs
    /\ vms = {} /\ paired = [b \in Boxes |-> None] /\ registered = {}
    /\ cli = [p \in Clis |-> IdleCli]
    /\ asked = {} /\ excused = {}

-----------------------------------------------------------------------------
(* Shared definitions *)

Running == {vm.name : vm \in vms}
BoxUp(b) == b \in GivenHosts \cup Running

\* time.Now: later than every stamp there is to compare it with.
Stamps == {recs[id].created : id \in Recorded(recs)}
            \cup UNION {{cli[p].seen[id].created : id \in Recorded(cli[p].seen)} : p \in Clis}
Now == IF Stamps = {} THEN 1 ELSE 1 + CHOOSE s \in Stamps : \A t \in Stamps : t <= s

\* MutateDeployment: load or create, change, and rename into place.
Loaded(id) == IF recs[id] = None THEN EmptyRecord ELSE recs[id]
Mutate(id, rec) == recs' = [recs EXCEPT ![id] = rec]

Goto(p, pc) == cli' = [cli EXCEPT ![p].pc = pc]

\* A record is a handle on VM n: destroy would find n from it.
Names(rec, n) ==
    /\ rec # None
    /\ CreatesInfrastructure(rec.prov)
    /\ rec.iid = n \/ (rec.iid = None /\ rec.rname = n)

-----------------------------------------------------------------------------
(* deploy: the request *)

Begin(p, req) ==
    /\ cli[p].pc = "idle" /\ attempts < MaxAttempts
    /\ attempts' = attempts + 1
    /\ cli' = [cli EXCEPT ![p] = [IdleCli EXCEPT !.pc = "decide",
                                                 !.n = attempts + 1, !.req = req]]
    /\ UNCHANGED <<destroys, recs, cloud, history>>

\* Flags only.  A managed provider creates its host, so --host is for Ssh.
Deploy(p) ==
    \E app \in Apps, prov \in Managed \cup {Ssh}, newVM \in BOOLEAN,
       host \in GivenHosts \cup Running \cup {None} :
        /\ (prov = Ssh) = (host # None)
        /\ prov = Ssh => ~newVM
        /\ Begin(p, [project |-> app[1], ident |-> app[2], prov |-> prov,
                     host |-> host, newVM |-> newVM])

\* --deployment id: the record's project, identifier, provider and host.
DeploySelected(p, id) ==
    /\ recs[id] # None /\ recs[id].project # None
    /\ recs[id].prov = Ssh => recs[id].host # None
    /\ \E newVM \in BOOLEAN :
          /\ newVM => SelectorNewVM /\ recs[id].prov # Ssh
          /\ Begin(p, [project |-> recs[id].project, ident |-> recs[id].ident,
                       prov |-> recs[id].prov, host |-> recs[id].host,
                       newVM |-> newVM])

\* A command stops: a step's error, Ctrl-C or a crash.  Records stay as the
\* last write left them.
Stop(p) ==
    /\ cli[p].pc # "idle"
    /\ cli' = [cli EXCEPT ![p] = IdleCli]
    /\ UNCHANGED <<bounds, recs, cloud, history>>

-----------------------------------------------------------------------------
(* deploy: the pipeline *)

\* stepDecideBox, from one read of the records.
DecideBox(p) ==
    LET req      == cli[p].req
        decision == DecideDeployBox(recs, req)
        reuse    == decision.action = "reuse"
        host     == IF reuse THEN recs[decision.box].host ELSE req.host
        prior    == PickPriorDeployment(recs, host, req.ident)
        id       == CASE prior # None -> prior
                      [] prior = None /\ reuse -> decision.box
                      [] OTHER -> cli[p].n
    IN  /\ cli[p].pc = "decide"
        /\ decision.action # "fail"
        \* this identifier on this host is another project's
        /\ prior # None => recs[prior].project \in {None, req.project}
        /\ reuse => BoxUp(host)
        /\ cli' = [cli EXCEPT ![p].pc = "token", ![p].seen = recs, ![p].id = id,
                              ![p].prior = prior, ![p].host = host,
                              ![p].box = IF reuse THEN decision.box ELSE None,
                              ![p].boxAgent = PickBoxAgent(recs, host)]
        /\ UNCHANGED <<bounds, recs, cloud, history>>

\* Mutant of IssueToken: no snapshot of the agents there are.
IssueTokenWithoutSnapshot(p) ==
    LET creates == CreatesInfrastructure(cli[p].req.prov) /\ cli[p].box = None
    IN  /\ cli[p].pc = "token"
        /\ Goto(p, IF creates THEN "pending" ELSE "record")
        /\ UNCHANGED <<bounds, recs, cloud, history>>

\* stepIssueToken: the snapshot of the agents that exist now.
IssueToken(p) ==
    LET creates == CreatesInfrastructure(cli[p].req.prov) /\ cli[p].box = None
    IN  /\ cli[p].pc = "token"
        /\ cli' = [cli EXCEPT ![p].existing = registered,
                              ![p].pc = IF creates THEN "pending" ELSE "record"]
        /\ UNCHANGED <<bounds, recs, cloud, history>>

\* Mutant of PendingRecord: the reserved name is not written.
PendingRecordUnnamed(p) ==
    /\ cli[p].pc = "pending"
    /\ Mutate(cli[p].id,
              [Loaded(cli[p].id) EXCEPT
                 !.prov = cli[p].req.prov,
                 !.provisioning = TRUE, !.ident = cli[p].req.ident,
                 !.project = cli[p].req.project, !.created = Now,
                 !.step = "pending_recorded"])
    /\ Goto(p, "create")
    /\ UNCHANGED <<bounds, cloud, history>>

\* stepPendingRecord: the VM's name is on disk before the create call.
PendingRecord(p) ==
    /\ cli[p].pc = "pending"
    /\ Mutate(cli[p].id,
              [Loaded(cli[p].id) EXCEPT
                 !.prov = cli[p].req.prov, !.rname = cli[p].n,
                 !.provisioning = TRUE, !.ident = cli[p].req.ident,
                 !.project = cli[p].req.project, !.created = Now,
                 !.step = "pending_recorded"])
    /\ Goto(p, "create")
    /\ UNCHANGED <<bounds, cloud, history>>

\* The provider creates the VM; its failure is Stop, before or after.
CreateVM(p) ==
    /\ cli[p].pc = "create"
    /\ vms' = vms \cup {[name |-> cli[p].n, prov |-> cli[p].req.prov,
                         project |-> cli[p].req.project, ident |-> cli[p].req.ident,
                         extra |-> cli[p].req.newVM]}
    /\ Goto(p, "created")
    /\ UNCHANGED <<bounds, recs, paired, registered, history>>

\* OnInstanceCreated: the address may not be known yet, and a failed save is
\* only warned about.
InstanceCreated(p) ==
    /\ cli[p].pc = "created"
    /\ \/ \E host \in {cli[p].n, Loaded(cli[p].id).host} :
             Mutate(cli[p].id, [Loaded(cli[p].id) EXCEPT
                                  !.iid = cli[p].n, !.host = host,
                                  !.step = "instance_created"])
       \/ UNCHANGED recs
    /\ Goto(p, "record")
    /\ UNCHANGED <<bounds, cloud, history>>

\* The box Provision returned: a new VM, the recorded box, or --host.
Target(p) == IF CreatesInfrastructure(cli[p].req.prov) /\ cli[p].box = None
             THEN cli[p].n ELSE cli[p].host

\* stepRecordBox, after SSH answered.  The VM's handles are the new VM's, or
\* those of the reused record, or (over Ssh) the prior record's.
RecordBox(p) ==
    LET c    == cli[p]
        seen == c.seen
        new  == CreatesInfrastructure(c.req.prov) /\ c.box = None
        rec  == [Loaded(c.id) EXCEPT
                   !.prov = c.req.prov, !.provisioning = FALSE, !.host = Target(p),
                   !.iid   = IF new THEN c.n ELSE
                             IF c.box # None THEN seen[c.box].iid ELSE None,
                   !.rname = IF new THEN c.n ELSE
                             IF c.box # None THEN seen[c.box].rname ELSE None,
                   !.ident = c.req.ident, !.project = c.req.project,
                   !.conn = FirstNonEmpty(IF c.prior = None THEN None
                                          ELSE seen[c.prior].conn, c.n),
                   !.agent = KnownAgent(seen, c.prior, c.boxAgent, c.box),
                   !.step = "box_recorded"]
    IN  /\ c.pc = "record" /\ BoxUp(Target(p))
        /\ Mutate(c.id,
             CASE c.prior # None ->
                    [CarryForwardProvisioning(rec, seen[c.prior], c.req.prov)
                       EXCEPT !.created = seen[c.prior].created]
               [] c.prior = None /\ c.box # None ->
                    [rec EXCEPT !.created = seen[c.box].created]
               [] OTHER -> [rec EXCEPT !.created = Now])
        /\ cli' = [cli EXCEPT ![p].pc = "bootstrap", ![p].seen = NoRecs]
        /\ UNCHANGED <<bounds, cloud, history>>

\* stepBootstrap: the script pairs the box only if it is not paired already.
Bootstrap(p) ==
    LET b == Target(p)
    IN  /\ cli[p].pc = "bootstrap" /\ BoxUp(b)
        /\ IF paired[b] = None
           THEN /\ paired' = [paired EXCEPT ![b] = cli[p].n]
                /\ registered' = registered \cup {cli[p].n}
           ELSE UNCHANGED <<paired, registered>>
        /\ Goto(p, "agent")
        /\ UNCHANGED <<bounds, recs, vms, history>>

\* An agent's daemon is connected while its box runs and nuzur knows it.
Online(a) == a \in registered /\ \E b \in Boxes : BoxUp(b) /\ paired[b] = a

NewAgents(p) == registered \ cli[p].existing

\* stepWaitAgent: the known agent, online or not, or one that was not there
\* before; with neither the step times out.
WaitAgent(p) ==
    /\ cli[p].pc = "agent"
    /\ \E a \in IF cli[p].boxAgent # None THEN {cli[p].boxAgent} ELSE NewAgents(p) :
          /\ \/ cli[p].boxAgent # None \/ Online(a)
             \/ \A other \in NewAgents(p) : ~Online(other)
          /\ cli' = [cli EXCEPT ![p].pc = "finalize", ![p].agent = a]
          /\ \/ Mutate(cli[p].id, [Loaded(cli[p].id) EXCEPT
                                     !.agent = a, !.step = "agent_paired"])
             \/ UNCHANGED recs
    /\ UNCHANGED <<bounds, cloud, history>>

\* Mutant of FinalizeRecord: it trusts the pairing step to have saved the agent.
FinalizeRecordWithoutAgent(p) ==
    /\ cli[p].pc = "finalize"
    /\ Mutate(cli[p].id, [Loaded(cli[p].id) EXCEPT !.step = "finalized"])
    /\ cli' = [cli EXCEPT ![p] = IdleCli]
    /\ UNCHANGED <<bounds, cloud, history>>

\* stepFinalizeRecord.  What follows it writes no record.
FinalizeRecord(p) ==
    /\ cli[p].pc = "finalize"
    /\ Mutate(cli[p].id, [Loaded(cli[p].id) EXCEPT
                            !.agent = cli[p].agent, !.step = "finalized"])
    /\ cli' = [cli EXCEPT ![p] = IdleCli]
    /\ UNCHANGED <<bounds, cloud, history>>

DeployStep(p) ==
    \/ DecideBox(p) \/ IssueToken(p) \/ PendingRecord(p) \/ CreateVM(p)
    \/ InstanceCreated(p) \/ RecordBox(p) \/ Bootstrap(p) \/ WaitAgent(p)
    \/ FinalizeRecord(p)

-----------------------------------------------------------------------------
(* destroy *)

\* LoadDeployment.
Destroy(p, id) ==
    /\ cli[p].pc = "idle" /\ recs[id] # None /\ destroys < MaxDestroys
    /\ destroys' = destroys + 1
    /\ cli' = [cli EXCEPT ![p] = [IdleCli EXCEPT !.pc = "list", !.id = id,
                                                 !.dep = recs[id]]]
    /\ UNCHANGED <<attempts, recs, cloud, history>>

\* After the login: one read of the records answers who else is on the box
\* and which agent it runs.
ListDeployments(p) ==
    LET dep == cli[p].dep
    IN  /\ cli[p].pc = "list"
        /\ cli' = [cli EXCEPT
             ![p].pc = "teardown",
             ![p].last = IsLast(recs, cli[p].id, dep.host),
             ![p].agent = FirstNonEmpty(dep.agent, PickBoxAgent(recs, dep.host))]
        /\ UNCHANGED <<bounds, recs, cloud, history>>

\* The script on the box: the last project takes the agent's credentials
\* with it.  --skip-server, or a failure with a warning, leaves the box alone.
Teardown(p) ==
    LET c == cli[p]
        runs == ~c.dep.provisioning /\ BoxUp(c.dep.host)
    IN  /\ c.pc = "teardown"
        /\ \/ runs /\ c.last /\ paired' = [paired EXCEPT ![c.dep.host] = None]
           \/ UNCHANGED paired
        /\ Goto(p, "revoke")
        /\ UNCHANGED <<bounds, recs, vms, registered, history>>

\* The last project revokes the agent; a failure is only warned about.
RevokeAgent(p) ==
    /\ cli[p].pc = "revoke"
    /\ \/ cli[p].last /\ registered' = registered \ {cli[p].agent}
       \/ UNCHANGED registered
    /\ Goto(p, "vm")
    /\ UNCHANGED <<bounds, recs, vms, paired, history>>

\* The VM goes with the last project, found by instance id, or by the
\* reserved name when the id was never learned.
DeleteVM(p) ==
    LET c       == cli[p]
        n       == FirstNonEmpty(c.dep.iid, c.dep.rname)
        managed == CreatesInfrastructure(c.dep.prov) /\ n # None
        found   == {vm \in vms : vm.name = n /\ vm.prov = c.dep.prov}
    IN  /\ c.pc = "vm"
        /\ \/ /\ c.last /\ managed
              /\ vms' = vms \ found
              /\ paired' = [b \in Boxes |-> IF \E vm \in found : vm.name = b
                                            THEN None ELSE paired[b]]
              /\ UNCHANGED excused
           \* --keep-vm, or the provider's answer is an error
           \/ /\ c.last /\ managed
              /\ excused' = excused \cup {n}
              /\ UNCHANGED <<vms, paired>>
           \/ /\ ~(c.last /\ managed)
              /\ UNCHANGED <<vms, paired, excused>>
        /\ Goto(p, "remove")
        /\ UNCHANGED <<bounds, recs, registered, asked>>

\* The record goes whatever became of the rest.
RemoveRecord(p) ==
    LET c == cli[p]
    IN  /\ c.pc = "remove"
        /\ recs' = [recs EXCEPT ![c.id] = None]
        /\ asked' = asked \cup {n \in Attempts : Names(c.dep, n) \/ Names(recs[c.id], n)}
        /\ cli' = [cli EXCEPT ![p] = IdleCli]
        /\ UNCHANGED <<bounds, cloud, excused>>

DestroyStep(p) ==
    \/ ListDeployments(p) \/ Teardown(p) \/ RevokeAgent(p) \/ DeleteVM(p)
    \/ RemoveRecord(p)

-----------------------------------------------------------------------------
(* The specification *)

Next ==
    \E p \in Clis :
        \/ Deploy(p) \/ (\E id \in Attempts : DeploySelected(p, id))
        \/ DeployStep(p)
        \/ (\E id \in Attempts : Destroy(p, id)) \/ DestroyStep(p)
        \/ Stop(p)

Spec == Init /\ [][Next]_vars

-----------------------------------------------------------------------------
(* Properties *)

Projects == {app[1] : app \in Apps}
Idents == {app[2] : app \in Apps}

Record ==
    [prov : Managed \cup {Ssh, None}, project : Projects \cup {None},
     ident : Idents \cup {None}, host : Boxes \cup {None},
     rname : Attempts \cup {None}, iid : Attempts \cup {None},
     provisioning : BOOLEAN, agent : Attempts \cup {None},
     conn : Attempts \cup {None}, step : Checkpoints, created : Nat]

ASSUME NoneIsNoRecord == None \notin Record

Requests ==
    [project : Projects \cup {None}, ident : Idents \cup {None},
     prov : Managed \cup {Ssh, None}, host : Boxes \cup {None}, newVM : BOOLEAN]

Stores == [Attempts -> Record \cup {None}]

VMs == [name : Attempts, prov : Managed \cup {Ssh, None}, project : Projects \cup {None},
        ident : Idents \cup {None}, extra : BOOLEAN]

DeployPcs == {"decide", "token", "pending", "create", "created", "record", "bootstrap",
              "agent", "finalize"}
DestroyPcs == {"list", "teardown", "revoke", "vm", "remove"}

Commands ==
    [pc : DeployPcs \cup DestroyPcs \cup {"idle"}, n : 0..MaxAttempts, req : Requests,
     seen : Stores, id : Attempts \cup {None}, prior : Attempts \cup {None},
     box : Attempts \cup {None}, host : Boxes \cup {None},
     boxAgent : Attempts \cup {None}, agent : Attempts \cup {None},
     existing : SUBSET Attempts, dep : Record, last : BOOLEAN]

\* Every variable has its type.
TypeOK ==
    /\ attempts \in 0..MaxAttempts /\ destroys \in 0..MaxDestroys
    /\ recs \in Stores /\ vms \subseteq VMs
    /\ paired \in [Boxes -> Attempts \cup {None}] /\ registered \subseteq Attempts
    /\ cli \in [Clis -> Commands]
    /\ asked \subseteq Attempts /\ excused \subseteq Attempts

\* app/deploy_pipeline.go, stepPendingRecord: wherever deploy stops, and
\* however often it is run again over Ssh, by record or on a reused box, a
\* running VM that nobody asked to destroy is one destroy can find from a
\* record.
VMTracked ==
    \A n \in Running \ asked : \E id \in Attempts : Names(recs[id], n)

\* app/deploy_targeting.go, decideDeployBox: without --new-vm an app gets no
\* second VM of a provider while it has one it did not ask to destroy.
OneVMPerApp ==
    \A v, w \in vms :
        /\ v.name < w.name /\ {v.name, w.name} \cap asked = {}
        /\ <<v.prov, v.project, v.ident>> = <<w.prov, w.project, w.ident>>
        => w.extra

\* deploy/state.go, the checkpoints: what a record's last step says is on the
\* record, after any sequence of runs that died.
CheckpointFacts ==
    \A id \in Recorded(recs) :
        LET rec == recs[id]
        IN  /\ rec.provisioning => rec.step \in {"pending_recorded", "instance_created"}
            /\ StepRank(rec.step) >= StepRank("box_recorded") =>
                 ~rec.provisioning /\ rec.host # None /\ rec.conn # None
            /\ StepRank(rec.step) >= StepRank("agent_paired") => rec.agent # None

\* app/deploy_pipeline.go, stepWaitAgent: until something is destroyed, the
\* agent on a record is the one that the record's box runs.
AgentOfBox ==
    destroys = 0 => \A id \in Recorded(recs) :
        LET rec == recs[id]
        IN  rec.agent # None /\ rec.host # None /\ paired[rec.host] # None
               => rec.agent = paired[rec.host]

\* app/command_deploy.go:508-511, "while other projects are live, the agent
\* must survive": destroy never revokes the agent of another record.
SharedAgentSurvives ==
    [][\A p \in Clis :
          cli[p].pc = "revoke" /\ registered' # registered =>
             \A id \in Recorded(recs) \ {cli[p].id} :
                recs[id].agent # None => recs[id].agent # cli[p].agent]_vars

-----------------------------------------------------------------------------
(* What a usage text promises and the code does not do *)

\* app/command_deploy.go:469, --keep-vm: "the VM nuzur created is deleted
\* when the last project on it is destroyed".
LastDestroyDeletesVM ==
    \A n \in (asked \cap Running) \ excused :
        \E id \in Recorded(recs) : recs[id].host = n \/ Names(recs[id], n)
=============================================================================
