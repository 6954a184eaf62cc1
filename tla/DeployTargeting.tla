-------------------------- MODULE DeployTargeting --------------------------
(***************************************************************************)
(* The deployment records a machine keeps and the decisions a deploy takes *)
(* from them: which box, which earlier record, which shared agent.         *)
(*                                                                         *)
(* A record store is a function from record ids to a record, or to None    *)
(* where no file exists.  None is also the empty string of a field.  What  *)
(* the code calls a host is a box here: a VM, or a host of the user's.     *)
(***************************************************************************)
EXTENDS Naturals

CONSTANTS
    Managed, \* providers that create infrastructure
    K8s,     \* the provider that needs no agent
    None     \* no record, or an empty field

ASSUME ProviderKinds == K8s \notin Managed /\ None \notin Managed

Checkpoints == {"", "pending_recorded", "instance_created", "box_recorded",
                "agent_paired", "released", "finalized"}

\* An unknown checkpoint ranks like none at all.
StepRank(step) ==
    CASE step = "pending_recorded" -> 1
      [] step = "instance_created" -> 2
      [] step = "box_recorded"     -> 3
      [] step = "agent_paired"     -> 4
      [] step = "released"         -> 5
      [] step = "finalized"        -> 6
      [] OTHER                     -> 0

EmptyRecord ==
    [prov |-> None, project |-> None, ident |-> None, host |-> None,
     rname |-> None, iid |-> None, provisioning |-> FALSE,
     agent |-> None, conn |-> None, step |-> "", created |-> 0]

CreatesInfrastructure(prov) == prov \in Managed

Recorded(deps) == {id \in DOMAIN deps : deps[id] # None}

\* The last created of the records in S.
Newest(deps, S) ==
    IF S = {} THEN None
    ELSE CHOOSE i \in S : \A j \in S : deps[j].created <= deps[i].created

FirstNonEmpty(a, b) == IF a # None THEN a ELSE b

\* "Got far enough to continue from".
Usable(d) ==
    \/ d.prov = K8s
    \/ d.agent # None
    \/ StepRank(d.step) >= StepRank("agent_paired")

PickPriorDeployment(deps, host, ident) ==
    Newest(deps, {id \in Recorded(deps) :
                    /\ deps[id].host = host /\ deps[id].ident = ident
                    /\ Usable(deps[id])})

\* The agent any project's record knows for this host.
PickBoxAgent(deps, host) ==
    LET id == Newest(deps, {i \in Recorded(deps) :
                              deps[i].host = host /\ deps[i].agent # None})
    IN  IF id = None THEN None ELSE deps[id].agent

PickManagedBox(deps, project, ident) ==
    Newest(deps, {id \in Recorded(deps) :
                    /\ deps[id].ident = ident
                    /\ deps[id].project \in {None, project}
                    /\ CreatesInfrastructure(deps[id].prov)})

\* Mutant of DecideDeployBox: a record without a host is provisioned again.
DecideIgnoresHalfBorn(deps, req) ==
    LET box     == PickManagedBox(deps, req.project, req.ident)
        managed == CreatesInfrastructure(req.prov)
        same    == box # None /\ deps[box].prov = req.prov /\ deps[box].host # None
    IN  [box |-> box,
         action |-> CASE ~managed                      -> "given"
                      [] managed /\ (~same \/ req.newVM) -> "provision"
                      [] OTHER                         -> "reuse"]

\* A request is what the flags ask for; host is --host, None when not given.
DecideDeployBox(deps, req) ==
    LET box     == PickManagedBox(deps, req.project, req.ident)
        managed == CreatesInfrastructure(req.prov)
        same    == box # None /\ deps[box].prov = req.prov
    IN  [box |-> box,
         action |-> CASE ~managed                      -> "given"
                      [] managed /\ (~same \/ req.newVM) -> "provision"
                      [] OTHER -> IF deps[box].host = None THEN "fail"
                                                           ELSE "reuse"]

\* The agent this run will use, before pairing has been confirmed: the prior
\* record's, the box's, or the adopted record's.
KnownAgent(deps, prior, boxAgent, adopted) ==
    LET of(id) == IF id = None THEN None ELSE deps[id].agent
    IN  FirstNonEmpty(of(prior), FirstNonEmpty(boxAgent, of(adopted)))

\* Mutant of CarryForwardProvisioning: it always takes what this run has.
CarryForwardNothing(rec, prior, prov) == rec

\* A re-deploy over --provider ssh keeps the handles of the managed VM that
\* the earlier record holds; any other re-deploy leaves rec as it is.
CarryForwardProvisioning(rec, prior, prov) ==
    IF /\ ~CreatesInfrastructure(prov)
       /\ CreatesInfrastructure(prior.prov)
       /\ prior.iid # None \/ prior.rname # None
    THEN [rec EXCEPT !.prov = prior.prov, !.iid = prior.iid, !.rname = prior.rname]
    ELSE rec

\* Mutant of IsLast: nobody counts the other projects.
IsLastAlways(deps, id, host) == TRUE

\* destroy: no other record shares the host of this one.
IsLast(deps, id, host) ==
    \A other \in Recorded(deps) : other # id => deps[other].host # host
=============================================================================
