------------------------------ MODULE MCParts ------------------------------
(***************************************************************************)
(* The parts of the program that share no state with another module's,     *)
(* for TLC: a behaviour is one of one part, alone, with small constants.   *)
(* The others rest at a state they may start in, so that an invariant of a *)
(* part is that of the part's own specification.                           *)
(***************************************************************************)
EXTENDS ConnCache, AgentLoop, AgentRegistry, AgentPairing, DeployRun, DestroyReport, K8sRelease,
        RecordStore, SchemaApply, SelfUpdate, ServerBox, SqlPlan, Workspace, TLC

CONSTANTS ShopApi, BlogApi,   \* two projects of a box
          Client, Server,     \* the roots of two projects of a workspace
          InClient, InServer  \* a file of each

\* Distinct identifiers that sanitizeDBName keeps distinct.
DistinctUsers == [p \in Projects |-> p]

\* Two projects below the workspace's own directory.
PathRoots == InClient :> Client @@ InServer :> Server

\* Neither project of a box, nor of a workspace, is told from the other.
Mirror == ShopApi :> BlogApi @@ BlogApi :> ShopApi
          @@ Client :> Server @@ Server :> Client
          @@ InClient :> InServer @@ InServer :> InClient
Symmetry == {[x \in DOMAIN Mirror |-> IF mirrored = "yes" THEN Mirror[x] ELSE x] :
                mirrored \in {"yes", "no"}}

VARIABLE part

partvars == <<part, vars, loopvars, regvars, pairvars, drvars, k8vars, storevars,
              schemavars, updvars, runvars, boxvars, sqlvars, wsvars>>

\* The part that runs: each of the others rests at one state of its own.
View ==
    <<part, CASE part = "cache" -> vars [] part = "loop" -> loopvars
                [] part = "registry" -> regvars [] part = "pairing" -> pairvars
                [] part = "destroy" -> drvars [] part = "k8s" -> k8vars
                [] part = "store" -> storevars [] part = "schema" -> schemavars
                [] part = "update" -> updvars [] part = "run" -> runvars
                [] part = "box" -> boxvars [] part = "sql" -> sqlvars
                [] OTHER -> wsvars>>

PartsInit ==
    /\ part \in {"cache", "loop", "registry", "pairing", "destroy", "k8s", "store",
                 "schema", "update", "run", "box", "sql", "workspace"}
    /\ part # "cache"    => fallback = None
    /\ part # "loop"     => up = FALSE /\ minCli = "unenforced"
    /\ part # "registry" => regFile = {Entry(1, 1, "plain", 1)} /\ unlocked = "no"
    \* Uuids and names are interchangeable.
    /\ part = "registry" => \E d \in {"plain", "none"} : regFile = {Entry(1, 1, d, 1)}
    /\ part # "pairing"  => /\ legacyDir = NoCreds /\ creds = NoCreds /\ session = "none"
                            /\ minted = 0 /\ active = {}
    /\ part # "destroy"  => /\ drec = [provider |-> "k8s", phase |-> "deployed", id |-> "known",
                                       db |-> "own", agent |-> "none", others |-> "none"]
                            /\ flags = {}
    /\ part # "store"    => /\ recFile = 0 /\ broken = "no" /\ inodes = [n \in Files |-> TornRecord]
    /\ part # "schema"   => /\ setup = [before |-> "none", allow |-> "no", app |-> "no",
                                        skip |-> "no", atomic |-> "no"]
                            /\ todo = {"add"}
    /\ part # "update"   => exe = [version |-> 1, bytes |-> "whole", mode |-> "x"]
    /\ part # "sql"      => engine = "mysql" /\ script = <<>>
    /\ Init /\ LoopInit /\ RegistryInit /\ PairingInit /\ ReportInit /\ K8sInit
    /\ StoreInit /\ SchemaInit /\ UpdateInit /\ RunInit /\ BoxInit /\ SqlInit /\ WorkspaceInit

Alone(p) ==
    /\ UNCHANGED part
    /\ p # "cache"     => UNCHANGED vars
    /\ p # "loop"      => UNCHANGED loopvars
    /\ p # "registry"  => UNCHANGED regvars
    /\ p # "pairing"   => UNCHANGED pairvars
    /\ p # "destroy"   => UNCHANGED drvars
    /\ p # "k8s"       => UNCHANGED k8vars
    /\ p # "store"     => UNCHANGED storevars
    /\ p # "schema"    => UNCHANGED schemavars
    /\ p # "update"    => UNCHANGED updvars
    /\ p # "run"       => UNCHANGED runvars
    /\ p # "box"       => UNCHANGED boxvars
    /\ p # "sql"       => UNCHANGED sqlvars
    /\ p # "workspace" => UNCHANGED wsvars

PartsNext ==
    \/ part = "cache" /\ Next /\ Alone("cache")
    \/ part = "loop" /\ LoopNext /\ Alone("loop")
    \/ part = "registry" /\ RegistryNext /\ Alone("registry")
    \/ part = "pairing" /\ PairingNext /\ Alone("pairing")
    \/ part = "destroy" /\ ReportNext /\ Alone("destroy")
    \/ part = "k8s" /\ K8sNext /\ Alone("k8s")
    \/ part = "store" /\ StoreNext /\ Alone("store")
    \/ part = "schema" /\ SchemaNext /\ Alone("schema")
    \/ part = "update" /\ UpdateNext /\ Alone("update")
    \/ part = "run" /\ RunNext /\ Alone("run")
    \/ part = "box" /\ BoxNext /\ Alone("box")
    \/ part = "sql" /\ SqlNext /\ Alone("sql")
    \/ part = "workspace" /\ WorkspaceNext /\ Alone("workspace")

PartsSpec == PartsInit /\ [][PartsNext]_partvars
=============================================================================
