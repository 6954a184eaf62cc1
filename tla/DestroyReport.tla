--------------------------- MODULE DestroyReport ---------------------------
(***************************************************************************)
(* One `nuzur-cli destroy` from its record to its closing lines            *)
(* (app/command_deploy.go, DestroyCommand; app/command_destroy_outcome.go). *)
(* drec is the record and what the other records say of its box, flags the  *)
(* command line, world what is really there: the box, its database, its    *)
(* agent and its VM.  outcome is filled in step by step and rendered by    *)
(* Headline and DatabaseLine, whose sentences are named by what they say.  *)
(* The world answers each call in any way the code distinguishes.          *)
(***************************************************************************)
EXTENDS Naturals, FiniteSets

VARIABLES drpc, drec, flags, world, outcome

drvars == <<drpc, drec, flags, world, outcome>>

\* id: "known", or "unknown" when the deploy died before it learned the
\* instance id.  others: "none" are on this host, or "some" are.
Records ==
    [provider: {"vm"}, phase: {"provisioning"}, id: {"unknown", "known"},
     db: {"own"}, agent: {"none"}, others: {"none", "some"}]
    \cup [provider: {"ssh", "vm", "k8s"}, phase: {"deployed"}, id: {"known"},
          db: {"own", "external"}, agent: {"none", "known"}, others: {"none", "some"}]

DestroyFlags == SUBSET {"skip-server", "keep-vm", "purge"}

\* The box of a deploy that was interrupted may or may not exist; a VM may have
\* been deleted underneath its record.  Only the bootstrap of a box makes a database.
Worlds(r) ==
    {w \in [vm: {"running", "gone"}, db: {"up", "none"}, agent: {"active", "none"}] :
       /\ w.vm = "gone" => r.provider = "vm"
       /\ w.db = "up" <=> \/ r.db = "external"
                          \/ r.phase = "deployed" /\ r.provider # "k8s" /\ w.vm = "running"
       /\ w.agent = "active" <=> r.agent = "known"}

IsLast == drec.others = "none"

ReportInit ==
    /\ drpc = "server"
    /\ drec \in Records
    /\ flags \in DestroyFlags
    /\ world \in Worlds(drec)
    /\ outcome = [server |-> "skipped", vm |-> "n/a", revoked |-> "no",
                  purge |-> IF "purge" \in flags THEN "yes" ELSE "no", warned |-> {}]

Out(changes) == outcome' = changes
Warn(w) == outcome.warned \cup {w}

\* The script's DROP DATABASE, whose failure it swallows: it says it purged the
\* database and goes on, and so does everyone after it.
Drops == world' \in {[world EXCEPT !.db = now] : now \in {"dropped", "not dropped"}}

\* The teardown script ran, or helm removed the release.
Teardown ==
    /\ drpc = "server" /\ "skip-server" \notin flags /\ drec.phase = "deployed"
    /\ world.vm = "running"
    /\ LET ignored == drec.db = "external" /\ drec.provider # "k8s"
           purge   == "purge" \in flags /\ ~ignored
           drops   == purge /\ drec.provider # "k8s"
       IN  /\ Out([outcome EXCEPT !.server = "done",
                                  !.purge = IF purge THEN "yes" ELSE "no"])
           /\ IF drops THEN Drops ELSE UNCHANGED world
    /\ drpc' = "agent" /\ UNCHANGED <<drec, flags>>

\* The box did not answer, or the connection broke under the script, which may
\* have dropped the database by then.
TeardownFails ==
    /\ drpc = "server" /\ "skip-server" \notin flags /\ drec.phase = "deployed"
    /\ LET ignored == drec.db = "external" /\ drec.provider # "k8s"
           purge   == "purge" \in flags /\ ~ignored
           reached == purge /\ drec.provider # "k8s" /\ world.vm = "running"
       IN  /\ Out([outcome EXCEPT !.server = "failed",
                                  !.purge = IF purge THEN "yes" ELSE "no",
                                  !.warned = Warn("teardown")])
           /\ \/ UNCHANGED world
              \/ reached /\ Drops
    /\ drpc' = "agent" /\ UNCHANGED <<drec, flags>>

TeardownSkipped ==
    /\ drpc = "server"
    /\ "skip-server" \in flags \/ drec.phase = "provisioning"
    /\ drpc' = "agent" /\ UNCHANGED <<drec, flags, world, outcome>>

Revoke ==
    /\ drpc = "agent" /\ drec.agent = "known" /\ IsLast
    /\ \/ /\ Out([outcome EXCEPT !.revoked = "yes"])
          /\ world' = [world EXCEPT !.agent = "none"]
       \/ Out([outcome EXCEPT !.warned = Warn("agent")]) /\ UNCHANGED world
    /\ drpc' = "vm" /\ UNCHANGED <<drec, flags>>

\* The agent serves other projects, or nobody knows which one it was.
KeepAgent ==
    /\ drpc = "agent" /\ ~(drec.agent = "known" /\ IsLast)
    /\ Out(IF IsLast /\ drec.phase = "deployed"
           THEN [outcome EXCEPT !.warned = Warn("agent")] ELSE outcome)
    /\ drpc' = "vm" /\ UNCHANGED <<drec, flags, world>>

DeletesVM == IsLast /\ "keep-vm" \notin flags /\ drec.provider = "vm"

\* Mutant: a failed delete is not told from a delete that found nothing.
DeleteVMQuietly ==
    /\ drpc = "vm" /\ DeletesVM
    /\ Out([outcome EXCEPT !.vm = "already gone"])
    /\ drpc' = "record" /\ UNCHANGED <<drec, flags, world>>

\* The lookup of a VM whose id is not known fails: the code warns and goes on
\* as if there was none.
LookupFails ==
    /\ drpc = "vm" /\ DeletesVM /\ drec.id = "unknown"
    /\ Out([outcome EXCEPT !.vm = "never created", !.warned = Warn("lookup")])
    /\ drpc' = "record" /\ UNCHANGED <<drec, flags, world>>

\* No provisioner (a missing token, a missing CLI), or the provider refuses.
DeleteFails ==
    /\ drpc = "vm" /\ DeletesVM
    /\ Out([outcome EXCEPT !.vm = "delete failed", !.warned = Warn("vm")])
    /\ drpc' = "record" /\ UNCHANGED <<drec, flags, world>>

DeleteVM ==
    /\ drpc = "vm" /\ DeletesVM
    /\ Out([outcome EXCEPT !.vm = IF world.vm = "running" THEN "deleted"
                                  ELSE IF drec.id = "unknown" THEN "never created"
                                  ELSE "already gone"])
    /\ world' = [world EXCEPT !.vm = "gone",
                              !.db = IF drec.db = "own" THEN "none" ELSE @]
    /\ drpc' = "record" /\ UNCHANGED <<drec, flags>>

KeepVM ==
    /\ drpc = "vm" /\ ~DeletesVM
    /\ Out(IF IsLast /\ drec.provider = "vm" THEN [outcome EXCEPT !.vm = "kept"]
                                             ELSE outcome)
    /\ drpc' = "record" /\ UNCHANGED <<drec, flags, world>>

RemoveRecord ==
    /\ drpc = "record" /\ drpc' = "done" /\ UNCHANGED <<drec, flags, world, outcome>>

\* The user deletes the VM at the provider while destroy runs.
VMVanishes ==
    /\ drpc \in {"server", "agent", "vm"}
    /\ drec.provider = "vm" /\ world.vm = "running"
    /\ world' = [world EXCEPT !.vm = "gone", !.db = IF drec.db = "own" THEN "none" ELSE @]
    /\ UNCHANGED <<drpc, drec, flags, outcome>>

ReportNext ==
    \/ Teardown \/ TeardownFails \/ TeardownSkipped \/ Revoke \/ KeepAgent
    \/ LookupFails \/ DeleteFails \/ DeleteVM \/ KeepVM \/ RemoveRecord \/ VMVanishes

ReportSpec == ReportInit /\ [][ReportNext]_drvars

-----------------------------------------------------------------------------
(* The closing report *)

\* The clauses of the headline.
Headline ==
    IF drec.phase = "provisioning"
    THEN CASE outcome.vm = "deleted"      -> {"VM deleted"}
           [] outcome.vm = "already gone" -> {"nothing is billing"}
           [] OTHER                       -> {"nothing to clean up"}
    ELSE IF ~IsLast THEN {"agent stays"}
    ELSE {CASE outcome.server = "done"   -> "server cleaned up"
            [] outcome.server = "failed" -> "clean-up skipped"
            [] OTHER                     -> "server left untouched"}
         \cup CASE outcome.vm = "deleted"       -> {"VM deleted"}
                [] outcome.vm = "already gone"  -> {"nothing is billing"}
                [] outcome.vm = "delete failed" -> {"VM could NOT be deleted"}
                [] outcome.vm = "kept"          -> {"VM kept"}
                [] outcome.vm = "never created" -> {"no VM was ever created"}
                [] OTHER                        -> {}
         \cup (IF outcome.revoked = "yes" THEN {"shared agent revoked"} ELSE {})

\* Mutant: whether the VM survived is not asked before --purge is.
DatabaseLineWithoutVM ==
    CASE outcome.server = "done" /\ outcome.purge = "no" -> "kept"
      [] OTHER -> "silent"

\* The sentence about the database.
DatabaseLine ==
    IF drec.phase = "provisioning" THEN "silent"
    ELSE IF drec.db = "external" THEN "external, untouched"
    ELSE IF outcome.vm = "deleted" THEN "went with the VM"
    ELSE IF outcome.vm = "already gone" THEN "gone with the VM"
    ELSE IF ~IsLast THEN "removed from the box"
    ELSE IF outcome.server = "done" THEN IF outcome.purge = "yes" THEN "dropped" ELSE "kept"
    ELSE IF outcome.server = "failed" THEN IF outcome.purge = "yes" THEN "NOT dropped"
                                                                    ELSE "still there"
    ELSE "not touched"

\* What each sentence says of the world.
TrueOf(line) ==
    CASE line \in {"VM deleted", "nothing is billing", "no VM was ever created",
                   "nothing to clean up"}                -> world.vm = "gone"
      [] line = "shared agent revoked"                   -> world.agent = "none"
      [] line \in {"went with the VM", "gone with the VM"} -> world.db = "none"
      [] line \in {"removed from the box", "dropped"}    -> world.db \in {"dropped", "none"}
      [] line \in {"kept", "external, untouched"}        -> world.db = "up"
      [] line \in {"NOT dropped", "still there", "not touched"} -> world.db # "dropped"
      [] OTHER                                           -> TRUE

-----------------------------------------------------------------------------
(* Properties *)

\* app/command_destroy_outcome.go, vmFate: a VM that still runs after the last
\* destroy was kept by a flag, or the user was warned of it on the way.
BillingIsTold ==
    drpc = "done" /\ drec.provider = "vm" /\ IsLast /\ world.vm = "running" =>
        outcome.vm = "kept" \/ outcome.warned \cap {"lookup", "vm"} # {}

\* app/command_destroy_outcome.go:97, for the case the file was rewritten for:
\* a last destroy whose teardown was done or skipped, of a VM or ssh
\* deployment that was bootstrapped, says only what is true, whether the VM was
\* deleted, kept, or vanished before; but a --purge may say "dropped" of a
\* database whose DROP failed in the script, which tells nobody
\* (deploy/templates/teardown.sh.tmpl:45-54).  A VM the user deletes at the
\* provider after --keep-vm is the user's.
LastReportIsTrue ==
    /\ drpc = "done" /\ IsLast /\ drec.phase = "deployed" /\ drec.provider # "k8s"
    /\ outcome.server # "failed" /\ ~(outcome.vm = "kept" /\ world.vm = "gone")
    => /\ \A clause \in Headline : TrueOf(clause)
       /\ \/ TrueOf(DatabaseLine)
          \/ outcome.vm = "delete failed"
          \/ DatabaseLine = "dropped" /\ world.db = "not dropped"

-----------------------------------------------------------------------------
(* What a comment says and the code does not do *)

\* app/command_destroy_outcome.go:97, "claiming only what actually happened".
ClaimsOnlyWhatHappened ==
    drpc = "done" => TrueOf(DatabaseLine) /\ \A clause \in Headline : TrueOf(clause)
=============================================================================
