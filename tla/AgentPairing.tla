---------------------------- MODULE AgentPairing ----------------------------
(***************************************************************************)
(* Pairing a machine with nuzur and publishing its catalog                 *)
(* (app/command_agent.go, command_agent_unpair.go, the publish functions of *)
(* command_agent_connection.go, files/local_agent.go).  The credentials are *)
(* two files, written and removed one after the other; an older version     *)
(* may have left its own in the legacy directory, which every agent command *)
(* migrates first, as far as it can.  Agent n has uuid n and token n.       *)
(***************************************************************************)
EXTENDS Naturals

CONSTANTS MaxAgents,       \* bound: agents registered
          MaxAgentCommands \* bound: commands begun

ASSUME PairingAssumption == MaxAgents \in Nat \ {0} /\ MaxAgentCommands \in Nat

VARIABLES creds,       \* the credentials in the agent's directory
          empty,      \* which of the two files are there and have nothing in them
          legacyDir,  \* those in /tmp/nuzur-cli
          active,     \* the agents nuzur has, not revoked
          minted,     \* agents registered so far
          catalog,    \* the registry's version that nuzur shows per agent
          session,    \* the user's login: "none", "live" or "expired"
          acmd,       \* the command that runs
          acommands, excused, unpaired,
          halfway     \* history: a command left its files half written or half removed

pairvars == <<creds, empty, legacyDir, active, minted, catalog, session, acmd,
              acommands, excused, unpaired, halfway>>

Nobody == 0
NoCreds == [uuid |-> Nobody, token |-> Nobody]
IdleCmd == [op |-> "none", pc |-> "idle", new |-> Nobody, retried |-> "no"]
Ops == {"pair", "pair --force", "unpair", "unpair --keep-remote", "publish"}

\* An older version may have left both its files, or died and left one, and its agent
\* may be revoked.
PairingInit ==
    /\ \E pairing \in [uuid : {Nobody, 1}, token : {Nobody, 1}], old \in BOOLEAN :
         /\ old \/ pairing.uuid = pairing.token
         /\ legacyDir = IF old THEN pairing ELSE NoCreds
         /\ creds = IF old THEN NoCreds ELSE pairing
         /\ minted = IF pairing = NoCreds THEN 0 ELSE 1
         /\ active \in SUBSET (1..minted)
         /\ excused = IF pairing.uuid = Nobody THEN active ELSE {}
    /\ catalog = [a \in 1..MaxAgents |-> 0] /\ empty = {}
    /\ session \in {"none", "live", "expired"}
    /\ acmd = IdleCmd /\ acommands = 0 /\ halfway = "no" /\ unpaired = "no"

Step(pc) == acmd' = [acmd EXCEPT !.pc = pc]
CmdAt(pc) == acmd.pc = pc
Same == UNCHANGED <<legacyDir, acommands, empty, halfway>>
Elsewhere == <<active, minted, catalog, session, excused, unpaired>>

BeginCmd ==
    /\ CmdAt("idle") /\ acommands < MaxAgentCommands /\ acommands' = acommands + 1
    /\ \E op \in Ops : acmd' = [IdleCmd EXCEPT !.op = op, !.pc = "migrate uuid"]
    /\ UNCHANGED <<creds, legacyDir, Elsewhere, empty, halfway>>

\* MigrateLegacyAgentFiles: a file that is missing is copied, none is removed.
Migrated(file) == IF creds[file] = Nobody /\ file \notin empty THEN legacyDir[file] ELSE creds[file]

MigrateUUID ==
    /\ CmdAt("migrate uuid") /\ Step("migrate token")
    /\ creds' = [creds EXCEPT !.uuid = Migrated("uuid")]
    /\ Same /\ UNCHANGED Elsewhere

MigrateToken ==
    /\ CmdAt("migrate token") /\ Step(acmd.op)
    /\ creds' = [creds EXCEPT !.token = Migrated("token")]
    /\ Same /\ UNCHANGED Elsewhere

\* The file that a step writes, if it does.
Writes == CASE acmd.pc = "write uuid" -> {"uuid"}
            [] acmd.pc = "write token" -> {"token"}
            [] acmd.pc = "migrate uuid" /\ Migrated("uuid") # creds.uuid -> {"uuid"}
            [] acmd.pc = "migrate token" /\ Migrated("token") # creds.token -> {"token"}
            [] OTHER -> {}

\* A file cannot be read or written; the rest is not migrated, and the command goes
\* on.  A write that failed may leave the file empty.
MigrationFails ==
    /\ acmd.pc \in {"migrate uuid", "migrate token"} /\ Step(acmd.op)
    /\ empty' \in {empty, empty \cup Writes}
    /\ UNCHANGED <<creds, legacyDir, Elsewhere, acommands, halfway>>

\* Mutant of Pair: a pairing on disk is not looked for.
PairAnyway ==
    /\ acmd.pc \in {"pair", "pair --force"} /\ Step("register")
    /\ Same /\ UNCHANGED <<creds, Elsewhere>>

\* A machine that is paired is refused without --force, which keeps the old row.
Pair ==
    /\ acmd.pc \in {"pair", "pair --force"}
    /\ IF creds.uuid # Nobody /\ CmdAt("pair")
       THEN Step("refused") /\ UNCHANGED excused
       ELSE Step("register") /\ excused' = excused \cup {creds.uuid}
    /\ Same /\ UNCHANGED <<creds, active, minted, catalog, session, unpaired>>

\* pairLocalAgent: log in, register, and write what comes back; `agent pair` of a
\* server redeems a provisioning token instead, without a login.
Register ==
    /\ CmdAt("register") /\ minted < MaxAgents
    /\ minted' = minted + 1 /\ active' = active \cup {minted + 1}
    /\ session' \in {"live"} \cup (IF acmd.op = "publish" THEN {} ELSE {session})
    /\ unpaired' = "no"
    /\ acmd' = [acmd EXCEPT !.pc = "write uuid", !.new = minted + 1]
    /\ Same /\ UNCHANGED <<creds, catalog, excused>>

\* nuzur registers the agent and the reply is lost: nobody here knows it.
RegisterReplyLost ==
    /\ CmdAt("register") /\ minted < MaxAgents /\ Step("failed")
    /\ minted' = minted + 1 /\ active' = active \cup {minted + 1}
    /\ excused' = excused \cup {minted + 1}
    /\ Same /\ UNCHANGED <<creds, catalog, session, unpaired>>

WriteUUID ==
    /\ CmdAt("write uuid") /\ Step("write token")
    /\ creds' = [creds EXCEPT !.uuid = acmd.new] /\ empty' = empty \ {"uuid"}
    /\ UNCHANGED <<legacyDir, Elsewhere, acommands, halfway>>

\* Mutant: a token that is there already is kept.
WriteTokenIfMissing ==
    /\ CmdAt("write token") /\ Step(IF acmd.op = "publish" THEN "update" ELSE "ok")
    /\ creds' = [creds EXCEPT !.token = IF @ = Nobody THEN acmd.new ELSE @]
    /\ Same /\ UNCHANGED Elsewhere

WriteToken ==
    /\ CmdAt("write token") /\ Step(IF acmd.op = "publish" THEN "update" ELSE "ok")
    /\ creds' = [creds EXCEPT !.token = acmd.new] /\ empty' = empty \ {"token"}
    /\ UNCHANGED <<legacyDir, Elsewhere, acommands, halfway>>

\* Revoke the agent in nuzur, unless nothing is paired or --keep-remote says so.
Unpair ==
    /\ acmd.pc \in {"unpair", "unpair --keep-remote"} /\ Step("remove uuid")
    /\ active' = IF CmdAt("unpair") THEN active \ {creds.uuid} ELSE active
    /\ excused' = IF CmdAt("unpair") THEN excused ELSE excused \cup {creds.uuid}
    /\ session' = IF CmdAt("unpair") /\ creds.uuid # Nobody THEN "live" ELSE session
    /\ Same /\ UNCHANGED <<creds, minted, catalog, unpaired>>

\* removeLocalAgentFiles: what cannot be removed stays, without a word.
RemovesFile(file) ==
    /\ \/ /\ creds' = [creds EXCEPT ![file] = Nobody] /\ empty' = empty \ {file}
          /\ UNCHANGED halfway
       \/ halfway' = "yes" /\ UNCHANGED <<creds, empty>>
    /\ UNCHANGED <<legacyDir, acommands>>

RemoveUUID ==
    /\ CmdAt("remove uuid") /\ Step("remove token")
    /\ RemovesFile("uuid") /\ UNCHANGED Elsewhere

RemoveToken ==
    /\ CmdAt("remove token") /\ Step("ok") /\ unpaired' = "yes"
    /\ RemovesFile("token") /\ UNCHANGED <<active, minted, catalog, session, excused>>

HasCreds == creds.uuid # Nobody /\ creds.token # Nobody

\* choosePublishMode, and ensureLocalAgentPaired of the user's way.
PublishCatalog ==
    /\ CmdAt("publish")
    /\ Step(IF session = "none"
            THEN (IF HasCreds THEN "as agent" ELSE "failed")
            ELSE (IF creds.uuid = Nobody THEN "register" ELSE "update"))
    /\ Same /\ UNCHANGED <<creds, Elsewhere>>

Shown(agent) == catalog' = [catalog EXCEPT ![agent] = acommands]

\* Mutant of Update: the retry is for the agent that was not found.
UpdateOld ==
    /\ CmdAt("update") /\ minted > 0
    /\ Step("ok") /\ Shown(IF acmd.retried = "yes" THEN minted - 1 ELSE minted)
    /\ Same /\ UNCHANGED <<creds, active, minted, session, excused, unpaired>>

\* UpdateLocalAgentConnections with the user's token, for the agent that was
\* paired a moment ago or is on disk.  An agent nuzur does not have is paired
\* again, once.
Update ==
    /\ CmdAt("update")
    /\ CASE session = "expired" ->
              Step(IF HasCreds THEN "as agent" ELSE "failed") /\ UNCHANGED catalog
         [] session = "live" /\ creds.uuid \in active ->
              Step("ok") /\ Shown(creds.uuid)
         [] session = "live" /\ creds.uuid \notin active /\ acmd.retried = "no" ->
              acmd' = [acmd EXCEPT !.pc = "register", !.retried = "yes"] /\ UNCHANGED catalog
         [] OTHER -> Step("failed") /\ UNCHANGED catalog
    /\ Same /\ UNCHANGED <<creds, active, minted, session, excused, unpaired>>

\* PublishLocalAgentCatalog: uuid and token must be one active agent's.
PublishAsAgent ==
    /\ CmdAt("as agent")
    /\ IF creds.uuid \in active /\ creds.token = creds.uuid
       THEN Step("ok") /\ Shown(creds.uuid)
       ELSE Step("failed") /\ UNCHANGED catalog
    /\ Same /\ UNCHANGED <<creds, active, minted, session, excused, unpaired>>

\* A login or a call to nuzur fails before it changes anything.
CallFails ==
    /\ acmd.pc \in {"register", "unpair", "update", "as agent"} /\ Step("failed")
    /\ Same /\ UNCHANGED <<creds, Elsewhere>>

CmdEnds ==
    /\ acmd.pc \in {"ok", "failed", "refused"} /\ acmd' = IdleCmd
    /\ Same /\ UNCHANGED <<creds, Elsewhere>>

\* The process dies, or a write of new credentials fails, and leaves an empty file;
\* an agent that was registered and not written down is lost.
CmdDies ==
    /\ acmd.pc \notin {"idle", "ok", "failed", "refused"}
    /\ acmd' = IdleCmd /\ halfway' = "yes"
    /\ \/ UNCHANGED <<creds, empty>>
       \/ /\ empty' = empty \cup Writes
          /\ creds' = [file \in {"uuid", "token"} |-> IF file \in Writes THEN Nobody ELSE creds[file]]
    /\ excused' = excused \cup {acmd.new}
    /\ UNCHANGED <<legacyDir, active, minted, catalog, session, acommands, unpaired>>

\* A user revokes an agent on the web, or a session runs out.
CloudChanges ==
    /\ \/ /\ \E a \in active : active' = active \ {a}
          /\ UNCHANGED session
       \/ session = "live" /\ session' = "expired" /\ UNCHANGED active
    /\ UNCHANGED <<creds, legacyDir, minted, catalog, acmd, acommands, excused, unpaired,
                   empty, halfway>>

PairingNext == \/ BeginCmd \/ MigrateUUID \/ MigrateToken \/ MigrationFails \/ Pair \/ Register
        \/ RegisterReplyLost \/ WriteUUID
        \/ WriteToken \/ Unpair \/ RemoveUUID \/ RemoveToken \/ PublishCatalog \/ Update
        \/ PublishAsAgent \/ CallFails \/ CmdEnds \/ CmdDies \/ CloudChanges

PairingSpec == PairingInit /\ [][PairingNext]_pairvars

-----------------------------------------------------------------------------
(* Properties *)

\* app/command_agent.go:70-72, "that creates orphan OFFLINE rows on the server":
\* between commands, the only agent nuzur has for this machine is the one on
\* disk, but for those that --force, --keep-remote, a crash or a lost reply left behind.
NoOrphans ==
    CmdAt("idle") => \A a \in active : a \in {creds.uuid, legacyDir.uuid} \cup excused

\* writeLocalAgentCreds: through migration, re-pairing and unpairing the two files are
\* of one pairing, unless a command died or could not remove a file.  A migration that
\* failed, or that had only one file to copy, leaves that one alone: never beside the
\* other of another agent.
CredsMatch ==
    CmdAt("idle") /\ halfway = "no" =>
        \/ creds.token = creds.uuid
        \/ creds.token = Nobody /\ creds.uuid = legacyDir.uuid
        \/ creds.uuid = Nobody /\ creds.token = legacyDir.token

\* publishCatalog: a publish that succeeds shows this registry under the agent
\* whose uuid is on disk, whichever way it was signed and however often paired.
PublishedUnderOwnAgent ==
    CmdAt("ok") /\ acmd.op = "publish" => creds.uuid # Nobody /\ catalog[creds.uuid] = acommands

-----------------------------------------------------------------------------
(* What a message says and the code does not do *)

\* app/command_agent_unpair.go:65, "You can now run `nuzur-cli agent pair`
\* again": after an unpair a pair is not refused.
UnpairAllowsPair == CmdAt("refused") => unpaired = "no"
=============================================================================
