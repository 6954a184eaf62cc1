--------------------------- MODULE AgentRegistry ---------------------------
(***************************************************************************)
(* The agent's connection registry: a JSON file of entries, and their DSNs  *)
(* in a keychain (agent/connections/connections.go, keyring.go), under the  *)
(* `agent connection` commands of several terminals                        *)
(* (app/command_agent_connection.go).  Nothing locks the file: a command    *)
(* loads it, works on its copy and writes the whole of it back.            *)
(* A DSN of the file is one a version before the keychain wrote there.     *)
(* The keychain holds one DSN per uuid; DSNs are told apart by a number,    *)
(* that of the command that was given it and one more, 0 standing for none. *)
(***************************************************************************)
EXTENDS Naturals, FiniteSets

CONSTANTS Terminals, ConnNames, ConnUuids, MaxCommands

VARIABLES regFile,   \* the entries on disk, or Torn
          keychain,  \* the DSN of each uuid, per backend
          unlocked,  \* is the login keyring usable
          term,      \* the command each terminal runs
          commands,  \* commands begun
          givenUp,   \* history: uuids some command was asked to remove or to replace
          reused     \* history: uuids an add was given that were in use

regvars == <<regFile, keychain, unlocked, term, commands, givenUp, reused>>

\* own is the DSN the entry was added with; the file does not say which it is.
Entry(u, n, d, own) == [uuid |-> u, name |-> n, dsn |-> d, own |-> own]
TornRegistry == {Entry(0, 0, "torn", 0)}
NoDSNs == [u \in ConnUuids |-> 0]
Backends == {"service", "file"}
IdleTerm == [pc |-> "idle", op |-> "none", name |-> 0, uuid |-> 0, dsn |-> 0,
             backend |-> "none", reg |-> {}]

RegistryInit ==
    /\ \E u \in ConnUuids, n \in ConnNames, d \in {"plain", "none"} :
         /\ regFile = {Entry(u, n, d, 1)}
         /\ keychain = [b \in Backends |->
                IF b = "service" /\ d = "none" THEN [NoDSNs EXCEPT ![u] = 1] ELSE NoDSNs]
    /\ unlocked \in {"yes", "no"} /\ (unlocked = "no" => keychain["service"] = NoDSNs)
    /\ term = [t \in Terminals |-> IdleTerm]
    /\ commands = 0 /\ givenUp = {} /\ reused = {}

SetTerm(t, r) == term' = [term EXCEPT ![t] = r]
TermAt(t, pc) == term[t].pc = pc
TermGoto(t, pc) == SetTerm(t, IF pc = "idle" THEN IdleTerm ELSE [term[t] EXCEPT !.pc = pc])

\* PutDSN overwrites what the uuid had; DeleteDSN is idempotent.
PutDSN(t, u, dsn) == keychain' = [keychain EXCEPT ![term[t].backend][u] = dsn]
DeleteDSNs(t, uuids) ==
    keychain' = [keychain EXCEPT ![term[t].backend] =
                   [u \in ConnUuids |-> IF u \in uuids THEN 0 ELSE @[u]]]

Plain(t) == {e \in term[t].reg : e.dsn = "plain"}
Moved(e) == Entry(e.uuid, e.name, "none", e.own)

\* openUsableKeyring: the login keyring if a probe can write to it, otherwise
\* the encrypted file; once per process.
Backend == IF unlocked = "yes" THEN "service" ELSE "file"

\* A command loads the registry; a file that cannot be parsed ends it.
Load(t) ==
    /\ TermAt(t, "idle") /\ commands < MaxCommands /\ commands' = commands + 1
    /\ regFile # TornRegistry
    /\ \E op \in {"add", "scripted add", "remove"}, u \in ConnUuids, n \in ConnNames :
         SetTerm(t, [pc |-> IF \E e \in regFile : e.dsn = "plain" THEN "migrate" ELSE op,
                 op |-> op, uuid |-> u, name |-> n, dsn |-> commands + 2,
                 backend |-> Backend, reg |-> regFile])
    /\ UNCHANGED <<regFile, keychain, unlocked, givenUp, reused>>

\* Mutant of Migrate: the file is rewritten before the keychain has the DSNs.
MigrateFileFirst(t) ==
    /\ TermAt(t, "migrate")
    /\ regFile' = {Moved(e) : e \in term[t].reg}
    /\ TermGoto(t, "idle")
    /\ UNCHANGED <<keychain, unlocked, commands, givenUp, reused>>

\* Load's migration, first half: the DSNs go to the keychain, one by one.
Migrate(t) ==
    /\ TermAt(t, "migrate")
    /\ \E e \in Plain(t) :
         /\ PutDSN(t, e.uuid, e.own)
         /\ SetTerm(t, [term[t] EXCEPT !.pc = IF Plain(t) = {e} THEN "rewrite" ELSE @,
                                       !.reg = (@ \ {e}) \cup {Moved(e)}])
    /\ UNCHANGED <<regFile, unlocked, commands, givenUp, reused>>

\* Second half: the file is rewritten without them.
Rewrite(t) ==
    /\ TermAt(t, "rewrite") /\ regFile' = term[t].reg /\ TermGoto(t, term[t].op)
    /\ UNCHANGED <<keychain, unlocked, commands, givenUp, reused>>

\* Registry.Remove of entries: their DSNs first, then the copy.
Drop(t, matching, pc) ==
    /\ DeleteDSNs(t, {e.uuid : e \in matching})
    /\ SetTerm(t, [term[t] EXCEPT !.pc = pc, !.reg = @ \ matching])
    /\ givenUp' = givenUp \cup {e.uuid : e \in matching}
    /\ UNCHANGED <<regFile, unlocked, commands, reused>>

Named(t) == {e \in term[t].reg : e.name = term[t].name}
WithUuid(t) == {e \in term[t].reg : e.uuid = term[t].uuid}

\* `connection remove` of a name or of a uuid: one entry, or an error.
Remove(t) ==
    /\ TermAt(t, "remove")
    /\ \/ \E e \in Named(t) \cup WithUuid(t) : Drop(t, {e}, "save")
       \/ /\ Named(t) = {} \/ WithUuid(t) = {}
          /\ TermGoto(t, "idle") /\ UNCHANGED <<regFile, keychain, unlocked, commands, givenUp, reused>>

\* A scripted add drops what has the name, then one that has the --uuid, before
\* it looks at the other flags.
ScriptedDrop(t) ==
    /\ TermAt(t, "scripted add")
    /\ LET others == WithUuid(t) \ Named(t) IN
       \/ others = {} /\ Drop(t, Named(t), "checks")
       \/ \E e \in others : Drop(t, Named(t) \cup {e}, "checks")

\* --driver or --dsn is wrong, and the command ends without saving.
ScriptedRefused(t) ==
    /\ TermAt(t, "checks") /\ TermGoto(t, "idle")
    /\ UNCHANGED <<regFile, keychain, unlocked, commands, givenUp, reused>>

InUse(u) == \E e \in regFile \cup UNION {term[t].reg : t \in Terminals} : e.uuid = u

\* Mutant of AddEntry: the DSN is for the command's next run to store.
AddEntryOnly(t) ==
    /\ term[t].pc \in {"add", "checks"} /\ Named(t) = {}
    /\ SetTerm(t, [term[t] EXCEPT !.pc = "save",
           !.reg = @ \cup {Entry(term[t].uuid, term[t].name, "none", term[t].dsn)}])
    /\ UNCHANGED <<regFile, keychain, unlocked, commands, givenUp, reused>>

\* Registry.Add: the DSN goes to the keychain, the entry to the copy.  The uuid
\* is a new one or the one of --uuid; only the name is looked up.
AddEntry(t) ==
    /\ term[t].pc \in {"add", "checks"}
    /\ IF Named(t) # {}
       THEN TermGoto(t, "idle") /\ UNCHANGED <<keychain, reused>>
       ELSE /\ PutDSN(t, term[t].uuid, term[t].dsn)
            /\ reused' = reused \cup {u \in {term[t].uuid} : InUse(u)}
            /\ SetTerm(t, [term[t] EXCEPT !.pc = "save",
                   !.reg = @ \cup {Entry(term[t].uuid, term[t].name, "none", term[t].dsn)}])
    /\ UNCHANGED <<regFile, unlocked, commands, givenUp>>

Save(t) ==
    /\ TermAt(t, "save") /\ regFile' = term[t].reg /\ TermGoto(t, "idle")
    /\ UNCHANGED <<keychain, unlocked, commands, givenUp, reused>>

\* The process dies; inside os.WriteFile it leaves a part of the file.
CommandDies(t) ==
    /\ ~TermAt(t, "idle")
    /\ \/ UNCHANGED regFile
       \/ term[t].pc \in {"rewrite", "save"} /\ regFile' = TornRegistry
    /\ SetTerm(t, IdleTerm)
    /\ UNCHANGED <<keychain, unlocked, commands, givenUp, reused>>

\* The user logs in to the desktop, or the keyring locks.
KeyringTurns ==
    /\ unlocked' = IF unlocked = "yes" THEN "no" ELSE "yes"
    /\ UNCHANGED <<regFile, keychain, term, commands, givenUp, reused>>

RegistryNext ==
    \/ KeyringTurns
    \/ \E t \in Terminals :
         \/ Load(t) \/ Migrate(t) \/ Rewrite(t) \/ Remove(t) \/ ScriptedDrop(t)
         \/ ScriptedRefused(t) \/ AddEntry(t) \/ Save(t) \/ CommandDies(t)

RegistrySpec == RegistryInit /\ [][RegistryNext]_regvars

-----------------------------------------------------------------------------
(* Properties *)

\* connections.go, Load, Add and PutDSN: whatever two terminals do to each
\* other, and wherever they die, the DSN that a connection of the file was added
\* with is in a keychain or still in the file, unless a command was asked to
\* remove or replace that uuid, or an add was given the --uuid of a connection
\* that exists: then the DSN of the one is the DSN of both.
DSNSurvives ==
    \A e \in regFile \ TornRegistry :
        \/ e.uuid \in givenUp \cup reused
        \/ e.dsn = "plain"
        \/ \E b \in Backends : keychain[b][e.uuid] = e.own

-----------------------------------------------------------------------------
(* What a comment says and the code does not do *)

\* connections.go:175, "Remove deletes the entry matching the identifier (uuid
\* or name) AND its keychain DSN": a uuid that was removed, and that the file
\* and the running commands no longer have, is in no keychain.
RemovedDSNIsGone ==
    (\A t \in Terminals : TermAt(t, "idle")) /\ regFile # TornRegistry =>
        \A u \in givenUp : (\E e \in regFile : e.uuid = u) \/ \A b \in Backends : keychain[b][u] = 0
=============================================================================
