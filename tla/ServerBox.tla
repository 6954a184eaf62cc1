------------------------------ MODULE ServerBox ------------------------------
(***************************************************************************)
(* One server that several projects share: the source that `deploy` copies  *)
(* to it (app/deploy_pipeline.go), the bootstrap script it runs there       *)
(* (deploy/templates/bootstrap.sh.tmpl) and the teardown script of          *)
(* `destroy` (deploy/templates/teardown.sh.tmpl).  Each script is run step  *)
(* by step and can die between any two of them, or inside a write; those    *)
(* of different projects interleave, and apps die and come back.  A project *)
(* is [full deploy, own database on the box]; its passwords are numbered,   *)
(* 0 being none, and so are ports.                                          *)
(***************************************************************************)
EXTENDS Naturals, FiniteSets

CONSTANTS Projects,      \* by identifier
          AppUser,       \* per project, what sanitizeDBName makes of its identifier
          MaxBoxCommands \* bound: commands begun

ASSUME BoxAssumption ==
    /\ IsFiniteSet(Projects) /\ {"none", "mixed", "torn"} \cap Projects = {}
    /\ MaxBoxCommands \in Nat

VARIABLES box,     \* what is on the server
          cmd,     \* the command that runs on each project
          recs,    \* the projects that have a record naming this host
          settled, \* history: the last command on the project was a deploy that
                   \* reached its end, with no other command in between
          raced,   \* history: two deploys at once were given one port
          misjudged, \* history: a destroy took itself for the last one and was not
          boxruns  \* commands begun

boxvars == <<box, cmd, recs, settled, raced, misjudged, boxruns>>

DBUsers == {AppUser[p] : p \in Projects}
NoConf == [pw |-> 0, port |-> 0]
NoApp == [pw |-> 0, port |-> 0, of |-> "none"]
NoCommand == [pc |-> "idle", pw |-> 0, port |-> 0, of |-> "none", conns |-> {},
              last |-> FALSE, alone |-> FALSE]
TornConns == {"torn"}

\* What is kept for a project: secret is its db_password file, conf its prod.yaml,
\* unit the source its image was built from, app the running container, dsn its
\* DSN in the agent's keychain, site its Caddy snippet, routes what Caddy has
\* loaded.  The users of the database, /tmp/nuzur-src, the agent with the file of
\* its connections (conns) and the main Caddyfile (front) are shared.
BoxInit ==
    /\ box = [secret |-> [p \in Projects |-> 0], role |-> [u \in DBUsers |-> 0],
              conf |-> [p \in Projects |-> NoConf], unit |-> [p \in Projects |-> "none"],
              app |-> [p \in Projects |-> NoApp], dsn |-> [p \in Projects |-> 0],
              site |-> [p \in Projects |-> 0], routes |-> [p \in Projects |-> 0],
              src |-> "none", paired |-> FALSE, conns |-> {}, front |-> FALSE]
    /\ cmd = [p \in Projects |-> NoCommand]
    /\ recs = {} /\ settled = {} /\ raced = FALSE /\ misjudged = FALSE /\ boxruns = 0

BoxAt(p, pc) == cmd[p].pc = pc
BoxGoto(p, pc) == cmd' = [cmd EXCEPT ![p].pc = pc]
Kept == UNCHANGED <<recs, settled, raced, misjudged, boxruns>>

\* A password of openssl's: one that is nowhere yet.
FreshPassword ==
    LET used == {box.secret[p] : p \in Projects} \cup {box.role[u] : u \in DBUsers}
                \cup {box.conf[p].pw : p \in Projects} \cup {box.app[p].pw : p \in Projects}
                \cup {box.dsn[p] : p \in Projects} \cup {cmd[p].pw : p \in Projects}
    IN  CHOOSE n \in 1..(Cardinality(used) + 1) : n \notin used

\* port_in_use: another prod.yaml has it, or something listens there.
PortInUse(port) == \E p \in Projects : box.conf[p].port = port \/ box.app[p].port = port

FreePort == CHOOSE n \in 1..(2 * Cardinality(Projects) + 1) :
              ~PortInUse(n) /\ \A m \in 1..(n - 1) : PortInUse(m)

\* A command on p, none of whose commands is still running.
Begin(p, c) ==
    /\ BoxAt(p, "idle") /\ boxruns < MaxBoxCommands /\ boxruns' = boxruns + 1
    /\ cmd' = [q \in Projects |->
                 IF q = p THEN c ELSE [cmd[q] EXCEPT !.alone = FALSE]]
    /\ settled' = settled \ {p}
    /\ UNCHANGED <<box, raced>>

-----------------------------------------------------------------------------
(* deploy *)

\* The record is there before the box is touched.
BeginDeploy(p) ==
    /\ Begin(p, [NoCommand EXCEPT !.pc = "clear", !.alone = \A q \in Projects : BoxAt(q, "idle")])
    /\ recs' = recs \cup {p} /\ UNCHANGED misjudged

ClearSource(p) ==
    /\ BoxAt(p, "clear") /\ BoxGoto(p, "copy")
    /\ box' = [box EXCEPT !.src = "none"] /\ Kept

CopySource(p) ==
    /\ BoxAt(p, "copy") /\ BoxGoto(p, "password")
    /\ box' = [box EXCEPT !.src = IF @ \in {"none", p} THEN p ELSE "mixed"]
    /\ Kept

\* Mutant of Password: minted by every run.
PasswordRotates(p) ==
    /\ BoxAt(p, "password")
    /\ cmd' = [cmd EXCEPT ![p].pc = "role", ![p].pw = FreshPassword]
    /\ box' = [box EXCEPT !.secret[p] = FreshPassword] /\ Kept

Password(p) ==
    LET pw == IF box.secret[p] # 0 THEN box.secret[p] ELSE FreshPassword
    IN  /\ BoxAt(p, "password")
        /\ cmd' = [cmd EXCEPT ![p].pc = "role", ![p].pw = pw]
        /\ box' = [box EXCEPT !.secret[p] = pw] /\ Kept

\* Created when missing, and given the password in any case.
AlterUser(p) ==
    /\ BoxAt(p, "role") /\ BoxGoto(p, "port")
    /\ box' = [box EXCEPT !.role[AppUser[p]] = cmd[p].pw] /\ Kept

AllocatePort(p) ==
    LET mine == box.conf[p].port
        port == IF mine # 0 THEN mine ELSE FreePort
    IN  /\ BoxAt(p, "port")
        /\ cmd' = [cmd EXCEPT ![p].pc = "conf", ![p].port = port]
        /\ raced' = (raced \/ \E q \in Projects \ {p} : cmd[q].port = port)
        /\ UNCHANGED <<box, recs, settled, misjudged, boxruns>>

WriteConf(p) ==
    /\ BoxAt(p, "conf") /\ BoxGoto(p, "build")
    /\ box' = [box EXCEPT !.conf[p] = [pw |-> cmd[p].pw, port |-> cmd[p].port]]
    /\ Kept

\* Under a tag of this run.  Without source docker fails, and with it the script.
Build(p) ==
    /\ BoxAt(p, "build") /\ box.src # "none"
    /\ cmd' = [cmd EXCEPT ![p].pc = "start", ![p].of = box.src]
    /\ UNCHANGED box /\ Kept

\* What a start of the unit gives: the app on its port, or, when that is taken or
\* the configuration torn, one that exits.
Started(p, b) ==
    LET c == b.conf[p] IN
    IF c = NoConf \/ \E q \in Projects \ {p} : b.app[q].port = c.port
    THEN NoApp ELSE [pw |-> c.pw, port |-> c.port, of |-> b.unit[p]]

StartApp(p) ==
    LET b == [box EXCEPT !.unit[p] = cmd[p].of]
    IN  /\ BoxAt(p, "start") /\ BoxGoto(p, "agent")
        /\ box' = [b EXCEPT !.app[p] = Started(p, b)] /\ Kept

\* `agent status` first, so that the box is paired once.
PairAgent(p) ==
    /\ BoxAt(p, "agent") /\ BoxGoto(p, "add")
    /\ box' = [box EXCEPT !.paired = TRUE] /\ Kept

\* `agent connection add` loads the connections of every project (those of a torn
\* file it does not, and the script ends), stores this one's DSN
StoreDSN(p) ==
    /\ BoxAt(p, "add") /\ box.conns # TornConns
    /\ cmd' = [cmd EXCEPT ![p].pc = "connect", ![p].conns = box.conns]
    /\ box' = [box EXCEPT !.dsn[p] = cmd[p].pw] /\ Kept

\* and writes them all back.
AddConnection(p) ==
    /\ BoxAt(p, "connect") /\ BoxGoto(p, "site")
    /\ box' = [box EXCEPT !.conns = cmd[p].conns \cup {p}] /\ Kept

\* The main Caddyfile too, when it is missing.
WriteSite(p) ==
    /\ BoxAt(p, "site") /\ BoxGoto(p, "reload")
    /\ box' = [box EXCEPT !.site[p] = cmd[p].port, !.front = TRUE] /\ Kept

\* Reload or restart: without the main Caddyfile Caddy does neither, and is down.
NoRoutes == [p \in Projects |-> 0]

\* Mutant of ReloadCaddy: what was loaded stays, however the sites have changed.
ReloadCaddyNot(p) ==
    /\ BoxAt(p, "reload") /\ cmd' = [cmd EXCEPT ![p] = NoCommand]
    /\ settled' = IF cmd[p].alone THEN settled \cup {p} ELSE settled
    /\ UNCHANGED <<box, recs, raced, misjudged, boxruns>>

\* The script's last step of consequence.
ReloadCaddy(p) ==
    /\ BoxAt(p, "reload") /\ cmd' = [cmd EXCEPT ![p] = NoCommand]
    /\ box' = [box EXCEPT !.routes = IF box.front THEN box.site ELSE NoRoutes]
    /\ settled' = IF cmd[p].alone THEN settled \cup {p} ELSE settled
    /\ UNCHANGED <<recs, raced, misjudged, boxruns>>

-----------------------------------------------------------------------------
(* destroy *)

\* It is the last project when no other record that could be listed names the host:
\* the list may be short of some, or missing altogether, its error ignored.
\* --skip-server leaves the box as it is.
BeginDestroy(p) ==
    /\ p \in recs /\ UNCHANGED recs
    /\ \E pc \in {"stop", "destroyed"}, listed \in SUBSET recs :
         /\ Begin(p, [NoCommand EXCEPT !.pc = pc, !.last = listed \subseteq {p}])
         /\ misjudged' = (misjudged \/ (listed \subseteq {p} /\ recs # {p}))

\* The unit and the container; of the images, the tag :latest, which no deploy
\* builds, so that those of its runs stay.
StopApp(p) ==
    /\ BoxAt(p, "stop") /\ BoxGoto(p, "unsite")
    /\ box' = [box EXCEPT !.app[p] = NoApp, !.unit[p] = "none"] /\ Kept

RemoveSite(p) ==
    LET site == [box.site EXCEPT ![p] = 0] IN
    /\ BoxAt(p, "unsite") /\ BoxGoto(p, "erase")
    /\ box' = [box EXCEPT !.site = site, !.routes = IF box.front THEN site ELSE NoRoutes]
    /\ Kept

\* rm -rf of the project's directory.
EraseProject(p) ==
    /\ BoxAt(p, "erase") /\ BoxGoto(p, "disconnect")
    /\ box' = [box EXCEPT !.secret[p] = 0, !.conf[p] = NoConf] /\ Kept

\* `agent connection remove` loads them, deletes the DSN
DeleteDSN(p) ==
    /\ BoxAt(p, "disconnect") /\ p \in box.conns
    /\ cmd' = [cmd EXCEPT ![p].pc = "forget", ![p].conns = box.conns]
    /\ box' = [box EXCEPT !.dsn[p] = 0] /\ Kept

\* and writes the others back.
RemoveConnection(p) ==
    /\ BoxAt(p, "forget") /\ BoxGoto(p, "purge")
    /\ box' = [box EXCEPT !.conns = cmd[p].conns \ {p}] /\ Kept

\* It fails on a torn file, or when the connection is not there; the script goes on.
NoConnection(p) ==
    /\ BoxAt(p, "disconnect") /\ p \notin box.conns /\ BoxGoto(p, "purge")
    /\ UNCHANGED box /\ Kept

\* With --purge only.
PurgeDatabase(p) ==
    /\ BoxAt(p, "purge") /\ BoxGoto(p, "last")
    /\ UNCHANGED box \/ box' = [box EXCEPT !.role[AppUser[p]] = 0]
    /\ Kept

\* The shared agent goes with the last project, and with it all its connections;
\* and the main Caddyfile, after which Caddy keeps what it has loaded.
RemoveAgent(p) ==
    /\ BoxAt(p, "last") /\ BoxGoto(p, "destroyed")
    /\ box' = IF cmd[p].last
              THEN [box EXCEPT !.paired = FALSE, !.dsn = [q \in Projects |-> 0],
                               !.conns = {}, !.front = FALSE]
              ELSE box
    /\ Kept

EndDestroy(p) ==
    /\ BoxAt(p, "destroyed") /\ cmd' = [cmd EXCEPT ![p] = NoCommand]
    /\ recs' = recs \ {p}
    /\ UNCHANGED <<box, settled, raced, misjudged, boxruns>>

-----------------------------------------------------------------------------
(* Failures *)

\* What a step that was cut short leaves of its writes: an empty file, the first
\* of two removals, a unit that was not restarted yet, a part of the connections.
HalfDone(p) ==
    \/ BoxAt(p, "copy") /\ box' = [box EXCEPT !.src = "mixed"]
    \/ BoxAt(p, "conf") /\ box' = [box EXCEPT !.conf[p] = NoConf]
    \/ BoxAt(p, "start") /\ box' = [box EXCEPT !.unit[p] = cmd[p].of]
    \/ BoxAt(p, "add") /\ box.conns # TornConns /\ box' = [box EXCEPT !.dsn[p] = 0]
    \/ cmd[p].pc \in {"connect", "forget"} /\ box' = [box EXCEPT !.conns = TornConns]
    \/ BoxAt(p, "site") /\ box' \in {[box EXCEPT !.site[p] = 0, !.front = TRUE],
                                     [box EXCEPT !.front = TRUE]}
    \/ BoxAt(p, "stop") /\ box' = [box EXCEPT !.app[p] = NoApp]
    \/ BoxAt(p, "unsite") /\ box' = [box EXCEPT !.site[p] = 0]
    \/ BoxAt(p, "erase") /\ box' \in {[box EXCEPT !.secret[p] = 0], [box EXCEPT !.conf[p] = NoConf]}
    \/ BoxAt(p, "last") /\ cmd[p].last /\ box' = [box EXCEPT !.paired = FALSE]

\* A command stops anywhere.  destroy goes on to remove the record when only its
\* script has failed.
Stops(p) ==
    /\ ~BoxAt(p, "idle") /\ cmd' = [cmd EXCEPT ![p] = NoCommand]
    /\ UNCHANGED box \/ HalfDone(p)
    /\ \/ UNCHANGED recs
       \/ cmd[p].pc \in {"stop", "unsite", "erase", "disconnect", "forget", "purge", "last"}
          /\ recs' = recs \ {p}
    /\ UNCHANGED <<settled, raced, misjudged, boxruns>>

AppDies(p) ==
    /\ box.app[p] # NoApp /\ box' = [box EXCEPT !.app[p] = NoApp]
    /\ UNCHANGED cmd /\ Kept

\* Restart=always, and at boot.
AppReturns(p) ==
    /\ box.app[p] = NoApp /\ box.unit[p] # "none" /\ Started(p, box) # NoApp
    /\ box' = [box EXCEPT !.app[p] = Started(p, box)]
    /\ UNCHANGED cmd /\ Kept

BoxNext == \E p \in Projects :
    \/ BeginDeploy(p) \/ ClearSource(p) \/ CopySource(p) \/ Password(p) \/ AlterUser(p)
    \/ AllocatePort(p) \/ WriteConf(p) \/ Build(p) \/ StartApp(p) \/ PairAgent(p)
    \/ StoreDSN(p) \/ AddConnection(p) \/ WriteSite(p) \/ ReloadCaddy(p)
    \/ BeginDestroy(p) \/ StopApp(p) \/ RemoveSite(p) \/ EraseProject(p)
    \/ DeleteDSN(p) \/ RemoveConnection(p) \/ NoConnection(p) \/ PurgeDatabase(p)
    \/ RemoveAgent(p) \/ EndDestroy(p)
    \/ Stops(p) \/ AppDies(p) \/ AppReturns(p)

BoxSpec == BoxInit /\ [][BoxNext]_boxvars

-----------------------------------------------------------------------------
(* Properties *)

\* "a re-deploy never rotates it out from under the app config" (the password,
\* bootstrap.sh.tmpl:211-212): a running app has the password its database user
\* has, at every moment of every command on the box, its own re-deploys included,
\* wherever any of them stopped.
NeverLockedOut ==
    \A p \in Projects : box.app[p] # NoApp => box.role[AppUser[p]] = box.app[p].pw

\* "Multi-project safe" (bootstrap.sh.tmpl:3): once a deploy has run alone to its
\* end, whatever other projects' commands do, wherever they die, and whatever
\* earlier ones of its own had left, the project's code is what runs, no other app
\* is on its port, app and database agree on the password, Caddy sends its visitors
\* there, and the box's agent has that password and the connection.
\* Three things take some of it away.  Two deploys at once can be given one port, and
\* keep it (see PortsApart).  A command killed while it writes the connections of all
\* the projects loses them all, until the agent is removed.  And a destroy that takes
\* itself for the last one (command_deploy.go:506 ignores the list's error) removes
\* the agent and the Caddyfile of the others; what they run, they keep.
TenantIsServed ==
    ~raced => \A p \in settled :
        LET pw   == box.secret[p]
            port == box.conf[p].port
        IN  /\ pw # 0 /\ box.role[AppUser[p]] = pw /\ box.conf[p].pw = pw
            /\ box.unit[p] = p /\ box.app[p] \in {NoApp, [pw |-> pw, port |-> port, of |-> p]}
            /\ \A q \in Projects \ {p} : box.app[q].port # port
            /\ \/ misjudged
               \/ /\ box.routes[p] = port /\ box.paired /\ box.dsn[p] = pw
                  /\ box.conns = TornConns \/ p \in box.conns

-----------------------------------------------------------------------------
(* What does not hold: of deploys at once *)

\* An app runs its own code, and no two were given one port.
BuildsItsOwn == \A p \in Projects : box.unit[p] \in {p, "none"}
PortsApart ==
    \A p, q \in Projects : p # q /\ box.conf[p].port = box.conf[q].port => box.conf[p] = NoConf

\* Nor of a re-deploy that changes its port and stops before its site follows.
RoutesApart ==
    \A p, q \in Projects : p # q => box.routes[p] = 0 \/ box.routes[p] # box.app[q].port
=============================================================================
