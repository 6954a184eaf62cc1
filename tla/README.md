# nuzur-cli in TLA+

TLA+ specifications of the parts of `nuzur-cli` in which order, failure and
concurrency decide the outcome, the TLC runs that check them on small
instances, and TLAPS proofs of what matters most for every instance. Paths are
relative to the repository (`src/` is its root); `PROJECT.json` lists, for every
definition, the lines it models.

Contents: the system (1), the modules and how they correspond to the code (2),
what each run checks (3), bounds (4), fairness (5), proofs (6), what the code
does otherwise than its comments say (7), what is not modelled (8), the plan (9).

## 1. The system

`nuzur-cli` is one Go binary with two lives. On a developer's machine it is a
command that generates code, deploys it to a server and takes it down again. On
the server, or on the developer's machine, it is also the *local agent*: a
daemon that holds a gRPC stream to nuzur's connection manager and runs SQL on
databases the cloud cannot reach.

| Component | State it keeps | Operations | Interacts with |
|---|---|---|---|
| Agent loop (`agent/daemon.go`, `version.go`) | where `Run` is, backoff, the semaphore's capacity | start, Hello/Welcome, end of a stream, backoff, exit; restart by launchd or systemd | connection manager; starts and ends sessions |
| Agent session (`daemon.go`, `handlers.go`) | one goroutine per reverse RPC, each with the slot it took and the transaction it works on | RunQuery, Exec, SchemaPlan, BeginTx, Commit, Rollback, Ping | semaphore, transaction pool, handle cache, stream |
| Query semaphore (`semaphore.go`) | tokens in a channel | Acquire with a context, Release | every handler that takes a slot; survives reconnects |
| Transaction pool (`txpool.go`) | map of tx id to transaction and last use | Add, Get + touch, Pop, reapIdle, CloseAll | handlers, the reaper goroutine, the loop |
| Handle cache (`dbpool.go`) | map of connection uuid to `*sqlx.DB`, the fallback handle | Get, Close | handlers; the registry, read once at start |
| Connection registry (`agent/connections`) | a JSON file, and DSNs in the OS keychain or an encrypted file | load with migration, add, remove, save | agent commands, the daemon at start, `deploy`'s bootstrap |
| Pairing and publishing (`app/command_agent*.go`, `files/local_agent.go`) | agent uuid and token files, legacy files, the login | pair, unpair, revoke, migrate, publish the registry as user or as agent | nuzur; the daemon reads the files |
| Deployment records (`deploy/state.go`) | one JSON file per deployment: provider, host, VM name and instance id, agent, connection, checkpoint, last error | load, `MutateDeployment` (read, change, rename), list, delete | `deploy`, `destroy`, `--plan`, listing |
| Targeting (`app/deploy_targeting.go`) | none: decisions over one list of records | pick prior record, box agent, managed box; decide the box | first step of `deploy`; `destroy` |
| Deploy pipeline (`app/deploy_pipeline.go`) | `deployState` in memory; the record on disk | a list of steps, each with a condition to skip it: decide, generate, token, record, create VM, record the box, bootstrap, wait for the agent, publish, schema, finalize, report | records, provider, box, nuzur's agents and revisions |
| Server box (`deploy/templates/bootstrap.sh.tmpl`, `teardown.sh.tmpl`) | on the server, per project: password file, database user, `prod.yaml` with its ports, unit, container, agent connection, Caddy site; shared: source directory, database engine, agent, Caddy | the two scripts, section by section | `deploy` and `destroy` run them over ssh; systemd restarts the apps |
| Interrupts and revisions (`app/command_deploy.go`, `command_deploy_report.go`) | the interrupt cell shared by two goroutines; the revision's status in nuzur | deferred hook, signal goroutine, progress and final updates | pipeline, records, nuzur |
| Destroy (`app/command_deploy.go`) | one list of records, read once | teardown on the box, revoke or re-publish, delete the VM, remove the record | box, provider, nuzur, records |
| Destroy summary (`app/command_destroy_outcome.go`) | the outcome that destroy fills in | headline, sentence about the database | destroy |
| Schema gate and push (`deploy_schema_gate.go`, `deploy_schema_push.go`, `extensionrun/run.go`) | what the gate saw and answered | pre-flight diff, start and poll of the extension, answer to its step, outcome | pipeline; an extension that runs on a server |
| SQL plans (`sqlplan/`) | none | split a script, strip comments, classify | the gate and `--plan` |
| Kubernetes deploys (`deploy_k8s.go`, `deploy/ci.go`, `k8s*.go`) | workspace, git history, record | generate, stamp the chart, commit, push, wait for CI, helm, record | GitHub Actions, a cluster |
| Generated workspace (`extensionrun/run.go`, `files/generated_manifest.go`, `extensionrun/gomod.go`) | the files, their markers, the manifest, `go.mod` | extract an archive, preserve, prune, reconcile | the user, who edits in between |
| Self-update (`app/selfupdate.go`) | the binary on the path, a staged file | check, download, verify, swap | the release page |
| Field files, code scan, login, scaffold | files of their own | see section 8 | nuzur |

What makes it hard, and what has to hold:

* **Agent session.** Every reverse RPC is a goroutine; the stream under it may
  die and be replaced while it runs; the reaper and the end of a session reach
  for the transactions handlers are working on. Slots must balance, each
  transaction must be ended once, none may pin one of the five connections for
  good, and a commit must be acknowledged when it is made or not at all.
* **Agent loop.** Backoff must grow while nobody answers, stop growing, and start
  again; a version the server refuses must not be retried; a server that comes
  back must be found.
* **Handle cache.** Two Gets of one connection open two handles outside the
  mutex. One must survive and the other be closed.
* **Records, deploy, destroy.** A VM cannot be created and recorded in one step,
  a pairing happens on another machine, runs die anywhere, two terminals may be
  at work. No VM may run that no record leads to; a re-run must take the box
  there is; the agent on a record must be its box's; destroy must not take what
  another project uses.
* **Server box.** One password is in five places, which a script that can die
  between any two writes one after the other; several projects' scripts use one
  server. No running app may be locked out of its database, and a project that
  is up must stay up and reachable whatever its neighbours do.
* **Interrupts.** The signal goroutine sees the pipeline only through a cell,
  and does not stop it. What it says and what it marks should be true.
* **Registry, record and credential files.** Several files or a file and a
  keychain change one after the other, without a lock, under commands that die.
  No DSN, no field of a record and no user's file may be lost, and the two
  credential files must be of one pairing. Some steps are best-effort: they fail
  with a warning, or without, and the command goes on.
* **Schema.** The extension that changes the database does not stop when the CLI
  does, and calls and replies get lost. Data may be deleted only with leave, and
  the report must say what was run.
* **SQL plans.** What is classified and approved has to be what the engine runs.
* **Kubernetes.** A deploy releases an image that somebody else builds from a
  commit; earlier runs leave trees, commits and charts behind.
* **Reports.** What `destroy` prints at the end must be so, above all of a VM that
  is still billed.
* **Self-update.** Whoever runs the command meanwhile must find a whole binary.

## 2. Modules

`X` is the component, `MCX` its instances for TLC, `X_proof` its theorems. Four
proof modules hold those of more than one component: `AgentDaemon_proof` also
`AgentLoop`'s, `AgentFiles_proof` those of `AgentRegistry` and `AgentPairing`,
`Installed_proof` those of `SelfUpdate`, `ServerBox` and `Workspace`, and
`Outcome_proof` those of `SchemaApply`, `K8sRelease`, `RecordStore`,
`DestroyReport` and `DeployRun`. `Numbers` holds facts about the natural numbers
that they cite.

**`AgentDaemon`**: one daemon process and everything in it that a reverse RPC
touches. `h[g]` is a goroutine: the request (`op`), where it is (`pc`), its
transaction, the session whose stream context it runs under, whether it has a
slot. `sem` is the channel's length, `txs` the keys of `txPool.txs`, `idle` those
whose `lastUsed` is older than the timeout (the clock is this set), `reaping`
the entries `reapIdle` removed and whose rollback goroutine is still to run.
`txstate` is what the database did with each transaction; a context that is
done rolls its transactions back (`CtxRollback`), as `database/sql` does.
Each step between two points where another goroutine can get in is an action:
`StmtGet` and `StmtTouch` are two since `touch` comes after the unlock, `BeginConn`,
`BeginAdd` and `BeginReply` are three, `ReapIdle` and `ReapRollback` are two.
`StreamEnds` ends the context at once and `CloseAll` follows in another step;
in between, and after it, handlers of the dead session go on. `Exit` is a signal,
a fatal error or a crash, `Restart` the service manager.

**`TxService`**: what the cloud is promised: a transaction is begun once, ended
once, and a commit is acknowledged in the step that makes it or never.
`AgentDaemon` instantiates it with `state <- txstate` and `MaxOpen <-
MaxOpenConns`, and `ServiceSpec` is its specification under that mapping.

**`AgentLoop`**: `Run` and `runOnce` seen from outside: `Hello` with the version
check, the three ways a stream ends, `Waits` and `Redials` with the real
constants of backoff, `GivesUp`, and a server that comes and goes. `refused` counts
the dials in a row that no Welcome answered; `Power2` of it is what the wait is
measured against.

**`ConnCache`**: `dbPool.Get` in the steps its mutex separates (`Hit` or `Miss`,
`Open`, `Store`), the two unlocked reads of the fallback field (`CheckFallback`,
`TakeFallback`), and `Close`. `AgentDaemon` counts the connections of one handle
and so relies on `OneHandlePerConnection`.

**`DeployTargeting`**: the record and the pure decisions: `PickPriorDeployment`,
`PickBoxAgent`, `PickManagedBox`, `DecideDeployBox`, `KnownAgent`,
`CarryForwardProvisioning`, `IsLast`. A record's strings are model values; its
`created` is a logical time.

**`Deploy`** extends it with the world the two commands share: `recs` (the files),
`vms` (at the provider), `paired` (whose credentials are on each box),
`registered` (the agents nuzur lists) and `cli[p]`, one command per terminal. A
deploy goes through one action for each pipeline step that reads or writes one
of these, in the pipeline's order, and `Stop` may end it between any two: an
error, an interrupt or a crash. `destroy` is split where the code makes a remote
call. `asked` and `excused` are history: the VMs a destroyed record named, and
those a destroy kept or could not delete and said so. Attempt `n` names what the
attempt would mint (record id, resource name, agent, connection), which is what
`shortID` and fresh uuids give. `MCDeploySerial` is one terminal in two settings: one
app deployed and destroyed again and again on boxes of a provider, and two apps
that may share a given box or a VM.

**`DeployRun`** follows the runs of one record at a finer grain: `noteCheckpoint`
before the rename, the revision opened at the server before its uuid is known
here, the deferred hook, and the signal goroutine. That one reads the revision
from the cell, marks it, reads the checkpoint, reads the VM and exits, each in a
step of its own (`Handler`), while the main goroutine goes on. `said` is what it
read and names, `seen` is history: what the record and the provider had when it
read them. What the steps do to boxes and agents is `Deploy`'s.

**`ServerBox`**: a server under the scripts of several projects. `box` is what is on
it: `secret`, `conf`, `unit`, `app`, `dsn`, `site` and `routes` (what Caddy has
loaded) per project; shared are the passwords of the database's users (`role`),
the owner of `/tmp/nuzur-src` (`src`), whether the agent is paired, the file of its
connections (`conns`) and the main Caddyfile (`front`). `cmd[p]` is the
command that runs on project `p`, and each section of its script an action;
`agent connection add` is two, since it loads the file, stores the DSN and
writes everybody's connections back (`StoreDSN`, `AddConnection`), and so is its
`remove`. `Stops` ends a command between any two, or inside one with half of its
writes (`HalfDone`): a kill while the connections are written leaves them torn,
and no later `connection` command can load them. `BeginDestroy` takes a list of
the records that may be short, as its error is ignored. Passwords and ports are
numbers; a fresh password is one that is nowhere. `AppUser` is `sanitizeDBName`.
`settled`, `raced` and `misjudged` are history: which projects' last command was a
deploy that ran alone to its end, whether two deploys at once were given one
port, and whether a destroy took itself for the last on the box and was not.
`MCServerBox` gives two projects one database user.

**`DestroyReport`**: one `destroy` from its record to its closing lines. `drec` is
the record and what the other records say of its box, `flags` the command line,
`world` what is really there. `outcome` is the code's `destroyOutcome`, which the
actions fill in as the code does and `Headline` and `DatabaseLine` render;
sentences are named by what they claim, and `TrueOf` is that claim about `world`.
Every remote call may fail in each way the code tells apart, the `DROP`s of a
teardown may fail in the one way it does not (`|| true`, `Drops`), and the VM may
vanish at the provider.

**`RecordStore`**: one record file under several terminals. `MutateDeployment` is
its read, the open of `<record>.tmp` (which truncates), the write and the rename;
names lead to files (`recFile`, `tmpFile` into `inodes`) because a rename moves the
file another writer has open. `Deploy` does all this in one action;
`RecordKeepsWhatIsKnown` says when it may.

**`AgentRegistry`**: the registry file and the two keychain backends under `agent
connection add`, its scripted form, and `remove`. `term[t]` is a command with its
copy of the file; `Migrate` and `Rewrite` are `Load`'s two halves; the backend is
chosen once per process, while the login keyring locks and unlocks
(`KeyringTurns`). A backend has one DSN per uuid, and `PutDSN` overwrites it; DSNs
are numbered, and `own` is the one an entry was added with. `givenUp` and `reused`
are history: the uuids a command was asked to remove or replace, and those an
add was given while another entry had them.

**`AgentPairing`**: the credentials (two files), the legacy directory (two, one or
none), the agents nuzur has, and one agent command at a time: pair, pair --force,
unpair, publish. Each file is written and removed in a step of its own. The
migration before each command is best-effort: `MigrationFails` leaves the rest and
the command goes on, perhaps with an empty file (`empty`). `halfway` is history: a
command died between its two files or could not remove one. Publishing is the choice
of credential, the pairing it may begin with, the one retry for an agent nuzur
does not have, and the change to the agent's own credential when the login has
expired. `Register` may reach nuzur and its reply be lost.

**`K8sRelease`**: the Kubernetes pipeline run after run over one workspace, git
history and record. A commit is its place in `commits` and stands for the image
tag CI would publish for it; `ci` is what became of the build of each. `Poll` is
one round of `WaitForImageBuild`; `Helm` upgrades atomically, with the chart that
is on disk, behind the ingress guard.

**`SchemaApply`**: one deploy's way to its schema. `setup` is what it was asked and
of which database, `todo` the statements between database and model; `push` is the
execution on the server, which goes on by itself; `gate` is `schemaGateResult` with
what the poll loop answered; `verdict` is the reported outcome. Starting,
polling and answering may each be lost before or after they take effect, and
somebody may change the database in between (`Drift`).

**`SqlPlan`**: the statement splitter as a walk over pieces, one action for each case
of its loop, with the jumps the code makes. The pieces are what a lexer tells
apart: the three quotes, the backslash, `;`, `$$`, the comment openers (`--`, `#`, `/*`,
MySQL's executable `/*!`) and `*/`, a newline, `DELIMITER` at the start of a line, the prefix
`E`, and `word`, a run of keywords and names. The delimiter is a sequence of pieces.
The reference is `Reading`, a lexer that goes piece by piece and never jumps.
`LeadingVerb` is what `stripLeadingComments` leaves for `classify` to look at.

**`Workspace`**: generations extracted into a directory that a user edits. The
workspace's own directory (`Flat`) and directories below it may each be the root
of a generated project, with a manifest and a `go.mod`; `TheOne` is how the code
finds one of them. A path holds generated, stub, user's or torn content; an
entry is opened (truncated) and written in two steps; an archive may come
without a manifest or `go.mod`. `Cleanup` removes nothing when the root moved or
there is no one manifest, and may stop at any file with a warning; `Reconcile` may
warn instead of restoring. `Cut` is a kill, or a write that fails and ends the
command. What the user owns (`owned`, `wanted`) is the user's view of it, and
`leftOver` the files no manifest tells of, or that a warning does.

**`SelfUpdate`**: updates by several terminals while releases appear file by file:
check, download, stage, chmod, rename of `exe`.

**`MCParts`** gives TLC one instance of `ConnCache`, `AgentLoop` and every module from
`DeployRun` on, thirteen in all. They share no state, so a behaviour picks one `part` and runs it alone
while the others rest at a fixed initial state: the reachable states are the sum
of the parts', and each invariant is checked on exactly its part's own
behaviours. (The proofs are about the parts' own specifications.) `View` leaves out
the parts at rest, and `Symmetry` swaps the two projects of a box, and those of a
workspace with their files. `MCLiveness` does
the same for the three parts that promise progress: the daemon, its loop, and a
Kubernetes deploy.

## 3. Runs

| Run | Result | Question |
|---|---|---|
| `AgentSafety` | holds | With three handlers, two transactions, two sessions, restarts: slots balance, a transaction has one party to end it and an open one always has one, an answered Commit or Rollback leaves no entry, and the daemon implements `TxService` |
| `Liveness` | holds | Requests that wait for a connection an abandoned transaction pins get their answer; an entry added after its session's `CloseAll` leaves the pool; a server that stays up and accepts the version is served again (`Reconnects`); the wait for CI ends (`CIWaitEnds`) |
| `AgentStaleIds` | violated | "otherwise the next session inherits stale tx_ids" |
| `LoopWelcome` | violated | "On a successful Hello/Welcome (no error), reset backoff so the next failure starts fresh at 1s instead of compounding" |
| `DeploySerial` | holds | One terminal, each command stopping anywhere: three deploys and two destroys of one app, or two deploys and two destroys of apps that share a given or a managed box. VMs stay reachable, checkpoints tell what the record has, no second VM unasked, no agent is revoked that another record uses, until the first destroy a record's agent is its box's |
| `DeployConcurrent` | holds | Two terminals, two apps: VMs stay reachable |
| `DeployNewVMSelected` | violated | `VMTracked` with `--deployment` and `--new-vm` together |
| `DestroyCoTenants` | violated | "the VM nuzur created is deleted when the last project on it is destroyed" |
| `RunStranded` | violated | "Interrupted before the deploy was recorded in nuzur" leaves nothing there |
| `Parts` | holds | The thirteen parts of `MCParts`, by property below |
| `SchemaConsistent` | violated | "The app and database are unchanged and consistent" |
| `BoxSharedUser` | violated | "they'd share the derived DB name/user and collide. Require a distinct id": that distinct identifiers have distinct users |

`Parts` asks, part by part:

| Property | Part | Question |
|---|---|---|
| `OneHandlePerConnection`, `HandedOutIsOpen`, `NoHandleLost` | handle cache | Three Gets race over a connection, a fallback and `Close`: one handle, never a closed one, none lost |
| `RefusalsSlowDown` | loop | After the n-th dial in a row without a Welcome the wait is at least 1 s doubled n - 1 times, or 60 s, whatever it was before; after a clean end it is 1 s |
| `VMAnnounced`, `SaidIsNotBehind`, `ErrorIsOwn` | deploy's runs | Runs of one record cut anywhere: a VM requested by the time the signal handler looks for one is named, the checkpoint it names is not one the record had passed when it looked, an error goes only on the run's own record |
| `NeverLockedOut`, `TenantIsServed` | server box | With three commands of two projects interleaved and cut anywhere: a running app has its database user's password at every moment; a project whose deploy ran alone to its end keeps its code, its port and one password everywhere, its route and its agent's connection, whatever the other's commands do, unless two deploys at once were given one port; but a kill may tear the file of all connections, and a destroy that took itself for the last takes route and agent |
| `DSNSurvives` | registry | Two terminals' commands interleave, migrate and die anywhere: the DSN that a registered connection was added with is still in a keychain or in the file, unless a command was asked to remove or replace it, or an add was given its uuid |
| `NoOrphans`, `CredsMatch`, `PublishedUnderOwnAgent` | pairing | Between commands nuzur has no agent this machine forgot, but for those `--force`, `--keep-remote`, a crash or a lost reply leave; the two files are of one pairing, or one of a migration stands alone, unless a command died between them; a publish that succeeds is under the agent on disk |
| `BillingIsTold`, `LastReportIsTrue` | destroy's report | A VM that outlives the last destroy was kept by a flag or warned about; the report of a last destroy whose teardown ran or was skipped is true, but for a `DROP` that failed in the script and a VM that could not be deleted |
| `DeploysWhatItGenerated` | Kubernetes | A deploy that commits and ends well leaves the cluster with the code and chart it generated, whatever earlier runs left |
| `RecordKeepsWhatIsKnown` | record file | With crashes, left-over temporary files and destroys of other terminals, a record that no two mutations wrote at once is whole and has all it was ever given |
| `LossIsAuthorized`, `SaysWhatRan` | schema | With lost calls and replies, drift, and an extension that goes on alone, data is deleted only with `--allow-destructive`; "nothing was sent" and "applied" are true |
| `AlwaysACLI` | self-update | The binary on the path is whole and executable at every moment, and no update starts towards an older version |
| `SplitsAsRead`, `VerbIsSeen` | SQL plan | On every script of up to four pieces (and, proved, of any length), the splitter cuts where the reference lexer does, and a statement of a generated script that begins with a verb is classified by it, whatever comments stand above |
| `UserWorkSurvives`, `NothingStale` | workspace | Generations, cut or not, leave the user's files alone, unless an archive has no manifest, and bring directives back, unless they were cut or warned or the workspace has a `go.mod` above the project's; where none was cut and there is one project, nothing generated outlives its generation without a warning |

A violated run checks one property, and its counterexample is the finding of the
same name in `PROJECT.json`. Every property of a run that holds has a mutant, an
operator next to the definition it would replace (`BeginSchemaFailsOpen` beside
`BeginSchemaFails`): a bug of the code that makes TLC violate that property.

## 4. Bounds

* `AgentDaemon`: `Handlers`, `TxIds`, `Cap`, `MaxOpenConns` and `MaxSessions`. Three
  handlers let a Commit, a statement and a Begin meet on two transactions; two
  slots and two connections can both be exhausted by them; two sessions let a
  handler outlive its stream. The nil semaphore (`Cap = 0`) is covered by the
  proofs. Transaction ids are minted once, as uuids are.
  The liveness run has two handlers, one transaction, one slot and one
  connection: the smallest instance in which a slot holder waits for a
  connection that somebody else pins. The proofs of section 6 have none of
  these bounds.
* `AgentLoop`: the code's 1 s and 60 s; `MaxRefused = 8` is past the sixth
  doubling, where the ceiling is reached, and the count stops there, not the loop.
  The proof has any two numbers and any number of refusals.
* `ConnCache`: `MaxHandles = 3` handles for three callers of one connection and the
  fallback, so that all of them can open at once; `OneHandle` and its companions
  are proved for any number.
* `AgentRegistry`: two terminals, two names, two uuids, `MaxCommands = 2`: the
  shortest way to lose an update takes two commands, and `DSNAlwaysSurvives` is
  proved for any number.
* `AgentPairing`: `MaxAgentCommands = 3` (pair, unpair, pair again, or a publish after
  both) and `MaxAgents = 3` registrations: a legacy one, a pairing and a re-pairing.
* `K8sRelease`: `MaxK8sRuns = 3`, so that a run can meet what two earlier ones left
  (an unpushed commit of the first, a tree of the second); `MaxPolls = 1` round
  before the deadline, since rounds differ in nothing but the count; one ingress
  host, present or absent.
* `RecordStore`: two writers, two fields, `MaxStoreOps = 4` commands: a mutation that
  dies leaves a temporary file, a second one meets it, a destroy and a third
  follow. Each command creates at most one file, so `Files` has one more.
* `SelfUpdate`: two terminals and three versions, 1.9, 1.10 and 2.x, that order
  otherwise as text than as numbers.
* `SqlPlan`: `MaxPieces = 4`: the shortest scripts that tell two boundary rules apart
  (a literal prefix, the literal's opener, an escape, its closer; a directive, its
  argument, the newline, a piece that it makes the delimiter) have four pieces.
* `Workspace`: two projects' roots below the workspace's own directory, a path in
  each, and two generations: what a generation writes, and the next one prunes,
  finds taken over, or finds elsewhere. Both properties are proved for any roots
  and paths and any number of generations.
* `ServerBox`: two projects and `MaxBoxCommands = 3`: a deploy that settles, a
  neighbour's deploy and its destroy; or a deploy, its neighbour's, and a
  re-deploy of either.
  `BoxSharedUser` needs two. Both properties are proved for any number of projects
  and commands.
* `SchemaApply` and `DestroyReport` are finite without a bound.
* `Deploy`: `MaxAttempts` deploys and `MaxDestroys` destroys. Three attempts are
  needed for what a re-run of a re-run decides, two destroys for both orders of
  removing two co-tenants. One managed provider is enough for what holds, and a
  given box for sharing without a VM. `SelectorNewVM = FALSE` leaves out `--new-vm` together
  with `--deployment` or `--host`; with it `VMTracked` fails (section 7), and the
  runs that hold say what is true without it. `DeploySerial` has three attempts of one
  app on managed boxes, and two when a second app or a given box comes in, with two
  destroys in either. `DeployConcurrent` has two attempts and
  one destroy. With more of both it would not hold: a terminal that read the
  records, waits, and then deploys `--deployment` to one that another terminal has
  just destroyed writes an id again that a third command's snapshot still has, and
  two such writers overwrite each other's VM. With two managed providers,
  `--deployment` of an older record can do so alone. A claim about more terminals
  needs the record store to be atomic over read and write (section 9). The proofs
  have any number of deploys, destroys, apps and given boxes.
* `DeployRun`: `MaxRuns = 2`: a run and one that finds its record; each property is
  about one run and what an earlier one left, and is proved for any number.

`CHECK_DEADLOCK FALSE` is given where the bounds let every terminal come to
rest, and in `Parts` and `Liveness` because most parts end. `AgentDaemon` never rests, and
deadlock is checked there. `AgentSafety`, `DeployConcurrent` and `Parts` use symmetry,
on sets whose members nothing compares; no run with a liveness property does. The
`VIEW` of `Parts` loses nothing: what it leaves out is the same in all states with
the same `part`.

## 5. Fairness

* `AgentDaemon!FairSpec`: strong fairness of each handler's steps. The Go scheduler
  runs every goroutine that can run; a free slot or connection may come and go,
  but channel senders and `database/sql`'s waiters are served in the order they
  came, so who can get one again and again does. Weak fairness of the reaper's
  ticker, of the rollback goroutines, of time passing (`GoIdle`), of
  `database/sql`'s rollback of a dead context, and of the loop's own steps.
  Statements end: that is the database's promise, and stated as an assumption.
  Nothing is assumed of the cloud or the network. Failures (`ConnRefused`,
  `CommitFails`, `BeginSchemaFails`) are never required. `AbandonedTxUnblocks`
  holds only of a cloud that stops using its transactions: one that keeps
  touching them keeps the reaper away.
* `AgentLoop!LoopFairSpec`: the loop's own steps, timers included, are weakly fair; a
  server that is up and accepts the version is assumed to complete a handshake
  it is offered again and again (strong fairness of a successful `Hello`).
  `Reconnects` lets the process end instead, since signals may stop it.
* `K8sRelease!K8sFairSpec`: weak fairness of `Poll`, which has a ticker and a deadline
  of its own. Nothing is assumed of GitHub.
* `MCLiveness!LivenessSpec` has the three conjunctions above, each for its part. In a
  behaviour of another part those actions are never enabled, so the fairness
  says nothing there.
* The other parts, `Deploy` and `DeployRun` state no fairness and no liveness: a command may die at
  any step.

## 6. Proofs

TLAPS checks the following for every value of the constants, under the named
assumptions of the modules: finite sets of handlers, ids and terminals, natural
bounds, a first wait that is positive and no longer than the ceiling, and
distinct names. (`NoTx` is no transaction id, `None` no record, box or provider, a given
box's address no VM's name; the constants of `ConnCache` differ; no field is called
"torn", no path "manifest", "go.mod" or "none", no project "none", "mixed" or "torn"; every
path has a root, and `Flat` is one.) Where a
theorem needs more it says so in its ASSUME.

`AgentDaemon_proof`. The invariants the runs check are not inductive one by one,
and are proved in three layers.

1. `SlotInv`: types, `SlotsConserved`, and `Shapes`, which says what a handler's
   place says of its request (a handler at `"end"` has a commit or a rollback of
   a real id; one at `"acquire"` has no slot). `Return` gives a slot back exactly
   when the record has one, and only the shapes exclude that it is taken twice.
   Theorems `TypeCorrect`, `SlotsAreConserved`.
2. `Minted` and `OneEnder`: who may end a transaction. `OneEnder` needs that an id
   fresh from `BeginConn` is nobody's, which is `Minted`: what somebody may end
   has begun. Theorem `OneEnderAlways`.
3. `Sessions` and `NoConnLeak`: no transaction and no request is of a session to
   come, so a stream that is over stays over, and a transaction whose last
   ender leaves is one that is done or whose stream is. Theorem
   `NoConnLeakEver`.

From the invariant, `EndingAlwaysDropsEntry` is the action property, and
`ImplementsService` shows `Spec => ServiceSpec`: initial states map to initial
states and each step to a `Begin`, a `Commit`, an `Abort` or a stutter.

`RefusalsAlwaysSlowDown` (`AgentLoop`): after n refusals the wait is the ceiling or at
least the first one times `Power2[n]` (`Slowed`), wherever the loop is between dial and
wait. A clean end brings it back to the first wait, and with it, as it was welcomed,
the count to 0. That a power of two exists at all is `Numbers`' `Iteration` (below).

`ConnCache_proof`. The inductive invariant adds two facts: `Fresh` (handles are
minted in order, so what a running Get has opened is its own, open and not
cached) and `Current` (until `Close`, what a Get returned is what the pool still
has). Theorems `OneHandle`, `HandedOutIsAlwaysOpen`, `NoHandleEverLost`.

`Deploy_proof`: the two commands over their shared records. `TypesAlwaysOK` needs
nothing. The others need what their counterexamples show them to need, and say
it of the constants:

* `Orderly`, for `EveryVMTracked` and `CheckpointsAreFacts`: one terminal, or several of
  which none destroys; all VMs at one provider; no `--new-vm` together with
  `--deployment` or `--host`. `DeployNewVMSelected` is the counterexample without the last; section
  4 tells those without the others.
* `Sole`, for `NoSecondVM`, `AgentsAreOfTheirBox` and `OthersKeepTheirAgent`: the same with one
  terminal. Two first deploys at once can create two VMs, and pair and record each
  other's agents; a destroy acts on a list that another deploy has outdated.

Both bound neither the deploys and destroys, nor the apps and given boxes, nor where a
command stops. `VMTracked` says that a record names each VM; what makes it inductive
is who may still write that record. A deploy that has not yet created its VM is
alone in knowing its name (`NameFresh`). Once it has, the record of that name is of its
app and names it, in the files and in every list a command has read (`Followed`,
`Tracks`), so that what a command carries forward from its list names the VM too. That
needs the decision to stay sound while the records go on changing (`PlanSound`): the
prior record and the box to adopt are of the app and have the host that was chosen,
and creating means that there was neither. `SoundStore` is the checkpoints' part, said
of every list as well as of the files; `Again` says of a deploy to a recorded host that
its app has a box. `VMTracked` exempts, beside the VMs a destroy kept or could not delete and
said so, those that a destroyed record named (`asked`): `DestroyCoTenants` shows one of
them that none of the others covers. For `Sole` there are three more: `Alone` (a deploy that creates a VM
unasked found none of its app, and none has appeared), `AgentPlan` (the agent a deploy
may record is of its box alone, which runs it) and `DestroyPlan` (a destroy's list is
still that of the files, so it has counted every record on the box).

`Outcome_proof`, what a deploy and a destroy leave behind and say of it.

* `LossIsAlwaysAuthorized`, `AlwaysSaysWhatRan` (`SchemaApply`). `AskedFirst`: nothing runs
  before the one step of an execution is answered. `RunsWhatWasIssued`: what runs was
  issued by a gate that its plan passes, although database and model may have moved
  on. `VerdictOfGate`: the report is the gate's at the moment it was given.
* `AlwaysDeploysWhatItGenerated` (`K8sRelease`). `TreeOfRun` and `CommitOfRun` follow a run that commits:
  from stamping on the tree is what it generated, from the commit on its `sha` is a
  commit of that tree, also when there was nothing to commit because an earlier run
  had committed the same tree and died.
* `RecordAlwaysKeepsWhatIsKnown` (`RecordStore`). The property alone is not inductive: a
  rename makes whatever the temporary name leads to the record. As long as no two
  mutations overlapped, `CopyIsCurrent` says that the one that runs has in its copy
  all that is known, and that the temporary file is its own, torn before the write
  and its copy after; `TmpIsApart` keeps the record out of the reach of an open that
  truncates, and `NothingKnownOfNothing` lets a first write begin from nothing.
  `BrokenIsLeft` says that nobody gets past the read of a record that cannot be
  parsed.
* `BillingIsAlwaysTold`, `LastReportIsAlwaysTrue` (`DestroyReport`, which has no constants: the run is
  exhaustive, and the proof says why it holds). `FateIsSettled`: the VM's
  step leaves a word or a warning. `FateIsSo` and `DatabaseFollows` keep what the outcome
  says so while the VM may vanish under it and a `DROP` may have failed unheard.
* `VMAlwaysAnnounced`, `SaidIsNeverBehind`, `ErrorsAreOwn` (`DeployRun`). The invariant
  orders the cell, the record and the provider: `VMKnown` (the handler is told of a VM
  before it is requested, and what it read is what it says), `RevisionAfterBox` (a
  revision is opened only after the run wrote its record) and `CellIsNotBehind` (what
  the record says was noted in the cell first, and no later than the step allows:
  `Written`; the cell does not go back between the handler's reads).

`AgentFiles_proof`, the files an agent command changes one after the other.

* `DSNAlwaysSurvives` (`AgentRegistry`). A stale copy may be written back at any time, so
  safety of the file alone is not inductive: the invariant says of every entry of
  the file *and* of every command's copy that its uuid is given up or reused
  (`Exempt`), or its DSN is in the entry or in a keychain (`SafeEntry`). A keychain keeps
  a DSN under its uuid, so two entries of one uuid must have one DSN: `OneOwn`.
  `StepIsSafe` reduces each step to three facts: what was safe in a keychain stays so
  (`HoldsOn`), and an entry that appears was there, or is safe (`OldOrSafe`) and has the
  DSN of its uuid (`OldOwn`).
* `NeverOrphans`, `CredsAlwaysMatch`, `AlwaysPublishedUnderOwnAgent` (`AgentPairing`). `Accounted`
  extends `NoOrphans` into the middle of a command, where an agent is registered and
  not yet on disk, or off the disk and not yet revoked; `FilesInStep` says which
  of the two files is ahead at each step, and what a migration that failed, or
  found one file only, can have left.

`Installed_proof`, what is replaced in place.

* `AlwaysHasACLI` (`SelfUpdate`): `Sound` adds to the binary what each update has staged so
  far: verified bytes before chmod, the mode before rename.
* `NeverEverLockedOut` (`ServerBox`): a running app's password is the one in its unit, so the
  invariant follows it there (`UnitKeepsPassword`), through a bootstrap that has read or
  drawn it and not yet written it (`BootstrapCarriesPassword`), and across a teardown, which
  drops the user only of an app it has stopped (`TeardownStoppedApp`).
* `TenantsStayServed` (`ServerBox`): `DeploysAlone` says what a deploy that has met no other
  command has settled by each of its sections (`HasDone`), and `Served` that a project
  keeps it. It is `Hosted`, and `Connected` as long as no destroy has misjudged: `Connected`
  says of the connections not only that the file has the project's, or is torn, but
  that every copy another command has loaded and will write back has it too.
  `OwnPorts` is why neighbours leave a port alone: ports are apart as long as
  no two deploys that overlap were given one, the very case `TenantIsServed` exempts
  (`raced`). `FreePortIsFree` is the lemma about the port a script picks.
* Both box theorems assume `OwnUsers`: `sanitizeDBName` gives no two projects one user. That is
  not so for every pair of identifiers; `BoxSharedUser` shows what happens then.
* `UserWorkAlwaysSurvives` (`Workspace`): `ExtractsItsOwn` says that the file that is open, hence
  torn, is not the user's and that what is still to be extracted is the archive's;
  `FilesKept` that the user's files are so at every step, not only between generations;
  `DirectiveKept` where the user's directive is while a generation has `go.mod`
  overwritten, or that one above hides it (`Hidden`). `TheOneIs` and `FoundModuleIs` are the
  lemmas about which root the code finds.
* `NeverStale` (`Workspace`): while no generation was cut, a manifest and what it lists are
  of one root (`Rooted`), and as long as one project was generated, what has the marker is
  listed in the manifest, or was in the one that the running generation has read and will
  prune by, or is an entry of its own, or is accounted for in `leftOver` (`NoneUnknown`).

`SqlPlan_proof`: two walks over a script that must agree, one that jumps and one that
does not, for scripts of every length.

* `AlwaysSplitsAsRead`. One lemma for each case of the switch says where the code's jump
  lands: `QuotedJumps` (all three quotes), `LineCommentJumps`, `BlockCommentJumps` (nested,
  unclosed and executable ones), `DollarQuotedJumps`, `OrdinaryJumps`; and for the two that
  separate, `DelimiterCuts` and `DirectiveCuts`. From a place where the lexer is outside of
  everything (`AtTop`), a jump leads to another, no piece on the way separates (`Jump`), and
  there is SQL in it exactly when the code says so; a cut leads to the first place after
  the delimiter or the directive's line, of which every piece separates (`Cut`). Each is an
  induction over the pieces jumped over, that of literals backwards, as the scan for the
  closing quote looks ahead by one or two (`LiteralEnds`), that of comments over the depth
  of nesting (`CommentJumps`), that of what ends at the first of its closers over the pieces
  before it (`EndsAtFirst`, `ModeJumps`). The invariant `WalkInv` then says that the walk and the
  lexer have the same delimiter, that nothing has cut the stretch from `start` to `at`, that
  `hasCode` tells whether there is SQL in it, and that the fragments so far are the statements
  that begin before it (`Midway`), each counted once (`CountedOnce`); `NextStatement` says that a
  flush adds the next one or that there is none.
* `VerbAlwaysSeen`. Above the first SQL of a statement a generated script has only
  newlines and comments that do not nest, and there stripping is in the same mode as the
  lexer (`StripsOn`, `StripsAsRead`), so the word that is left first is the one the engine
  runs (`VerbShows`).

`Numbers`. The library's induction theorems quantify over a predicate, which the
backends cannot instantiate. Stated of sets the same facts can be cited: `LeastOf` (a
nonempty set of numbers has a least one) follows from the well-foundedness of strict
inclusion among finite sets, `SetInduction` from `LeastOf`, `Iteration` (a function can be
iterated) from `SetInduction`, and `Recursion` from `Iteration`: a function that says of each
number what to make of the one before it exists. That brings the recursive functions
within reach, `Power2`, the lexer and the scans of `SqlPlan` (`ReadingIs`, `ClosesIs`, `DepthsIs`,
`StrippingIs` unfold them).

Only model-checked: liveness (`AbandonedTxUnblocks`, `StaleEntryGoes`, `Reconnects`, `CIWaitEnds`), which is
out of reach of the prover, and what `DeployConcurrent` has and section 9 tells.

## 7. Where the code and its texts part

Found by a run, whose counterexample shows it:

* `AgentStaleIds`: a handler that is between `BeginTxx` and `txs.Add` when the
  stream dies adds its transaction after `CloseAll`, and the next session starts
  with it (`agent/daemon.go:154-159`). `StaleEntryGoes` shows that the reaper
  removes it, and `NoConnLeak` that its connection is not lost.
* `LoopWelcome`: only a clean end of a stream resets the backoff (`agent/daemon.go:162`);
  the comment above it says a successful Hello/Welcome does. A daemon whose welcomed
  streams fail waits longer after each. `RefusalsSlowDown` says what the code does keep.
* `DeployNewVMSelected`: `--deployment` with `--new-vm` adopts the recorded host,
  finds the old box's record as its prior one, and writes the new VM over it
  (`app/deploy_pipeline.go:1872`). The old VM runs on with no record.
* `DestroyCoTenants`: only the record that created the VM can delete it, and it
  need not be the last one on the box (`app/command_deploy.go:683-685`).
* `RunStranded`: the revision is open at the server before its uuid is in the
  interrupt cell (`app/deploy_pipeline.go:1281`); an interrupt in between, or a
  lost reply, leaves it in progress.
* `BoxSharedUser`: the guard against two projects on one database compares
  identifiers, and `sanitizeDBName` maps distinct ones (`shop-api`, `shop_api`) to one
  database and user (`app/deploy_pipeline.go:1847`, `app/command_deploy.go:1098`). The
  second project's bootstrap passes it and alters the user's password under the
  first one's running app. `destroy --purge` of either drops the database of both.
* `SchemaConsistent`: on a re-deploy the app is rebuilt and restarted before the
  schema is pushed, so a push that fails before any SQL leaves the new app on the
  old schema (`app/command_deploy_outcome.go:151-152`).

Met while modelling. The modules reproduce these, and a property that excludes
them fails; they are listed here and are no runs of their own:

* `touch` runs when the transaction is handed out (`agent/txpool.go:55`), so a
  statement longer than the idle timeout is rolled back while it runs
  (`ReapIdle` while a handler is at `"run"`).
* `--max-concurrent-queries 0` selects 32 (`agent/daemon.go:119`); the flag says
  "0 = no cap".
* Get reads `fallback` twice without the mutex (`agent/dbpool.go:84-85`) and can
  return neither a handle nor an error while `Close` runs (`TakeFallback` after
  `Close`). `HandedOutIsOpen` says that it cannot before.
* Only the newest managed record is looked at: one on another provider hides an
  older one of the requested provider, and a further VM is created
  (`app/deploy_targeting.go:253`). `DeploySerial` has one provider.
* The guard against two projects under one identifier skips records that never
  paired (`app/deploy_pipeline.go:1847`).
* `--deployment` of an older record deploys to the box of the newest one.
* `stepRecordBox` can write an agent uuid together with the checkpoint
  `box_recorded` (`app/deploy_pipeline.go:1215`).
* Two first deploys at once can record each other's agents
  (`app/command_deploy.go:898`): `AgentOfBox` is checked with one terminal.
* A run that died between the pairing on the box and its record cannot be
  retried: no new agent ever appears (`app/deploy_pipeline.go:1413`).
* After a destroy that stopped past the revoke, a re-deploy waits for an agent
  that is gone (`app/deploy_pipeline.go:1411`).
* A destroy that listed the records before a co-tenant was recorded revokes that
  one's agent (`app/command_deploy.go:617`): `SharedAgentSurvives` is checked with
  one terminal.
* The main goroutine goes on after the signal handler marked the revision and
  can write over the mark; a late interrupt marks a finished deploy as failed;
  a VM requested after the handler looked and before the process exits is not
  named; and an error of an earlier run can stay beside a later run's checkpoint
  (`app/command_deploy.go:159-213`).
* "Its record says the same": the checkpoint the handler names was noted, and the
  record may not have been saved with it yet, or at all
  (`app/command_deploy.go:202`).

The server box (`BuildsItsOwn`, `PortsApart`, `RoutesApart` in `ServerBox` fail):

* "everything this project owns is namespaced" (`deploy/templates/bootstrap.sh.tmpl:3`),
  but the source is copied to one `/tmp/nuzur-src` (`app/deploy_pipeline.go:48`): of two
  deploys at once one can build the other's code, or a mixture.
* A port is found free and taken some sections later
  (`bootstrap.sh.tmpl:314`, `330`): two deploys at once can be given one port. Both
  keep it in their `prod.yaml`, so that a lone re-deploy does not part them.
* `prod.yaml` is truncated before it is written. A kill in between loses the port;
  the next run takes another one, and until its Caddy site follows, the old route
  leads to whoever gets the old port.
* `agent connection add` and `remove` rewrite the file of every project's connections
  with `os.WriteFile` (`agent/connections/connections.go:128`): a script killed there
  leaves a file that no later one can load, and all the box's projects are without
  theirs until the agent is removed.
* `destroy` ignores the error of listing the records (`app/command_deploy.go:506`), and
  the list is short of records it cannot read: it can take itself for the last on
  the box, and then removes the agent and the main Caddyfile under the others. A
  destroy of another one then reloads Caddy without it, and none is reachable.
* The teardown removes the image `:latest` (`deploy/teardown.go:37`), which no deploy
  builds.

Destroy and its report (`ClaimsOnlyWhatHappened` in `DestroyReport` fails on the
first five):

* The `DROP`s of a purge end in `|| true` (`deploy/templates/teardown.sh.tmpl:45-54`): one
  that fails is reported as done.
* A teardown whose connection breaks after the `DROP` is reported as "NOT dropped"
  (`app/command_destroy_outcome.go`, `databaseLine`).
* When the box has other projects, the sentence says that the database was
  removed from it also when nothing was purged or nothing ran there.
* A failed lookup by name is reported as no VM ever created
  (`app/command_deploy.go:696-706`), and a provisioning record whose delete fails as
  "nothing to clean up". The warning on the way is what `BillingIsTold` counts.
* A Kubernetes destroy with `--purge` says that the database was dropped; helm
  dropped nothing.
* Two deploys interrupted before they learned a host have the same empty one, so
  neither counts as the last on it and its VM is not deleted
  (`app/command_deploy.go:512`).

Records (`RecordIsWhole`, `NoFieldLost` in `RecordStore` fail with two terminals):

* Both write one `<record>.tmp`: the rename of one can publish the half-written
  file of the other ("the record is always either the old version or the new
  one", `deploy/state.go:273`), and the later of two mutations loses the other's field
  (`deploy/state.go:201`).
* A deploy that finalizes after a destroy in another terminal brings the record
  back.

Registry and pairing:

* `Remove` deletes the DSN from the backend this process chose; one stored while
  the keyring was locked stays in the other (`RemovedDSNIsGone`,
  `agent/connections/connections.go:175`).
* A scripted add that is refused for its `--driver` or `--dsn` has removed the old
  DSN from the keychain already, and leaves the entry in the file without one
  (`app/command_agent_connection.go:74`). `DSNSurvives` counts it as given up.
* Two terminals lose each other's entries, and `os.WriteFile` is not atomic.
* `agent connection add` checks that the name is new, not the `--uuid`: given that of
  an existing connection, it overwrites its DSN
  (`agent/connections/connections.go:155-174`, `keyring.go:193-206`).
* The migration of legacy files stops at its first failure with a warning and the
  command goes on (`app/command_agent.go:23-31`): a uuid can stand without its token.
* After a failed publish the message says to run `agent connection list` to retry
  (`app/command_agent_connection.go:141`), which never publishes.
* After an unpair `agent pair` can be refused: the next command migrates the legacy
  files again, which nothing removes (`UnpairAllowsPair`,
  `app/command_agent_unpair.go:65`).
* `deploy` publishes the catalog it reads from the records and replaces the whole
  (`app/command_deploy.go:368`): two terminals publish over each other.

Schema and SQL:

* "the whole migration rolled back" is printed also when the reply of the
  confirmation, or a poll, was lost and the extension went on to commit
  (`RolledBackIsTrue`, `app/command_deploy_outcome.go:161`).
* With `--skip-schema` the outcome stays at its initial value "applied"
  (`app/deploy_pipeline.go:625`).
* Comments are stripped without regard to the engine, so a statement under a MySQL
  `#` comment, in Postgres after a comment nested in another, or within an executable
  comment is not classified by its verb (`VerbIsAlwaysSeen` in `SqlPlan`); the two
  generators write none of these.
* `ALTER TABLE IF EXISTS` and `ONLY`, and quoted table names with a space, are cut at
  the wrong word (`sqlplan/plan.go:353-360`), so a loss in them is not classified as one.

Kubernetes (`HeadWasPushed`, `ReleaseOnlyRepeats` in `K8sRelease` fail):

* With nothing to commit, HEAD is taken for what CI built
  (`app/deploy_k8s.go:427-428`); if the run that committed it died before its push,
  the wait ends at its deadline only.
* `--release-only` releases the chart on disk and records the prior one's version
  (`app/deploy_k8s.go:488`).
* A crash between helm and the record makes the next run mint the same chart
  version again; the version in the file is no fallback, since generation has
  wiped `.helm/` by then.

Workspace and self-update:

* What a generation that was cut wrote is pruned by no later one if the manifest was
  overwritten or torn by then (`NothingStaleEver` in `Workspace`), a stub torn by
  it is preserved as the user's, and a `replace` directive is lost if the cut came
  between `go.mod` and its reconciliation.
* An archive without a manifest overwrites the user's files where it has entries of
  their names (`extensionrun/run.go:453-462`); what it writes no later generation
  prunes.
* With a `go.mod` of the workspace's own above the project's, the directives that are
  read and restored are those of the one above, and the project's are lost without a
  warning (`DirectiveAlwaysBack`, `extensionrun/gomod.go:293-330`).
* With several projects in one workspace nothing is pruned
  (`extensionrun/run.go:384-401`).
* A file the user took over (removed the marker of) is overwritten while the
  generator still generates it.
* Two updates at once can end with the older of the two (`NeverDowngraded` in
  `SelfUpdate`); the 10 s meant for the check bounds the download as well
  (`app/command_update.go:40-41`).

## 8. Not modelled

* Rows, values, SQL text beyond the pieces of `SqlPlan`, metrics, probes, wording and
  layout of messages other than destroy's and the schema's outcome.
* The providers' CLIs, ssh, `gh` and `helm`: drivers; `Deploy` and `K8sRelease` have what
  they promise.
* Concurrent `stream.Send`: what it does is the gRPC library's.
* On the server box: `--db-only` and external databases, the public port of a site
  without a domain and the firewall, backups, S3 and JWT keys, the installation of
  packages, and the agent's restart, which `AgentDaemon` has. Two commands of one
  project at once on one box (their record is `RecordStore`'s). A script that
  lives on after its terminal died is one that stops a little later.
* The catalog's contents across projects. Sibling records that cannot be read are
  `ServerBox`'s (a list that is short), not `Deploy`'s.
* The handler of a Postgres schema plan in detail: `AgentDaemon` has its slot; its
  temporary databases are made and dropped in one sequential function.
* Which class each verb has, the actions of an `ALTER TABLE`, literals inside
  executable comments, and tagged dollar quotes: `SqlPlan` has what the splitter cuts
  and which verb the classifier is shown.
* `--image-tag`, which releases an image that the user names
  (`app/deploy_k8s.go:509-515`).
* User edits of a workspace while a generation runs.
* `deploy --plan`, flags, configuration files, lock files, chart values and secrets:
  resolution without state of its own.
* Field files (one remote call after local validation); code scan (a
  static analysis, all of it about the text of source files); login (one callback,
  one file); scaffold, templates, localization.
* Generated protobuf code. It is about half of the implementation's lines
  (`protodeps/gen`, about 28,000 of 58,000), has no control of its own, and is why
  no faithful model of this program can stand for a large share of all lines.

## 9. Plan

Done: the agent (session, pool, semaphore, loop, handle cache); records, targeting,
`deploy`, `destroy`, interrupts and destroy's report; the record file under two
terminals, the registry, pairing and publishing, Kubernetes releases, the server
box, the schema gate and push, the statement splitter, the generated workspace and
self-update. Every safety property that a passing run checks is proved for every value
of the constants; those of `Deploy` under the assumptions of section 6, which leave to TLC
what `DeployConcurrent` has, two terminals one of which destroys.

Next, proved: that a registry's commands implement one whose entries all have a secret,
and a record store with atomic updates; lemmas about `DecideDeployBox`.

Then, modelled: the public ports of the box and its firewall, the schema plan's
temporary databases, the catalog that `deploy` and `destroy` replace.

Abstract specifications worth stating: a record store with atomic updates, which
`RecordStore` implements for one terminal; a registry whose entries all have a
secret; a "VM ledger" that `Deploy` implements.
