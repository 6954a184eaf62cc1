-------------------------- MODULE Installed_proof --------------------------
(***************************************************************************)
(* What is installed stays usable while it is replaced, wherever the        *)
(* replacement stops: the binary on the path (SelfUpdate), for any number   *)
(* of updates at once and of releases, and an app's way into its database   *)
(* (ServerBox), for any number of projects and of commands on their server, *)
(* and a user's work in a generated workspace (Workspace), for any archive, *)
(* any number of paths and of generations, and a kill anywhere.             *)
(***************************************************************************)
EXTENDS SelfUpdate, ServerBox, Workspace, Numbers, FiniteSetTheorems, TLAPS

(* The binary on the path *)

UpdateStates == [pc : {"idle", "download", "stage", "chmod", "rename"},
                 own : Versions \cup {0}, tag : Versions \cup {0},
                 bytes : {"none", "whole", "cut"}, mode : {"none", "-", "x"}]

UpdateTypeOK ==
    /\ latest \in Versions /\ exe.version \in Versions
    /\ updater \in [Updaters -> UpdateStates]

\* What a step of an update may rely on: r is the state of one.
Sound(r) ==
    /\ r.pc # "idle" => r.own < r.tag /\ r.tag \in Versions
    /\ r.pc \in {"stage", "chmod", "rename"} => r.bytes = "whole"
    /\ r.pc = "rename" => r.mode = "x"

UpdateInv ==
    /\ UpdateTypeOK
    /\ exe.bytes = "whole" /\ exe.mode = "x"
    /\ \A u \in Updaters : Sound(updater[u])

-----------------------------------------------------------------------------

\* A version that is older by its segments is a smaller one.
LEMMA OlderIsLess == \A a, b \in Versions : Older(a, b) => a < b
  BY NewestAssumption DEF Versions, Older, Segments

\* The first version is one, and none is the 0 of an update that is not running.
LEMMA FirstVersion == 1 \in Versions /\ 0 \notin Versions
  BY NewestAssumption DEF Versions

\* A whole binary of any version, and no update.
LEMMA UpdateInitially == UpdateInit => UpdateInv
  <1> SUFFICES ASSUME UpdateInit PROVE UpdateInv
    OBVIOUS
  <1>1. PICK v \in Versions : exe = [version |-> v, bytes |-> "whole", mode |-> "x"]
    BY DEF UpdateInit
  <1>2. updater = [u \in Updaters |-> NoUpdate] /\ latest = 1
    BY DEF UpdateInit
  <1>3. NoUpdate \in UpdateStates /\ Sound(NoUpdate)
    BY DEF NoUpdate, UpdateStates, Sound
  <1> QED  BY <1>1, <1>2, <1>3, FirstVersion DEF UpdateInv, UpdateTypeOK

\* One update goes on to r, and the binary stays or is the one it staged.
LEMMA SetUpdKeeps ==
    ASSUME UpdateInv, NEW u \in Updaters, NEW r \in UpdateStates, Sound(r), SetUpd(u, r),
           latest' = latest,
           \/ exe' = exe
           \/ exe'.version \in Versions /\ exe'.bytes = "whole" /\ exe'.mode = "x"
    PROVE  UpdateInv'
  <1>1. updater' = [updater EXCEPT ![u] = r]
    BY DEF SetUpd
  <1>2. updater' \in [Updaters -> UpdateStates]
    BY <1>1 DEF UpdateInv, UpdateTypeOK
  <1>3. \A w \in Updaters : Sound(updater'[w])
    BY <1>1 DEF UpdateInv, UpdateTypeOK
  <1>4. UpdateTypeOK'
    BY <1>2 DEF UpdateInv, UpdateTypeOK
  <1>5. \A w \in Updaters : Sound(updater[w])'
    BY <1>3 DEF Sound
  <1> QED  BY <1>4, <1>5 DEF UpdateInv

\* The invariant is inductive.
LEMMA UpdateInductive == UpdateInv /\ [UpdateNext]_updvars => UpdateInv'
  <1> SUFFICES ASSUME UpdateInv, [UpdateNext]_updvars PROVE UpdateInv'
    OBVIOUS
  <1>1. CASE PublishTag \/ Upload
    <2>1. exe' = exe /\ updater' = updater /\ latest' \in Versions
      BY <1>1, NewestAssumption DEF PublishTag, Upload, UpdateInv, UpdateTypeOK, Versions
    <2> QED  BY <2>1 DEF UpdateInv, UpdateTypeOK, Sound
  <1>2. ASSUME NEW u \in Updaters, Check(u) PROVE UpdateInv'
    <2> DEFINE r == [NoUpdate EXCEPT !.pc = "download", !.own = exe.version, !.tag = latest]
    <2>1. r \in UpdateStates /\ Sound(r)
      BY <1>2, OlderIsLess DEF Check, UpdateInv, UpdateTypeOK, UpdateStates, NoUpdate, Sound
    <2>2. SetUpd(u, r) /\ latest' = latest /\ exe' = exe
      BY <1>2 DEF Check, SameReleases
    <2> QED  BY <2>1, <2>2, SetUpdKeeps
  <1>3. NoUpdate \in UpdateStates /\ Sound(NoUpdate)
    BY DEF NoUpdate, UpdateStates, Sound
  <1>4. ASSUME NEW u \in Updaters, Download(u) PROVE UpdateInv'
    <2>1. latest' = latest /\ exe' = exe /\ UpdAt(u, "download")
      BY <1>4 DEF Download, SameReleases
    <2>2. CASE SetUpd(u, NoUpdate)
      BY <1>3, <2>1, <2>2, SetUpdKeeps
    <2>3. CASE SetUpd(u, [updater[u] EXCEPT !.pc = "stage", !.bytes = "whole"])
      <3> DEFINE r == [updater[u] EXCEPT !.pc = "stage", !.bytes = "whole"]
      <3>1. r \in UpdateStates /\ Sound(r)
        BY <2>1 DEF UpdAt, UpdateInv, UpdateTypeOK, UpdateStates, Sound
      <3> QED  BY <2>1, <2>3, <3>1, SetUpdKeeps
    <2> QED  BY <1>4, <2>2, <2>3 DEF Download
  <1>5. ASSUME NEW u \in Updaters, Stage(u) PROVE UpdateInv'
    <2> DEFINE r == [updater[u] EXCEPT !.pc = "chmod", !.mode = "-"]
    <2>1. r \in UpdateStates /\ Sound(r)
      BY <1>5 DEF Stage, UpdAt, UpdateInv, UpdateTypeOK, UpdateStates, Sound
    <2>2. SetUpd(u, r) /\ latest' = latest /\ exe' = exe
      BY <1>5 DEF Stage, SameReleases
    <2> QED  BY <2>1, <2>2, SetUpdKeeps
  <1>6. ASSUME NEW u \in Updaters, Chmod(u) PROVE UpdateInv'
    <2> DEFINE r == [updater[u] EXCEPT !.pc = "rename", !.mode = "x"]
    <2>1. r \in UpdateStates /\ Sound(r)
      BY <1>6 DEF Chmod, UpdAt, UpdateInv, UpdateTypeOK, UpdateStates, Sound
    <2>2. SetUpd(u, r) /\ latest' = latest /\ exe' = exe
      BY <1>6 DEF Chmod, SameReleases
    <2> QED  BY <2>1, <2>2, SetUpdKeeps
  <1>7. ASSUME NEW u \in Updaters, RenameStaged(u) PROVE UpdateInv'
    <2>1. exe'.version \in Versions /\ exe'.bytes = "whole" /\ exe'.mode = "x"
      BY <1>7 DEF RenameStaged, UpdAt, UpdateInv, Sound
    <2>2. SetUpd(u, NoUpdate) /\ latest' = latest
      BY <1>7 DEF RenameStaged, SameReleases
    <2> QED  BY <1>3, <2>1, <2>2, SetUpdKeeps
  <1>8. ASSUME NEW u \in Updaters, UpdateFails(u) PROVE UpdateInv'
    <2>1. SetUpd(u, NoUpdate) /\ latest' = latest /\ exe' = exe
      BY <1>8 DEF UpdateFails, SameReleases
    <2> QED  BY <1>3, <2>1, SetUpdKeeps
  <1>9. CASE UNCHANGED updvars
    BY <1>9 DEF updvars, UpdateInv, UpdateTypeOK, Sound
  <1> QED  BY <1>1, <1>2, <1>4, <1>5, <1>6, <1>7, <1>8, <1>9 DEF UpdateNext

\* For any number of updates and releases: whoever runs the command finds a
\* whole, executable binary, and no update replaces its own by an older one
\* (replaceExecutable, compareVersions).
THEOREM AlwaysHasACLI == UpdateSpec => []AlwaysACLI
  <1>1. UpdateInv => AlwaysACLI
    BY DEF UpdateInv, Sound, AlwaysACLI, UpdAt
  <1> QED  BY <1>1, UpdateInitially, UpdateInductive, PTL DEF UpdateSpec

-----------------------------------------------------------------------------
(* An app's way into its database *)

\* sanitizeDBName keeps the projects of the box apart.
OwnUsers == \A p, q \in Projects : AppUser[p] = AppUser[q] => p = q

Commands == {"idle", "clear", "copy", "password", "role", "port", "conf", "build", "start",
             "agent", "add", "connect", "site", "reload",
             "stop", "unsite", "erase", "disconnect", "forget", "purge", "last", "destroyed"}

\* What the box and a command are made of: the fields, and what each is of.
BoxShape ==
    /\ DOMAIN box = {"secret", "role", "conf", "unit", "app", "dsn", "site", "routes",
                     "src", "paired", "conns", "front"}
    /\ DOMAIN box.secret = Projects /\ DOMAIN box.role = DBUsers
    /\ DOMAIN box.conf = Projects /\ DOMAIN box.unit = Projects /\ DOMAIN box.app = Projects
    /\ DOMAIN box.dsn = Projects
    /\ DOMAIN cmd = Projects
    /\ \A p \in Projects : DOMAIN cmd[p] = DOMAIN NoCommand /\ cmd[p].pc \in Commands

\* A unit that is installed has its password in the file and the database, and in
\* its configuration if that is not torn; and it is what the app runs with.
UnitKeepsPassword(p) ==
    /\ box.unit[p] # "none" =>
          /\ box.secret[p] # 0 /\ box.role[AppUser[p]] = box.secret[p]
          /\ box.conf[p] # NoConf => box.conf[p].pw = box.secret[p]
    /\ box.app[p] # NoApp => box.unit[p] # "none" /\ box.app[p].pw = box.secret[p]

\* How far a bootstrap has brought the password.
BootstrapCarriesPassword(p) ==
    /\ cmd[p].pc \in {"role", "port", "conf", "build", "start"} =>
          cmd[p].pw = box.secret[p] /\ box.secret[p] # 0
    /\ cmd[p].pc \in {"port", "conf", "build", "start"} =>
          box.role[AppUser[p]] = box.secret[p]
    /\ cmd[p].pc \in {"build", "start"} => box.conf[p].pw = box.secret[p]
    /\ cmd[p].pc = "start" => cmd[p].of # "none"

\* A teardown takes the password and its user only once the app is gone.
TeardownStoppedApp(p) ==
    cmd[p].pc \in {"unsite", "erase", "disconnect", "forget", "purge", "last"} =>
        box.unit[p] = "none" /\ box.app[p] = NoApp

\* What is known of a project's password.
PasswordsOf(p) == UnitKeepsPassword(p) /\ BootstrapCarriesPassword(p) /\ TeardownStoppedApp(p)

BoxInv == BoxShape /\ \A p \in Projects : PasswordsOf(p)

\* A finite set has finitely many images, and no more than it has members.
LEMMA ImageIsFinite ==
  ASSUME NEW S, IsFiniteSet(S), NEW f
  PROVE  IsFiniteSet({f[x] : x \in S}) /\ Cardinality({f[x] : x \in S}) <= Cardinality(S)
  <1> DEFINE T == {f[x] : x \in S}
             g == [x \in S |-> f[x]]
  <1>1. g \in [S -> T] /\ \A y \in T : \E x \in S : g[x] = y
    OBVIOUS
  <1>2. g \in Surjection(S, T)
    BY <1>1 DEF Surjection
  <1> HIDE DEF T, g
  <1>3. IsFiniteSet(T) /\ Cardinality(T) <= Cardinality(S)
    BY <1>2, FS_Surjection
  <1> QED
    BY <1>3 DEF T

\* Passwords in use are finitely many, so that one more than their number are enough to
\* find one that is not, and none is the 0 of a missing file.
LEMMA FreshIsNotZero == FreshPassword # 0
  <1> DEFINE used == {box.secret[p] : p \in Projects} \cup {box.role[u] : u \in DBUsers}
                \cup {box.conf[p].pw : p \in Projects} \cup {box.app[p].pw : p \in Projects}
                \cup {box.dsn[p] : p \in Projects} \cup {cmd[p].pw : p \in Projects}

  <1>1. IsFiniteSet(Projects) /\ IsFiniteSet(DBUsers)
    BY BoxAssumption, ImageIsFinite DEF DBUsers
  <1>2. IsFiniteSet({box.secret[p] : p \in Projects}) /\ IsFiniteSet({box.role[u] : u \in DBUsers})
        /\ IsFiniteSet({box.dsn[p] : p \in Projects})
    BY <1>1, ImageIsFinite
  <1>3. IsFiniteSet({box.conf[p].pw : p \in Projects})
    <2> DEFINE f == [p \in Projects |-> box.conf[p].pw]
    <2>1. IsFiniteSet({f[p] : p \in Projects})
      BY <1>1, ImageIsFinite
    <2> QED
      BY <2>1
  <1>4. IsFiniteSet({box.app[p].pw : p \in Projects})
    <2> DEFINE f == [p \in Projects |-> box.app[p].pw]
    <2>1. IsFiniteSet({f[p] : p \in Projects})
      BY <1>1, ImageIsFinite
    <2> QED
      BY <2>1
  <1>5. IsFiniteSet({cmd[p].pw : p \in Projects})
    <2> DEFINE f == [p \in Projects |-> cmd[p].pw]
    <2>1. IsFiniteSet({f[p] : p \in Projects})
      BY <1>1, ImageIsFinite
    <2> QED
      BY <2>1
  <1>6. IsFiniteSet(used)
    BY <1>2, <1>3, <1>4, <1>5, FS_Union
  <1> DEFINE n == Cardinality(used)
  <1>7. n \in Nat
    BY <1>6, FS_CardinalityType
  <1>8. FreshPassword = CHOOSE m \in 1..(n + 1) : m \notin used
    BY DEF FreshPassword
  <1> HIDE DEF used
  <1>9. \E m \in 1..(n + 1) : m \notin used
    <2> SUFFICES ASSUME 1..(n + 1) \subseteq used PROVE FALSE
      OBVIOUS
    <2>1. Cardinality(1..(n + 1)) <= n
      BY <1>6, FS_Subset
    <2>2. Cardinality(1..(n + 1)) = n + 1
      BY <1>7, FS_Interval
    <2> QED
      BY <1>7, <2>1, <2>2
  <1> QED
    BY <1>7, <1>8, <1>9

\* A command that begins has done nothing yet.
LEMMA BeginStep ==
  ASSUME BoxInv, NEW p \in Projects, NEW c, Begin(p, c), DOMAIN c = DOMAIN NoCommand,
         c.pc \in {"clear", "stop", "destroyed"}
  PROVE  BoxInv'
  <1>1. BoxShape'
    BY DEF BoxInv, BoxShape, Begin, Commands, NoCommand
  <1>2. ASSUME NEW q \in Projects PROVE PasswordsOf(q)'
    BY DEF BoxInv, BoxShape, Begin, NoCommand, PasswordsOf, UnitKeepsPassword,
       BootstrapCarriesPassword, TeardownStoppedApp
  <1> QED
    BY <1>1, <1>2 DEF BoxInv

\* One of them is a deploy,
LEMMA BeginDeployStep ==
  ASSUME BoxInv, NEW p \in Projects, BeginDeploy(p)
  PROVE  BoxInv'
  <1> DEFINE c == [NoCommand EXCEPT !.pc = "clear", !.alone = \A q \in Projects : BoxAt(q, "idle")]
  <1>1. Begin(p, c)
    BY DEF BeginDeploy
  <1>2. DOMAIN c = DOMAIN NoCommand /\ c.pc = "clear"
    BY DEF NoCommand
  <1> HIDE DEF c
  <1> QED
    BY <1>1, <1>2, BeginStep

\* the other a destroy.
LEMMA BeginDestroyStep ==
  ASSUME BoxInv, NEW p \in Projects, BeginDestroy(p)
  PROVE  BoxInv'
  <1> PICK pc \in {"stop", "destroyed"}, listed \in SUBSET recs :
        Begin(p, [NoCommand EXCEPT !.pc = pc, !.last = listed \subseteq {p}])
    BY DEF BeginDestroy
  <1> DEFINE c == [NoCommand EXCEPT !.pc = pc, !.last = listed \subseteq {p}]
  <1>1. Begin(p, c)
    OBVIOUS
  <1>2. DOMAIN c = DOMAIN NoCommand /\ c.pc = pc
    BY DEF NoCommand
  <1> HIDE DEF c
  <1> QED
    BY <1>1, <1>2, BeginStep

\* A fresh server has no app to lock out.
LEMMA BoxInitially == BoxInit => BoxInv
  BY DEF BoxInit, BoxInv, BoxShape, PasswordsOf, UnitKeepsPassword, BootstrapCarriesPassword,
     TeardownStoppedApp, NoCommand, Commands, NoApp

\* Every section of either script, a stop inside any, and an app that dies or returns
\* keep the shape of the box and what is known of each project's password.  A step on
\* one project's user is none on another's, which is what OwnUsers is for.
LEMMA BoxStep == OwnUsers /\ BoxInv /\ [BoxNext]_boxvars => BoxInv'
  <1> SUFFICES ASSUME OwnUsers, BoxInv, [BoxNext]_boxvars PROVE BoxInv'
    OBVIOUS
  <1>1. CASE \E p \in Projects : BeginDeploy(p) \/ BeginDestroy(p)
    BY <1>1, BeginDeployStep, BeginDestroyStep
  <1>2. CASE BoxNext /\ ~ \E p \in Projects : BeginDeploy(p) \/ BeginDestroy(p)
    <2>1. PICK p \in Projects :
        \/ ClearSource(p) \/ CopySource(p) \/ Password(p) \/ AlterUser(p)
        \/ AllocatePort(p) \/ WriteConf(p) \/ Build(p) \/ StartApp(p) \/ PairAgent(p)
        \/ StoreDSN(p) \/ AddConnection(p) \/ WriteSite(p) \/ ReloadCaddy(p)
        \/ StopApp(p) \/ RemoveSite(p) \/ EraseProject(p)
        \/ DeleteDSN(p) \/ RemoveConnection(p) \/ NoConnection(p) \/ PurgeDatabase(p) \/ RemoveAgent(p) \/ EndDestroy(p)
        \/ Stops(p) \/ AppDies(p) \/ AppReturns(p)
      BY <1>2 DEF BoxNext
    <2>2. BoxShape'
      <3> USE DEF BoxInv, BoxShape, BoxAt, BoxGoto, NoCommand, Commands, DBUsers
      <3>1. CASE ClearSource(p)
        BY <3>1 DEF ClearSource
      <3>2. CASE CopySource(p)
        BY <3>2 DEF CopySource
      <3>3. CASE Password(p)
        BY <3>3 DEF Password
      <3>4. CASE AlterUser(p)
        BY <3>4 DEF AlterUser
      <3>5. CASE AllocatePort(p)
        BY <3>5 DEF AllocatePort
      <3>6. CASE WriteConf(p)
        BY <3>6 DEF WriteConf
      <3>7. CASE Build(p)
        BY <3>7 DEF Build
      <3>8. CASE StartApp(p)
        BY <3>8 DEF StartApp
      <3>9. CASE AddConnection(p)
        BY <3>9 DEF AddConnection
      <3>10. CASE WriteSite(p)
        BY <3>10 DEF WriteSite
      <3>11. CASE ReloadCaddy(p)
        BY <3>11 DEF ReloadCaddy
      <3>12. CASE StopApp(p)
        BY <3>12 DEF StopApp
      <3>13. CASE RemoveSite(p)
        BY <3>13 DEF RemoveSite
      <3>14. CASE EraseProject(p)
        BY <3>14 DEF EraseProject
      <3>15. CASE RemoveConnection(p)
        BY <3>15 DEF RemoveConnection
      <3>16. CASE PurgeDatabase(p)
        BY <3>16 DEF PurgeDatabase
      <3>17. CASE RemoveAgent(p)
        BY <3>17 DEF RemoveAgent
      <3>18. CASE EndDestroy(p)
        BY <3>18 DEF EndDestroy
      <3>19. CASE Stops(p)
        BY <3>19 DEF Stops, HalfDone
      <3>20. CASE AppDies(p)
        BY <3>20 DEF AppDies
      <3>21. CASE AppReturns(p)
        BY <3>21 DEF AppReturns
      <3>22. CASE PairAgent(p)
        BY <3>22 DEF PairAgent
      <3>23. CASE StoreDSN(p)
        BY <3>23 DEF StoreDSN
      <3>24. CASE DeleteDSN(p)
        BY <3>24 DEF DeleteDSN
      <3>25. CASE NoConnection(p)
        BY <3>25 DEF NoConnection
      <3> QED
        BY <2>1, <3>1, <3>2, <3>3, <3>4, <3>5, <3>6, <3>7, <3>8, <3>9, <3>10, <3>11, <3>12,
           <3>13, <3>14, <3>15, <3>16, <3>17, <3>18, <3>19, <3>20, <3>21,
           <3>22, <3>23, <3>24, <3>25
    <2>3. ASSUME NEW q \in Projects PROVE PasswordsOf(q)'
      <3> USE DEF BoxInv, BoxShape, BoxAt, BoxGoto, NoCommand, OwnUsers, DBUsers, NoApp, NoConf,
          PasswordsOf, UnitKeepsPassword, BootstrapCarriesPassword, TeardownStoppedApp
      <3>1. CASE ClearSource(p)
        BY <3>1 DEF ClearSource
      <3>2. CASE CopySource(p)
        BY <3>2 DEF CopySource
      <3>3. CASE Password(p)
        BY <3>3, FreshIsNotZero DEF Password
      <3>4. CASE AlterUser(p)
        BY <3>4 DEF AlterUser
      <3>5. CASE AllocatePort(p)
        BY <3>5 DEF AllocatePort
      <3>6. CASE WriteConf(p)
        BY <3>6 DEF WriteConf
      <3>7. CASE Build(p)
        BY <3>7 DEF Build
      <3>8. CASE StartApp(p)
        BY <3>8 DEF StartApp, Started
      <3>9. CASE AddConnection(p)
        BY <3>9 DEF AddConnection
      <3>10. CASE WriteSite(p)
        BY <3>10 DEF WriteSite
      <3>11. CASE ReloadCaddy(p)
        BY <3>11 DEF ReloadCaddy
      <3>12. CASE StopApp(p)
        BY <3>12 DEF StopApp
      <3>13. CASE RemoveSite(p)
        BY <3>13 DEF RemoveSite
      <3>14. CASE EraseProject(p)
        BY <3>14 DEF EraseProject
      <3>15. CASE RemoveConnection(p)
        BY <3>15 DEF RemoveConnection
      <3>16. CASE PurgeDatabase(p)
        BY <3>16 DEF PurgeDatabase
      <3>17. CASE RemoveAgent(p)
        BY <3>17 DEF RemoveAgent
      <3>18. CASE EndDestroy(p)
        BY <3>18 DEF EndDestroy
      <3>19. CASE Stops(p)
        <4>1. CASE UNCHANGED box
          BY <3>19, <4>1 DEF Stops
        <4>2. CASE HalfDone(p)
          <5>1. CASE cmd[p].pc \in {"copy", "conf", "start", "add"}
            BY <3>19, <4>2, <5>1 DEF Stops, HalfDone
          <5>2. CASE cmd[p].pc \in {"connect", "forget"}
            BY <3>19, <4>2, <5>2 DEF Stops, HalfDone
          <5>5. CASE cmd[p].pc = "site"
            <6>1. box' \in {[box EXCEPT !.site[p] = 0, !.front = TRUE],
                              [box EXCEPT !.front = TRUE]}
              BY <3>19, <4>2, <5>5 DEF HalfDone
            <6> QED  BY <3>19, <4>2, <5>5, <6>1 DEF Stops
          <5>3. CASE cmd[p].pc \in {"stop", "unsite"}
            BY <3>19, <4>2, <5>3 DEF Stops, HalfDone
          <5>4. CASE cmd[p].pc \in {"erase", "last"}
            BY <3>19, <4>2, <5>4 DEF Stops, HalfDone
          <5> QED
            BY <4>2, <5>1, <5>2, <5>3, <5>4, <5>5 DEF HalfDone, BoxAt
        <4> QED  BY <3>19, <4>1, <4>2 DEF Stops
      <3>20. CASE AppDies(p)
        BY <3>20 DEF AppDies
      <3>21. CASE AppReturns(p)
        BY <3>21 DEF AppReturns, Started
      <3>22. CASE PairAgent(p)
        BY <3>22 DEF PairAgent
      <3>23. CASE StoreDSN(p)
        BY <3>23 DEF StoreDSN
      <3>24. CASE DeleteDSN(p)
        BY <3>24 DEF DeleteDSN
      <3>25. CASE NoConnection(p)
        BY <3>25 DEF NoConnection
      <3> QED
        BY <2>1, <3>1, <3>2, <3>3, <3>4, <3>5, <3>6, <3>7, <3>8, <3>9, <3>10, <3>11, <3>12,
           <3>13, <3>14, <3>15, <3>16, <3>17, <3>18, <3>19, <3>20, <3>21,
           <3>22, <3>23, <3>24, <3>25
    <2> QED
      BY <2>2, <2>3 DEF BoxInv
  <1>3. CASE UNCHANGED boxvars
    BY <1>3 DEF boxvars, BoxInv, BoxShape, PasswordsOf, UnitKeepsPassword, BootstrapCarriesPassword,
       TeardownStoppedApp
  <1> QED
    BY <1>1, <1>2, <1>3

\* While its user is its own, a running app has the password its database has, for any
\* number of projects and of commands on the box, and wherever their scripts stop
\* (NeverLockedOut).
THEOREM NeverEverLockedOut ==
  ASSUME OwnUsers
  PROVE  BoxSpec => []NeverLockedOut
  <1>1. BoxInv => NeverLockedOut
    BY DEF BoxInv, PasswordsOf, UnitKeepsPassword, NeverLockedOut
  <1> QED
    BY OwnUsers, BoxInitially, BoxStep, <1>1, PTL DEF BoxSpec

\* Projects have at most two ports each, so that one of the first numbers is free.
LEMMA FreePortIsFree == FreePort \in Nat /\ FreePort # 0 /\ ~PortInUse(FreePort)
  <1> DEFINE C == Cardinality(Projects)
             f == [p \in Projects |-> box.conf[p].port]
             g == [p \in Projects |-> box.app[p].port]
             Confs == {f[p] : p \in Projects}
             Apps == {g[p] : p \in Projects}
             Free == {n \in 1..(2 * C + 1) : ~PortInUse(n)}
  <1>1. /\ C \in Nat /\ IsFiniteSet(Projects)
        /\ IsFiniteSet(Confs) /\ Cardinality(Confs) <= C /\ Cardinality(Confs) \in Nat
        /\ IsFiniteSet(Apps) /\ Cardinality(Apps) <= C /\ Cardinality(Apps) \in Nat
    BY BoxAssumption, ImageIsFinite, FS_CardinalityType
  <1>2. \A n : PortInUse(n) <=> n \in Confs \cup Apps
    BY DEF PortInUse
  <1> HIDE DEF f, g, Confs, Apps, C
  <1>3. IsFiniteSet(Confs \cup Apps) /\ Cardinality(Confs \cup Apps) <= 2 * C
    <2>1. IsFiniteSet(Confs \cap Apps)
      BY <1>1, FS_Intersection
    <2>2. Cardinality(Confs \cap Apps) \in Nat
      BY <2>1, FS_CardinalityType
    <2>3. /\ IsFiniteSet(Confs \cup Apps)
          /\ Cardinality(Confs \cup Apps) =
                 Cardinality(Confs) + Cardinality(Apps) - Cardinality(Confs \cap Apps)
      BY <1>1, FS_Union
    <2> QED  BY <1>1, <2>2, <2>3
  <1>4. Free # {}
    <2> SUFFICES ASSUME 1..(2 * C + 1) \subseteq Confs \cup Apps PROVE FALSE
      BY <1>2
    <2>1. Cardinality(1..(2 * C + 1)) <= Cardinality(Confs \cup Apps)
      BY <1>3, FS_Subset
    <2>2. Cardinality(1..(2 * C + 1)) = 2 * C + 1
      BY <1>1, FS_Interval
    <2>3. Cardinality(Confs \cup Apps) \in Nat
      BY <1>3, FS_CardinalityType
    <2> QED  BY <1>1, <1>3, <2>1, <2>2, <2>3
  <1>5. PICK n \in Free : \A m \in Free : n <= m
    <2>1. Free \in SUBSET Nat
      BY <1>1
    <2> QED  BY <1>4, <2>1, LeastOf
  <1>6. n \in 1..(2 * C + 1) /\ ~PortInUse(n) /\ \A m \in 1..(n - 1) : PortInUse(m)
    BY <1>1, <1>5
  <1>7. FreePort \in 1..(2 * C + 1) /\ ~PortInUse(FreePort)
    BY <1>6 DEF FreePort, C
  <1> QED  BY <1>1, <1>7

\* The ports a project has, or is about to have.
PortsOf(p) == {box.conf[p].port, box.app[p].port, cmd[p].port} \ {0}

\* No two projects share one, unless two deploys allocated at once.
OwnPorts == ~raced => \A p, q \in Projects : p # q => PortsOf(p) \cap PortsOf(q) = {}

\* The sections of the bootstrap script, from the one at which the password is known on.
FromSite == {"site", "reload"}
FromConnect == {"connect"} \cup FromSite
FromAdd == {"add"} \cup FromConnect
FromAgent == {"agent"} \cup FromAdd
FromStart == {"start"} \cup FromAgent
FromBuild == {"build"} \cup FromStart
FromConf == {"conf"} \cup FromBuild
FromPort == {"port"} \cup FromConf
FromRole == {"role"} \cup FromPort
Bootstrap == {"clear", "copy", "password"} \cup FromRole

\* What a deploy that runs alone has done by the section it is at.
HasDone(p, c) ==
    /\ p \in recs /\ c.pc \in Bootstrap
    /\ c.pc = "copy" => box.src = "none"
    /\ c.pc \in {"password", "role", "port", "conf", "build"} => box.src = p
    /\ c.pc \in FromRole => c.pw # 0 /\ box.secret[p] = c.pw
    /\ c.pc \in FromPort => box.role[AppUser[p]] = c.pw
    /\ c.pc \in FromConf => c.port # 0
    /\ c.pc \in FromBuild => box.conf[p] = [pw |-> c.pw, port |-> c.port]
    /\ c.pc \in FromStart => c.of = p
    /\ c.pc \in FromAgent =>
           /\ box.unit[p] = p
           /\ box.app[p] \in {NoApp, [pw |-> c.pw, port |-> c.port, of |-> p]}
    /\ c.pc \in FromAdd => box.paired
    /\ c.pc \in FromConnect => box.dsn[p] = c.pw
    /\ c.pc \in FromSite => p \in box.conns
    /\ c.pc = "reload" => box.site[p] = c.port /\ box.front

\* While it does, nobody else has a command on the box.
DeploysAlone(p) ==
    cmd[p].alone => HasDone(p, cmd[p]) /\ \A q \in Projects \ {p} : cmd[q] = NoCommand

\* What a deploy that ran alone to its end leaves.
Hosted(p) ==
    LET pw   == box.secret[p]
        port == box.conf[p].port
    IN  /\ p \in recs /\ cmd[p] = NoCommand
        /\ pw # 0 /\ port # 0 /\ box.role[AppUser[p]] = pw /\ box.conf[p].pw = pw
        /\ box.unit[p] = p /\ box.site[p] = port
        /\ box.app[p] \in {NoApp, [pw |-> pw, port |-> port, of |-> p]}

\* While no destroy misjudges, none takes its agent and its route away; and its
\* connection is in every copy of the file that a command is to write back.
Connected(p) ==
    /\ \A q \in Projects :
         /\ ~cmd[q].last
         /\ cmd[q].pc \in {"connect", "forget"} => p \in cmd[q].conns
    /\ box.front /\ box.routes[p] = box.conf[p].port
    /\ box.paired /\ box.dsn[p] = box.secret[p]
    /\ box.conns = TornConns \/ p \in box.conns

Served(p) == Hosted(p) /\ (~misjudged => Connected(p))

TenantShape ==
    /\ DOMAIN box.site = Projects /\ settled \subseteq Projects
    /\ \A p \in Projects : BoxAt(p, "idle") => cmd[p] = NoCommand

TenantInv ==
    /\ BoxInv /\ TenantShape /\ OwnPorts
    /\ \A p \in Projects : DeploysAlone(p)
    /\ \A p \in settled : Served(p)

\* A fresh server has no tenant.
LEMMA TenantInitially == BoxInit => TenantInv
  <1> SUFFICES ASSUME BoxInit PROVE TenantInv
    OBVIOUS
  <1>1. BoxInv /\ TenantShape /\ settled = {}
    BY BoxInitially DEF BoxInit, TenantShape, BoxAt
  <1>2. OwnPorts /\ \A p \in Projects : DeploysAlone(p)
    BY DEF BoxInit, OwnPorts, PortsOf, NoConf, NoApp, NoCommand, DeploysAlone
  <1> QED  BY <1>1, <1>2 DEF TenantInv

\* A step of a command that has begun, or of an app.
Section(p) ==
    \/ ClearSource(p) \/ CopySource(p) \/ Password(p) \/ AlterUser(p) \/ AllocatePort(p) \/ WriteConf(p) \/ Build(p)
    \/ StartApp(p) \/ PairAgent(p) \/ StoreDSN(p) \/ AddConnection(p) \/ WriteSite(p) \/ ReloadCaddy(p)
    \/ StopApp(p) \/ RemoveSite(p) \/ EraseProject(p) \/ DeleteDSN(p) \/ RemoveConnection(p)
    \/ NoConnection(p) \/ PurgeDatabase(p)
    \/ RemoveAgent(p) \/ EndDestroy(p) \/ Stops(p) \/ AppDies(p) \/ AppReturns(p)

\* Nobody else's command moves, and a command ends with nothing in hand.
LEMMA SectionShape ==
    ASSUME TenantInv, NEW p \in Projects, Section(p)
    PROVE  /\ TenantShape'
           /\ \A q \in Projects \ {p} : cmd'[q] = cmd[q]
           /\ settled' = settled \/ ReloadCaddy(p)
           /\ misjudged' = misjudged
           /\ recs \ {p} \subseteq recs' /\ (cmd'[p].pc # "idle" => recs' = recs)
           /\ cmd'[p].alone => cmd[p].alone
           /\ cmd'[p].last => cmd[p].last
  <1> USE DEF TenantInv, TenantShape, BoxInv, BoxShape, BoxAt, BoxGoto, Kept, NoCommand
  <1>1. CASE ClearSource(p)
    BY <1>1 DEF ClearSource
  <1>2. CASE CopySource(p)
    BY <1>2 DEF CopySource
  <1>3. CASE Password(p)
    BY <1>3, FreshIsNotZero DEF Password
  <1>4. CASE AlterUser(p)
    BY <1>4 DEF AlterUser
  <1>5. CASE AllocatePort(p)
    BY <1>5 DEF AllocatePort
  <1>6. CASE WriteConf(p)
    BY <1>6 DEF WriteConf
  <1>7. CASE Build(p)
    BY <1>7 DEF Build
  <1>8. CASE StartApp(p)
    BY <1>8 DEF StartApp, Started
  <1>9. CASE AddConnection(p)
    BY <1>9 DEF AddConnection
  <1>10. CASE WriteSite(p)
    BY <1>10 DEF WriteSite
  <1>11. CASE ReloadCaddy(p)
    BY <1>11 DEF ReloadCaddy
  <1>12. CASE StopApp(p)
    BY <1>12 DEF StopApp
  <1>13. CASE RemoveSite(p)
    BY <1>13 DEF RemoveSite
  <1>14. CASE EraseProject(p)
    BY <1>14 DEF EraseProject
  <1>15. CASE RemoveConnection(p)
    BY <1>15 DEF RemoveConnection
  <1>16. CASE PurgeDatabase(p)
    BY <1>16 DEF PurgeDatabase
  <1>17. CASE RemoveAgent(p)
    BY <1>17 DEF RemoveAgent
  <1>18. CASE EndDestroy(p)
    BY <1>18 DEF EndDestroy
  <1>19. CASE Stops(p)
    BY <1>19 DEF Stops, HalfDone
  <1>20. CASE AppDies(p)
    BY <1>20 DEF AppDies
  <1>21. CASE AppReturns(p)
    BY <1>21 DEF AppReturns, Started
  <1>22. CASE PairAgent(p)
    BY <1>22 DEF PairAgent
  <1>23. CASE StoreDSN(p)
    BY <1>23 DEF StoreDSN
  <1>24. CASE DeleteDSN(p)
    BY <1>24 DEF DeleteDSN
  <1>25. CASE NoConnection(p)
    BY <1>25 DEF NoConnection
  <1> QED
    BY <1>1, <1>2, <1>3, <1>4, <1>5, <1>6, <1>7, <1>8, <1>9, <1>10, <1>11, <1>12, <1>13, <1>14,
       <1>15, <1>16, <1>17, <1>18, <1>19, <1>20, <1>21,
       <1>22, <1>23, <1>24, <1>25 DEF Section

\* A project keeps its ports, gives them up, or is given one that no other has.
LEMMA SectionPorts ==
    ASSUME TenantInv, NEW p \in Projects, Section(p)
    PROVE  OwnPorts'
  <1> USE DEF TenantInv, TenantShape, BoxInv, BoxShape, BoxAt, BoxGoto, Kept, NoCommand, NoApp, NoConf
  <1>1. CASE ~AllocatePort(p)
    <2>0. SUFFICES ASSUME NEW q \in Projects
                   PROVE  PortsOf(q)' \subseteq PortsOf(q) /\ raced' = raced
      BY DEF OwnPorts
    <2> USE DEF PortsOf
    <2>1. CASE ClearSource(p)
      BY <2>1 DEF ClearSource
    <2>2. CASE CopySource(p)
      BY <2>2 DEF CopySource
    <2>3. CASE Password(p)
      BY <2>3, FreshIsNotZero DEF Password
    <2>4. CASE AlterUser(p)
      BY <2>4 DEF AlterUser
    <2>5. CASE WriteConf(p)
      BY <2>5 DEF WriteConf
    <2>6. CASE Build(p)
      BY <2>6 DEF Build
    <2>7. CASE StartApp(p)
      BY <2>7 DEF StartApp, Started
    <2>8. CASE AddConnection(p)
      BY <2>8 DEF AddConnection
    <2>9. CASE WriteSite(p)
      BY <2>9 DEF WriteSite
    <2>10. CASE ReloadCaddy(p)
      BY <2>10 DEF ReloadCaddy
    <2>11. CASE StopApp(p)
      BY <2>11 DEF StopApp
    <2>12. CASE RemoveSite(p)
      BY <2>12 DEF RemoveSite
    <2>13. CASE EraseProject(p)
      BY <2>13 DEF EraseProject
    <2>14. CASE RemoveConnection(p)
      BY <2>14 DEF RemoveConnection
    <2>15. CASE PurgeDatabase(p)
      BY <2>15 DEF PurgeDatabase
    <2>16. CASE RemoveAgent(p)
      BY <2>16 DEF RemoveAgent
    <2>17. CASE EndDestroy(p)
      BY <2>17 DEF EndDestroy
    <2>18. CASE Stops(p)
      <3>1. CASE UNCHANGED box
        BY <2>18, <3>1 DEF Stops
      <3>2. CASE HalfDone(p)
        <4>1. CASE cmd[p].pc \in {"copy", "conf", "start", "add"}
          BY <2>18, <3>2, <4>1 DEF Stops, HalfDone
        <4>2. CASE cmd[p].pc \in {"connect", "forget"}
          BY <2>18, <3>2, <4>2 DEF Stops, HalfDone
        <4>5. CASE cmd[p].pc = "site"
          <5>1. box' \in {[box EXCEPT !.site[p] = 0, !.front = TRUE],
                            [box EXCEPT !.front = TRUE]}
            BY <2>18, <3>2, <4>5 DEF HalfDone
          <5> QED  BY <2>18, <3>2, <4>5, <5>1 DEF Stops
        <4>3. CASE cmd[p].pc \in {"stop", "unsite"}
          BY <2>18, <3>2, <4>3 DEF Stops, HalfDone
        <4>4. CASE cmd[p].pc \in {"erase", "last"}
          BY <2>18, <3>2, <4>4 DEF Stops, HalfDone
        <4> QED
          BY <3>2, <4>1, <4>2, <4>3, <4>4, <4>5 DEF HalfDone, BoxAt
      <3> QED  BY <2>18, <3>1, <3>2 DEF Stops
    <2>19. CASE AppDies(p)
      BY <2>19 DEF AppDies
    <2>20. CASE AppReturns(p)
      BY <2>20 DEF AppReturns, Started
    <2>21. CASE PairAgent(p)
      BY <2>21 DEF PairAgent
    <2>22. CASE StoreDSN(p)
      BY <2>22 DEF StoreDSN
    <2>23. CASE DeleteDSN(p)
      BY <2>23 DEF DeleteDSN
    <2>24. CASE NoConnection(p)
      BY <2>24 DEF NoConnection
    <2> QED
      BY <1>1, <2>1, <2>2, <2>3, <2>4, <2>5, <2>6, <2>7, <2>8, <2>9, <2>10, <2>11, <2>12, <2>13,
         <2>14, <2>15, <2>16, <2>17, <2>18, <2>19, <2>20,
         <2>21, <2>22, <2>23, <2>24 DEF Section
  <1>2. CASE AllocatePort(p)
    <2> DEFINE port == IF box.conf[p].port # 0 THEN box.conf[p].port ELSE FreePort
    <2>1. /\ cmd' = [cmd EXCEPT ![p].pc = "conf", ![p].port = port] /\ box' = box
          /\ raced' = (raced \/ \E q \in Projects \ {p} : cmd[q].port = port)
      BY <1>2 DEF AllocatePort
    <2>2. \A q \in Projects \ {p} : PortsOf(q)' = PortsOf(q)
      BY <2>1 DEF PortsOf
    <2>3. PortsOf(p)' \subseteq PortsOf(p) \cup {port}
      BY <2>1 DEF PortsOf
    <2>4. ASSUME ~raced', NEW q \in Projects \ {p} PROVE port \notin PortsOf(q)
      <3>1. CASE box.conf[p].port # 0
        BY <2>1, <2>4, <3>1 DEF OwnPorts, PortsOf
      <3>2. CASE box.conf[p].port = 0
        <4>1. box.conf[q].port # port /\ box.app[q].port # port
          BY <3>2, FreePortIsFree DEF PortInUse
        <4>2. cmd[q].port # port
          BY <2>1, <2>4
        <4> QED  BY <4>1, <4>2 DEF PortsOf
      <3> QED  BY <3>1, <3>2
    <2>5. ~raced' => ~raced
      BY <2>1
    <2> HIDE DEF port
    <2> QED  BY <2>2, <2>3, <2>4, <2>5 DEF OwnPorts
  <1> QED  BY <1>1, <1>2

\* A deploy that runs alone does the next section of its own.
LEMMA SectionOfDeploy ==
    ASSUME OwnUsers, TenantInv, NEW p \in Projects, Section(p), cmd'[p].alone
    PROVE  HasDone(p, cmd[p])'
  <1> USE DEF TenantInv, TenantShape, BoxInv, BoxShape, BoxAt, BoxGoto, Kept, NoCommand, NoApp, NoConf,
      Bootstrap, FromRole, FromPort, FromConf, FromBuild, FromStart, FromAgent, FromAdd, FromConnect,
      FromSite
  <1>0. cmd[p].alone /\ HasDone(p, cmd[p])
    BY SectionShape DEF DeploysAlone
  <1> USE DEF HasDone
  <1>1. CASE ClearSource(p)
    BY <1>1, <1>0 DEF ClearSource
  <1>2. CASE CopySource(p)
    BY <1>2, <1>0 DEF CopySource
  <1>3. CASE Password(p)
    BY <1>3, <1>0, FreshIsNotZero DEF Password
  <1>4. CASE AlterUser(p)
    BY <1>4, <1>0 DEF AlterUser, DBUsers
  <1>5. CASE AllocatePort(p)
    BY <1>5, <1>0, FreePortIsFree DEF AllocatePort
  <1>6. CASE WriteConf(p)
    BY <1>6, <1>0 DEF WriteConf
  <1>7. CASE Build(p)
    BY <1>7, <1>0 DEF Build
  <1>8. CASE StartApp(p)
    BY <1>8, <1>0 DEF StartApp, Started
  <1>9. CASE AddConnection(p)
    BY <1>9, <1>0 DEF AddConnection
  <1>10. CASE WriteSite(p)
    BY <1>10, <1>0 DEF WriteSite
  <1>11. CASE ReloadCaddy(p)
    BY <1>11, <1>0 DEF ReloadCaddy
  <1>12. CASE StopApp(p)
    BY <1>12, <1>0 DEF StopApp
  <1>13. CASE RemoveSite(p)
    BY <1>13, <1>0 DEF RemoveSite
  <1>14. CASE EraseProject(p)
    BY <1>14, <1>0 DEF EraseProject
  <1>15. CASE RemoveConnection(p)
    BY <1>15, <1>0 DEF RemoveConnection
  <1>16. CASE PurgeDatabase(p)
    BY <1>16, <1>0 DEF PurgeDatabase
  <1>17. CASE RemoveAgent(p)
    BY <1>17, <1>0 DEF RemoveAgent
  <1>18. CASE EndDestroy(p)
    BY <1>18, <1>0 DEF EndDestroy
  <1>19. CASE Stops(p)
    BY <1>19, <1>0 DEF Stops, HalfDone
  <1>20. CASE AppDies(p)
    BY <1>20, <1>0 DEF AppDies
  <1>21. CASE AppReturns(p)
    BY <1>21, <1>0 DEF AppReturns, Started
  <1>22. CASE PairAgent(p)
    BY <1>22, <1>0 DEF PairAgent
  <1>23. CASE StoreDSN(p)
    BY <1>23, <1>0 DEF StoreDSN
  <1>24. CASE DeleteDSN(p)
    BY <1>24, <1>0 DEF DeleteDSN
  <1>25. CASE NoConnection(p)
    BY <1>25, <1>0 DEF NoConnection
  <1> QED
    BY <1>1, <1>2, <1>3, <1>4, <1>5, <1>6, <1>7, <1>8, <1>9, <1>10, <1>11, <1>12, <1>13, <1>14,
       <1>15, <1>16, <1>17, <1>18, <1>19, <1>20, <1>21,
       <1>22, <1>23, <1>24, <1>25 DEF Section

\* What is served stays so whatever is done for other projects.
LEMMA SectionOfOthers ==
    ASSUME OwnUsers, TenantInv, NEW p \in Projects, Section(p), NEW t \in settled, t # p
    PROVE  Served(t)'
  <1>0. /\ t \in Projects /\ Served(t) /\ cmd'[t] = cmd[t] /\ t \in recs'
        /\ misjudged' = misjudged
        /\ ~misjudged => \A q \in Projects : ~cmd'[q].last
    BY SectionShape DEF TenantInv, TenantShape, Served, Hosted, Connected
  <1> USE DEF TenantInv, TenantShape, BoxInv, BoxShape, BoxAt, BoxGoto, Kept, NoCommand, NoApp, NoConf,
      OwnUsers, DBUsers, Served, Hosted, Connected
  <1>1. CASE ClearSource(p)
    BY <1>1, <1>0 DEF ClearSource
  <1>2. CASE CopySource(p)
    BY <1>2, <1>0 DEF CopySource
  <1>3. CASE Password(p)
    BY <1>3, <1>0, FreshIsNotZero DEF Password
  <1>4. CASE AlterUser(p)
    BY <1>4, <1>0 DEF AlterUser
  <1>5. CASE AllocatePort(p)
    BY <1>5, <1>0 DEF AllocatePort
  <1>6. CASE WriteConf(p)
    BY <1>6, <1>0 DEF WriteConf
  <1>7. CASE Build(p)
    BY <1>7, <1>0 DEF Build
  <1>8. CASE StartApp(p)
    BY <1>8, <1>0 DEF StartApp, Started
  <1>9. CASE AddConnection(p)
    BY <1>9, <1>0 DEF AddConnection
  <1>10. CASE WriteSite(p)
    BY <1>10, <1>0 DEF WriteSite
  <1>11. CASE ReloadCaddy(p)
    BY <1>11, <1>0 DEF ReloadCaddy
  <1>12. CASE StopApp(p)
    BY <1>12, <1>0 DEF StopApp
  <1>13. CASE RemoveSite(p)
    BY <1>13, <1>0 DEF RemoveSite
  <1>14. CASE EraseProject(p)
    BY <1>14, <1>0 DEF EraseProject
  <1>15. CASE RemoveConnection(p)
    BY <1>15, <1>0 DEF RemoveConnection
  <1>16. CASE PurgeDatabase(p)
    BY <1>16, <1>0 DEF PurgeDatabase
  <1>17. CASE RemoveAgent(p)
    BY <1>17, <1>0 DEF RemoveAgent
  <1>18. CASE EndDestroy(p)
    BY <1>18, <1>0 DEF EndDestroy
  <1>19. CASE Stops(p)
    <2>1. CASE UNCHANGED box
      BY <1>19, <1>0, <2>1 DEF Stops
    <2>2. CASE HalfDone(p)
      <3>1. CASE cmd[p].pc \in {"copy", "conf", "start", "add"}
        BY <1>19, <1>0, <2>2, <3>1 DEF Stops, HalfDone
      <3>2. CASE cmd[p].pc \in {"connect", "forget"}
        BY <1>19, <1>0, <2>2, <3>2 DEF Stops, HalfDone
      <3>5. CASE cmd[p].pc = "site"
        <4>1. box' \in {[box EXCEPT !.site[p] = 0, !.front = TRUE],
                          [box EXCEPT !.front = TRUE]}
          BY ONLY <2>2, <3>5 DEF HalfDone, BoxAt
        <4>2. CASE box' = [box EXCEPT !.front = TRUE]
          BY <1>19, <1>0, <3>5, <4>2 DEF Stops
        <4>3. CASE box' = [box EXCEPT !.site[p] = 0, !.front = TRUE]
          <5>1. box'.site[t] = box.site[t] /\ box'.front
            BY <1>0, <4>3
          <5> QED  BY <1>19, <1>0, <3>5, <4>3, <5>1 DEF Stops
        <4> QED  BY <4>1, <4>2, <4>3
      <3>3. CASE cmd[p].pc \in {"stop", "unsite"}
        BY <1>19, <1>0, <2>2, <3>3 DEF Stops, HalfDone
      <3>4. CASE cmd[p].pc \in {"erase", "last"}
        BY <1>19, <1>0, <2>2, <3>4 DEF Stops, HalfDone
      <3> QED
        BY <2>2, <3>1, <3>2, <3>3, <3>4, <3>5 DEF HalfDone, BoxAt
    <2> QED  BY <1>19, <2>1, <2>2 DEF Stops
  <1>20. CASE AppDies(p)
    BY <1>20, <1>0 DEF AppDies
  <1>21. CASE AppReturns(p)
    BY <1>21, <1>0 DEF AppReturns, Started
  <1>22. CASE PairAgent(p)
    BY <1>22, <1>0 DEF PairAgent
  <1>23. CASE StoreDSN(p)
    BY <1>23, <1>0 DEF StoreDSN
  <1>24. CASE DeleteDSN(p)
    BY <1>24, <1>0, BoxAssumption DEF DeleteDSN, TornConns
  <1>25. CASE NoConnection(p)
    BY <1>25, <1>0 DEF NoConnection
  <1> QED
    BY <1>1, <1>2, <1>3, <1>4, <1>5, <1>6, <1>7, <1>8, <1>9, <1>10, <1>11, <1>12, <1>13, <1>14,
       <1>15, <1>16, <1>17, <1>18, <1>19, <1>20, <1>21,
       <1>22, <1>23, <1>24, <1>25 DEF Section

\* Of a project without a command only the app moves.
LEMMA AppMoves ==
    ASSUME TenantInv, NEW p \in Projects, Section(p), BoxAt(p, "idle")
    PROVE  /\ \E a \in {NoApp, Started(p, box)} : box' = [box EXCEPT !.app[p] = a]
           /\ cmd' = cmd /\ settled' = settled /\ recs' = recs
  BY DEF Section, ClearSource, CopySource, Password, AlterUser, AllocatePort, WriteConf, Build,
     StartApp, PairAgent, StoreDSN, AddConnection, WriteSite, ReloadCaddy, StopApp, RemoveSite,
     EraseProject, DeleteDSN, RemoveConnection, NoConnection, PurgeDatabase, RemoveAgent, EndDestroy, Stops, AppDies, AppReturns,
     BoxAt, Kept

\* A deploy that runs alone is not disturbed, and at its end its project is served.
LEMMA SectionKeeps ==
    ASSUME OwnUsers, TenantInv, NEW p \in Projects, Section(p)
    PROVE  /\ \A q \in Projects : DeploysAlone(q)'
           /\ \A t \in settled' : Served(t)'
  <1> USE DEF TenantInv, TenantShape, BoxInv, BoxShape
  <1>1. ASSUME NEW q \in Projects, cmd'[q].alone
        PROVE  HasDone(q, cmd[q])' /\ \A r \in Projects \ {q} : cmd'[r] = NoCommand
    <2>1. CASE q = p
      <3>1. cmd[p].alone
        BY <1>1, <2>1, SectionShape
      <3> QED  BY <1>1, <2>1, <3>1, SectionOfDeploy, SectionShape DEF DeploysAlone
    <2>2. CASE q # p
      <3>1. cmd'[q] = cmd[q] /\ cmd[q].alone
        BY <1>1, <2>2, SectionShape
      <3>2. HasDone(q, cmd[q]) /\ \A r \in Projects \ {q} : cmd[r] = NoCommand
        BY <3>1 DEF DeploysAlone
      <3>3. BoxAt(p, "idle")
        BY <2>2, <3>2 DEF BoxAt, NoCommand
      <3>4. PICK a : box' = [box EXCEPT !.app[p] = a]
        BY <3>3, AppMoves
      <3>5. cmd' = cmd /\ recs' = recs
        BY <3>3, AppMoves
      <3> QED  BY <2>2, <3>2, <3>4, <3>5 DEF HasDone
    <2> QED  BY <2>1, <2>2
  <1>2. ASSUME NEW t \in settled' PROVE Served(t)'
    <2>1. CASE t \in settled /\ t # p
      BY <2>1, SectionOfOthers
    <2>2. CASE t \in settled /\ t = p
      <3>1. Served(p) /\ BoxAt(p, "idle")
        BY <2>2 DEF Served, Hosted, BoxAt, NoCommand
      <3>2. PICK a \in {NoApp, Started(p, box)} : box' = [box EXCEPT !.app[p] = a]
        BY <3>1, AppMoves
      <3>3. cmd' = cmd /\ recs' = recs
        BY <3>1, AppMoves
      <3>4. a \in {NoApp, [pw |-> box.secret[p], port |-> box.conf[p].port, of |-> p]}
        BY <3>1 DEF Served, Hosted, Started
      <3>5. misjudged' = misjudged
        BY SectionShape
      <3> QED  BY <2>2, <3>1, <3>2, <3>3, <3>4, <3>5 DEF Served, Hosted, Connected
    <2>3. CASE t \notin settled
      <3>1. ReloadCaddy(p) /\ settled' = IF cmd[p].alone THEN settled \cup {p} ELSE settled
        BY <2>3, SectionShape DEF ReloadCaddy
      <3>2. t = p /\ cmd[p].alone /\ cmd[p].pc = "reload"
        BY <2>3, <3>1 DEF ReloadCaddy, BoxAt
      <3>3. HasDone(p, cmd[p]) /\ \A q \in Projects \ {p} : cmd[q] = NoCommand
        BY <3>2 DEF DeploysAlone
      <3>4. /\ cmd' = [cmd EXCEPT ![p] = NoCommand] /\ recs' = recs
            /\ box' = [box EXCEPT !.routes = IF box.front THEN box.site ELSE NoRoutes]
        BY <3>1 DEF ReloadCaddy
      <3>5. \A q \in Projects : cmd'[q] = NoCommand
        BY <3>3, <3>4
      <3>6. /\ p \in recs /\ cmd[p].pw # 0 /\ box.secret[p] = cmd[p].pw
            /\ box.role[AppUser[p]] = cmd[p].pw /\ cmd[p].port # 0
            /\ box.conf[p] = [pw |-> cmd[p].pw, port |-> cmd[p].port] /\ box.unit[p] = p
            /\ box.app[p] \in {NoApp, [pw |-> cmd[p].pw, port |-> cmd[p].port, of |-> p]}
            /\ box.paired /\ box.dsn[p] = cmd[p].pw /\ box.site[p] = cmd[p].port
            /\ box.front /\ p \in box.conns
        BY <3>2, <3>3 DEF HasDone, FromRole, FromPort, FromConf, FromBuild, FromStart, FromAgent,
           FromAdd, FromConnect, FromSite
      <3>7. NoCommand.last = FALSE /\ NoCommand.pc = "idle"
        BY DEF NoCommand
      <3> QED  BY <3>2, <3>4, <3>5, <3>6, <3>7 DEF Served, Hosted, Connected
    <2> QED  BY <2>1, <2>2, <2>3
  <1> QED  BY <1>1, <1>2 DEF DeploysAlone

\* A command begins: nobody is alone any more, unless it is a deploy and the
\* first; and no destroy is the last one while a project is served.
LEMMA BeginKeepsTenants ==
    ASSUME OwnUsers, TenantInv, NEW p \in Projects, BeginDeploy(p) \/ BeginDestroy(p)
    PROVE  TenantInv'
  <1> USE DEF TenantInv, TenantShape
  <1>0. BoxInv'
    BY BoxStep DEF BoxNext
  <1>1. PICK c :
          /\ cmd' = [q \in Projects |-> IF q = p THEN c ELSE [cmd[q] EXCEPT !.alone = FALSE]]
          /\ settled' = settled \ {p} /\ box' = box /\ raced' = raced /\ BoxAt(p, "idle")
          /\ c.port = 0 /\ c.pc # "idle"
          /\ c.alone => \A q \in Projects : BoxAt(q, "idle")
          /\ misjudged => misjudged'
          /\ c.pc \notin {"connect", "forget"}
          /\ \/ /\ recs' = recs \cup {p} /\ c.pc = "clear" /\ ~c.last
             \/ /\ recs' = recs /\ p \in recs /\ ~c.alone
                /\ c.last /\ ~misjudged' => recs = {p}
    <2>1. CASE BeginDeploy(p)
      <3> DEFINE c == [NoCommand EXCEPT !.pc = "clear",
                                        !.alone = \A q \in Projects : BoxAt(q, "idle")]
      <3>1. /\ c.port = 0 /\ c.pc = "clear" /\ ~c.last
            /\ c.alone => \A q \in Projects : BoxAt(q, "idle")
        BY DEF NoCommand
      <3>2. Begin(p, c) /\ recs' = recs \cup {p} /\ misjudged' = misjudged
        BY <2>1 DEF BeginDeploy
      <3> HIDE DEF c
      <3> QED  BY <3>1, <3>2 DEF Begin
    <2>2. CASE BeginDestroy(p)
      <3>1. PICK pc \in {"stop", "destroyed"}, listed \in SUBSET recs :
              /\ Begin(p, [NoCommand EXCEPT !.pc = pc, !.last = listed \subseteq {p}])
              /\ misjudged' = (misjudged \/ (listed \subseteq {p} /\ recs # {p}))
        BY <2>2 DEF BeginDestroy
      <3> DEFINE c == [NoCommand EXCEPT !.pc = pc, !.last = listed \subseteq {p}]
      <3>2. c.port = 0 /\ c.pc = pc /\ ~c.alone /\ (c.last => listed \subseteq {p})
        BY DEF NoCommand
      <3>3. Begin(p, c) /\ recs' = recs /\ p \in recs
        BY <2>2, <3>1 DEF BeginDestroy
      <3>4. (misjudged => misjudged') /\ (c.last /\ ~misjudged' => recs = {p})
        BY <3>1, <3>2
      <3> HIDE DEF c
      <3> QED  BY <3>2, <3>3, <3>4 DEF Begin
    <2> QED  BY <2>1, <2>2
  <1>2. \A q \in Projects \ {p} :
          /\ cmd'[q].pc = cmd[q].pc /\ cmd'[q].port = cmd[q].port /\ cmd'[q].last = cmd[q].last
          /\ cmd'[q].conns = cmd[q].conns
          /\ ~cmd'[q].alone /\ (cmd[q] = NoCommand => cmd'[q] = NoCommand)
    <2>1. [NoCommand EXCEPT !.alone = FALSE] = NoCommand
      <3>1. NoCommand.alone = FALSE /\ NoCommand = [f \in DOMAIN NoCommand |-> NoCommand[f]]
        BY DEF NoCommand
      <3> QED  BY <3>1
    <2>2. \A q \in Projects \ {p} : cmd'[q] = [cmd[q] EXCEPT !.alone = FALSE]
      BY <1>1
    <2>3. \A q \in Projects \ {p} : cmd[q] = NoCommand => cmd'[q] = NoCommand
      BY <2>1, <2>2
    <2>4. \A q \in Projects : DOMAIN cmd[q] = {"pc", "pw", "port", "of", "conns", "last", "alone"}
      BY DEF BoxInv, BoxShape, NoCommand
    <2> QED  BY <2>2, <2>3, <2>4
  <1>3. cmd'[p] = c
    BY <1>1
  <1>4. TenantShape'
    BY <1>1, <1>2, <1>3 DEF BoxAt
  <1>5. OwnPorts'
    <2>1. \A q \in Projects : PortsOf(q)' \subseteq PortsOf(q)
      BY <1>1, <1>2, <1>3 DEF PortsOf
    <2> QED  BY <1>1, <2>1 DEF OwnPorts
  <1>6. \A q \in Projects : DeploysAlone(q)'
    <2> SUFFICES ASSUME NEW q \in Projects, cmd'[q].alone
                 PROVE  HasDone(q, cmd[q])' /\ \A r \in Projects \ {q} : cmd'[r] = NoCommand
      BY DEF DeploysAlone
    <2>1. q = p /\ c.alone
      BY <1>2, <1>3
    <2>2. /\ c.pc = "clear" /\ p \in recs' /\ \A r \in Projects : BoxAt(r, "idle")
      BY <1>1, <2>1
    <2> QED  BY <1>2, <1>3, <2>1, <2>2
             DEF HasDone, Bootstrap, FromRole, FromPort, FromConf, FromBuild, FromStart, FromAgent,
                 FromAdd, FromConnect, FromSite
  <1>7. \A t \in settled' : Served(t)'
    <2> SUFFICES ASSUME NEW t \in settled, t # p PROVE Served(t)'
      BY <1>1
    <2>1. Served(t) /\ t \in Projects
      OBVIOUS
    <2>2. t \in recs /\ t \in recs' /\ cmd'[t] = NoCommand
      BY <1>1, <1>2, <2>1 DEF Served, Hosted
    <2>3. ~misjudged' => ~c.last
      <3>1. recs # {p}
        BY <2>2
      <3> QED  BY <1>1, <3>1
    <2>4. ~misjudged' => \A q \in Projects :
             /\ ~cmd'[q].last
             /\ cmd'[q].pc \in {"connect", "forget"} => t \in cmd'[q].conns
      BY <1>1, <1>2, <1>3, <2>1, <2>3 DEF Served, Connected
    <2> QED  BY <1>1, <2>1, <2>2, <2>4 DEF Served, Hosted, Connected
  <1> QED  BY <1>0, <1>4, <1>5, <1>6, <1>7

\* The invariant is inductive.
LEMMA TenantInductive == OwnUsers /\ TenantInv /\ [BoxNext]_boxvars => TenantInv'
  <1> SUFFICES ASSUME OwnUsers, TenantInv, [BoxNext]_boxvars PROVE TenantInv'
    OBVIOUS
  <1>1. BoxInv'
    BY BoxStep DEF TenantInv
  <1>2. ASSUME NEW p \in Projects, Section(p) PROVE TenantInv'
    BY <1>1, <1>2, SectionShape, SectionPorts, SectionKeeps DEF TenantInv
  <1>3. CASE BoxNext
    BY <1>2, <1>3, BeginKeepsTenants DEF BoxNext, Section
  <1>4. CASE UNCHANGED boxvars
    <2> USE <1>4 DEF boxvars, TenantInv
    <2>1. TenantShape' /\ OwnPorts'
      BY DEF TenantShape, OwnPorts, PortsOf, BoxAt
    <2>2. ASSUME NEW p \in Projects PROVE DeploysAlone(p)'
      BY <2>2 DEF DeploysAlone, HasDone
    <2>3. ASSUME NEW p \in settled PROVE Hosted(p)' /\ (~misjudged => Connected(p))'
      BY <2>3 DEF Served, Hosted, Connected
    <2> QED  BY <1>1, <2>1, <2>2, <2>3 DEF Served
  <1> QED  BY <1>3, <1>4

\* While every project has a database user of its own, and for any number of projects
\* and of commands on the box: once a deploy has run alone to its end, its project's
\* code, port and password stay, whatever other projects' deploys and destroys do, in
\* any order and wherever they stop, and whatever earlier commands of its own had
\* left; except that of two deploys at once both may have been given one port.  Its
\* route and the box's agent with its DSN stay as long as no destroy takes itself for
\* the last one by a list it could not read, and its connection as long as nobody dies
\* while it writes everyone's (bootstrap.sh.tmpl, teardown.sh.tmpl, connections.go).
THEOREM TenantsStayServed ==
  ASSUME OwnUsers
  PROVE  BoxSpec => []TenantIsServed
  <1>1. TenantInv => TenantIsServed
    <2>1. ASSUME TenantInv, ~raced, NEW p \in settled, NEW q \in Projects \ {p}
          PROVE  box.app[q].port # box.conf[p].port
      <3>1. p \in Projects /\ Hosted(p) /\ PortsOf(p) \cap PortsOf(q) = {}
        BY <2>1 DEF TenantInv, TenantShape, OwnPorts, Served
      <3> QED  BY <3>1 DEF Hosted, PortsOf
    <2>2. ASSUME TenantInv, NEW p \in settled PROVE Hosted(p) /\ (~misjudged => Connected(p))
      BY <2>2 DEF TenantInv, Served
    <2> QED  BY <2>1, <2>2 DEF TenantIsServed, Hosted, Connected
  <1> QED
    BY OwnUsers, TenantInitially, TenantInductive, <1>1, PTL DEF BoxSpec

-----------------------------------------------------------------------------
(* The workspace *)

Manifests == [state : {"none", "torn", "whole"}, lists : SUBSET Paths]
Generations == [pc : {"idle", "extract", "modules"}, root : Roots, listed : {"no", "yes"},
                marked : SUBSET Paths, stubs : SUBSET Paths, entries : SUBSET Entries,
                open : Entries \cup {"none"},
                previous : [roots : SUBSET Roots, lists : SUBSET Paths],
                edits : {"no", "yes"}, warned : {"no", "yes"}]

WorkspaceTypeOK ==
    /\ disk \in [Paths -> Contents] /\ owned \in SUBSET Paths /\ leftOver \in SUBSET Paths
    /\ genrun \in Generations /\ wanted \in SUBSET Roots
    /\ replaces \in [Roots -> {"none", "no", "yes", "torn"}]
    /\ manifest \in [Roots -> Manifests]

\* What is open is nothing of the user's, and what is to be extracted is the
\* generator's own or a stub.
ExtractsItsOwn ==
    /\ Running("idle") => genrun.open = "none"
    /\ genrun.open \notin owned
    /\ genrun.entries \cap Paths \subseteq genrun.marked \cup genrun.stubs

FilesKept == \A p \in owned : disk[p] = "user"

\* A directive of a go.mod below a go.mod of the workspace's own.
Hidden(r) == r # Flat /\ replaces[Flat] # "none"

\* A directive is in its go.mod, or in the hands of the generation that runs, or that
\* generation has warned, or will as there are several go.mod files.
DirectiveKept ==
    \A r \in wanted :
        /\ replaces[r] # "none"
        /\ \/ Hidden(r)
           \/ Running("idle") /\ replaces[r] = "yes"
           \/ ~Running("idle") /\ (genrun.warned = "yes" \/ genrun.edits = "yes" \/ FoundModule = {})

WorkspaceInv == WorkspaceTypeOK /\ ExtractsItsOwn /\ FilesKept /\ DirectiveKept

-----------------------------------------------------------------------------

\* "none" is no path, and neither are the names the extraction treats apart.
LEMMA PathNames == "none" \notin Paths /\ "manifest" \notin Paths /\ "go.mod" \notin Paths
  BY PathsAssumption

\* The root that is found is one of those looked at, and a root that no other hides is
\* found, or none is.
LEMMA TheOneIs ==
    ASSUME NEW roots
    PROVE  /\ TheOne(roots) \subseteq roots
           /\ \A r \in roots : r = Flat \/ Flat \notin roots =>
                 \/ TheOne(roots) = {r}
                 \/ TheOne(roots) = {} /\ r # Flat /\ \E s \in roots : s # r
           /\ \A r \in roots, s \in roots : r # s /\ Flat \notin roots => TheOne(roots) = {}
  <1>1. CASE Flat \in roots
    <2>1. TheOne(roots) = {Flat}
      BY <1>1 DEF TheOne
    <2> QED  BY <1>1, <2>1
  <1>2. CASE Flat \notin roots
    <2>1. TheOne(roots) = {r \in roots : roots = {r}}
      BY <1>2 DEF TheOne
    <2>2. ASSUME NEW r \in roots
          PROVE  TheOne(roots) = {r} \/ (TheOne(roots) = {} /\ r # Flat /\ \E s \in roots : s # r)
      <3>1. CASE roots = {r}
        BY <2>1, <3>1
      <3>2. CASE \E s \in roots : s # r
        <4>1. TheOne(roots) = {}
          BY <2>1, <3>2
        <4> QED  BY <1>2, <3>2, <4>1
      <3> QED  BY <3>1, <3>2
    <2>3. ASSUME NEW r \in roots, NEW s \in roots, r # s PROVE TheOne(roots) = {}
      BY <2>1, <2>3
    <2> QED  BY <1>2, <2>1, <2>2, <2>3
  <1> QED  BY <1>1, <1>2

\* Of go.mod files, one that none hides is the one found, or there are several.
LEMMA FoundModuleIs ==
    ASSUME NEW r \in Roots, replaces[r] # "none", ~Hidden(r), Flat \in Roots
    PROVE  \/ FoundModule = {r}
           \/ FoundModule = {} /\ r # Flat /\ \E s \in Roots : s # r /\ replaces[s] # "none"
  <1> DEFINE there == {s \in Roots : replaces[s] # "none"}
  <1>1. r \in there /\ (r = Flat \/ Flat \notin there)
    BY DEF Hidden
  <1>2. FoundModule = TheOne(there)
    BY DEF FoundModule
  <1> HIDE DEF there
  <1>3. \/ TheOne(there) = {r}
        \/ TheOne(there) = {} /\ r # Flat /\ \E s \in there : s # r
    BY <1>1, TheOneIs
  <1> QED  BY <1>2, <1>3 DEF there

\* Where several go.mod files lie side by side and none above them, none is found;
\* and so it stays.
LEMMA StillSeveral ==
    ASSUME FoundModule = {}, Flat \in Roots, NEW r \in Roots, replaces[r] # "none", ~Hidden(r),
           \A s \in Roots : replaces[s] # "none" => replaces'[s] # "none",
           ~(r # Flat /\ replaces'[Flat] # "none")
    PROVE  FoundModule' = {}
  <1>1. r # Flat /\ \E s \in Roots : s # r /\ replaces[s] # "none"
    BY FoundModuleIs
  <1> DEFINE there == {s \in Roots : replaces'[s] # "none"}
  <1>2. PICK s \in Roots : s # r /\ replaces[s] # "none"
    BY <1>1
  <1>3. r \in there /\ s \in there /\ r # s /\ Flat \notin there
    BY <1>1, <1>2
  <1>4. FoundModule' = TheOne(there)
    BY DEF FoundModule, TheOne
  <1> HIDE DEF there
  <1> QED  BY <1>3, <1>4, TheOneIs

\* A go.mod that a generation writes is in its hands.
LEMMA DirectiveStays ==
    ASSUME WorkspaceInv, ~Running("idle"), genrun'.pc # "idle", UNCHANGED wanted,
           genrun'.warned = genrun.warned, genrun'.edits = genrun.edits,
           \A s \in Roots : replaces[s] # "none" => replaces'[s] # "none"
    PROVE  DirectiveKept'
  <1> SUFFICES ASSUME NEW r \in wanted
               PROVE  /\ replaces'[r] # "none"
                      /\ \/ r # Flat /\ replaces'[Flat] # "none"
                         \/ genrun'.warned = "yes" \/ genrun'.edits = "yes" \/ FoundModule' = {}
    BY DEF DirectiveKept, Running, Hidden
  <1>1. /\ replaces[r] # "none" /\ r \in Roots /\ Flat \in Roots
        /\ Hidden(r) \/ genrun.warned = "yes" \/ genrun.edits = "yes" \/ FoundModule = {}
    BY PathsAssumption DEF WorkspaceInv, WorkspaceTypeOK, DirectiveKept
  <1>2. CASE Hidden(r)
    BY <1>1, <1>2 DEF Hidden
  <1>3. CASE FoundModule = {} /\ ~Hidden(r)
    BY <1>1, <1>3, StillSeveral
  <1> QED  BY <1>1, <1>2, <1>3

\* An empty workspace.
LEMMA WorkspaceInitially == WorkspaceInit => WorkspaceInv
  BY PathsAssumption
     DEF WorkspaceInit, WorkspaceInv, WorkspaceTypeOK, ExtractsItsOwn, FilesKept, DirectiveKept,
         Generations, Manifests, NoGeneration, NoManifest, NoPrevious, Contents, Running, Entries

\* A generation begins: it remembers the directive of the one go.mod.
LEMMA BeginKeeps == ASSUME WorkspaceInv, BeginGeneration PROVE WorkspaceInv'
  <1>1. PICK root \in Roots, marked \in SUBSET Paths, stubs \in SUBSET Paths,
             more \in SUBSET {"manifest", "go.mod"}, previous \in {Known, NoPrevious},
             warned \in {"no", "yes"} :
         /\ genrun' = Extraction(root, marked, stubs, more, previous, warned)
         /\ leftOver' = leftOver \cup (Known.lists \ previous.lists)
         /\ \A p \in marked \cup stubs : RootOf[p] = root
    BY DEF BeginGeneration
  <1>2. Known.lists \in SUBSET Paths /\ Known.roots \in SUBSET Roots
    <2>1. FoundManifest \subseteq Roots
      BY TheOneIs DEF FoundManifest
    <2> QED  BY <2>1 DEF Known, WorkspaceInv, WorkspaceTypeOK, Manifests
  <1>3. previous \in [roots : SUBSET Roots, lists : SUBSET Paths]
    BY <1>2 DEF Known, NoPrevious
  <1>4. WorkspaceTypeOK'
    <2>1. genrun' \in Generations
      BY <1>1, <1>3 DEF Extraction, Generations, Entries
    <2>2. leftOver' \in SUBSET Paths
      BY <1>1, <1>2 DEF WorkspaceInv, WorkspaceTypeOK
    <2> QED  BY <2>1, <2>2 DEF BeginGeneration, WorkspaceInv, WorkspaceTypeOK
  <1>5. /\ genrun'.pc = "extract" /\ genrun'.open = "none" /\ genrun'.warned = warned
        /\ genrun'.edits = IF warned = "no" /\ \E r \in FoundModule : replaces[r] = "yes"
                           THEN "yes" ELSE "no"
        /\ genrun'.entries = marked \cup stubs \cup more
        /\ genrun'.marked = marked /\ genrun'.stubs = stubs
    BY <1>1 DEF Extraction
  <1>6. ExtractsItsOwn' /\ FilesKept'
    BY <1>5, PathNames
       DEF BeginGeneration, WorkspaceInv, WorkspaceTypeOK, ExtractsItsOwn, FilesKept, Running
  <1>7. DirectiveKept'
    <2>1. Running("idle") /\ UNCHANGED <<replaces, wanted>>
      BY DEF BeginGeneration
    <2>2. FoundModule' = FoundModule /\ \A r : Hidden(r)' <=> Hidden(r)
      BY <2>1 DEF FoundModule, Hidden
    <2>3. ASSUME NEW r \in wanted, ~Hidden(r)
          PROVE  genrun'.warned = "yes" \/ genrun'.edits = "yes" \/ FoundModule = {}
      <3>1. replaces[r] = "yes" /\ r \in Roots /\ Flat \in Roots
        BY <2>1, <2>3, PathsAssumption DEF WorkspaceInv, WorkspaceTypeOK, DirectiveKept
      <3>2. FoundModule = {r} \/ FoundModule = {}
        BY <2>3, <3>1, FoundModuleIs
      <3> QED  BY <1>5, <3>1, <3>2
    <2>4. \A r \in wanted : replaces[r] # "none"
      BY DEF WorkspaceInv, DirectiveKept
    <2> QED  BY <1>5, <2>1, <2>2, <2>3, <2>4 DEF DirectiveKept, Running
  <1> QED  BY <1>4, <1>6, <1>7 DEF WorkspaceInv

\* An entry is left out.
LEMMA SkipKeeps == ASSUME WorkspaceInv, Skip PROVE WorkspaceInv'
  <1>1. PICK e \in genrun.entries : genrun' = [genrun EXCEPT !.entries = @ \ {e}]
    BY DEF Skip
  <1>2. genrun' \in Generations /\ genrun'.entries \subseteq genrun.entries
    BY <1>1 DEF WorkspaceInv, WorkspaceTypeOK, Generations
  <1>3. /\ genrun'.pc = genrun.pc /\ genrun'.open = genrun.open /\ genrun'.edits = genrun.edits
        /\ genrun'.marked = genrun.marked /\ genrun'.stubs = genrun.stubs
        /\ genrun'.warned = genrun.warned
    BY <1>1 DEF WorkspaceInv, WorkspaceTypeOK, Generations
  <1>4. WorkspaceTypeOK'
    BY <1>2 DEF Skip, WorkspaceInv, WorkspaceTypeOK
  <1>5. ExtractsItsOwn' /\ FilesKept'
    BY <1>2, <1>3 DEF Skip, WorkspaceInv, ExtractsItsOwn, FilesKept, Running
  <1>6. DirectiveKept'
    BY <1>3, DirectiveStays DEF Skip, Running
  <1> QED  BY <1>4, <1>5, <1>6 DEF WorkspaceInv

\* An entry is opened: a generated file, a stub that is not there or in an archive
\* without a manifest, or no path.
LEMMA OpenEntryKeeps == ASSUME WorkspaceInv, OpenEntry PROVE WorkspaceInv'
  <1>1. PICK e \in genrun.entries :
          /\ ~Preserved(e)
          /\ genrun' = [genrun EXCEPT !.open = e]
          /\ disk' = IF e \in Paths THEN [disk EXCEPT ![e] = "torn"] ELSE disk
          /\ manifest' = IF e = "manifest"
                         THEN [manifest EXCEPT ![genrun.root] = TornManifest] ELSE manifest
          /\ replaces' = IF e = "go.mod"
                         THEN [replaces EXCEPT ![genrun.root] = "torn"] ELSE replaces
          /\ owned' = owned \ ({e} \cap Overwritten)
    BY DEF OpenEntry
  <1>2. genrun' \in Generations /\ genrun'.open = e
    BY <1>1 DEF WorkspaceInv, WorkspaceTypeOK, Generations
  <1>3. /\ genrun'.pc = genrun.pc /\ genrun'.edits = genrun.edits
        /\ genrun'.entries = genrun.entries /\ genrun'.warned = genrun.warned
        /\ genrun'.marked = genrun.marked /\ genrun'.stubs = genrun.stubs
    BY <1>1 DEF WorkspaceInv, WorkspaceTypeOK, Generations
  <1>4. Running("extract") /\ UNCHANGED <<wanted, leftOver>>
    BY DEF OpenEntry
  <1>5. disk' \in [Paths -> Contents] /\ owned' \in SUBSET Paths
    BY <1>1 DEF WorkspaceInv, WorkspaceTypeOK, Contents
  <1>6. WorkspaceTypeOK'
    <2>1. manifest' \in [Roots -> Manifests]
      BY <1>1 DEF WorkspaceInv, WorkspaceTypeOK, TornManifest, Manifests
    <2>2. replaces' \in [Roots -> {"none", "no", "yes", "torn"}]
      BY <1>1 DEF WorkspaceInv, WorkspaceTypeOK
    <2> QED  BY <1>2, <1>4, <1>5, <2>1, <2>2 DEF WorkspaceInv, WorkspaceTypeOK
  <1>7. e \notin owned'
    <2>1. CASE e \in Paths
      <3>1. e \in Overwritten \/ disk[e] = "none"
        <4>1. e \in genrun.marked \/ e \in genrun.stubs
          BY <2>1 DEF WorkspaceInv, ExtractsItsOwn
        <4>2. genrun.listed \in {"no", "yes"}
          BY DEF WorkspaceInv, WorkspaceTypeOK, Generations
        <4> QED  BY <1>1, <4>1, <4>2 DEF Preserved, Overwritten
      <3> QED  BY <1>1, <3>1 DEF WorkspaceInv, FilesKept
    <2>2. CASE e \notin Paths
      BY <1>5, <2>2
    <2> QED  BY <2>1, <2>2
  <1>8. ExtractsItsOwn'
    BY <1>2, <1>3, <1>4, <1>7 DEF WorkspaceInv, ExtractsItsOwn, Running
  <1>9. FilesKept'
    BY <1>1, <1>5, <1>7 DEF WorkspaceInv, WorkspaceTypeOK, FilesKept
  <1>10. DirectiveKept'
    <2>1. \A s \in Roots : replaces[s] # "none" => replaces'[s] # "none"
      BY <1>1 DEF WorkspaceInv, WorkspaceTypeOK
    <2> QED  BY <1>3, <1>4, <2>1, DirectiveStays DEF Running
  <1> QED  BY <1>6, <1>8, <1>9, <1>10 DEF WorkspaceInv

\* The open entry is written.
LEMMA WriteEntryKeeps == ASSUME WorkspaceInv, WriteEntry PROVE WorkspaceInv'
  <1> DEFINE e == genrun.open
  <1>1. /\ disk' = IF e \in Paths
                   THEN [disk EXCEPT ![e] = IF e \in genrun.marked THEN "marked" ELSE "stub"]
                   ELSE disk
        /\ manifest' = IF e = "manifest"
                       THEN [manifest EXCEPT ![genrun.root] =
                               [state |-> "whole", lists |-> genrun.marked \cup genrun.stubs]]
                       ELSE manifest
        /\ replaces' = IF e = "go.mod" THEN [replaces EXCEPT ![genrun.root] = "no"] ELSE replaces
        /\ leftOver' = IF genrun.listed = "yes" THEN leftOver \ {e}
                       ELSE leftOver \cup ({e} \cap Paths)
        /\ genrun' = [genrun EXCEPT !.open = "none", !.entries = @ \ {e}]
        /\ owned' = owned /\ wanted' = wanted /\ Running("extract")
    BY DEF WriteEntry
  <1>2. genrun' \in Generations /\ genrun'.entries \subseteq genrun.entries
    BY <1>1 DEF WorkspaceInv, WorkspaceTypeOK, Generations
  <1>3. /\ genrun'.pc = genrun.pc /\ genrun'.edits = genrun.edits /\ genrun'.open = "none"
        /\ genrun'.marked = genrun.marked /\ genrun'.stubs = genrun.stubs
        /\ genrun'.warned = genrun.warned
    BY <1>1 DEF WorkspaceInv, WorkspaceTypeOK, Generations
  <1>4. disk' \in [Paths -> Contents] /\ \A p \in Paths : p # e => disk'[p] = disk[p]
    BY <1>1 DEF WorkspaceInv, WorkspaceTypeOK, Contents
  <1>5. genrun.marked \cup genrun.stubs \in SUBSET Paths
    BY DEF WorkspaceInv, WorkspaceTypeOK, Generations
  <1>6. WorkspaceTypeOK'
    <2>1. manifest' \in [Roots -> Manifests]
      BY <1>1, <1>5 DEF WorkspaceInv, WorkspaceTypeOK, Manifests
    <2>2. /\ replaces' \in [Roots -> {"none", "no", "yes", "torn"}]
          /\ leftOver' \in SUBSET Paths
      BY <1>1 DEF WorkspaceInv, WorkspaceTypeOK
    <2> QED  BY <1>1, <1>2, <1>4, <2>1, <2>2 DEF WorkspaceInv, WorkspaceTypeOK
  <1>7. ExtractsItsOwn'
    BY <1>1, <1>2, <1>3, PathNames DEF WorkspaceInv, WorkspaceTypeOK, ExtractsItsOwn, Running
  <1>8. FilesKept'
    BY <1>1, <1>4 DEF WorkspaceInv, WorkspaceTypeOK, ExtractsItsOwn, FilesKept
  <1>9. DirectiveKept'
    <2>1. \A s \in Roots : replaces[s] # "none" => replaces'[s] # "none"
      BY <1>1 DEF WorkspaceInv, WorkspaceTypeOK
    <2> QED  BY <1>1, <1>3, <2>1, DirectiveStays DEF Running
  <1> QED  BY <1>6, <1>7, <1>8, <1>9 DEF WorkspaceInv

\* What is pruned still has the generator's marker.
LEMMA CleanupKeeps == ASSUME WorkspaceInv, Cleanup PROVE WorkspaceInv'
  <1>1. PICK left \in SUBSET Orphans :
          /\ disk' = [p \in Paths |-> IF p \in Orphans \ left THEN "none" ELSE disk[p]]
          /\ leftOver' = leftOver \cup left
    BY DEF Cleanup
  <1>2. /\ genrun' = [genrun EXCEPT !.pc = "modules"] /\ Running("extract")
        /\ UNCHANGED <<manifest, replaces, owned, wanted>>
    BY DEF Cleanup
  <1>3. /\ genrun' \in Generations /\ genrun'.pc = "modules" /\ genrun'.open = genrun.open
        /\ genrun'.entries = genrun.entries /\ genrun'.edits = genrun.edits
        /\ genrun'.marked = genrun.marked /\ genrun'.stubs = genrun.stubs
        /\ genrun'.warned = genrun.warned
    BY <1>2 DEF WorkspaceInv, WorkspaceTypeOK, Generations
  <1>4. Orphans \subseteq Paths /\ \A p \in Orphans : disk[p] = "marked"
    BY DEF Orphans, WorkspaceInv, WorkspaceTypeOK, Generations
  <1>5. WorkspaceTypeOK'
    BY <1>1, <1>2, <1>3, <1>4 DEF WorkspaceInv, WorkspaceTypeOK, Contents
  <1>6. ExtractsItsOwn'
    BY <1>2, <1>3 DEF WorkspaceInv, ExtractsItsOwn, Running
  <1>7. FilesKept'
    BY <1>1, <1>2, <1>4 DEF WorkspaceInv, WorkspaceTypeOK, FilesKept
  <1>8. DirectiveKept'
    BY <1>2, <1>3, DirectiveStays DEF Running
  <1> QED  BY <1>5, <1>6, <1>7, <1>8 DEF WorkspaceInv

\* A generation ends: what is wanted then is in place, or hidden.
LEMMA EndsWith ==
    ASSUME WorkspaceInv, genrun' = NoGeneration,
           replaces' \in [Roots -> {"none", "no", "yes", "torn"}],
           \A s \in Roots : replaces[s] # "none" => replaces'[s] # "none",
           UNCHANGED <<disk, manifest, owned, leftOver>>, wanted' \subseteq wanted,
           \A r \in wanted' : replaces'[r] = "yes" \/ (r # Flat /\ replaces'[Flat] # "none")
    PROVE  WorkspaceInv'
  <1>1. genrun'.open = "none" /\ genrun'.entries = {} /\ genrun'.pc = "idle"
    BY DEF NoGeneration
  <1>2. WorkspaceTypeOK'
    <2>1. genrun' \in Generations
      BY PathsAssumption DEF NoGeneration, Generations, NoPrevious, Entries
    <2> QED  BY <2>1 DEF WorkspaceInv, WorkspaceTypeOK
  <1>3. ExtractsItsOwn' /\ FilesKept'
    <2>1. "none" \notin owned
      BY PathNames DEF WorkspaceInv, WorkspaceTypeOK
    <2> QED  BY <1>1, <2>1 DEF WorkspaceInv, ExtractsItsOwn, FilesKept
  <1>4. DirectiveKept'
    <2>1. \A r \in wanted' : replaces'[r] # "none"
      BY DEF WorkspaceInv, WorkspaceTypeOK, DirectiveKept
    <2> QED  BY <1>1, <2>1 DEF DirectiveKept, Running, Hidden
  <1> QED  BY <1>2, <1>3, <1>4 DEF WorkspaceInv

\* The directives are brought back, or a warning takes them off the user's mind.
LEMMA ReconcileKeeps == ASSUME WorkspaceInv, Reconcile PROVE WorkspaceInv'
  <1>0. /\ genrun' = NoGeneration /\ UNCHANGED <<disk, manifest, owned, leftOver>>
        /\ Running("modules") /\ replaces \in [Roots -> {"none", "no", "yes", "torn"}]
        /\ wanted \subseteq Roots /\ Flat \in Roots
    BY PathsAssumption DEF Reconcile, WorkspaceInv, WorkspaceTypeOK
  <1>1. FoundModule \subseteq {r \in Roots : replaces[r] # "none"}
    BY TheOneIs DEF FoundModule
  <1>2. CASE /\ replaces' = [r \in Roots |-> IF r \in FoundModule /\ genrun.edits = "yes"
                                             THEN "yes" ELSE replaces[r]]
             /\ wanted' = IF genrun.warned = "no" /\ FoundModule # {} THEN wanted ELSE Intact
    <2>1. /\ replaces' \in [Roots -> {"none", "no", "yes", "torn"}]
          /\ \A s \in Roots : replaces[s] # "none" => replaces'[s] # "none"
      BY <1>0, <1>2
    <2>2. CASE genrun.warned = "no" /\ FoundModule # {}
      <3>1. ASSUME NEW r \in wanted, ~Hidden(r) PROVE replaces'[r] = "yes"
        <4>1. genrun.edits = "yes" /\ replaces[r] # "none" /\ r \in Roots
          BY <1>0, <2>2, <3>1 DEF WorkspaceInv, DirectiveKept, Running
        <4>2. FoundModule = {r}
          BY <1>0, <2>2, <3>1, <4>1, FoundModuleIs
        <4> QED  BY <1>2, <4>1, <4>2
      <3>2. wanted' = wanted
        BY <1>2, <2>2
      <3>3. \A r \in wanted : Hidden(r) => r # Flat /\ replaces'[Flat] # "none"
        BY <1>0, <2>1 DEF Hidden
      <3> QED  BY <1>0, <2>1, <3>1, <3>2, <3>3, EndsWith
    <2>3. CASE ~(genrun.warned = "no" /\ FoundModule # {})
      <3>1. wanted' \subseteq wanted /\ \A r \in wanted' : replaces'[r] = "yes"
        BY <1>2, <2>3 DEF Intact
      <3> QED  BY <1>0, <2>1, <3>1, EndsWith
    <2> QED  BY <2>2, <2>3
  <1>3. CASE /\ \E r \in FoundModule : replaces' \in {replaces, [replaces EXCEPT ![r] = "torn"]}
             /\ wanted' = Intact
    <2>1. /\ replaces' \in [Roots -> {"none", "no", "yes", "torn"}]
          /\ \A s \in Roots : replaces[s] # "none" => replaces'[s] # "none"
      BY <1>0, <1>1, <1>3
    <2>2. wanted' \subseteq wanted /\ \A r \in wanted' : replaces'[r] = "yes"
      BY <1>3 DEF Intact
    <2> QED  BY <1>0, <2>1, <2>2, EndsWith
  <1> QED  BY <1>2, <1>3 DEF Reconcile

\* A generation is cut, and loses what it had in hands.
LEMMA CutKeeps == ASSUME WorkspaceInv, Cut PROVE WorkspaceInv'
  <1>1. FoundModule \subseteq Roots
    BY TheOneIs DEF FoundModule
  <1>2. /\ replaces' \in [Roots -> {"none", "no", "yes", "torn"}]
        /\ \A s \in Roots : replaces[s] # "none" => replaces'[s] # "none"
    BY <1>1 DEF Cut, WorkspaceInv, WorkspaceTypeOK
  <1>3. wanted' \subseteq wanted /\ \A r \in wanted' : replaces'[r] = "yes"
    BY DEF Cut, Intact
  <1> QED  BY <1>2, <1>3, EndsWith DEF Cut

\* The user writes, removes, and points go.mod at a checkout.
LEMMA UserKeeps ==
    ASSUME WorkspaceInv, Edits \/ Removes \/ PointsAtCheckout
    PROVE  WorkspaceInv'
  <1>1. CASE Edits \/ Removes
    <2>1. PICK p \in Paths :
            \/ disk' = [disk EXCEPT ![p] = "user"] /\ owned' = owned \cup {p}
            \/ disk' = [disk EXCEPT ![p] = "none"] /\ owned' = owned \ {p}
      BY <1>1 DEF Edits, Removes
    <2>2. UNCHANGED <<manifest, replaces, genrun, wanted, leftOver>> /\ Running("idle")
      BY <1>1 DEF Edits, Removes
    <2>3. WorkspaceTypeOK' /\ FilesKept'
      BY <2>1, <2>2 DEF WorkspaceInv, WorkspaceTypeOK, FilesKept, Contents
    <2>4. ExtractsItsOwn'
      BY <2>1, <2>2, PathNames DEF WorkspaceInv, ExtractsItsOwn, Running
    <2>5. DirectiveKept'
      BY <2>2 DEF WorkspaceInv, DirectiveKept, Running, Hidden, FoundModule
    <2> QED  BY <2>3, <2>4, <2>5 DEF WorkspaceInv
  <1>2. CASE PointsAtCheckout
    <2>1. PICK r \in Roots : /\ replaces' = [replaces EXCEPT ![r] = "yes"]
                             /\ wanted' = wanted \cup {r}
      BY <1>2 DEF PointsAtCheckout
    <2>2. UNCHANGED <<disk, manifest, genrun, owned, leftOver>> /\ Running("idle")
      BY <1>2 DEF PointsAtCheckout
    <2>3. WorkspaceTypeOK' /\ FilesKept' /\ ExtractsItsOwn'
      BY <2>1, <2>2 DEF WorkspaceInv, WorkspaceTypeOK, FilesKept, ExtractsItsOwn, Running
    <2>4. DirectiveKept'
      <3>1. \A s \in wanted' : replaces'[s] = "yes" \/ Hidden(s)
        BY <2>1, <2>2 DEF WorkspaceInv, WorkspaceTypeOK, DirectiveKept
      <3>2. Flat \in Roots
        BY PathsAssumption
      <3>3. \A s : Hidden(s) => Hidden(s)'
        BY <2>1, <3>2 DEF Hidden, WorkspaceInv, WorkspaceTypeOK
      <3>4. \A s \in wanted' : replaces'[s] # "none"
        BY <2>1 DEF WorkspaceInv, WorkspaceTypeOK, DirectiveKept
      <3> QED  BY <2>2, <3>1, <3>3, <3>4 DEF DirectiveKept, Running
    <2> QED  BY <2>3, <2>4 DEF WorkspaceInv
  <1> QED  BY <1>1, <1>2

\* The invariant is inductive.
LEMMA WorkspaceInductive == WorkspaceInv /\ [WorkspaceNext]_wsvars => WorkspaceInv'
  <1> SUFFICES ASSUME WorkspaceInv, [WorkspaceNext]_wsvars PROVE WorkspaceInv'
    OBVIOUS
  <1>1. CASE WorkspaceNext
    BY <1>1, BeginKeeps, SkipKeeps, OpenEntryKeeps, WriteEntryKeeps, CleanupKeeps, ReconcileKeeps,
       CutKeeps, UserKeeps
       DEF WorkspaceNext
  <1>2. CASE UNCHANGED wsvars
    <2>1. WorkspaceTypeOK' /\ ExtractsItsOwn' /\ FilesKept'
      BY <1>2 DEF wsvars, WorkspaceInv, WorkspaceTypeOK, ExtractsItsOwn, FilesKept, Running
    <2>2. DirectiveKept'
      BY <1>2 DEF wsvars, WorkspaceInv, DirectiveKept, Running, Hidden, FoundModule
    <2> QED  BY <2>1, <2>2 DEF WorkspaceInv
  <1> QED  BY <1>1, <1>2

\* For any paths, projects beside each other, archives with and without a manifest and
\* number of generations, wherever they are cut: a file of the user's is as the user
\* left it unless the generator still generates it or an archive has no manifest, and a
\* directive of the user's go.mod is back at the end of a generation that was not cut
\* and did not warn, unless a go.mod above it hides it (extractZip,
\* CleanupOrphanedGeneratedFiles, reconcileWorkspaceModule).
THEOREM UserWorkAlwaysSurvives == WorkspaceSpec => []UserWorkSurvives
  <1>1. WorkspaceInv => UserWorkSurvives
    BY DEF WorkspaceInv, FilesKept, DirectiveKept, Hidden, UserWorkSurvives
  <1> QED  BY <1>1, WorkspaceInitially, WorkspaceInductive, PTL DEF WorkspaceSpec

\* What the generator's marker is on, and what a manifest lists.
Generated == {p \in Paths : disk[p] = "marked"}
Lists == UNION {manifest[r].lists : r \in Roots}

\* Manifests list the files below them and are whole, but for the one that is open;
\* so does the archive at hand; and what the previous manifest was, is here or gone.
Rooted ==
    /\ \A r \in Roots : \A p \in manifest[r].lists : RootOf[p] = r
    /\ \A r \in Roots : manifest[r].state = "none" => manifest[r].lists = {}
    /\ \A r \in Roots : manifest[r].state = "torn" =>
           r = genrun.root /\ genrun.open = "manifest" /\ Running("extract")
    /\ \A p \in genrun.marked \cup genrun.stubs : RootOf[p] = genrun.root
    /\ genrun.open # "none" => genrun.open \in genrun.entries
    /\ \A r \in genrun.previous.roots : manifest[r].state # "none"
    /\ genrun.previous.roots = {} => genrun.previous.lists = {}

\* While a generation extracts, a generated file is its own or of the previous one,
\* whose manifest it has read, or was left over; before and after, a manifest lists it.
NoneUnknown ==
    /\ ~Running("extract") => Generated \subseteq Lists \cup leftOver
    /\ Running("extract") /\ genrun.listed = "no" =>
           "manifest" \notin genrun.entries /\ Generated \subseteq Lists \cup leftOver
    /\ Running("extract") /\ genrun.listed = "yes" =>
           /\ Generated \subseteq genrun.previous.lists \cup genrun.marked \cup leftOver
           /\ "manifest" \notin genrun.entries =>
                  manifest[genrun.root] = [state |-> "whole",
                                           lists |-> genrun.marked \cup genrun.stubs]

StaleInv == WorkspaceInv /\ (cut = "no" => Rooted /\ (OneProject => NoneUnknown))

\* Projects do not go away.
LEMMA StillOne ==
    ASSUME \A r \in Roots : manifest[r].state # "none" => manifest'[r].state # "none", OneProject'
    PROVE  OneProject
  BY DEF OneProject

\* Of one project with a whole manifest, that is the one found.
LEMMA KnownIsAll ==
    ASSUME OneProject, \A r \in Roots : manifest[r].state = "none" => manifest[r].lists = {},
           \A r \in Roots : manifest[r].state \in {"none", "whole"}
    PROVE  Known.lists = Lists /\ Known.roots = {r \in Roots : manifest[r].state # "none"}
  <1> DEFINE there == {r \in Roots : manifest[r].state # "none"}
  <1>1. FoundManifest = {r \in TheOne(there) : manifest[r].state = "whole"}
    BY DEF FoundManifest
  <1>2. there = {} \/ \E r \in Roots : there = {r}
    BY DEF OneProject
  <1>3. TheOne(there) = there
    <2>1. CASE there = {}
      BY <2>1, TheOneIs
    <2>2. CASE \E r \in Roots : there = {r}
      <3>1. PICK r \in Roots : there = {r}
        BY <2>2
      <3> HIDE DEF there
      <3> QED  BY <3>1 DEF TheOne
    <2> QED  BY <1>2, <2>1, <2>2
  <1>4. FoundManifest = there
    BY <1>1, <1>3
  <1> QED  BY <1>4 DEF Known, Lists

\* The read of what there is, before a generation writes.
LEMMA BeginKnows ==
    ASSUME StaleInv, cut = "no", BeginGeneration
    PROVE  Rooted' /\ (OneProject' => NoneUnknown')
  <1>1. PICK root \in Roots, marked \in SUBSET Paths, stubs \in SUBSET Paths,
             more \in SUBSET {"manifest", "go.mod"}, previous \in {Known, NoPrevious},
             warned \in {"no", "yes"} :
         /\ genrun' = Extraction(root, marked, stubs, more, previous, warned)
         /\ leftOver' = leftOver \cup (Known.lists \ previous.lists)
         /\ \A p \in marked \cup stubs : RootOf[p] = root
    BY DEF BeginGeneration
  <1>2. /\ genrun'.pc = "extract" /\ genrun'.open = "none" /\ genrun'.root = root
        /\ genrun'.listed = (IF "manifest" \in more THEN "yes" ELSE "no")
        /\ genrun'.entries = marked \cup stubs \cup more
        /\ genrun'.marked = marked /\ genrun'.stubs = stubs /\ genrun'.previous = previous
    BY <1>1 DEF Extraction
  <1>3. Running("idle") /\ UNCHANGED <<disk, manifest>> /\ Rooted
    BY DEF BeginGeneration, StaleInv
  <1>4. \A r \in Roots : manifest[r].state \in {"none", "whole"}
    BY <1>3 DEF Rooted, Running, StaleInv, WorkspaceInv, WorkspaceTypeOK, Manifests
  <1>5. Rooted'
    <2>1. FoundManifest \subseteq {r \in Roots : manifest[r].state # "none"}
      BY TheOneIs DEF FoundManifest
    <2>2. /\ \A r \in previous.roots : manifest[r].state # "none"
          /\ previous.roots = {} => previous.lists = {}
      BY <2>1 DEF Known, NoPrevious
    <2> QED  BY <1>1, <1>2, <1>3, <1>4, <2>2 DEF Rooted
  <1>6. ASSUME OneProject' PROVE NoneUnknown'
    <2>1. OneProject
      BY <1>3, <1>6, StillOne
    <2>2. Known.lists = Lists
      BY <1>3, <1>4, <2>1, KnownIsAll DEF Rooted
    <2>3. Generated \subseteq Lists \cup leftOver
      BY <1>3, <2>1 DEF StaleInv, NoneUnknown, Running
    <2>4. Generated' = Generated /\ Lists' = Lists
      BY <1>3 DEF Generated, Lists
    <2>5. Lists \cup leftOver \subseteq previous.lists \cup leftOver'
      BY <1>1, <2>2
    <2>6. leftOver \subseteq leftOver' /\ "manifest" \notin marked \cup stubs
      BY <1>1, PathNames
    <2> QED  BY <1>2, <2>3, <2>4, <2>5, <2>6 DEF NoneUnknown, Running
  <1> QED  BY <1>5, <1>6

\* Opening and writing an entry, and leaving one out, keep what is known.
LEMMA ExtractionKnows ==
    ASSUME StaleInv, cut = "no", Skip \/ OpenEntry \/ WriteEntry
    PROVE  Rooted' /\ (OneProject' => NoneUnknown')
  <1> USE DEF StaleInv, WorkspaceInv, WorkspaceTypeOK
  <1>0. Rooted /\ Running("extract") /\ genrun \in Generations
    BY DEF Skip, OpenEntry, WriteEntry
  <1>1. SUFFICES
          /\ genrun'.pc = "extract" /\ genrun'.previous = genrun.previous
          /\ genrun'.root = genrun.root /\ genrun'.listed = genrun.listed
          /\ genrun'.marked = genrun.marked /\ genrun'.stubs = genrun.stubs
          /\ genrun'.entries \subseteq genrun.entries
          /\ genrun'.open # "none" => genrun'.open \in genrun'.entries
          /\ \A r \in Roots : r # genrun.root => manifest'[r] = manifest[r]
          /\ \/ manifest' = manifest /\ genrun.open # "manifest"
                /\ ("manifest" \in genrun.entries => "manifest" \in genrun'.entries)
             \/ /\ manifest'[genrun.root] = TornManifest /\ genrun'.open = "manifest"
                /\ "manifest" \in genrun.entries
             \/ /\ manifest'[genrun.root] = [state |-> "whole",
                                             lists |-> genrun.marked \cup genrun.stubs]
                /\ genrun.open = "manifest"
          /\ Generated' \subseteq Generated \cup genrun.marked
          /\ genrun.listed = "no" => leftOver \subseteq leftOver' /\ Generated' \subseteq Generated \cup leftOver'
          /\ genrun.listed = "yes" => Generated' \cap leftOver \subseteq genrun.marked \cup leftOver'
    <2>1. Rooted'
      <3>1. \A r \in Roots : \A p \in manifest'[r].lists : RootOf[p] = r
        BY <1>0, <1>1 DEF Rooted, TornManifest
      <3>2. \A r \in Roots : manifest'[r].state = "none" => manifest'[r].lists = {}
        BY <1>0, <1>1 DEF Rooted, TornManifest
      <3>3. \A r \in Roots : manifest'[r].state = "torn" =>
               r = genrun'.root /\ genrun'.open = "manifest"
        BY <1>0, <1>1 DEF Rooted
      <3>4. \A r \in genrun.previous.roots : r \in Roots /\ manifest'[r].state # "none"
        <4>1. genrun.previous.roots \subseteq Roots
          BY <1>0 DEF Generations
        <4> QED  BY <1>0, <1>1, <4>1 DEF Rooted, TornManifest
      <3>5. /\ \A p \in genrun'.marked \cup genrun'.stubs : RootOf[p] = genrun'.root
            /\ genrun'.previous.roots = {} => genrun'.previous.lists = {}
        BY <1>0, <1>1 DEF Rooted
      <3> QED  BY <1>1, <3>1, <3>2, <3>3, <3>4, <3>5 DEF Rooted, Running
    <2>2. ASSUME OneProject' PROVE NoneUnknown'
      <3>1. OneProject
        BY <1>0, <1>1, <2>2, StillOne DEF Rooted, TornManifest
      <3>2. NoneUnknown
        BY <3>1
      <3>3. CASE genrun.listed = "no"
        <4>1. manifest' = manifest /\ "manifest" \notin genrun'.entries
          BY <1>0, <1>1, <3>2, <3>3 DEF NoneUnknown, Rooted
        <4>2. Lists' = Lists
          BY <4>1 DEF Lists
        <4> QED  BY <1>0, <1>1, <3>2, <3>3, <4>1, <4>2 DEF NoneUnknown, Running
      <3>4. CASE genrun.listed = "yes"
        <4>1. Generated' \subseteq genrun.previous.lists \cup genrun.marked \cup leftOver'
          BY <1>0, <1>1, <3>2, <3>4 DEF NoneUnknown
        <4>2. "manifest" \notin genrun'.entries =>
                manifest'[genrun.root] = [state |-> "whole",
                                          lists |-> genrun.marked \cup genrun.stubs]
          BY <1>0, <1>1, <3>2, <3>4 DEF NoneUnknown
        <4> QED  BY <1>1, <3>4, <4>1, <4>2 DEF NoneUnknown, Running
      <3>5. genrun.listed \in {"no", "yes"}
        BY <1>0 DEF Generations
      <3> QED  BY <3>3, <3>4, <3>5
    <2> QED  BY <2>1, <2>2
  <1>2. CASE Skip
    <2>1. PICK e \in genrun.entries :
            e \in genrun.stubs /\ genrun' = [genrun EXCEPT !.entries = @ \ {e}]
      BY <1>2 DEF Skip, Preserved
    <2>2. /\ e # "manifest" /\ genrun.open = "none" /\ UNCHANGED <<disk, manifest, leftOver>>
      BY <1>0, <1>2, <2>1, PathNames DEF Skip, Generations
    <2>3. /\ genrun'.pc = genrun.pc /\ genrun'.previous = genrun.previous
          /\ genrun'.root = genrun.root /\ genrun'.listed = genrun.listed
          /\ genrun'.marked = genrun.marked /\ genrun'.stubs = genrun.stubs
          /\ genrun'.open = genrun.open /\ genrun'.entries = genrun.entries \ {e}
      BY <1>0, <2>1 DEF Generations
    <2> QED  BY <1>0, <2>2, <2>3 DEF Running, Generated
  <1>3. CASE OpenEntry
    <2>1. PICK e \in genrun.entries :
            /\ genrun' = [genrun EXCEPT !.open = e]
            /\ disk' = IF e \in Paths THEN [disk EXCEPT ![e] = "torn"] ELSE disk
            /\ manifest' = IF e = "manifest"
                           THEN [manifest EXCEPT ![genrun.root] = TornManifest] ELSE manifest
      BY <1>3 DEF OpenEntry
    <2>2. Generated' \subseteq Generated /\ UNCHANGED leftOver /\ genrun.open = "none"
      BY <1>3, <2>1 DEF Generated, OpenEntry
    <2>3. /\ genrun'.pc = genrun.pc /\ genrun'.previous = genrun.previous
          /\ genrun'.root = genrun.root /\ genrun'.listed = genrun.listed
          /\ genrun'.marked = genrun.marked /\ genrun'.stubs = genrun.stubs
          /\ genrun'.open = e /\ genrun'.entries = genrun.entries /\ genrun.root \in Roots
      BY <1>0, <2>1 DEF Generations
    <2> QED  BY <1>0, <2>1, <2>2, <2>3 DEF Running
  <1>4. CASE WriteEntry
    <2> DEFINE e == genrun.open
    <2>1. /\ e # "none"
          /\ disk' = IF e \in Paths
                     THEN [disk EXCEPT ![e] = IF e \in genrun.marked THEN "marked" ELSE "stub"]
                     ELSE disk
          /\ manifest' = IF e = "manifest"
                         THEN [manifest EXCEPT ![genrun.root] =
                                 [state |-> "whole", lists |-> genrun.marked \cup genrun.stubs]]
                         ELSE manifest
          /\ leftOver' = IF genrun.listed = "yes" THEN leftOver \ {e}
                         ELSE leftOver \cup ({e} \cap Paths)
          /\ genrun' = [genrun EXCEPT !.open = "none", !.entries = @ \ {e}]
      BY <1>4 DEF WriteEntry
    <2>2. /\ Generated' \subseteq Generated \cup ({e} \cap Paths \cap genrun.marked)
          /\ e \in Generated' => e \in genrun.marked
      BY <2>1 DEF Generated
    <2>3. /\ genrun'.pc = genrun.pc /\ genrun'.previous = genrun.previous
          /\ genrun'.root = genrun.root /\ genrun'.listed = genrun.listed
          /\ genrun'.open = "none" /\ genrun'.entries = genrun.entries \ {e}
          /\ genrun'.marked = genrun.marked /\ genrun'.stubs = genrun.stubs
          /\ genrun.root \in Roots
      BY <1>0, <2>1 DEF Generations
    <2>4. /\ genrun.listed = "no" => leftOver \subseteq leftOver'
                                       /\ Generated' \subseteq Generated \cup leftOver'
          /\ genrun.listed = "yes" => Generated' \cap leftOver \subseteq genrun.marked \cup leftOver'
      BY <2>1, <2>2
    <2>5. \/ manifest' = manifest /\ e # "manifest"
             /\ ("manifest" \in genrun.entries => "manifest" \in genrun'.entries)
          \/ /\ manifest'[genrun.root] = [state |-> "whole",
                                          lists |-> genrun.marked \cup genrun.stubs]
             /\ e = "manifest"
      BY <2>1, <2>3
    <2>6. \A r \in Roots : r # genrun.root => manifest'[r] = manifest[r]
      BY <2>1
    <2> QED  BY <1>0, <2>1, <2>2, <2>3, <2>4, <2>5, <2>6 DEF Running
  <1> QED  BY <1>2, <1>3, <1>4

\* Pruning leaves what the manifest lists, and what could not be removed.
LEMMA CleanupKnows ==
    ASSUME StaleInv, cut = "no", Cleanup
    PROVE  Rooted' /\ (OneProject' => NoneUnknown')
  <1>1. PICK left \in SUBSET Orphans :
          /\ disk' = [p \in Paths |-> IF p \in Orphans \ left THEN "none" ELSE disk[p]]
          /\ leftOver' = leftOver \cup left
    BY DEF Cleanup
  <1>2. /\ genrun' = [genrun EXCEPT !.pc = "modules"] /\ manifest' = manifest /\ Rooted
        /\ Running("extract") /\ genrun.entries = {} /\ genrun \in Generations
    BY DEF Cleanup, StaleInv, WorkspaceInv, WorkspaceTypeOK
  <1>3. /\ genrun'.pc = "modules" /\ genrun'.previous = genrun.previous
        /\ genrun'.root = genrun.root /\ genrun'.open = genrun.open
        /\ genrun'.marked = genrun.marked /\ genrun'.stubs = genrun.stubs
        /\ genrun'.entries = genrun.entries
    BY <1>2 DEF Generations
  <1>4. genrun.open = "none" /\ \A r \in Roots : manifest[r].state # "torn"
    BY <1>2 DEF Rooted
  <1>5. Rooted'
    BY <1>2, <1>3, <1>4 DEF Rooted
  <1>6. ASSUME OneProject' PROVE NoneUnknown'
    <2>1. OneProject
      BY <1>2, <1>6, StillOne
    <2>2. \A r \in Roots : manifest[r].state \in {"none", "whole"}
      BY <1>4 DEF StaleInv, WorkspaceInv, WorkspaceTypeOK, Manifests
    <2>3. Known.lists = Lists /\ Known.roots = {r \in Roots : manifest[r].state # "none"}
      BY <1>2, <2>1, <2>2, KnownIsAll DEF Rooted
    <2>4. FoundManifest = Known.roots
      BY DEF Known
    <2>5. Generated' = Generated \ (Orphans \ left)
      BY <1>1 DEF Generated
    <2>6. NoneUnknown
      BY <2>1 DEF StaleInv
    <2>7. Generated \subseteq Lists \cup leftOver \cup Orphans
      <3>1. CASE genrun.listed = "no"
        BY <1>2, <2>6, <3>1 DEF NoneUnknown
      <3>2. CASE genrun.listed = "yes"
        <4>1. /\ Generated \subseteq genrun.previous.lists \cup genrun.marked \cup leftOver
              /\ manifest[genrun.root] = [state |-> "whole",
                                          lists |-> genrun.marked \cup genrun.stubs]
          BY <1>2, <2>6, <3>2 DEF NoneUnknown
        <4>2. genrun.root \in Roots
          BY <1>2 DEF Generations
        <4>3. genrun.marked \subseteq Lists /\ FoundManifest = {genrun.root}
          <5>1. manifest[genrun.root].lists = genrun.marked \cup genrun.stubs
            BY <4>1
          <5>2. manifest[genrun.root].state = "whole"
            BY <4>1
          <5> QED  BY <2>1, <2>3, <2>4, <4>2, <5>1, <5>2 DEF OneProject, Lists
        <4>4. CASE genrun.previous.roots = {}
          BY <1>2, <4>1, <4>3, <4>4 DEF Rooted
        <4>5. CASE genrun.previous.roots # {}
          <5>1. genrun.previous.roots \subseteq Roots
            BY <1>2 DEF Generations
          <5>2. genrun.previous.roots = FoundManifest
            BY <1>2, <2>3, <2>4, <4>3, <4>5, <5>1 DEF Rooted
          <5>3. Orphans = {p \in genrun.previous.lists \ Lists : disk[p] = "marked"}
            BY <2>3, <4>3, <5>2 DEF Orphans
          <5> QED  BY <4>1, <4>3, <5>3 DEF Generated
        <4> QED  BY <4>4, <4>5
      <3>3. genrun.listed \in {"no", "yes"}
        BY <1>2 DEF Generations
      <3> QED  BY <3>1, <3>2, <3>3
    <2>8. Lists' = Lists
      BY <1>2 DEF Lists
    <2>9. Generated' \subseteq Lists' \cup leftOver'
      BY <1>1, <2>5, <2>7, <2>8
    <2> QED  BY <1>3, <2>9 DEF NoneUnknown, Running
  <1> QED  BY <1>5, <1>6

\* The invariant is inductive.
LEMMA StaleInductive == StaleInv /\ [WorkspaceNext]_wsvars => StaleInv'
  <1> SUFFICES ASSUME StaleInv, [WorkspaceNext]_wsvars PROVE StaleInv'
    OBVIOUS
  <1>1. WorkspaceInv'
    BY WorkspaceInductive DEF StaleInv
  <1> SUFFICES ASSUME cut' = "no" PROVE Rooted' /\ (OneProject' => NoneUnknown')
    BY <1>1 DEF StaleInv
  <1>2. CASE BeginGeneration
    BY <1>2, BeginKnows DEF BeginGeneration
  <1>3. CASE Skip \/ OpenEntry \/ WriteEntry
    <2>1. cut = "no"
      BY <1>3 DEF Skip, OpenEntry, WriteEntry
    <2> QED  BY <1>3, <2>1, ExtractionKnows
  <1>4. CASE Cleanup
    BY <1>4, CleanupKnows DEF Cleanup
  <1>5. CASE Reconcile
    <2>1. genrun' = NoGeneration /\ UNCHANGED <<manifest, disk, leftOver, cut>> /\ Running("modules")
      BY <1>5 DEF Reconcile
    <2>2. /\ genrun'.pc = "idle" /\ genrun'.open = "none" /\ genrun'.marked = {}
          /\ genrun'.stubs = {} /\ genrun'.previous = NoPrevious
      BY <2>1 DEF NoGeneration
    <2>3. Rooted /\ \A r \in Roots : manifest[r].state # "torn"
      BY <2>1 DEF StaleInv, Rooted, Running
    <2>4. Rooted'
      BY <2>1, <2>2, <2>3 DEF Rooted, NoPrevious
    <2>5. OneProject' => NoneUnknown'
      BY <2>1, <2>2 DEF StaleInv, NoneUnknown, OneProject, Running, Generated, Lists
    <2> QED  BY <2>4, <2>5
  <1>6. CASE Cut
    BY <1>6 DEF Cut
  <1>7. CASE Edits \/ Removes \/ PointsAtCheckout
    <2>1. /\ Running("idle") /\ UNCHANGED <<genrun, manifest, cut, leftOver>>
      BY <1>7 DEF Edits, Removes, PointsAtCheckout
    <2>2. Generated' \subseteq Generated
      BY <1>7 DEF Edits, Removes, PointsAtCheckout, Generated, StaleInv, WorkspaceInv,
         WorkspaceTypeOK
    <2>3. Rooted'
      BY <2>1 DEF StaleInv, Rooted, Running
    <2> QED  BY <2>1, <2>2, <2>3 DEF StaleInv, NoneUnknown, OneProject, Running, Lists
  <1>8. CASE UNCHANGED wsvars
    BY <1>8 DEF wsvars, StaleInv, Rooted, NoneUnknown, OneProject, Running, Generated, Lists
  <1> QED  BY <1>2, <1>3, <1>4, <1>5, <1>6, <1>7, <1>8 DEF WorkspaceNext

\* For any paths, archives with and without a manifest and number of generations, none of
\* which was cut and all of one project: every file on disk with the generator's marker is
\* one of the last manifest's, so that code of a deleted entity does not linger and break
\* the build, unless it is of an archive without a manifest or a warning told of a cleanup
\* that failed (WriteGeneratedManifest, CleanupOrphanedGeneratedFiles).
THEOREM NeverStale == WorkspaceSpec => []NothingStale
  <1>1. WorkspaceInit => StaleInv
    <2>1. WorkspaceInit => Rooted /\ NoneUnknown
      BY DEF WorkspaceInit, Rooted, NoneUnknown, Running, Generated, NoManifest, NoGeneration,
         NoPrevious
    <2> QED  BY <2>1, WorkspaceInitially DEF StaleInv
  <1>2. StaleInv => NothingStale
    <2> SUFFICES ASSUME StaleInv, cut = "no", Running("idle"), OneProject, NEW p \in Paths,
                        disk[p] = "marked", p \notin leftOver
                 PROVE  p \in manifest[RootOf[p]].lists
      BY DEF NothingStale
    <2>1. p \in Lists
      BY DEF StaleInv, NoneUnknown, Generated, Running
    <2> QED  BY <2>1 DEF StaleInv, Rooted, Lists
  <1> QED  BY <1>1, <1>2, StaleInductive, PTL DEF WorkspaceSpec
=============================================================================
