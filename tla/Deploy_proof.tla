---------------------------- MODULE Deploy_proof ----------------------------
(***************************************************************************)
(* Every VM that runs has a record destroy finds it from, and every record  *)
(* is what its checkpoint says, for any number of terminals, apps, deploys  *)
(* and stops anywhere.                                                      *)
(***************************************************************************)
EXTENDS Deploy, FiniteSetTheorems, WellFoundedInduction, TLAPS

\* One command at a time; or, with several, none of them a destroy.
OneTerminal == \A p, q \in Clis : p = q
Undisturbed == OneTerminal \/ MaxDestroys = 0

\* The VMs are all of one provider, and --new-vm comes with neither --deployment
\* nor --host.
OneProvider == \A a, b \in Managed : a = b
Orderly == Undisturbed /\ OneProvider /\ ~SelectorNewVM

-----------------------------------------------------------------------------
(* What a command holds at its stages *)

Deploying(p) == cli[p].pc \in DeployPcs
Decided(p) == cli[p].pc \in DeployPcs \ {"decide"}
Planned(p) == cli[p].pc \in {"token", "pending", "create", "created", "record"}
Creates(p) == CreatesInfrastructure(cli[p].req.prov) /\ cli[p].box = None

\* A command's ids are ids, and its records are in the list it read.
InRangeOf(p) ==
    LET c == cli[p]
    IN  /\ Deploying(p) => c.n \in Attempts
        /\ Decided(p) \/ c.pc \in DestroyPcs => c.id \in Attempts
        /\ Planned(p) /\ c.box # None => c.seen[c.box] # None
        /\ Planned(p) /\ c.prior # None => c.seen[c.prior] # None
        /\ c.pc \in {"pending", "create", "created"} => Creates(p)
InRange == \A p \in Clis : InRangeOf(p)

\* What is said of every record, also of one that a command read earlier.
SoundRecord(rec) ==
    /\ rec.prov # None /\ rec.project # None /\ rec.ident # None
    /\ rec.provisioning => rec.step \in {"pending_recorded", "instance_created"}
    /\ StepRank(rec.step) >= StepRank("box_recorded") =>
           ~rec.provisioning /\ rec.host # None /\ rec.conn # None
    /\ StepRank(rec.step) >= StepRank("agent_paired") => rec.agent # None
    /\ rec.agent # None => rec.host # None
    /\ CreatesInfrastructure(rec.prov) =>
           /\ rec.host # None => rec.iid = rec.host
           /\ rec.iid # None \/ rec.rname # None

SoundStore(store) == \A id \in Attempts : store[id] # None => SoundRecord(store[id])

\* A record of the app that is asked for.
OfApp(rec, req) == rec.project = req.project /\ rec.ident = req.ident

\* What DecideBox decided, from the list that it read.
PlanSound(p) ==
    LET c == cli[p]
        seen == c.seen
    IN  /\ Deploying(p) =>
             /\ c.req.prov # None /\ c.req.project # None /\ c.req.ident # None
             /\ CreatesInfrastructure(c.req.prov) \/ c.req.host # None
        /\ Planned(p) =>
             /\ c.box # None => /\ CreatesInfrastructure(c.req.prov)
                                /\ CreatesInfrastructure(seen[c.box].prov)
                                /\ seen[c.box].host = c.host /\ OfApp(seen[c.box], c.req)
             /\ c.prior # None => seen[c.prior].host = c.host /\ OfApp(seen[c.prior], c.req)
             /\ c.id = IF c.prior # None THEN c.prior ELSE IF c.box # None THEN c.box ELSE c.n
             /\ IF Creates(p) THEN c.prior = None /\ c.boxAgent = None ELSE c.host # None

\* A record past box_recorded keeps its box.
Boxed(rec) == rec # None /\ ~rec.provisioning /\ rec.host # None /\ rec.conn # None
BoxKept(p) ==
    /\ cli[p].pc \in {"bootstrap", "agent", "finalize"} => Boxed(recs[cli[p].id])
    /\ cli[p].pc = "finalize" => cli[p].agent # None

\* A deploy that has not recorded its box is alone in knowing its name: nobody has
\* a record of it, or one that has no host yet, and nobody is about to write it.
Unborn(p) == cli[p].pc \in {"decide", "token", "pending"} \/ (cli[p].pc = "record" /\ ~Creates(p))
HalfBorn(p) == cli[p].pc \in {"create", "created"}
NameFresh(p) ==
    LET n == cli[p].n
    IN  /\ Deploying(p) => n <= attempts /\ \A q \in Clis \ {p} : Deploying(q) => cli[q].n # n
        /\ Unborn(p) => recs[n] = None /\ \A q \in Clis : cli[q].seen[n] = None
        /\ HalfBorn(p) => recs[n] # None /\ recs[n].host = None
        /\ Unborn(p) \/ HalfBorn(p) => \A q \in Clis \ {p} : cli[q].id # n

\* Ids and names are those of deploys that have begun.
Begun(store) == \A n \in Attempts : n > attempts => store[n] = None
IdBegun(p) ==
    /\ Decided(p) \/ cli[p].pc \in DestroyPcs => cli[p].id <= attempts
    /\ cli[p].pc \in {"idle", "decide"} => cli[p].id = None

\* A VM that the record of its name follows, in the store and in every list read.
NewVM(p) == [name |-> cli[p].n, prov |-> cli[p].req.prov, project |-> cli[p].req.project,
             ident |-> cli[p].req.ident, extra |-> cli[p].req.newVM]
Tracks(rec, vm) == rec # None => /\ Names(rec, vm.name) /\ OfApp(rec, vm)
                                 /\ rec.prov = vm.prov /\ rec.host \in {None, vm.name}
Followed(vm) == /\ recs[vm.name] # None /\ Tracks(recs[vm.name], vm)
                /\ \A p \in Clis : Tracks(cli[p].seen[vm.name], vm)
Born(p) == HalfBorn(p) \/ (cli[p].pc = "record" /\ Creates(p))

\* An app that has a box is deployed on it again.
HasBox(req) == \E id \in Attempts : recs[id] # None /\ CreatesInfrastructure(recs[id].prov)
                                      /\ OfApp(recs[id], req)
HasVM(req) == \E vm \in vms : CreatesInfrastructure(vm.prov) /\ OfApp(vm, req)
Hosted(rec) == CreatesInfrastructure(rec.prov) /\ rec.host # None => HasVM(rec)
HostedStore(store) == \A id \in Attempts : store[id] # None => Hosted(store[id])
Again(p) ==
    cli[p].pc = "decide" /\ CreatesInfrastructure(cli[p].req.prov) /\ cli[p].req.host # None =>
       ~cli[p].req.newVM /\ (IF MaxDestroys = 0 THEN HasVM(cli[p].req) ELSE HasBox(cli[p].req))

\* Without a destroy, nobody runs one, and no VM goes.
NoDestroys(p) ==
    MaxDestroys = 0 => /\ cli[p].pc \notin DestroyPcs /\ HostedStore(cli[p].seen)
                       /\ cli[p].pc = "created" => NewVM(p) \in vms

\* What holds of each command, and of the records and the VMs.
CliInv(p) ==
    /\ PlanSound(p) /\ BoxKept(p) /\ NameFresh(p) /\ IdBegun(p) /\ Begun(cli[p].seen)
    /\ SoundStore(cli[p].seen) /\ Again(p) /\ NoDestroys(p)
    /\ Born(p) => Followed(NewVM(p))
StoreInv ==
    /\ SoundStore(recs) /\ Begun(recs) /\ \A vm \in vms : vm.name <= attempts
    /\ \A vm \in vms : vm.name \notin asked => Followed(vm)
    /\ MaxDestroys = 0 => asked = {} /\ HostedStore(recs)

TypeInv == TypeOK /\ InRange
DeployInv == TypeInv /\ StoreInv /\ \A p \in Clis : CliInv(p)

-----------------------------------------------------------------------------
(* The newest of some records *)

\* A smallest number of a set of numbers.
LEMMA SmallestNumber ==
    ASSUME NEW T, T \subseteq Nat, T # {} PROVE \E k \in T : \A m \in T : k <= m
  <1>1. PICK k \in T : \A m \in T : <<m, k>> \notin OpToRel(<, Nat)
    BY NatLessThanWellFounded, WFMin
  <1>2. ASSUME NEW m \in T PROVE ~(m < k)
    BY <1>1, Zenon DEF OpToRel
  <1> QED  BY <1>2

\* Finitely many numbers have a largest one: remove one from a smallest set without.
LEMMA FiniteHasMax ==
    ASSUME NEW S, S \subseteq Nat, IsFiniteSet(S), S # {}
    PROVE  \E s \in S : \A t \in S : t <= s
  <1> DEFINE HasMax(U) == \E s \in U : \A t \in U : t <= s
             Bad == {k \in Nat : \E U \in SUBSET Nat : /\ IsFiniteSet(U) /\ U # {}
                                                       /\ Cardinality(U) = k /\ ~HasMax(U)}
  <1>1. SUFFICES ASSUME ~HasMax(S) PROVE FALSE
    OBVIOUS
  <1>2. Cardinality(S) \in Bad
    BY <1>1, FS_CardinalityType
  <1>3. PICK k \in Bad : \A m \in Bad : k <= m
    BY <1>2, SmallestNumber
  <1>4. PICK U \in SUBSET Nat : IsFiniteSet(U) /\ U # {} /\ Cardinality(U) = k /\ ~HasMax(U)
    OBVIOUS
  <1>5. PICK u \in U : TRUE
    BY <1>4
  <1> DEFINE V == U \ {u}
  <1>6. IsFiniteSet(V) /\ Cardinality(V) = k - 1 /\ k - 1 \in Nat
    <2>1. IsFiniteSet(V) /\ Cardinality(V) = Cardinality(U) - 1
      BY <1>4, <1>5, FS_RemoveElement
    <2>2. Cardinality(V) \in Nat
      BY <2>1, FS_CardinalityType
    <2> QED  BY <1>4, <2>1, <2>2
  <1>7. V # {} => HasMax(V)
    BY <1>3, <1>6
  <1>8. CASE V = {}
    <2>1. u \in Nat /\ \A t \in U : t = u
      BY <1>4, <1>5, <1>8
    <2> QED  BY <1>4, <1>5, <2>1
  <1>9. CASE V # {}
    <2>1. PICK v \in V : \A t \in V : t <= v
      BY <1>7, <1>9
    <2>2. \A t \in U : t <= IF u <= v THEN v ELSE u
      BY <2>1, <1>5
    <2> QED  BY <1>4, <1>5, <2>1, <2>2
  <1> QED  BY <1>8, <1>9

\* A finite set has finitely many images.
LEMMA ImageIsFinite ==
    ASSUME NEW S, IsFiniteSet(S), NEW f
    PROVE  IsFiniteSet({f[x] : x \in S})
  <1> DEFINE T == {f[x] : x \in S}
             g == [x \in S |-> f[x]]
  <1>1. g \in Surjection(S, T)
    BY DEF Surjection
  <1> HIDE DEF T, g
  <1>2. IsFiniteSet(T)
    BY <1>1, FS_Surjection
  <1> QED  BY <1>2 DEF T

LEMMA AttemptsAreFew == IsFiniteSet(Attempts)
  <1>1. 1 \in Int /\ MaxAttempts \in Int
    BY CommandBounds
  <1> QED  BY <1>1, FS_Interval DEF Attempts

\* The newest of some records is one of them.
LEMMA NewestIs ==
    ASSUME NEW deps \in Stores, NEW S, S \subseteq Recorded(deps)
    PROVE  IF S = {} THEN Newest(deps, S) = None ELSE Newest(deps, S) \in S
  <1>1. CASE S = {}
    BY <1>1 DEF Newest
  <1>2. CASE S # {}
    <2> DEFINE stamp == [i \in Attempts |-> deps[i].created]
               stamps == {stamp[i] : i \in S}
    <2>1. S \subseteq Attempts /\ \A i \in S : deps[i] \in Record
      BY DEF Recorded, Stores
    <2>2. \A i \in S : stamp[i] = deps[i].created /\ stamp[i] \in Nat
      BY <2>1 DEF Record
    <2>3. IsFiniteSet(S)
      BY <2>1, FS_Subset, AttemptsAreFew
    <2>4. IsFiniteSet(stamps)
      BY <2>3, ImageIsFinite
    <2>9. stamps \subseteq Nat /\ stamps # {}
      BY <1>2, <2>2
    <2>5. PICK s \in stamps : \A t \in stamps : t <= s
      BY <2>4, <2>9, FiniteHasMax
    <2>6. PICK i \in S : stamp[i] = s
      OBVIOUS
    <2>7. \A j \in S : deps[j].created <= deps[i].created
      BY <2>1, <2>2, <2>5, <2>6
    <2>8. Newest(deps, S) \in S
      BY <1>2, <2>6, <2>7 DEF Newest
    <2> QED  BY <1>2, <2>8
  <1> QED  BY <1>1, <1>2

\* The stamp of a record that is written now is a number.
LEMMA NowIsNumber == ASSUME TypeOK PROVE Now \in Nat
  <1> DEFINE ofStore == [id \in Attempts |-> recs[id].created]
             ofCli == [pi \in Clis \X Attempts |-> cli[pi[1]].seen[pi[2]].created]
             all == {ofStore[id] : id \in Attempts} \cup {ofCli[pi] : pi \in Clis \X Attempts}
  <1>1. IsFiniteSet(Attempts) /\ IsFiniteSet(Clis \X Attempts)
    BY FewTerminals, AttemptsAreFew, FS_Product
  <1>2. IsFiniteSet(all)
    <2> HIDE DEF ofStore, ofCli
    <2>1. IsFiniteSet({ofStore[id] : id \in Attempts})
      BY <1>1, ImageIsFinite
    <2>2. IsFiniteSet({ofCli[pi] : pi \in Clis \X Attempts})
      BY <1>1, ImageIsFinite
    <2> QED  BY <2>1, <2>2, FS_Union
  <1>3. Stamps \subseteq all /\ Stamps \subseteq Nat
    <2>1. ASSUME NEW store \in Stores, NEW id \in Recorded(store)
          PROVE  id \in Attempts /\ store[id].created \in Nat
      BY DEF Recorded, Stores, Record
    <2>2. recs \in Stores /\ \A p \in Clis : cli[p].seen \in Stores
      BY DEF TypeOK, Commands
    <2>3. \A id \in Recorded(recs) : recs[id].created \in all \cap Nat
      BY <2>1, <2>2
    <2>4. ASSUME NEW p \in Clis, NEW id \in Recorded(cli[p].seen)
          PROVE  cli[p].seen[id].created \in all \cap Nat
      <3>1. id \in Attempts /\ cli[p].seen[id].created \in Nat
        BY <2>1, <2>2
      <3>2. ofCli[<<p, id>>] = cli[p].seen[id].created
        BY <3>1
      <3> QED  BY <3>1, <3>2
    <2> QED  BY <2>3, <2>4 DEF Stamps
  <1>4. IsFiniteSet(Stamps)
    BY <1>2, <1>3, FS_Subset
  <1>5. CASE Stamps = {}
    BY <1>5 DEF Now
  <1>6. CASE Stamps # {}
    <2>1. \E s \in Stamps : \A t \in Stamps : t <= s
      BY <1>3, <1>4, <1>6, FiniteHasMax
    <2>2. (CHOOSE s \in Stamps : \A t \in Stamps : t <= s) \in Nat
      BY <1>3, <2>1
    <2> QED  BY <1>6, <2>2 DEF Now
  <1> QED  BY <1>5, <1>6
-----------------------------------------------------------------------------
(* What is decided from a list of records *)

LEMMA NoneIsNoId == None \notin Attempts /\ None \notin Boxes /\ None \notin Managed
  BY NamesDiffer, ProviderKinds DEF Boxes, Attempts

\* An earlier record of this identifier on this host.
LEMMA PriorIs ==
    ASSUME NEW deps \in Stores, NEW host, NEW ident
    PROVE  LET prior == PickPriorDeployment(deps, host, ident)
           IN  \/ prior = None
               \/ /\ prior \in Attempts /\ deps[prior] # None /\ deps[prior] \in Record
                  /\ deps[prior].host = host /\ deps[prior].ident = ident /\ Usable(deps[prior])
  <1> DEFINE S == {id \in Recorded(deps) : /\ deps[id].host = host /\ deps[id].ident = ident
                                           /\ Usable(deps[id])}
  <1>1. PickPriorDeployment(deps, host, ident) = Newest(deps, S)
    BY DEF PickPriorDeployment
  <1>2. S \subseteq Recorded(deps)
    OBVIOUS
  <1>3. IF S = {} THEN Newest(deps, S) = None ELSE Newest(deps, S) \in S
    BY <1>2, NewestIs
  <1>4. \A id \in Recorded(deps) : id \in Attempts /\ deps[id] # None /\ deps[id] \in Record
    BY DEF Recorded, Stores
  <1> QED  BY <1>1, <1>3, <1>4

\* The agent of some record on this host.
LEMMA BoxAgentIs ==
    ASSUME NEW deps \in Stores, NEW host
    PROVE  LET agent == PickBoxAgent(deps, host)
           IN  /\ agent \in Attempts \cup {None}
               /\ agent # None => \E id \in Attempts : /\ deps[id] # None /\ deps[id].host = host
                                                       /\ deps[id].agent = agent
  <1> DEFINE S == {id \in Recorded(deps) : deps[id].host = host /\ deps[id].agent # None}
  <1>1. PickBoxAgent(deps, host) =
          IF Newest(deps, S) = None THEN None ELSE deps[Newest(deps, S)].agent
    BY DEF PickBoxAgent
  <1>2. S \subseteq Recorded(deps)
    OBVIOUS
  <1>3. IF S = {} THEN Newest(deps, S) = None ELSE Newest(deps, S) \in S
    BY <1>2, NewestIs
  <1>4. \A id \in Recorded(deps) : id \in Attempts /\ deps[id] # None
                                   /\ deps[id].agent \in Attempts \cup {None}
    BY DEF Recorded, Stores, Record
  <1> QED  BY <1>1, <1>3, <1>4

\* A record of a VM of the app that is asked for.
ManagedOf(deps, req) ==
    {id \in Recorded(deps) : /\ deps[id].ident = req.ident
                             /\ deps[id].project \in {None, req.project}
                             /\ CreatesInfrastructure(deps[id].prov)}

\* A reused box is one of the app's; a VM is provisioned for a provider that creates one.
LEMMA DecisionIs ==
    ASSUME NEW deps \in Stores, NEW req \in Requests
    PROVE  LET d == DecideDeployBox(deps, req)
           IN  /\ d.action \in {"given", "provision", "fail", "reuse"}
               /\ CreatesInfrastructure(req.prov) => d.action # "given"
               /\ d.action = "reuse" =>
                     /\ d.box \in ManagedOf(deps, req) /\ d.box \in Attempts /\ d.box # None
                     /\ deps[d.box] \in Record /\ deps[d.box].host # None
                     /\ CreatesInfrastructure(req.prov) /\ ~req.newVM
               /\ OneProvider /\ ManagedOf(deps, req) # {} /\ ~req.newVM => d.action # "provision"
  <1> DEFINE S == ManagedOf(deps, req)
             box == PickManagedBox(deps, req.project, req.ident)
  <1>1. box = Newest(deps, S)
    BY DEF PickManagedBox, ManagedOf
  <1>2. S \subseteq Recorded(deps)
    BY DEF ManagedOf
  <1>3. IF S = {} THEN box = None ELSE box \in S
    BY <1>1, <1>2, NewestIs
  <1>4. \A id \in S : id \in Attempts /\ id # None /\ deps[id] \in Record
    BY <1>2, NoneIsNoId DEF Recorded, Stores
  <1>5. OneProvider /\ S # {} /\ CreatesInfrastructure(req.prov) => deps[box].prov = req.prov
    BY <1>3 DEF OneProvider, ManagedOf, CreatesInfrastructure
  <1> HIDE DEF S, box
  <1>6. /\ DecideDeployBox(deps, req).box = box
        /\ LET a == DecideDeployBox(deps, req).action
               managed == CreatesInfrastructure(req.prov)
               same == box # None /\ deps[box].prov = req.prov
           IN  a = IF ~managed THEN "given" ELSE IF ~same \/ req.newVM THEN "provision"
                   ELSE IF deps[box].host = None THEN "fail" ELSE "reuse"
    BY DEF DecideDeployBox, box
  <1> QED  BY <1>3, <1>4, <1>5, <1>6 DEF S
-----------------------------------------------------------------------------
(* Types *)

Others(p) == \A q \in Clis \ {p} : cli'[q] = cli[q]

LEMMA EmptyTypes == /\ EmptyRecord \in Record /\ NoRecs \in Stores /\ IdleCli \in Commands
                    /\ NoRequest \in Requests
  <1>1. EmptyRecord \in Record
    BY DEF EmptyRecord, Record, Checkpoints
  <1>2. NoRecs \in Stores /\ NoRequest \in Requests
    BY DEF NoRecs, Stores, NoRequest, Requests
  <1>3. 0 \in 0..MaxAttempts
    BY CommandBounds
  <1> QED  BY <1>1, <1>2, <1>3 DEF IdleCli, Commands

\* A command becomes c.
LEMMA SetCliIs ==
    ASSUME TypeOK, NEW p \in Clis, NEW c \in Commands, cli' = [cli EXCEPT ![p] = c]
    PROVE  cli' \in [Clis -> Commands] /\ cli'[p] = c /\ Others(p)
  BY DEF TypeOK, Others

\* A command goes on to pc, with all it holds.
LEMMA GotoIs ==
    ASSUME TypeOK, NEW p \in Clis, NEW pc \in DeployPcs \cup DestroyPcs \cup {"idle"}, Goto(p, pc)
    PROVE  /\ cli' \in [Clis -> Commands] /\ Others(p)
           /\ cli'[p] = [cli[p] EXCEPT !.pc = pc] /\ cli'[p].pc = pc
  BY DEF TypeOK, Others, Goto, Commands

\* What a step of p leaves of the others' ids.
LEMMA RangesOfOthers ==
    ASSUME InRange, NEW p \in Clis, Others(p), InRangeOf(p)' PROVE InRange'
  <1>1. ASSUME NEW q \in Clis \ {p} PROVE InRangeOf(q)'
    BY DEF InRange, InRangeOf, Others, Deploying, Decided, Planned, Creates
  <1> QED  BY <1>1 DEF InRange

\* A record is written.
LEMMA MutateIs ==
    ASSUME TypeOK, NEW id \in Attempts, NEW rec \in Record, Mutate(id, rec)
    PROVE  /\ recs' \in Stores /\ recs'[id] = rec /\ recs'[id] # None
           /\ \A other \in Attempts \ {id} : recs'[other] = recs[other]
  BY NoneIsNoRecord DEF TypeOK, Stores, Mutate

LEMMA LoadedIs ==
    ASSUME TypeOK, NEW id \in Attempts
    PROVE  Loaded(id) \in Record /\ (recs[id] # None => Loaded(id) = recs[id])
  BY EmptyTypes DEF TypeOK, Stores, Loaded

\* What is asked for: by flags, or by a record that is there.
FromFlags(req) ==
    /\ req.prov # None /\ req.project # None /\ req.ident # None
    /\ (req.host = None) = CreatesInfrastructure(req.prov)
FromRecord(req, rec) ==
    /\ rec # None /\ rec \in Record /\ OfApp(rec, req) /\ req.prov = rec.prov /\ req.host = rec.host
    /\ req.prov = Ssh => req.host # None
    /\ req.newVM => SelectorNewVM

LEMMA RequestIs ==
    ASSUME TypeOK, NEW p \in Clis, Deploy(p) \/ \E id \in Attempts : DeploySelected(p, id)
    PROVE  \E req \in Requests : /\ Begin(p, req)
                                 /\ FromFlags(req) \/ \E id \in Attempts : FromRecord(req, recs[id])
  <1>1. CASE Deploy(p)
    <2>1. PICK app \in Apps, prov \in Managed \cup {Ssh}, newVM \in BOOLEAN,
               host \in GivenHosts \cup Running \cup {None} :
             /\ (prov = Ssh) = (host # None)
             /\ Begin(p, [project |-> app[1], ident |-> app[2], prov |-> prov,
                          host |-> host, newVM |-> newVM])
      BY <1>1 DEF Deploy
    <2>2. host \in Boxes \cup {None} /\ app[1] \in Projects /\ app[2] \in Idents
      BY DEF TypeOK, VMs, Running, Boxes, Projects, Idents
    <2> DEFINE req == [project |-> app[1], ident |-> app[2], prov |-> prov, host |-> host,
                       newVM |-> newVM]
    <2>3. req \in Requests
      BY <2>2 DEF Requests
    <2>4. FromFlags(req)
      BY <2>1, AppsAreNamed, SshIsGiven, ProviderKinds DEF FromFlags, CreatesInfrastructure
    <2> QED  BY <2>1, <2>3, <2>4
  <1>2. CASE \E id \in Attempts : DeploySelected(p, id)
    <2>1. PICK id \in Attempts, newVM \in BOOLEAN :
             /\ recs[id] # None
             /\ recs[id].prov = Ssh => recs[id].host # None
             /\ newVM => SelectorNewVM
             /\ Begin(p, [project |-> recs[id].project, ident |-> recs[id].ident,
                          prov |-> recs[id].prov, host |-> recs[id].host, newVM |-> newVM])
      BY <1>2 DEF DeploySelected
    <2>2. recs[id] \in Record
      BY <2>1 DEF TypeOK, Stores
    <2> DEFINE req == [project |-> recs[id].project, ident |-> recs[id].ident,
                       prov |-> recs[id].prov, host |-> recs[id].host, newVM |-> newVM]
    <2>3. req \in Requests
      BY <2>2 DEF Requests, Record
    <2>4. FromRecord(req, recs[id])
      BY <2>1, <2>2 DEF FromRecord, OfApp
    <2> QED  BY <2>1, <2>3, <2>4
  <1> QED  BY <1>1, <1>2

LEMMA BeginTypes ==
    ASSUME TypeInv, NEW p \in Clis, NEW req \in Requests, Begin(p, req)
    PROVE  /\ TypeInv' /\ Others(p) /\ cli[p].pc = "idle" /\ attempts' = attempts + 1
           /\ attempts \in Nat /\ attempts + 1 \in Attempts
           /\ cli'[p] = [IdleCli EXCEPT !.pc = "decide", !.n = attempts + 1, !.req = req]
           /\ UNCHANGED <<destroys, recs, cloud, history>>
  <1> DEFINE c == [IdleCli EXCEPT !.pc = "decide", !.n = attempts + 1, !.req = req]
  <1>1. attempts \in Nat /\ attempts + 1 \in Attempts /\ attempts + 1 \in 0..MaxAttempts
    BY CommandBounds DEF TypeInv, TypeOK, Begin, Attempts
  <1>2. c \in Commands /\ c.pc = "decide" /\ c.n = attempts + 1
    BY <1>1, EmptyTypes DEF Commands, DeployPcs, IdleCli
  <1>3. cli' = [cli EXCEPT ![p] = c] /\ cli[p].pc = "idle" /\ attempts' = attempts + 1
        /\ UNCHANGED <<destroys, recs, cloud, history>>
    BY DEF Begin
  <1> HIDE DEF c
  <1>4. cli' \in [Clis -> Commands] /\ cli'[p] = c /\ Others(p)
    BY <1>2, <1>3, SetCliIs DEF TypeInv
  <1>5. TypeOK'
    BY <1>1, <1>3, <1>4 DEF TypeInv, TypeOK, cloud, history
  <1>6. InRangeOf(p)'
    BY <1>1, <1>2, <1>4 DEF InRangeOf, Deploying, Decided, Planned, DeployPcs, DestroyPcs
  <1>7. InRange'
    BY <1>4, <1>6, RangesOfOthers DEF TypeInv
  <1> QED  BY <1>1, <1>3, <1>4, <1>5, <1>7 DEF TypeInv, c

LEMMA StopTypes ==
    ASSUME TypeInv, NEW p \in Clis, Stop(p)
    PROVE  TypeInv' /\ Others(p) /\ cli'[p] = IdleCli
  <1>1. cli' \in [Clis -> Commands] /\ cli'[p] = IdleCli /\ Others(p)
    BY SetCliIs, EmptyTypes DEF TypeInv, Stop
  <1>2. InRangeOf(p)'
    BY <1>1 DEF InRangeOf, Deploying, Decided, Planned, DeployPcs, DestroyPcs, IdleCli
  <1>3. TypeOK'
    BY <1>1 DEF TypeInv, TypeOK, Stop, bounds, cloud, history
  <1> QED  BY <1>1, <1>2, <1>3, RangesOfOthers DEF TypeInv

\* What the box step decides.
Reuses(p) == DecideDeployBox(recs, cli[p].req).action = "reuse"
ReusedBox(p) == DecideDeployBox(recs, cli[p].req).box

LEMMA DecideIs ==
    ASSUME TypeInv, NEW p \in Clis, DecideBox(p)
    PROVE  /\ TypeInv' /\ Others(p) /\ UNCHANGED <<bounds, recs, cloud, history>>
           /\ cli[p].pc = "decide" /\ cli'[p].pc = "token"
           /\ cli'[p].seen = recs /\ cli'[p].n = cli[p].n /\ cli'[p].req = cli[p].req
           /\ DecideDeployBox(recs, cli[p].req).action # "fail"
           /\ cli'[p].box = IF Reuses(p) THEN ReusedBox(p) ELSE None
           /\ cli'[p].host = IF Reuses(p) THEN recs[ReusedBox(p)].host ELSE cli[p].req.host
           /\ cli'[p].boxAgent = PickBoxAgent(recs, cli'[p].host)
           /\ cli'[p].prior = PickPriorDeployment(recs, cli'[p].host, cli[p].req.ident)
           /\ cli'[p].prior # None => recs[cli'[p].prior].project \in {None, cli[p].req.project}
           /\ cli'[p].id = IF cli'[p].prior # None THEN cli'[p].prior
                           ELSE IF cli'[p].box # None THEN cli'[p].box ELSE cli[p].n
  <1> DEFINE host == IF Reuses(p) THEN recs[ReusedBox(p)].host ELSE cli[p].req.host
             prior == PickPriorDeployment(recs, host, cli[p].req.ident)
             boxAgent == PickBoxAgent(recs, host)
             box == IF Reuses(p) THEN ReusedBox(p) ELSE None
             id == CASE prior # None -> prior
                     [] prior = None /\ Reuses(p) -> ReusedBox(p)
                     [] OTHER -> cli[p].n
  <1>1. recs \in Stores /\ cli[p] \in Commands /\ cli[p].req \in Requests
    BY DEF TypeInv, TypeOK, Commands
  <1>2. Reuses(p) => /\ ReusedBox(p) \in Attempts /\ ReusedBox(p) # None
                     /\ ReusedBox(p) \in Recorded(recs) /\ recs[ReusedBox(p)] \in Record
    BY <1>1, DecisionIs DEF Reuses, ReusedBox, ManagedOf
  <1>3. host \in Boxes \cup {None}
    BY <1>1, <1>2 DEF Requests, Record
  <1>4. prior = None \/ (prior \in Attempts /\ recs[prior] # None)
    BY <1>1, PriorIs
  <1>5. boxAgent \in Attempts \cup {None}
    BY <1>1, BoxAgentIs
  <1>6. cli[p].pc = "decide" /\ cli[p].n \in Attempts
    BY DEF DecideBox, TypeInv, InRange, InRangeOf, Deploying, DeployPcs
  <1>15. id = IF prior # None THEN prior ELSE IF box # None THEN box ELSE cli[p].n
    <2> HIDE DEF prior
    <2> QED  BY <1>2
  <1>7. id \in Attempts /\ (box # None => box \in Attempts /\ recs[box] # None)
    BY <1>2, <1>4, <1>6, <1>15 DEF Recorded
  <1> DEFINE c == [cli[p] EXCEPT !.pc = "token", !.seen = recs, !.id = id, !.prior = prior,
                                 !.host = host, !.box = box, !.boxAgent = boxAgent]
  <1>8. /\ cli' = [cli EXCEPT ![p] = c] /\ UNCHANGED <<bounds, recs, cloud, history>>
        /\ prior # None => recs[prior].project \in {None, cli[p].req.project}
        /\ DecideDeployBox(recs, cli[p].req).action # "fail"
    <2>1. /\ cli' = [cli EXCEPT ![p].pc = "token", ![p].seen = recs, ![p].id = id,
                              ![p].prior = prior, ![p].host = host, ![p].box = box,
                              ![p].boxAgent = boxAgent]
          /\ UNCHANGED <<bounds, recs, cloud, history>>
          /\ prior # None => recs[prior].project \in {None, cli[p].req.project}
          /\ DecideDeployBox(recs, cli[p].req).action # "fail"
      BY DEF DecideBox, Reuses, ReusedBox
    <2> HIDE DEF host, prior, boxAgent, box, id
    <2>2. cli \in [Clis -> Commands]
      BY DEF TypeInv, TypeOK
    <2> QED  BY <2>1, <2>2
  <1> HIDE DEF host, prior, boxAgent, box, id
  <1>9. c \in Commands
    BY <1>1, <1>3, <1>4, <1>5, <1>7 DEF Commands, DeployPcs
  <1>10. /\ c.pc = "token" /\ c.seen = recs /\ c.id = id /\ c.prior = prior /\ c.host = host
         /\ c.box = box /\ c.boxAgent = boxAgent /\ c.n = cli[p].n /\ c.req = cli[p].req
    BY <1>1 DEF Commands
  <1> HIDE DEF c
  <1>11. cli' \in [Clis -> Commands] /\ cli'[p] = c /\ Others(p)
    BY <1>8, <1>9, SetCliIs DEF TypeInv
  <1>12. InRangeOf(p)'
    BY <1>4, <1>6, <1>7, <1>10, <1>11
       DEF InRangeOf, Deploying, Decided, Planned, DeployPcs, DestroyPcs
  <1>13. TypeOK'
    BY <1>8, <1>11 DEF TypeInv, TypeOK, bounds, cloud, history
  <1>14. TypeInv'
    BY <1>11, <1>12, <1>13, RangesOfOthers DEF TypeInv
  <1> QED  BY <1>6, <1>8, <1>10, <1>11, <1>14, <1>15 DEF host, prior, boxAgent, box

\* A command goes on with the plan it has.
Plan(p) == <<cli[p].n, cli[p].req, cli[p].seen, cli[p].id, cli[p].prior, cli[p].box, cli[p].host,
             cli[p].boxAgent>>

\* Stages after the plan was made; the pipeline's own go on to one another.
LEMMA GotoTypes ==
    ASSUME TypeInv, NEW p \in Clis, NEW pc \in DeployPcs \cup DestroyPcs, Goto(p, pc),
           Decided(p) \/ cli[p].pc \in DestroyPcs,
           pc \in DeployPcs => Decided(p), pc # "decide",
           pc \in {"token", "pending", "create", "created", "record"} => Planned(p),
           pc \in {"pending", "create", "created"} => Creates(p)
    PROVE  /\ cli' \in [Clis -> Commands] /\ InRange' /\ Others(p)
           /\ cli'[p].pc = pc /\ UNCHANGED Plan(p)
  <1>1. /\ cli' \in [Clis -> Commands] /\ Others(p) /\ cli'[p].pc = pc
        /\ cli'[p] = [cli[p] EXCEPT !.pc = pc]
    BY GotoIs DEF TypeInv
  <1>2. UNCHANGED Plan(p)
    BY <1>1 DEF TypeInv, TypeOK, Commands, Plan
  <1>3. InRangeOf(p)
    BY DEF TypeInv, InRange
  <1>4. InRangeOf(p)'
    BY <1>1, <1>2, <1>3
       DEF InRangeOf, Deploying, Decided, Planned, Creates, Plan, DeployPcs, DestroyPcs
  <1> QED  BY <1>1, <1>2, <1>4, RangesOfOthers DEF TypeInv

LEMMA IssueTokenIs ==
    ASSUME TypeInv, NEW p \in Clis, IssueToken(p)
    PROVE  /\ TypeInv' /\ Others(p) /\ UNCHANGED <<bounds, recs, cloud, history, Plan(p)>>
           /\ cli[p].pc = "token" /\ cli'[p].existing = registered
           /\ cli'[p].pc = IF Creates(p) THEN "pending" ELSE "record"
  <1> DEFINE c == [cli[p] EXCEPT !.existing = registered,
                                 !.pc = IF Creates(p) THEN "pending" ELSE "record"]
  <1>1. /\ cli' = [cli EXCEPT ![p] = c] /\ cli[p].pc = "token"
        /\ UNCHANGED <<bounds, recs, cloud, history>>
    BY DEF IssueToken, Creates, TypeInv, TypeOK
  <1>2. /\ c \in Commands /\ c.existing = registered
        /\ c.pc = (IF Creates(p) THEN "pending" ELSE "record")
        /\ c.n = cli[p].n /\ c.req = cli[p].req /\ c.seen = cli[p].seen /\ c.id = cli[p].id
        /\ c.prior = cli[p].prior /\ c.box = cli[p].box /\ c.host = cli[p].host
        /\ c.boxAgent = cli[p].boxAgent
    BY DEF TypeInv, TypeOK, Commands, DeployPcs
  <1> HIDE DEF c
  <1>3. cli' \in [Clis -> Commands] /\ cli'[p] = c /\ Others(p)
    BY <1>1, <1>2, SetCliIs DEF TypeInv
  <1>4. UNCHANGED Plan(p)
    BY <1>2, <1>3 DEF Plan
  <1>5. InRangeOf(p)
    BY DEF TypeInv, InRange
  <1>6. InRangeOf(p)'
    BY <1>1, <1>2, <1>3, <1>5
       DEF InRangeOf, Deploying, Decided, Planned, Creates, DeployPcs, DestroyPcs
  <1>7. TypeOK'
    BY <1>1, <1>3 DEF TypeInv, TypeOK, bounds, cloud, history
  <1> QED  BY <1>1, <1>2, <1>3, <1>4, <1>6, <1>7, RangesOfOthers DEF TypeInv

LEMMA PendingIs ==
    ASSUME TypeInv, NEW p \in Clis, PendingRecord(p)
    PROVE  /\ TypeInv' /\ Others(p) /\ UNCHANGED <<bounds, cloud, history, Plan(p)>>
           /\ cli[p].pc = "pending" /\ cli'[p].pc = "create" /\ cli[p].id \in Attempts
           /\ Mutate(cli[p].id,
                [Loaded(cli[p].id) EXCEPT
                 !.prov = cli[p].req.prov, !.rname = cli[p].n,
                 !.provisioning = TRUE, !.ident = cli[p].req.ident,
                 !.project = cli[p].req.project, !.created = Now,
                 !.step = "pending_recorded"])
           /\ recs' \in Stores /\ Loaded(cli[p].id) \in Record
  <1> DEFINE rec == [Loaded(cli[p].id) EXCEPT
                 !.prov = cli[p].req.prov, !.rname = cli[p].n,
                 !.provisioning = TRUE, !.ident = cli[p].req.ident,
                 !.project = cli[p].req.project, !.created = Now,
                 !.step = "pending_recorded"]
  <1>1. /\ cli[p].pc = "pending" /\ Goto(p, "create") /\ Mutate(cli[p].id, rec)
        /\ UNCHANGED <<bounds, cloud, history>>
    BY DEF PendingRecord
  <1>2. cli[p].id \in Attempts /\ cli[p].n \in Attempts /\ Creates(p)
    BY <1>1 DEF TypeInv, InRange, InRangeOf, Decided, Deploying, DeployPcs
  <1>3. Loaded(cli[p].id) \in Record
    BY <1>2, LoadedIs DEF TypeInv
  <1>4. rec \in Record
    BY <1>2, <1>3, NowIsNumber DEF TypeInv, TypeOK, Commands, Requests, Record, Checkpoints
  <1>5. /\ cli' \in [Clis -> Commands] /\ InRange' /\ Others(p)
        /\ cli'[p].pc = "create" /\ UNCHANGED Plan(p)
    BY <1>1, <1>2, GotoTypes DEF Decided, Planned, DeployPcs
  <1>6. recs' \in Stores
    BY <1>1, <1>2, <1>4, MutateIs DEF TypeInv
  <1>7. TypeOK'
    BY <1>1, <1>5, <1>6 DEF TypeInv, TypeOK, bounds, cloud, history
  <1> QED  BY <1>1, <1>2, <1>3, <1>5, <1>6, <1>7 DEF TypeInv

LEMMA CreateIs ==
    ASSUME TypeInv, NEW p \in Clis, CreateVM(p)
    PROVE  /\ TypeInv' /\ Others(p) /\ UNCHANGED <<bounds, recs, paired, registered, history, Plan(p)>>
           /\ cli[p].pc = "create" /\ cli'[p].pc = "created" /\ vms' = vms \cup {NewVM(p)}
  <1>1. /\ cli[p].pc = "create" /\ Goto(p, "created") /\ vms' = vms \cup {NewVM(p)}
        /\ UNCHANGED <<bounds, recs, paired, registered, history>>
    BY DEF CreateVM, NewVM
  <1>2. cli[p].n \in Attempts /\ Creates(p)
    BY <1>1 DEF TypeInv, InRange, InRangeOf, Deploying, DeployPcs
  <1>3. NewVM(p) \in VMs
    BY <1>2 DEF TypeInv, TypeOK, Commands, Requests, NewVM, VMs
  <1>4. /\ cli' \in [Clis -> Commands] /\ InRange' /\ Others(p)
        /\ cli'[p].pc = "created" /\ UNCHANGED Plan(p)
    BY <1>1, <1>2, GotoTypes DEF Decided, Planned, DeployPcs
  <1>5. TypeOK'
    BY <1>1, <1>3, <1>4 DEF TypeInv, TypeOK, bounds, history
  <1> QED  BY <1>1, <1>4, <1>5 DEF TypeInv

LEMMA InstanceIs ==
    ASSUME TypeInv, NEW p \in Clis, InstanceCreated(p)
    PROVE  /\ TypeInv' /\ Others(p) /\ UNCHANGED <<bounds, cloud, history, Plan(p)>>
           /\ cli[p].pc = "created" /\ cli'[p].pc = "record" /\ cli[p].id \in Attempts
           /\ Loaded(cli[p].id) \in Record
           /\ \/ UNCHANGED recs
              \/ \E host \in {cli[p].n, Loaded(cli[p].id).host} :
                    Mutate(cli[p].id, [Loaded(cli[p].id) EXCEPT
                             !.iid = cli[p].n, !.host = host, !.step = "instance_created"])
  <1>1. /\ cli[p].pc = "created" /\ Goto(p, "record") /\ UNCHANGED <<bounds, cloud, history>>
        /\ \/ UNCHANGED recs
           \/ \E host \in {cli[p].n, Loaded(cli[p].id).host} :
                 Mutate(cli[p].id, [Loaded(cli[p].id) EXCEPT
                          !.iid = cli[p].n, !.host = host, !.step = "instance_created"])
    BY DEF InstanceCreated
  <1>2. cli[p].id \in Attempts /\ cli[p].n \in Attempts
    BY <1>1 DEF TypeInv, InRange, InRangeOf, Decided, Deploying, DeployPcs
  <1>3. Loaded(cli[p].id) \in Record
    BY <1>2, LoadedIs DEF TypeInv
  <1>4. recs' \in Stores
    <2>1. ASSUME NEW host \in {cli[p].n, Loaded(cli[p].id).host},
                 Mutate(cli[p].id, [Loaded(cli[p].id) EXCEPT
                          !.iid = cli[p].n, !.host = host, !.step = "instance_created"])
          PROVE  recs' \in Stores
      <3> DEFINE rec == [Loaded(cli[p].id) EXCEPT
                          !.iid = cli[p].n, !.host = host, !.step = "instance_created"]
      <3>1. rec \in Record
        BY <1>2, <1>3, <2>1 DEF Record, Checkpoints, Boxes
      <3> QED  BY <1>2, <2>1, <3>1, MutateIs DEF TypeInv
    <2> QED  BY <1>1, <2>1 DEF TypeInv, TypeOK
  <1>5. /\ cli' \in [Clis -> Commands] /\ InRange' /\ Others(p)
        /\ cli'[p].pc = "record" /\ UNCHANGED Plan(p)
    BY <1>1, GotoTypes DEF Decided, Planned, DeployPcs
  <1>6. TypeOK'
    BY <1>1, <1>4, <1>5 DEF TypeInv, TypeOK, bounds, cloud, history
  <1> QED  BY <1>1, <1>2, <1>3, <1>5, <1>6 DEF TypeInv

\* An Ssh deploy over an earlier record of a VM keeps the record's handles.
Carries(p) ==
    LET prior == cli[p].seen[cli[p].prior]
    IN  /\ cli[p].prior # None /\ ~CreatesInfrastructure(cli[p].req.prov)
        /\ CreatesInfrastructure(prior.prov) /\ (prior.iid # None \/ prior.rname # None)

\* What RecordBox writes.
BoxRecord(p, w) ==
    LET c == cli[p]
        prior == c.seen[c.prior]
        box == c.seen[c.box]
    IN  /\ w \in Record /\ ~w.provisioning /\ w.host = Target(p) /\ w.step = "box_recorded"
        /\ w.ident = c.req.ident /\ w.project = c.req.project /\ w.conn # None
        /\ w.agent = KnownAgent(c.seen, c.prior, c.boxAgent, c.box)
        /\ IF Carries(p) THEN w.prov = prior.prov /\ w.iid = prior.iid /\ w.rname = prior.rname
           ELSE /\ w.prov = c.req.prov
                /\ w.iid   = IF Creates(p) THEN c.n ELSE IF c.box # None THEN box.iid ELSE None
                /\ w.rname = IF Creates(p) THEN c.n ELSE IF c.box # None THEN box.rname ELSE None

LEMMA RecordIs ==
    ASSUME TypeInv, NEW p \in Clis, RecordBox(p)
    PROVE  /\ TypeInv' /\ Others(p) /\ UNCHANGED <<bounds, cloud, history>>
           /\ cli[p].pc = "record" /\ cli'[p].pc = "bootstrap" /\ cli'[p].seen = NoRecs
           /\ cli'[p].n = cli[p].n /\ cli'[p].req = cli[p].req /\ cli'[p].id = cli[p].id
           /\ cli'[p].box = cli[p].box /\ cli'[p].host = cli[p].host
           /\ cli'[p].boxAgent = cli[p].boxAgent /\ cli'[p].existing = cli[p].existing
           /\ BoxUp(Target(p)) /\ cli[p].id \in Attempts /\ Target(p) \in Boxes
           /\ \E w : BoxRecord(p, w) /\ Mutate(cli[p].id, w)
  <1> DEFINE c == cli[p]
             seen == c.seen
             new == CreatesInfrastructure(c.req.prov) /\ c.box = None
             conn == FirstNonEmpty(IF c.prior = None THEN None ELSE seen[c.prior].conn, c.n)
             agent == KnownAgent(seen, c.prior, c.boxAgent, c.box)
             iid == IF new THEN c.n ELSE IF c.box # None THEN seen[c.box].iid ELSE None
             rname == IF new THEN c.n ELSE IF c.box # None THEN seen[c.box].rname ELSE None
             rec == [Loaded(c.id) EXCEPT
                       !.prov = c.req.prov, !.provisioning = FALSE, !.host = Target(p),
                       !.iid = iid, !.rname = rname, !.ident = c.req.ident,
                       !.project = c.req.project, !.conn = conn, !.agent = agent,
                       !.step = "box_recorded"]
             w == CASE c.prior # None ->
                         [CarryForwardProvisioning(rec, seen[c.prior], c.req.prov)
                            EXCEPT !.created = seen[c.prior].created]
                    [] c.prior = None /\ c.box # None -> [rec EXCEPT !.created = seen[c.box].created]
                    [] OTHER -> [rec EXCEPT !.created = Now]
  <1>1. /\ c.pc = "record" /\ BoxUp(Target(p)) /\ Mutate(c.id, w)
        /\ cli' = [cli EXCEPT ![p].pc = "bootstrap", ![p].seen = NoRecs]
        /\ UNCHANGED <<bounds, cloud, history>>
    BY DEF RecordBox
  <1>2. /\ c \in Commands /\ seen \in Stores /\ c.req \in Requests /\ c.n \in Attempts
        /\ c.id \in Attempts /\ Loaded(c.id) \in Record
        /\ c.box # None => c.box \in Attempts /\ seen[c.box] \in Record
        /\ c.prior # None => c.prior \in Attempts /\ seen[c.prior] \in Record
        /\ c.boxAgent \in Attempts \cup {None}
    <2>1. InRangeOf(p) /\ c \in Commands
      BY DEF TypeInv, TypeOK, InRange
    <2>2. Planned(p) /\ Decided(p) /\ Deploying(p)
      BY <1>1 DEF Planned, Decided, Deploying, DeployPcs
    <2>3. c.id \in Attempts /\ Loaded(c.id) \in Record
      BY <2>1, <2>2, LoadedIs DEF InRangeOf, TypeInv
    <2> QED  BY <2>1, <2>2, <2>3 DEF InRangeOf, Commands, Stores
  <1>3. Target(p) \in Boxes
    BY <1>1 DEF BoxUp, Boxes, Running, TypeInv, TypeOK, VMs
  <1>4. /\ conn \in Attempts /\ agent \in Attempts \cup {None}
        /\ iid \in Attempts \cup {None} /\ rname \in Attempts \cup {None}
    BY <1>2 DEF FirstNonEmpty, KnownAgent, Record
  <1> HIDE DEF conn, agent, iid, rname
  <1>5. /\ rec \in Record /\ ~rec.provisioning /\ rec.host = Target(p) /\ rec.step = "box_recorded"
        /\ rec.ident = c.req.ident /\ rec.project = c.req.project /\ rec.conn = conn
        /\ rec.agent = agent /\ rec.prov = c.req.prov /\ rec.iid = iid /\ rec.rname = rname
    <2> DEFINE old == Loaded(c.id)
    <2>1. /\ c.req.prov \in Managed \cup {Ssh, None} /\ c.req.ident \in Idents \cup {None}
          /\ c.req.project \in Projects \cup {None} /\ "box_recorded" \in Checkpoints
      BY <1>2 DEF Requests, Checkpoints
    <2>2. old \in Record
      BY <1>2
    <2> HIDE DEF old
    <2>3. rec = [old EXCEPT !.prov = c.req.prov, !.provisioning = FALSE, !.host = Target(p),
                       !.iid = iid, !.rname = rname, !.ident = c.req.ident,
                       !.project = c.req.project, !.conn = conn, !.agent = agent,
                       !.step = "box_recorded"]
      BY DEF old
    <2> HIDE DEF rec, c
    <2> QED  BY <1>3, <1>4, <2>1, <2>2, <2>3 DEF Record
  <1> HIDE DEF rec
  <1>6. BoxRecord(p, w)
    <2>1. conn # None
      BY <1>4, NoneIsNoId
    <2>2. CASE c.prior # None /\ Carries(p)
      <3>1. w = [rec EXCEPT !.prov = seen[c.prior].prov, !.iid = seen[c.prior].iid,
                            !.rname = seen[c.prior].rname, !.created = seen[c.prior].created]
        BY <2>2 DEF Carries, CarryForwardProvisioning
      <3> HIDE DEF w
      <3> QED  BY <1>2, <1>5, <2>1, <2>2, <3>1 DEF BoxRecord, Record, agent
    <2>3. CASE ~Carries(p)
      <3>1. \E t \in Nat : w = [rec EXCEPT !.created = t]
        <4>1. Now \in Nat
          BY NowIsNumber DEF TypeInv
        <4>2. CASE c.prior # None
          <5>1. w = [rec EXCEPT !.created = seen[c.prior].created]
            BY <2>3, <4>2 DEF Carries, CarryForwardProvisioning
          <5> QED  BY <1>2, <4>2, <5>1 DEF Record
        <4>3. CASE c.prior = None /\ c.box # None
          BY <1>2, <4>3 DEF Record
        <4>4. CASE c.prior = None /\ c.box = None
          BY <4>1, <4>4
        <4> QED  BY <4>2, <4>3, <4>4
      <3> HIDE DEF w
      <3>2. PICK t \in Nat : w = [rec EXCEPT !.created = t]
        BY <3>1
      <3>3. /\ w \in Record /\ w.prov = rec.prov /\ w.iid = rec.iid /\ w.rname = rec.rname
            /\ w.provisioning = rec.provisioning /\ w.host = rec.host /\ w.step = rec.step
            /\ w.ident = rec.ident /\ w.project = rec.project /\ w.conn = rec.conn
            /\ w.agent = rec.agent
        BY <1>5, <3>2 DEF Record
      <3> QED  BY <1>5, <2>1, <2>3, <3>3 DEF BoxRecord, agent, iid, rname, Creates
    <2> QED  BY <2>2, <2>3 DEF Carries
  <1> HIDE DEF w
  <1>7. w \in Record
    BY <1>6 DEF BoxRecord
  <1>8. recs' \in Stores
    BY <1>1, <1>2, <1>7, MutateIs DEF TypeInv
  <1>9. /\ cli' \in [Clis -> Commands] /\ Others(p) /\ cli'[p].pc = "bootstrap"
        /\ cli'[p] = [c EXCEPT !.pc = "bootstrap", !.seen = NoRecs]
    <2> DEFINE d == [c EXCEPT !.pc = "bootstrap", !.seen = NoRecs]
    <2>1. d \in Commands /\ d.pc = "bootstrap"
      BY <1>2, EmptyTypes DEF Commands, DeployPcs
    <2>2. cli' = [cli EXCEPT ![p] = d]
      BY <1>1 DEF TypeInv, TypeOK
    <2> HIDE DEF d
    <2>3. cli' \in [Clis -> Commands] /\ cli'[p] = d /\ Others(p)
      BY <2>1, <2>2, SetCliIs DEF TypeInv
    <2> QED  BY <2>1, <2>3 DEF d
  <1>10. /\ cli'[p].seen = NoRecs
         /\ cli'[p].n = c.n /\ cli'[p].req = c.req /\ cli'[p].id = c.id
         /\ cli'[p].box = c.box /\ cli'[p].host = c.host
         /\ cli'[p].boxAgent = c.boxAgent /\ cli'[p].existing = c.existing
    BY <1>2, <1>9 DEF Commands
  <1>11. InRangeOf(p)'
    BY <1>2, <1>9, <1>10
       DEF InRangeOf, Deploying, Decided, Planned, Creates, DeployPcs, DestroyPcs
  <1>12. TypeOK'
    BY <1>1, <1>8, <1>9 DEF TypeInv, TypeOK, bounds, cloud, history
  <1>13. TypeInv'
    BY <1>9, <1>11, <1>12, RangesOfOthers DEF TypeInv
  <1> QED  BY <1>1, <1>2, <1>3, <1>6, <1>9, <1>10, <1>13

LEMMA BootstrapIs ==
    ASSUME TypeInv, NEW p \in Clis, Bootstrap(p)
    PROVE  /\ TypeInv' /\ Others(p) /\ UNCHANGED <<bounds, recs, vms, history, Plan(p)>>
           /\ cli[p].pc = "bootstrap" /\ cli'[p].pc = "agent"
           /\ cli'[p].existing = cli[p].existing
           /\ BoxUp(Target(p)) /\ Target(p) \in Boxes /\ cli[p].n \in Attempts
           /\ \/ paired[Target(p)] # None /\ UNCHANGED <<paired, registered>>
              \/ /\ paired[Target(p)] = None /\ paired' = [paired EXCEPT ![Target(p)] = cli[p].n]
                 /\ registered' = registered \cup {cli[p].n}
  <1>1. /\ cli[p].pc = "bootstrap" /\ Goto(p, "agent") /\ UNCHANGED <<bounds, recs, vms, history>>
        /\ BoxUp(Target(p))
        /\ \/ paired[Target(p)] # None /\ UNCHANGED <<paired, registered>>
           \/ /\ paired[Target(p)] = None /\ paired' = [paired EXCEPT ![Target(p)] = cli[p].n]
              /\ registered' = registered \cup {cli[p].n}
    BY DEF Bootstrap
  <1>2. Target(p) \in Boxes
    BY <1>1 DEF BoxUp, Boxes, Running, TypeInv, TypeOK, VMs
  <1>3. cli[p].n \in Attempts
    BY <1>1 DEF TypeInv, InRange, InRangeOf, Deploying, DeployPcs
  <1>4. /\ cli' \in [Clis -> Commands] /\ InRange' /\ Others(p)
        /\ cli'[p].pc = "agent" /\ UNCHANGED Plan(p)
    BY <1>1, GotoTypes DEF Decided, DeployPcs
  <1>5. TypeOK'
    BY <1>1, <1>2, <1>3, <1>4 DEF TypeInv, TypeOK, bounds, history
  <1>6. cli'[p].existing = cli[p].existing
    BY <1>1, GotoIs DEF DeployPcs, TypeInv, TypeOK, Commands
  <1> QED  BY <1>1, <1>2, <1>3, <1>4, <1>5, <1>6 DEF TypeInv

LEMMA WaitIs ==
    ASSUME TypeInv, NEW p \in Clis, WaitAgent(p)
    PROVE  /\ TypeInv' /\ Others(p) /\ UNCHANGED <<bounds, cloud, history, Plan(p)>>
           /\ cli[p].pc = "agent" /\ cli'[p].pc = "finalize" /\ cli[p].id \in Attempts
           /\ Loaded(cli[p].id) \in Record
           /\ cli'[p].agent \in Attempts
           /\ cli'[p].agent \in IF cli[p].boxAgent # None THEN {cli[p].boxAgent} ELSE NewAgents(p)
           /\ \/ UNCHANGED recs
              \/ Mutate(cli[p].id, [Loaded(cli[p].id) EXCEPT
                                      !.agent = cli'[p].agent, !.step = "agent_paired"])
  <1>1. PICK a \in IF cli[p].boxAgent # None THEN {cli[p].boxAgent} ELSE NewAgents(p) :
          /\ cli' = [cli EXCEPT ![p].pc = "finalize", ![p].agent = a]
          /\ \/ Mutate(cli[p].id, [Loaded(cli[p].id) EXCEPT
                                     !.agent = a, !.step = "agent_paired"])
             \/ UNCHANGED recs
    BY DEF WaitAgent
  <1>2. cli[p].pc = "agent" /\ UNCHANGED <<bounds, cloud, history>>
    BY DEF WaitAgent
  <1>3. cli[p] \in Commands /\ cli[p].id \in Attempts /\ cli[p].n \in Attempts
    BY <1>2 DEF TypeInv, TypeOK, InRange, InRangeOf, Decided, Deploying, DeployPcs
  <1>4. a \in Attempts
    BY <1>1, <1>3 DEF TypeInv, TypeOK, NewAgents, Commands
  <1>5. Loaded(cli[p].id) \in Record
    BY <1>3, LoadedIs DEF TypeInv
  <1>6. recs' \in Stores
    <2> DEFINE rec == [Loaded(cli[p].id) EXCEPT !.agent = a, !.step = "agent_paired"]
    <2>1. rec \in Record
      BY <1>4, <1>5 DEF Record, Checkpoints
    <2> QED  BY <1>1, <1>3, <2>1, MutateIs DEF TypeInv, TypeOK
  <1> DEFINE d == [cli[p] EXCEPT !.pc = "finalize", !.agent = a]
  <1>7. /\ d \in Commands /\ d.pc = "finalize" /\ d.agent = a /\ d.n = cli[p].n /\ d.req = cli[p].req
        /\ d.seen = cli[p].seen /\ d.id = cli[p].id /\ d.prior = cli[p].prior /\ d.box = cli[p].box
        /\ d.host = cli[p].host /\ d.boxAgent = cli[p].boxAgent
    BY <1>3, <1>4 DEF Commands, DeployPcs
  <1>8. cli' = [cli EXCEPT ![p] = d]
    BY <1>1 DEF TypeInv, TypeOK
  <1> HIDE DEF d
  <1>9. cli' \in [Clis -> Commands] /\ cli'[p] = d /\ Others(p)
    BY <1>7, <1>8, SetCliIs DEF TypeInv
  <1>10. InRangeOf(p)'
    BY <1>3, <1>7, <1>9
       DEF InRangeOf, Deploying, Decided, Planned, Creates, DeployPcs, DestroyPcs
  <1>11. TypeOK'
    BY <1>2, <1>6, <1>9 DEF TypeInv, TypeOK, bounds, cloud, history
  <1>12. TypeInv' /\ UNCHANGED Plan(p)
    BY <1>7, <1>9, <1>10, <1>11, RangesOfOthers DEF TypeInv, Plan
  <1> QED  BY <1>1, <1>2, <1>3, <1>4, <1>5, <1>7, <1>9, <1>12

LEMMA FinalizeIs ==
    ASSUME TypeInv, NEW p \in Clis, FinalizeRecord(p)
    PROVE  /\ TypeInv' /\ Others(p) /\ UNCHANGED <<bounds, cloud, history>>
           /\ cli[p].pc = "finalize" /\ cli'[p] = IdleCli /\ cli[p].id \in Attempts
           /\ Loaded(cli[p].id) \in Record
           /\ Mutate(cli[p].id, [Loaded(cli[p].id) EXCEPT
                                   !.agent = cli[p].agent, !.step = "finalized"])
  <1> DEFINE rec == [Loaded(cli[p].id) EXCEPT !.agent = cli[p].agent, !.step = "finalized"]
  <1>1. /\ cli[p].pc = "finalize" /\ Mutate(cli[p].id, rec) /\ cli' = [cli EXCEPT ![p] = IdleCli]
        /\ UNCHANGED <<bounds, cloud, history>>
    BY DEF FinalizeRecord
  <1>2. cli[p] \in Commands /\ cli[p].id \in Attempts
    BY <1>1 DEF TypeInv, TypeOK, InRange, InRangeOf, Decided, DeployPcs
  <1>3. Loaded(cli[p].id) \in Record
    BY <1>2, LoadedIs DEF TypeInv
  <1>4. rec \in Record
    <2>1. cli[p].agent \in Attempts \cup {None} /\ "finalized" \in Checkpoints
      BY <1>2 DEF Commands, Checkpoints
    <2> QED  BY <1>3, <2>1 DEF Record
  <1>5. recs' \in Stores
    BY <1>1, <1>2, <1>4, MutateIs DEF TypeInv
  <1>6. cli' \in [Clis -> Commands] /\ cli'[p] = IdleCli /\ Others(p)
    BY <1>1, EmptyTypes, SetCliIs DEF TypeInv
  <1>7. InRangeOf(p)'
    BY <1>6 DEF InRangeOf, Deploying, Decided, Planned, DeployPcs, DestroyPcs, IdleCli
  <1>8. TypeOK'
    BY <1>1, <1>5, <1>6 DEF TypeInv, TypeOK, bounds, cloud, history
  <1> QED  BY <1>1, <1>2, <1>3, <1>6, <1>7, <1>8, RangesOfOthers DEF TypeInv

LEMMA DestroyIs ==
    ASSUME TypeInv, NEW p \in Clis, NEW id \in Attempts, Destroy(p, id)
    PROVE  /\ TypeInv' /\ Others(p) /\ UNCHANGED <<attempts, recs, cloud, history>>
           /\ cli[p].pc = "idle" /\ destroys < MaxDestroys /\ destroys' = destroys + 1
           /\ cli'[p] = [IdleCli EXCEPT !.pc = "list", !.id = id, !.dep = recs[id]]
           /\ recs[id] # None /\ recs[id] \in Record
  <1> DEFINE d == [IdleCli EXCEPT !.pc = "list", !.id = id, !.dep = recs[id]]
  <1>1. /\ cli' = [cli EXCEPT ![p] = d] /\ UNCHANGED <<attempts, recs, cloud, history>>
        /\ recs[id] # None /\ cli[p].pc = "idle"
        /\ destroys < MaxDestroys /\ destroys' = destroys + 1
    BY DEF Destroy
  <1>2. recs[id] \in Record
    BY <1>1 DEF TypeInv, TypeOK, Stores
  <1>3. d \in Commands /\ d.pc = "list" /\ d.id = id
    BY <1>2, EmptyTypes DEF Commands, DestroyPcs, IdleCli
  <1> HIDE DEF d
  <1>4. cli' \in [Clis -> Commands] /\ cli'[p] = d /\ Others(p)
    BY <1>1, <1>3, SetCliIs DEF TypeInv
  <1>5. InRangeOf(p)'
    BY <1>3, <1>4 DEF InRangeOf, Deploying, Decided, Planned, DeployPcs, DestroyPcs
  <1>6. TypeOK'
    BY <1>1, <1>4, CommandBounds DEF TypeInv, TypeOK, cloud, history
  <1>7. TypeInv'
    BY <1>4, <1>5, <1>6, RangesOfOthers DEF TypeInv
  <1> QED  BY <1>1, <1>2, <1>4, <1>7 DEF d

LEMMA ListIs ==
    ASSUME TypeInv, NEW p \in Clis, ListDeployments(p)
    PROVE  /\ TypeInv' /\ Others(p) /\ UNCHANGED <<bounds, recs, cloud, history>>
           /\ cli[p].pc = "list" /\ cli'[p].pc = "teardown"
           /\ UNCHANGED <<cli[p].seen, cli[p].id, cli[p].dep>>
           /\ cli'[p].last = IsLast(recs, cli[p].id, cli[p].dep.host)
           /\ cli'[p].agent = FirstNonEmpty(cli[p].dep.agent, PickBoxAgent(recs, cli[p].dep.host))
  <1> DEFINE last == IsLast(recs, cli[p].id, cli[p].dep.host)
             agent == FirstNonEmpty(cli[p].dep.agent, PickBoxAgent(recs, cli[p].dep.host))
             d == [cli[p] EXCEPT !.pc = "teardown", !.last = last, !.agent = agent]
  <1>1. cli[p] \in Commands /\ cli[p].dep \in Record /\ recs \in Stores
    BY DEF TypeInv, TypeOK, Commands
  <1>2. last \in BOOLEAN /\ agent \in Attempts \cup {None}
    BY <1>1, BoxAgentIs DEF IsLast, FirstNonEmpty, Record
  <1>3. /\ cli' = [cli EXCEPT ![p].pc = "teardown", ![p].last = last, ![p].agent = agent]
        /\ cli[p].pc = "list" /\ UNCHANGED <<bounds, recs, cloud, history>>
    BY DEF ListDeployments
  <1> HIDE DEF last, agent
  <1>4. cli' = [cli EXCEPT ![p] = d]
    BY <1>3 DEF TypeInv, TypeOK
  <1>5. /\ d \in Commands /\ d.pc = "teardown" /\ d.last = last /\ d.agent = agent
        /\ d.seen = cli[p].seen /\ d.id = cli[p].id /\ d.dep = cli[p].dep
    <2>1. d \in Commands
      BY <1>1, <1>2 DEF Commands, DestroyPcs
    <2>2. /\ d.pc = "teardown" /\ d.agent = agent
          /\ d.seen = cli[p].seen /\ d.id = cli[p].id /\ d.dep = cli[p].dep
      BY <1>1 DEF Commands
    <2>3. d.last = last
      BY <1>1, <1>2 DEF Commands
    <2> QED  BY <2>1, <2>2, <2>3
  <1> HIDE DEF d
  <1>6. cli' \in [Clis -> Commands] /\ cli'[p] = d /\ Others(p)
    BY <1>4, <1>5, SetCliIs DEF TypeInv
  <1>7. InRangeOf(p) /\ InRangeOf(p)'
    BY <1>3, <1>5, <1>6 DEF TypeInv, InRange, InRangeOf, Deploying, Decided, Planned, DeployPcs,
       DestroyPcs
  <1>8. TypeOK'
    BY <1>3, <1>6 DEF TypeInv, TypeOK, bounds, cloud, history
  <1>9. TypeInv'
    BY <1>6, <1>7, <1>8, RangesOfOthers DEF TypeInv
  <1> QED  BY <1>3, <1>5, <1>6, <1>9 DEF last, agent

LEMMA DestroyGoesOn ==
    ASSUME TypeInv, NEW p \in Clis, NEW pc \in {"revoke", "vm", "remove"}, Goto(p, pc),
           cli[p].pc \in DestroyPcs
    PROVE  /\ cli' \in [Clis -> Commands] /\ InRange' /\ Others(p) /\ cli'[p].pc = pc
           /\ UNCHANGED <<cli[p].seen, cli[p].id, cli[p].dep, cli[p].last, cli[p].agent>>
  <1>1. cli'[p] = [cli[p] EXCEPT !.pc = pc]
    BY GotoIs DEF TypeInv, DestroyPcs
  <1>2. UNCHANGED <<cli[p].seen, cli[p].id, cli[p].dep, cli[p].last, cli[p].agent>>
    BY <1>1 DEF TypeInv, TypeOK, Commands
  <1> QED  BY <1>2, GotoTypes DEF Decided, Planned, DeployPcs, DestroyPcs

LEMMA TeardownIs ==
    ASSUME TypeInv, NEW p \in Clis, Teardown(p)
    PROVE  /\ TypeInv' /\ Others(p) /\ UNCHANGED <<bounds, recs, vms, registered, history>>
           /\ cli[p].pc = "teardown" /\ cli'[p].pc = "revoke"
           /\ UNCHANGED <<cli[p].seen, cli[p].id, cli[p].dep, cli[p].last, cli[p].agent>>
  <1>1. /\ cli[p].pc = "teardown" /\ Goto(p, "revoke")
        /\ UNCHANGED <<bounds, recs, vms, registered, history>>
        /\ paired' = paired \/ \E b : paired' = [paired EXCEPT ![b] = None]
    BY DEF Teardown
  <1>2. /\ cli' \in [Clis -> Commands] /\ InRange' /\ Others(p) /\ cli'[p].pc = "revoke"
        /\ UNCHANGED <<cli[p].seen, cli[p].id, cli[p].dep, cli[p].last, cli[p].agent>>
    BY <1>1, DestroyGoesOn DEF DestroyPcs
  <1>3. TypeOK'
    BY <1>1, <1>2 DEF TypeInv, TypeOK, bounds, history
  <1> QED  BY <1>1, <1>2, <1>3 DEF TypeInv

LEMMA RevokeIs ==
    ASSUME TypeInv, NEW p \in Clis, RevokeAgent(p)
    PROVE  /\ TypeInv' /\ Others(p) /\ UNCHANGED <<bounds, recs, vms, paired, history>>
           /\ cli[p].pc = "revoke" /\ cli'[p].pc = "vm"
           /\ UNCHANGED <<cli[p].seen, cli[p].id, cli[p].dep, cli[p].last, cli[p].agent>>
           /\ UNCHANGED registered \/ (cli[p].last /\ registered' = registered \ {cli[p].agent})
  <1>1. /\ cli[p].pc = "revoke" /\ Goto(p, "vm") /\ UNCHANGED <<bounds, recs, vms, paired, history>>
        /\ UNCHANGED registered \/ (cli[p].last /\ registered' = registered \ {cli[p].agent})
    BY DEF RevokeAgent
  <1>2. /\ cli' \in [Clis -> Commands] /\ InRange' /\ Others(p) /\ cli'[p].pc = "vm"
        /\ UNCHANGED <<cli[p].seen, cli[p].id, cli[p].dep, cli[p].last, cli[p].agent>>
    BY <1>1, DestroyGoesOn DEF DestroyPcs
  <1>3. TypeOK'
    BY <1>1, <1>2 DEF TypeInv, TypeOK, bounds, history
  <1> QED  BY <1>1, <1>2, <1>3 DEF TypeInv

LEMMA DeleteIs ==
    ASSUME TypeInv, NEW p \in Clis, DeleteVM(p)
    PROVE  /\ TypeInv' /\ Others(p) /\ UNCHANGED <<bounds, recs, registered, asked>>
           /\ cli[p].pc = "vm" /\ cli'[p].pc = "remove" /\ vms' \subseteq vms
           /\ UNCHANGED <<cli[p].seen, cli[p].id, cli[p].dep, cli[p].last, cli[p].agent>>
  <1> DEFINE n == FirstNonEmpty(cli[p].dep.iid, cli[p].dep.rname)
             gone(b) == \E vm \in vms : vm.name = n /\ vm.prov = cli[p].dep.prov /\ vm.name = b
  <1>1. /\ cli[p].pc = "vm" /\ Goto(p, "remove") /\ UNCHANGED <<bounds, recs, registered, asked>>
    BY DEF DeleteVM
  <1>2. vms' \subseteq vms
    BY DEF DeleteVM
  <1>3. paired' \in [Boxes -> Attempts \cup {None}]
    <2>1. \/ paired' = paired
          \/ \E gones \in SUBSET Boxes : paired' = [b \in Boxes |-> IF b \in gones THEN None
                                                                    ELSE paired[b]]
      <3> DEFINE found == {vm \in vms : vm.name = n /\ vm.prov = cli[p].dep.prov}
                 gones == {b \in Boxes : \E vm \in found : vm.name = b}
      <3>1. \/ paired' = paired
            \/ paired' = [b \in Boxes |-> IF \E vm \in found : vm.name = b THEN None ELSE paired[b]]
        BY DEF DeleteVM
      <3> HIDE DEF found
      <3>2. \/ paired' = paired
            \/ paired' = [b \in Boxes |-> IF b \in gones THEN None ELSE paired[b]]
        BY <3>1
      <3> QED  BY <3>2
    <2> QED  BY <2>1 DEF TypeInv, TypeOK
  <1>4. excused' \subseteq Attempts
    <2>1. excused' = excused \/ (n # None /\ excused' = excused \cup {n})
      BY DEF DeleteVM
    <2>2. n \in Attempts \cup {None}
      BY DEF FirstNonEmpty, TypeInv, TypeOK, Commands, Record
    <2> HIDE DEF n
    <2> QED  BY <2>1, <2>2 DEF TypeInv, TypeOK
  <1>5. /\ cli' \in [Clis -> Commands] /\ InRange' /\ Others(p) /\ cli'[p].pc = "remove"
        /\ UNCHANGED <<cli[p].seen, cli[p].id, cli[p].dep, cli[p].last, cli[p].agent>>
    BY <1>1, DestroyGoesOn DEF DestroyPcs
  <1>6. TypeOK'
    BY <1>1, <1>2, <1>3, <1>4, <1>5 DEF TypeInv, TypeOK, bounds
  <1> QED  BY <1>1, <1>2, <1>5, <1>6 DEF TypeInv

LEMMA RemoveIs ==
    ASSUME TypeInv, NEW p \in Clis, RemoveRecord(p)
    PROVE  /\ TypeInv' /\ Others(p) /\ UNCHANGED <<bounds, cloud, excused>>
           /\ cli[p].pc = "remove" /\ cli'[p] = IdleCli /\ cli[p].id \in Attempts
           /\ recs' = [recs EXCEPT ![cli[p].id] = None]
           /\ asked' = asked \cup {n \in Attempts : Names(cli[p].dep, n) \/ Names(recs[cli[p].id], n)}
  <1>1. /\ cli[p].pc = "remove" /\ cli' = [cli EXCEPT ![p] = IdleCli]
        /\ recs' = [recs EXCEPT ![cli[p].id] = None]
        /\ asked' = asked \cup {n \in Attempts : Names(cli[p].dep, n) \/ Names(recs[cli[p].id], n)}
        /\ UNCHANGED <<bounds, cloud, excused>>
    BY DEF RemoveRecord
  <1>2. cli[p].id \in Attempts
    BY <1>1 DEF TypeInv, InRange, InRangeOf, DestroyPcs
  <1>3. cli' \in [Clis -> Commands] /\ cli'[p] = IdleCli /\ Others(p)
    BY <1>1, SetCliIs, EmptyTypes DEF TypeInv
  <1>4. InRangeOf(p)'
    BY <1>3 DEF InRangeOf, Deploying, Decided, Planned, DeployPcs, DestroyPcs, IdleCli
  <1>5. recs' \in Stores
    BY <1>1, <1>2 DEF TypeInv, TypeOK, Stores
  <1>6. TypeOK'
    BY <1>1, <1>3, <1>5 DEF TypeInv, TypeOK, bounds, cloud
  <1> QED  BY <1>1, <1>2, <1>3, <1>4, <1>6, RangesOfOthers DEF TypeInv

\* Every variable has its type, whatever runs at once (TypeOK).
LEMMA TypesInductive == TypeInv /\ [Next]_vars => TypeInv'
  <1> SUFFICES ASSUME TypeInv, [Next]_vars PROVE TypeInv'
    OBVIOUS
  <1>1. CASE UNCHANGED vars
    BY <1>1 DEF vars, TypeInv, TypeOK, InRange, InRangeOf, Deploying, Decided, Planned, Creates
  <1>2. CASE Next
    <2>1. PICK p \in Clis : \/ Deploy(p) \/ (\E id \in Attempts : DeploySelected(p, id))
                            \/ DeployStep(p)
                            \/ (\E id \in Attempts : Destroy(p, id)) \/ DestroyStep(p)
                            \/ Stop(p)
      BY <1>2 DEF Next
    <2>2. CASE Deploy(p) \/ \E id \in Attempts : DeploySelected(p, id)
      BY <2>2, RequestIs, BeginTypes DEF TypeInv
    <2>3. CASE DeployStep(p)
      BY <2>3, DecideIs, IssueTokenIs, PendingIs, CreateIs, InstanceIs, RecordIs, BootstrapIs,
         WaitIs, FinalizeIs DEF DeployStep
    <2>4. CASE \E id \in Attempts : Destroy(p, id)
      BY <2>4, DestroyIs
    <2>5. CASE DestroyStep(p)
      BY <2>5, ListIs, TeardownIs, RevokeIs, DeleteIs, RemoveIs DEF DestroyStep
    <2>6. CASE Stop(p)
      BY <2>6, StopTypes
    <2> QED  BY <2>1, <2>2, <2>3, <2>4, <2>5, <2>6
  <1> QED  BY <1>1, <1>2

LEMMA TypesInitially == Init => TypeInv
  <1> SUFFICES ASSUME Init PROVE TypeInv
    OBVIOUS
  <1>1. 0 \in 0..MaxAttempts /\ 0 \in 0..MaxDestroys
    BY CommandBounds
  <1>2. TypeOK
    BY <1>1, EmptyTypes DEF Init, TypeOK
  <1>3. InRange
    BY DEF Init, InRange, InRangeOf, Deploying, Decided, Planned, DeployPcs, DestroyPcs, IdleCli
  <1> QED  BY <1>2, <1>3 DEF TypeInv

\* The type invariant of deploy and destroy, for any number of terminals, apps,
\* boxes, providers and attempts (DeployCommand, DestroyCommand).
THEOREM TypesAlwaysOK == Spec => []TypeOK
  <1>1. TypeInv => TypeOK
    BY DEF TypeInv
  <1> QED  BY <1>1, TypesInitially, TypesInductive, PTL DEF Spec

-----------------------------------------------------------------------------
(* What a step leaves of the others *)

\* A record that p writes is sound, keeps its box, and still tracks the VM it tracked.
GoodWrite(p, id) ==
    /\ id = cli[p].id /\ Decided(p) /\ recs'[id] # None /\ SoundRecord(recs'[id])
    /\ Boxed(recs[id]) => Boxed(recs'[id])
    /\ \A vm : Followed(vm) /\ vm.name = id => Tracks(recs'[id], vm)
    /\ MaxDestroys = 0 => Hosted(recs'[id])

\* What p does to the store and the VMs.
GoodStep(p) ==
    /\ attempts' \in {attempts, attempts + 1} /\ asked' = asked
    /\ cli'[p].seen \in {cli[p].seen, NoRecs, recs}
    /\ \A vm \in vms' : vm \in vms \/ (vm = NewVM(p)' /\ Born(p)')
    /\ MaxDestroys = 0 => vms \subseteq vms'
    /\ \A id \in Attempts : recs'[id] # recs[id] => GoodWrite(p, id)
    /\ \A q \in Clis \ {p} : Unborn(q) \/ HalfBorn(q) => cli'[p].id # cli[q].n
    /\ \A q \in Clis \ {p} : Deploying(q) /\ Deploying(p)' => cli'[p].n # cli[q].n

LEMMA NoRecsIs == \A id \in Attempts : NoRecs[id] = None
  BY DEF NoRecs

\* A VM that is followed stays so.
LEMMA FollowedStays ==
    ASSUME NEW p \in Clis, Others(p), GoodStep(p), NEW vm, vm.name \in Attempts, Followed(vm)
    PROVE  Followed(vm)'
  <1>1. recs'[vm.name] # None /\ Tracks(recs'[vm.name], vm)
    BY DEF GoodStep, GoodWrite, Followed
  <1>2. ASSUME NEW q \in Clis PROVE Tracks(cli'[q].seen[vm.name], vm)
    <2>1. CASE q # p
      BY <2>1 DEF Others, Followed
    <2>2. CASE q = p
      BY <2>2, NoRecsIs DEF GoodStep, Followed, Tracks
    <2> QED  BY <2>1, <2>2
  <1> QED  BY <1>1, <1>2 DEF Followed, Tracks, Names, OfApp

\* Another command is where it was.
LEMMA SameStage ==
    ASSUME NEW p \in Clis, Others(p), NEW q \in Clis \ {p}
    PROVE  /\ cli'[q] = cli[q]
           /\ Deploying(q)' = Deploying(q) /\ Decided(q)' = Decided(q) /\ Planned(q)' = Planned(q)
           /\ Creates(q)' = Creates(q) /\ Unborn(q)' = Unborn(q) /\ HalfBorn(q)' = HalfBorn(q)
           /\ Born(q)' = Born(q) /\ NewVM(q)' = NewVM(q)
  BY DEF Others, Deploying, Decided, Planned, Creates, Unborn, HalfBorn, Born, NewVM

LEMMA OtherNameFresh ==
    ASSUME DeployInv, NEW p \in Clis, Others(p), GoodStep(p), attempts \in Nat,
           NEW q \in Clis \ {p}
    PROVE  NameFresh(q)'
  <1> DEFINE n == cli[q].n
  <1>1. NameFresh(q) /\ InRangeOf(q) /\ cli'[q] = cli[q]
    BY DEF DeployInv, CliInv, TypeInv, InRange, Others
  <1>2. Deploying(q) => n \in Attempts /\ n \in Nat
    BY <1>1 DEF InRangeOf, Attempts
  <1>3. Unborn(q) \/ HalfBorn(q) => Deploying(q)
    BY DEF Unborn, HalfBorn, Deploying, DeployPcs
  <1>4. Deploying(q) => n <= attempts' /\ \A r \in Clis \ {q} : Deploying(r)' => cli'[r].n # n
    <2>1. Deploying(q) => n <= attempts'
      BY <1>1, <1>2 DEF NameFresh, GoodStep
    <2>2. ASSUME Deploying(q), NEW r \in Clis \ {q}, Deploying(r)' PROVE cli'[r].n # n
      <3>1. CASE r = p
        BY <2>2, <3>1 DEF GoodStep
      <3>2. CASE r # p
        BY <1>1, <2>2, <3>2, SameStage DEF NameFresh
      <3> QED  BY <3>1, <3>2
    <2> QED  BY <2>1, <2>2
  <1>5. Unborn(q) \/ HalfBorn(q) => recs'[n] = recs[n]
    BY <1>1, <1>2, <1>3 DEF GoodStep, GoodWrite, NameFresh
  <1>6. Unborn(q) => \A r \in Clis : cli'[r].seen[n] = None
    <2>1. ASSUME Unborn(q), NEW r \in Clis PROVE cli'[r].seen[n] = None
      <3>1. CASE r = p
        BY <1>1, <1>2, <1>3, <2>1, <3>1, NoRecsIs DEF GoodStep, NameFresh
      <3>2. CASE r # p
        BY <1>1, <2>1, <3>2 DEF Others, NameFresh
      <3> QED  BY <3>1, <3>2
    <2> QED  BY <2>1
  <1>7. Unborn(q) \/ HalfBorn(q) => \A r \in Clis \ {q} : cli'[r].id # n
    BY <1>1 DEF Others, NameFresh, GoodStep
  <1> QED  BY <1>1, <1>4, <1>5, <1>6, <1>7, SameStage DEF NameFresh

LEMMA OtherKeeps ==
    ASSUME DeployInv, Undisturbed, NEW p \in Clis, Others(p), GoodStep(p), attempts \in Nat,
           NEW q \in Clis \ {p}
    PROVE  CliInv(q)'
  <1>1. CliInv(q) /\ InRangeOf(q) /\ cli'[q] = cli[q]
    BY DEF DeployInv, TypeInv, InRange, Others
  <1>2. PlanSound(q)'
    BY <1>1, SameStage DEF CliInv, PlanSound, OfApp
  <1>3. BoxKept(q)'
    <2>1. cli[q].pc \in {"bootstrap", "agent", "finalize"} => Decided(q)
      BY DEF Decided, DeployPcs
    <2> QED  BY <1>1, <2>1 DEF CliInv, BoxKept, GoodStep, GoodWrite, Boxed, InRangeOf
  <1>4. NameFresh(q)'
    BY OtherNameFresh
  <1>5. IdBegun(q)' /\ Begun(cli[q].seen)'
    <2>1. \A n \in Attempts : n > attempts' => n > attempts
      BY DEF GoodStep, Attempts
    <2>2. IdBegun(q)'
      <3>1. Decided(q) \/ cli[q].pc \in DestroyPcs => cli[q].id \in Nat
        BY <1>1 DEF InRangeOf, Attempts
      <3> QED  BY <1>1, <3>1, SameStage DEF CliInv, IdBegun, GoodStep
    <2> QED  BY <1>1, <2>1, <2>2 DEF CliInv, Begun
  <1>6. SoundStore(cli[q].seen)'
    BY <1>1 DEF CliInv, SoundStore, SoundRecord
  <1>7. Again(q)' /\ NoDestroys(q)'
    <2>1. CASE MaxDestroys = 0
      <3>1. \A req : HasVM(req) => \E vm \in vms' : CreatesInfrastructure(vm.prov) /\ OfApp(vm, req)
        BY <2>1 DEF HasVM, GoodStep
      <3>2. Again(q)'
        BY <1>1, <2>1, <3>1 DEF CliInv, Again, HasVM, OfApp
      <3>3. NoDestroys(q)'
        BY <1>1, <2>1, <3>1, SameStage
           DEF CliInv, NoDestroys, HostedStore, Hosted, HasVM, OfApp, GoodStep
      <3> QED  BY <3>2, <3>3
    <2>2. CASE MaxDestroys # 0
      BY <2>2 DEF Undisturbed, OneTerminal
    <2> QED  BY <2>1, <2>2
  <1>8. Born(q)' => Followed(NewVM(q))'
    <2>1. Born(q) => Deploying(q)
      BY DEF Born, HalfBorn, Deploying, DeployPcs
    <2>2. Born(q) => NewVM(q).name \in Attempts
      BY <1>1, <2>1 DEF InRangeOf, NewVM
    <2> QED  BY <1>1, <2>2, SameStage, FollowedStays DEF CliInv
  <1> QED  BY <1>2, <1>3, <1>4, <1>5, <1>6, <1>7, <1>8 DEF CliInv

\* A step that does good, and leaves the one who takes it as it should be.
LEMMA StepKeeps ==
    ASSUME DeployInv, TypeInv', Undisturbed, NEW p \in Clis, Others(p), GoodStep(p), CliInv(p)'
    PROVE  DeployInv'
  <1>1. attempts \in Nat /\ recs \in Stores /\ vms \subseteq VMs /\ attempts' \in Nat
        /\ vms' \subseteq VMs
    BY DEF DeployInv, TypeInv, TypeOK
  <1>2. \A q \in Clis : CliInv(q)'
    BY <1>1, OtherKeeps
  <1>3. SoundStore(recs)' /\ Begun(recs)'
    <2>1. SoundStore(recs) /\ Begun(recs) /\ IdBegun(p) /\ InRangeOf(p)
      BY DEF DeployInv, StoreInv, CliInv, TypeInv, InRange
    <2>2. SoundStore(recs)'
      BY <2>1 DEF SoundStore, GoodStep, GoodWrite, SoundRecord
    <2>3. ASSUME NEW n \in Attempts, n > attempts' PROVE recs'[n] = None
      <3>1. n > attempts /\ recs[n] = None
        BY <1>1, <2>1, <2>3 DEF Begun, GoodStep, Attempts
      <3>2. recs'[n] = recs[n]
        <4>1. SUFFICES ASSUME recs'[n] # recs[n] PROVE FALSE
          OBVIOUS
        <4>2. n = cli[p].id /\ cli[p].id <= attempts
          BY <2>1, <4>1 DEF GoodStep, GoodWrite, IdBegun
        <4> QED  BY <1>1, <3>1, <4>2 DEF Attempts
      <3> QED  BY <3>1, <3>2
    <2> QED  BY <2>2, <2>3 DEF Begun
  <1>4. \A vm \in vms' : vm.name <= attempts' /\ (vm.name \notin asked' => Followed(vm)')
    <2>1. ASSUME NEW vm \in vms' PROVE vm.name <= attempts' /\ (vm.name \notin asked' => Followed(vm)')
      <3>1. vm.name \in Attempts /\ vm.name \in Nat
        BY <1>1 DEF VMs, Attempts
      <3>2. CASE vm \in vms
        BY <1>1, <3>1, <3>2, FollowedStays DEF DeployInv, StoreInv, GoodStep
      <3>3. CASE vm = NewVM(p)' /\ Born(p)'
        <4>1. Deploying(p)' /\ vm.name = cli'[p].n
          BY <3>3 DEF Born, HalfBorn, Deploying, DeployPcs, NewVM
        <4> QED  BY <3>3, <4>1 DEF CliInv, NameFresh
      <3> QED  BY <3>2, <3>3 DEF GoodStep
    <2> QED  BY <2>1
  <1>5. MaxDestroys = 0 => asked' = {} /\ HostedStore(recs)'
    <2>1. SUFFICES ASSUME MaxDestroys = 0 PROVE asked' = {} /\ HostedStore(recs)'
      OBVIOUS
    <2>2. asked' = {} /\ HostedStore(recs)
      BY <2>1 DEF DeployInv, StoreInv, GoodStep
    <2>3. ASSUME NEW id \in Attempts, recs'[id] # None PROVE Hosted(recs'[id])
      BY <2>1, <2>2, <2>3 DEF HostedStore, GoodStep, GoodWrite
    <2>4. \A rec : Hosted(rec) => Hosted(rec)'
      BY <2>1 DEF Hosted, HasVM, GoodStep, OfApp
    <2> QED  BY <2>2, <2>3, <2>4 DEF HostedStore, Hosted
  <1> QED  BY <1>2, <1>3, <1>4, <1>5 DEF DeployInv, StoreInv

\* A step that writes no record.
LEMMA NothingWritten ==
    ASSUME NEW p, recs' = recs PROVE \A id \in Attempts : recs'[id] # recs[id] => GoodWrite(p, id)
  OBVIOUS

\* A command that stands idle, or destroys, has nothing to keep.
LEMMA NoPlan ==
    ASSUME DeployInv, NEW p \in Clis, attempts' \in {attempts, attempts + 1},
           cli'[p].pc \in DestroyPcs \cup {"idle"},
           cli'[p].seen \in {cli[p].seen, NoRecs}, MaxDestroys = 0 => cli'[p].pc = "idle",
           MaxDestroys = 0 => vms \subseteq vms',
           \/ cli'[p].pc = "idle" /\ cli'[p].id = None
           \/ cli'[p].pc # "idle" /\ cli'[p].id \in Attempts /\ cli'[p].id <= attempts
    PROVE  CliInv(p)'
  <1>1. /\ ~Deploying(p)' /\ ~Decided(p)' /\ ~Planned(p)' /\ ~Unborn(p)' /\ ~HalfBorn(p)'
        /\ ~Born(p)' /\ cli'[p].pc \notin {"decide", "bootstrap", "agent", "finalize"}
    BY DEF Deploying, Decided, Planned, Unborn, HalfBorn, Born, DeployPcs, DestroyPcs
  <1>2. attempts \in Nat /\ CliInv(p)
    BY DEF DeployInv, TypeInv, TypeOK
  <1>3. \A id \in Attempts : cli'[p].seen[id] # None => cli'[p].seen[id] = cli[p].seen[id]
    BY NoRecsIs
  <1>4. PlanSound(p)' /\ BoxKept(p)' /\ NameFresh(p)' /\ Again(p)'
    BY <1>1 DEF PlanSound, BoxKept, NameFresh, Again
  <1>5. IdBegun(p)'
    BY <1>1, <1>2 DEF IdBegun, Attempts, DestroyPcs
  <1>6. Begun(cli[p].seen)' /\ SoundStore(cli[p].seen)'
    <2>1. \A id \in Attempts : id > attempts' => id > attempts
      BY <1>2 DEF Attempts
    <2>2. Begun(cli[p].seen)'
      BY <1>2, <1>3, <2>1 DEF CliInv, Begun
    <2> QED  BY <1>2, <1>3, <2>2 DEF CliInv, SoundStore, SoundRecord
  <1>7. NoDestroys(p)'
    <2>1. CASE MaxDestroys = 0
      <3>1. \A rec : Hosted(rec) => Hosted(rec)'
        BY <2>1 DEF Hosted, HasVM, OfApp
      <3>2. HostedStore(cli[p].seen)
        BY <1>2, <2>1 DEF CliInv, NoDestroys
      <3>3. HostedStore(cli[p].seen)'
        BY <1>3, <3>1, <3>2 DEF HostedStore, Hosted
      <3> QED  BY <1>1, <2>1, <3>3 DEF NoDestroys, DestroyPcs
    <2> QED  BY <2>1 DEF NoDestroys
  <1> QED  BY <1>1, <1>4, <1>5, <1>6, <1>7 DEF CliInv
-----------------------------------------------------------------------------
(* The steps that write nothing *)

LEMMA InvIs ==
    ASSUME DeployInv, NEW p \in Clis
    PROVE  /\ TypeInv /\ TypeOK /\ InRangeOf(p) /\ CliInv(p) /\ attempts \in Nat /\ recs \in Stores
           /\ cli[p] \in Commands /\ cli[p].req \in Requests /\ cli[p].seen \in Stores
           /\ vms \subseteq VMs
  BY DEF DeployInv, TypeInv, TypeOK, InRange, Commands

\* A step that changes no record and starts no deploy.
LEMMA QuietStep ==
    ASSUME DeployInv, NEW p \in Clis, Others(p), attempts' = attempts, asked' = asked, recs' = recs,
           vms' = vms \/ (MaxDestroys # 0 /\ vms' \subseteq vms),
           cli'[p].seen \in {cli[p].seen, NoRecs},
           OneTerminal \/ cli'[p].id \in {cli[p].id, None},
           Deploying(p)' => Deploying(p) /\ cli'[p].n = cli[p].n
    PROVE  GoodStep(p)
  <1>1. NameFresh(p)
    BY InvIs DEF CliInv
  <1>2. ASSUME NEW q \in Clis \ {p}, Unborn(q) \/ HalfBorn(q) PROVE cli'[p].id # cli[q].n
    <2>1. NameFresh(q) /\ InRangeOf(q)
      BY InvIs DEF CliInv
    <2>2. ~OneTerminal
      BY DEF OneTerminal
    <2>3. Deploying(q)
      BY <1>2 DEF Unborn, HalfBorn, Deploying, DeployPcs
    <2>4. cli[q].n # None
      BY <2>1, <2>3, NoneIsNoId DEF InRangeOf
    <2> QED  BY <1>2, <2>1, <2>2, <2>4 DEF NameFresh
  <1>3. ASSUME NEW q \in Clis \ {p}, Deploying(q), Deploying(p)' PROVE cli'[p].n # cli[q].n
    BY <1>1, <1>3 DEF NameFresh
  <1> QED  BY <1>2, <1>3 DEF GoodStep

\* Nothing is left of a command that stops.
LEMMA StopKeeps ==
    ASSUME DeployInv, Undisturbed, NEW p \in Clis, Stop(p)
    PROVE  DeployInv'
  <1>1. TypeInv' /\ Others(p) /\ cli'[p] = IdleCli /\ UNCHANGED <<bounds, recs, cloud, history>>
    BY InvIs, StopTypes DEF Stop
  <1>2. cli'[p].pc = "idle" /\ cli'[p].seen = NoRecs /\ cli'[p].id = None
    BY <1>1 DEF IdleCli
  <1>3. attempts' = attempts /\ asked' = asked /\ recs' = recs /\ vms' = vms
    BY <1>1 DEF bounds, cloud, history
  <1>4. GoodStep(p)
    BY <1>1, <1>2, <1>3, QuietStep DEF Deploying, DeployPcs
  <1>5. CliInv(p)'
    BY <1>2, <1>3, NoPlan
  <1> QED  BY <1>1, <1>4, <1>5, StepKeeps

LEMMA DestroyStarts ==
    ASSUME DeployInv, Undisturbed, NEW p \in Clis, NEW id \in Attempts, Destroy(p, id)
    PROVE  DeployInv'
  <1>1. /\ TypeInv' /\ Others(p) /\ UNCHANGED <<attempts, recs, cloud, history>>
        /\ destroys < MaxDestroys /\ recs[id] # None
        /\ cli'[p] = [IdleCli EXCEPT !.pc = "list", !.id = id, !.dep = recs[id]]
    BY InvIs, DestroyIs
  <1>2. cli'[p].pc = "list" /\ cli'[p].seen = NoRecs /\ cli'[p].id = id
    BY <1>1 DEF IdleCli
  <1>3. MaxDestroys # 0 /\ OneTerminal
    BY <1>1, InvIs DEF Undisturbed, TypeOK
  <1>4. attempts' = attempts /\ asked' = asked /\ recs' = recs /\ vms' = vms
    BY <1>1 DEF cloud, history
  <1>5. GoodStep(p)
    BY <1>1, <1>2, <1>3, <1>4, QuietStep DEF Deploying, DeployPcs
  <1>6. id <= attempts
    BY <1>1, InvIs DEF DeployInv, StoreInv, Begun, Attempts
  <1>7. CliInv(p)'
    BY <1>2, <1>3, <1>4, <1>6, NoPlan DEF DestroyPcs
  <1> QED  BY <1>1, <1>5, <1>7, StepKeeps

\* The steps of a destroy that leave the records.
LEMMA DestroyKeeps ==
    ASSUME DeployInv, Undisturbed, NEW p \in Clis,
           ListDeployments(p) \/ Teardown(p) \/ RevokeAgent(p) \/ DeleteVM(p)
    PROVE  DeployInv'
  <1>1. /\ TypeInv' /\ Others(p) /\ attempts' = attempts /\ recs' = recs /\ asked' = asked
        /\ vms' \subseteq vms /\ cli[p].pc \in DestroyPcs /\ cli'[p].pc \in DestroyPcs
        /\ UNCHANGED <<cli[p].seen, cli[p].id>>
    BY InvIs, ListIs, TeardownIs, RevokeIs, DeleteIs DEF bounds, cloud, history, DestroyPcs
  <1>2. MaxDestroys # 0
    BY <1>1, InvIs DEF CliInv, NoDestroys
  <1>3. GoodStep(p)
    BY <1>1, <1>2, QuietStep DEF Deploying, DeployPcs, DestroyPcs
  <1>4. cli[p].id \in Attempts /\ cli[p].id <= attempts
    BY <1>1, InvIs DEF CliInv, IdBegun, InRangeOf
  <1>5. CliInv(p)'
    BY <1>1, <1>2, <1>4, NoPlan DEF DestroyPcs
  <1> QED  BY <1>1, <1>3, <1>5, StepKeeps

\* The token step and the bootstrap go on with the plan they have.
LEMMA TokenKeeps ==
    ASSUME DeployInv, Undisturbed, NEW p \in Clis, IssueToken(p)
    PROVE  DeployInv'
  <1>1. /\ TypeInv' /\ Others(p) /\ UNCHANGED Plan(p) /\ cli[p].pc = "token"
        /\ cli'[p].pc = IF Creates(p) THEN "pending" ELSE "record"
        /\ attempts' = attempts /\ recs' = recs /\ asked' = asked /\ vms' = vms
    BY InvIs, IssueTokenIs DEF bounds, cloud, history
  <1>2. CliInv(p) /\ InRangeOf(p)
    BY InvIs
  <1>3. /\ Deploying(p) /\ Deploying(p)' /\ Decided(p) /\ Planned(p) /\ Planned(p)' /\ Unborn(p)
        /\ ~HalfBorn(p)' /\ ~Born(p)' /\ Creates(p)' = Creates(p)
    BY <1>1 DEF Deploying, Decided, Planned, Unborn, HalfBorn, Born, Creates, DeployPcs, Plan
  <1>4. GoodStep(p)
    BY <1>1, <1>3, QuietStep DEF Plan
  <1>5. CliInv(p)'
    <2>1. PlanSound(p)'
      BY <1>1, <1>2, <1>3 DEF CliInv, PlanSound, Plan, OfApp
    <2>2. BoxKept(p)' /\ Again(p)'
      BY <1>1 DEF BoxKept, Again
    <2>3. NameFresh(p)'
      <3>1. \A q \in Clis : cli'[q].seen = cli[q].seen /\ cli'[q].id = cli[q].id
        BY <1>1 DEF Plan, Others
      <3>2. \A q \in Clis \ {p} : Deploying(q)' => Deploying(q) /\ cli'[q].n = cli[q].n
        BY <1>1, SameStage
      <3> QED  BY <1>1, <1>2, <1>3, <3>1, <3>2 DEF CliInv, NameFresh, Plan
    <2>4. IdBegun(p)' /\ Begun(cli[p].seen)' /\ SoundStore(cli[p].seen)'
      BY <1>1, <1>2, <1>3 DEF CliInv, IdBegun, Begun, SoundStore, SoundRecord, Plan
    <2>5. NoDestroys(p)'
      BY <1>1, <1>2 DEF CliInv, NoDestroys, HostedStore, Hosted, HasVM, OfApp, Plan, DestroyPcs
    <2> QED  BY <1>3, <2>1, <2>2, <2>3, <2>4, <2>5 DEF CliInv
  <1> QED  BY <1>1, <1>4, <1>5, StepKeeps

LEMMA BootstrapKeeps ==
    ASSUME DeployInv, Undisturbed, NEW p \in Clis, Bootstrap(p)
    PROVE  DeployInv'
  <1>1. /\ TypeInv' /\ Others(p) /\ UNCHANGED Plan(p) /\ cli[p].pc = "bootstrap"
        /\ cli'[p].pc = "agent"
        /\ attempts' = attempts /\ recs' = recs /\ asked' = asked /\ vms' = vms
    BY InvIs, BootstrapIs DEF bounds, history
  <1>2. CliInv(p) /\ InRangeOf(p)
    BY InvIs
  <1>3. /\ Deploying(p) /\ Deploying(p)' /\ Decided(p) /\ Decided(p)' /\ ~Planned(p)'
        /\ ~Unborn(p)' /\ ~HalfBorn(p)' /\ ~Born(p)'
    BY <1>1 DEF Deploying, Decided, Planned, Unborn, HalfBorn, Born, DeployPcs
  <1>4. GoodStep(p)
    BY <1>1, <1>3, QuietStep DEF Plan
  <1>5. CliInv(p)'
    <2>1. PlanSound(p)' /\ Again(p)'
      BY <1>1, <1>2, <1>3 DEF CliInv, PlanSound, Plan, Again
    <2>2. BoxKept(p)'
      BY <1>1, <1>2 DEF CliInv, BoxKept, Boxed, Plan
    <2>3. NameFresh(p)'
      <3>1. \A q \in Clis \ {p} : Deploying(q)' => Deploying(q) /\ cli'[q].n = cli[q].n
        BY <1>1, SameStage
      <3> QED  BY <1>1, <1>2, <1>3, <3>1 DEF CliInv, NameFresh, Plan
    <2>4. IdBegun(p)' /\ Begun(cli[p].seen)' /\ SoundStore(cli[p].seen)'
      BY <1>1, <1>2, <1>3 DEF CliInv, IdBegun, Begun, SoundStore, SoundRecord, Plan
    <2>5. NoDestroys(p)'
      BY <1>1, <1>2 DEF CliInv, NoDestroys, HostedStore, Hosted, HasVM, OfApp, Plan, DestroyPcs
    <2> QED  BY <1>3, <2>1, <2>2, <2>3, <2>4, <2>5 DEF CliInv
  <1> QED  BY <1>1, <1>4, <1>5, StepKeeps

\* The VM is created under the name that its record has.
LEMMA CreateKeeps ==
    ASSUME DeployInv, Undisturbed, NEW p \in Clis, CreateVM(p)
    PROVE  DeployInv'
  <1>1. /\ TypeInv' /\ Others(p) /\ UNCHANGED Plan(p) /\ cli[p].pc = "create"
        /\ cli'[p].pc = "created" /\ vms' = vms \cup {NewVM(p)}
        /\ attempts' = attempts /\ recs' = recs /\ asked' = asked
    BY InvIs, CreateIs DEF bounds, history
  <1>2. CliInv(p) /\ InRangeOf(p)
    BY InvIs
  <1>3. /\ Deploying(p) /\ Deploying(p)' /\ Decided(p) /\ Decided(p)' /\ Planned(p) /\ Planned(p)'
        /\ ~Unborn(p)' /\ HalfBorn(p) /\ HalfBorn(p)' /\ Born(p) /\ Born(p)'
        /\ Creates(p)' = Creates(p) /\ NewVM(p)' = NewVM(p)
    BY <1>1 DEF Deploying, Decided, Planned, Unborn, HalfBorn, Born, Creates, NewVM, DeployPcs, Plan
  <1>4. GoodStep(p)
    <2>1. ASSUME NEW q \in Clis \ {p}
          PROVE  /\ Unborn(q) \/ HalfBorn(q) => cli'[p].id # cli[q].n
                 /\ Deploying(q) /\ Deploying(p)' => cli'[p].n # cli[q].n
      <3>1. NameFresh(p) /\ NameFresh(q) /\ p \in Clis \ {q}
        BY InvIs DEF CliInv
      <3> QED  BY <1>1, <1>3, <3>1 DEF NameFresh, Plan
    <2> QED  BY <1>1, <1>3, <2>1 DEF GoodStep, Plan
  <1>5. CliInv(p)'
    <2>1. PlanSound(p)'
      BY <1>1, <1>2, <1>3 DEF CliInv, PlanSound, Plan, OfApp
    <2>2. BoxKept(p)' /\ Again(p)'
      BY <1>1 DEF BoxKept, Again
    <2>3. NameFresh(p)'
      <3>1. \A q \in Clis : cli'[q].id = cli[q].id
        BY <1>1 DEF Plan, Others
      <3>2. \A q \in Clis \ {p} : Deploying(q)' => Deploying(q) /\ cli'[q].n = cli[q].n
        BY <1>1, SameStage
      <3> QED  BY <1>1, <1>2, <1>3, <3>1, <3>2 DEF CliInv, NameFresh, Plan
    <2>4. IdBegun(p)' /\ Begun(cli[p].seen)' /\ SoundStore(cli[p].seen)'
      BY <1>1, <1>2, <1>3 DEF CliInv, IdBegun, Begun, SoundStore, SoundRecord, Plan
    <2>5. NoDestroys(p)'
      <3>1. \A rec : Hosted(rec) => Hosted(rec)'
        BY <1>1 DEF Hosted, HasVM, OfApp
      <3>2. MaxDestroys = 0 => HostedStore(cli[p].seen)'
        BY <1>1, <1>2, <3>1 DEF CliInv, NoDestroys, HostedStore, Hosted, Plan
      <3> QED  BY <1>1, <1>3, <3>2 DEF NoDestroys, DestroyPcs
    <2>6. Followed(NewVM(p))'
      <3>1. Followed(NewVM(p)) /\ \A q \in Clis : cli'[q].seen = cli[q].seen
        BY <1>1, <1>2, <1>3 DEF CliInv, Others, Plan
      <3> QED  BY <1>1, <1>3, <3>1 DEF Followed, Tracks, Names, OfApp
    <2> QED  BY <1>3, <2>1, <2>2, <2>3, <2>4, <2>5, <2>6 DEF CliInv
  <1> QED  BY <1>1, <1>4, <1>5, StepKeeps
-----------------------------------------------------------------------------
(* A deploy begins *)

\* What is asked for by a record of an app that has a VM names the box it has.
LEMMA AsksAgain ==
    ASSUME DeployInv, Orderly, NEW req, FromFlags(req) \/ \E id \in Attempts : FromRecord(req, recs[id]),
           CreatesInfrastructure(req.prov), req.host # None
    PROVE  ~req.newVM /\ (IF MaxDestroys = 0 THEN HasVM(req) ELSE HasBox(req))
  <1>1. PICK id \in Attempts : FromRecord(req, recs[id])
    BY DEF FromFlags
  <1>2. ~req.newVM
    BY <1>1 DEF FromRecord, Orderly
  <1>3. HasBox(req)
    BY <1>1 DEF FromRecord, HasBox
  <1>4. CASE MaxDestroys = 0
    <2>1. Hosted(recs[id])
      BY <1>1, <1>4 DEF DeployInv, StoreInv, HostedStore, FromRecord
    <2> QED  BY <1>1, <1>2, <1>4, <2>1 DEF Hosted, HasVM, FromRecord, OfApp
  <1> QED  BY <1>2, <1>3, <1>4

LEMMA BeginKeeps ==
    ASSUME DeployInv, Orderly, NEW p \in Clis, Deploy(p) \/ \E id \in Attempts : DeploySelected(p, id)
    PROVE  DeployInv'
  <1>1. PICK req \in Requests : /\ Begin(p, req)
                                /\ FromFlags(req) \/ \E id \in Attempts : FromRecord(req, recs[id])
    BY InvIs, RequestIs
  <1> DEFINE n == attempts + 1
  <1>2. /\ TypeInv' /\ Others(p) /\ cli[p].pc = "idle" /\ attempts' = n
        /\ attempts \in Nat /\ n \in Attempts
        /\ cli'[p] = [IdleCli EXCEPT !.pc = "decide", !.n = n, !.req = req]
        /\ recs' = recs /\ vms' = vms /\ asked' = asked
    BY <1>1, InvIs, BeginTypes DEF cloud, history
  <1>3. /\ cli'[p].pc = "decide" /\ cli'[p].n = n /\ cli'[p].req = req /\ cli'[p].seen = NoRecs
        /\ cli'[p].id = None
    BY <1>2 DEF IdleCli
  <1>4. /\ Deploying(p)' /\ ~Decided(p)' /\ ~Planned(p)' /\ Unborn(p)' /\ ~HalfBorn(p)' /\ ~Born(p)'
    BY <1>3 DEF Deploying, Decided, Planned, Unborn, HalfBorn, Born, DeployPcs
  <1>5. ASSUME NEW q \in Clis \ {p}
        PROVE  /\ cli'[q] = cli[q] /\ cli[q].id # n /\ cli[q].seen[n] = None
               /\ Deploying(q)' = Deploying(q)
               /\ Deploying(q) => cli[q].n # None /\ cli[q].n # n
               /\ Unborn(q) \/ HalfBorn(q) => Deploying(q)
    <2>1. CliInv(q) /\ InRangeOf(q) /\ cli[q] \in Commands
      BY InvIs
    <2>2. cli[q].id # n
      <3>1. CASE cli[q].pc \in {"idle", "decide"}
        BY <1>2, <2>1, <3>1, NoneIsNoId DEF CliInv, IdBegun
      <3>2. CASE cli[q].pc \notin {"idle", "decide"}
        <4>1. Decided(q) \/ cli[q].pc \in DestroyPcs
          BY <2>1, <3>2 DEF Commands, Decided
        <4>2. cli[q].id <= attempts /\ cli[q].id \in Nat
          BY <2>1, <4>1 DEF CliInv, IdBegun, InRangeOf, Attempts
        <4> QED  BY <1>2, <4>2
      <3> QED  BY <3>1, <3>2
    <2>3. Deploying(q) => cli[q].n # None /\ cli[q].n # n
      BY <1>2, <2>1, NoneIsNoId DEF CliInv, NameFresh, InRangeOf, Attempts
    <2>4. cli[q].seen[n] = None
      BY <1>2, <2>1 DEF CliInv, Begun
    <2>5. Unborn(q) \/ HalfBorn(q) => Deploying(q)
      BY DEF Unborn, HalfBorn, Deploying, DeployPcs
    <2> QED  BY <1>2, <2>2, <2>3, <2>4, <2>5, SameStage
  <1>6. GoodStep(p)
    BY <1>2, <1>3, <1>5 DEF GoodStep
  <1>7. CliInv(p)'
    <2>1. PlanSound(p)'
      <3>1. req.prov # None /\ req.project # None /\ req.ident # None
        BY <1>1, InvIs DEF FromFlags, FromRecord, OfApp, DeployInv, StoreInv, SoundStore, SoundRecord
      <3>2. CreatesInfrastructure(req.prov) \/ req.host # None
        BY <1>1, <3>1 DEF FromFlags, FromRecord, CreatesInfrastructure, Requests
      <3> QED  BY <1>3, <1>4, <3>1, <3>2 DEF PlanSound
    <2>2. BoxKept(p)'
      BY <1>3 DEF BoxKept
    <2>3. NameFresh(p)'
      <3>1. recs'[n] = None
        BY <1>2 DEF DeployInv, StoreInv, Begun
      <3>2. \A q \in Clis : cli'[q].seen[n] = None
        <4>1. cli'[p].seen[n] = None
          BY <1>2, <1>3, NoRecsIs
        <4> QED  BY <1>5, <4>1
      <3> QED  BY <1>2, <1>3, <1>4, <1>5, <3>1, <3>2 DEF NameFresh
    <2>4. IdBegun(p)' /\ Begun(cli[p].seen)' /\ SoundStore(cli[p].seen)' /\ NoDestroys(p)'
      BY <1>3, <1>4, NoRecsIs DEF IdBegun, Begun, SoundStore, NoDestroys, HostedStore, DestroyPcs
    <2>5. Again(p)'
      <3>1. (HasVM(req) => HasVM(req)') /\ (HasBox(req) => HasBox(req)')
        BY <1>2 DEF HasVM, HasBox
      <3> QED  BY <1>1, <1>3, <3>1, AsksAgain DEF Again, HasVM, HasBox, OfApp
    <2> QED  BY <1>4, <2>1, <2>2, <2>3, <2>4, <2>5 DEF CliInv
  <1> QED  BY <1>2, <1>6, <1>7, StepKeeps DEF Orderly
-----------------------------------------------------------------------------
(* The box is decided *)

\* Whoever asks for a VM of an app that has a box gets no second one.
LEMMA ProvisionsAnew ==
    ASSUME DeployInv, Orderly, NEW p \in Clis, cli[p].pc = "decide",
           DecideDeployBox(recs, cli[p].req).action = "provision",
           CreatesInfrastructure(cli[p].req.prov)
    PROVE  cli[p].req.host = None
  <1> DEFINE req == cli[p].req
  <1>1. SUFFICES ASSUME req.host # None PROVE FALSE
    OBVIOUS
  <1>2. ~req.newVM /\ (IF MaxDestroys = 0 THEN HasVM(req) ELSE HasBox(req))
    BY <1>1, InvIs DEF CliInv, Again
  <1>3. HasBox(req)
    <2>1. CASE MaxDestroys = 0
      <3>1. PICK vm \in vms : CreatesInfrastructure(vm.prov) /\ OfApp(vm, req)
        BY <1>2, <2>1 DEF HasVM
      <3>2. vm.name \in Attempts /\ Followed(vm)
        BY <2>1, InvIs DEF DeployInv, StoreInv, VMs
      <3>3. recs[vm.name] # None /\ recs[vm.name].prov = vm.prov /\ OfApp(recs[vm.name], vm)
        BY <3>2 DEF Followed, Tracks
      <3> QED  BY <3>1, <3>2, <3>3 DEF HasBox, OfApp
    <2> QED  BY <1>2, <2>1
  <1>4. ManagedOf(recs, req) # {}
    <2>1. PICK id \in Attempts : /\ recs[id] # None /\ CreatesInfrastructure(recs[id].prov)
                                 /\ OfApp(recs[id], req)
      BY <1>3 DEF HasBox
    <2>2. id \in Recorded(recs)
      BY <2>1, InvIs DEF Recorded, Stores
    <2> QED  BY <2>1, <2>2 DEF ManagedOf, OfApp
  <1> QED  BY <1>2, <1>4, InvIs, DecisionIs DEF Orderly

\* What the box step chose, from sound records.
LEMMA ChoiceIs ==
    ASSUME DeployInv, Orderly, NEW p \in Clis, DecideBox(p)
    PROVE  LET c == cli'[p]
           IN  /\ c.prior # None => /\ c.prior \in Attempts /\ recs[c.prior] # None
                                    /\ recs[c.prior].host # None /\ recs[c.prior].host = c.host
                                    /\ OfApp(recs[c.prior], c.req)
               /\ c.box # None => /\ c.box \in Attempts /\ recs[c.box] # None
                                  /\ recs[c.box].host # None /\ recs[c.box].host = c.host
                                  /\ OfApp(recs[c.box], c.req)
                                  /\ CreatesInfrastructure(c.req.prov)
                                  /\ CreatesInfrastructure(recs[c.box].prov)
               /\ IF CreatesInfrastructure(c.req.prov) /\ c.box = None
                  THEN c.prior = None /\ c.boxAgent = None ELSE c.host # None
  <1> DEFINE c == cli'[p]
             d == DecideDeployBox(recs, cli[p].req)
  <1>1. /\ cli[p].pc = "decide" /\ c.req = cli[p].req /\ d.action # "fail"
        /\ c.box = IF Reuses(p) THEN ReusedBox(p) ELSE None
        /\ c.host = IF Reuses(p) THEN recs[ReusedBox(p)].host ELSE cli[p].req.host
        /\ c.boxAgent = PickBoxAgent(recs, c.host)
        /\ c.prior = PickPriorDeployment(recs, c.host, cli[p].req.ident)
        /\ c.prior # None => recs[c.prior].project \in {None, cli[p].req.project}
    BY InvIs, DecideIs
  <1>2. recs \in Stores /\ SoundStore(recs) /\ cli[p].req \in Requests /\ CliInv(p)
    BY InvIs DEF DeployInv, StoreInv
  <1>3. Deploying(p)
    BY <1>1 DEF Deploying, DeployPcs
  <1>4. c.prior # None => /\ c.prior \in Attempts /\ recs[c.prior] # None
                          /\ recs[c.prior].host # None /\ recs[c.prior].host = c.host
                          /\ OfApp(recs[c.prior], c.req)
    <2>1. SUFFICES ASSUME c.prior # None
                   PROVE  /\ c.prior \in Attempts /\ recs[c.prior] # None
                          /\ recs[c.prior].host # None /\ recs[c.prior].host = c.host
                          /\ OfApp(recs[c.prior], c.req)
      OBVIOUS
    <2> DEFINE rec == recs[c.prior]
    <2>2. /\ c.prior \in Attempts /\ rec # None /\ rec \in Record
          /\ rec.host = c.host /\ rec.ident = c.req.ident /\ Usable(rec)
      BY <1>1, <1>2, <2>1, PriorIs
    <2>3. SoundRecord(rec)
      BY <1>2, <2>2 DEF SoundStore
    <2>4. rec.prov # K8s
      BY <2>2, <2>3, ProviderKinds, SshIsGiven DEF SoundRecord, Record
    <2>5. rec.agent # None
      BY <2>2, <2>3, <2>4 DEF Usable, SoundRecord
    <2> QED  BY <1>1, <2>1, <2>2, <2>3, <2>5 DEF SoundRecord, OfApp
  <1>5. c.box # None => /\ c.box \in Attempts /\ recs[c.box] # None
                        /\ recs[c.box].host # None /\ recs[c.box].host = c.host
                        /\ OfApp(recs[c.box], c.req)
                        /\ CreatesInfrastructure(c.req.prov)
                        /\ CreatesInfrastructure(recs[c.box].prov)
    <2>1. SUFFICES ASSUME Reuses(p)
                   PROVE  /\ c.box \in Attempts /\ recs[c.box] # None
                          /\ recs[c.box].host # None /\ recs[c.box].host = c.host
                          /\ OfApp(recs[c.box], c.req)
                          /\ CreatesInfrastructure(c.req.prov)
                          /\ CreatesInfrastructure(recs[c.box].prov)
      BY <1>1
    <2>2. /\ c.box \in ManagedOf(recs, c.req) /\ c.box \in Attempts
          /\ recs[c.box].host # None /\ CreatesInfrastructure(c.req.prov)
      BY <1>1, <1>2, <2>1, DecisionIs DEF Reuses, ReusedBox
    <2>3. /\ recs[c.box] # None /\ recs[c.box].ident = c.req.ident
          /\ recs[c.box].project \in {None, c.req.project}
          /\ CreatesInfrastructure(recs[c.box].prov)
      BY <2>2 DEF ManagedOf, Recorded
    <2>4. SoundRecord(recs[c.box])
      BY <1>2, <2>2, <2>3 DEF SoundStore
    <2> QED  BY <1>1, <2>1, <2>2, <2>3, <2>4 DEF SoundRecord, OfApp
  <1>6. CASE CreatesInfrastructure(c.req.prov) /\ c.box = None
    <2>1. ~Reuses(p)
      BY <1>1, <1>2, <1>6, DecisionIs DEF Reuses, ReusedBox
    <2>2. d.action = "provision"
      BY <1>1, <1>2, <1>6, <2>1, DecisionIs DEF Reuses
    <2>3. c.host = None
      BY <1>1, <1>6, <2>1, <2>2, ProvisionsAnew
    <2>4. c.boxAgent = None
      <3>1. c.boxAgent # None => \E id \in Attempts : /\ recs[id] # None /\ recs[id].host = c.host
                                                      /\ recs[id].agent = c.boxAgent
        BY <1>1, <1>2, BoxAgentIs
      <3> QED  BY <1>2, <2>3, <3>1 DEF SoundStore, SoundRecord
    <2> QED  BY <1>4, <1>5, <1>6, <2>3, <2>4
  <1>7. CASE ~(CreatesInfrastructure(c.req.prov) /\ c.box = None)
    <2>1. CASE c.box # None
      BY <1>4, <1>5, <1>7, <2>1
    <2>2. CASE c.box = None
      <3>1. ~CreatesInfrastructure(c.req.prov)
        BY <1>7, <2>2
      <3>2. ~Reuses(p)
        BY <1>1, <1>2, <3>1, DecisionIs DEF Reuses
      <3>3. c.host # None
        BY <1>1, <1>2, <1>3, <3>1, <3>2 DEF CliInv, PlanSound
      <3> QED  BY <1>4, <1>5, <1>7, <3>3
    <2> QED  BY <2>1, <2>2
  <1> QED  BY <1>6, <1>7, <1>4, <1>5

LEMMA DecideKeeps ==
    ASSUME DeployInv, Orderly, NEW p \in Clis, DecideBox(p)
    PROVE  DeployInv'
  <1> DEFINE n == cli[p].n
             c == cli'[p]
  <1>1. /\ TypeInv' /\ Others(p) /\ cli[p].pc = "decide" /\ c.pc = "token" /\ c.seen = recs
        /\ c.n = n /\ c.req = cli[p].req
        /\ c.id = IF c.prior # None THEN c.prior ELSE IF c.box # None THEN c.box ELSE n
        /\ attempts' = attempts /\ recs' = recs /\ vms' = vms /\ asked' = asked
    BY InvIs, DecideIs DEF bounds, cloud, history
  <1>2. /\ c.prior # None => /\ c.prior \in Attempts /\ recs[c.prior] # None
                             /\ recs[c.prior].host # None /\ recs[c.prior].host = c.host
                             /\ OfApp(recs[c.prior], c.req)
        /\ c.box # None => /\ c.box \in Attempts /\ recs[c.box] # None
                           /\ recs[c.box].host # None /\ recs[c.box].host = c.host
                           /\ OfApp(recs[c.box], c.req)
                           /\ CreatesInfrastructure(c.req.prov)
                           /\ CreatesInfrastructure(recs[c.box].prov)
        /\ IF CreatesInfrastructure(c.req.prov) /\ c.box = None
           THEN c.prior = None /\ c.boxAgent = None ELSE c.host # None
    BY ChoiceIs
  <1>3. CliInv(p) /\ InRangeOf(p) /\ attempts \in Nat /\ SoundStore(recs) /\ Begun(recs)
        /\ (MaxDestroys = 0 => HostedStore(recs))
    BY InvIs DEF DeployInv, StoreInv
  <1>4. /\ Deploying(p) /\ Deploying(p)' /\ Decided(p)' /\ Planned(p)' /\ Unborn(p) /\ Unborn(p)'
        /\ ~HalfBorn(p)' /\ ~Born(p)'
    BY <1>1 DEF Deploying, Decided, Planned, Unborn, HalfBorn, Born, DeployPcs
  <1>5. n \in Attempts /\ n <= attempts /\ recs[n] = None
    BY <1>3, <1>4 DEF CliInv, NameFresh, InRangeOf
  <1>6. c.id = n \/ (c.id \in Attempts /\ recs[c.id] # None /\ recs[c.id].host # None)
    BY <1>1, <1>2
  <1>7. ASSUME NEW q \in Clis \ {p}
        PROVE  /\ Unborn(q) \/ HalfBorn(q) => c.id # cli[q].n
               /\ Deploying(q) => n # cli[q].n
    <2>1. NameFresh(q) /\ NameFresh(p) /\ p \in Clis \ {q}
      BY InvIs DEF CliInv
    <2>2. Unborn(q) \/ HalfBorn(q) => Deploying(q)
      BY DEF Unborn, HalfBorn, Deploying, DeployPcs
    <2> HIDE DEF c
    <2> QED  BY <1>4, <1>6, <2>1, <2>2 DEF NameFresh
  <1>8. GoodStep(p)
    BY <1>1, <1>7 DEF GoodStep
  <1>9. CliInv(p)'
    <2>1. PlanSound(p)'
      BY <1>1, <1>2, <1>3, <1>4 DEF CliInv, PlanSound, Creates, OfApp
    <2>2. BoxKept(p)' /\ Again(p)'
      BY <1>1 DEF BoxKept, Again
    <2>3. NameFresh(p)'
      <3>1. ASSUME NEW q \in Clis \ {p}
            PROVE  /\ cli'[q].id # n /\ cli'[q].seen[n] = None
                   /\ Deploying(q)' => cli'[q].n # n
        <4>1. NameFresh(p) /\ cli'[q] = cli[q] /\ Deploying(q)' = Deploying(q)
          BY <1>1, <1>3, SameStage DEF CliInv
        <4> QED  BY <1>4, <4>1 DEF NameFresh
      <3>2. c.n = n /\ c.seen[n] = None /\ recs'[n] = None /\ n <= attempts'
        BY <1>1, <1>5
      <3>3. \A q \in Clis : cli'[q].seen[n] = None
        BY <3>1, <3>2
      <3> QED  BY <1>4, <3>1, <3>2, <3>3 DEF NameFresh
    <2>4. IdBegun(p)'
      <3>1. c.id <= attempts
        BY <1>3, <1>5, <1>6 DEF Begun, Attempts
      <3> QED  BY <1>1, <3>1 DEF IdBegun
    <2>5. Begun(cli[p].seen)' /\ SoundStore(cli[p].seen)'
      BY <1>1, <1>3 DEF Begun, SoundStore, SoundRecord
    <2>6. NoDestroys(p)'
      BY <1>1, <1>3 DEF NoDestroys, HostedStore, Hosted, HasVM, OfApp, DestroyPcs
    <2> QED  BY <1>4, <2>1, <2>2, <2>3, <2>4, <2>5, <2>6 DEF CliInv
  <1> QED  BY <1>1, <1>8, <1>9, StepKeeps DEF Orderly
-----------------------------------------------------------------------------
(* The VM's record *)

\* A deploy that creates a VM works on the record of its own name.
LEMMA OwnRecord ==
    ASSUME DeployInv, NEW p \in Clis, cli[p].pc \in {"pending", "create", "created"}
    PROVE  /\ Creates(p) /\ Deploying(p) /\ Decided(p) /\ Planned(p)
           /\ cli[p].id = cli[p].n /\ cli[p].n \in Attempts /\ cli[p].n # None
           /\ cli[p].prior = None /\ cli[p].boxAgent = None
           /\ cli[p].req.prov # None /\ cli[p].req.project # None /\ cli[p].req.ident # None
           /\ CreatesInfrastructure(cli[p].req.prov)
  <1>1. CliInv(p) /\ InRangeOf(p)
    BY InvIs
  <1>2. Deploying(p) /\ Decided(p) /\ Planned(p)
    BY DEF Deploying, Decided, Planned, DeployPcs
  <1>3. Creates(p)
    BY <1>1 DEF InRangeOf
  <1> QED  BY <1>1, <1>2, <1>3, NoneIsNoId DEF CliInv, PlanSound, InRangeOf, Creates

\* A step that keeps the plan meets no other command's name.
LEMMA SamePlan ==
    ASSUME DeployInv, NEW p \in Clis, Others(p), UNCHANGED Plan(p), Deploying(p), Deploying(p)'
    PROVE  /\ cli'[p].n = cli[p].n /\ cli'[p].id = cli[p].id /\ cli'[p].seen = cli[p].seen
           /\ cli'[p].req = cli[p].req /\ cli'[p].box = cli[p].box
           /\ Creates(p)' = Creates(p) /\ NewVM(p)' = NewVM(p)
           /\ \A q \in Clis : cli'[q].seen = cli[q].seen /\ cli'[q].id = cli[q].id
           /\ \A q \in Clis \ {p} : Deploying(q)' => cli'[q].n # cli[p].n
           /\ \A q \in Clis \ {p} : /\ Unborn(q) \/ HalfBorn(q) => cli'[p].id # cli[q].n
                                    /\ Deploying(q) => cli'[p].n # cli[q].n
  <1>1. NameFresh(p)
    BY InvIs DEF CliInv
  <1>2. /\ cli'[p].n = cli[p].n /\ cli'[p].id = cli[p].id /\ cli'[p].seen = cli[p].seen
        /\ cli'[p].req = cli[p].req /\ cli'[p].box = cli[p].box
        /\ Creates(p)' = Creates(p) /\ NewVM(p)' = NewVM(p)
    BY DEF Plan, Creates, NewVM
  <1>3. \A q \in Clis : cli'[q].seen = cli[q].seen /\ cli'[q].id = cli[q].id
    BY <1>2 DEF Others
  <1>4. \A q \in Clis \ {p} : Deploying(q)' => cli'[q].n # cli[p].n
    BY <1>1, SameStage DEF NameFresh
  <1>5. ASSUME NEW q \in Clis \ {p}
        PROVE  /\ Unborn(q) \/ HalfBorn(q) => cli'[p].id # cli[q].n
               /\ Deploying(q) => cli'[p].n # cli[q].n
    <2>1. NameFresh(q) /\ p \in Clis \ {q}
      BY InvIs DEF CliInv
    <2> QED  BY <1>1, <1>2, <2>1 DEF NameFresh
  <1> QED  BY <1>2, <1>3, <1>4, <1>5

\* The VM's record is written before the VM is created.
LEMMA PendingKeeps ==
    ASSUME DeployInv, Undisturbed, NEW p \in Clis, PendingRecord(p)
    PROVE  DeployInv'
  <1> DEFINE n == cli[p].n
             req == cli[p].req
             rec == recs'[n]
  <1>1. /\ TypeInv' /\ Others(p) /\ UNCHANGED Plan(p) /\ cli[p].pc = "pending"
        /\ cli'[p].pc = "create"
        /\ attempts' = attempts /\ vms' = vms /\ asked' = asked
    BY InvIs, PendingIs DEF bounds, cloud, history
  <1>2. CliInv(p) /\ InRangeOf(p) /\ TypeOK
    BY InvIs
  <1>3. /\ Creates(p) /\ Deploying(p) /\ Decided(p) /\ Planned(p)
        /\ cli[p].id = n /\ n \in Attempts /\ n # None
        /\ req.prov # None /\ req.project # None /\ req.ident # None
        /\ CreatesInfrastructure(req.prov)
    BY <1>1, OwnRecord
  <1>4. /\ Deploying(p)' /\ Decided(p)' /\ Planned(p)' /\ Unborn(p) /\ ~Unborn(p)' /\ HalfBorn(p)'
    BY <1>1 DEF Deploying, Decided, Planned, Unborn, HalfBorn, DeployPcs
  <1>5. recs[n] = None /\ (\A q \in Clis : cli[q].seen[n] = None) /\ n <= attempts
        /\ \A q \in Clis \ {p} : cli[q].id # n
    BY <1>2, <1>3, <1>4 DEF CliInv, NameFresh
  <1>6. /\ rec # None /\ rec.prov = req.prov /\ rec.rname = n /\ rec.provisioning
        /\ rec.ident = req.ident /\ rec.project = req.project /\ rec.step = "pending_recorded"
        /\ rec.host = None /\ rec.iid = None /\ rec.agent = None
        /\ \A id \in Attempts \ {n} : recs'[id] = recs[id]
    <2> DEFINE w == [EmptyRecord EXCEPT !.prov = req.prov, !.rname = n, !.provisioning = TRUE,
                       !.ident = req.ident, !.project = req.project, !.created = Now,
                       !.step = "pending_recorded"]
    <2>1. Mutate(n, w)
      BY <1>3, <1>5, PendingIs, InvIs DEF Loaded
    <2>2. w \in Record
      BY <1>2, <1>3, EmptyTypes, NowIsNumber, InvIs DEF Record, Requests, Checkpoints
    <2>3. rec = w /\ rec # None /\ \A id \in Attempts \ {n} : recs'[id] = recs[id]
      BY <1>2, <1>3, <2>1, <2>2, MutateIs
    <2> QED  BY <2>3 DEF EmptyRecord
  <1> HIDE DEF rec
  <1>8. /\ cli'[p].n = n /\ cli'[p].id = n /\ cli'[p].seen = cli[p].seen /\ NewVM(p)' = NewVM(p)
        /\ \A q \in Clis : cli'[q].seen = cli[q].seen /\ cli'[q].id = cli[q].id
        /\ \A q \in Clis \ {p} : Deploying(q)' => cli'[q].n # n
        /\ \A q \in Clis \ {p} : /\ Unborn(q) \/ HalfBorn(q) => cli'[p].id # cli[q].n
                                 /\ Deploying(q) => cli'[p].n # cli[q].n
    BY <1>1, <1>3, <1>4, SamePlan
  <1>9. GoodWrite(p, n)
    <2>1. SoundRecord(rec)
      BY <1>3, <1>6 DEF SoundRecord, StepRank
    <2> QED  BY <1>3, <1>5, <1>6, <2>1 DEF GoodWrite, Boxed, Followed, Hosted, rec
  <1>10. GoodStep(p)
    BY <1>1, <1>6, <1>8, <1>9 DEF GoodStep
  <1>11. CliInv(p)'
    <2>1. PlanSound(p)'
      BY <1>1, <1>2, <1>3, <1>4 DEF CliInv, PlanSound, Plan, OfApp, Creates
    <2>2. BoxKept(p)' /\ Again(p)'
      BY <1>1 DEF BoxKept, Again
    <2>3. NameFresh(p)'
      BY <1>1, <1>4, <1>5, <1>6, <1>8 DEF NameFresh, rec
    <2>4. IdBegun(p)' /\ Begun(cli[p].seen)' /\ SoundStore(cli[p].seen)'
      BY <1>1, <1>2, <1>5, <1>8 DEF CliInv, IdBegun, Begun, SoundStore, SoundRecord
    <2>5. NoDestroys(p)'
      BY <1>1, <1>2, <1>8 DEF CliInv, NoDestroys, HostedStore, Hosted, HasVM, OfApp, DestroyPcs
    <2>6. Followed(NewVM(p))'
      <3>1. Tracks(rec, NewVM(p))
        BY <1>3, <1>6 DEF Tracks, Names, OfApp, NewVM
      <3>2. NewVM(p).name = n
        BY DEF NewVM
      <3>3. rec = recs'[n]
        BY DEF rec
      <3>4. recs'[n] # None /\ Tracks(recs'[n], NewVM(p))
        BY <1>6, <3>1, <3>3
      <3>5. \A q \in Clis : cli'[q].seen[n] = None
        BY <1>5, <1>8
      <3> QED  BY <1>8, <3>2, <3>4, <3>5 DEF Followed, Tracks, Names, OfApp
    <2> QED  BY <2>1, <2>2, <2>3, <2>4, <2>5, <2>6 DEF CliInv
  <1> QED  BY <1>1, <1>10, <1>11, StepKeeps

\* The record learns the VM's id, and its address if there is one yet.
LEMMA InstanceKeeps ==
    ASSUME DeployInv, Undisturbed, NEW p \in Clis, InstanceCreated(p)
    PROVE  DeployInv'
  <1> DEFINE n == cli[p].n
             req == cli[p].req
  <1>1. /\ TypeInv' /\ Others(p) /\ UNCHANGED Plan(p) /\ cli[p].pc = "created"
        /\ cli'[p].pc = "record"
        /\ attempts' = attempts /\ vms' = vms /\ asked' = asked
    BY InvIs, InstanceIs DEF bounds, cloud, history
  <1>2. CliInv(p) /\ InRangeOf(p) /\ TypeOK
    BY InvIs
  <1>3. /\ Creates(p) /\ Deploying(p) /\ Decided(p) /\ Planned(p)
        /\ cli[p].id = n /\ n \in Attempts /\ n # None
        /\ CreatesInfrastructure(req.prov)
    BY <1>1, OwnRecord
  <1>4. /\ Deploying(p)' /\ Decided(p)' /\ Planned(p)' /\ HalfBorn(p) /\ Born(p)
    BY <1>1 DEF Deploying, Decided, Planned, HalfBorn, Born, DeployPcs
  <1>5. /\ recs[n] # None /\ recs[n].host = None /\ n <= attempts
        /\ Followed(NewVM(p)) /\ SoundRecord(recs[n]) /\ recs[n] \in Record
    <2>1. recs[n] # None /\ recs[n].host = None /\ n <= attempts /\ Followed(NewVM(p))
      BY <1>2, <1>3, <1>4 DEF CliInv, NameFresh
    <2> QED  BY <1>3, <2>1, InvIs DEF DeployInv, StoreInv, SoundStore, Stores
  <1>6. /\ cli'[p].n = n /\ cli'[p].id = n /\ cli'[p].seen = cli[p].seen /\ NewVM(p)' = NewVM(p)
        /\ Creates(p)'
        /\ \A q \in Clis : cli'[q].seen = cli[q].seen /\ cli'[q].id = cli[q].id
        /\ \A q \in Clis \ {p} : Deploying(q)' => cli'[q].n # n
        /\ \A q \in Clis \ {p} : /\ Unborn(q) \/ HalfBorn(q) => cli'[p].id # cli[q].n
                                 /\ Deploying(q) => cli'[p].n # cli[q].n
    BY <1>1, <1>3, <1>4, SamePlan
  <1>7. ~Unborn(p)' /\ ~HalfBorn(p)'
    BY <1>1, <1>6 DEF Unborn, HalfBorn
  <1>8. \A id \in Attempts : recs'[id] # recs[id] => GoodWrite(p, id)
    <2>1. CASE UNCHANGED recs
      BY <2>1
    <2>2. CASE \E host \in {n, Loaded(n).host} :
                  Mutate(n, [Loaded(n) EXCEPT !.iid = n, !.host = host,
                                              !.step = "instance_created"])
      <3>1. Loaded(n) = recs[n]
        BY <1>5 DEF Loaded
      <3>2. PICK host \in {n, None} :
                  Mutate(n, [recs[n] EXCEPT !.iid = n, !.host = host,
                                            !.step = "instance_created"])
        BY <2>2, <3>1, <1>5
      <3> DEFINE w == [recs[n] EXCEPT !.iid = n, !.host = host, !.step = "instance_created"]
      <3>3. /\ w \in Record /\ w.iid = n /\ w.host = host /\ w.step = "instance_created"
            /\ w.prov = recs[n].prov /\ w.project = recs[n].project /\ w.ident = recs[n].ident
            /\ w.agent = recs[n].agent
        BY <1>3, <1>5 DEF Record, Boxes, Checkpoints
      <3>4. Mutate(n, w)
        BY <3>2
      <3> HIDE DEF w
      <3>5. recs'[n] = w /\ w # None /\ \A id \in Attempts \ {n} : recs'[id] = recs[id]
        BY <1>2, <1>3, <3>3, <3>4, MutateIs
      <3>6. SoundRecord(w)
        BY <1>3, <1>5, <3>3 DEF SoundRecord, StepRank
      <3>7. \A vm : Followed(vm) /\ vm.name = n => Tracks(w, vm)
        BY <1>5, <3>3 DEF Followed, Tracks, Names, OfApp
      <3>8. MaxDestroys = 0 => Hosted(w)
        <4>1. SUFFICES ASSUME MaxDestroys = 0 PROVE HasVM(w)
          BY DEF Hosted
        <4>2. NewVM(p) \in vms
          BY <1>1, <1>2, <4>1 DEF CliInv, NoDestroys
        <4>3. OfApp(recs[n], NewVM(p)) /\ NewVM(p).prov = req.prov
          BY <1>5 DEF Followed, Tracks, NewVM
        <4> QED  BY <1>3, <3>3, <4>2, <4>3 DEF HasVM, OfApp
      <3>9. GoodWrite(p, n)
        BY <1>3, <1>5, <3>5, <3>6, <3>7, <3>8 DEF GoodWrite, Boxed
      <3> QED  BY <3>5, <3>9
    <2> QED  BY <1>3, <2>1, <2>2, InstanceIs, InvIs
  <1>9. GoodStep(p)
    BY <1>1, <1>6, <1>8 DEF GoodStep
  <1>10. CliInv(p)'
    <2>1. PlanSound(p)'
      BY <1>1, <1>2, <1>3, <1>4 DEF CliInv, PlanSound, Plan, OfApp, Creates
    <2>2. BoxKept(p)' /\ Again(p)'
      BY <1>1 DEF BoxKept, Again
    <2>3. NameFresh(p)'
      BY <1>1, <1>5, <1>6, <1>7 DEF NameFresh
    <2>4. IdBegun(p)' /\ Begun(cli[p].seen)' /\ SoundStore(cli[p].seen)'
      BY <1>1, <1>2, <1>5, <1>6 DEF CliInv, IdBegun, Begun, SoundStore, SoundRecord
    <2>5. NoDestroys(p)'
      BY <1>1, <1>2, <1>6 DEF CliInv, NoDestroys, HostedStore, Hosted, HasVM, OfApp, DestroyPcs
    <2>6. Followed(NewVM(p))'
      <3>1. NewVM(p).name \in Attempts
        BY <1>3 DEF NewVM
      <3>2. \A vm : vm = NewVM(p) => Followed(vm)'
        BY <1>1, <1>5, <1>9, <3>1, FollowedStays
      <3> QED  BY <1>6, <3>2 DEF Followed, Tracks, Names, OfApp
    <2> QED  BY <2>1, <2>2, <2>3, <2>4, <2>5, <2>6 DEF CliInv
  <1> QED  BY <1>1, <1>9, <1>10, StepKeeps
-----------------------------------------------------------------------------
(* The box is recorded *)

\* What RecordBox writes is sound, and follows the VM that the record followed.
LEMMA BoxWrite ==
    ASSUME DeployInv, Orderly, NEW p \in Clis, cli[p].pc = "record", BoxUp(Target(p)),
           Target(p) \in Boxes, NEW w, BoxRecord(p, w)
    PROVE  /\ SoundRecord(w) /\ Boxed(w) /\ w # None
           /\ \A vm : Followed(vm) /\ vm.name = cli[p].id => Tracks(w, vm)
           /\ MaxDestroys = 0 => Hosted(w)
  <1> DEFINE c == cli[p]
             req == c.req
             prior == c.seen[c.prior]
             box == c.seen[c.box]
  <1>1. /\ w \in Record /\ ~w.provisioning /\ w.host = Target(p) /\ w.step = "box_recorded"
        /\ w.ident = req.ident /\ w.project = req.project /\ w.conn # None
        /\ IF Carries(p) THEN w.prov = prior.prov /\ w.iid = prior.iid /\ w.rname = prior.rname
           ELSE /\ w.prov = req.prov
                /\ w.iid   = IF Creates(p) THEN c.n ELSE IF c.box # None THEN box.iid ELSE None
                /\ w.rname = IF Creates(p) THEN c.n ELSE IF c.box # None THEN box.rname ELSE None
    BY DEF BoxRecord
  <1>2. w # None /\ w.host # None /\ Boxed(w) /\ OfApp(w, req)
    BY <1>1, NoneIsNoId, NoneIsNoRecord DEF Boxed, OfApp
  <1>3. CliInv(p) /\ InRangeOf(p) /\ Deploying(p) /\ Decided(p) /\ Planned(p)
    BY InvIs DEF Deploying, Decided, Planned, DeployPcs
  <1>4. /\ c.n \in Attempts /\ c.n # None
        /\ req.prov # None /\ req.project # None /\ req.ident # None
        /\ c.box # None => /\ CreatesInfrastructure(req.prov) /\ CreatesInfrastructure(box.prov)
                           /\ box.host = c.host /\ OfApp(box, req)
        /\ c.prior # None => prior.host = c.host /\ OfApp(prior, req)
        /\ c.id = IF c.prior # None THEN c.prior ELSE IF c.box # None THEN c.box ELSE c.n
        /\ IF Creates(p) THEN c.prior = None /\ c.boxAgent = None ELSE c.host # None
    BY <1>3, NoneIsNoId DEF CliInv, PlanSound, InRangeOf
  <1>5. /\ c.box # None => c.box \in Attempts /\ box # None /\ SoundRecord(box)
        /\ c.prior # None => c.prior \in Attempts /\ prior # None /\ SoundRecord(prior)
    BY <1>3, InvIs DEF InRangeOf, CliInv, SoundStore, Commands
  <1>6. MaxDestroys = 0 => /\ asked = {}
                           /\ c.box # None => Hosted(box)
                           /\ c.prior # None => Hosted(prior)
    BY <1>3, <1>5 DEF CliInv, NoDestroys, HostedStore, DeployInv, StoreInv
  <1>7. SUFFICES /\ w.prov # None
                 /\ CreatesInfrastructure(w.prov) => w.iid = w.host
                 /\ \A vm : Followed(vm) /\ vm.name = c.id => Tracks(w, vm)
                 /\ MaxDestroys = 0 => Hosted(w)
    <2>1. w.project # None /\ w.ident # None
      BY <1>1, <1>4
    <2>2. ASSUME w.prov # None, CreatesInfrastructure(w.prov) => w.iid = w.host
          PROVE  SoundRecord(w)
      BY <1>1, <1>2, <2>1, <2>2 DEF SoundRecord, StepRank
    <2> QED  BY <1>2, <2>2
  <1> HIDE DEF c
  <1>8. CASE Creates(p)
    <2>1. /\ ~Carries(p) /\ w.prov = req.prov /\ w.iid = c.n /\ w.rname = c.n /\ w.host = c.n
          /\ CreatesInfrastructure(req.prov) /\ c.id = c.n
      BY <1>1, <1>4, <1>8 DEF Carries, Creates, Target, c
    <2>2. Followed(NewVM(p)) /\ NewVM(p).name = c.n
      BY <1>3, <1>8 DEF CliInv, Born, NewVM, c
    <2>3. recs[c.n] # None /\ OfApp(recs[c.n], req) /\ recs[c.n].prov = req.prov
      BY <2>2 DEF Followed, Tracks, NewVM, OfApp, c
    <2>4. ASSUME NEW vm, Followed(vm), vm.name = c.n PROVE OfApp(vm, req) /\ vm.prov = req.prov
      BY <2>3, <2>4 DEF Followed, Tracks, OfApp
    <2>5. \A vm : Followed(vm) /\ vm.name = c.id => Tracks(w, vm)
      BY <1>2, <2>1, <2>4 DEF Tracks, Names, OfApp
    <2>6. ASSUME MaxDestroys = 0 PROVE Hosted(w)
      <3>1. c.n \in Running
        BY <1>4, <2>1, <1>1, NamesDiffer DEF BoxUp
      <3>2. PICK vm \in vms : vm.name = c.n
        BY <3>1 DEF Running
      <3>3. Followed(vm)
        BY <1>6, <2>6 DEF DeployInv, StoreInv
      <3>4. OfApp(vm, w) /\ CreatesInfrastructure(vm.prov)
        BY <1>2, <2>1, <2>4, <3>2, <3>3 DEF OfApp
      <3> QED  BY <3>4 DEF Hosted, HasVM
    <2> QED  BY <1>4, <2>1, <2>5, <2>6
  <1>9. CASE ~Creates(p) /\ c.box # None
    <2>1. ~Carries(p) /\ w.prov = req.prov /\ w.iid = box.iid /\ w.host = c.host
      BY <1>1, <1>4, <1>9 DEF Carries, Target, c
    <2>2. /\ CreatesInfrastructure(req.prov) /\ req.prov = box.prov
          /\ c.host # None /\ box.iid = c.host
      BY <1>4, <1>5, <1>9 DEF SoundRecord, Orderly, OneProvider, CreatesInfrastructure
    <2>3. ASSUME NEW vm, Followed(vm), vm.name = c.id PROVE Tracks(w, vm)
      <3>1. PICK rec : /\ Tracks(rec, vm) /\ rec # None /\ rec.host = c.host /\ OfApp(rec, req)
        BY <1>4, <1>5, <1>9, <2>3 DEF Followed, c
      <3>2. c.host = c.id /\ CreatesInfrastructure(vm.prov) /\ OfApp(w, vm)
        BY <1>2, <2>2, <2>3, <3>1 DEF Tracks, Names, OfApp
      <3>3. w.prov = vm.prov
        BY <2>1, <2>2, <3>2 DEF Orderly, OneProvider, CreatesInfrastructure
      <3> QED  BY <2>1, <2>2, <2>3, <3>2, <3>3 DEF Tracks, Names
    <2>4. MaxDestroys = 0 => Hosted(w)
      BY <1>2, <1>4, <1>6, <1>9, <2>2 DEF Hosted, HasVM, OfApp
    <2> QED  BY <1>4, <2>1, <2>2, <2>3, <2>4
  <1>10. CASE ~Creates(p) /\ c.box = None /\ Carries(p)
    <2>1. /\ w.prov = prior.prov /\ w.iid = prior.iid /\ w.rname = prior.rname /\ w.host = c.host
          /\ c.prior # None /\ CreatesInfrastructure(prior.prov) /\ c.id = c.prior
          /\ prior.host = c.host /\ c.host # None /\ OfApp(prior, req)
      BY <1>1, <1>4, <1>10 DEF Carries, Creates, Target, c
    <2>2. w.iid = w.host /\ w.prov # None
      BY <1>5, <2>1 DEF SoundRecord
    <2>3. ASSUME NEW vm, Followed(vm), vm.name = c.id PROVE Tracks(w, vm)
      <3>1. Tracks(prior, vm)
        BY <2>1, <2>3 DEF Followed, c
      <3> QED  BY <1>2, <1>5, <2>1, <3>1 DEF Tracks, Names, OfApp
    <2>4. MaxDestroys = 0 => Hosted(w)
      BY <1>2, <1>6, <2>1 DEF Hosted, HasVM, OfApp
    <2> QED  BY <2>2, <2>3, <2>4
  <1>11. CASE ~Creates(p) /\ c.box = None /\ ~Carries(p)
    <2>1. w.prov = req.prov /\ ~CreatesInfrastructure(w.prov)
      BY <1>1, <1>11 DEF Creates, c
    <2>2. ASSUME NEW vm, Followed(vm), vm.name = c.id PROVE FALSE
      <3>1. CASE c.prior = None
        <4>1. c.id = c.n /\ Unborn(p)
          BY <1>4, <1>11, <3>1 DEF Unborn
        <4> QED  BY <1>3, <2>2, <4>1 DEF CliInv, NameFresh, Followed, c
      <3>2. CASE c.prior # None
        <4>1. Tracks(prior, vm)
          BY <1>4, <2>2, <3>2 DEF Followed, c
        <4>2. CreatesInfrastructure(prior.prov)
          BY <1>5, <3>2, <4>1 DEF Tracks, Names
        <4> QED  BY <1>5, <1>11, <2>1, <1>1, <3>2, <4>2 DEF Carries, SoundRecord, c
      <3> QED  BY <3>1, <3>2
    <2> QED  BY <1>4, <2>1, <2>2 DEF Hosted
  <1> QED  BY <1>8, <1>9, <1>10, <1>11

LEMMA RecordKeeps ==
    ASSUME DeployInv, Orderly, NEW p \in Clis, RecordBox(p)
    PROVE  DeployInv'
  <1> DEFINE id == cli[p].id
  <1>1. /\ TypeInv' /\ Others(p) /\ cli[p].pc = "record" /\ cli'[p].pc = "bootstrap"
        /\ cli'[p].seen = NoRecs /\ cli'[p].n = cli[p].n /\ cli'[p].req = cli[p].req
        /\ cli'[p].id = id /\ BoxUp(Target(p)) /\ id \in Attempts /\ Target(p) \in Boxes
        /\ attempts' = attempts /\ vms' = vms /\ asked' = asked
    BY InvIs, RecordIs DEF bounds, cloud, history
  <1>2. PICK w : BoxRecord(p, w) /\ Mutate(id, w)
    BY InvIs, RecordIs
  <1>3. CliInv(p) /\ InRangeOf(p) /\ TypeOK /\ w \in Record
    BY <1>2, InvIs DEF BoxRecord
  <1>4. recs'[id] = w /\ \A other \in Attempts \ {id} : recs'[other] = recs[other]
    BY <1>1, <1>2, <1>3, MutateIs
  <1>5. /\ SoundRecord(w) /\ Boxed(w) /\ w # None
        /\ \A vm : Followed(vm) /\ vm.name = id => Tracks(w, vm)
        /\ MaxDestroys = 0 => Hosted(w)
    BY <1>1, <1>2, BoxWrite
  <1>6. /\ Deploying(p) /\ Deploying(p)' /\ Decided(p) /\ Decided(p)' /\ ~Planned(p)'
        /\ ~Unborn(p)' /\ ~HalfBorn(p)' /\ ~Born(p)'
    BY <1>1 DEF Deploying, Decided, Planned, Unborn, HalfBorn, Born, DeployPcs
  <1>7. GoodWrite(p, id)
    BY <1>4, <1>5, <1>6 DEF GoodWrite
  <1>8. ASSUME NEW q \in Clis \ {p}
        PROVE  /\ Unborn(q) \/ HalfBorn(q) => cli'[p].id # cli[q].n
               /\ Deploying(q) => cli'[p].n # cli[q].n
               /\ Deploying(q)' => cli'[q].n # cli[p].n
    <2>1. NameFresh(q) /\ NameFresh(p) /\ p \in Clis \ {q}
      BY InvIs DEF CliInv
    <2> QED  BY <1>1, <1>6, <2>1, SameStage DEF NameFresh
  <1>9. GoodStep(p)
    BY <1>1, <1>4, <1>7, <1>8 DEF GoodStep
  <1>10. CliInv(p)'
    <2>1. PlanSound(p)' /\ Again(p)'
      BY <1>1, <1>3, <1>6 DEF CliInv, PlanSound, Again
    <2>2. BoxKept(p)'
      BY <1>1, <1>4, <1>5 DEF BoxKept, Boxed
    <2>3. NameFresh(p)'
      BY <1>1, <1>3, <1>6, <1>8 DEF CliInv, NameFresh
    <2>4. IdBegun(p)' /\ Begun(cli[p].seen)' /\ SoundStore(cli[p].seen)'
      BY <1>1, <1>3, <1>6, NoRecsIs DEF CliInv, IdBegun, Begun, SoundStore
    <2>5. NoDestroys(p)'
      BY <1>1, NoRecsIs DEF NoDestroys, HostedStore, DestroyPcs
    <2> QED  BY <1>6, <2>1, <2>2, <2>3, <2>4, <2>5 DEF CliInv
  <1> QED  BY <1>1, <1>9, <1>10, StepKeeps DEF Orderly
-----------------------------------------------------------------------------
(* The agent is recorded, and the record removed *)

\* The agent joins a record that has its box already.
LEMMA AgentWrite ==
    ASSUME DeployInv, NEW p \in Clis, cli[p].pc \in {"agent", "finalize"}, NEW a \in Attempts,
           NEW step \in {"agent_paired", "finalized"},
           Mutate(cli[p].id, [Loaded(cli[p].id) EXCEPT !.agent = a, !.step = step])
    PROVE  /\ GoodWrite(p, cli[p].id) /\ Boxed(recs'[cli[p].id])
           /\ \A other \in Attempts \ {cli[p].id} : recs'[other] = recs[other]
  <1> DEFINE id == cli[p].id
             rec == recs[id]
             w == [rec EXCEPT !.agent = a, !.step = step]
  <1>1. CliInv(p) /\ InRangeOf(p) /\ Decided(p) /\ TypeOK
    BY InvIs DEF Decided, DeployPcs
  <1>2. id \in Attempts /\ Boxed(rec) /\ rec # None /\ Loaded(id) = rec
    BY <1>1 DEF InRangeOf, CliInv, BoxKept, Boxed, Loaded
  <1>3. rec \in Record /\ SoundRecord(rec)
    BY <1>2, InvIs DEF Stores, DeployInv, StoreInv, SoundStore
  <1>4. /\ w \in Record /\ w.agent = a /\ w.step = step /\ w.prov = rec.prov
        /\ w.project = rec.project /\ w.ident = rec.ident /\ w.provisioning = rec.provisioning
        /\ w.host = rec.host /\ w.conn = rec.conn /\ w.iid = rec.iid /\ w.rname = rec.rname
    BY <1>3 DEF Record, Checkpoints
  <1>5. Mutate(id, w)
    BY <1>2
  <1> HIDE DEF w
  <1>6. recs'[id] = w /\ w # None /\ \A other \in Attempts \ {id} : recs'[other] = recs[other]
    BY <1>1, <1>2, <1>4, <1>5, MutateIs
  <1>7. SoundRecord(w) /\ Boxed(w)
    BY <1>2, <1>3, <1>4, <1>6, NoneIsNoId DEF SoundRecord, Boxed, StepRank
  <1>8. \A vm : Followed(vm) /\ vm.name = id => Tracks(w, vm)
    BY <1>2, <1>4 DEF Followed, Tracks, Names, OfApp
  <1>9. MaxDestroys = 0 => Hosted(w)
    BY <1>2, <1>4 DEF DeployInv, StoreInv, HostedStore, Hosted, HasVM, OfApp
  <1> QED  BY <1>1, <1>6, <1>7, <1>8, <1>9 DEF GoodWrite

LEMMA WaitKeeps ==
    ASSUME DeployInv, Undisturbed, NEW p \in Clis, WaitAgent(p)
    PROVE  DeployInv'
  <1> DEFINE id == cli[p].id
  <1>1. /\ TypeInv' /\ Others(p) /\ UNCHANGED Plan(p) /\ cli[p].pc = "agent"
        /\ cli'[p].pc = "finalize" /\ cli'[p].agent \in Attempts /\ id \in Attempts
        /\ attempts' = attempts /\ vms' = vms /\ asked' = asked
        /\ \/ UNCHANGED recs
           \/ Mutate(id, [Loaded(id) EXCEPT !.agent = cli'[p].agent, !.step = "agent_paired"])
    BY InvIs, WaitIs DEF bounds, cloud, history
  <1>2. CliInv(p) /\ InRangeOf(p)
    BY InvIs
  <1>3. /\ Deploying(p) /\ Deploying(p)' /\ Decided(p) /\ Decided(p)' /\ ~Planned(p)'
        /\ ~Unborn(p)' /\ ~HalfBorn(p)' /\ ~Born(p)'
    BY <1>1 DEF Deploying, Decided, Planned, Unborn, HalfBorn, Born, DeployPcs
  <1>4. /\ Boxed(recs'[id])
        /\ \A other \in Attempts : recs'[other] # recs[other] => GoodWrite(p, other)
    <2>1. CASE UNCHANGED recs
      BY <1>1, <1>2, <2>1 DEF CliInv, BoxKept, Boxed
    <2>2. CASE Mutate(id, [Loaded(id) EXCEPT !.agent = cli'[p].agent, !.step = "agent_paired"])
      BY <1>1, <2>2, AgentWrite
    <2> QED  BY <1>1, <2>1, <2>2
  <1>5. /\ cli'[p].n = cli[p].n /\ cli'[p].id = id /\ cli'[p].seen = cli[p].seen
        /\ cli'[p].req = cli[p].req
        /\ \A q \in Clis \ {p} : Deploying(q)' => cli'[q].n # cli[p].n
        /\ \A q \in Clis \ {p} : /\ Unborn(q) \/ HalfBorn(q) => cli'[p].id # cli[q].n
                                 /\ Deploying(q) => cli'[p].n # cli[q].n
    BY <1>1, <1>3, SamePlan
  <1>6. GoodStep(p)
    BY <1>1, <1>4, <1>5 DEF GoodStep
  <1>7. CliInv(p)'
    <2>1. PlanSound(p)' /\ Again(p)'
      BY <1>1, <1>2, <1>3, <1>5 DEF CliInv, PlanSound, Again
    <2>2. BoxKept(p)'
      BY <1>1, <1>4, <1>5, NoneIsNoId DEF BoxKept, Boxed
    <2>3. NameFresh(p)'
      BY <1>1, <1>2, <1>3, <1>5 DEF CliInv, NameFresh
    <2>4. IdBegun(p)' /\ Begun(cli[p].seen)' /\ SoundStore(cli[p].seen)'
      BY <1>1, <1>2, <1>3, <1>5 DEF CliInv, IdBegun, Begun, SoundStore, SoundRecord
    <2>5. NoDestroys(p)'
      BY <1>1, <1>2, <1>5 DEF CliInv, NoDestroys, HostedStore, Hosted, HasVM, OfApp, DestroyPcs
    <2> QED  BY <1>3, <2>1, <2>2, <2>3, <2>4, <2>5 DEF CliInv
  <1> QED  BY <1>1, <1>6, <1>7, StepKeeps

LEMMA FinalizeKeeps ==
    ASSUME DeployInv, Undisturbed, NEW p \in Clis, FinalizeRecord(p)
    PROVE  DeployInv'
  <1> DEFINE id == cli[p].id
  <1>1. /\ TypeInv' /\ Others(p) /\ cli[p].pc = "finalize" /\ cli'[p] = IdleCli
        /\ attempts' = attempts /\ vms' = vms /\ asked' = asked
        /\ Mutate(id, [Loaded(id) EXCEPT !.agent = cli[p].agent, !.step = "finalized"])
    BY InvIs, FinalizeIs DEF bounds, cloud, history
  <1>2. cli'[p].pc = "idle" /\ cli'[p].seen = NoRecs /\ cli'[p].id = None
    BY <1>1 DEF IdleCli
  <1>3. cli[p].agent \in Attempts
    BY <1>1, InvIs DEF CliInv, BoxKept, Commands
  <1>4. \A other \in Attempts : recs'[other] # recs[other] => GoodWrite(p, other)
    BY <1>1, <1>3, AgentWrite
  <1>5. ASSUME NEW q \in Clis \ {p}, Unborn(q) \/ HalfBorn(q) PROVE cli'[p].id # cli[q].n
    <2>1. Deploying(q)
      BY <1>5 DEF Unborn, HalfBorn, Deploying, DeployPcs
    <2> QED  BY <1>2, <2>1, InvIs, NoneIsNoId DEF InRangeOf
  <1>6. GoodStep(p)
    BY <1>1, <1>2, <1>4, <1>5 DEF GoodStep, Deploying, DeployPcs
  <1>7. CliInv(p)'
    BY <1>1, <1>2, NoPlan
  <1> QED  BY <1>1, <1>6, <1>7, StepKeeps

\* The VM of a record that is removed is one that was asked to be destroyed.
LEMMA RemoveKeeps ==
    ASSUME DeployInv, Undisturbed, NEW p \in Clis, RemoveRecord(p)
    PROVE  DeployInv'
  <1> DEFINE id == cli[p].id
  <1>1. /\ TypeInv' /\ Others(p) /\ cli[p].pc = "remove" /\ cli'[p] = IdleCli /\ id \in Attempts
        /\ attempts' = attempts /\ vms' = vms
        /\ recs' = [recs EXCEPT ![id] = None]
        /\ asked' = asked \cup {n \in Attempts : Names(cli[p].dep, n) \/ Names(recs[id], n)}
    BY InvIs, RemoveIs DEF bounds, cloud
  <1>2. MaxDestroys # 0 /\ OneTerminal
    BY <1>1, InvIs DEF CliInv, NoDestroys, Undisturbed, DestroyPcs
  <1>3. cli'[p].pc = "idle" /\ cli'[p].seen = NoRecs /\ cli'[p].id = None
    BY <1>1 DEF IdleCli
  <1>4. \A q \in Clis : CliInv(q)'
    <2>1. CliInv(p)'
      BY <1>1, <1>2, <1>3, NoPlan
    <2>2. \A q \in Clis : q = p
      BY <1>2 DEF OneTerminal
    <2> QED  BY <2>1, <2>2
  <1>5. recs'[id] = None /\ \A n \in Attempts : n # id => recs'[n] = recs[n]
    BY <1>1, InvIs DEF Stores
  <1>6. SoundStore(recs)' /\ Begun(recs)'
    <2>1. SoundStore(recs) /\ Begun(recs)
      BY DEF DeployInv, StoreInv
    <2> QED  BY <1>1, <1>5, <2>1 DEF SoundStore, SoundRecord, Begun
  <1>7. ASSUME NEW vm \in vms, vm.name \notin asked' PROVE Followed(vm)'
    <2>1. vm.name \in Attempts /\ Followed(vm)
      BY <1>1, <1>7, InvIs DEF DeployInv, StoreInv, VMs
    <2>2. Names(recs[vm.name], vm.name)
      BY <2>1 DEF Followed, Tracks
    <2>3. vm.name # id
      BY <1>1, <1>7, <2>1, <2>2
    <2>4. recs'[vm.name] = recs[vm.name]
      BY <1>5, <2>1, <2>3
    <2>5. \A q \in Clis : Tracks(cli'[q].seen[vm.name], vm)
      <3>1. \A q \in Clis : q = p
        BY <1>2 DEF OneTerminal
      <3> QED  BY <1>3, <2>1, <3>1, NoRecsIs DEF Tracks
    <2> QED  BY <2>1, <2>4, <2>5 DEF Followed, Tracks, Names, OfApp
  <1>8. StoreInv'
    BY <1>1, <1>2, <1>6, <1>7 DEF DeployInv, StoreInv
  <1> QED  BY <1>1, <1>4, <1>8 DEF DeployInv

-----------------------------------------------------------------------------
(* The theorems *)

LEMMA DeployInitially == Init => DeployInv
  <1> SUFFICES ASSUME Init PROVE DeployInv
    OBVIOUS
  <1>1. TypeInv
    BY TypesInitially
  <1>2. SoundStore(recs) /\ Begun(recs) /\ HostedStore(recs)
    BY NoRecsIs DEF Init, SoundStore, Begun, HostedStore
  <1>3. StoreInv
    BY <1>2 DEF Init, StoreInv
  <1>4. ASSUME NEW p \in Clis PROVE CliInv(p)
    <2>1. cli[p].pc = "idle" /\ cli[p].id = None /\ cli[p].seen = NoRecs
      BY DEF Init, IdleCli
    <2>2. /\ ~Deploying(p) /\ ~Decided(p) /\ ~Planned(p) /\ ~Unborn(p) /\ ~HalfBorn(p) /\ ~Born(p)
      BY <2>1 DEF Deploying, Decided, Planned, Unborn, HalfBorn, Born, DeployPcs
    <2> QED  BY <2>1, <2>2, NoRecsIs
             DEF CliInv, PlanSound, BoxKept, NameFresh, IdBegun, Begun, SoundStore, Again, NoDestroys,
                 HostedStore, DestroyPcs
  <1> QED  BY <1>1, <1>3, <1>4 DEF DeployInv

LEMMA DeployStutters == DeployInv /\ UNCHANGED vars => DeployInv'
  <1> SUFFICES ASSUME DeployInv, UNCHANGED vars PROVE DeployInv'
    OBVIOUS
  <1>1. TypeInv'
    BY TypesInductive DEF DeployInv
  <1>2. /\ attempts' = attempts /\ recs' = recs /\ vms' = vms /\ cli' = cli /\ asked' = asked
    BY DEF vars
  <1>3. /\ \A vm : Followed(vm) => Followed(vm)'
        /\ \A store : /\ SoundStore(store) => SoundStore(store)'
                      /\ HostedStore(store) => HostedStore(store)'
                      /\ Begun(store) => Begun(store)'
    BY <1>2 DEF Followed, Tracks, Names, OfApp, SoundStore, SoundRecord, HostedStore, Hosted, HasVM,
       Begun
  <1>4. StoreInv'
    BY <1>2, <1>3 DEF DeployInv, StoreInv, Followed, Tracks, SoundStore, SoundRecord, HostedStore,
       Hosted, HasVM, OfApp, Begun
  <1>5. ASSUME NEW p \in Clis PROVE CliInv(p)'
    <2>1. CliInv(p) /\ PlanSound(p) /\ BoxKept(p) /\ NameFresh(p) /\ IdBegun(p) /\ Again(p)
          /\ NoDestroys(p)
      BY DEF DeployInv, CliInv
    <2>2. PlanSound(p)' /\ BoxKept(p)' /\ IdBegun(p)'
      BY <1>2, <2>1 DEF PlanSound, BoxKept, IdBegun, Deploying, Decided, Planned, Creates, OfApp,
         Boxed
    <2>3. NameFresh(p)'
      BY <1>2, <2>1 DEF NameFresh, Deploying, Unborn, HalfBorn, Creates
    <2>4. Again(p)' /\ NoDestroys(p)'
      BY <1>2, <2>1 DEF Again, NoDestroys, HasVM, HasBox, OfApp, HostedStore, Hosted, NewVM
    <2>5. Begun(cli[p].seen)' /\ SoundStore(cli[p].seen)'
      BY <1>2, <2>1 DEF CliInv, Begun, SoundStore, SoundRecord
    <2>6. Born(p)' => Followed(NewVM(p))'
      BY <1>2, <2>1 DEF CliInv, Born, HalfBorn, Creates, Followed, Tracks, Names, OfApp, NewVM
    <2> QED  BY <2>2, <2>3, <2>4, <2>5, <2>6 DEF CliInv
  <1> QED  BY <1>1, <1>4, <1>5 DEF DeployInv

LEMMA DeployInductive ==
    ASSUME Orderly PROVE DeployInv /\ [Next]_vars => DeployInv'
  <1> SUFFICES ASSUME DeployInv, [Next]_vars PROVE DeployInv'
    OBVIOUS
  <1>1. CASE UNCHANGED vars
    BY <1>1, DeployStutters
  <1>2. CASE Next
    <2>1. Undisturbed
      BY DEF Orderly
    <2>2. PICK p \in Clis : \/ Deploy(p) \/ (\E id \in Attempts : DeploySelected(p, id))
                            \/ DeployStep(p)
                            \/ (\E id \in Attempts : Destroy(p, id)) \/ DestroyStep(p)
                            \/ Stop(p)
      BY <1>2 DEF Next
    <2>3. CASE Deploy(p) \/ \E id \in Attempts : DeploySelected(p, id)
      BY <2>3, BeginKeeps
    <2>4. CASE DeployStep(p)
      BY <2>1, <2>4, DecideKeeps, TokenKeeps, PendingKeeps, CreateKeeps, InstanceKeeps, RecordKeeps,
         BootstrapKeeps, WaitKeeps, FinalizeKeeps DEF DeployStep
    <2>5. CASE \E id \in Attempts : Destroy(p, id)
      BY <2>1, <2>5, DestroyStarts
    <2>6. CASE DestroyStep(p)
      BY <2>1, <2>6, DestroyKeeps, RemoveKeeps DEF DestroyStep
    <2>7. CASE Stop(p)
      BY <2>1, <2>7, StopKeeps
    <2> QED  BY <2>2, <2>3, <2>4, <2>5, <2>6, <2>7
  <1> QED  BY <1>1, <1>2

\* app/deploy_pipeline.go, stepPendingRecord: wherever deploy stops, and however
\* often it is run again, destroy finds every VM it was not asked to destroy.
THEOREM EveryVMTracked == ASSUME Orderly PROVE Spec => []VMTracked
  <1>1. DeployInv => VMTracked
    BY DEF DeployInv, StoreInv, VMTracked, Running, Followed, Tracks, TypeInv, TypeOK, VMs
  <1>2. DeployInv /\ [Next]_vars => DeployInv'
    BY DeployInductive
  <1> QED  BY <1>1, <1>2, DeployInitially, PTL DEF Spec

\* deploy/state.go, the checkpoints: what a record's last step says is on the
\* record, after any sequence of runs that died.
THEOREM CheckpointsAreFacts == ASSUME Orderly PROVE Spec => []CheckpointFacts
  <1>1. DeployInv => CheckpointFacts
    <2> SUFFICES ASSUME DeployInv PROVE CheckpointFacts
      OBVIOUS
    <2>1. ASSUME NEW id \in Recorded(recs) PROVE SoundRecord(recs[id])
      BY DEF DeployInv, TypeInv, TypeOK, StoreInv, SoundStore, Recorded, Stores
    <2> QED  BY <2>1 DEF CheckpointFacts, SoundRecord
  <1>2. DeployInv /\ [Next]_vars => DeployInv'
    BY DeployInductive
  <1> QED  BY <1>1, <1>2, DeployInitially, PTL DEF Spec
-----------------------------------------------------------------------------
(* One command at a time: VMs of one app, and agents *)

Sole == OneTerminal /\ OneProvider /\ ~SelectorNewVM

\* The only deploy that runs is the latest, and one that creates a VM of an app
\* without being told to finds none of the app.
Latest(p) == Deploying(p) => cli[p].n = attempts
Alone(p) ==
    cli[p].pc \in {"token", "pending", "create"} /\ Creates(p) /\ ~cli[p].req.newVM =>
       \A vm \in vms : vm.name \notin asked => ~OfApp(vm, cli[p].req)

\* An agent that p may record: all the records that have it are of the box that p is
\* about, which runs it until something is destroyed.  p did not pair a settled one.
Owns(p, a) ==
    /\ a <= attempts
    /\ \A id \in Attempts : recs[id] # None /\ recs[id].agent = a => recs[id].host = Target(p)
    /\ destroys = 0 => paired[Target(p)] = a
Settled(p, a) == a # None => a # cli[p].n /\ Owns(p, a)
Known(p) == KnownAgent(cli[p].seen, cli[p].prior, cli[p].boxAgent, cli[p].box)
AgentPlan(p) ==
    LET c == cli[p]
    IN  /\ Planned(p) => Settled(p, Known(p))
        /\ Decided(p) /\ c.pc # "finalize" => Settled(p, c.boxAgent)
        /\ c.pc \in {"pending", "create", "created", "record", "bootstrap"} =>
              registered \subseteq c.existing
        /\ c.pc = "agent" => \A a \in NewAgents(p) : a = c.n /\ paired[Target(p)] = a
        /\ c.pc \in {"bootstrap", "agent", "finalize"} => recs[c.id].host = Target(p)
        /\ Deploying(p) /\ c.pc # "finalize" =>
              \A id \in Attempts : recs[id] # None => recs[id].agent # c.n
        /\ c.pc = "finalize" => Owns(p, c.agent)

\* A destroy works on a record that nobody changes meanwhile.
DestroyPlan(p) ==
    LET c == cli[p]
    IN  /\ c.pc \in DestroyPcs => destroys # 0 /\ recs[c.id] # None /\ c.dep = recs[c.id]
        /\ c.pc \in {"teardown", "revoke"} =>
              /\ c.last = IsLast(recs, c.id, c.dep.host)
              /\ c.agent = FirstNonEmpty(c.dep.agent, PickBoxAgent(recs, c.dep.host))

\* The records that have one agent are of one box; before any destroy, it is the agent
\* that the box runs.
AgentStore ==
    \A id \in Attempts : recs[id] # None /\ recs[id].agent # None =>
        /\ recs[id].agent <= attempts
        /\ \A other \in Attempts : recs[other] # None /\ recs[other].agent = recs[id].agent =>
                                      recs[other].host = recs[id].host
        /\ destroys = 0 => paired[recs[id].host] = recs[id].agent

SoleOf(p) == Latest(p) /\ Alone(p) /\ AgentPlan(p) /\ DestroyPlan(p)
SoleInv == DeployInv /\ OneVMPerApp /\ AgentStore /\ \A p \in Clis : SoleOf(p)
LEMMA SoleIs ==
    ASSUME Sole, SoleInv, NEW p \in Clis
    PROVE  /\ Orderly /\ Undisturbed /\ DeployInv /\ OneVMPerApp /\ AgentStore /\ SoleOf(p)
           /\ \A q \in Clis : q = p
  BY DEF Sole, Orderly, Undisturbed, SoleInv, OneTerminal

\* Nobody else runs.
LEMMA SoleStep ==
    ASSUME Sole, SoleInv, NEW p \in Clis, DeployInv', OneVMPerApp', AgentStore', SoleOf(p)'
    PROVE  SoleInv'
  BY SoleIs DEF SoleInv

\* Fewer VMs, or more of them asked for.
LEMMA FewerVMs ==
    ASSUME OneVMPerApp, vms' \subseteq vms, asked \subseteq asked' PROVE OneVMPerApp'
  BY DEF OneVMPerApp

LEMMA NoDeployRuns ==
    ASSUME NEW p \in Clis, cli'[p].pc \in DestroyPcs \cup {"idle"}
    PROVE  /\ Latest(p)' /\ Alone(p)' /\ AgentPlan(p)'
           /\ cli'[p].pc = "idle" => SoleOf(p)'
  BY DEF Latest, Alone, AgentPlan, DestroyPlan, SoleOf, Deploying, Decided, Planned, DeployPcs,
     DestroyPcs

\* An agent's record has a host, which is a box.
LEMMA AgentHasBox ==
    ASSUME DeployInv, NEW id \in Attempts, recs[id] # None, recs[id].agent # None
    PROVE  recs[id].agent \in Attempts /\ recs[id].host \in Boxes
  BY InvIs DEF DeployInv, TypeInv, TypeOK, Stores, Record, StoreInv, SoundStore, SoundRecord

\* Records stay, and a box that runs an agent runs it still, or something was destroyed.
LEMMA SameAgents ==
    ASSUME DeployInv, AgentStore, recs' = recs, attempts \in Nat, attempts' \in {attempts, attempts + 1},
           destroys' = 0 => /\ destroys = 0
                            /\ \A b \in Boxes : paired[b] # None => paired'[b] = paired[b]
    PROVE  AgentStore'
  <1>1. ASSUME NEW id \in Attempts, recs[id] # None, recs[id].agent # None
        PROVE  recs[id].agent <= attempts' /\ (destroys' = 0 => paired'[recs[id].host] = recs[id].agent)
    <2>1. recs[id].agent \in Attempts /\ recs[id].host \in Boxes
      BY <1>1, AgentHasBox
    <2>2. recs[id].agent <= attempts /\ (destroys = 0 => paired[recs[id].host] = recs[id].agent)
      BY <1>1 DEF AgentStore
    <2> QED  BY <1>1, <2>1, <2>2 DEF Attempts
  <1> QED  BY <1>1 DEF AgentStore

\* A record is written that has no agent.
LEMMA AgentlessWrite ==
    ASSUME AgentStore, NEW id \in Attempts, recs'[id].agent = None,
           \A other \in Attempts \ {id} : recs'[other] = recs[other],
           UNCHANGED <<attempts, destroys, paired>>
    PROVE  AgentStore'
  BY DEF AgentStore

\* A record is written that has the agent of its box.
LEMMA OwnAgent ==
    ASSUME AgentStore, NEW p \in Clis, NEW a, a # None, Owns(p, a), NEW id \in Attempts,
           recs'[id].agent = a, recs'[id].host = Target(p),
           \A other \in Attempts \ {id} : recs'[other] = recs[other],
           UNCHANGED <<attempts, destroys, paired>>
    PROVE  AgentStore'
  <1>1. ASSUME NEW i \in Attempts, recs'[i] # None, recs'[i].agent # None
        PROVE  /\ recs'[i].agent <= attempts
               /\ \A other \in Attempts : recs'[other] # None /\ recs'[other].agent = recs'[i].agent =>
                                             recs'[other].host = recs'[i].host
               /\ destroys = 0 => paired[recs'[i].host] = recs'[i].agent
    <2>1. CASE i = id
      BY <2>1 DEF Owns
    <2>2. CASE i # id
      BY <1>1, <2>2 DEF Owns, AgentStore
    <2> QED  BY <2>1, <2>2
  <1> QED  BY <1>1 DEF AgentStore

\* The plan and what is recorded stay.
LEMMA PlanStays ==
    ASSUME NEW p \in Clis, UNCHANGED <<Plan(p), attempts, destroys, recs>>,
           destroys = 0 => \A b \in Boxes : paired[b] # None => paired'[b] = paired[b]
    PROVE  /\ Known(p)' = Known(p) /\ Target(p)' = Target(p)
           /\ \A a : a # None /\ Target(p) \in Boxes /\ Owns(p, a) => Owns(p, a)'
  BY DEF Plan, Known, Target, Owns

LEMMA StopSole == ASSUME Sole, SoleInv, NEW p \in Clis, Stop(p) PROVE SoleInv'
  <1>1. /\ cli'[p] = IdleCli /\ recs' = recs /\ vms' = vms /\ asked' = asked
        /\ attempts' = attempts /\ destroys' = destroys /\ paired' = paired
    BY SoleIs, InvIs, StopTypes DEF Stop, bounds, cloud, history
  <1>2. OneVMPerApp' /\ AgentStore'
    BY <1>1, SoleIs, InvIs, FewerVMs, SameAgents
  <1>3. SoleOf(p)'
    BY <1>1, NoDeployRuns DEF IdleCli
  <1> QED  BY <1>2, <1>3, SoleIs, StopKeeps, SoleStep

LEMMA BeginSole ==
    ASSUME Sole, SoleInv, NEW p \in Clis, Deploy(p) \/ \E id \in Attempts : DeploySelected(p, id)
    PROVE  SoleInv'
  <1> DEFINE n == attempts + 1
  <1>1. PICK req \in Requests : Begin(p, req)
    BY SoleIs, InvIs, RequestIs
  <1>2. /\ recs' = recs /\ vms' = vms /\ asked' = asked /\ paired' = paired
        /\ attempts' = n /\ destroys' = destroys
        /\ cli'[p] = [IdleCli EXCEPT !.pc = "decide", !.n = n, !.req = req]
        /\ attempts \in Nat /\ n \in Attempts
    BY <1>1, SoleIs, InvIs, BeginTypes DEF cloud, history
  <1>3. cli'[p].pc = "decide" /\ cli'[p].n = n
    BY <1>2 DEF IdleCli
  <1>4. OneVMPerApp' /\ AgentStore'
    BY <1>2, SoleIs, FewerVMs, SameAgents
  <1>5. \A id \in Attempts : recs[id] # None => recs[id].agent # n
    <2>1. SUFFICES ASSUME NEW id \in Attempts, recs[id] # None, recs[id].agent = n PROVE FALSE
      OBVIOUS
    <2>2. recs[id].agent # None
      BY <1>2, <2>1, NoneIsNoId
    <2>3. recs[id].agent <= attempts
      BY <2>1, <2>2, SoleIs DEF AgentStore
    <2> QED  BY <1>2, <2>1, <2>3
  <1>6. SoleOf(p)'
    BY <1>2, <1>3, <1>5 DEF SoleOf, Latest, Alone, AgentPlan, DestroyPlan, Planned, Decided,
       DestroyPcs
  <1> QED  BY <1>4, <1>6, SoleIs, BeginKeeps, SoleStep

LEMMA DestroySole ==
    ASSUME Sole, SoleInv, NEW p \in Clis, NEW id \in Attempts, Destroy(p, id)
    PROVE  SoleInv'
  <1>1. /\ recs' = recs /\ vms' = vms /\ asked' = asked /\ attempts' = attempts
        /\ destroys' = destroys + 1 /\ recs[id] # None
        /\ cli'[p] = [IdleCli EXCEPT !.pc = "list", !.id = id, !.dep = recs[id]]
    BY SoleIs, InvIs, DestroyIs DEF cloud, history
  <1>2. cli'[p].pc = "list" /\ cli'[p].id = id /\ cli'[p].dep = recs[id]
    BY <1>1 DEF IdleCli
  <1>3. destroys' # 0 /\ attempts \in Nat
    BY <1>1, SoleIs, InvIs DEF TypeOK
  <1>4. OneVMPerApp' /\ AgentStore'
    BY <1>1, <1>3, SoleIs, FewerVMs, SameAgents
  <1>5. SoleOf(p)'
    BY <1>1, <1>2, <1>3, NoDeployRuns DEF SoleOf, DestroyPlan, DestroyPcs
  <1> QED  BY <1>4, <1>5, SoleIs, DestroyStarts, SoleStep

\* The steps of a destroy that leave the records.
LEMMA DestroyGoesOnSole ==
    ASSUME Sole, SoleInv, NEW p \in Clis,
           ListDeployments(p) \/ Teardown(p) \/ RevokeAgent(p) \/ DeleteVM(p)
    PROVE  SoleInv'
  <1>1. /\ recs' = recs /\ vms' \subseteq vms /\ asked' = asked /\ attempts' = attempts
        /\ destroys' = destroys /\ cli[p].pc \in DestroyPcs /\ cli'[p].pc \in DestroyPcs
        /\ cli'[p].id = cli[p].id /\ cli'[p].dep = cli[p].dep
        /\ cli'[p].pc \in {"teardown", "revoke"} =>
             \/ cli[p].pc = "teardown" /\ UNCHANGED <<cli[p].last, cli[p].agent>>
             \/ /\ cli'[p].last = IsLast(recs, cli[p].id, cli[p].dep.host)
                /\ cli'[p].agent = FirstNonEmpty(cli[p].dep.agent,
                                                 PickBoxAgent(recs, cli[p].dep.host))
    BY SoleIs, InvIs, ListIs, TeardownIs, RevokeIs, DeleteIs
       DEF bounds, cloud, history, DestroyPcs
  <1>2. DestroyPlan(p) /\ destroys # 0 /\ attempts \in Nat
    BY <1>1, SoleIs, InvIs DEF SoleOf, DestroyPlan
  <1>3. OneVMPerApp' /\ AgentStore'
    BY <1>1, <1>2, SoleIs, FewerVMs, SameAgents
  <1>4. DestroyPlan(p)'
    BY <1>1, <1>2 DEF DestroyPlan
  <1>5. SoleOf(p)'
    BY <1>1, <1>4, NoDeployRuns DEF SoleOf
  <1> QED  BY <1>3, <1>5, SoleIs, DestroyKeeps, SoleStep
\* The agent of a record of the box decided on.
LEMMA DecidedAgent ==
    ASSUME Sole, SoleInv, NEW p \in Clis, DecideBox(p), Target(p)' = cli'[p].host,
           NEW id \in Attempts, recs[id] # None, recs[id].agent # None, recs[id].host = cli'[p].host
    PROVE  Settled(p, recs[id].agent)'
  <1>1. /\ recs' = recs /\ attempts' = attempts /\ destroys' = destroys /\ paired' = paired
        /\ cli'[p].n = cli[p].n /\ cli[p].pc = "decide"
    BY SoleIs, InvIs, DecideIs DEF bounds, cloud
  <1>2. recs[id].agent # cli[p].n
    BY <1>1, SoleIs DEF SoleOf, AgentPlan, Deploying, DeployPcs
  <1>3. /\ recs[id].agent <= attempts /\ (destroys = 0 => paired[recs[id].host] = recs[id].agent)
        /\ \A other \in Attempts : recs[other] # None /\ recs[other].agent = recs[id].agent =>
                                      recs[other].host = recs[id].host
    BY SoleIs DEF AgentStore
  <1> QED  BY <1>1, <1>2, <1>3 DEF Settled, Owns

LEMMA DecideSole == ASSUME Sole, SoleInv, NEW p \in Clis, DecideBox(p) PROVE SoleInv'
  <1> DEFINE c == cli'[p]
             req == cli[p].req
             d == DecideDeployBox(recs, req)
  <1>1. /\ cli[p].pc = "decide" /\ c.pc = "token" /\ c.seen = recs /\ c.n = cli[p].n /\ c.req = req
        /\ d.action # "fail"
        /\ c.box = (IF Reuses(p) THEN ReusedBox(p) ELSE None)
        /\ c.boxAgent = PickBoxAgent(recs, c.host)
        /\ recs' = recs /\ vms' = vms /\ asked' = asked /\ attempts' = attempts
        /\ destroys' = destroys /\ paired' = paired
    BY SoleIs, InvIs, DecideIs DEF bounds, cloud, history
  <1>2. /\ c.prior # None => /\ c.prior \in Attempts /\ recs[c.prior] # None
                             /\ recs[c.prior].host = c.host
        /\ c.box # None => /\ c.box \in Attempts /\ recs[c.box] # None /\ recs[c.box].host = c.host
        /\ CreatesInfrastructure(c.req.prov) /\ c.box = None => c.prior = None /\ c.boxAgent = None
    BY SoleIs, ChoiceIs
  <1>3. recs \in Stores /\ req \in Requests /\ vms \subseteq VMs /\ attempts \in Nat
    BY SoleIs, InvIs
  <1>4. OneVMPerApp' /\ AgentStore'
    BY <1>1, <1>3, SoleIs, FewerVMs, SameAgents
  <1>5. Alone(p)'
    <2>1. SUFFICES ASSUME CreatesInfrastructure(req.prov), c.box = None, ~req.newVM,
                          NEW vm \in vms, vm.name \notin asked, OfApp(vm, req)
                   PROVE  FALSE
      BY <1>1 DEF Alone, Creates
    <2>2. vm.name \in Attempts /\ Followed(vm)
      BY <1>3, <2>1, SoleIs DEF DeployInv, StoreInv, VMs
    <2>3. vm.name \in ManagedOf(recs, req)
      BY <1>3, <2>1, <2>2 DEF ManagedOf, Recorded, Stores, Followed, Tracks, Names, OfApp
    <2>4. ~Reuses(p)
      BY <1>1, <1>3, <2>1, DecisionIs DEF Reuses, ReusedBox
    <2> QED  BY <1>1, <1>3, <2>1, <2>3, <2>4, DecisionIs DEF Reuses, Sole
  <1>6. Settled(p, Known(p))' /\ Settled(p, cli[p].boxAgent)'
    <2>1. CASE CreatesInfrastructure(c.req.prov) /\ c.box = None
      <3>1. Known(p)' = None /\ c.boxAgent = None
        BY <1>2, <2>1 DEF Known, KnownAgent, FirstNonEmpty
      <3> QED  BY <3>1 DEF Settled
    <2>2. CASE ~(CreatesInfrastructure(c.req.prov) /\ c.box = None)
      <3>1. Target(p)' = c.host
        BY <2>2 DEF Target
      <3>2. c.boxAgent # None => \E id \in Attempts : /\ recs[id] # None /\ recs[id].host = c.host
                                                      /\ recs[id].agent = c.boxAgent
        BY <1>1, <1>3, BoxAgentIs
      <3>3. \/ Known(p)' = None
            \/ \E id \in Attempts : /\ recs[id] # None /\ recs[id].host = c.host
                                    /\ recs[id].agent = Known(p)'
        BY <1>1, <1>2, <3>2 DEF Known, KnownAgent, FirstNonEmpty
      <3>4. Settled(p, None)'
        BY DEF Settled
      <3>5. \A a : (a # None /\ \E id \in Attempts : /\ recs[id] # None /\ recs[id].host = c.host
                                                     /\ recs[id].agent = a)
                   => Settled(p, a)'
        <4>1. SUFFICES ASSUME NEW id \in Attempts, recs[id] # None, recs[id].host = c.host,
                              recs[id].agent # None
                       PROVE  Settled(p, recs[id].agent)'
          BY <1>1 DEF Settled, Owns
        <4> QED  BY <3>1, <4>1, DecidedAgent
      <3> HIDE DEF c
      <3>6. Settled(p, Known(p))'
        BY <3>3, <3>4, <3>5 DEF Settled, Owns
      <3>7. Settled(p, cli[p].boxAgent)'
        BY <3>2, <3>4, <3>5 DEF Settled, Owns, c
      <3> QED  BY <3>6, <3>7
    <2> QED  BY <2>1, <2>2
  <1>7. SoleOf(p)'
    <2>1. Latest(p) /\ AgentPlan(p) /\ Deploying(p)
      BY <1>1, SoleIs DEF SoleOf, Deploying, DeployPcs
    <2>2. \A id \in Attempts : recs[id] # None => recs[id].agent # c.n
      BY <1>1, <2>1 DEF AgentPlan
    <2>3. Latest(p)' /\ DestroyPlan(p)'
      BY <1>1, <2>1 DEF Latest, DestroyPlan, DestroyPcs
    <2>4. AgentPlan(p)'
      BY <1>1, <1>6, <2>2 DEF AgentPlan
    <2> QED  BY <1>5, <2>3, <2>4 DEF SoleOf
  <1> QED  BY <1>4, <1>7, SoleIs, DecideKeeps, SoleStep

\* What p is about is a box.
LEMMA TargetIsBox ==
    ASSUME DeployInv, NEW p \in Clis, NEW a, a # None,
           \/ Planned(p) /\ a = Known(p)
           \/ cli[p].pc = "bootstrap" /\ recs[cli[p].id].host = Target(p)
    PROVE  Target(p) \in Boxes
  <1>1. CliInv(p) /\ InRangeOf(p) /\ cli[p] \in Commands
    BY InvIs
  <1>2. CASE Planned(p) /\ a = Known(p)
    <2>1. ~Creates(p)
      <3>1. ASSUME Creates(p) PROVE Known(p) = None
        BY <1>1, <1>2, <3>1 DEF CliInv, PlanSound, Creates, Known, KnownAgent, FirstNonEmpty
      <3> QED  BY <1>2, <3>1
    <2> QED  BY <1>1, <1>2, <2>1 DEF CliInv, PlanSound, Creates, Target, Commands
  <1>3. CASE cli[p].pc = "bootstrap" /\ recs[cli[p].id].host = Target(p)
    <2>1. Boxed(recs[cli[p].id]) /\ cli[p].id \in Attempts
      BY <1>1, <1>3 DEF CliInv, BoxKept, InRangeOf, Decided, DeployPcs
    <2> QED  BY <1>3, <2>1, InvIs DEF Boxed, Stores, Record
  <1> QED  BY <1>2, <1>3

LEMMA TokenSole == ASSUME Sole, SoleInv, NEW p \in Clis, IssueToken(p) PROVE SoleInv'
  <1>1. /\ cli[p].pc = "token" /\ UNCHANGED Plan(p) /\ cli'[p].existing = registered
        /\ cli'[p].pc \in {"pending", "record"}
        /\ recs' = recs /\ vms' = vms /\ asked' = asked /\ attempts' = attempts
        /\ destroys' = destroys /\ paired' = paired /\ registered' = registered
    BY SoleIs, InvIs, IssueTokenIs DEF bounds, cloud, history
  <1>2. OneVMPerApp' /\ AgentStore'
    BY <1>1, SoleIs, InvIs, FewerVMs, SameAgents
  <1>3. /\ Known(p)' = Known(p) /\ Target(p)' = Target(p)
        /\ cli'[p].n = cli[p].n /\ cli'[p].boxAgent = cli[p].boxAgent /\ cli'[p].req = cli[p].req
        /\ Creates(p)' = Creates(p)
    BY <1>1 DEF Plan, Known, Target, Creates
  <1>4. \A a : Settled(p, a) => Settled(p, a)'
    BY <1>1, <1>3 DEF Settled, Owns
  <1>5. /\ Latest(p) /\ Alone(p) /\ AgentPlan(p) /\ Deploying(p) /\ Planned(p) /\ Decided(p)
        /\ Deploying(p)' /\ Planned(p)' /\ Decided(p)'
    BY <1>1, SoleIs DEF SoleOf, Deploying, Planned, Decided, DeployPcs
  <1>6. Latest(p)' /\ Alone(p)' /\ DestroyPlan(p)'
    BY <1>1, <1>3, <1>5 DEF Latest, Alone, DestroyPlan, DestroyPcs, OfApp
  <1>7. AgentPlan(p)'
    <2>1. Settled(p, Known(p))' /\ Settled(p, cli[p].boxAgent)'
      <3>1. Settled(p, Known(p)) /\ Settled(p, cli[p].boxAgent)
        BY <1>1, <1>5 DEF AgentPlan
      <3> QED  BY <1>1, <1>3, <3>1 DEF Settled, Owns
    <2> QED  BY <1>1, <1>3, <1>5, <2>1 DEF AgentPlan
  <1> QED  BY <1>2, <1>6, <1>7, SoleIs, TokenKeeps, SoleStep DEF SoleOf

\* The agents there were when the token was issued.
LEMMA SnapshotStays ==
    ASSUME SoleInv, NEW p \in Clis, NEW pc \in DeployPcs, Goto(p, pc)
    PROVE  cli'[p].existing = cli[p].existing
  <1>1. cli'[p] = [cli[p] EXCEPT !.pc = pc] /\ cli[p] \in Commands
    BY InvIs, GotoIs DEF SoleInv
  <1> QED  BY <1>1 DEF Commands

\* No VM of the app was there before the VM that is created now.
LEMMA CreateSole == ASSUME Sole, SoleInv, NEW p \in Clis, CreateVM(p) PROVE SoleInv'
  <1>1. /\ cli[p].pc = "create" /\ UNCHANGED Plan(p) /\ cli'[p].pc = "created"
        /\ vms' = vms \cup {NewVM(p)}
        /\ recs' = recs /\ asked' = asked /\ attempts' = attempts
        /\ destroys' = destroys /\ paired' = paired /\ registered' = registered
        /\ cli'[p].existing = cli[p].existing
    <2>1. Goto(p, "created")
      BY DEF CreateVM
    <2> QED  BY <2>1, SoleIs, InvIs, CreateIs, SnapshotStays DEF bounds, history, DeployPcs
  <1>2. AgentStore'
    BY <1>1, SoleIs, InvIs, SameAgents
  <1>3. /\ Known(p)' = Known(p) /\ Target(p)' = Target(p)
        /\ cli'[p].n = cli[p].n /\ cli'[p].boxAgent = cli[p].boxAgent
    BY <1>1 DEF Plan, Known, Target
  <1>4. /\ Latest(p) /\ Alone(p) /\ AgentPlan(p) /\ Deploying(p) /\ Planned(p) /\ Decided(p)
        /\ Deploying(p)' /\ Planned(p)' /\ Decided(p)' /\ Creates(p)
    BY <1>1, SoleIs, OwnRecord DEF SoleOf, Deploying, Planned, Decided, DeployPcs
  <1>5. OneVMPerApp'
    <2> DEFINE new == NewVM(p)
    <2>1. SUFFICES ASSUME NEW v \in vms', NEW w \in vms', v.name < w.name,
                          {v.name, w.name} \cap asked = {},
                          <<v.prov, v.project, v.ident>> = <<w.prov, w.project, w.ident>>
                   PROVE  w.extra
      BY <1>1 DEF OneVMPerApp
    <2>2. CASE v \in vms /\ w \in vms
      BY <2>1, <2>2, SoleIs DEF OneVMPerApp
    <2>3. CASE w = new /\ v \in vms
      <3>1. ~cli[p].req.newVM => ~OfApp(v, cli[p].req)
        BY <1>1, <1>4, <2>1, <2>3 DEF Alone
      <3>2. cli[p].req.newVM
        BY <2>1, <2>3, <3>1 DEF OfApp, NewVM
      <3> QED  BY <2>3, <3>2 DEF NewVM
    <2>4. CASE v = new
      <3>1. v.name = attempts
        BY <1>4, <2>4 DEF Latest, NewVM
      <3>2. w.name <= attempts /\ w.name \in Nat
        <4>1. w = new \/ w \in vms
          BY <1>1
        <4>2. \A vm \in vms : vm.name <= attempts /\ vm.name \in Nat
          BY SoleIs, InvIs DEF DeployInv, StoreInv, VMs, Attempts
        <4> QED  BY <2>4, <3>1, <4>1, <4>2, SoleIs, InvIs
      <3> QED  BY <2>1, <3>1, <3>2, SoleIs, InvIs
    <2> QED  BY <1>1, <2>2, <2>3, <2>4
  <1>6. Latest(p)' /\ Alone(p)' /\ DestroyPlan(p)'
    BY <1>1, <1>3, <1>4 DEF Latest, Alone, DestroyPlan, DestroyPcs
  <1>7. AgentPlan(p)'
    <2>1. Settled(p, Known(p))' /\ Settled(p, cli[p].boxAgent)'
      <3>1. Settled(p, Known(p)) /\ Settled(p, cli[p].boxAgent)
        BY <1>1, <1>4 DEF AgentPlan
      <3> QED  BY <1>1, <1>3, <3>1 DEF Settled, Owns
    <2> QED  BY <1>1, <1>3, <1>4, <2>1 DEF AgentPlan
  <1> QED  BY <1>2, <1>5, <1>6, <1>7, SoleIs, CreateKeeps, SoleStep DEF SoleOf
\* A deploy that creates its VM knows no agent, and its record has none.
LEMMA CreatesAgentless ==
    ASSUME DeployInv, NEW p \in Clis, Planned(p), Creates(p)
    PROVE  Known(p) = None /\ cli[p].boxAgent = None
  <1>1. CliInv(p)
    BY InvIs
  <1> QED  BY <1>1 DEF CliInv, PlanSound, Creates, Known, KnownAgent, FirstNonEmpty

\* The VM's own record is written, which has no agent.
LEMMA OwnRecordSole ==
    ASSUME Sole, SoleInv, NEW p \in Clis, UNCHANGED Plan(p), DeployInv',
           \/ cli[p].pc = "pending" /\ cli'[p].pc = "create"
           \/ cli[p].pc = "created" /\ cli'[p].pc = "record",
           cli'[p].existing = cli[p].existing,
           recs' = recs \/ (recs'[cli[p].id].agent = None /\
                            \A other \in Attempts \ {cli[p].id} : recs'[other] = recs[other]),
           UNCHANGED <<vms, asked, attempts, destroys, paired, registered>>
    PROVE  SoleInv'
  <1>1. /\ Creates(p) /\ Deploying(p) /\ Decided(p) /\ Planned(p)
        /\ cli[p].id = cli[p].n /\ cli[p].n \in Attempts /\ cli[p].n # None
    BY SoleIs, OwnRecord
  <1>2. AgentStore' /\ OneVMPerApp'
    BY <1>1, SoleIs, InvIs, FewerVMs, SameAgents, AgentlessWrite
  <1>3. /\ cli'[p].n = cli[p].n /\ cli'[p].boxAgent = cli[p].boxAgent /\ cli'[p].req = cli[p].req
        /\ Known(p)' = Known(p) /\ Creates(p)' = Creates(p)
    BY DEF Plan, Known, Creates
  <1>4. Latest(p) /\ Alone(p) /\ AgentPlan(p) /\ Known(p) = None /\ cli[p].boxAgent = None
    BY <1>1, SoleIs, CreatesAgentless DEF SoleOf
  <1>5. Settled(p, Known(p))' /\ Settled(p, cli[p].boxAgent)'
    BY <1>3, <1>4 DEF Settled
  <1>6. \A id \in Attempts : recs'[id] # None => recs'[id].agent # cli[p].n
    BY <1>1, <1>4 DEF AgentPlan
  <1>7. Latest(p)' /\ Alone(p)' /\ DestroyPlan(p)'
    BY <1>1, <1>3, <1>4 DEF Latest, Alone, DestroyPlan, DestroyPcs, OfApp
  <1>8. AgentPlan(p)'
    BY <1>3, <1>4, <1>5, <1>6 DEF AgentPlan
  <1> QED  BY <1>2, <1>7, <1>8, SoleIs, SoleStep DEF SoleOf

LEMMA PendingSole == ASSUME Sole, SoleInv, NEW p \in Clis, PendingRecord(p) PROVE SoleInv'
  <1> DEFINE id == cli[p].id
  <1>1. /\ cli[p].pc = "pending" /\ cli'[p].pc = "create" /\ UNCHANGED Plan(p)
        /\ UNCHANGED <<vms, asked, attempts, destroys, paired, registered>>
        /\ Mutate(id, [Loaded(id) EXCEPT
                 !.prov = cli[p].req.prov, !.rname = cli[p].n,
                 !.provisioning = TRUE, !.ident = cli[p].req.ident,
                 !.project = cli[p].req.project, !.created = Now,
                 !.step = "pending_recorded"])
    BY SoleIs, InvIs, PendingIs DEF bounds, cloud, history
  <1>2. Goto(p, "create")
    BY DEF PendingRecord
  <1>3. /\ id \in Attempts /\ id = cli[p].n /\ recs[id] = None /\ recs \in Stores
    BY <1>1, SoleIs, InvIs, OwnRecord DEF CliInv, NameFresh, Unborn
  <1>4. recs'[id].agent = None /\ \A other \in Attempts \ {id} : recs'[other] = recs[other]
    BY <1>1, <1>3 DEF Mutate, Loaded, EmptyRecord, Stores
  <1>5. cli'[p].existing = cli[p].existing
    BY <1>2, SnapshotStays DEF DeployPcs
  <1> QED  BY <1>1, <1>4, <1>5, SoleIs, PendingKeeps, OwnRecordSole

LEMMA InstanceSole == ASSUME Sole, SoleInv, NEW p \in Clis, InstanceCreated(p) PROVE SoleInv'
  <1> DEFINE id == cli[p].id
  <1>1. /\ cli[p].pc = "created" /\ cli'[p].pc = "record" /\ UNCHANGED Plan(p)
        /\ UNCHANGED <<vms, asked, attempts, destroys, paired, registered>>
        /\ \/ recs' = recs
           \/ \E host \in {cli[p].n, Loaded(id).host} :
                 Mutate(id, [Loaded(id) EXCEPT
                             !.iid = cli[p].n, !.host = host, !.step = "instance_created"])
    BY SoleIs, InvIs, InstanceIs DEF bounds, cloud, history
  <1>2. Goto(p, "record")
    BY DEF InstanceCreated
  <1>3. /\ id \in Attempts /\ recs[id] # None /\ recs[id].host = None /\ recs \in Stores
        /\ recs[id] \in Record
    BY <1>1, SoleIs, InvIs, OwnRecord DEF CliInv, NameFresh, HalfBorn, Stores
  <1>4. recs[id].agent = None
    BY <1>3, SoleIs DEF DeployInv, StoreInv, SoundStore, SoundRecord
  <1>5. recs' = recs \/ (recs'[id].agent = None /\
                         \A other \in Attempts \ {id} : recs'[other] = recs[other])
    BY <1>1, <1>3, <1>4 DEF Mutate, Loaded, Record, Stores
  <1>6. cli'[p].existing = cli[p].existing
    BY <1>2, SnapshotStays DEF DeployPcs
  <1> QED  BY <1>1, <1>5, <1>6, SoleIs, InstanceKeeps, OwnRecordSole

LEMMA RecordSole == ASSUME Sole, SoleInv, NEW p \in Clis, RecordBox(p) PROVE SoleInv'
  <1> DEFINE id == cli[p].id
             n == cli[p].n
  <1>1. /\ cli[p].pc = "record" /\ cli'[p].pc = "bootstrap"
        /\ cli'[p].n = n /\ cli'[p].req = cli[p].req /\ cli'[p].id = id
        /\ cli'[p].box = cli[p].box /\ cli'[p].host = cli[p].host
        /\ cli'[p].boxAgent = cli[p].boxAgent /\ cli'[p].existing = cli[p].existing
        /\ id \in Attempts /\ n \in Attempts /\ n # None
        /\ UNCHANGED <<vms, asked, attempts, destroys, paired, registered>>
    BY SoleIs, InvIs, RecordIs, NoneIsNoId
       DEF bounds, cloud, history, InRangeOf, Deploying, DeployPcs
  <1>2. PICK w : BoxRecord(p, w) /\ Mutate(id, w)
    BY SoleIs, InvIs, RecordIs
  <1>3. w \in Record /\ w.agent = Known(p) /\ w.host = Target(p)
    BY <1>2 DEF BoxRecord, Known
  <1>4. recs'[id] = w /\ \A other \in Attempts \ {id} : recs'[other] = recs[other]
    BY <1>1, <1>2, <1>3, SoleIs, InvIs, MutateIs
  <1>5. Latest(p) /\ AgentPlan(p) /\ Deploying(p) /\ Planned(p) /\ Decided(p)
    BY <1>1, SoleIs DEF SoleOf, Deploying, Planned, Decided, DeployPcs
  <1>6. Settled(p, Known(p)) /\ Settled(p, cli[p].boxAgent)
    BY <1>1, <1>5 DEF AgentPlan
  <1>7. AgentStore' /\ OneVMPerApp'
    <2>1. CASE Known(p) = None
      BY <1>1, <1>3, <1>4, <2>1, SoleIs, FewerVMs, AgentlessWrite
    <2>2. CASE Known(p) # None
      BY <1>1, <1>3, <1>4, <1>6, <2>2, SoleIs, FewerVMs, OwnAgent DEF Settled
    <2> QED  BY <2>1, <2>2
  <1>8. Target(p)' = Target(p)
    BY <1>1 DEF Target
  <1>9. Settled(p, cli[p].boxAgent)'
    BY <1>1, <1>3, <1>4, <1>6, <1>8 DEF Settled, Owns
  <1>10. \A other \in Attempts : recs'[other] # None => recs'[other].agent # n
    BY <1>1, <1>3, <1>4, <1>5, <1>6 DEF AgentPlan, Settled
  <1>11. Latest(p)' /\ Alone(p)' /\ DestroyPlan(p)'
    BY <1>1, <1>5 DEF Latest, Alone, DestroyPlan, DestroyPcs
  <1>12. AgentPlan(p)'
    BY <1>1, <1>3, <1>4, <1>5, <1>8, <1>9, <1>10 DEF AgentPlan, Planned
  <1> QED  BY <1>7, <1>11, <1>12, SoleIs, RecordKeeps, SoleStep DEF SoleOf

\* The bootstrap pairs a box that runs no agent with a new one.
LEMMA BootstrapSole == ASSUME Sole, SoleInv, NEW p \in Clis, Bootstrap(p) PROVE SoleInv'
  <1> DEFINE n == cli[p].n
  <1>1. /\ cli[p].pc = "bootstrap" /\ cli'[p].pc = "agent" /\ UNCHANGED Plan(p)
        /\ cli'[p].existing = cli[p].existing /\ Target(p) \in Boxes
        /\ UNCHANGED <<recs, vms, asked, attempts, destroys>>
        /\ \/ paired[Target(p)] # None /\ UNCHANGED <<paired, registered>>
           \/ /\ paired[Target(p)] = None /\ paired' = [paired EXCEPT ![Target(p)] = n]
              /\ registered' = registered \cup {n}
    BY SoleIs, InvIs, BootstrapIs DEF bounds, history
  <1>2. \A b \in Boxes : paired[b] # None => paired'[b] = paired[b]
    BY <1>1, SoleIs, InvIs DEF TypeOK
  <1>3. AgentStore' /\ OneVMPerApp'
    BY <1>1, <1>2, SoleIs, InvIs, FewerVMs, SameAgents
  <1>4. /\ Target(p)' = Target(p) /\ cli'[p].n = n /\ cli'[p].boxAgent = cli[p].boxAgent
        /\ cli'[p].id = cli[p].id
    BY <1>1 DEF Plan, Target
  <1>5. Latest(p) /\ AgentPlan(p) /\ Deploying(p) /\ Decided(p)
    BY <1>1, SoleIs DEF SoleOf, Deploying, Decided, DeployPcs
  <1>6. Settled(p, cli[p].boxAgent)'
    <2>1. Settled(p, cli[p].boxAgent)
      BY <1>1, <1>5 DEF AgentPlan
    <2> QED  BY <1>1, <1>2, <1>4, <2>1 DEF Settled, Owns
  <1>7. \A a \in NewAgents(p)' : a = n /\ paired'[Target(p)] = a
    <2>1. registered \subseteq cli[p].existing
      BY <1>1, <1>5 DEF AgentPlan
    <2> QED  BY <1>1, <2>1, SoleIs, InvIs DEF NewAgents, TypeOK
  <1>8. Latest(p)' /\ Alone(p)' /\ DestroyPlan(p)'
    BY <1>1, <1>4, <1>5 DEF Latest, Alone, DestroyPlan, DestroyPcs
  <1>9. AgentPlan(p)'
    BY <1>1, <1>4, <1>5, <1>6, <1>7 DEF AgentPlan, Planned
  <1> QED  BY <1>3, <1>8, <1>9, SoleIs, BootstrapKeeps, SoleStep DEF SoleOf

LEMMA WaitSole == ASSUME Sole, SoleInv, NEW p \in Clis, WaitAgent(p) PROVE SoleInv'
  <1> DEFINE id == cli[p].id
  <1>0. PICK a : a = cli'[p].agent
    OBVIOUS
  <1>1. /\ cli[p].pc = "agent" /\ cli'[p].pc = "finalize" /\ UNCHANGED Plan(p) /\ id \in Attempts
        /\ a \in Attempts
        /\ a \in IF cli[p].boxAgent # None THEN {cli[p].boxAgent} ELSE NewAgents(p)
        /\ UNCHANGED <<vms, asked, attempts, destroys, paired, registered>>
        /\ \/ recs' = recs
           \/ Mutate(id, [Loaded(id) EXCEPT !.agent = a, !.step = "agent_paired"])
    BY <1>0, SoleIs, InvIs, WaitIs DEF bounds, cloud, history
  <1>2. /\ Latest(p) /\ AgentPlan(p) /\ Deploying(p) /\ Decided(p) /\ InRangeOf(p) /\ CliInv(p)
        /\ a # None
    BY <1>1, SoleIs, InvIs, NoneIsNoId DEF SoleOf, Deploying, Decided, DeployPcs
  <1>3. Owns(p, a)
    <2>1. CASE cli[p].boxAgent # None
      BY <1>1, <1>2, <2>1 DEF AgentPlan, Settled
    <2>2. CASE cli[p].boxAgent = None
      <3>1. a = cli[p].n /\ paired[Target(p)] = a
        BY <1>1, <1>2, <2>2 DEF AgentPlan
      <3>2. a <= attempts
        BY <1>2, <3>1 DEF CliInv, NameFresh
      <3>3. \A other \in Attempts : recs[other] # None => recs[other].agent # a
        BY <1>1, <1>2, <3>1 DEF AgentPlan
      <3> QED  BY <3>1, <3>2, <3>3 DEF Owns
    <2> QED  BY <2>1, <2>2
  <1>4. /\ recs[id] # None /\ recs[id] \in Record /\ Loaded(id) = recs[id]
        /\ recs[id].host = Target(p)
    BY <1>1, <1>2, SoleIs, InvIs DEF CliInv, BoxKept, Boxed, Stores, Loaded, AgentPlan
  <1>5. \/ recs' = recs
        \/ /\ recs'[id].agent = a /\ recs'[id].host = Target(p)
           /\ \A other \in Attempts \ {id} : recs'[other] = recs[other]
    <2>1. ASSUME Mutate(id, [recs[id] EXCEPT !.agent = a, !.step = "agent_paired"])
          PROVE  /\ recs'[id].agent = a /\ recs'[id].host = Target(p)
                 /\ \A other \in Attempts \ {id} : recs'[other] = recs[other]
      BY <1>1, <1>4, <2>1, SoleIs, InvIs DEF Mutate, Record, Stores
    <2> QED  BY <1>1, <1>4, <2>1
  <1>6. AgentStore' /\ OneVMPerApp'
    BY <1>1, <1>2, <1>3, <1>5, SoleIs, InvIs, FewerVMs, SameAgents, OwnAgent
  <1>7. Target(p)' = Target(p) /\ cli'[p].n = cli[p].n /\ cli'[p].id = id
    BY <1>1 DEF Plan, Target
  <1>8. Owns(p, a)'
    BY <1>1, <1>3, <1>5, <1>7 DEF Owns
  <1>9. Latest(p)' /\ Alone(p)' /\ DestroyPlan(p)'
    BY <1>1, <1>2, <1>7 DEF Latest, Alone, DestroyPlan, DestroyPcs
  <1>10. recs'[id].host = Target(p)
    BY <1>4, <1>5
  <1>11. AgentPlan(p)'
    <2>1. Owns(p, cli[p].agent)'
      BY <1>8, <1>0 DEF Owns
    <2> QED  BY <1>1, <1>7, <1>10, <2>1 DEF AgentPlan, Planned
  <1> QED  BY <1>6, <1>9, <1>11, SoleIs, WaitKeeps, SoleStep DEF SoleOf

LEMMA FinalizeSole == ASSUME Sole, SoleInv, NEW p \in Clis, FinalizeRecord(p) PROVE SoleInv'
  <1> DEFINE id == cli[p].id
             a == cli[p].agent
  <1>1. /\ cli[p].pc = "finalize" /\ cli'[p] = IdleCli /\ id \in Attempts
        /\ UNCHANGED <<vms, asked, attempts, destroys, paired, registered>>
        /\ Mutate(id, [Loaded(id) EXCEPT !.agent = a, !.step = "finalized"])
    BY SoleIs, InvIs, FinalizeIs DEF bounds, cloud, history
  <1>2. AgentPlan(p) /\ CliInv(p) /\ a # None /\ Owns(p, a)
    BY <1>1, SoleIs, InvIs DEF SoleOf, AgentPlan, CliInv, BoxKept
  <1>3. /\ recs[id] # None /\ recs[id] \in Record /\ Loaded(id) = recs[id]
        /\ recs[id].host = Target(p)
    BY <1>1, <1>2, SoleIs, InvIs DEF CliInv, BoxKept, Boxed, Stores, Loaded, AgentPlan
  <1>4. /\ recs'[id].agent = a /\ recs'[id].host = Target(p)
        /\ \A other \in Attempts \ {id} : recs'[other] = recs[other]
    BY <1>1, <1>3, SoleIs, InvIs DEF Mutate, Record, Stores
  <1>5. AgentStore' /\ OneVMPerApp'
    BY <1>1, <1>2, <1>4, SoleIs, FewerVMs, OwnAgent
  <1>6. SoleOf(p)'
    BY <1>1, NoDeployRuns DEF IdleCli
  <1> QED  BY <1>5, <1>6, SoleIs, FinalizeKeeps, SoleStep

LEMMA RemoveSole == ASSUME Sole, SoleInv, NEW p \in Clis, RemoveRecord(p) PROVE SoleInv'
  <1>1. /\ cli'[p] = IdleCli /\ recs' = [recs EXCEPT ![cli[p].id] = None]
        /\ asked \subseteq asked' /\ UNCHANGED <<vms, attempts, destroys, paired, registered>>
    BY SoleIs, InvIs, RemoveIs DEF bounds, cloud
  <1>2. \A id \in Attempts : recs'[id] # None => recs[id] # None /\ recs'[id] = recs[id]
    BY <1>1, SoleIs, InvIs DEF Stores
  <1>3. AgentStore' /\ OneVMPerApp'
    BY <1>1, <1>2, SoleIs, FewerVMs DEF AgentStore
  <1>4. SoleOf(p)'
    BY <1>1, NoDeployRuns DEF IdleCli
  <1> QED  BY <1>3, <1>4, SoleIs, RemoveKeeps, SoleStep
LEMMA SoleInitially == Init => SoleInv
  <1> SUFFICES ASSUME Init PROVE SoleInv
    OBVIOUS
  <1>1. OneVMPerApp /\ AgentStore
    BY NoRecsIs DEF Init, OneVMPerApp, AgentStore
  <1>2. ASSUME NEW p \in Clis PROVE SoleOf(p)
    BY DEF Init, IdleCli, SoleOf, Latest, Alone, AgentPlan, DestroyPlan, Deploying, Decided, Planned,
       DeployPcs, DestroyPcs
  <1> QED  BY <1>1, <1>2, DeployInitially DEF SoleInv

LEMMA SoleStutters == SoleInv /\ UNCHANGED vars => SoleInv'
  <1> SUFFICES ASSUME SoleInv, UNCHANGED vars PROVE SoleInv'
    OBVIOUS
  <1>1. DeployInv'
    BY DeployStutters DEF SoleInv
  <1>2. /\ attempts' = attempts /\ destroys' = destroys /\ recs' = recs /\ vms' = vms
        /\ paired' = paired /\ registered' = registered /\ cli' = cli /\ asked' = asked
    BY DEF vars
  <1>3. OneVMPerApp' /\ AgentStore'
    BY <1>2 DEF SoleInv, OneVMPerApp, AgentStore
  <1>4. ASSUME NEW p \in Clis PROVE SoleOf(p)'
    <2>1. SoleOf(p)
      BY DEF SoleInv
    <2>2. Latest(p)' /\ Alone(p)' /\ DestroyPlan(p)'
      BY <1>2, <2>1 DEF SoleOf, Latest, Alone, DestroyPlan, Deploying, Creates, OfApp
    <2>3. \A a : Owns(p, a) => Owns(p, a)'
      BY <1>2 DEF Owns, Target
    <2>4. \A a : Settled(p, a) => Settled(p, a)'
      BY <1>2, <2>3 DEF Settled, Owns, Target
    <2>5. Known(p)' = Known(p) /\ NewAgents(p)' = NewAgents(p) /\ Target(p)' = Target(p)
      BY <1>2 DEF Known, NewAgents, Target
    <2>6. AgentPlan(p)'
      BY <1>2, <2>1, <2>3, <2>4, <2>5
         DEF SoleOf, AgentPlan, Planned, Decided, Deploying, Settled, Owns
    <2> QED  BY <2>2, <2>6 DEF SoleOf
  <1> QED  BY <1>1, <1>3, <1>4 DEF SoleInv

LEMMA SoleInductive ==
    ASSUME Sole PROVE SoleInv /\ [Next]_vars => SoleInv'
  <1> SUFFICES ASSUME SoleInv, [Next]_vars PROVE SoleInv'
    OBVIOUS
  <1>1. CASE UNCHANGED vars
    BY <1>1, SoleStutters
  <1>2. CASE Next
    <2>1. PICK p \in Clis : \/ Deploy(p) \/ (\E id \in Attempts : DeploySelected(p, id))
                            \/ DeployStep(p)
                            \/ (\E id \in Attempts : Destroy(p, id)) \/ DestroyStep(p)
                            \/ Stop(p)
      BY <1>2 DEF Next
    <2>2. CASE Deploy(p) \/ \E id \in Attempts : DeploySelected(p, id)
      BY <2>2, BeginSole
    <2>3. CASE DeployStep(p)
      BY <2>3, DecideSole, TokenSole, PendingSole, CreateSole, InstanceSole, RecordSole,
         BootstrapSole, WaitSole, FinalizeSole DEF DeployStep
    <2>4. CASE \E id \in Attempts : Destroy(p, id)
      BY <2>4, DestroySole
    <2>5. CASE DestroyStep(p)
      BY <2>5, DestroyGoesOnSole, RemoveSole DEF DestroyStep
    <2>6. CASE Stop(p)
      BY <2>6, StopSole
    <2> QED  BY <2>1, <2>2, <2>3, <2>4, <2>5, <2>6
  <1> QED  BY <1>1, <1>2

\* app/deploy_targeting.go, decideDeployBox: without --new-vm an app gets no second VM
\* while it has one it did not ask to destroy.
THEOREM NoSecondVM == ASSUME Sole PROVE Spec => []OneVMPerApp
  <1>1. SoleInv => OneVMPerApp
    BY DEF SoleInv
  <1>2. SoleInv /\ [Next]_vars => SoleInv'
    BY SoleInductive
  <1> QED  BY <1>1, <1>2, SoleInitially, PTL DEF Spec

\* app/deploy_pipeline.go, stepWaitAgent: until something is destroyed, the agent on a
\* record is the one that the record's box runs.
THEOREM AgentsAreOfTheirBox == ASSUME Sole PROVE Spec => []AgentOfBox
  <1>1. SoleInv => AgentOfBox
    <2> SUFFICES ASSUME SoleInv PROVE AgentOfBox
      OBVIOUS
    <2>1. Recorded(recs) \subseteq Attempts
      BY InvIs DEF SoleInv, DeployInv, TypeInv, TypeOK, Recorded, Stores
    <2> QED  BY <2>1 DEF SoleInv, AgentStore, AgentOfBox, Recorded
  <1>2. SoleInv /\ [Next]_vars => SoleInv'
    BY SoleInductive
  <1> QED  BY <1>1, <1>2, SoleInitially, PTL DEF Spec

\* The last project of a box has none of the others' agents.
LEMMA LastRevokes ==
    ASSUME Sole, SoleInv, NEW p \in Clis, cli[p].pc = "revoke", cli[p].last,
           NEW id \in Recorded(recs) \ {cli[p].id}, recs[id].agent # None
    PROVE  recs[id].agent # cli[p].agent
  <1> DEFINE dep == cli[p].dep
  <1>1. /\ dep = recs[cli[p].id] /\ recs[cli[p].id] # None /\ IsLast(recs, cli[p].id, dep.host)
        /\ cli[p].agent = FirstNonEmpty(dep.agent, PickBoxAgent(recs, dep.host))
    BY SoleIs DEF SoleOf, DestroyPlan, DestroyPcs
  <1>2. recs[id].host # dep.host /\ id \in Attempts /\ recs[id] # None /\ recs \in Stores
    BY <1>1, SoleIs, InvIs DEF IsLast, Recorded, Stores
  <1>3. cli[p].id \in Attempts
    BY SoleIs, InvIs DEF InRangeOf, DestroyPcs
  <1>4. SUFFICES ASSUME recs[id].agent = cli[p].agent PROVE FALSE
    OBVIOUS
  <1>5. \E r \in Attempts : recs[r] # None /\ recs[r].host = dep.host /\ recs[r].agent = cli[p].agent
    <2>1. CASE dep.agent # None
      BY <1>1, <1>3, <2>1 DEF FirstNonEmpty
    <2>2. CASE dep.agent = None
      <3>1. cli[p].agent = PickBoxAgent(recs, dep.host)
        BY <1>1, <2>2 DEF FirstNonEmpty
      <3> QED  BY <1>2, <1>4, <3>1, BoxAgentIs
    <2> QED  BY <2>1, <2>2
  <1>6. PICK r \in Attempts : /\ recs[r] # None /\ recs[r].host = dep.host
                              /\ recs[r].agent = cli[p].agent
    BY <1>5
  <1>7. recs[id].host = recs[r].host
    BY <1>2, <1>4, <1>6, SoleIs DEF AgentStore
  <1> QED  BY <1>2, <1>6, <1>7

\* app/command_deploy.go:508-511, "while other projects are live, the agent must
\* survive": destroy never revokes the agent of another record.
THEOREM OthersKeepTheirAgent == ASSUME Sole PROVE Spec => SharedAgentSurvives
  <1> DEFINE Survives == \A p \in Clis :
               cli[p].pc = "revoke" /\ registered' # registered =>
                 \A id \in Recorded(recs) \ {cli[p].id} :
                    recs[id].agent # None => recs[id].agent # cli[p].agent
  <1>1. SoleInv /\ [Next]_vars => [Survives]_vars
    <2> SUFFICES ASSUME SoleInv, Next, NEW p \in Clis, cli[p].pc = "revoke",
                        registered' # registered
                 PROVE  \A id \in Recorded(recs) \ {cli[p].id} :
                           recs[id].agent # None => recs[id].agent # cli[p].agent
      OBVIOUS
    <2>1. PICK q \in Clis : \/ Deploy(q) \/ (\E id \in Attempts : DeploySelected(q, id))
                            \/ DeployStep(q)
                            \/ (\E id \in Attempts : Destroy(q, id)) \/ DestroyStep(q)
                            \/ Stop(q)
      BY DEF Next
    <2>2. q = p
      BY SoleIs
    <2>3. RevokeAgent(p)
      BY <2>1, <2>2 DEF Deploy, DeploySelected, Begin, DeployStep, DecideBox, IssueToken,
         PendingRecord, CreateVM, InstanceCreated, RecordBox, Bootstrap, WaitAgent, FinalizeRecord,
         Destroy, DestroyStep, ListDeployments, Teardown, DeleteVM, RemoveRecord, Stop, cloud
    <2>4. cli[p].last
      BY <2>3 DEF RevokeAgent
    <2> QED  BY <2>4, LastRevokes
  <1>2. SoleInv /\ [Next]_vars => SoleInv'
    BY SoleInductive
  <1> HIDE DEF Survives
  <1>3. Spec => [][Survives]_vars
    BY <1>1, <1>2, SoleInitially, PTL DEF Spec
  <1> QED  BY <1>3 DEF SharedAgentSurvives, Survives
=============================================================================
