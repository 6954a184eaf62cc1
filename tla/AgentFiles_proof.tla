-------------------------- MODULE AgentFiles_proof --------------------------
(***************************************************************************)
(* The files the agent's commands share on a machine.  The registry: no DSN *)
(* of a registered connection is lost (AgentRegistry), for any number of    *)
(* terminals, connections and commands.  The credentials: they are one      *)
(* pairing's, whose agent nuzur has once, and a catalog goes out under it   *)
(* (AgentPairing), for any number of agents and of commands.                *)
(***************************************************************************)
EXTENDS AgentRegistry, AgentPairing, TLAPS

-----------------------------------------------------------------------------
(* The registry and the keychain *)

RegEntries == [uuid : ConnUuids, name : ConnNames, dsn : {"plain", "none"}, own : Nat]
Terms == [pc : {"idle", "migrate", "rewrite", "add", "scripted add", "remove", "checks", "save"},
          op : {"none", "add", "scripted add", "remove"}, name : ConnNames \cup {0},
          uuid : ConnUuids \cup {0}, dsn : Nat, backend : Backends \cup {"none"},
          reg : SUBSET RegEntries]

RegistryTypeOK ==
    /\ regFile \in (SUBSET RegEntries) \cup {TornRegistry}
    /\ keychain \in [Backends -> [ConnUuids -> Nat]]
    /\ term \in [Terminals -> Terms] /\ commands \in Nat
    /\ \A t \in Terminals : ~TermAt(t, "idle") =>
           /\ term[t].backend \in Backends /\ term[t].uuid \in ConnUuids /\ term[t].name \in ConnNames
           /\ term[t].op # "none"

\* The entries of the file and of the copies that commands work on.
Present(e) == e \in regFile \ TornRegistry \/ \E t \in Terminals : e \in term[t].reg

\* A uuid some command was asked to remove or to replace, or to add again.
Exempt(u) == u \in givenUp \cup reused
SafeEntry(e) ==
    Exempt(e.uuid) \/ e.dsn = "plain" \/ \E b \in Backends : keychain[b][e.uuid] = e.own

\* A uuid stands for one DSN, in the file and in every copy: so a command that
\* migrates an old copy puts no other DSN over the one that is there.
OneOwn ==
    \A e, f \in RegEntries :
        Present(e) /\ Present(f) /\ e.uuid = f.uuid => Exempt(e.uuid) \/ e.own = f.own

RegistryInv ==
    /\ RegistryTypeOK
    /\ \A e \in RegEntries : Present(e) => SafeEntry(e)
    /\ OneOwn

\* What a step has to show: it spoils no entry, exempts stay so, and what it puts
\* in the file or in a copy has the uuid and the DSN of what was there.
HoldsOn ==
    /\ \A u : Exempt(u) => Exempt(u)'
    /\ \A e \in RegEntries : Present(e) /\ SafeEntry(e) =>
           \/ e.uuid \in givenUp' \cup reused' \/ e.dsn = "plain"
           \/ \E b \in Backends : keychain'[b][e.uuid] = e.own
PresentNext(e) == e \in regFile' \ TornRegistry \/ \E t \in Terminals : e \in term'[t].reg
SafeNext(e) ==
    \/ e.uuid \in givenUp' \cup reused' \/ e.dsn = "plain"
    \/ \E b \in Backends : keychain'[b][e.uuid] = e.own
OldOrSafe ==
    \A e \in RegEntries : PresentNext(e) => Present(e) \/ SafeNext(e)
OldOwn ==
    \A e \in RegEntries : PresentNext(e) =>
        \E f \in RegEntries : Present(f) /\ f.uuid = e.uuid /\ f.own = e.own

-----------------------------------------------------------------------------

\* Entries are not the torn file's.
LEMMA EntryIsNotTorn == \A e \in RegEntries : e \notin TornRegistry
  BY DEF RegEntries, TornRegistry, Entry

\* What is in the file or in a copy is an entry.
LEMMA PresentIsEntry == ASSUME RegistryTypeOK, NEW e, Present(e) PROVE e \in RegEntries
  BY DEF RegistryTypeOK, Present, Terms

\* A registry to begin with has its DSNs.
LEMMA RegistryInitially == RegistryInit => RegistryInv
  <1> SUFFICES ASSUME RegistryInit PROVE RegistryInv
    OBVIOUS
  <1>1. PICK u \in ConnUuids, n \in ConnNames, d \in {"plain", "none"} :
          /\ regFile = {Entry(u, n, d, 1)}
          /\ keychain = [b \in Backends |->
                 IF b = "service" /\ d = "none" THEN [NoDSNs EXCEPT ![u] = 1] ELSE NoDSNs]
    BY DEF RegistryInit
  <1>2. term = [t \in Terminals |-> IdleTerm] /\ commands = 0
    BY DEF RegistryInit
  <1>3. RegistryTypeOK
    <2>1. keychain \in [Backends -> [ConnUuids -> Nat]]
      BY <1>1 DEF NoDSNs
    <2>2. Entry(u, n, d, 1) \in RegEntries
      BY DEF RegEntries, Entry
    <2> QED  BY <1>1, <1>2, <2>1, <2>2 DEF RegistryTypeOK, Terms, IdleTerm, TermAt
  <1>4. \A e : Present(e) => e = Entry(u, n, d, 1)
    BY <1>1, <1>2 DEF Present, IdleTerm
  <1>5. SafeEntry(Entry(u, n, d, 1))
    <2>1. d = "none" => keychain["service"][u] = 1 /\ "service" \in Backends
      BY <1>1 DEF NoDSNs, Backends
    <2> QED  BY <2>1 DEF SafeEntry, Entry
  <1> QED  BY <1>3, <1>4, <1>5 DEF RegistryInv, OneOwn

\* The invariant follows for a step from its parts.
LEMMA StepIsSafe ==
    ASSUME RegistryInv, RegistryTypeOK', HoldsOn, OldOrSafe, OldOwn
    PROVE  RegistryInv'
  <1>1. \A e \in RegEntries : PresentNext(e) => SafeNext(e)
    BY DEF RegistryInv, OldOrSafe, HoldsOn, SafeNext
  <1>2. ASSUME NEW e \in RegEntries, NEW f \in RegEntries, PresentNext(e), PresentNext(f),
               e.uuid = f.uuid
        PROVE  e.uuid \in givenUp' \cup reused' \/ e.own = f.own
    <2>1. PICK e0 \in RegEntries : Present(e0) /\ e0.uuid = e.uuid /\ e0.own = e.own
      BY <1>2 DEF OldOwn
    <2>2. PICK f0 \in RegEntries : Present(f0) /\ f0.uuid = f.uuid /\ f0.own = f.own
      BY <1>2 DEF OldOwn
    <2>3. Exempt(e0.uuid) \/ e0.own = f0.own
      BY <1>2, <2>1, <2>2 DEF RegistryInv, OneOwn
    <2> QED  BY <2>1, <2>2, <2>3 DEF HoldsOn, Exempt
  <1> QED  BY <1>1, <1>2 DEF RegistryInv, OneOwn, PresentNext, SafeNext, Present, SafeEntry, Exempt

\* What a step that leaves the keychain has to show.
LEMMA SameKeychain ==
    ASSUME UNCHANGED <<keychain, reused>>, givenUp \subseteq givenUp'
    PROVE  HoldsOn
  BY DEF HoldsOn, Exempt, SafeEntry

\* A step puts nothing new in the file or in a copy.
LEMMA NothingNew ==
    ASSUME \A e \in RegEntries : PresentNext(e) => Present(e)
    PROVE  OldOrSafe /\ OldOwn
  BY DEF OldOrSafe, OldOwn

\* A command goes on, with the copy r.reg.
LEMMA SetTermIs ==
    ASSUME RegistryTypeOK, NEW t \in Terminals, NEW r \in Terms, SetTerm(t, r),
           r.pc # "idle" => /\ r.backend \in Backends /\ r.uuid \in ConnUuids
                            /\ r.name \in ConnNames /\ r.op # "none"
    PROVE  /\ term' \in [Terminals -> Terms] /\ term'[t] = r
           /\ \A u \in Terminals : u # t => term'[u] = term[u]
           /\ \A u \in Terminals : ~TermAt(u, "idle")' =>
                /\ term'[u].backend \in Backends /\ term'[u].uuid \in ConnUuids
                /\ term'[u].name \in ConnNames /\ term'[u].op # "none"
  BY DEF RegistryTypeOK, SetTerm, TermAt

\* The same for a command whose copy stays.
LEMMA TermGotoIs ==
    ASSUME RegistryTypeOK, NEW t \in Terminals, ~TermAt(t, "idle"), NEW pc, TermGoto(t, pc),
           pc \in {"idle", "add", "scripted add", "remove", "save"}
    PROVE  /\ term' \in [Terminals -> Terms]
           /\ term'[t].reg \subseteq term[t].reg
           /\ \A u \in Terminals : u # t => term'[u] = term[u]
           /\ \A u \in Terminals : ~TermAt(u, "idle")' =>
                /\ term'[u].backend \in Backends /\ term'[u].uuid \in ConnUuids
                /\ term'[u].name \in ConnNames /\ term'[u].op # "none"
  <1> DEFINE r == IF pc = "idle" THEN IdleTerm ELSE [term[t] EXCEPT !.pc = pc]
  <1>1. r \in Terms /\ r.reg \subseteq term[t].reg
    BY DEF RegistryTypeOK, Terms, IdleTerm, Backends
  <1>2. r.pc # "idle" => /\ r.backend \in Backends /\ r.uuid \in ConnUuids
                         /\ r.name \in ConnNames /\ r.op # "none"
    BY DEF RegistryTypeOK, Terms, IdleTerm, TermAt
  <1>3. SetTerm(t, r)
    BY DEF TermGoto
  <1> HIDE DEF r
  <1> QED  BY <1>1, <1>2, <1>3, SetTermIs

\* Registry.Remove drops only DSNs that a command was asked to remove.
LEMMA DropKeeps ==
    ASSUME RegistryInv, NEW t \in Terminals, ~TermAt(t, "idle"), NEW matching,
           NEW pc \in {"save", "checks"}, Drop(t, matching, pc), matching \subseteq term[t].reg
    PROVE  RegistryInv'
  <1> DEFINE r == [term[t] EXCEPT !.pc = pc, !.reg = @ \ matching]
  <1>1. r \in Terms /\ r.reg \subseteq term[t].reg
    BY DEF RegistryInv, RegistryTypeOK, Terms
  <1>2. r.backend \in Backends /\ r.uuid \in ConnUuids /\ r.name \in ConnNames /\ r.op # "none"
    BY DEF RegistryInv, RegistryTypeOK, Terms
  <1>3. SetTerm(t, r)
    BY DEF Drop
  <1> HIDE DEF r
  <1>4. /\ term' \in [Terminals -> Terms] /\ term'[t] = r
        /\ \A u \in Terminals : u # t => term'[u] = term[u]
        /\ \A u \in Terminals : ~TermAt(u, "idle")' =>
             /\ term'[u].backend \in Backends /\ term'[u].uuid \in ConnUuids
             /\ term'[u].name \in ConnNames /\ term'[u].op # "none"
    BY <1>1, <1>2, <1>3, SetTermIs DEF RegistryInv
  <1> DEFINE gone == {e.uuid : e \in matching}
  <1>5. /\ keychain' = [keychain EXCEPT ![term[t].backend] =
                           [u \in ConnUuids |-> IF u \in gone THEN 0 ELSE @[u]]]
        /\ givenUp' = givenUp \cup gone /\ UNCHANGED <<regFile, commands, reused>>
    BY DEF Drop, DeleteDSNs
  <1> HIDE DEF gone
  <1>6. /\ keychain' \in [Backends -> [ConnUuids -> Nat]]
        /\ \A b \in Backends, u \in ConnUuids : u \notin gone => keychain'[b][u] = keychain[b][u]
    BY <1>2, <1>5 DEF RegistryInv, RegistryTypeOK
  <1>7. RegistryTypeOK'
    BY <1>4, <1>5, <1>6 DEF RegistryInv, RegistryTypeOK
  <1>8. HoldsOn
    <2>1. \A e \in RegEntries : e.uuid \in ConnUuids
      BY DEF RegEntries
    <2> QED  BY <1>5, <1>6, <2>1 DEF HoldsOn, Exempt, SafeEntry
  <1>9. \A e \in RegEntries : PresentNext(e) => Present(e)
    BY <1>1, <1>4, <1>5 DEF PresentNext, Present
  <1> QED  BY <1>7, <1>8, <1>9, NothingNew, StepIsSafe

-----------------------------------------------------------------------------
(* One lemma per step *)

\* Commands are counted from nought, their DSNs from two.
LEMMA CommandsAreNumbers ==
    ASSUME RegistryTypeOK PROVE commands + 1 \in Nat /\ commands + 2 \in Nat
  <1>1. commands \in Nat
    BY DEF RegistryTypeOK
  <1> QED  BY <1>1

\* Load's copy is the file.
LEMMA LoadKeeps == ASSUME RegistryInv, NEW t \in Terminals, Load(t) PROVE RegistryInv'
  <1>1. PICK op \in {"add", "scripted add", "remove"}, u \in ConnUuids, n \in ConnNames :
          SetTerm(t, [pc |-> IF \E e \in regFile : e.dsn = "plain" THEN "migrate" ELSE op,
                      op |-> op, uuid |-> u, name |-> n, dsn |-> commands + 2,
                      backend |-> Backend, reg |-> regFile])
    BY DEF Load
  <1> DEFINE r == [pc |-> IF \E e \in regFile : e.dsn = "plain" THEN "migrate" ELSE op,
                   op |-> op, uuid |-> u, name |-> n, dsn |-> commands + 2,
                   backend |-> Backend, reg |-> regFile]
  <1>2. /\ r \in Terms /\ r.reg = regFile /\ r.backend \in Backends /\ r.uuid \in ConnUuids
        /\ r.name \in ConnNames /\ r.op # "none"
    <2>1. regFile \in SUBSET RegEntries
      BY DEF Load, RegistryInv, RegistryTypeOK
    <2>2. commands + 2 \in Nat
      BY CommandsAreNumbers DEF RegistryInv
    <2>3. Backend \in Backends
      BY DEF Backend, Backends
    <2> QED  BY <2>1, <2>2, <2>3 DEF Terms
  <1>3. SetTerm(t, r)
    BY <1>1
  <1> HIDE DEF r
  <1>4. /\ term' \in [Terminals -> Terms] /\ term'[t] = r
        /\ \A v \in Terminals : v # t => term'[v] = term[v]
        /\ \A v \in Terminals : ~TermAt(v, "idle")' =>
             /\ term'[v].backend \in Backends /\ term'[v].uuid \in ConnUuids
             /\ term'[v].name \in ConnNames /\ term'[v].op # "none"
    BY <1>2, <1>3, SetTermIs DEF RegistryInv
  <1>5. RegistryTypeOK'
    <2>1. commands' = commands + 1 /\ UNCHANGED <<regFile, keychain>>
      BY DEF Load
    <2>2. commands' \in Nat
      BY <2>1, CommandsAreNumbers DEF RegistryInv
    <2> QED  BY <1>4, <2>1, <2>2 DEF RegistryInv, RegistryTypeOK
  <1>6. \A e \in RegEntries : PresentNext(e) => Present(e)
    BY <1>2, <1>4, EntryIsNotTorn DEF Load, PresentNext, Present
  <1>7. HoldsOn
    BY SameKeychain DEF Load
  <1> QED  BY <1>5, <1>6, <1>7, NothingNew, StepIsSafe

\* Load's migration puts a DSN in the keychain before the copy loses it, and the
\* one that is there under that uuid is the same.
LEMMA MigrateKeeps == ASSUME RegistryInv, NEW t \in Terminals, Migrate(t) PROVE RegistryInv'
  <1>1. PICK e \in Plain(t) :
          /\ PutDSN(t, e.uuid, e.own)
          /\ SetTerm(t, [term[t] EXCEPT !.pc = IF Plain(t) = {e} THEN "rewrite" ELSE @,
                                        !.reg = (@ \ {e}) \cup {Moved(e)}])
    BY DEF Migrate
  <1> DEFINE r == [term[t] EXCEPT !.pc = IF Plain(t) = {e} THEN "rewrite" ELSE @,
                                  !.reg = (@ \ {e}) \cup {Moved(e)}]
  <1>2. /\ term[t] \in Terms /\ ~TermAt(t, "idle") /\ term[t].pc = "migrate"
        /\ UNCHANGED <<regFile, commands, givenUp, reused>>
    BY DEF Migrate, TermAt, RegistryInv, RegistryTypeOK
  <1>3. e \in term[t].reg /\ e \in RegEntries
    BY <1>2 DEF Plain, Terms
  <1>4. /\ Moved(e) \in RegEntries /\ Moved(e).uuid = e.uuid /\ Moved(e).own = e.own
        /\ e.uuid \in ConnUuids /\ e.own \in Nat
    BY <1>3 DEF Moved, Entry, RegEntries
  <1>5. /\ r \in Terms /\ r.reg = (term[t].reg \ {e}) \cup {Moved(e)}
        /\ r.backend \in Backends /\ r.uuid \in ConnUuids
        /\ r.name \in ConnNames /\ r.op # "none"
    BY <1>2, <1>4 DEF RegistryInv, RegistryTypeOK, Terms
  <1>6. SetTerm(t, r)
    BY <1>1
  <1> HIDE DEF r
  <1>7. /\ term' \in [Terminals -> Terms] /\ term'[t] = r
        /\ \A v \in Terminals : v # t => term'[v] = term[v]
        /\ \A v \in Terminals : ~TermAt(v, "idle")' =>
             /\ term'[v].backend \in Backends /\ term'[v].uuid \in ConnUuids
             /\ term'[v].name \in ConnNames /\ term'[v].op # "none"
    BY <1>5, <1>6, SetTermIs DEF RegistryInv
  <1>8. term[t].backend \in Backends
    BY <1>2 DEF RegistryInv, RegistryTypeOK
  <1>9. /\ keychain' \in [Backends -> [ConnUuids -> Nat]]
        /\ keychain'[term[t].backend][e.uuid] = e.own
        /\ \A b \in Backends, u \in ConnUuids : u # e.uuid => keychain'[b][u] = keychain[b][u]
        /\ \A b \in Backends : b # term[t].backend => keychain'[b] = keychain[b]
    BY <1>1, <1>4, <1>8 DEF PutDSN, RegistryInv, RegistryTypeOK
  <1>10. RegistryTypeOK'
    BY <1>2, <1>7, <1>9 DEF RegistryInv, RegistryTypeOK
  <1>11. Present(e)
    BY <1>3 DEF Present
  <1>12. HoldsOn
    <2>1. ASSUME NEW f \in RegEntries, Present(f), SafeEntry(f) PROVE SafeNext(f)
      <3>1. CASE Exempt(f.uuid) \/ f.dsn = "plain"
        BY <1>2, <3>1 DEF SafeNext, Exempt
      <3>2. CASE f.uuid = e.uuid /\ ~Exempt(f.uuid)
        <4>1. f.own = e.own
          BY <1>3, <1>11, <2>1, <3>2 DEF RegistryInv, OneOwn
        <4> QED  BY <1>8, <1>9, <3>2, <4>1 DEF SafeNext
      <3>3. CASE f.uuid # e.uuid /\ ~(Exempt(f.uuid) \/ f.dsn = "plain")
        <4>1. f.uuid \in ConnUuids
          BY DEF RegEntries
        <4> QED  BY <1>9, <2>1, <3>3, <4>1 DEF SafeNext, SafeEntry
      <3> QED  BY <3>1, <3>2, <3>3
    <2> QED  BY <1>2, <2>1 DEF HoldsOn, SafeNext, Exempt
  <1>13. \A f \in RegEntries : PresentNext(f) => Present(f) \/ f = Moved(e)
    BY <1>2, <1>5, <1>7 DEF PresentNext, Present
  <1>14. SafeNext(Moved(e))
    BY <1>4, <1>8, <1>9 DEF SafeNext
  <1>15. OldOrSafe
    BY <1>13, <1>14 DEF OldOrSafe
  <1>16. OldOwn
    BY <1>3, <1>4, <1>11, <1>13 DEF OldOwn
  <1> QED  BY <1>10, <1>12, <1>15, <1>16, StepIsSafe

\* A command writes its copy back.
LEMMA WriteBackKeeps ==
    ASSUME RegistryInv, NEW t \in Terminals, Rewrite(t) \/ Save(t)
    PROVE  RegistryInv'
  <1>1. /\ regFile' = term[t].reg /\ ~TermAt(t, "idle")
        /\ UNCHANGED <<keychain, unlocked, commands, givenUp, reused>>
    BY DEF Rewrite, Save, TermAt
  <1>2. PICK pc \in {"idle", "add", "scripted add", "remove"} : TermGoto(t, pc)
    BY <1>1 DEF Rewrite, Save, RegistryInv, RegistryTypeOK, Terms
  <1>3. /\ term' \in [Terminals -> Terms]
        /\ term'[t].reg \subseteq term[t].reg
        /\ \A u \in Terminals : u # t => term'[u] = term[u]
        /\ \A u \in Terminals : ~TermAt(u, "idle")' =>
             /\ term'[u].backend \in Backends /\ term'[u].uuid \in ConnUuids
             /\ term'[u].name \in ConnNames /\ term'[u].op # "none"
    BY <1>1, <1>2, TermGotoIs DEF RegistryInv
  <1>4. RegistryTypeOK'
    BY <1>1, <1>3 DEF RegistryInv, RegistryTypeOK, Terms
  <1>5. \A e \in RegEntries : PresentNext(e) => Present(e)
    BY <1>1, <1>3 DEF PresentNext, Present
  <1>6. HoldsOn
    BY <1>1, SameKeychain
  <1> QED  BY <1>4, <1>5, <1>6, NothingNew, StepIsSafe

\* A command ends without writing, or dies, perhaps while it writes.
LEMMA EndsKeep ==
    ASSUME RegistryInv, NEW t \in Terminals, ~TermAt(t, "idle"), TermGoto(t, "idle"),
           regFile' \in {regFile, TornRegistry}, UNCHANGED <<keychain, givenUp, reused, commands>>
    PROVE  RegistryInv'
  <1>1. /\ term' \in [Terminals -> Terms]
        /\ term'[t].reg \subseteq term[t].reg
        /\ \A u \in Terminals : u # t => term'[u] = term[u]
        /\ \A u \in Terminals : ~TermAt(u, "idle")' =>
             /\ term'[u].backend \in Backends /\ term'[u].uuid \in ConnUuids
             /\ term'[u].name \in ConnNames /\ term'[u].op # "none"
    BY TermGotoIs DEF RegistryInv
  <1>2. RegistryTypeOK'
    BY <1>1 DEF RegistryInv, RegistryTypeOK
  <1>3. \A e \in RegEntries : PresentNext(e) => Present(e)
    BY <1>1 DEF PresentNext, Present
  <1>4. HoldsOn
    BY SameKeychain
  <1> QED  BY <1>2, <1>3, <1>4, NothingNew, StepIsSafe

\* Registry.Add puts the DSN in the keychain with the entry in the copy; where
\* the uuid was another connection's, it is one of those an add was given.
LEMMA AddEntryKeeps == ASSUME RegistryInv, NEW t \in Terminals, AddEntry(t) PROVE RegistryInv'
  <1>1. CASE Named(t) # {}
    BY <1>1, EndsKeep DEF AddEntry, TermAt
  <1>2. CASE Named(t) = {}
    <2> DEFINE uuid == term[t].uuid
               new == Entry(uuid, term[t].name, "none", term[t].dsn)
               r == [term[t] EXCEPT !.pc = "save", !.reg = @ \cup {new}]
    <2>1. /\ ~TermAt(t, "idle") /\ term[t] \in Terms
          /\ term[t].backend \in Backends /\ uuid \in ConnUuids
          /\ term[t].name \in ConnNames /\ term[t].op # "none" /\ term[t].dsn \in Nat
      BY DEF AddEntry, TermAt, RegistryInv, RegistryTypeOK, Terms
    <2>2. /\ PutDSN(t, uuid, term[t].dsn) /\ SetTerm(t, r)
          /\ reused' = reused \cup {u \in {uuid} : InUse(u)}
          /\ UNCHANGED <<regFile, commands, givenUp>>
      BY <1>2 DEF AddEntry
    <2>3. /\ new \in RegEntries /\ new.uuid = uuid /\ new.own = term[t].dsn
      BY <2>1 DEF Entry, RegEntries
    <2>4. /\ r \in Terms /\ r.reg = term[t].reg \cup {new} /\ r.backend \in Backends
          /\ r.uuid \in ConnUuids /\ r.name \in ConnNames /\ r.op # "none"
      BY <2>1, <2>3 DEF Terms
    <2> HIDE DEF r, new
    <2>5. /\ term' \in [Terminals -> Terms] /\ term'[t] = r
          /\ \A v \in Terminals : v # t => term'[v] = term[v]
          /\ \A v \in Terminals : ~TermAt(v, "idle")' =>
               /\ term'[v].backend \in Backends /\ term'[v].uuid \in ConnUuids
               /\ term'[v].name \in ConnNames /\ term'[v].op # "none"
      BY <2>2, <2>4, SetTermIs DEF RegistryInv
    <2>6. /\ keychain' \in [Backends -> [ConnUuids -> Nat]]
          /\ keychain'[term[t].backend][uuid] = term[t].dsn
          /\ \A b \in Backends, u \in ConnUuids : u # uuid => keychain'[b][u] = keychain[b][u]
      BY <2>1, <2>2 DEF PutDSN, RegistryInv, RegistryTypeOK
    <2>7. RegistryTypeOK'
      BY <2>2, <2>5, <2>6 DEF RegistryInv, RegistryTypeOK
    <2>8. \A f : Present(f) /\ f.uuid = uuid => uuid \in reused'
      BY <2>2 DEF Present, InUse
    <2>9. \A u : Exempt(u) => u \in givenUp' \cup reused'
      BY <2>2 DEF Exempt
    <2>10. \A f \in RegEntries : Present(f) => SafeNext(f)
      <3>1. ASSUME NEW f \in RegEntries, Present(f), f.uuid # uuid PROVE SafeNext(f)
        <4>1. f.uuid \in ConnUuids
          BY DEF RegEntries
        <4> QED  BY <2>6, <2>9, <3>1, <4>1 DEF RegistryInv, SafeEntry, SafeNext
      <3> QED  BY <2>8, <3>1 DEF SafeNext
    <2>11. \A f \in RegEntries : PresentNext(f) => Present(f) \/ f = new
      BY <2>2, <2>4, <2>5 DEF PresentNext, Present
    <2>12. SafeNext(new)
      BY <2>1, <2>3, <2>6 DEF SafeNext
    <2>13. ASSUME NEW e \in RegEntries, NEW f \in RegEntries, PresentNext(e), PresentNext(f),
                  e.uuid = f.uuid
           PROVE  e.uuid \in givenUp' \cup reused' \/ e.own = f.own
      <3>1. CASE e = new \/ f = new
        BY <2>3, <2>8, <2>11, <2>13, <3>1
      <3>2. CASE Present(e) /\ Present(f)
        BY <2>9, <2>13, <3>2 DEF RegistryInv, OneOwn
      <3> QED  BY <2>11, <2>13, <3>1, <3>2
    <2> QED  BY <2>7, <2>10, <2>11, <2>12, <2>13
             DEF RegistryInv, OneOwn, PresentNext, SafeNext, Present, SafeEntry, Exempt
  <1> QED  BY <1>1, <1>2

\* The invariant is inductive.
LEMMA RegistryInductive == RegistryInv /\ [RegistryNext]_regvars => RegistryInv'
  <1> SUFFICES ASSUME RegistryInv, [RegistryNext]_regvars PROVE RegistryInv'
    OBVIOUS
  <1>1. CASE UNCHANGED <<regFile, keychain, term, commands, givenUp, reused>>
    <2>1. RegistryTypeOK'
      BY <1>1 DEF RegistryInv, RegistryTypeOK, TermAt
    <2>2. \A e \in RegEntries : PresentNext(e) => Present(e)
      BY <1>1 DEF PresentNext, Present
    <2>3. HoldsOn
      BY <1>1, SameKeychain
    <2> QED  BY <2>1, <2>2, <2>3, NothingNew, StepIsSafe
  <1>2. ASSUME NEW t \in Terminals, Remove(t) PROVE RegistryInv'
    <2>1. ASSUME NEW e \in Named(t) \cup WithUuid(t), Drop(t, {e}, "save") PROVE RegistryInv'
      <3>1. ~TermAt(t, "idle")
        BY <1>2 DEF Remove, TermAt
      <3>2. {e} \subseteq term[t].reg
        BY DEF Named, WithUuid
      <3> QED  BY <2>1, <3>1, <3>2, DropKeeps
    <2>2. CASE /\ TermGoto(t, "idle")
               /\ UNCHANGED <<regFile, keychain, unlocked, commands, givenUp, reused>>
      BY <1>2, <2>2, EndsKeep DEF Remove, TermAt
    <2> QED  BY <1>2, <2>1, <2>2 DEF Remove
  <1>3. ASSUME NEW t \in Terminals, ScriptedDrop(t) PROVE RegistryInv'
    <2>1. PICK matching \in SUBSET term[t].reg : Drop(t, matching, "checks")
      <3>1. Named(t) \subseteq term[t].reg /\ WithUuid(t) \subseteq term[t].reg
        BY DEF Named, WithUuid
      <3> QED  BY <1>3, <3>1 DEF ScriptedDrop
    <2>2. ~TermAt(t, "idle")
      BY <1>3 DEF ScriptedDrop, TermAt
    <2> QED  BY <2>1, <2>2, DropKeeps
  <1>4. ASSUME NEW t \in Terminals, ScriptedRefused(t) \/ CommandDies(t) PROVE RegistryInv'
    BY <1>4, EndsKeep DEF ScriptedRefused, CommandDies, TermAt, TermGoto
  <1>5. CASE KeyringTurns \/ UNCHANGED regvars
    BY <1>1, <1>5 DEF KeyringTurns, regvars
  <1> QED  BY <1>2, <1>3, <1>4, <1>5, LoadKeeps, MigrateKeeps, WriteBackKeeps, AddEntryKeeps
              DEF RegistryNext

\* For any number of terminals, connections and commands, and wherever they die:
\* the DSN a connection of the file was added with is in a keychain or still in
\* the file, unless a command was asked to remove or to replace its uuid or an add
\* was given it again (Registry.Load, Add, Remove, PutDSN).
THEOREM DSNAlwaysSurvives == RegistrySpec => []DSNSurvives
  <1>1. RegistryInv => DSNSurvives
    <2> SUFFICES ASSUME RegistryInv, NEW e \in regFile \ TornRegistry
                 PROVE  \/ e.uuid \in givenUp \cup reused
                        \/ e.dsn = "plain"
                        \/ \E b \in Backends : keychain[b][e.uuid] = e.own
      BY DEF DSNSurvives
    <2>1. Present(e) /\ e \in RegEntries
      BY PresentIsEntry DEF Present, RegistryInv
    <2> QED  BY <2>1 DEF RegistryInv, SafeEntry, Exempt
  <1> QED  BY <1>1, RegistryInitially, RegistryInductive, PTL DEF RegistrySpec

-----------------------------------------------------------------------------
(* The credentials and the catalog *)

Agents == 0..MaxAgents
Stages == Ops \cup {"idle", "migrate uuid", "migrate token", "register", "write uuid",
                    "write token", "update", "as agent", "remove uuid", "remove token",
                    "ok", "failed", "refused"}
AgentCmds == [op : Ops \cup {"none"}, pc : Stages, new : Agents, retried : {"yes", "no"}]
Credentials == [uuid : Agents, token : Agents]

PairingTypeOK ==
    /\ creds \in Credentials /\ legacyDir \in Credentials
    /\ minted \in Agents /\ active \in SUBSET (1..MaxAgents)
    /\ catalog \in [1..MaxAgents -> Nat] /\ acommands \in Nat
    /\ acmd \in AgentCmds

\* Which command is at a stage that not every command goes through.
StageOfCommand ==
    /\ acmd.pc # "idle" => acmd.op \in Ops
    /\ acmd.pc \in Ops => acmd.op = acmd.pc
    /\ acmd.pc \in {"remove uuid", "remove token"} => acmd.op \in {"unpair", "unpair --keep-remote"}
    /\ acmd.pc \in {"update", "as agent"} => acmd.op = "publish"

\* Nobody has an agent that is not registered yet.
AgentsAreMinted ==
    /\ creds.uuid <= minted /\ legacyDir.uuid <= minted
    /\ CmdAt("write uuid") => acmd.new <= minted

\* An agent nuzur has is one of this machine's files, or it has just been registered.
\* The files' own is given up before it is replaced or removed.
Accounted ==
    /\ active \subseteq {creds.uuid, legacyDir.uuid} \cup excused
                          \cup (IF CmdAt("write uuid") THEN {acmd.new} ELSE {})
    /\ acmd.pc \in {"register", "write uuid", "remove uuid"} =>
           creds.uuid \notin active \ excused

\* How far apart a command has brought the two files.
FilesInStep ==
    /\ legacyDir.token = legacyDir.uuid \/ legacyDir.token = Nobody \/ legacyDir.uuid = Nobody
    /\ halfway = "no" =>
          \/ creds.token = creds.uuid
          \/ creds.token = Nobody /\ creds.uuid = legacyDir.uuid
          \/ creds.uuid = Nobody /\ creds.token = legacyDir.token
          \/ CmdAt("write token")
          \/ CmdAt("remove token") /\ creds.uuid = Nobody
    /\ CmdAt("write token") => creds.uuid = acmd.new
    /\ CmdAt("remove token") => creds.uuid = Nobody \/ halfway = "yes"

PairingInv ==
    /\ PairingTypeOK /\ StageOfCommand /\ AgentsAreMinted /\ Accounted /\ FilesInStep
    /\ PublishedUnderOwnAgent

-----------------------------------------------------------------------------

\* A machine that is new, paired, or paired by an older version.
LEMMA PairingInitially == PairingInit => PairingInv
  BY PairingAssumption
     DEF PairingInit, PairingInv, PairingTypeOK, StageOfCommand, AgentsAreMinted, Accounted,
     FilesInStep, PublishedUnderOwnAgent, Agents, Credentials, AgentCmds, Stages, Ops, NoCreds,
     Nobody, IdleCmd, CmdAt

\* The number of no agent.
LEMMA NobodyIsNoAgent == Nobody \in Agents /\ Nobody \notin 1..MaxAgents /\ MaxAgents \in Nat
  BY PairingAssumption DEF Agents, Nobody

LEMMA UuidsAreNumbers ==
    ASSUME PairingInv PROVE creds.uuid \in Nat /\ legacyDir.uuid \in Nat /\ minted \in Nat
  <1>1. Agents \subseteq Nat
    BY DEF Agents
  <1> QED  BY <1>1 DEF PairingInv, PairingTypeOK, Credentials

\* A command goes on to pc.
LEMMA StepIs ==
    ASSUME PairingTypeOK, NEW pc \in Stages, Step(pc)
    PROVE  /\ acmd'.pc = pc /\ acmd'.op = acmd.op /\ acmd'.new = acmd.new /\ acmd' \in AgentCmds
  BY DEF PairingTypeOK, AgentCmds, Step

\* A step that writes no credential, and registers nobody, keeps what is said of them,
\* if it gives the files' own agent up where it must.
LEMMA FilesStay ==
    ASSUME PairingInv, UNCHANGED <<creds, legacyDir, minted>>,
           active' \subseteq active, excused \subseteq excused', halfway' = halfway,
           \/ acmd' = acmd
           \/ /\ acmd.pc \notin {"write token", "remove token"}
              /\ acmd'.pc \notin {"write uuid", "write token", "remove token"}
              /\ CmdAt("write uuid") => acmd.new \in excused'
              /\ acmd'.pc \in {"register", "remove uuid"} => creds.uuid \notin active' \ excused'
    PROVE  AgentsAreMinted' /\ Accounted' /\ FilesInStep'
  BY DEF PairingInv, AgentsAreMinted, Accounted, FilesInStep, CmdAt

\* Types of the stages and changes that write no credential and register nobody.
LEMMA TypesStay ==
    ASSUME PairingInv, UNCHANGED <<creds, legacyDir, minted>>, active' \subseteq active,
           catalog' \in [1..MaxAgents -> Nat], acommands' \in Nat, acmd' \in AgentCmds
    PROVE  PairingTypeOK'
  BY DEF PairingInv, PairingTypeOK

\* A command that does not run.
LEMMA IdleIsTyped == IdleCmd \in AgentCmds /\ IdleCmd.pc = "idle" /\ NoCreds \in Credentials
  BY PairingAssumption DEF IdleCmd, AgentCmds, Stages, Nobody, Agents, NoCreds, Credentials

\* A catalog is shown under an agent that nuzur has.
LEMMA ShownIs ==
    ASSUME PairingInv, NEW a \in active, Shown(a)
    PROVE  catalog' \in [1..MaxAgents -> Nat] /\ catalog'[a] = acommands
  BY DEF PairingInv, PairingTypeOK, Shown

-----------------------------------------------------------------------------
(* The stages, one by one *)

LEMMA BeginCmdKeeps == ASSUME PairingInv, BeginCmd PROVE PairingInv'
  <1>1. PICK op \in Ops : acmd' = [IdleCmd EXCEPT !.op = op, !.pc = "migrate uuid"]
    BY DEF BeginCmd
  <1>2. acmd' \in AgentCmds /\ acmd'.pc = "migrate uuid" /\ acmd'.op \in Ops /\ CmdAt("idle")
    BY <1>1, NobodyIsNoAgent DEF BeginCmd, IdleCmd, AgentCmds, Stages
  <1>3. UNCHANGED <<creds, legacyDir, active, minted, catalog, excused, halfway>> /\ acommands' \in Nat
    BY DEF BeginCmd, Elsewhere, PairingInv, PairingTypeOK
  <1>4. PairingTypeOK'
    BY <1>2, <1>3, TypesStay DEF PairingInv, PairingTypeOK
  <1>5. AgentsAreMinted' /\ Accounted' /\ FilesInStep'
    BY <1>2, <1>3, FilesStay DEF CmdAt
  <1>6. StageOfCommand' /\ PublishedUnderOwnAgent'
    BY <1>2 DEF StageOfCommand, Ops, PublishedUnderOwnAgent, CmdAt
  <1> QED  BY <1>4, <1>5, <1>6 DEF PairingInv

LEMMA MigrateUUIDKeeps == ASSUME PairingInv, MigrateUUID PROVE PairingInv'
  <1>1. /\ acmd'.pc = "migrate token" /\ acmd'.op = acmd.op /\ acmd' \in AgentCmds
        /\ CmdAt("migrate uuid")
    BY StepIs DEF MigrateUUID, PairingInv, Stages
  <1>2. /\ creds' = [creds EXCEPT !.uuid = Migrated("uuid")]
        /\ UNCHANGED <<legacyDir, active, minted, catalog, excused, acommands, halfway>>
    BY DEF MigrateUUID, Same, Elsewhere
  <1>3. /\ creds' \in Credentials /\ creds'.token = creds.token
        /\ creds'.uuid \in {creds.uuid, legacyDir.uuid}
        /\ creds.uuid # Nobody => creds'.uuid = creds.uuid
    BY <1>2 DEF PairingInv, PairingTypeOK, Credentials, Migrated
  <1>4. PairingTypeOK'
    BY <1>1, <1>2, <1>3 DEF PairingInv, PairingTypeOK
  <1>5. AgentsAreMinted' /\ FilesInStep'
    BY <1>1, <1>2, <1>3 DEF PairingInv, AgentsAreMinted, FilesInStep, CmdAt
  <1>6. Accounted'
    <2>1. active \subseteq {creds.uuid, legacyDir.uuid} \cup excused /\ Nobody \notin active
      BY <1>1, NobodyIsNoAgent DEF PairingInv, PairingTypeOK, Accounted, CmdAt
    <2> QED  BY <1>1, <1>2, <1>3, <2>1 DEF Accounted, CmdAt
  <1>7. StageOfCommand' /\ PublishedUnderOwnAgent'
    BY <1>1 DEF PairingInv, StageOfCommand, Ops, PublishedUnderOwnAgent, CmdAt
  <1> QED  BY <1>4, <1>5, <1>6, <1>7 DEF PairingInv

LEMMA MigrateTokenKeeps == ASSUME PairingInv, MigrateToken PROVE PairingInv'
  <1>1. acmd.op \in Ops /\ CmdAt("migrate token")
    BY DEF MigrateToken, PairingInv, StageOfCommand, CmdAt
  <1>2. acmd'.pc = acmd.op /\ acmd'.op = acmd.op /\ acmd' \in AgentCmds
    BY <1>1, StepIs DEF MigrateToken, PairingInv, Stages
  <1>3. /\ creds' = [creds EXCEPT !.token = Migrated("token")]
        /\ UNCHANGED <<legacyDir, active, minted, catalog, excused, acommands, halfway>>
    BY DEF MigrateToken, Same, Elsewhere
  <1>4. /\ creds' \in Credentials /\ creds'.uuid = creds.uuid
        /\ creds'.token \in {creds.token, legacyDir.token}
        /\ creds.token # Nobody => creds'.token = creds.token
    BY <1>3 DEF PairingInv, PairingTypeOK, Credentials, Migrated
  <1>5. PairingTypeOK' /\ AgentsAreMinted'
    <2>1. acmd'.pc # "write uuid"
      BY <1>1, <1>2 DEF Ops
    <2> QED  BY <1>2, <1>3, <1>4, <2>1 DEF PairingInv, PairingTypeOK, AgentsAreMinted, CmdAt
  <1>6. FilesInStep'
    <2>1. acmd'.pc \notin {"write token", "remove token"}
      BY <1>1, <1>2 DEF Ops
    <2> QED  BY <1>1, <1>3, <1>4, <2>1 DEF PairingInv, FilesInStep, CmdAt
  <1>7. Accounted' /\ StageOfCommand' /\ PublishedUnderOwnAgent'
    BY <1>1, <1>2, <1>3, <1>4
       DEF PairingInv, Accounted, StageOfCommand, Ops, PublishedUnderOwnAgent, CmdAt
  <1> QED  BY <1>5, <1>6, <1>7 DEF PairingInv

LEMMA MigrationFailsKeeps == ASSUME PairingInv, MigrationFails PROVE PairingInv'
  <1>1. acmd.op \in Ops /\ (CmdAt("migrate uuid") \/ CmdAt("migrate token"))
    BY DEF MigrationFails, PairingInv, StageOfCommand, CmdAt
  <1>2. acmd'.pc = acmd.op /\ acmd'.op = acmd.op /\ acmd' \in AgentCmds
    BY <1>1, StepIs DEF MigrationFails, PairingInv, Stages
  <1>3. UNCHANGED <<creds, legacyDir, active, minted, catalog, excused, acommands, halfway>>
    BY DEF MigrationFails, Elsewhere
  <1>4. PairingTypeOK'
    BY <1>2, <1>3, TypesStay DEF PairingInv, PairingTypeOK
  <1>5. AgentsAreMinted' /\ Accounted' /\ FilesInStep'
    BY <1>1, <1>2, <1>3, FilesStay DEF CmdAt, Ops
  <1>6. StageOfCommand' /\ PublishedUnderOwnAgent'
    BY <1>1, <1>2 DEF PairingInv, StageOfCommand, Ops, PublishedUnderOwnAgent, CmdAt
  <1> QED  BY <1>4, <1>5, <1>6 DEF PairingInv

LEMMA PairKeeps == ASSUME PairingInv, Pair PROVE PairingInv'
  <1>1. /\ UNCHANGED <<creds, legacyDir, active, minted, catalog, acommands, halfway>>
        /\ CmdAt("pair") \/ CmdAt("pair --force")
        /\ \/ Step("refused") /\ excused' = excused
           \/ Step("register") /\ excused' = excused \cup {creds.uuid}
    BY DEF Pair, Same, CmdAt
  <1>2. /\ acmd' \in AgentCmds /\ acmd'.op = acmd.op
        /\ \/ acmd'.pc = "refused"
           \/ acmd'.pc = "register" /\ creds.uuid \in excused'
    BY <1>1, StepIs DEF PairingInv, Stages
  <1>3. PairingTypeOK'
    BY <1>1, <1>2, TypesStay DEF PairingInv, PairingTypeOK
  <1>4. AgentsAreMinted' /\ Accounted' /\ FilesInStep'
    BY <1>1, <1>2, FilesStay DEF CmdAt
  <1>5. StageOfCommand' /\ PublishedUnderOwnAgent'
    BY <1>1, <1>2 DEF PairingInv, StageOfCommand, Ops, PublishedUnderOwnAgent, CmdAt
  <1> QED  BY <1>3, <1>4, <1>5 DEF PairingInv

\* The files' agent has been given up, so that the new one is all there is to account for.
LEMMA RegisterKeeps == ASSUME PairingInv, Register PROVE PairingInv'
  <1>1. /\ minted < MaxAgents /\ minted' = minted + 1 /\ active' = active \cup {minted + 1}
        /\ acmd' = [acmd EXCEPT !.pc = "write uuid", !.new = minted + 1]
        /\ UNCHANGED <<creds, legacyDir, catalog, excused, acommands, halfway>> /\ CmdAt("register")
    BY DEF Register, Same
  <1>2. minted \in Nat /\ MaxAgents \in Nat /\ minted + 1 \in 1..MaxAgents
    BY <1>1, PairingAssumption DEF PairingInv, PairingTypeOK, Agents
  <1>3. /\ acmd'.pc = "write uuid" /\ acmd'.op = acmd.op /\ acmd'.new = minted + 1
        /\ acmd' \in AgentCmds
    <2>1. minted + 1 \in Agents /\ "write uuid" \in Stages
      BY <1>2 DEF Agents, Stages
    <2> QED  BY <1>1, <2>1 DEF PairingInv, PairingTypeOK, AgentCmds
  <1>4. PairingTypeOK'
    BY <1>1, <1>2, <1>3 DEF PairingInv, PairingTypeOK, Agents
  <1>5. creds.uuid \in Nat /\ legacyDir.uuid \in Nat /\ creds.uuid # minted + 1
    <2>1. creds.uuid <= minted
      BY DEF PairingInv, AgentsAreMinted
    <2> QED  BY <2>1, UuidsAreNumbers
  <1>6. AgentsAreMinted' /\ FilesInStep'
    BY <1>1, <1>2, <1>3, <1>5 DEF PairingInv, AgentsAreMinted, FilesInStep, CmdAt
  <1>7. Accounted'
    BY <1>1, <1>3, <1>5 DEF PairingInv, Accounted, CmdAt
  <1>8. StageOfCommand' /\ PublishedUnderOwnAgent'
    BY <1>1, <1>3 DEF PairingInv, StageOfCommand, Ops, PublishedUnderOwnAgent, CmdAt
  <1> QED  BY <1>4, <1>6, <1>7, <1>8 DEF PairingInv

LEMMA RegisterReplyLostKeeps == ASSUME PairingInv, RegisterReplyLost PROVE PairingInv'
  <1>1. /\ minted < MaxAgents /\ minted' = minted + 1 /\ active' = active \cup {minted + 1}
        /\ excused' = excused \cup {minted + 1}
        /\ UNCHANGED <<creds, legacyDir, catalog, acommands, halfway>> /\ CmdAt("register")
    BY DEF RegisterReplyLost, Same
  <1>2. acmd'.pc = "failed" /\ acmd'.op = acmd.op /\ acmd' \in AgentCmds
    BY StepIs DEF RegisterReplyLost, PairingInv, Stages
  <1>3. minted \in Nat /\ MaxAgents \in Nat /\ minted + 1 \in 1..MaxAgents
    BY <1>1, PairingAssumption DEF PairingInv, PairingTypeOK, Agents
  <1>4. PairingTypeOK'
    BY <1>1, <1>2, <1>3 DEF PairingInv, PairingTypeOK, Agents
  <1>5. AgentsAreMinted'
    BY <1>1, <1>2, <1>3, UuidsAreNumbers DEF PairingInv, AgentsAreMinted, CmdAt
  <1>6. FilesInStep' /\ Accounted'
    BY <1>1, <1>2 DEF PairingInv, FilesInStep, Accounted, CmdAt
  <1>7. StageOfCommand' /\ PublishedUnderOwnAgent'
    BY <1>1, <1>2 DEF PairingInv, StageOfCommand, Ops, PublishedUnderOwnAgent, CmdAt
  <1> QED  BY <1>4, <1>5, <1>6, <1>7 DEF PairingInv

LEMMA WriteUUIDKeeps == ASSUME PairingInv, WriteUUID PROVE PairingInv'
  <1>1. /\ creds' = [creds EXCEPT !.uuid = acmd.new] /\ CmdAt("write uuid")
        /\ UNCHANGED <<legacyDir, active, minted, catalog, excused, acommands, halfway>>
    BY DEF WriteUUID, Elsewhere
  <1>2. /\ acmd'.pc = "write token" /\ acmd'.op = acmd.op /\ acmd'.new = acmd.new
        /\ acmd' \in AgentCmds
    BY StepIs DEF WriteUUID, PairingInv, Stages
  <1>3. creds' \in Credentials /\ creds'.uuid = acmd.new
    BY <1>1 DEF PairingInv, PairingTypeOK, Credentials, AgentCmds
  <1>4. PairingTypeOK'
    BY <1>1, <1>2, <1>3 DEF PairingInv, PairingTypeOK
  <1>5. AgentsAreMinted' /\ FilesInStep' /\ Accounted'
    BY <1>1, <1>2, <1>3 DEF PairingInv, AgentsAreMinted, FilesInStep, Accounted, CmdAt
  <1>6. StageOfCommand' /\ PublishedUnderOwnAgent'
    BY <1>1, <1>2 DEF PairingInv, StageOfCommand, Ops, PublishedUnderOwnAgent, CmdAt
  <1> QED  BY <1>4, <1>5, <1>6 DEF PairingInv

LEMMA WriteTokenKeeps == ASSUME PairingInv, WriteToken PROVE PairingInv'
  <1>1. /\ creds' = [creds EXCEPT !.token = acmd.new] /\ CmdAt("write token")
        /\ UNCHANGED <<legacyDir, active, minted, catalog, excused, acommands, halfway>>
    BY DEF WriteToken, Elsewhere
  <1>2. /\ acmd'.pc = IF acmd.op = "publish" THEN "update" ELSE "ok"
        /\ acmd'.op = acmd.op /\ acmd' \in AgentCmds
    BY StepIs DEF WriteToken, PairingInv, Stages
  <1>3. creds' \in Credentials /\ creds'.uuid = creds.uuid /\ creds'.token = acmd.new
    BY <1>1 DEF PairingInv, PairingTypeOK, Credentials, AgentCmds
  <1>4. PairingTypeOK'
    BY <1>1, <1>2, <1>3 DEF PairingInv, PairingTypeOK
  <1>5. AgentsAreMinted' /\ FilesInStep' /\ Accounted'
    BY <1>1, <1>2, <1>3 DEF PairingInv, AgentsAreMinted, FilesInStep, Accounted, CmdAt
  <1>6. StageOfCommand' /\ PublishedUnderOwnAgent'
    BY <1>1, <1>2 DEF PairingInv, StageOfCommand, Ops, PublishedUnderOwnAgent, CmdAt
  <1> QED  BY <1>4, <1>5, <1>6 DEF PairingInv

LEMMA UnpairKeeps == ASSUME PairingInv, Unpair PROVE PairingInv'
  <1>1. /\ UNCHANGED <<creds, legacyDir, minted, catalog, acommands, halfway>>
        /\ CmdAt("unpair") \/ CmdAt("unpair --keep-remote")
        /\ active' \subseteq active /\ excused \subseteq excused'
        /\ creds.uuid \notin active' \ excused'
    BY DEF Unpair, Same, CmdAt
  <1>2. acmd'.pc = "remove uuid" /\ acmd'.op = acmd.op /\ acmd' \in AgentCmds
    BY StepIs DEF Unpair, PairingInv, Stages
  <1>3. PairingTypeOK'
    BY <1>1, <1>2, TypesStay DEF PairingInv, PairingTypeOK
  <1>4. AgentsAreMinted' /\ Accounted' /\ FilesInStep'
    BY <1>1, <1>2, FilesStay DEF CmdAt
  <1>5. StageOfCommand' /\ PublishedUnderOwnAgent'
    BY <1>1, <1>2 DEF PairingInv, StageOfCommand, Ops, PublishedUnderOwnAgent, CmdAt
  <1> QED  BY <1>3, <1>4, <1>5 DEF PairingInv

LEMMA RemoveUUIDKeeps == ASSUME PairingInv, RemoveUUID PROVE PairingInv'
  <1>1. /\ CmdAt("remove uuid")
        /\ UNCHANGED <<legacyDir, active, minted, catalog, excused, acommands>>
        /\ \/ creds' = [creds EXCEPT !["uuid"] = Nobody] /\ halfway' = halfway
           \/ creds' = creds /\ halfway' = "yes"
    BY DEF RemoveUUID, RemovesFile, Elsewhere
  <1>2. acmd'.pc = "remove token" /\ acmd'.op = acmd.op /\ acmd' \in AgentCmds
    BY StepIs DEF RemoveUUID, PairingInv, Stages
  <1>3. /\ creds' \in Credentials /\ creds'.uuid \in {Nobody, creds.uuid}
        /\ creds'.uuid = Nobody \/ halfway' = "yes"
    BY <1>1, NobodyIsNoAgent DEF PairingInv, PairingTypeOK, Credentials
  <1>4. PairingTypeOK'
    BY <1>1, <1>2, <1>3 DEF PairingInv, PairingTypeOK
  <1>5. AgentsAreMinted'
    <2>1. Nobody <= minted
      BY UuidsAreNumbers DEF Nobody
    <2> QED  BY <1>1, <1>2, <1>3, <2>1 DEF PairingInv, AgentsAreMinted, CmdAt
  <1>6. FilesInStep' /\ Accounted'
    BY <1>1, <1>2, <1>3 DEF PairingInv, FilesInStep, Accounted, CmdAt
  <1>7. StageOfCommand' /\ PublishedUnderOwnAgent'
    BY <1>1, <1>2 DEF PairingInv, StageOfCommand, Ops, PublishedUnderOwnAgent, CmdAt
  <1> QED  BY <1>4, <1>5, <1>6, <1>7 DEF PairingInv

LEMMA RemoveTokenKeeps == ASSUME PairingInv, RemoveToken PROVE PairingInv'
  <1>1. /\ CmdAt("remove token")
        /\ UNCHANGED <<legacyDir, active, minted, catalog, excused, acommands>>
        /\ \/ creds' = [creds EXCEPT !["token"] = Nobody] /\ halfway' = halfway
           \/ creds' = creds /\ halfway' = "yes"
    BY DEF RemoveToken, RemovesFile
  <1>2. acmd'.pc = "ok" /\ acmd'.op = acmd.op /\ acmd' \in AgentCmds
    BY StepIs DEF RemoveToken, PairingInv, Stages
  <1>3. /\ creds' \in Credentials /\ creds'.uuid = creds.uuid
        /\ (creds'.token = Nobody /\ halfway' = halfway) \/ halfway' = "yes"
    BY <1>1, NobodyIsNoAgent DEF PairingInv, PairingTypeOK, Credentials
  <1>4. PairingTypeOK'
    BY <1>1, <1>2, <1>3 DEF PairingInv, PairingTypeOK
  <1>5. AgentsAreMinted' /\ FilesInStep' /\ Accounted'
    BY <1>1, <1>2, <1>3 DEF PairingInv, AgentsAreMinted, FilesInStep, Accounted, CmdAt
  <1>6. StageOfCommand' /\ PublishedUnderOwnAgent'
    BY <1>1, <1>2 DEF PairingInv, StageOfCommand, Ops, PublishedUnderOwnAgent, CmdAt
  <1> QED  BY <1>4, <1>5, <1>6 DEF PairingInv

LEMMA PublishCatalogKeeps == ASSUME PairingInv, PublishCatalog PROVE PairingInv'
  <1>1. /\ UNCHANGED <<creds, legacyDir, active, minted, catalog, excused, acommands, halfway>>
        /\ CmdAt("publish")
        /\ \/ Step("as agent") \/ Step("failed") \/ Step("update")
           \/ Step("register") /\ creds.uuid = Nobody
    BY DEF PublishCatalog, Same, Elsewhere
  <1>2. /\ acmd' \in AgentCmds /\ acmd'.op = acmd.op
        /\ \/ acmd'.pc \in {"as agent", "failed", "update"}
           \/ acmd'.pc = "register" /\ creds.uuid = Nobody
    BY <1>1, StepIs DEF PairingInv, Stages
  <1>3. PairingTypeOK' /\ Nobody \notin active
    BY <1>1, <1>2, TypesStay, NobodyIsNoAgent DEF PairingInv, PairingTypeOK
  <1>4. AgentsAreMinted' /\ Accounted' /\ FilesInStep'
    BY <1>1, <1>2, <1>3, FilesStay DEF CmdAt
  <1>5. StageOfCommand' /\ PublishedUnderOwnAgent'
    BY <1>1, <1>2 DEF PairingInv, StageOfCommand, Ops, PublishedUnderOwnAgent, CmdAt
  <1> QED  BY <1>3, <1>4, <1>5 DEF PairingInv

\* A catalog that is shown is shown under the agent on disk.
LEMMA UpdateKeeps == ASSUME PairingInv, Update \/ PublishAsAgent PROVE PairingInv'
  <1>1. /\ UNCHANGED <<creds, legacyDir, active, minted, excused, acommands, halfway>>
        /\ CmdAt("update") \/ CmdAt("as agent")
        /\ \/ Step("as agent") /\ catalog' = catalog
           \/ Step("failed") /\ catalog' = catalog
           \/ Step("ok") /\ creds.uuid \in active /\ Shown(creds.uuid)
           \/ /\ acmd' = [acmd EXCEPT !.pc = "register", !.retried = "yes"]
              /\ creds.uuid \notin active /\ catalog' = catalog
    BY DEF Update, PublishAsAgent, Same, CmdAt
  <1>2. /\ acmd' \in AgentCmds /\ acmd'.op = acmd.op
        /\ \/ acmd'.pc \in {"as agent", "failed"} /\ catalog' = catalog
           \/ acmd'.pc = "ok" /\ creds.uuid \in active /\ Shown(creds.uuid)
           \/ acmd'.pc = "register" /\ creds.uuid \notin active /\ catalog' = catalog
    <2>1. CASE acmd' = [acmd EXCEPT !.pc = "register", !.retried = "yes"]
      BY <1>1, <2>1 DEF PairingInv, PairingTypeOK, AgentCmds, Stages, Step
    <2> QED  BY <1>1, <2>1, StepIs DEF PairingInv, Stages
  <1>3. /\ catalog' \in [1..MaxAgents -> Nat] /\ Nobody \notin active
        /\ acmd'.pc = "ok" => catalog'[creds.uuid] = acommands /\ creds.uuid \in active
    BY <1>2, ShownIs, NobodyIsNoAgent DEF PairingInv, PairingTypeOK
  <1>4. PairingTypeOK'
    BY <1>1, <1>2, <1>3, TypesStay DEF PairingInv, PairingTypeOK
  <1>5. AgentsAreMinted' /\ Accounted' /\ FilesInStep'
    BY <1>1, <1>2, FilesStay DEF CmdAt
  <1>6. StageOfCommand'
    BY <1>1, <1>2 DEF PairingInv, StageOfCommand, Ops, CmdAt
  <1>7. PublishedUnderOwnAgent'
    BY <1>1, <1>2, <1>3 DEF PublishedUnderOwnAgent, CmdAt
  <1> QED  BY <1>4, <1>5, <1>6, <1>7 DEF PairingInv

\* A call that fails, and the end of a command.
LEMMA CallFailsKeeps == ASSUME PairingInv, CallFails \/ CmdEnds PROVE PairingInv'
  <1>1. /\ UNCHANGED <<creds, legacyDir, active, minted, catalog, excused, acommands, halfway>>
        /\ acmd.pc \notin {"write uuid", "write token", "remove token"}
        /\ (Step("failed") /\ acmd.pc # "idle") \/ acmd' = IdleCmd
    BY DEF CallFails, CmdEnds, Same, Elsewhere
  <1>2. acmd' \in AgentCmds /\ ((acmd'.pc = "failed" /\ acmd'.op \in Ops) \/ acmd'.pc = "idle")
    BY <1>1, StepIs, IdleIsTyped DEF PairingInv, StageOfCommand, Stages
  <1>3. PairingTypeOK'
    BY <1>1, <1>2, TypesStay DEF PairingInv, PairingTypeOK
  <1>4. AgentsAreMinted' /\ Accounted' /\ FilesInStep'
    BY <1>1, <1>2, FilesStay DEF CmdAt
  <1>5. StageOfCommand' /\ PublishedUnderOwnAgent'
    BY <1>2 DEF StageOfCommand, Ops, PublishedUnderOwnAgent, CmdAt
  <1> QED  BY <1>3, <1>4, <1>5 DEF PairingInv

LEMMA CmdDiesKeeps == ASSUME PairingInv, CmdDies PROVE PairingInv'
  <1>1. /\ UNCHANGED <<legacyDir, active, minted, catalog, acommands>>
        /\ excused' = excused \cup {acmd.new} /\ halfway' = "yes" /\ acmd' = IdleCmd
    BY DEF CmdDies
  <1>2. /\ creds' \in Credentials /\ creds'.uuid \in {Nobody, creds.uuid}
        /\ creds'.uuid # creds.uuid => CmdAt("write uuid") \/ creds.uuid \notin active
    <2>1. CASE UNCHANGED creds
      BY <2>1 DEF PairingInv, PairingTypeOK
    <2>2. CASE creds' = [file \in {"uuid", "token"} |-> IF file \in Writes THEN Nobody ELSE creds[file]]
      <3>1. creds' \in Credentials /\ creds'.uuid = IF "uuid" \in Writes THEN Nobody ELSE creds.uuid
        BY <2>2, NobodyIsNoAgent DEF PairingInv, PairingTypeOK, Credentials
      <3>2. "uuid" \in Writes => CmdAt("write uuid") \/ creds.uuid = Nobody
        BY DEF Writes, Migrated, CmdAt
      <3> QED  BY <3>1, <3>2
    <2> QED  BY <2>1, <2>2 DEF CmdDies
  <1>3. PairingTypeOK'
    BY <1>1, <1>2, IdleIsTyped DEF PairingInv, PairingTypeOK
  <1>4. AgentsAreMinted'
    <2>1. Nobody <= minted
      BY UuidsAreNumbers DEF Nobody
    <2> QED  BY <1>1, <1>2, <2>1, IdleIsTyped DEF PairingInv, AgentsAreMinted, CmdAt
  <1>5. Accounted' /\ FilesInStep'
    BY <1>1, <1>2, IdleIsTyped DEF PairingInv, Accounted, FilesInStep, CmdAt
  <1>6. StageOfCommand' /\ PublishedUnderOwnAgent'
    BY <1>1, IdleIsTyped DEF StageOfCommand, Ops, PublishedUnderOwnAgent, CmdAt
  <1> QED  BY <1>3, <1>4, <1>5, <1>6 DEF PairingInv

\* The web revokes an agent, or a session runs out.
LEMMA CloudChangesKeeps == ASSUME PairingInv, CloudChanges PROVE PairingInv'
  <1>1. /\ UNCHANGED <<creds, legacyDir, minted, catalog, acmd, acommands, excused, halfway>>
        /\ active' \subseteq active
    BY DEF CloudChanges
  <1>2. PairingTypeOK'
    BY <1>1, TypesStay DEF PairingInv, PairingTypeOK
  <1>3. AgentsAreMinted' /\ Accounted' /\ FilesInStep'
    BY <1>1, FilesStay
  <1>4. StageOfCommand' /\ PublishedUnderOwnAgent'
    BY <1>1 DEF PairingInv, StageOfCommand, PublishedUnderOwnAgent, CmdAt
  <1> QED  BY <1>2, <1>3, <1>4 DEF PairingInv

\* The invariant is inductive.
LEMMA PairingInductive == PairingInv /\ [PairingNext]_pairvars => PairingInv'
  <1> SUFFICES ASSUME PairingInv, [PairingNext]_pairvars PROVE PairingInv'
    OBVIOUS
  <1>1. CASE PairingNext
    BY <1>1, BeginCmdKeeps, MigrateUUIDKeeps, MigrateTokenKeeps, MigrationFailsKeeps, PairKeeps, RegisterKeeps,
       RegisterReplyLostKeeps, WriteUUIDKeeps, WriteTokenKeeps, UnpairKeeps, RemoveUUIDKeeps,
       RemoveTokenKeeps, PublishCatalogKeeps, UpdateKeeps, CallFailsKeeps, CmdDiesKeeps,
       CloudChangesKeeps
       DEF PairingNext
  <1>2. CASE UNCHANGED pairvars
    <2>1. UNCHANGED <<creds, legacyDir, active, minted, catalog, acmd, acommands, excused, halfway>>
      BY <1>2 DEF pairvars
    <2>2. (PairingTypeOK /\ StageOfCommand /\ AgentsAreMinted)'
      BY <2>1 DEF PairingInv, PairingTypeOK, StageOfCommand, AgentsAreMinted, CmdAt
    <2>3. (Accounted /\ FilesInStep /\ PublishedUnderOwnAgent)'
      BY <2>1 DEF PairingInv, Accounted, FilesInStep, PublishedUnderOwnAgent, CmdAt
    <2> QED  BY <2>2, <2>3 DEF PairingInv
  <1> QED  BY <1>1, <1>2

\* For any number of agents and of commands: between commands, nuzur has no agent of
\* this machine that the machine has forgotten, but those that --force, --keep-remote,
\* a crash or a lost reply leave (pairLocalAgent, NoOrphans).
THEOREM NeverOrphans == PairingSpec => []NoOrphans
  <1>1. PairingInv => NoOrphans
    BY DEF PairingInv, Accounted, NoOrphans, CmdAt
  <1> QED  BY <1>1, PairingInitially, PairingInductive, PTL DEF PairingSpec

\* Between commands the two credential files are of one pairing, or one of them is
\* missing and the other is what an older version had, whatever migrations failed; unless
\* a command died or could not remove a file (writeLocalAgentCreds,
\* MigrateLegacyAgentFiles, CredsMatch).
THEOREM CredsAlwaysMatch == PairingSpec => []CredsMatch
  <1>1. PairingInv => CredsMatch
    BY DEF PairingInv, FilesInStep, CredsMatch, CmdAt
  <1> QED  BY <1>1, PairingInitially, PairingInductive, PTL DEF PairingSpec

\* A publish that succeeds is under the agent on disk, whichever way it was signed
\* and however often it had to pair (publishCatalog, PublishedUnderOwnAgent).
THEOREM AlwaysPublishedUnderOwnAgent == PairingSpec => []PublishedUnderOwnAgent
  <1>1. PairingInv => PublishedUnderOwnAgent
    BY DEF PairingInv
  <1> QED  BY <1>1, PairingInitially, PairingInductive, PTL DEF PairingSpec
=============================================================================
