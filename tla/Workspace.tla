----------------------------- MODULE Workspace -----------------------------
(***************************************************************************)
(* The workspace that generations are extracted into, and that its user     *)
(* edits (extensionrun/run.go, applyGeneratedArchive;                       *)
(* files/generated_manifest.go; extensionrun/gomod.go).  A generated project *)
(* has a root: the workspace's own directory (Flat) or one below it; roots  *)
(* of several projects may be there side by side.  What tells the           *)
(* generator's files from the user's is the marker in their first bytes and *)
(* the manifest of the last generation.  A generation is cut anywhere,      *)
(* between opening a file and writing it included.                          *)
(***************************************************************************)
EXTENDS Naturals

CONSTANTS Paths,         \* what an archive or the user may write
          Roots,         \* where a generated project may have its root
          Flat,          \* the workspace's own directory
          RootOf,        \* the root that a path is under
          MaxGenerations \* bound: generations begun

ASSUME PathsAssumption == /\ Paths \cap {"manifest", "go.mod", "none"} = {}
                          /\ Flat \in Roots /\ RootOf \in [Paths -> Roots]

VARIABLES
    disk,       \* what each path holds
    manifest,   \* the manifest at each root
    replaces,   \* does the go.mod of a root have the user's replace directive
    genrun,     \* the generation that runs
    gens,       \* generations begun
    owned,      \* history: paths with the user's work, as the user sees it
    wanted,     \* history: the go.mod files where the user has put a directive
    leftOver,    \* history: generated paths no manifest tells of, or a warning does
    cut         \* history: was a generation cut

wsvars == <<disk, manifest, replaces, genrun, gens, owned, wanted, leftOver, cut>>

\* "marked" is generated, "stub" came with an archive but is the user's to edit,
\* "user" is the user's, "torn" is what is left of a file that was opened.
Contents == {"none", "marked", "stub", "user", "torn"}
Entries == Paths \cup {"manifest", "go.mod"}

NoManifest == [state |-> "none", lists |-> {}]
TornManifest == [state |-> "torn", lists |-> {}]
NoPrevious == [roots |-> {}, lists |-> {}]
NoGeneration == [pc |-> "idle", root |-> Flat, listed |-> "no", marked |-> {}, stubs |-> {},
                 entries |-> {}, open |-> "none", previous |-> NoPrevious, edits |-> "no",
                 warned |-> "no"]

WorkspaceInit ==
    /\ disk = [p \in Paths |-> "none"] /\ manifest = [r \in Roots |-> NoManifest]
    /\ replaces = [r \in Roots |-> "none"] /\ genrun = NoGeneration
    /\ gens = 0 /\ owned = {} /\ wanted = {} /\ leftOver = {} /\ cut = "no"

Running(pc) == genrun.pc = pc

\* The root that a file is looked for and found at, as a set of one or none: the
\* workspace's own directory wins, and of several below it none is taken.
TheOne(roots) ==
    LET seen == IF Flat \in roots THEN {Flat} ELSE roots
    IN  {r \in seen : seen = {r}}
FoundManifest == {r \in TheOne({r \in Roots : manifest[r].state # "none"}) :
                    manifest[r].state = "whole"}
FoundModule == TheOne({r \in Roots : replaces[r] # "none"})

-----------------------------------------------------------------------------
(* A generation *)

Known == [roots |-> FoundManifest, lists |-> UNION {manifest[r].lists : r \in FoundManifest}]

\* A generation of an archive with these files, and a manifest and a go.mod or not.
Extraction(root, marked, stubs, more, previous, warned) ==
    [pc |-> "extract", root |-> root, marked |-> marked, stubs |-> stubs, open |-> "none",
     entries |-> marked \cup stubs \cup more, previous |-> previous, warned |-> warned,
     listed |-> IF "manifest" \in more THEN "yes" ELSE "no",
     edits |-> IF warned = "no" /\ \E r \in FoundModule : replaces[r] = "yes"
               THEN "yes" ELSE "no"]

\* What is known of the previous generation and the directives of go.mod, read
\* before anything is written; or they cannot be read, and a warning says so.
BeginGeneration ==
    /\ Running("idle") /\ gens < MaxGenerations /\ gens' = gens + 1
    /\ \E root \in Roots, marked, stubs \in SUBSET Paths, more \in SUBSET {"manifest", "go.mod"},
          previous \in {Known, NoPrevious}, warned \in {"no", "yes"} :
         /\ marked \cap stubs = {}
         /\ \A p \in marked \cup stubs : RootOf[p] = root
         /\ genrun' = Extraction(root, marked, stubs, more, previous, warned)
         /\ leftOver' = leftOver \cup (Known.lists \ previous.lists)
    /\ UNCHANGED <<disk, manifest, replaces, owned, wanted, cut>>

\* Mutant of Preserved: what exists is overwritten.
PreservedNever(e) == FALSE

\* A file that exists and whose entry is neither marked nor the generator's own; an
\* archive without a manifest overwrites everything.
Preserved(e) == genrun.listed = "yes" /\ e \in genrun.stubs /\ disk[e] # "none"

Skip ==
    /\ Running("extract") /\ genrun.open = "none"
    /\ \E e \in genrun.entries :
         Preserved(e) /\ genrun' = [genrun EXCEPT !.entries = @ \ {e}]
    /\ UNCHANGED <<disk, manifest, replaces, gens, owned, wanted, leftOver, cut>>

\* What the user cannot expect to keep: what is still generated, and in the way
\* of an archive without a manifest.
Overwritten == genrun.marked \cup (IF genrun.listed = "no" THEN genrun.stubs ELSE {})

\* writeZipFile opens with O_TRUNC.
OpenEntry ==
    /\ Running("extract") /\ genrun.open = "none"
    /\ \E e \in genrun.entries :
         /\ ~Preserved(e)
         /\ genrun' = [genrun EXCEPT !.open = e]
         /\ disk' = IF e \in Paths THEN [disk EXCEPT ![e] = "torn"] ELSE disk
         /\ manifest' = IF e = "manifest"
                        THEN [manifest EXCEPT ![genrun.root] = TornManifest] ELSE manifest
         /\ replaces' = IF e = "go.mod" THEN [replaces EXCEPT ![genrun.root] = "torn"] ELSE replaces
         /\ owned' = owned \ ({e} \cap Overwritten)
    /\ UNCHANGED <<gens, wanted, leftOver, cut>>

WriteEntry ==
    /\ Running("extract") /\ genrun.open # "none"
    /\ LET e == genrun.open
       IN  /\ disk' = IF e \in Paths
                      THEN [disk EXCEPT ![e] = IF e \in genrun.marked THEN "marked" ELSE "stub"]
                      ELSE disk
           /\ manifest' = IF e = "manifest"
                          THEN [manifest EXCEPT ![genrun.root] =
                                  [state |-> "whole", lists |-> genrun.marked \cup genrun.stubs]]
                          ELSE manifest
           /\ replaces' = IF e = "go.mod" THEN [replaces EXCEPT ![genrun.root] = "no"] ELSE replaces
           /\ leftOver' = IF genrun.listed = "yes" THEN leftOver \ {e}
                         ELSE leftOver \cup ({e} \cap Paths)
           /\ genrun' = [genrun EXCEPT !.open = "none", !.entries = @ \ {e}]
    /\ UNCHANGED <<gens, owned, wanted, cut>>

\* Mutant of Orphans: the previous manifest is read after the extraction.
OrphansReadLate == {p \in Known.lists \ Known.lists : disk[p] = "marked"}

\* What the previous generation listed, this one does not, and still has its marker;
\* nothing, where there was no one manifest, there is none, or the root has moved.
Orphans ==
    IF genrun.previous.roots # FoundManifest \/ FoundManifest = {} THEN {}
    ELSE {p \in genrun.previous.lists \ Known.lists : disk[p] = "marked"}

\* The first that cannot be removed leaves the rest, and a warning names it.
Cleanup ==
    /\ Running("extract") /\ genrun.entries = {}
    /\ \E left \in SUBSET Orphans :
         /\ disk' = [p \in Paths |-> IF p \in Orphans \ left THEN "none" ELSE disk[p]]
         /\ leftOver' = leftOver \cup left
    /\ genrun' = [genrun EXCEPT !.pc = "modules"]
    /\ UNCHANGED <<manifest, replaces, gens, owned, wanted, cut>>

Intact == {r \in wanted : replaces'[r] = "yes"}

\* Mutant of Reconcile: the directives are not brought back.
ReconcileForgets ==
    /\ Running("modules") /\ genrun' = NoGeneration
    /\ UNCHANGED <<disk, manifest, replaces, gens, owned, wanted, leftOver, cut>>

\* The directives of the old go.mod go into the new one, if there is one go.mod to
\* put them into and it can be read and written; otherwise a warning says so.
Reconcile ==
    /\ Running("modules")
    /\ \/ /\ \A r \in FoundModule : genrun.edits = "yes" => replaces[r] # "torn"
          /\ replaces' = [r \in Roots |-> IF r \in FoundModule /\ genrun.edits = "yes"
                                          THEN "yes" ELSE replaces[r]]
          /\ wanted' = IF genrun.warned = "no" /\ FoundModule # {} THEN wanted ELSE Intact
       \/ /\ genrun.edits = "yes" /\ \E r \in FoundModule :
               replaces' \in {replaces, [replaces EXCEPT ![r] = "torn"]}
          /\ wanted' = Intact
    /\ genrun' = NoGeneration
    /\ UNCHANGED <<disk, manifest, gens, owned, leftOver, cut>>

\* The CLI is killed, or a file cannot be written and the extraction ends.
Cut ==
    /\ ~Running("idle") /\ genrun' = NoGeneration /\ cut' = "yes"
    /\ \/ UNCHANGED replaces
       \/ /\ Running("modules") /\ genrun.edits = "yes"
          /\ \E r \in FoundModule : replaces' = [replaces EXCEPT ![r] = "torn"]
    /\ wanted' = Intact
    /\ UNCHANGED <<disk, manifest, gens, owned, leftOver>>

-----------------------------------------------------------------------------
(* The user *)

\* Writes a file, or takes one over and removes its marker.
Edits ==
    /\ Running("idle")
    /\ \E p \in Paths : disk' = [disk EXCEPT ![p] = "user"] /\ owned' = owned \cup {p}
    /\ UNCHANGED <<manifest, replaces, genrun, gens, wanted, leftOver, cut>>

Removes ==
    /\ Running("idle")
    /\ \E p \in Paths : disk' = [disk EXCEPT ![p] = "none"] /\ owned' = owned \ {p}
    /\ UNCHANGED <<manifest, replaces, genrun, gens, wanted, leftOver, cut>>

\* Adds a replace directive to a go.mod, or a go.mod of the user's with one.
PointsAtCheckout ==
    /\ Running("idle")
    /\ \E r \in Roots : /\ replaces[r] \in {"none", "no"}
                        /\ replaces' = [replaces EXCEPT ![r] = "yes"] /\ wanted' = wanted \cup {r}
    /\ UNCHANGED <<disk, manifest, genrun, gens, owned, leftOver, cut>>

WorkspaceNext ==
    \/ BeginGeneration \/ Skip \/ OpenEntry \/ WriteEntry \/ Cleanup \/ Reconcile \/ Cut
    \/ Edits \/ Removes \/ PointsAtCheckout

WorkspaceSpec == WorkspaceInit /\ [][WorkspaceNext]_wsvars

-----------------------------------------------------------------------------
(* Properties *)

\* extensionrun/run.go:445-455, files/generated_manifest.go:126-133,
\* extensionrun/gomod.go:32-37: whatever generations write, prune or leave half done,
\* beside whatever other projects, a file of the user's is as the user left it, unless
\* the generator still generates it or an archive has no manifest.  And a directive of
\* the user's go.mod is back when a generation ends, unless that generation was cut or
\* warned, or the workspace has a go.mod of its own above the project's.
UserWorkSurvives ==
    /\ \A p \in owned : disk[p] = "user"
    /\ Running("idle") =>
          \A r \in wanted : replaces[r] = "yes" \/ (r # Flat /\ replaces[Flat] # "none")

OneProject == \A r, s \in Roots :
    manifest[r].state # "none" /\ manifest[s].state # "none" => r = s

\* files/generated_manifest.go:11-14: where no generation was cut and one project was
\* generated, every generated file on disk is one of the last manifest's, unless it is
\* of an archive without a manifest or a warning told of a cleanup that failed.
NothingStale ==
    cut = "no" /\ Running("idle") /\ OneProject =>
        \A p \in Paths : disk[p] = "marked" => p \in manifest[RootOf[p]].lists \cup leftOver

-----------------------------------------------------------------------------
(* What does not hold: without a word, a generation below a go.mod of the       *)
(* workspace's own loses the directives of its own go.mod.                      *)

DirectiveAlwaysBack ==
    Running("idle") => \A r \in wanted : replaces[r] = "yes"

\* The next generation that ends well leaves what the one that was cut left.
NothingStaleEver ==
    gens = MaxGenerations /\ Running("idle") =>
        \A p \in Paths : disk[p] = "marked" /\ manifest[RootOf[p]].state = "whole" =>
            p \in manifest[RootOf[p]].lists \cup leftOver
=============================================================================
