----------------------------- MODULE SelfUpdate -----------------------------
(***************************************************************************)
(* `nuzur-cli update` (app/command_update.go, app/selfupdate.go) run by     *)
(* several terminals, while releases appear and their files are uploaded    *)
(* one by one.  The binary that a name leads to is [version, bytes, mode];  *)
(* a staged file belongs to one process.                                   *)
(***************************************************************************)
EXTENDS Naturals, Sequences, FiniteSets

CONSTANTS Updaters, \* the terminals that run it
          Newest    \* bound: releases that appear

ASSUME NewestAssumption == Newest \in Nat \ {0}

VARIABLES release,   \* per version, what its release page has
          latest,    \* the newest tag
          exe,       \* the binary on the path
          updater,   \* the update each terminal runs
          strays     \* staged files nobody will remove

updvars == <<release, latest, exe, updater, strays>>

Versions == 1..Newest
Parts == {"archive", "checksums"}
NoUpdate == [pc |-> "idle", own |-> 0, tag |-> 0, bytes |-> "none", mode |-> "none"]

\* compareVersions is numeric per segment; a version stands for its segments.
Segments(v) == IF v = 1 THEN <<1, 9>> ELSE IF v = 2 THEN <<1, 10>> ELSE <<2, v>>

Older(a, b) ==
    \/ Segments(a)[1] < Segments(b)[1]
    \/ Segments(a)[1] = Segments(b)[1] /\ Segments(a)[2] < Segments(b)[2]

UpdateInit ==
    /\ release = [v \in Versions |-> IF v = 1 THEN Parts ELSE {}] /\ latest = 1
    /\ \E v \in Versions : exe = [version |-> v, bytes |-> "whole", mode |-> "x"]
    /\ updater = [u \in Updaters |-> NoUpdate]
    /\ strays = 0

SameReleases == UNCHANGED <<release, latest>>
SetUpd(u, r) == updater' = [updater EXCEPT ![u] = r]
UpdAt(u, pc) == updater[u].pc = pc

\* The tag is there before the files are; goreleaser uploads them in any order.
PublishTag ==
    /\ latest < Newest /\ latest' = latest + 1 /\ UNCHANGED <<release, exe, updater, strays>>

Upload ==
    \E v \in 1..latest, p \in Parts :
        /\ p \notin release[v] /\ release' = [release EXCEPT ![v] = @ \cup {p}]
        /\ UNCHANGED <<latest, exe, updater, strays>>

\* The binary that runs knows its own version; the tag is read once.  Nothing is
\* done unless the tag is newer.
Check(u) ==
    /\ UpdAt(u, "idle") /\ Older(exe.version, latest)
    /\ exe.bytes = "whole" /\ exe.mode = "x"
    /\ SetUpd(u, [NoUpdate EXCEPT !.pc = "download", !.own = exe.version, !.tag = latest])
    /\ SameReleases /\ UNCHANGED <<exe, strays>>

\* downloadAndVerify: both files of that tag, or nothing; what arrived must be
\* what was published.
Download(u) ==
    /\ UpdAt(u, "download")
    /\ \E got \in {"whole", "cut"} :
         IF Parts \subseteq release[updater[u].tag] /\ got = "whole"
         THEN SetUpd(u, [updater[u] EXCEPT !.pc = "stage", !.bytes = got])
         ELSE SetUpd(u, NoUpdate)
    /\ SameReleases /\ UNCHANGED <<exe, strays>>

\* Mutant of Stage: the binary is written where it runs from.
StageInPlace(u) ==
    /\ UpdAt(u, "stage")
    /\ exe' = [version |-> updater[u].tag, bytes |-> "cut", mode |-> "x"]
    /\ SetUpd(u, [updater[u] EXCEPT !.pc = "chmod", !.mode = "x"])
    /\ SameReleases /\ UNCHANGED strays

\* A temporary file in the same directory, 0600.
Stage(u) ==
    /\ UpdAt(u, "stage")
    /\ SetUpd(u, [updater[u] EXCEPT !.pc = "chmod", !.mode = "-"])
    /\ SameReleases /\ UNCHANGED <<exe, strays>>

Chmod(u) ==
    /\ UpdAt(u, "chmod") /\ SetUpd(u, [updater[u] EXCEPT !.pc = "rename", !.mode = "x"])
    /\ SameReleases /\ UNCHANGED <<exe, strays>>

RenameStaged(u) ==
    /\ UpdAt(u, "rename") /\ SetUpd(u, NoUpdate)
    /\ exe' = [version |-> updater[u].tag, bytes |-> updater[u].bytes, mode |-> updater[u].mode]
    /\ SameReleases /\ UNCHANGED strays

\* A step fails, and the staged file is removed; or the process dies, and it stays.
UpdateFails(u) ==
    /\ updater[u].pc \in {"stage", "chmod", "rename"} /\ SetUpd(u, NoUpdate)
    /\ \/ UNCHANGED strays
       \/ ~UpdAt(u, "stage") /\ strays < Cardinality(Updaters) /\ strays' = strays + 1
    /\ SameReleases /\ UNCHANGED exe

UpdateNext == \/ PublishTag \/ Upload
        \/ \E u \in Updaters : \/ Check(u) \/ Download(u) \/ Stage(u) \/ Chmod(u)
                               \/ RenameStaged(u) \/ UpdateFails(u)

UpdateSpec == UpdateInit /\ [][UpdateNext]_updvars

-----------------------------------------------------------------------------
(* Properties *)

\* replaceExecutable, "a user either has the old CLI or the new one and never a
\* truncated file": whoever runs the command, at any moment of any update, finds
\* a whole, executable binary, and no single update makes it older than the one
\* that ran it.
AlwaysACLI ==
    /\ exe.bytes = "whole" /\ exe.mode = "x"
    /\ \A u \in Updaters : ~UpdAt(u, "idle") => updater[u].own < updater[u].tag

-----------------------------------------------------------------------------
(* What does not hold of two updates at once *)

\* The version on the path never goes back.
NeverDowngraded == [][exe'.version >= exe.version]_updvars
=============================================================================
