---------------------------- MODULE RecordStore ----------------------------
(***************************************************************************)
(* One deployment record on disk (deploy/state.go) under the commands of    *)
(* several terminals, each of which may die anywhere: MutateDeployment as   *)
(* the reads, writes and renames it makes, and destroy's load and removal.  *)
(* All of them write through the same `<record>.tmp`.  A name leads to a    *)
(* file (0 is none), and a file holds the set of fields that a record has,  *)
(* or a part of one: TornRecord.                                            *)
(***************************************************************************)
EXTENDS Naturals

CONSTANTS Writers,    \* the terminals
          Fields,     \* what a mutation may write to the record
          MaxStoreOps \* bound: commands begun

ASSUME StoreAssumption == MaxStoreOps \in Nat /\ "torn" \notin Fields

VARIABLES recFile, tmpFile,  \* what the two names lead to
          inodes,            \* what the files hold
          store,             \* the command of each terminal
          storeOps,          \* commands begun
          known,             \* fields written to the record since it was last removed
          broken,            \* was the record unreadable to begin with
          overlapped         \* did two mutations ever run at the same time

storevars == <<recFile, tmpFile, inodes, store, storeOps, known, broken, overlapped>>

TornRecord == {"torn"}
Files == 1..(MaxStoreOps + 1)
IdleOp == [pc |-> "idle", field |-> "none", rec |-> {}, fd |-> 0]

StoreInit ==
    /\ \E found \in {"missing", "whole", "torn"} :
         /\ recFile = IF found = "missing" THEN 0 ELSE 1
         /\ inodes = [n \in Files |-> IF n = 1 /\ found = "whole" THEN {} ELSE TornRecord]
         /\ broken = IF found = "torn" THEN "yes" ELSE "no"
    /\ tmpFile = 0
    /\ store = [t \in Writers |-> IdleOp]
    /\ storeOps = 0 /\ known = {} /\ overlapped = "no"

StoreAt(t, pc) == store[t].pc = pc
StoreGoto(t, pc) == store' = [store EXCEPT ![t] = IF pc = "idle" THEN IdleOp ELSE [@ EXCEPT !.pc = pc]]
Mutating(t) == store[t].pc \in {"open", "write", "rename", "clean up"}
History == <<storeOps, known, broken, overlapped>>

\* MutateDeployment: a record that is missing is a first write; one that cannot
\* be parsed is an error.  fn changes one field.
Read(t) ==
    /\ StoreAt(t, "idle") /\ storeOps < MaxStoreOps /\ storeOps' = storeOps + 1
    /\ recFile # 0 => inodes[recFile] # TornRecord
    /\ \E f \in Fields :
         store' = [store EXCEPT ![t] = [pc |-> "open", field |-> f, fd |-> 0,
             rec |-> {f} \cup (IF recFile = 0 THEN {} ELSE inodes[recFile])]]
    /\ overlapped' = IF \E u \in Writers : Mutating(u) THEN "yes" ELSE overlapped
    /\ UNCHANGED <<recFile, tmpFile, inodes, known, broken>>

\* Files that no name and no command leads to.  One is left whenever a file is
\* created: at most one is made per command.
UnusedFiles == {n \in Files : n \notin {recFile, tmpFile} /\ \A t \in Writers : store[t].fd # n}

\* Mutant of OpenTmp: the record itself is opened.
OpenRecord(t) ==
    /\ StoreAt(t, "open")
    /\ LET n == IF recFile = 0 THEN CHOOSE u \in UnusedFiles : TRUE ELSE recFile
       IN  /\ recFile' = n /\ inodes' = [inodes EXCEPT ![n] = TornRecord]
           /\ store' = [store EXCEPT ![t].pc = "write", ![t].fd = n]
    /\ UNCHANGED <<tmpFile, History>>

\* os.WriteFile of the temporary file opens it and truncates what is there.
OpenTmp(t) ==
    /\ StoreAt(t, "open") /\ UnusedFiles # {}
    /\ LET n == IF tmpFile = 0 THEN CHOOSE u \in UnusedFiles : TRUE ELSE tmpFile
       IN  /\ tmpFile' = n /\ inodes' = [inodes EXCEPT ![n] = TornRecord]
           /\ store' = [store EXCEPT ![t].pc = "write", ![t].fd = n]
    /\ UNCHANGED <<recFile, History>>

\* The bytes arrive, in the file the name led to at the open.  Two writers of
\* one file can leave a mixture.
WriteTmp(t) ==
    /\ StoreAt(t, "write") /\ StoreGoto(t, "rename")
    /\ \E bytes \in {store[t].rec} \cup (IF inodes[store[t].fd] = TornRecord THEN {} ELSE {TornRecord}) :
         inodes' = [inodes EXCEPT ![store[t].fd] = bytes]
    /\ UNCHANGED <<recFile, tmpFile, History>>

\* os.Rename: whatever file has the temporary name now is the record.
RenameTmp(t) ==
    /\ StoreAt(t, "rename")
    /\ IF tmpFile = 0
       THEN StoreGoto(t, "clean up") /\ UNCHANGED <<recFile, tmpFile, known>>
       ELSE /\ recFile' = tmpFile /\ tmpFile' = 0
            /\ known' = known \cup {store[t].field} /\ StoreGoto(t, "idle")
    /\ UNCHANGED <<inodes, storeOps, broken, overlapped>>

\* The rename failed: remove the temporary file, if it is there again.
CleanUp(t) ==
    /\ StoreAt(t, "clean up") /\ tmpFile' = 0 /\ StoreGoto(t, "idle")
    /\ UNCHANGED <<recFile, inodes, History>>

\* destroy loads the record, works, and removes the file.
LoadForDestroy(t) ==
    /\ StoreAt(t, "idle") /\ storeOps < MaxStoreOps /\ storeOps' = storeOps + 1
    /\ recFile # 0 /\ inodes[recFile] # TornRecord
    /\ StoreGoto(t, "remove")
    /\ UNCHANGED <<recFile, tmpFile, inodes, known, broken, overlapped>>

DeleteDeployment(t) ==
    /\ StoreAt(t, "remove") /\ recFile' = 0 /\ known' = {} /\ StoreGoto(t, "idle")
    /\ UNCHANGED <<tmpFile, inodes, storeOps, broken, overlapped>>

\* The process dies; inside os.WriteFile it leaves what it opened as it is.
StoreDies(t) ==
    /\ ~StoreAt(t, "idle") /\ StoreGoto(t, "idle")
    /\ UNCHANGED <<recFile, tmpFile, inodes, History>>

StoreNext == \E t \in Writers :
    \/ Read(t) \/ OpenTmp(t) \/ WriteTmp(t) \/ RenameTmp(t) \/ CleanUp(t)
    \/ LoadForDestroy(t) \/ DeleteDeployment(t) \/ StoreDies(t)

StoreSpec == StoreInit /\ [][StoreNext]_storevars

-----------------------------------------------------------------------------
(* Properties *)

\* deploy/state.go, MutateDeployment and saveDeployment: as long as no two
\* mutations ran at once, and wherever the commands died, the record is whole
\* and has every field that was ever written to it, left-over temporary files
\* and destroys of other terminals notwithstanding; and a record that could not
\* be read to begin with is still the one it was.
RecordKeepsWhatIsKnown ==
    overlapped = "no" =>
        IF broken = "yes" THEN recFile = 1 /\ inodes[recFile] = TornRecord
        ELSE recFile # 0 => inodes[recFile] # TornRecord /\ known \subseteq inodes[recFile]

-----------------------------------------------------------------------------
(* What comments say and the code does not do for two terminals *)

\* deploy/state.go:273, "the record is always either the old version or the new
\* one."
RecordIsWhole == recFile # 0 /\ broken = "no" => inodes[recFile] # TornRecord

\* deploy/state.go:201, "Every field fn does not touch keeps the value it had."
NoFieldLost == recFile # 0 => known \subseteq inodes[recFile]
=============================================================================
