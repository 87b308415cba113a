------------------------------- MODULE Bundle -------------------------------
(***************************************************************************)
(* Publication of a result bundle by draft-cross: publishDocuments, the    *)
(* rollback it defers, ensureTargetsAbsent and the recover command, for    *)
(* publishers that share an output prefix.  The directory maps a path to   *)
(* the publisher whose hard link it is; a machine that stops keeps for     *)
(* each path what it showed last or what was synced last.                  *)
(***************************************************************************)
EXTENDS Naturals, Sequences, FiniteSets

CONSTANTS
  Publishers,
  DataFiles     \* resultPaths: the paths linked before the manifest, in order

VARIABLES
  pc,           \* where each publisher is
  created,      \* how many paths it has linked
  removed,      \* how many of them its rollback has passed
  visible,      \* path -> publisher or Absent
  durable,      \* what the last directory sync made of it
  recovery,     \* whether recover runs, and the paths it still has to remove
  withdrawn,    \* publishers that failed after their manifest was linked
  faults        \* failures left to happen

bundleVars == <<pc, created, removed, visible, durable, recovery, withdrawn, faults>>

Absent == "absent"
ManifestPath == "manifest"
Paths == Append(DataFiles, ManifestPath)
Files == {Paths[k] : k \in DOMAIN Paths}
NoRecovery == [active |-> FALSE, rest |-> <<>>]

Live == {"checked", "linking", "committing", "finishing", "rollback"}

BundleInit ==
  /\ pc = [p \in Publishers |-> "idle"]
  /\ created = [p \in Publishers |-> 0]
  /\ removed = [p \in Publishers |-> 0]
  /\ visible = [f \in Files |-> Absent]
  /\ durable = [f \in Files |-> Absent]
  /\ recovery = NoRecovery
  /\ withdrawn = {}

Goes(p, where) == pc' = [pc EXCEPT ![p] = where]
Fault == faults > 0 /\ faults' = faults - 1
SameDirectory == UNCHANGED <<visible, durable>>
SyncDirectory == durable' = visible /\ UNCHANGED visible
SameProgress == UNCHANGED <<created, removed>>
-----------------------------------------------------------------------------
(* publishDocuments.                                                       *)

\* Long before anything is staged: the executions lie between.
ensureTargetsAbsent(p) ==
  /\ pc[p] = "idle"
  /\ Goes(p, IF \A f \in Files : visible[f] = Absent THEN "checked" ELSE "refused")
  /\ created' = [created EXCEPT ![p] = 0]
  /\ removed' = [removed EXCEPT ![p] = 0]
  /\ SameDirectory /\ UNCHANGED <<recovery, withdrawn, faults>>

\* Every document is written and synced in a directory of its own, or none is linked.
StageDocuments(p) ==
  /\ pc[p] = "checked"
  /\ \/ Goes(p, "linking") /\ UNCHANGED faults
     \/ Goes(p, "failed") /\ Fault
  /\ SameDirectory /\ SameProgress /\ UNCHANGED <<recovery, withdrawn>>

\* The run that would have published ended with an error of its own.
Abandon(p) ==
  /\ pc[p] = "checked"
  /\ Goes(p, "abandoned")
  /\ SameDirectory /\ SameProgress /\ UNCHANGED <<recovery, withdrawn, faults>>

NextPath(p) == Paths[created[p] + 1]

\* os.Link never replaces a path, and may fail for other reasons; whatever the
\* error, what was linked is rolled back.
Linked(p, where) ==
  \/ /\ visible[NextPath(p)] = Absent
     /\ visible' = [visible EXCEPT ![NextPath(p)] = p]
     /\ created' = [created EXCEPT ![p] = @ + 1]
     /\ Goes(p, where) /\ UNCHANGED faults
  \/ /\ Goes(p, "rollback")
     /\ UNCHANGED <<visible, created>>
     /\ IF visible[NextPath(p)] # Absent THEN UNCHANGED faults ELSE Fault

LinkData(p) ==
  /\ pc[p] = "linking"
  /\ created[p] < Len(DataFiles)
  /\ Linked(p, "linking")
  /\ UNCHANGED <<removed, durable, recovery, withdrawn>>

\* A publisher that leaves durability to the final sync.
SyncDataLater(p) ==
  /\ pc[p] = "linking"
  /\ created[p] = Len(DataFiles)
  /\ Goes(p, "committing")
  /\ SameDirectory /\ UNCHANGED faults
  /\ SameProgress /\ UNCHANGED <<recovery, withdrawn>>

\* The data's directory entries are durable before the commit marker exists.
SyncData(p) ==
  /\ pc[p] = "linking"
  /\ created[p] = Len(DataFiles)
  /\ \/ Goes(p, "committing") /\ SyncDirectory /\ UNCHANGED faults
     \/ Goes(p, "rollback") /\ SameDirectory /\ Fault
  /\ SameProgress /\ UNCHANGED <<recovery, withdrawn>>

LinkManifest(p) ==
  /\ pc[p] = "committing"
  /\ Linked(p, "finishing")
  /\ withdrawn' = withdrawn \ {p}
  /\ UNCHANGED <<removed, durable, recovery>>

FinalSync(p) ==
  /\ pc[p] = "finishing"
  /\ \/ Goes(p, "published") /\ SyncDirectory /\ UNCHANGED <<withdrawn, faults>>
     \/ Goes(p, "rollback") /\ SameDirectory /\ withdrawn' = withdrawn \cup {p} /\ Fault
  /\ SameProgress /\ UNCHANGED recovery

\* The deferred cleanup goes through the created paths in the order of their creation.
RollBackPath(p) ==
  /\ pc[p] = "rollback"
  /\ removed[p] < created[p]
  /\ removed' = [removed EXCEPT ![p] = @ + 1]
  /\ \/ visible' = [visible EXCEPT ![Paths[removed[p] + 1]] = Absent] /\ UNCHANGED faults
     \/ UNCHANGED visible /\ Fault
  /\ UNCHANGED <<pc, created, durable, recovery, withdrawn>>

RollBackEnds(p) ==
  /\ pc[p] = "rollback"
  /\ removed[p] = created[p]
  /\ Goes(p, "failed")
  /\ \/ SyncDirectory /\ UNCHANGED faults
     \/ SameDirectory /\ Fault
  /\ SameProgress /\ UNCHANGED <<recovery, withdrawn>>
-----------------------------------------------------------------------------
(* Crashes and recovery.                                                   *)

Kill(p) ==
  /\ pc[p] \in Live
  /\ Goes(p, "killed")
  /\ Fault
  /\ SameDirectory /\ SameProgress /\ UNCHANGED <<recovery, withdrawn>>

MachineStops ==
  /\ Fault
  /\ \E kept \in SUBSET Files :
       /\ visible' = [f \in Files |-> IF f \in kept THEN visible[f] ELSE durable[f]]
       /\ durable' = visible'
  /\ pc' = [p \in Publishers |-> IF pc[p] \in Live THEN "killed" ELSE pc[p]]
  /\ recovery' = NoRecovery
  /\ SameProgress /\ UNCHANGED withdrawn

RunAgain(p) ==
  /\ pc[p] \in {"refused", "failed", "killed"}
  /\ Goes(p, "idle")
  /\ SameDirectory /\ SameProgress /\ UNCHANGED <<recovery, withdrawn, faults>>

Present == SelectSeq(DataFiles, LAMBDA f : visible[f] # Absent)

\* An operator recovers a bundle whose publisher is known to be gone.
Recover ==
  /\ ~recovery.active
  /\ \A p \in Publishers : pc[p] \notin Live
  /\ visible[ManifestPath] = Absent
  /\ Present # <<>>
  /\ recovery' = [active |-> TRUE, rest |-> Present]
  /\ SameDirectory /\ SameProgress /\ UNCHANGED <<pc, withdrawn, faults>>

RecoverPath ==
  /\ recovery.rest # <<>>
  /\ visible' = [visible EXCEPT ![Head(recovery.rest)] = Absent]
  /\ recovery' = [recovery EXCEPT !.rest = Tail(@)]
  /\ SameProgress /\ UNCHANGED <<pc, durable, withdrawn, faults>>

RecoverSync ==
  /\ recovery.active /\ recovery.rest = <<>>
  /\ SyncDirectory
  /\ recovery' = NoRecovery
  /\ SameProgress /\ UNCHANGED <<pc, withdrawn, faults>>

\* It failed, or was killed.
RecoveryStops ==
  /\ recovery.active
  /\ recovery' = NoRecovery
  /\ Fault
  /\ SameDirectory /\ SameProgress /\ UNCHANGED <<pc, withdrawn>>
-----------------------------------------------------------------------------
\* The bytes a publisher writes: the capabilities are those of the program,
\* whatever the plan.
Content(p, f) == IF f = "capabilities" THEN <<f>> ELSE <<f, p>>

\* verifyBundle: each path has the bytes that the manifest hashed.
Intact(p) ==
  /\ visible[ManifestPath] = p
  /\ \A k \in DOMAIN DataFiles :
       visible[DataFiles[k]] # Absent /\ Content(visible[DataFiles[k]], DataFiles[k]) = Content(p, DataFiles[k])
=============================================================================
