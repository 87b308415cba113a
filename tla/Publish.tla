------------------------------ MODULE Publish ------------------------------
(***************************************************************************)
(* writeArtifact of cmd/draft: publish a run under a path that nothing     *)
(* overwrites, with a temporary file, a hard link and two syncs.  The file *)
(* system is external: it keeps what was synced, and may or may not keep   *)
(* the rest, when the machine stops.                                       *)
(***************************************************************************)
EXTENDS Explore

CONSTANT Crashes        \* times the machine may stop

VARIABLES
  synced,       \* the temporary file is on disk
  dest,         \* what the path names: absent, temporary, whole or partial
  confirmed,    \* the entry of the path is on disk
  crashes

publishVars == <<synced, dest, confirmed, crashes>>

PublishInit == synced = FALSE /\ dest = "absent" /\ confirmed = FALSE /\ crashes = 0

\* CreateTemp and Encode; a write that fails ends the command.
Stage ==
  /\ stage = "explored" /\ first # <<>>
  /\ stage' \in {"staged", "refused"}
  /\ synced' = FALSE
  /\ UNCHANGED <<dest, confirmed, crashes>>

\* A publication that never syncs the file.
SkipSync ==
  /\ stage = "staged"
  /\ stage' \in {"link", "refused"}
  /\ UNCHANGED publishVars

Sync ==
  /\ stage = "staged"
  /\ stage' \in {"link", "refused"}
  /\ synced' = (stage' = "link")
  /\ UNCHANGED <<dest, confirmed, crashes>>

\* A link never replaces what the path names, and may fail for other reasons.
Link ==
  /\ stage = "link"
  /\ \/ dest = "absent" /\ dest' = "temporary" /\ stage' = "directory"
     \/ UNCHANGED dest /\ stage' = "refused"
  /\ UNCHANGED <<synced, confirmed, crashes>>

\* syncDirectory: without it the command reports a failure, and the path stays.
SyncDirectory ==
  /\ stage = "directory"
  /\ stage' \in {"published", "refused"}
  /\ confirmed' = (confirmed \/ stage' = "published")
  /\ UNCHANGED <<synced, dest, crashes>>

\* Another invocation publishes under the same path.
RivalPublishes ==
  /\ stage \in {"staged", "link"} /\ dest = "absent"
  /\ dest' = "whole"
  /\ confirmed' \in BOOLEAN
  /\ UNCHANGED <<synced, stage, crashes>>

\* What a crash may leave of the file the path names.
Survives == IF dest = "temporary" THEN IF synced THEN {"whole"} ELSE {"whole", "partial"} ELSE {dest}

\* The machine stops; the search is run again and finds the same run.
MachineStops ==
  /\ stage \in {"staged", "link", "directory", "published"} /\ crashes < Crashes
  /\ crashes' = crashes + 1
  /\ dest' \in Survives \cup (IF confirmed THEN {} ELSE {"absent"})
  /\ confirmed' = (dest' # "absent")
  /\ synced' = FALSE
  /\ stage' = "explored"

(* The path never names a partial artifact, even after the machine stops,  *)
(* and a publication that is reported as done survives a stop              *)
(* (writeArtifact, syncDirectory).                                         *)
PublishedIsWhole ==
  /\ "partial" \notin Survives
  /\ stage = "published" => confirmed /\ dest = "temporary"
=============================================================================
