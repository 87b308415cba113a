------------------------------- MODULE Search -------------------------------
(***************************************************************************)
(* The search workflow of cmd/draft: explore a scenario, publish the first *)
(* violation found, read it back and minimize it.                          *)
(***************************************************************************)
EXTENDS Minimize

CONSTANTS
  Programs,     \* systems under test
  Streams,      \* what a seeded decider may draw
  BoundSets     \* the command's bounds

inputVars == <<program, stream, bounds>>
vars == <<inputVars, stage, exploreVars, publishVars, minimizeVars>>

Init ==
  /\ program \in Programs
  /\ stream \in Streams
  /\ bounds \in BoundSets
  /\ stage = "explore"
  /\ ExploreInit
  /\ PublishInit
  /\ MinimizeInit

\* Nothing to publish, or nothing published: the commands have ended.
Ended ==
  /\ stage \in {"minimized", "refused"} \/ (stage = "explored" /\ first = <<>>)
  /\ UNCHANGED vars

Exploration == UNCHANGED <<inputVars, publishVars, minimizeVars>>
Publication == UNCHANGED <<inputVars, exploreVars, minimizeVars>>
Minimization == UNCHANGED <<inputVars, exploreVars, publishVars>>

Next ==
  \/ RunPrefix /\ Exploration
  \/ CompleteSuffix /\ Exploration
  \/ ExploreEnds /\ Exploration
  \/ Stage /\ Publication
  \/ Sync /\ Publication
  \/ Link /\ Publication
  \/ SyncDirectory /\ Publication
  \/ RivalPublishes /\ Publication
  \/ MachineStops /\ Publication
  \/ VerifyInput /\ Minimization
  \/ RemoveActions /\ Minimization
  \/ RemoveGuidance /\ Minimization
  \/ ShrinkSelection /\ Minimization
  \/ Ended

Spec == Init /\ [][Next]_vars
=============================================================================
