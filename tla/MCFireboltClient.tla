-------------------------- MODULE MCFireboltClient --------------------------
(***************************************************************************)
(* Instances of FireboltClient for TLC.                                    *)
(***************************************************************************)
EXTENDS FireboltClient, TLC

\* The interface that is swept first and the one that is swept last.
MCExercisedSwept ==
  { [owner |-> "Accessibility", event |-> "onHighContrastUIChanged"],
    [owner |-> "TextToSpeech", event |-> "onWillspeak"] }

\* The one the sweep misses and the one that is swept last.
MCExercisedPair ==
  { [owner |-> "Device", event |-> "onHdrChanged"],
    [owner |-> "TextToSpeech", event |-> "onWillspeak"] }

\* The application's threads are interchangeable.
MCSymmetry == Permutations(AppThread)
=============================================================================
