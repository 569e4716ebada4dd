----------------------------- MODULE MCStudio ------------------------------
(* The shapes of a storyboard the studio is checked on.  Continuity states  *)
(* and models are only compared with each other, so each may be permuted.   *)
EXTENDS Studio, TLC
MCDirect == Scenes \ {1}
MCValues == Permutations(WorldStates) \cup Permutations(VideoModels)
              \cup Permutations(VisionModels)
=============================================================================
