------------------------------- MODULE MCStory -------------------------------
\* The story of one ticket among two people who are told apart by nothing.
EXTENDS StoryTruth

Symmetry == Permutations(Characters)
=============================================================================
