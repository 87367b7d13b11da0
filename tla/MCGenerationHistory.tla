------------------------ MODULE MCGenerationHistory ------------------------
EXTENDS GenerationHistory, TLC
Symmetry == Permutations(Gens)
=============================================================================
