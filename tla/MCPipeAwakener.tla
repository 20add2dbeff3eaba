---------------------------- MODULE MCPipeAwakener ----------------------------
EXTENDS PipeAwakener, TLC
CONSTANTS t1, t2, t3
ThreeThreads == {t1, t2, t3}
ThreadSymmetry == Permutations(ThreeThreads)
==============================================================================
