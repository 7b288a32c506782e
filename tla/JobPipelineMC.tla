---------------------------- MODULE JobPipelineMC ----------------------------
\* Model-checking instances of JobPipeline: agents and runs are interchangeable.
EXTENDS JobPipeline, TLC

Interchangeable == Permutations(Agents) \cup Permutations(Runs)
==============================================================================
