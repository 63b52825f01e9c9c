----------------------------- MODULE MCPipeline -----------------------------
\* Model values for TLC.
EXTENDS Pipeline, TLC

Symmetry == Permutations(Requests)

\* All but the histories answered and served, on which no step and none of the
\* run's properties depends but for the type of served.
Machinery == <<request, job, pod, retries, runner, progress, faults, rest, held, hasty>>
=============================================================================
