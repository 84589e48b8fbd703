-------------------------- MODULE MCCronScheduler --------------------------
\* Small instances of CronScheduler for TLC.
EXTENDS CronScheduler, TLC

\* Callers and task names are interchangeable: only for the safety runs.
Symmetry == Permutations(Callers) \cup Permutations(Names)
=============================================================================
