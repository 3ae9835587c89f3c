---------------------------- MODULE MCImportJobs ---------------------------
(* Small instances of ImportJobs for TLC.                                  *)
EXTENDS ImportJobs, TLC

\* Jobs are interchangeable, and so are the pods they read.
Interchangeable == Permutations(Jobs) \cup Permutations(Prefixes)
=============================================================================
