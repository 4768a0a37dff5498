----------------------------- MODULE MCJobQueue -----------------------------
(***************************************************************************)
(* Instances of JobQueue for TLC.  Five jobs, queued as 3 1 0 2 4, make    *)
(* job_remove take each of its branches: middle, head, tail and only job.  *)
(***************************************************************************)
EXTENDS JobQueue

MCNJOBS == 5

\* One thread besides the program's two calls job_find.
OneFinder == {"finder"}

\* The program as its main runs it: nobody calls job_find.
NoFinder == {}
=============================================================================
