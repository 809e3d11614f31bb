-------------------------------- MODULE MCJobs --------------------------------
(***************************************************************************)
(* Jobs with two tasks of the API, two of the tool, and two cron tasks of  *)
(* which one is refused.                                                   *)
(***************************************************************************)
EXTENDS Jobs

CONSTANTS a1, a2, t1, t2, daily, broken

MCApiTask == {a1, a2}
MCToolTask == {t1, t2}
MCCron == {daily, broken}
MCValidCron == {daily}
=============================================================================
