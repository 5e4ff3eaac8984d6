--------------------------- MODULE MC_TailDriver ---------------------------
(***************************************************************************)
(* Model values for the log directory of TailDriver: latest.log, the      *)
(* archive it is renamed to, and another .log file that can be renamed    *)
(* onto it.                                                               *)
(***************************************************************************)
EXTENDS TailDriver

CONSTANTS latest_log, archive_log, other_log

MCFileNames == {latest_log, archive_log, other_log}
MCTargetPrefixed == {latest_log}
MCLogNames == {latest_log, archive_log, other_log}

=============================================================================
