------------------------ MODULE MC_FileWatcherWindows ------------------------
(* Model values for the log directory watched by FileWatcherWindows. *)
EXTENDS FileWatcherWindows

CONSTANTS latest_log, archive_log

MCFileNames == {latest_log, archive_log}
=============================================================================
