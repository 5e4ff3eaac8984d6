----------------------------- MODULE MC_Backfill -----------------------------
(***************************************************************************)
(* Directory entries for Backfill: latest.log, a name of another shape,   *)
(* 1-2.log and 1-2.log.gz (one base name twice), 1-10.log (whose number   *)
(* sorts after 2 but whose text sorts before it), 2-1.log.gz, a name with *)
(* an impossible date (3 stands for a month 13) and 1-1.gz, which lacks   *)
(* the .log of an archive.                                                 *)
(***************************************************************************)
EXTENDS Backfill

Arch(d, sq, e) == [kind |-> "archive", date |-> d, seq |-> sq, ext |-> e]

MCEntries ==
    { [kind |-> "latest", date |-> 0, seq |-> <<>>, ext |-> "log"],
      [kind |-> "other", date |-> 0, seq |-> <<>>, ext |-> "log"],
      Arch(1, <<2>>, "log"), Arch(1, <<2>>, "log.gz"), Arch(1, <<1, 0>>, "log"),
      Arch(2, <<1>>, "log.gz"), Arch(3, <<1>>, "log"), Arch(1, <<1>>, "gz") }

=============================================================================
