------------------------------- MODULE Ingest -------------------------------
(***************************************************************************)
(* What the ingestion driver promises about the lines of the log          *)
(* directory (spec 4.4 and 8): the parse state holds, in order, a prefix *)
(* of the lines written to the archives and latest.log; it only grows,    *)
(* each step by a whole run of lines the writer already wrote; and unless *)
(* the driver stops, it eventually holds every line written.              *)
(***************************************************************************)
EXTENDS Naturals, Sequences

CONSTANT LineIds        \* identities of the lines that can be written

VARIABLES
    written,    \* the lines of the directory, in the order written
    ingested,   \* the lines fed to the parser, in order
    stopped     \* the driver has stopped

vars == <<written, ingested, stopped>>

Init == ingested = written /\ stopped = FALSE

\* the writer appends a line
Append1 ==
    /\ \E l \in LineIds : written' = Append(written, l)
    /\ UNCHANGED <<ingested, stopped>>

\* the driver reads the next run of unread lines
Catch ==
    /\ ~stopped
    /\ \E k \in (Len(ingested) + 1)..Len(written) : ingested' = SubSeq(written, 1, k)
    /\ UNCHANGED <<written, stopped>>

\* the driver gives up
Stop == ~stopped /\ stopped' = TRUE /\ UNCHANGED <<written, ingested>>

Next == Append1 \/ Catch \/ Stop

Spec == Init /\ [][Next]_vars /\ WF_vars(Catch)

=============================================================================
