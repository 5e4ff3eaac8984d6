----------------------------- MODULE TailDriver -----------------------------
(***************************************************************************)
(* The continuous tailing of latest.log by main() (main.cpp): the loop     *)
(* that polls the inotify watcher and, for each event of latest.log,       *)
(* reads the bytes it has not read yet, restores the committed snapshot    *)
(* when the file shrank or was replaced, and commits the snapshot when     *)
(* latest.log is renamed to an archive.  The writer of the directory is    *)
(* the Minecraft server's log4j: it appends lines to latest.log, renames   *)
(* it to a dated archive when the server restarts or a new day begins, and *)
(* creates a new latest.log.                                               *)
(*                                                                         *)
(* Abstraction of the parser: parse_line is deterministic, so the pair     *)
(* (log_data_t, parse_ctx_t) is a function of the lines it was fed and of *)
(* the date baseline each was parsed with.  parse_data_ctx is represented  *)
(* by that sequence, "consumed", and by date_tp; persistent_data_ctx by    *)
(* the same pair, "persistent".  LogParser models what the lines do.       *)
(* A line is identified by the order in which it was written; lines are    *)
(* written whole (a read that ends inside a line is not modelled).         *)
(*                                                                         *)
(* For the presence count the lines are those of one player with a UUID:  *)
(* an odd line is "<name> joined the game" (after its "UUID of player"    *)
(* line), an even one "<name> left the game".                              *)
(***************************************************************************)
EXTENDS Integers, Sequences, SequencesExt

CONSTANTS
    Target, FileNames, TargetPrefixed, LogNames, BufEvents, None,
    Archive,        \* the name log4j renames latest.log to
    Other,          \* a file that can be renamed onto latest.log
    MaxWrites,      \* lines written in total
    MaxRotations,   \* renames of latest.log to an archive
    MaxDay,         \* last day of the model
    InitialLines,   \* lines in latest.log when main() starts
    Anomalies,      \* subset of {"truncate", "replace"}: external changes
    MaxAnomalies,   \* how many of them happen
    DrainedRotation \* the server restarts only after the driver handled
                    \* every event of the old latest.log

ASSUME Archive \in LogNames \ TargetPrefixed /\ Other \notin TargetPrefixed
ASSUME InitialLines \in 0..MaxWrites /\ Anomalies \subseteq {"truncate", "replace"}

VARIABLES
    queue, read_data, cookie,       \* the watcher
    exists, latest, gen_day,        \* latest.log: present, its lines, its day
    archives,                       \* contents of the archives, in order
    line_day,                       \* the day each line was written on
    day, rotations, anomalies_left, next_cookie,
    prev_size,                      \* main: bytes of latest.log already read
    consumed,                       \* parse_data_ctx: lines fed, with baselines
    date_tp,                        \* parse_ctx.date_tp
    persistent,                     \* persistent_data_ctx
    halted,                         \* main returned -1
    last_player_count               \* the count the bot's presence shows

W == INSTANCE FileWatcherLinux

fs == <<exists, latest, gen_day, archives, line_day, day, rotations,
        anomalies_left, next_cookie>>
driver == <<prev_size, consumed, date_tp, persistent, halted, last_player_count>>
vars == <<queue, read_data, cookie, fs, driver>>

Writes == Len(line_day)
Written == FlattenSeq(archives) \o latest
Lines(s) == [i \in 1..Len(s) |-> s[i].line]

\* parse_lines of the given lines with the baseline base
Parse(ls, base) == [i \in 1..Len(ls) |-> [line |-> ls[i], base |-> base]]

\* get_num_players after parse_line of the lines ls: the one player has a
\* join_time exactly when the last join or leave was a join (a join while
\* online overwrites join_time, a leave while offline fails)
OnlineAfter(ls) == IF ls # <<>> /\ Last(ls) % 2 = 1 THEN 1 ELSE 0

\* the player_join_left result of parse_lines of the lines new after the
\* lines old: a join, or a leave while the player is online
PlayersChanged(old, new) ==
    \/ \E i \in 1..Len(new) : new[i] % 2 = 1
    \/ new # <<>> /\ OnlineAfter(old) = 1

(***************************************************************************)
(* The writer of the log directory.                                        *)
(***************************************************************************)
\* log4j appends a line; the day has not changed since the file was opened
Write ==
    /\ exists /\ Writes < MaxWrites /\ gen_day = day
    /\ latest' = Append(latest, Writes + 1)
    /\ line_day' = Append(line_day, day)
    /\ W!Notify(<<W!Event("modify", Target, 0)>>)
    /\ UNCHANGED <<read_data, cookie, exists, gen_day, archives, day, rotations,
                   anomalies_left, next_cookie, driver>>

\* log4j rolls latest.log over to an archive (rename)
Rotate ==
    /\ exists /\ rotations < MaxRotations
    /\ DrainedRotation => queue = <<>> /\ read_data = <<>>
    /\ archives' = Append(archives, latest)
    /\ exists' = FALSE /\ latest' = <<>>
    /\ rotations' = rotations + 1
    /\ next_cookie' = next_cookie + 1
    /\ W!Notify(<<W!Event("moved_from", Target, next_cookie),
                  W!Event("moved_to", Archive, next_cookie)>>)
    /\ UNCHANGED <<read_data, cookie, gen_day, line_day, day, anomalies_left, driver>>

\* log4j opens a new latest.log
Create ==
    /\ ~exists
    /\ exists' = TRUE /\ latest' = <<>> /\ gen_day' = day
    /\ W!Notify(<<W!Event("create", Target, 0)>>)
    /\ UNCHANGED <<read_data, cookie, archives, line_day, day, rotations,
                   anomalies_left, next_cookie, driver>>

\* midnight
NextDay ==
    /\ day < MaxDay
    /\ day' = day + 1
    /\ UNCHANGED <<queue, read_data, cookie, exists, latest, gen_day, archives,
                   line_day, rotations, anomalies_left, next_cookie, driver>>

\* someone truncates latest.log to zero bytes
Truncate ==
    /\ "truncate" \in Anomalies /\ anomalies_left > 0 /\ exists
    /\ latest' = <<>>
    /\ anomalies_left' = anomalies_left - 1
    /\ W!Notify(<<W!Event("modify", Target, 0)>>)
    /\ UNCHANGED <<read_data, cookie, exists, gen_day, archives, line_day, day,
                   rotations, next_cookie, driver>>

\* someone renames another log, holding one new line, onto latest.log
Replace ==
    /\ "replace" \in Anomalies /\ anomalies_left > 0 /\ Writes < MaxWrites
    /\ exists' = TRUE /\ gen_day' = day
    /\ latest' = <<Writes + 1>>
    /\ line_day' = Append(line_day, day)
    /\ anomalies_left' = anomalies_left - 1
    /\ next_cookie' = next_cookie + 1
    /\ W!Notify(<<W!Event("moved_from", Other, next_cookie),
                  W!Event("moved_to", Target, next_cookie)>>)
    /\ UNCHANGED <<read_data, cookie, archives, day, rotations, driver>>

(***************************************************************************)
(* main(): the handling of one data_read result, in the order of the code. *)
(* d is [prev, consumed, date, snap, count]; the file is read at handling *)
(* time.                                                                   *)
(***************************************************************************)
Size == IF exists THEN Len(latest) ELSE 0

\* Mutation: a handler that does not call update_date_tp.
UpdateDateTpSkipped(d) == d

\* update_date_tp: the modification day of latest.log, if it exists
UpdateDateTp(d) == [d EXCEPT !.date = IF exists THEN gen_day ELSE @]

OnCreate(d) == [UpdateDateTp(d) EXCEPT !.prev = 0]

\* update_player_count: last_player_count becomes get_num_players
UpdatePlayerCount(d) == [d EXCEPT !.count = OnlineAfter(Lines(d.consumed))]

\* latest.log was renamed onto: date, then the snapshot, a full re-read and
\* the presence update
OnCreateMoved(d) ==
    LET d1 == UpdateDateTp(d)
    IN IF Size > 0
         THEN UpdatePlayerCount(
                [d1 EXCEPT !.consumed = d1.snap.consumed \o Parse(SubSeq(latest, 1, Size), d1.snap.date),
                           !.date = d1.snap.date, !.prev = Size])
         ELSE [d1 EXCEPT !.prev = Size]

\* the "shrunk somehow" branch: parse_data_ctx = persistent_data_ctx
Restore(d) == [d EXCEPT !.prev = 0, !.consumed = d.snap.consumed, !.date = d.snap.date]

\* the read of lines first..Size, parse_lines, and update_player_count when
\* players joined or left or the snapshot was restored (do_update)
ReadFrom(d1, first, do_update) ==
    LET new == SubSeq(latest, first, Size)
        d2 == [d1 EXCEPT !.consumed = @ \o Parse(new, d1.date)]
    IN IF PlayersChanged(Lines(d1.consumed), new) \/ do_update
         THEN UpdatePlayerCount(d2) ELSE d2

\* Mutations of OnModify: reading from the start, skipping a line, and a
\* restore that keeps prev_size.
OnModifyFromStart(d) ==
    LET d1 == IF Size < d.prev THEN Restore(d) ELSE d
    IN [IF Size > 0 /\ Size > d1.prev THEN ReadFrom(d1, 1, Size < d.prev)
        ELSE d1 EXCEPT !.prev = Size]
OnModifySkip(d) ==
    LET d1 == IF Size < d.prev THEN Restore(d) ELSE d
    IN [IF Size > 0 /\ Size > d1.prev THEN ReadFrom(d1, d1.prev + 2, Size < d.prev)
        ELSE d1 EXCEPT !.prev = Size]
OnModifyKeepPrev(d) ==
    LET d1 == IF Size < d.prev THEN [Restore(d) EXCEPT !.prev = d.prev] ELSE d
    IN [IF Size > 0 /\ Size > d1.prev THEN ReadFrom(d1, d1.prev + 1, Size < d.prev)
        ELSE d1 EXCEPT !.prev = Size]

\* latest.log was modified: a shrunk file restores the snapshot and is read
\* from the start, a grown one is read from prev_size
OnModify(d) ==
    LET d1 == IF Size < d.prev THEN Restore(d) ELSE d
    IN [IF Size > 0 /\ Size > d1.prev THEN ReadFrom(d1, d1.prev + 1, Size < d.prev)
        ELSE d1 EXCEPT !.prev = Size]

\* latest.log was renamed to name: a .log name commits the snapshot
OnMovedTo(d, name) ==
    [IF name \in LogNames THEN [d EXCEPT !.snap = [consumed |-> d.consumed, date |-> d.date]]
     ELSE d EXCEPT !.prev = 0]

Handle(r, d) ==
    LET d1 == IF r.create THEN OnCreate(d) ELSE d
        d2 == IF r.create_moved THEN OnCreateMoved(d1) ELSE d1
        d3 == IF r.modify THEN OnModify(d2) ELSE d2
    IN IF r.moved_to # None THEN OnMovedTo(d3, r.moved_to) ELSE d3

DriverState == [prev |-> prev_size, consumed |-> consumed, date |-> date_tp, snap |-> persistent,
                count |-> last_player_count]

SetDriver(d) ==
    /\ prev_size' = d.prev /\ consumed' = d.consumed
    /\ date_tp' = d.date /\ persistent' = d.snap
    /\ last_player_count' = d.count

\* One iteration of the while (true) loop of main() whose poll succeeds.
Poll ==
    /\ ~halted
    /\ \/ /\ W!PollIdle
          /\ UNCHANGED driver
       \/ /\ W!PollEvent
          /\ LET r == W!PollResult(W!NextEvent)
             IN IF r.state = 1 THEN SetDriver(Handle(r, DriverState))
                ELSE UNCHANGED <<prev_size, consumed, date_tp, persistent, last_player_count>>
          /\ UNCHANGED halted
    /\ UNCHANGED fs

\* A poll that fails: main prints FATAL ERROR and returns -1.
PollFails ==
    /\ ~halted
    /\ W!PollError
    /\ halted' = TRUE
    /\ UNCHANGED <<prev_size, consumed, date_tp, persistent, last_player_count, fs>>

\* main returned: nothing happens any more
Exited == halted /\ UNCHANGED vars

(***************************************************************************)
(* Startup: parse_logs over the archives gives the snapshot; latest.log is *)
(* then parsed whole with its modification day, prev_size stays 0, and   *)
(* update_player_count sets the presence.                                  *)
(***************************************************************************)
Init ==
    /\ W!WatcherInit
    /\ exists \in IF InitialLines > 0 THEN {TRUE} ELSE BOOLEAN
    /\ latest = [i \in 1..InitialLines |-> i]
    /\ gen_day = 0 /\ day = 0
    /\ archives = <<>>
    /\ line_day = [i \in 1..InitialLines |-> 0]
    /\ rotations = 0 /\ anomalies_left = MaxAnomalies /\ next_cookie = 1
    /\ persistent = [consumed |-> <<>>, date |-> 0]
    /\ consumed = Parse(latest, 0)
    /\ date_tp = 0
    /\ prev_size = 0
    /\ halted = FALSE
    /\ last_player_count = OnlineAfter(latest)

Next ==
    \/ Write \/ Rotate \/ Create \/ NextDay \/ Truncate \/ Replace
    \/ Poll \/ PollFails
    \/ Exited

\* The loop polls forever, sleeping 100 ms only when nothing was read; a
\* failing poll is possible but never forced.
Spec == Init /\ [][Next]_vars /\ WF_vars(Poll)

-----------------------------------------------------------------------------
(***************************************************************************)
(* Properties.                                                             *)
(***************************************************************************)
Entry == [line : 1..MaxWrites, base : 0..MaxDay]

TypeOK ==
    /\ queue \in Seq([mask : W!Masks, name : FileNames, cookie : 0..next_cookie])
    /\ read_data \in Seq([mask : W!Masks, name : FileNames, cookie : 0..next_cookie])
    /\ Len(read_data) < BufEvents
    /\ cookie \in 0..next_cookie
    /\ prev_size \in 0..MaxWrites
    /\ consumed \in Seq(Entry) /\ date_tp \in 0..MaxDay
    /\ persistent \in [consumed : Seq(Entry), date : 0..MaxDay]
    /\ halted \in BOOLEAN
    /\ last_player_count \in 0..1

\* No events are waiting for the driver.
Quiescent == queue = <<>> /\ read_data = <<>>

\* The parse state never holds a line twice: prev_size, the snapshot
\* restores and the commits on rename together keep main() from
\* re-reading a line it already parsed (a duplicated session otherwise).
NoLineTwice ==
    \A i, j \in 1..Len(consumed) : i # j => consumed[i].line # consumed[j].line

\* Whenever the driver has handled every event, parse_data_ctx holds exactly
\* the lines of the archives and of latest.log, in the order written: no
\* line was skipped by a stale prev_size and none read twice.
CaughtUp == Quiescent /\ ~halted => Lines(consumed) = Written

\* Every line was parsed with the date baseline of the day it was written:
\* the date_tp kept across create, restore and commit is the file's date.
BaselineIsFileDay ==
    \A i \in 1..Len(consumed) : consumed[i].base = line_day[consumed[i].line]

\* A poll step that handles a modify of latest.log after it shrank leaves
\* the committed snapshot followed by the whole current file (main.cpp's
\* "discarding data and re-reading from start").
ShrinkPending ==
    /\ ~halted /\ W!Available # <<>>
    /\ LET r == W!PollResult(W!NextEvent)
       IN r.state = 1 /\ r.modify /\ ~r.create /\ ~r.create_moved /\ Size < prev_size
TruncationRecovers ==
    [][ShrinkPending /\ UNCHANGED fs /\ ~halted'
       /\ <<queue, read_data>>' # <<queue, read_data>>
         => Lines(consumed') = Lines(persistent.consumed) \o latest]_vars

\* The refinement mapping: the abstract directory is the archives followed
\* by latest.log, the abstract parse state the lines of parse_data_ctx.
A == INSTANCE Ingest WITH LineIds <- 1..MaxWrites, written <- Written,
                          ingested <- Lines(consumed), stopped <- halted

\* Spec 4.4 and 8: the tailing loop implements the ingestion promise: the
\* parse state is always an ordered prefix of the lines written, grows by
\* whole runs of them, and (the loop polling forever) eventually holds all
\* of them unless main() exits.
IngestSpec == A!Spec

=============================================================================
