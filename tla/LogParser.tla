----------------------------- MODULE LogParser -----------------------------
(***************************************************************************)
(* The line parser of parse_logs.h (parse_line, clear_all_players) driven  *)
(* by the per-file logic of the parse_logs loop: a new file recomputes the *)
(* day baseline ctx.date_tp and sets clear_before when its baseline equals *)
(* the previous file's.                                                    *)
(*                                                                         *)
(* A log line is abstracted to the message shape it has (UUID, join,      *)
(* leave, the two stop wordings, the start message, anything else, or no  *)
(* timestamp at all).  Time is counted in ticks of UTC; a day has DayLen   *)
(* ticks and the configured logs_timezone is Zone ticks east of UTC.  The *)
(* lines are generated in the order the backfill reads them: files sorted *)
(* by date, latest.log last, and (as log4j rolls latest.log over at       *)
(* midnight) every line of a file on the local day the file was opened.   *)
(***************************************************************************)
EXTENDS Integers, Sequences, SequencesExt, FiniteSets

CONSTANTS
    Names,      \* player names (model values)
    Uuids,      \* player identities; integers, since uuid_t is ordered
    DayLen,     \* ticks per day
    Zone,       \* offset of logs_timezone east of UTC, in ticks
    MaxNow,     \* last tick of the wall clock
    MaxLines,   \* bound on the number of lines read
    Modes,      \* callers of parse_logs, a subset of
                \* "main": parse_logs<true,true> then latest.log via parse_lines
                \* "batch": parse_logs<false,false> as called by playtime.cpp
    None        \* an empty std::optional

ASSUME Uuids \subseteq Int /\ DayLen \in Nat \ {0} /\ Zone \in 0..(DayLen - 1)
ASSUME Modes \subseteq {"main", "batch"} /\ None \notin Uuids \cup Int

VARIABLES
    player_info,    \* parse_ctx_t::player_info: name -> [uuid, join]
    server_stopped, \* parse_ctx_t::server_stopped
    data,           \* log_data_t: uuid -> [names, sessions, total]
    date_tp,        \* parse_ctx_t::date_tp, the baseline of the current file
    last_tp,        \* parse_logs: baseline of the previous file
    clear_before,   \* parse_logs: flush everyone at the next timestamped line
    file,           \* kind of the file being read: "none", "archive", "latest"
    iteration,      \* the iteration order of the unordered_map player_info
    now,            \* the wall clock (UTC ticks)
    lines,          \* number of lines read so far
    done,           \* parse_logs has returned
    joins,          \* history: number of join lines that were interpreted
    last_line,      \* history: the line read by the last step
    mode            \* the caller, fixed for a run

parser == <<player_info, server_stopped, data>>
vars == <<mode, player_info, server_stopped, data, date_tp, last_tp, clear_before,
          file, iteration, now, lines, done, joins, last_line>>

Instants == (-Zone)..(MaxNow + Zone)

Lines ==
    [k : {"uuid"}, name : Names, id : Uuids]
    \cup [k : {"join", "leave"}, name : Names]
    \cup [k : {"stop", "stopthe", "start", "other", "notime"}]

PlayerInfo == [uuid : Uuids \cup {None}, join : Instants \cup {None}]
NoPlayerInfo == [uuid |-> None, join |-> None]
NoEntry == [names |-> <<>>, sessions |-> <<>>, total |-> 0]

(***************************************************************************)
(* Time.  The server stamps a line with its local time of day; the file   *)
(* name carries its local date.                                            *)
(***************************************************************************)
LocalDay(t) == (t + Zone) \div DayLen

\* Mutations of TimeOfDay: the stamp not reduced to the day, and off by one.
TimeOfDayUnreduced(t) == t + Zone
TimeOfDayShifted(t) == (t + Zone + 1) % DayLen

\* from_stream "[%2H:%2M:%2S]": the offset of the stamp from local midnight
TimeOfDay(t) == (t + Zone) % DayLen

\* get_next_line: the date in an archive's name, read as a local_days value
\* and converted with locate_zone("UTC")->to_sys
ArchiveBaseline(t) == LocalDay(t) * DayLen

\* file_modification_date: the last write time floored to local midnight
\* in logs_timezone and converted back to UTC
LatestBaseline(t) == LocalDay(t) * DayLen - Zone

Baseline(kind, t) == IF kind = "latest" THEN LatestBaseline(t) ELSE ArchiveBaseline(t)

(***************************************************************************)
(* The parser.  st is the pair (player_info, log_data_t) plus the stopped *)
(* flag, as one record so that the steps of parse_line compose.           *)
(***************************************************************************)
Identified(st, n) == st.info[n].uuid # None /\ st.info[n].join # None

\* Mutations of CloseSession: the total not accumulated, and the join time
\* left set.
CloseSessionNoTotal(st, n, t) ==
    LET u == st.info[n].uuid  j == st.info[n].join  e == st.data[u]
    IN [st EXCEPT !.info[n].join = None,
          !.data[u] = [e EXCEPT !.names = IF e.names = <<>> \/ Last(e.names) # n
                                            THEN Append(e.names, n) ELSE e.names,
                                !.sessions = Append(e.sessions, <<j, t - j>>)]]
CloseSessionKeepJoin(st, n, t) ==
    LET u == st.info[n].uuid  j == st.info[n].join  e == st.data[u]
    IN [st EXCEPT
          !.data[u] = [names |-> IF e.names = <<>> \/ Last(e.names) # n
                                    THEN Append(e.names, n) ELSE e.names,
                       sessions |-> Append(e.sessions, <<j, t - j>>),
                       total |-> e.total + (t - j)]]

\* player_left after its checks: append the session, the name if it differs
\* from the last one, add to the total and clear the join time
CloseSession(st, n, t) ==
    LET u == st.info[n].uuid
        j == st.info[n].join
        e == st.data[u]
    IN [st EXCEPT
          !.info[n].join = None,
          !.data[u] = [names    |-> IF e.names = <<>> \/ Last(e.names) # n
                                        THEN Append(e.names, n) ELSE e.names,
                       sessions |-> Append(e.sessions, <<j, t - j>>),
                       total    |-> e.total + (t - j)]]

\* clear_all_players: close the session of every player that has both a
\* UUID and a join time, in the map's iteration order
ClearAllPlayers(st, t) ==
    FoldLeft(LAMBDA s, n : IF Identified(s, n) THEN CloseSession(s, n, t) ELSE s,
             st, iteration)

\* parse_line after the timestamp, the source tag and clear_before
Interpret(st, l, t) ==
    CASE l.k = "stop"  -> [ClearAllPlayers(st, t) EXCEPT !.stopped = TRUE]
      [] st.stopped    -> IF l.k = "start" THEN [st EXCEPT !.stopped = FALSE] ELSE st
      [] l.k = "stopthe" -> [ClearAllPlayers(st, t) EXCEPT !.stopped = TRUE]
      [] l.k = "uuid"  -> [st EXCEPT !.info[l.name].uuid = l.id]
      [] l.k = "join"  -> [st EXCEPT !.info[l.name].join = t]
      [] l.k = "leave" /\ Identified(st, l.name) -> CloseSession(st, l.name, t)
      [] OTHER         -> st

\* parse_line: a line without a timestamp changes nothing; otherwise the
\* pending flush happens first, at this line's instant
ParseLine(st, l, t, clear) ==
    IF l.k = "notime" THEN st
    ELSE Interpret(IF clear THEN ClearAllPlayers(st, t) ELSE st, l, t)

ParserState == [info |-> player_info, data |-> data, stopped |-> server_stopped]

SetParser(st) ==
    /\ player_info' = st.info
    /\ data' = st.data
    /\ server_stopped' = st.stopped

(***************************************************************************)
(* The parse_logs loop.                                                    *)
(***************************************************************************)
Init ==
    /\ player_info = [n \in Names |-> NoPlayerInfo]
    /\ server_stopped = FALSE
    /\ data = [u \in Uuids |-> NoEntry]
    /\ date_tp = None
    /\ last_tp = None
    /\ clear_before = FALSE
    /\ file = "none"
    /\ iteration \in SetToSeqs(Names)
    /\ now = 0
    /\ lines = 0
    /\ done = FALSE
    /\ joins = 0
    /\ last_line = None
    /\ mode \in Modes

\* Whether the baseline of a new file makes clear_before true: the loop only
\* ever sets it, and only parse_line's success clears it.  In main mode
\* latest.log is parsed by parse_lines, which never passes clear_before.
NewClearBefore(kind, base) ==
    IF mode = "main" /\ kind = "latest" THEN FALSE
    ELSE clear_before \/ base = last_tp

\* One iteration of the loop: get_next_line returns the next non-empty line,
\* the first of a new file of the given kind when fresh, and parse_line
\* reads it.  Files come in date order with latest.log last, and a file's
\* lines are all on the local day it was opened.
ReadLine(l, kind, fresh) ==
    LET base  == IF fresh THEN Baseline(kind, now) ELSE date_tp
        clear == IF fresh THEN NewClearBefore(kind, base) ELSE clear_before
        t     == base + TimeOfDay(now)
    IN /\ ~done
       /\ lines < MaxLines
       /\ IF fresh THEN file # "latest" ELSE file = kind /\ Baseline(kind, now) = date_tp
       /\ SetParser(ParseLine(ParserState, l, t, clear))
       /\ date_tp' = base
       /\ last_tp' = IF fresh /\ ~(mode = "main" /\ kind = "latest") THEN base ELSE last_tp
       /\ clear_before' = (clear /\ l.k = "notime")
       /\ file' = kind
       /\ lines' = lines + 1
       /\ joins' = joins + (IF l.k = "join" /\ ~server_stopped THEN 1 ELSE 0)
       /\ last_line' = l
       /\ UNCHANGED <<mode, iteration, now, done>>

\* The clock advances.
Tick ==
    /\ ~done
    /\ now < MaxNow
    /\ now' = now + 1
    /\ UNCHANGED <<mode, player_info, server_stopped, data, date_tp, last_tp,
                   clear_before, file, iteration, lines, done, joins, last_line>>

\* get_next_line returns an empty string: parse_logs returns.  Without
\* save_ctx the players still online leave at system_clock::now().
Finish ==
    /\ ~done
    /\ done' = TRUE
    /\ IF mode = "batch"
         THEN SetParser(ClearAllPlayers(ParserState, now))
         ELSE UNCHANGED parser
    /\ last_line' = None
    /\ UNCHANGED <<mode, date_tp, last_tp, clear_before, file, iteration, now, lines, joins>>

Terminated == done /\ UNCHANGED vars

Next ==
    \/ \E l \in Lines, kind \in {"archive", "latest"}, fresh \in BOOLEAN :
         ReadLine(l, kind, fresh)
    \/ Tick
    \/ Finish
    \/ Terminated

Spec == Init /\ [][Next]_vars

(***************************************************************************)
(* Properties.                                                             *)
(***************************************************************************)
TypeOK ==
    /\ player_info \in [Names -> PlayerInfo]
    /\ server_stopped \in BOOLEAN
    /\ \A u \in Uuids :
          /\ data[u].names \in Seq(Names)
          /\ data[u].sessions \in Seq(Instants \X Int)
          /\ data[u].total \in Int
    /\ date_tp \in Instants \cup {None}
    /\ clear_before \in BOOLEAN
    /\ file \in {"none", "archive", "latest"}
    /\ now \in 0..MaxNow /\ lines \in 0..MaxLines

SumDurations(ss) == FoldLeft(LAMBDA a, s : a + s[2], 0, ss)
Sessions(u) == data[u].sessions
NumSessions == FoldLeft(LAMBDA a, u : a + Len(Sessions(u)), 0, SetToSeq(Uuids))
Online(n) == player_info[n].join # None

\* Spec 8: the total play time of every identity equals the sum of the
\* durations of its sessions, whichever of player_left, the stop messages,
\* the new-file flush or the end of parse_logs closed them.
TotalIsSum == \A u \in Uuids : data[u].total = SumDurations(Sessions(u))

\* Spec 3: a session's duration is never negative.  Sessions are closed by
\* leave and stop lines, by the flush of a same-day file and by the final
\* flush, each with an instant computed from a different file's baseline.
SessionsNonNegative ==
    \A u \in Uuids : \A i \in 1..Len(Sessions(u)) : Sessions(u)[i][2] >= 0

\* Every recorded session is closed from one interpreted join line: no join
\* time survives the session that consumed it, so no join is counted twice.
SessionsBoundedByJoins == NumSessions <= joins

\* Spec 4.3: a "Stopping server" message flushes every online entry, so after
\* it no player has a join time (parse_line, clear_all_players).
StopFlushesEveryone ==
    [][lines' = lines + 1 /\ last_line'.k = "stop" => \A n \in Names : ~Online(n)']_vars

=============================================================================
