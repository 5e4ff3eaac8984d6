# TLA+ models of the Minecraft playtime log ingester

These modules model the log-ingestion core of this repository with TLC:
- `src/src/parse_logs.h`
- `src/src/file_watcher.c` (Linux) and `src/src/file_watcher.cpp` (Windows)
- the tailing loop of `src/src/main.cpp`, and an abstract specification of what it promises
- the `/graph` command of `main.cpp` and the live merge of `playtime_graph.h`

They are written from the source. Where the code and `spec.md` disagree, the disagreement is recorded as a finding. Each one is checked by a violation run.

## The system

| Part | Source | What it does |
|---|---|---|
| Change watcher | `file_watcher.c` (Linux inotify), `file_watcher.cpp` (Windows), the `file_watcher` wrapper in `main.cpp:20-80` | Turns directory events into poll results. State 0 means nothing happened. State 1 is an event of `latest.log`: create, create-by-rename, modify, or a rename of it. State 2 means "poll again". State -1 is an error. |
| File enumerator | `parse_logs` in `parse_logs.h:521-609` | Lists the `.log`/`.log.gz` files, filters their names, sorts them by date and sequence number, and drops duplicates. |
| Backfill loop | `parse_logs` (`612-661`) and `detail::get_next_line` (`186-257`) | Reads the files in order. Before the first line of each file it computes the file's day baseline `date_tp`. It sets `clear_before` when two consecutive files are on the same day. |
| Line parser | `parse_line` (`340-497`), `detail::clear_all_players` (`296-322`), `parse_lines` | Updates `parse_ctx_t`, the online map and the stopped flag. Also updates `log_data_t`, which maps each uuid to its names, sessions and total. |
| UUID codec | `detail::parse_uuid` (`103-151`), `std::formatter<uuid_t>` (`47-98`) | Converts between the text form and the pair of 64-bit halves. |
| Ingestion driver | `main` in `main.cpp:360-494` | Runs the backfill (`parse_logs<true,true>`), keeps it as `persistent_data_ctx`, and parses `latest.log` whole. It then loops forever: it polls the watcher and reacts to each result. |
| Bot | `main.cpp:240-355` | The `/graph` and `/players` commands read the parse state under `parse_data_ctx_mutex`. `/graph` is rate-limited. The presence count comes from `update_player_count`. |
| Graph | `playtime_graph.h` | `create_graph` copies the store and merges the players who are online now, using `lower_bound`. It then draws an SVG. |

How the driver reacts to each poll result, in the code's order:
- **create:** recompute `date_tp` and set `prev_size = 0`.
- **create_moved** (a file was renamed onto `latest.log`):
  - recompute `date_tp`;
  - if the file is not empty, restore the snapshot and parse the whole file;
  - `prev_size = size`.
- **modify:**
  - if the file shrank, restore the snapshot and set `prev_size = 0`;
  - if it grew, parse the bytes after `prev_size`;
  - `prev_size = size`.
- **moved_to** (`latest.log` was renamed): if the new name ends in `.log`, commit the parse state as the new snapshot; then `prev_size = 0`.

The bot threads share `parse_data_ctx` with this loop.

## Modules

### `LogParser.tla`: line parser and backfill loop

**State.** The variables are the fields of `parse_ctx_t` and `log_data_t`:
- `player_info` maps each name to its uuid and join instant;
- `server_stopped`;
- `data` maps each uuid to its names, sessions and total.

It also has the locals of the `parse_logs` loop (`date_tp`, `last_tp`, `clear_before`), and `mode`, the caller:
- `"main"`: `parse_logs<true,true>` followed by `parse_lines` of `latest.log`;
- `"batch"`: `parse_logs<false,false>`, as `playtime.cpp` calls it.

`mode` is chosen at Init.

**Lines.** A line is abstracted to its message shape:
- UUID of a name;
- join or leave of a name;
- "Stopping server";
- "Stopping the server";
- the start message;
- any other line;
- a line with no timestamp.

**Time.**
- Time is in UTC ticks, `DayLen` ticks per day, and `logs_timezone` is `Zone` ticks east of UTC.
- `ArchiveBaseline` is UTC midnight of the local date, as `locate_zone("UTC")` makes it.
- `LatestBaseline` is local midnight, as `file_modification_date` makes it.

**Operators.**
- `Interpret` is `parse_line` after the timestamp. Its CASE arms are in the order of the code's tests.
- `ClearAllPlayers` folds `CloseSession` over `iteration`. `iteration` is an arbitrary order of the names, chosen at Init, standing for the `unordered_map`'s order.

**Actions.**
- `ReadLine(l, kind, fresh)` is one iteration of the backfill loop: `get_next_line`, then the new-file baseline and `clear_before`, then `parse_line`.
- `Finish` is the end of the loop. In batch mode it includes the final flush at `system_clock::now()`.
- `Tick` advances the clock. Lines come in clock order, and each file's lines lie on the local day the file was opened, as log4j's daily rollover gives.

### `FileWatcherLinux.tla`: inotify watcher

**State:**
- `queue`: the kernel's event queue;
- `read_data`: the events of the last `read()` not yet consumed;
- `cookie`: `ctx->cookie`.

**Definitions:**
- `Batch`: `read_more_events`, at most `BufEvents` events per read.
- `PollResult` and `PollCookie`: the branches of `file_watcher_poll`, in the code's order:
  1. a MOVED_TO matching the cookie;
  2. the name test;
  3. MOVED_FROM;
  4. the other events of the file.
- `NameMatches`: the name test. It is a prefix test: `event->len` is a padded length, so `strncmp` over `filename_size` accepts any name that begins with `latest.log`. The constant `TargetPrefixed` is the set of such names.
- `PollIdle`, `PollEvent`, `PollError`: the three outcomes of a call.
- `Notify`: the kernel appending events.

The module has no `Next`. It is a component that `TailDriver` instantiates.

### `TailDriver.tla`: the tailing loop of `main`, composed with the watcher and the log writer

**Parse state.** `parse_line` is deterministic, so the pair (`log_data_t`, `parse_ctx_t`) is a function of the lines it was fed and the baseline used for each. `consumed` is that sequence of `[line, base]`. `date_tp` is the current baseline. `persistent` is `persistent_data_ctx`.

**Writer.** The log directory is written by log4j and by people. `latest` holds the lines of `latest.log`. Its actions:
- `Write`;
- `Rotate`: rename `latest.log` to an archive, giving MOVED_FROM and MOVED_TO with one cookie;
- `Create`;
- `NextDay`;
- `Truncate` and `Replace`: anomalies, present only when the constants allow them.

**Driver.**
- `Init` is the startup of `main`.
- `Poll` is one iteration of the `while (true)` loop whose poll succeeds. `Handle` composes `OnCreate`, `OnCreateMoved`, `OnModify` and `OnMovedTo` in the code's order. The file is read as it is when the event is handled.
- `PollFails` is the `return -1` path.

**Presence.** `last_player_count` is the count the bot's presence shows. For this count the written lines are the events of one player who has a uuid: an odd line is a join and an even line is a leave.
- `OnlineAfter` is `get_num_players`. The player is online exactly when the last join or leave was a join.
- `PlayersChanged` is the `player_join_left` result of `parse_lines`: any join, or a leave while the player is online.
- `UpdatePlayerCount` runs where the code calls it:
  - at startup;
  - in `OnCreateMoved` when the file is not empty;
  - in `ReadFrom`, the read of `OnModify`, when players changed or the snapshot was restored (`do_update`).

No run checks the count. It is stale after a truncation to 0 bytes (see Findings), and a passing run without truncation would hide that.

**Startup snapshot.** In the code, `persistent_data_ctx` is copied at `main.cpp:363`, before `update_date_tp` at 385, so its date is the last archive's. The model's runs start with no archives and everything on day 0, so both dates are 0.

**Fairness.** The loop polls forever and sleeps 100 ms only when there was nothing to read. The spec therefore has `WF_vars(Poll)`. A failing poll is possible but not fair: nothing forces it. `GraphCommand` and `FileWatcherWindows` are checked for safety only, so their specifications assume no fairness.

**Refinement.** `TailDriver` ends with an instance of `Ingest` under a refinement mapping:
- the abstract `written` is `Written`, the lines of the archives followed by those of `latest.log`;
- `ingested` is `Lines(consumed)`, the lines fed to `parse_line`;
- `stopped` is `halted`.

`IngestSpec == A!Spec` is checked as a property. It includes the abstract weak fairness of `Catch`, so it is a liveness check as well.

### `Ingest.tla`: what the tailing loop promises

This module is the abstract specification (spec 4.4 and 8). `written` grows by `Append1`. `Catch` extends `ingested` to a longer prefix of `written`. `Stop` is the driver giving up. `Init` has `ingested = written`: the backfill has read everything there is at startup. Under `WF_vars(Catch)`, every written line is eventually ingested unless the driver stops. No code is mapped to this module.

### `FileWatcherWindows.tla`: the `ReadDirectoryChangesW` watcher

**State.** `changes` are the changes the system has recorded for the handle but not yet delivered. The system records them only from the first `ReadDirectoryChangesW` on (`watching`, set by the first poll that issues a request; `Record`). The context fields are `read_data`, `read_data_offset`, `read_data_size`, `has_cur_request` and `moved`. Offsets count `FILE_NOTIFY_INFORMATION` entries instead of bytes. Each change carries an `id` (the order it was made); `reported` is a history of the ids polled as state 1.

**Environment.** `Change` is a create, write or delete. `Rename` appends an OLD_NAME and a NEW_NAME entry, as Windows always reports a rename within the directory.

**Definitions:**
- `ReadEntry` is `file_watcher_read`. Its CASE follows the code's order: a NEW_NAME while `moved`, the name test, OLD_NAME, then the `switch`.
- `Entries` gives the entry at the offset. Past what any request wrote, the buffer from `_aligned_malloc` holds an indeterminate entry. This undefined behaviour is modelled as any entry with id 0, and `ReportsAreFresh` leaves such entries aside.
- `PollBuffered`, `PollIncomplete`, `PollCompleted`, `PollOverflow` and `PollFails` are the paths of `file_watcher_poll`. `PollCompleted` completes the request with the first `k` recorded changes that fit. `PollOverflow` is a completion with `bytes_transferred = 0` when the changes no longer fit: the changes are discarded and `file_watcher_read` still runs on offset 0.

The `moved` flag is not reset after a NEW_NAME is reported (`file_watcher.cpp:73`). This is benign. A NEW_NAME always directly follows its OLD_NAME, and the next entry of any other kind resets the flag at line 90.

### `GraphCommand.tla`: `/graph` and the live merge

**State.** The parse state is `player_info`, `server_stopped`, `data` and `iteration`, updated through an instance of `LogParser` (`P!ParseLine`). The parser constants that do not matter here are fixed: UTC, `"main"` mode, `latest.log`. The other variables are:
- `now`, the clock;
- `next_tp` (`graph_command_next_tp`);
- `pc`, where each invocation of the handler is;
- `shown` and `basis`, the graph each invocation replied with and the state it was drawn from.

**Definitions:**
- `Keys` is the key set of the `std::map`: an entry exists only once a session was closed into it.
- `LowerBound`, `Credited`, `MergeOne` and `Merged` are the loop of the live `create_graph` overload. `Merged` is `None` when it throws. The final sort only orders the bars.

**Actions.**
- `ParseLive` is a `parse_line` step of the tailing loop.
- `RateLimit` is the rate-limit block.
- `MakeGraph` is `create_graph` under `parse_data_ctx_mutex`, then the reply.

Each is one atomic step. The two critical sections hold the same mutex. The rate-limit block's `std::scoped_lock(next_tp_mutex);` locks nothing, but dpp dispatches the events of a shard on that shard's thread and the bot runs one shard, so two handlers do not run the block at once.

### `Backfill.tla`: the enumerator and the file reader of `parse_logs`

**Names.** A directory entry is a record:
- `kind`: `latest.log`, an archive name, or a name of another shape;
- `date`: the date in the first ten characters. Text order is date order; `BadDates` are digit strings that `from_stream` rejects, such as a month 13;
- `seq`: the digits of the sequence number;
- `ext`: the extension.

A file's `content` is its number of non-blank lines, or `Corrupt` for a `.gz` that libdeflate rejects. Blank lines are skipped by `get_next_line` and are not modelled.

**Init** is everything before the loop:
- the template parameter `skip_latest_log`: true for `main`, false for `playtime.cpp`;
- a directory of at most `MaxDir` entries, with their contents;
- `paths`, from `Enumerate`: the extension filter, then `Kept` (the `erase_if`), then a sort by `SortLess`, then `Unique`. `std::ranges::sort` is not stable, so every order the comparator allows is possible. `Unique` keeps the first of equal base names (`Stem`, `log_filename_no_ext`).

**Reading.**
- `GetNextLine` is the recursive `detail::get_next_line`. It returns the next line of the open stream. Otherwise it opens the next path: it skips one whose date is rejected or whose decompression fails (`Skipped`), and it opens a file with no lines only to fall through to the next.
- `Step` is one iteration of the `while (true)` loop. It hands the line to `parse_line`, which is `LogParser`'s part. It appends each `read_file_cb` argument to the history `reported`.

**Reference.** `SpecOrders` and `LinesOf` restate spec 4.2 with no reference to the code:
- accept `latest.log` and the `yyyy-mm-dd-N.log[.gz]` names;
- keep one file per (date, sequence);
- order the files by (date, numeric sequence), with `latest.log` last;
- drop the unreadable files;
- feed every line of the remaining files.

### `UuidCodec.tla`: `parse_uuid` and the formatter

- The text keeps the code's layout with the run lengths as a constant: `Groups` is `<<8, 4, 4, 4, 12>>` in the code and `<<1, 1, 1, 1, 2>>` in the run. The first three runs are `uuid.first`, the last two `uuid.second`.
- A half has `HalfDigits` hex digits, with arithmetic modulo `2^(4*HalfDigits)`, as `uint64_t` is modulo `2^64`.
- Characters are one-character strings. `HexDigitValue` is the switch of `hex_digit_to_uint64`: it gives -1 as a `uint64_t` (all bits set) for anything that is not `0-9`, `a-f` or `A-F`.
- `DashPositions` are the checked dashes (8, 13, 18, 23 in the code). `ArrPos` is where the `copy_n` runs put each digit of `arr`.
- The parse is a state machine with one action per loop iteration: `CheckDashes`, `AddDigit`, `ReturnUuid`.
- `Format` is the formatter: each digit goes through `hex_digits` and a dash ends every run but the last.

### MC modules

The `MC_*` modules declare model values and give the set-valued constants. `MC_LogParser` and `MC_GraphCommand` also define symmetry over player names: names are interchangeable model values.

## Runs

| Run | Expect | What it shows |
|---|---|---|
| `parser_main` (`LogParser_main.cfg`) | pass | Covers both callers, UTC, 2 names, 2 uuids, 5 lines, 4 clock ticks (705k states). Checks that totals equal the sum of sessions (`TotalIsSum`), that no session is negative (`SessionsNonNegative`), and that no join yields two sessions (`SessionsBoundedByJoins`, counted against a history of interpreted joins). |
| `parser_zone` | violation | With a zone east of UTC, the archive and `latest.log` baselines differ and a session becomes negative. |
| `parser_stop` | violation | A player who joined without a UUID line stays online through "Stopping server". |
| `tail_append` (`TailDriver_append.cfg`) | pass | Four lines, two restarts, midnight, and the error exit. The loop refines `Ingest` (`IngestSpec`): the parse state is always an ordered prefix of the written lines, grows by whole runs of them, and under weak fairness of the loop eventually holds them all unless `main` exits. When no event is pending, the parse state holds exactly the lines of the archives and of `latest.log` (`CaughtUp`). Every line is parsed with the baseline of its file's day (`BaselineIsFileDay`). |
| `tail_recover` | pass | A truncation or a rename onto `latest.log`, on one day, with the driver lagging. Handling a shrink yields the snapshot followed by the whole current file (`TruncationRecovers`, spec 8), and no line is parsed twice. |
| `tail_startup` | violation | `main` starts with a non-empty `latest.log`. `prev_size` is still 0, so the first modify re-reads the file. |
| `tail_baseline` | violation | A truncation on a later day than the last commit restores an old `date_tp`, and new lines get the wrong day. |
| `tail_regrow` | violation | `latest.log` is truncated and a line is written before the next poll. The size is not below `prev_size`, so the shrink is missed and the new line is never parsed. |
| `backfill_main` (`Backfill_main.cfg`) | pass | Every directory of up to four of eight entries, with both callers, 20k states. The entries are:<br>- `latest.log`;<br>- a name of another shape;<br>- `1-2.log` and `1-2.log.gz`;<br>- `1-10.log`;<br>- `2-1.log.gz`, which may be corrupt;<br>- an impossible date;<br>- a `.gz` without `.log`.<br>Files have zero or one line. At every step the lines fed to `parse_line` are a prefix of what the reference reads, and all of it once the loop breaks (`ReadsAsSpecified`). |
| `uuid_roundtrip` | pass | Runs of 1-1-1-1-2 digits. The inputs are the text of every uuid whose digits are `0`, `a` or `f`, and every text that differs from one of them in one character: a digit, an upper-case `F`, a dash or `g` (70k states). Every well-formed text is accepted in either case, and the formatter prints the result as that text in lower case (`RoundTrip`). |
| `graph_merge` (`GraphCommand_merge.cfg`) | violation | 2 names, 2 uuids, 5 lines, 3 clock values, 2 invocations. A player whose uuid has no stored entry is online during `/graph`, and `lower_bound` credits the session to the next larger uuid (`GraphCreditsOnline`). |
| `winwatch_overflow` (`FileWatcherWindows_overflow.cfg`) | violation | A one-entry buffer and three changes. A request completes with one change, which is reported. The next request overflows with two changes and completes with 0 bytes. `file_watcher_read` decodes the old buffer again, and the same change is reported twice (`ReportsAreFresh`). |

Every property of a passing run has a mutant in `PROJECT.json`: a plausible bug in the mapped code that TLC shows breaks the property. Examples:
- reading from byte 0 instead of `prev_size`;
- not resetting `prev_size` after a shrink;
- dropping `update_date_tp`;
- a `read()` not bounded by the buffer;
- a batch never refilled;
- a shift one nibble too far;
- a loop one iteration too long;
- a session that keeps its join time;
- a total not accumulated;
- a sequence number compared as text;
- the end of a stream tested one line late.

### Bounds

**Parser.** Five lines over two names and two uuids are enough for:
- a rename (two names, one uuid);
- a join, a stop and a start;
- two files on the same day, which exercise `clear_before`.

`DayLen = 2` and four ticks let a session cross midnight.

**Backfill.** `1-2.log` and `1-2.log.gz` share a base name. `1-10.log` is the name whose numeric and text order differ. The bad date and the `.gz` without `.log` reach the two rejection paths. Four entries at a time already combine a duplicate, a skip and `latest.log`. One line per file is enough: a line only has to be told apart from the other files' lines.

**Driver.**
- Four lines, two rotations and two days let lines lie on both sides of a rename and a midnight.
- `BufEvents = 2` splits a rename's two events across batches.
- `tail_regrow` allows one truncation and three lines: a line before it, one after it, and one spare.
- `DrainedRotation` states the assumption under which `CaughtUp` holds: the server is not restarted while `main` still has events of the old file to handle. No run drops it. When the server is restarted while a modify of the old file is still queued, that modify is handled against the new `latest.log`. The old file's unparsed lines are lost: either it reads the new file from the old offset, or the new file is smaller, the snapshot is restored and the old file's parsed lines are dropped. In the second case the new file is read again by its own create and modify, so it is parsed twice. That case (`main.cpp:447`) is listed as a hazard without a run.

## Findings

`PROJECT.json` lists each finding with its line:
- archive dates are read in UTC (`parse_logs.h:212`);
- players without a uuid are never flushed (`302`);
- `prev_size` is not set at startup (`main.cpp:380`);
- the restored snapshot's baseline is stale (`453`);
- a truncation followed by a write before the poll is missed (`main.cpp:450`);
- `create_graph` credits a first-time online player to another uuid, or throws (`playtime_graph.h:321`);
- the Windows watcher decodes the previous request's buffer again after a zero-byte completion, and reports a change twice (`file_watcher.cpp:165`).

Some gaps found while modelling are in the model but not checked by a run, because the number of runs is kept small:
- the Linux watcher matches names by prefix (`file_watcher.c:158`), so creating `latest.log.bak` resets `prev_size`;
- after `latest.log` is truncated to 0 bytes, the snapshot is restored but `update_player_count` runs only inside `size > prev_size` (`main.cpp:468`), so the announced count stays that of the discarded state until the next join or leave. Under the `tail_recover` bounds, TLC finds this trace in five states: a join is parsed, the file is truncated, and the modify restores the snapshot;
- `/graph` starts its 60 s rate-limit window before `create_graph`, which can throw (`main.cpp:288`). A failed graph therefore still locks every user out for the rest of the window;
- `parse_uuid` accepts a non-hex character anywhere but the first digit of a half (`parse_logs.h:136`). The `uuid_roundtrip` inputs include such texts, but `RoundTrip` only judges the well-formed ones;
- events are handled against the file as it is now, so a modify queued before a restart misses the archived lines (`main.cpp:447`);
- `read_file_cb` reports `paths[path_ind-2]` when a file opens. After a skipped or empty file it names that file, and the file before it is never reported (`parse_logs.h:647`). `Backfill` records the calls, but `main`'s `read_files` is only appended to, so this program is not affected.
- The name filter requires the `-N` that spec 4.2 calls optional (`parse_logs.h:554`). A `1-01` and a `1-1` share a (date, sequence) but not a base name, so both are read. The model's names are those log4j produces.

`PROJECT.json` lists them as hazards with a note.

## Not modelled yet, and the plan

The next modules, in order:
1. **`playtime.cpp`:** the batch report is `LogParser` in batch mode; only its printing is left.

Left out on purpose:
- **Half-written lines.** The model's lines are whole. Partial lines at a read boundary are the spec's open question and need a byte-level file model.
- **`IN_Q_OVERFLOW`.** It needs a full kernel queue, and inotify merges repeated identical events, so the log writer does not fill it.
- **Configuration loading, SVG drawing and Discord I/O.** These contain no state machine. This includes the const `create_graph` overload and `/players`, which only read and format.
- **Concurrent `/graph` handlers.** They need more than one shard; see `GraphCommand`.
