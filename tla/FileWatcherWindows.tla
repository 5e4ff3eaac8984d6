-------------------------- MODULE FileWatcherWindows --------------------------
(***************************************************************************)
(* file_watcher.cpp: the Windows implementation of file_watcher_poll over *)
(* ReadDirectoryChangesW with an overlapped request, composed with the    *)
(* changes made in the log directory.  The system records the changes of  *)
(* the directory handle from the first ReadDirectoryChangesW on; before it *)
(* nothing is recorded.  An outstanding request completes with those      *)
(* recorded so far, or, when they no longer fit in the request's buffer,  *)
(* with zero bytes and the recorded changes are discarded.                *)
(*                                                                         *)
(* A FILE_NOTIFY_INFORMATION entry is a record of its Action and          *)
(* FileName; offsets count entries instead of bytes.  Every change also   *)
(* carries an id, the order in which it was made, which exists only to    *)
(* state the property.  WideCharToMultiByte is not modelled failing: the  *)
(* names of the log directory are valid UTF-16.                           *)
(***************************************************************************)
EXTENDS Integers, Sequences

CONSTANTS
    Target,         \* latest.log
    FileNames,      \* names in the log directory, Target among them
    BufEntries,     \* entries that fit in file_watcher_buf_size bytes
    MaxChanges,     \* changes made in total
    None

ASSUME Target \in FileNames /\ BufEntries \in Nat \ {0}

Actions == {"added", "removed", "modified", "old_name", "new_name"}

VARIABLES
    changes,            \* recorded for the handle, not yet delivered
    read_data,          \* the buffer: entries of the last completed request
    read_data_offset,   \* ctx->read_data_offset
    read_data_size,     \* ctx->read_data_size
    has_cur_request,    \* ctx->has_cur_request
    watching,           \* ReadDirectoryChangesW was called on the handle
    moved,              \* ctx->moved
    made,               \* changes made so far
    reported,           \* history: ids of the entries reported as state 1
    halted              \* a poll returned -1 and main exited

vars == <<changes, read_data, read_data_offset, read_data_size, has_cur_request,
          watching, moved, made, reported, halted>>

Result(state) ==
    [state |-> state, create |-> FALSE, create_moved |-> FALSE, modify |-> FALSE,
     moved_to |-> None]

(***************************************************************************)
(* The log directory.                                                      *)
(***************************************************************************)
\* the changes the handle records: none before the first request
Record(es) == IF watching THEN changes \o es ELSE changes

\* a file is created, written or deleted
Change(action, name) ==
    /\ made < MaxChanges
    /\ changes' = Record(<<[action |-> action, name |-> name, id |-> made + 1]>>)
    /\ made' = made + 1
    /\ UNCHANGED <<read_data, read_data_offset, read_data_size, has_cur_request,
                   watching, moved, reported, halted>>

\* a file of the directory is renamed within it: two entries
Rename(old, new) ==
    /\ made + 2 <= MaxChanges
    /\ changes' = Record(<<[action |-> "old_name", name |-> old, id |-> made + 1],
                           [action |-> "new_name", name |-> new, id |-> made + 2]>>)
    /\ made' = made + 2
    /\ UNCHANGED <<read_data, read_data_offset, read_data_size, has_cur_request,
                   watching, moved, reported, halted>>

(***************************************************************************)
(* file_watcher_poll.                                                      *)
(***************************************************************************)
\* file_watcher_read on the entry at the offset, in buffer b of size sz: the
\* result, and the new offset and moved flag.  An entry past what was ever
\* written to the _aligned_malloc buffer is indeterminate: any entry.
ReadEntry(info, b, off, sz) ==
    LET nextOff == IF off + 1 >= Len(b) THEN sz ELSE off + 1  \* NextEntryOffset == 0
        isTarget == info.name = Target
        r == CASE info.action = "new_name" /\ moved ->
                    [Result(1) EXCEPT !.moved_to = info.name]
               [] ~isTarget \/ info.action = "old_name" -> Result(2)
               [] info.action = "added"    -> [Result(1) EXCEPT !.create = TRUE]
               [] info.action = "new_name" -> [Result(1) EXCEPT !.create_moved = TRUE]
               [] info.action = "modified" -> [Result(1) EXCEPT !.modify = TRUE]
               [] OTHER -> Result(2)
        m == IF info.action = "new_name" /\ moved THEN moved
             ELSE isTarget /\ info.action = "old_name"
    IN [result |-> r, offset |-> nextOff, moved |-> m]

Entries(b, off) == IF off < Len(b) THEN {b[off + 1]} ELSE [action : Actions, name : FileNames, id : {0}]

\* file_watcher_read applied to buffer b of size sz, from offset off
Read(b, off, sz) ==
    \E info \in Entries(b, off) :
        LET e == ReadEntry(info, b, off, sz)
        IN /\ read_data' = b /\ read_data_size' = sz
           /\ read_data_offset' = e.offset
           /\ moved' = e.moved
           /\ reported' = IF e.result.state = 1 THEN Append(reported, info.id) ELSE reported

\* entries of the previous request are still unread
PollBuffered ==
    /\ ~halted /\ read_data_offset < read_data_size
    /\ Read(read_data, read_data_offset, read_data_size)
    /\ UNCHANGED <<changes, has_cur_request, watching, made, halted>>

\* a request is issued if none is outstanding; GetOverlappedResult reports
\* ERROR_IO_INCOMPLETE: state 0
PollIncomplete ==
    /\ ~halted /\ read_data_offset >= read_data_size
    /\ changes = <<>>
    /\ has_cur_request' = TRUE /\ watching' = TRUE
    /\ UNCHANGED <<changes, read_data, read_data_offset, read_data_size, moved,
                   made, reported, halted>>

\* the request completed with the first k recorded changes
PollCompleted ==
    /\ ~halted /\ read_data_offset >= read_data_size
    /\ \E k \in 1..Len(changes) :
          /\ k <= BufEntries
          /\ changes' = SubSeq(changes, k + 1, Len(changes))
          /\ Read(SubSeq(changes, 1, k), 0, k)
    /\ has_cur_request' = FALSE
    /\ UNCHANGED <<watching, made, halted>>

\* the recorded changes overflowed the buffer: bytes_transferred is 0, the
\* offset and size become 0 and file_watcher_read reads the buffer as the
\* previous request left it
PollOverflow ==
    /\ ~halted /\ read_data_offset >= read_data_size
    /\ Len(changes) > BufEntries
    /\ changes' = <<>>
    /\ Read(read_data, 0, 0)
    /\ has_cur_request' = FALSE
    /\ UNCHANGED <<watching, made, halted>>

\* ReadDirectoryChangesW or GetOverlappedResult fails: state -1
PollFails ==
    /\ ~halted /\ read_data_offset >= read_data_size
    /\ halted' = TRUE
    /\ UNCHANGED <<changes, read_data, read_data_offset, read_data_size,
                   has_cur_request, watching, moved, made, reported>>

Init ==
    /\ changes = <<>>
    /\ read_data = <<>>
    /\ read_data_offset = 0 /\ read_data_size = 0
    /\ has_cur_request = FALSE /\ watching = FALSE /\ moved = FALSE
    /\ made = 0 /\ reported = <<>>
    /\ halted = FALSE

Next ==
    \/ \E a \in {"added", "removed", "modified"}, n \in FileNames : Change(a, n)
    \/ \E o, n \in FileNames : o # n /\ Rename(o, n)
    \/ PollBuffered \/ PollIncomplete \/ PollCompleted \/ PollOverflow \/ PollFails
    \/ halted /\ UNCHANGED vars

Spec == Init /\ [][Next]_vars

-----------------------------------------------------------------------------
\* Spec 4.1: a FileEvent describes a change of the directory that happened
\* since the previous one: of the changes made in the directory, those that
\* poll reports as events of latest.log come in the order made, each once
\* (file_watcher_poll, "successfully read data").  Entries decoded from
\* never-written memory (id 0) are not changes and are left aside.
ReportsAreFresh ==
    LET ids == SelectSeq(reported, LAMBDA id : id # 0)
    IN \A i \in 1..Len(ids) : i > 1 => ids[i - 1] < ids[i]

=============================================================================
