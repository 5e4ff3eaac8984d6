-------------------------- MODULE FileWatcherLinux --------------------------
(***************************************************************************)
(* The inotify backend of the change watcher (file_watcher.c).  The kernel *)
(* queues one event per directory change; file_watcher_poll reads a batch  *)
(* of up to BufEvents events into read_data when it has consumed the last  *)
(* batch, and turns one event per call into a result:                      *)
(*   state 0  nothing to read,      state 2  read again immediately,       *)
(*   state 1  an event for the watched file (create, create_moved, modify) *)
(*            or a rename of it (moved_to, the new name),                  *)
(*   state -1 an error of epoll_wait, read or strndup.                     *)
(* A rename arrives as IN_MOVED_FROM and IN_MOVED_TO with a shared cookie; *)
(* the watcher keeps the cookie of a MOVED_FROM of the watched name and   *)
(* reports the matching MOVED_TO as one moved_to result.                  *)
(*                                                                         *)
(* File names are model values.  The watcher compares names with         *)
(*   event->len > filename_size && strncmp(name, filename, filename_size)  *)
(* which holds exactly for the names that begin with the watched name:    *)
(* TargetPrefixed is that set (Target itself included).                   *)
(***************************************************************************)
EXTENDS Integers, Sequences

CONSTANTS
    Target,         \* the watched file name, latest.log
    FileNames,      \* every name a directory entry can have
    TargetPrefixed, \* the names that start with the characters of Target
    LogNames,       \* the names that end with ".log"
    BufEvents,      \* events that fit in one read() of read_data
    None

ASSUME Target \in TargetPrefixed /\ TargetPrefixed \subseteq FileNames
ASSUME LogNames \subseteq FileNames /\ BufEvents \in Nat \ {0}

VARIABLES
    queue,      \* the kernel's inotify event queue
    read_data,  \* events read into ctx->read_data and not yet consumed
    cookie      \* ctx->cookie, 0 when no MOVED_FROM is pending

watcher == <<queue, read_data, cookie>>

Masks == {"create", "modify", "moved_from", "moved_to"}
Event(mask, name, c) == [mask |-> mask, name |-> name, cookie |-> c]

Result(state) ==
    [state |-> state, create |-> FALSE, create_moved |-> FALSE,
     modify |-> FALSE, moved_to |-> None]

(***************************************************************************)
(* The kernel side: a directory change queues its events.                 *)
(***************************************************************************)
Notify(evs) == queue' = queue \o evs

(***************************************************************************)
(* file_watcher_poll.                                                      *)
(***************************************************************************)
\* Mutation: a read() not limited by the size of the buffer.
BatchUnbounded == queue

\* read_more_events: the batch read when read_data is consumed
Batch == SubSeq(queue, 1, IF Len(queue) < BufEvents THEN Len(queue) ELSE BufEvents)
\* Mutation: the batch is never read again once read_data is consumed.
AvailableNoRefill == read_data

Available == IF read_data # <<>> THEN read_data ELSE Batch

\* the event the next call reads, if any
NextEvent == Head(Available)

\* strs_eq
NameMatches(ev) == ev.name \in TargetPrefixed

\* The result of the call for the event ev, given the pending cookie.
PollResult(ev) ==
    CASE ev.mask = "moved_to" /\ cookie # 0 /\ cookie = ev.cookie ->
              [Result(1) EXCEPT !.moved_to = ev.name]
      [] ~NameMatches(ev)          -> Result(2)
      [] ev.mask = "moved_from"    -> Result(2)
      [] OTHER ->
              [Result(1) EXCEPT !.create       = (ev.mask = "create"),
                                !.create_moved = (ev.mask = "moved_to"),
                                !.modify       = (ev.mask = "modify")]

\* The cookie after the call for the event ev.
PollCookie(ev) ==
    CASE ev.mask = "moved_to" /\ cookie # 0 /\ cookie = ev.cookie -> 0
      [] ~NameMatches(ev)          -> cookie
      [] ev.mask = "moved_from"    -> ev.cookie
      [] OTHER                     -> 0

\* A call that finds no event: epoll_wait returns 0.
PollIdle ==
    /\ read_data = <<>> /\ queue = <<>>
    /\ UNCHANGED watcher

\* A call that consumes an event, reading a new batch first if needed.
PollEvent ==
    /\ Available # <<>>
    /\ queue' = IF read_data # <<>> THEN queue
                ELSE SubSeq(queue, Len(Batch) + 1, Len(queue))
    /\ read_data' = Tail(Available)
    /\ cookie' = PollCookie(NextEvent)

\* A failing system call: epoll_wait or read when a new batch is read, or
\* strndup for the name of a rename.  The result is state -1.
PollError ==
    /\ IF read_data = <<>> THEN TRUE
       ELSE NextEvent.mask = "moved_to" /\ cookie # 0 /\ cookie = NextEvent.cookie
    /\ UNCHANGED watcher

WatcherInit ==
    /\ queue = <<>>
    /\ read_data = <<>>
    /\ cookie = 0

=============================================================================
