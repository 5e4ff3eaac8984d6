------------------------------ MODULE Backfill ------------------------------
(***************************************************************************)
(* parse_logs of parse_logs.h up to parse_line: the enumeration of the    *)
(* log directory (the extension filter, the name-shape erase_if, the sort  *)
(* by date and sequence number, the unique by base name) and the reading  *)
(* loop over detail::get_next_line, which skips a file whose name date     *)
(* does not parse or whose gzip stream does not decompress, and calls     *)
(* read_file_cb as files change.                                           *)
(*                                                                         *)
(* A file name is a record: its kind (latest.log, an archive shaped        *)
(* yyyy-mm-dd-N, or any other name), the date of its first ten characters *)
(* (text order is date order), the digits of its sequence number and its  *)
(* extension.  A file's contents are its number of non-blank lines, or     *)
(* Corrupt for a .gz that libdeflate rejects.  A line fed to parse_line   *)
(* is the pair of its file and its number; what parse_line does with it    *)
(* is LogParser.                                                           *)
(***************************************************************************)
EXTENDS Integers, Sequences, SequencesExt, FiniteSets

CONSTANTS
    Entries,    \* the directory entries that may exist
    BadDates,   \* dates of digits that from_stream("%4Y-%2m-%2d") rejects
    MaxDir,     \* entries in the directory at most
    MaxLines,   \* non-blank lines of a file at most
    None

\* the contents of a .gz that libdeflate_gzip_decompress rejects
Corrupt == -1

VARIABLES
    skip,       \* the template parameter skip_latest_log
    dir,        \* the entries of logs_dir
    content,    \* what reading each entry gives
    paths,      \* read_ctx.paths after the unique
    path_ind,   \* read_ctx.path_ind
    fin,        \* read_ctx.fin: None, or the lines still to be read
    fed,        \* history: the lines handed to parse_line, in order
    reported,   \* history: the arguments of read_file_cb, in order
    done        \* the loop has broken out

vars == <<skip, dir, content, paths, path_ind, fin, fed, reported, done>>

(***************************************************************************)
(* The enumeration.                                                        *)
(***************************************************************************)
IsGz(f) == f.ext \in {"log.gz", "gz"}

\* the sequence number as from_chars reads its digits
SeqNum(f) == FoldLeft(LAMBDA a, d : 10 * a + d, 0, f.seq)

\* the erase_if predicate inverted: the names that stay
Kept(f, skipLatest) ==
    IF f.kind = "latest" THEN ~skipLatest
    ELSE /\ f.kind = "archive" /\ f.seq # <<>>
         /\ f.ext = IF IsGz(f) THEN "log.gz" ELSE "log"

\* (mutant) the number compared as text, as a comparison of the whole file
\* names would: 1-10 before 1-2
SortLessText(l, r, skipLatest) ==
    LET TextLess(a, b) ==
            \E k \in 0..Len(a) :
                /\ SubSeq(a, 1, k) = SubSeq(b, 1, k)
                /\ \/ k < Len(a) /\ k < Len(b) /\ a[k + 1] < b[k + 1]
                   \/ k = Len(a) /\ k < Len(b)
    IN IF ~skipLatest /\ l.kind = "latest" THEN FALSE
       ELSE IF ~skipLatest /\ r.kind = "latest" THEN TRUE
       ELSE IF l.date # r.date THEN l.date < r.date
       ELSE TextLess(l.seq, r.seq)

\* the sort comparator: latest.log last, then the date, then the number
SortLess(l, r, skipLatest) ==
    IF ~skipLatest /\ l.kind = "latest" THEN FALSE
    ELSE IF ~skipLatest /\ r.kind = "latest" THEN TRUE
    ELSE IF l.date # r.date THEN l.date < r.date
    ELSE SeqNum(l) < SeqNum(r)

\* log_filename_no_ext: the name without .log or .log.gz
Stem(f) == <<f.kind, f.date, f.seq>>

\* std::ranges::unique by base name: an element equal to the one kept
\* before it is dropped
Unique(s) ==
    FoldLeft(LAMBDA u, f : IF u # <<>> /\ Stem(Last(u)) = Stem(f) THEN u ELSE Append(u, f),
             <<>>, s)

\* every read_ctx.paths that the directory listing and std::ranges::sort
\* (which is not stable) can produce
Enumerate(d, skipLatest) ==
    LET listed == {f \in d : f.ext \in {"log", "log.gz", "gz"}}
        kept   == {f \in listed : Kept(f, skipLatest)}
    IN {Unique(s) : s \in {s \in SetToSeqs(kept) :
                              \A i, j \in 1..Len(s) : i < j => ~SortLess(s[j], s[i], skipLatest)}}

(***************************************************************************)
(* detail::get_next_line: the next non-blank line, opening the next path  *)
(* when the current stream is exhausted and skipping the paths whose name *)
(* date is rejected or whose decompression fails.  Returns the line (None *)
(* for the empty string), whether a file was opened, and the new reader   *)
(* state.                                                                  *)
(***************************************************************************)
Skipped(f) ==
    \/ f.kind # "latest" /\ f.date \in BadDates
    \/ IsGz(f) /\ content[f] = Corrupt

RECURSIVE GetNextLine(_)

\* (mutant) the end of the stream tested one line late
GetNextLineReadsPast(c) ==
    IF c.fin # None /\ c.fin >= 0
      THEN [line |-> <<paths[c.ind], content[paths[c.ind]] - c.fin + 1>>, new |-> FALSE,
            ctx |-> [c EXCEPT !.fin = @ - 1]]
    ELSE IF c.ind = Len(paths)
      THEN [line |-> None, new |-> FALSE, ctx |-> c]
    ELSE LET f == paths[c.ind + 1]
             opened == [ind |-> c.ind + 1, fin |-> None]
         IN IF Skipped(f) THEN GetNextLine(opened)
            ELSE [GetNextLine([opened EXCEPT !.fin = content[f]]) EXCEPT !.new = TRUE]

GetNextLine(c) ==
    IF c.fin # None /\ c.fin > 0
      THEN [line |-> <<paths[c.ind], content[paths[c.ind]] - c.fin + 1>>, new |-> FALSE,
            ctx |-> [c EXCEPT !.fin = @ - 1]]
    ELSE IF c.ind = Len(paths)
      THEN [line |-> None, new |-> FALSE, ctx |-> c]
    ELSE LET f == paths[c.ind + 1]
             opened == [ind |-> c.ind + 1, fin |-> None]
         IN IF Skipped(f) THEN GetNextLine(opened)
            ELSE [GetNextLine([opened EXCEPT !.fin = content[f]]) EXCEPT !.new = TRUE]

(***************************************************************************)
(* The while (true) loop of parse_logs.                                    *)
(***************************************************************************)
Init ==
    /\ skip \in BOOLEAN
    /\ dir \in {d \in SUBSET Entries : Cardinality(d) <= MaxDir}
    /\ content \in [dir -> 0..MaxLines \cup {Corrupt}]
    /\ \A f \in dir : content[f] = Corrupt => IsGz(f)
    /\ paths \in Enumerate(dir, skip)
    /\ path_ind = 0 /\ fin = None
    /\ fed = <<>> /\ reported = <<>> /\ done = FALSE

\* one iteration: get_next_line, then either the final read_file_cb and
\* break, or parse_line and read_file_cb of the previous path
Step ==
    /\ ~done
    /\ LET r == GetNextLine([ind |-> path_ind, fin |-> fin])
       IN /\ path_ind' = r.ctx.ind /\ fin' = r.ctx.fin
          /\ IF r.line = None
               THEN /\ done' = TRUE /\ UNCHANGED fed
                    /\ reported' = IF paths # <<>> THEN Append(reported, paths[r.ctx.ind])
                                                   ELSE reported
               ELSE /\ fed' = Append(fed, r.line) /\ UNCHANGED done
                    /\ reported' = IF r.new /\ r.ctx.ind > 1
                                     THEN Append(reported, paths[r.ctx.ind - 1])
                                     ELSE reported
    /\ UNCHANGED <<skip, dir, content, paths>>

\* parse_logs has returned
Terminated == done /\ UNCHANGED vars

Next == Step \/ Terminated

Spec == Init /\ [][Next]_vars

-----------------------------------------------------------------------------
TypeOK ==
    /\ skip \in BOOLEAN /\ dir \subseteq Entries /\ done \in BOOLEAN
    /\ paths \in Seq(dir) /\ path_ind \in 0..Len(paths)
    /\ fin \in {None} \cup 0..MaxLines
    /\ fed \in Seq(Entries \X (1..MaxLines))
    /\ reported \in Seq(Entries)

(***************************************************************************)
(* The reference: what spec 4.2 says the backfill reads.  The accepted    *)
(* names are latest.log (unless skipped) and yyyy-mm-dd-N.log[.gz]; of    *)
(* names with the same date and sequence one is read; they are read by    *)
(* ascending (date, sequence) with latest.log last; a file whose date is  *)
(* not a date or whose stream is corrupt is skipped without ending the    *)
(* run; every non-blank line of the others is fed once, in file order.    *)
(***************************************************************************)
Accepted(f) ==
    \/ f.kind = "latest" /\ ~skip
    \/ f.kind = "archive" /\ f.ext \in {"log", "log.gz"}

SpecKey(f) == IF f.kind = "latest" THEN <<1, 0, 0>> ELSE <<0, f.date, SeqNum(f)>>

KeyLess(l, r) ==
    \/ SpecKey(l)[1] < SpecKey(r)[1]
    \/ SpecKey(l)[1] = SpecKey(r)[1] /\ SpecKey(l)[2] < SpecKey(r)[2]
    \/ SpecKey(l)[1] = SpecKey(r)[1] /\ SpecKey(l)[2] = SpecKey(r)[2]
       /\ SpecKey(l)[3] < SpecKey(r)[3]

\* the orders in which the spec lets the files be read
SpecOrders ==
    LET acc == {f \in dir : Accepted(f)}
        picks == {S \in SUBSET acc :
                    \A f \in acc : Cardinality({g \in S : SpecKey(g) = SpecKey(f)}) = 1}
        Readable(f) == ~(f.kind = "archive" /\ f.date \in BadDates)
                       /\ ~(IsGz(f) /\ content[f] = Corrupt)
    IN {SelectSeq(s, Readable) : s \in {s \in UNION {SetToSeqs(S) : S \in picks} : IsSorted(s, KeyLess)}}

LinesOf(s) == FlattenSeq([i \in 1..Len(s) |-> [k \in 1..content[s[i]] |-> <<s[i], k>>]])

\* Spec 4.2 and 4.4 (Enumerator, Backfill; "decompressing a corrupted .gz
\* archive does not abort enumeration of subsequent files"): the lines
\* parse_logs feeds to parse_line are, at every step, a prefix of the lines
\* of the accepted files, deduplicated, in (date, sequence) order with
\* latest.log last and the unreadable files skipped, and all of them once
\* the loop breaks.
ReadsAsSpecified ==
    \E s \in SpecOrders : IsPrefix(fed, LinesOf(s)) /\ (done => fed = LinesOf(s))

=============================================================================
