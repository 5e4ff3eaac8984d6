---------------------------- MODULE GraphCommand ----------------------------
(***************************************************************************)
(* The /graph slash command of main.cpp, composed with the live parse     *)
(* state it reads.  The tailing loop of main() feeds lines of latest.log  *)
(* to parse_line while holding parse_data_ctx_mutex; a /graph invocation  *)
(* passes the rate limit, then, holding the same mutex, calls the         *)
(* create_graph overload of playtime_graph.h that makes every player      *)
(* still online leave at system_clock::now() before drawing.  Both        *)
(* critical sections are single steps: the mutex keeps them apart.        *)
(*                                                                         *)
(* log_data_t is a std::map sorted by uuid; its keys are the uuids that   *)
(* have a closed session, since parse_line creates an entry only when it  *)
(* records one.  The drawing of the SVG/PNG is left out: the graph is the *)
(* merged copy of the map it draws.                                       *)
(***************************************************************************)
EXTENDS Integers, Sequences, SequencesExt

CONSTANTS
    Names, Uuids, MaxNow, MaxLines, None,
    Invocations,    \* the /graph interactions Discord delivers
    Window          \* the rate limit, std::chrono::seconds(60), in ticks

VARIABLES
    player_info, server_stopped, data,  \* parse_data_ctx
    iteration,      \* the iteration order of the unordered_map player_info
    now,            \* system_clock
    lines,          \* lines of latest.log parsed so far
    next_tp,        \* graph_command_next_tp
    pc,             \* where each invocation of the handler is
    shown,          \* the graph each invocation replied with
    basis           \* history: the parse state each graph was drawn from

parser == <<player_info, server_stopped, data, iteration>>
vars == <<parser, now, lines, next_tp, pc, shown, basis>>

P == INSTANCE LogParser WITH DayLen <- MaxNow + 1, Zone <- 0, Modes <- {"main"},
         date_tp <- 0, last_tp <- None, clear_before <- FALSE, file <- "latest",
         done <- FALSE, joins <- 0, last_line <- None, mode <- "main"

(***************************************************************************)
(* create_graph(parse_data, parse_ctx): the merge of the players online.  *)
(***************************************************************************)
\* the keys of the std::map log_data_t
Keys(d) == {u \in Uuids : d[u].sessions # <<>>}

\* std::ranges::lower_bound over the vector sorted by uuid: the first key
\* not less than u, or None for end()
LowerBound(d, u) ==
    LET ge == {k \in Keys(d) : k >= u} IN IF ge = {} THEN None ELSE Min(ge)

\* the session of name n, joined at j, leaving at t, added to entry e
Credited(e, n, j, t) ==
    [names    |-> IF e.names = <<>> \/ Last(e.names) # n THEN Append(e.names, n) ELSE e.names,
     sessions |-> Append(e.sessions, <<j, t - j>>),
     total    |-> e.total + (t - j)]

\* one iteration of the loop over parse_ctx.player_info: a player with a
\* uuid and a join time leaves at t, into the entry lower_bound finds; end()
\* throws std::runtime_error (None: no graph)
MergeOne(g, n, t) ==
    LET u == player_info[n].uuid  j == player_info[n].join
    IN IF g = None \/ u = None \/ j = None THEN g
       ELSE IF LowerBound(data, u) = None THEN None
       ELSE [g EXCEPT ![LowerBound(data, u)] = Credited(@, n, j, t)]

\* the copy log_info with every online player merged (the sort by total
\* only orders the bars)
Merged(t) == FoldLeft(LAMBDA g, n : MergeOne(g, n, t), data, iteration)

(***************************************************************************)
(* The tailing loop: parse_lines of new bytes of latest.log, locked.      *)
(***************************************************************************)
ParseLive(l) ==
    /\ lines < MaxLines
    /\ P!SetParser(P!ParseLine(P!ParserState, l, now, FALSE))
    /\ lines' = lines + 1
    /\ UNCHANGED <<iteration, now, next_tp, pc, shown, basis>>

Tick ==
    /\ now < MaxNow
    /\ now' = now + 1
    /\ UNCHANGED <<parser, lines, next_tp, pc, shown, basis>>

(***************************************************************************)
(* The /graph handler.                                                     *)
(***************************************************************************)
\* the rate limit block: a graph at most every Window, otherwise an
\* ephemeral "try again" reply and co_return
RateLimit(h) ==
    /\ pc[h] = "new"
    /\ IF now >= next_tp
         THEN next_tp' = now + Window /\ pc' = [pc EXCEPT ![h] = "graph"]
         ELSE pc' = [pc EXCEPT ![h] = "limited"] /\ UNCHANGED next_tp
    /\ UNCHANGED <<parser, now, lines, shown, basis>>

\* under parse_data_ctx_mutex: create_graph, whose exception ends the
\* coroutine before the reply; otherwise edit_original_response with it
MakeGraph(h) ==
    /\ pc[h] = "graph"
    /\ IF Merged(now) = None
         THEN pc' = [pc EXCEPT ![h] = "failed"] /\ UNCHANGED <<shown, basis>>
         ELSE /\ pc' = [pc EXCEPT ![h] = "replied"]
              /\ shown' = [shown EXCEPT ![h] = Merged(now)]
              /\ basis' = [basis EXCEPT ![h] = [info |-> player_info, data |-> data, at |-> now]]
    /\ UNCHANGED <<parser, now, lines, next_tp>>

Init ==
    /\ player_info = [n \in Names |-> P!NoPlayerInfo]
    /\ server_stopped = FALSE
    /\ data = [u \in Uuids |-> P!NoEntry]
    /\ iteration \in SetToSeqs(Names)
    /\ now = 0 /\ lines = 0
    /\ next_tp = 0
    /\ pc = [h \in Invocations |-> "new"]
    /\ shown = [h \in Invocations |-> None]
    /\ basis = [h \in Invocations |-> None]

Next ==
    \/ \E l \in P!Lines : ParseLive(l)
    \/ Tick
    \/ \E h \in Invocations : RateLimit(h) \/ MakeGraph(h)

Spec == Init /\ [][Next]_vars

-----------------------------------------------------------------------------
\* the session time of the players of uuid u online in parse_ctx b at t
OnlineTime(b, u) ==
    LET on == {n \in Names : b.info[n].uuid = u /\ b.info[n].join # None}
    IN FoldSet(LAMBDA n, a : a + (b.at - b.info[n].join), 0, on)

\* The comment of create_graph: this overload "will ensure currently
\* online players are accounted for".  A graph that is drawn shows, for
\* every player identity, its stored play time plus the time of that
\* identity's players online now, and no one else's.
GraphCreditsOnline ==
    \A h \in Invocations : pc[h] = "replied" =>
        \A u \in Uuids :
            shown[h][u].total = basis[h].data[u].total + OnlineTime(basis[h], u)

=============================================================================
