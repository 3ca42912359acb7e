---------------------------- MODULE MetaGateway ----------------------------
(***************************************************************************)
(* The search tool of the meta facade, Gateway._call_search_tools          *)
(* (gateway.py).  The handler walks the backends in registration order;    *)
(* for each it awaits backend.start() and then scans the backend's cached  *)
(* tools with no further await, appending every tool whose name or         *)
(* description contains the query, and breaking out of both loops once     *)
(* len(matches) >= limit.                                                  *)
(*                                                                         *)
(* Backends are the numbers 1..NB in registration order.  What a start()   *)
(* leaves in a backend's cache, and so what get_cached_tools() returns, is *)
(* an input: a sequence of tools of which each either matches the query    *)
(* or does not (TRUE / FALSE).  Whether start() succeeds does not matter   *)
(* to the search, which looks at the cache whatever start() returned.  A  *)
(* match is identified by <<backend, position>>.                           *)
(***************************************************************************)
EXTENDS Integers, Sequences, FiniteSets

CONSTANTS
    NB,         \* number of registered backends
    MaxTools,   \* longest tool list a cache holds
    Limits      \* the values of the 'limit' argument a call may carry

ASSUME MetaAssumption ==
    /\ NB \in Nat \ {0}
    /\ MaxTools \in Nat
    /\ Limits \subseteq Int

VARIABLES
    avail,      \* avail[b]: the match flags of get_cached_tools() of b
    limit,      \* arguments.get("limit", 10)
    next,       \* the backend the for loop is at
    matches,    \* the list being built
    started,    \* the backends on which start() has been called
    done        \* the handler has left the loop

vars == <<avail, limit, next, matches, started, done>>

Backends == 1..NB
ToolLists == UNION {[1..n -> BOOLEAN] : n \in 0..MaxTools}
Match == Backends \X (1..MaxTools)

-----------------------------------------------------------------------------
(* The inner 'for tool in backend.get_cached_tools()' loop over tools t,  *)
(* starting from the list m: scan[k] is the list after k iterations.  A   *)
(* tool is appended if it matches; after each tool, matching or not, the  *)
(* loop breaks if len(matches) >= lim.                                     *)
Scan(b, t, lim, m) ==
    LET scan[k \in 0..Len(t)] ==
            IF k = 0 THEN m
            ELSE IF k > 1 /\ Len(scan[k - 1]) >= lim THEN scan[k - 1]
            ELSE IF t[k] THEN Append(scan[k - 1], <<b, k>>)
            ELSE scan[k - 1]
    IN  scan[Len(t)]

Init ==
    /\ avail \in [Backends -> ToolLists]
    /\ limit \in Limits
    /\ next = 1
    /\ matches = << >>
    /\ started = {}
    /\ done = FALSE

\* Mutant of SearchStep: the outer 'if len(matches) >= limit: break' is
\* missing, so the walk goes on to the next backend after the cap.
SearchStep_NoOuterBreak ==
    /\ ~done
    /\ started' = started \cup {next}
    /\ matches' = Scan(next, avail[next], limit, matches)
    /\ next' = next + 1
    /\ done' = (next = NB)
    /\ UNCHANGED <<avail, limit>>

(* One iteration of the outer loop: 'await backend.start()', the scan of  *)
(* its cache, then the outer break test; the loop also ends after the      *)
(* last backend.                                                           *)
SearchStep ==
    /\ ~done
    /\ started' = started \cup {next}
    /\ matches' = Scan(next, avail[next], limit, matches)
    /\ next' = next + 1
    /\ done' = (Len(matches') >= limit \/ next = NB)
    /\ UNCHANGED <<avail, limit>>

\* The handler has returned its result; nothing is left to do.
Finished ==
    /\ done
    /\ UNCHANGED vars

Next == SearchStep \/ Finished

Spec == Init /\ [][Next]_vars

-----------------------------------------------------------------------------
(* The reference definition of the search, from the spec: the matches in  *)
(* registration order and, within a backend, in list order; the first     *)
(* 'limit' of them; and the backends up to the one where the limit is     *)
(* reached, none at all for a limit of 0.                                  *)
AllMatches == {m \in Match : m[2] \in DOMAIN avail[m[1]] /\ avail[m[1]][m[2]]}
Before(x, y) == x[1] < y[1] \/ (x[1] = y[1] /\ x[2] < y[2])
Rank(x) == Cardinality({y \in AllMatches : Before(y, x)}) + 1
Upto(b) == Cardinality({m \in AllMatches : m[1] <= b})
Wanted == IF limit <= 0 THEN 0
          ELSE IF limit < Cardinality(AllMatches) THEN limit
          ELSE Cardinality(AllMatches)
RefMatches == [n \in 1..Wanted |-> CHOOSE x \in AllMatches : Rank(x) = n]
LastNeeded == IF \E b \in Backends : Upto(b) >= limit
              THEN CHOOSE b \in Backends : Upto(b) >= limit
                                          /\ \A c \in 1..(b - 1) : Upto(c) < limit
              ELSE NB
RefStarted == IF limit <= 0 THEN {} ELSE 1..LastNeeded

\* Types, and the loop index stays within the backends until the loop ends.
TypeOK ==
    /\ avail \in [Backends -> ToolLists]
    /\ limit \in Limits
    /\ next \in 1..(NB + 1)
    /\ done \/ next \in Backends
    /\ matches \in Seq(Match)
    /\ started \subseteq Backends

(* gateway_search_tools as the spec states it (section 7 and scenario 4): *)
(* once the call returns, its matches are the first 'limit' matching      *)
(* tools in registration order, and it has started exactly the backends   *)
(* up to the one that supplied the last match it needed.                  *)
SearchAsSpecified ==
    done => /\ matches = RefMatches
            /\ started = RefStarted

\* Each entry of s is the match whose rank is its index.
Ranked(s) == \A i \in 1..Len(s) : s[i] \in AllMatches /\ Rank(s[i]) = i

\* n, capped at the limit l.
CapAt(n, l) == IF n < l THEN n ELSE l

(* What the call returns when the limit is 0 or less: the code tests the *)
(* limit only after a tool (gateway.py:462), so it starts the first       *)
(* backend, keeps its first tool if that one matches, and breaks.         *)
ZeroLimitMatches == IF <<1, 1>> \in AllMatches THEN << <<1, 1>> >> ELSE << >>

(* What gateway_search_tools returns, for every limit.  For a limit of 1  *)
(* or more it is the spec's result: the first 'limit' matches in          *)
(* registration order, having started exactly the backends up to the one  *)
(* that supplied the last match needed.  For 0 or less it is not the      *)
(* spec's (no match, no start): the first backend is started and its      *)
(* first tool is returned if it matches.                                   *)
SearchResult ==
    done => IF limit >= 1
            THEN /\ matches = RefMatches
                 /\ started = RefStarted
            ELSE /\ matches = ZeroLimitMatches
                 /\ started = {1}

(* The loop invariant for a limit of 1 or more: the list holds matches  *)
(* in rank order, and every backend passed but the last left the count   *)
(* below the limit; while the loop runs it holds all the matches of the  *)
(* backends passed and is below the limit; once it has ended it holds    *)
(* them up to the limit, and it ended because the limit was reached or   *)
(* the backends ran out.                                                 *)
PositiveLimitInv ==
    /\ Ranked(matches)
    /\ \A c \in 1..(next - 2) : Upto(c) < limit
    /\ ~done => /\ Len(matches) = Upto(next - 1)
                /\ Upto(next - 1) < limit
    /\ done => /\ next \in 2..(NB + 1)
               /\ Len(matches) = CapAt(Upto(next - 1), limit)
               /\ Upto(next - 1) >= limit \/ next = NB + 1

(* The loop invariant for a limit of 0 or less: the loop has either not  *)
(* yet begun, or has ended after the first backend.                      *)
NonPositiveLimitInv ==
    /\ ~done => next = 1 /\ matches = << >>
    /\ done => next = 2 /\ matches = ZeroLimitMatches

(* The loop invariant of the search: the backends started are those the  *)
(* loop has passed, and the invariant of the limit's sign holds.  It is  *)
(* SearchResult made inductive.                                          *)
SearchInv ==
    /\ TypeOK
    /\ started = 1..(next - 1)
    /\ limit >= 1 => PositiveLimitInv
    /\ limit < 1 => NonPositiveLimitInv
=============================================================================
