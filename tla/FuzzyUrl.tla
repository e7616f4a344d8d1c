------------------------------ MODULE FuzzyUrl ------------------------------
(***************************************************************************)
(* FuzzyUrlMatcher::score, and the search of ReplayScheduler for the       *)
(* waiting event action that resembles a scheduled one most: one step per  *)
(* candidate, in the order of getWaitingNames().                           *)
(*                                                                         *)
(* The candidates are those that agree with the scheduled event action in  *)
(* the type and in the sequence numbers.  A URL is split as QUrl splits    *)
(* it; parent is the event action that set a DOM timer, 0 for the others.  *)
(***************************************************************************)
EXTENDS Integers, Sequences, FiniteSets, SequencesExt

CONSTANTS
    Urls,       \* records [host, path, query, hasQuery, hasFragment]
    Parents,    \* ids of event actions that set DOM timers, and 0
    UINT_MAX,   \* largest unsigned int, the score of equal URLs
    MaxSeen     \* bound: candidates compared in one search

\* Paths start with "/", so their first fragment is the empty string.
IsUrl(u) ==
    /\ DOMAIN u = {"host", "path", "query", "hasQuery", "hasFragment"}
    /\ u.path \in Seq(STRING) /\ Len(u.path) > 0 /\ u.path[1] = ""
    /\ u.query \in Seq(STRING \X STRING)
    /\ u.query # <<>> => u.hasQuery
    /\ u.hasQuery \in BOOLEAN /\ u.hasFragment \in BOOLEAN

\* The scores of URLs that differ stay below half of the range.
ASSUME UrlAssumption ==
    /\ \A u \in Urls : IsUrl(u) /\ 2 * (Len(u.query) + 1) * (Len(u.path) + 1) < UINT_MAX
    /\ Parents \subseteq Nat
    /\ UINT_MAX \in Nat /\ UINT_MAX % 2 = 1
    /\ MaxSeen \in Nat

VARIABLES
    wanted,     \* the scheduled event action [url, parent]
    seen,       \* the candidates compared so far
    best,       \* bestDescriptor, NoMatch at first
    bestScore

searchVars == <<wanted, seen, best, bestScore>>

Candidates == [url : Urls, parent : Parents]
NoUrl == [host |-> "none", path |-> <<"">>, query |-> <<>>, hasQuery |-> FALSE,
          hasFragment |-> FALSE]
NoMatch == [url |-> NoUrl, parent |-> 0]
MISMATCH == 0
MATCH == UINT_MAX

-----------------------------------------------------------------------------
Keys(u) == {u.query[i][1] : i \in 1..Len(u.query)}

\* QUrl::queryItemValue: the first value of the key.
QueryItemValue(u, key) ==
    LET i == CHOOSE i \in 1..Len(u.query) :
               u.query[i][1] = key /\ \A j \in 1..(i - 1) : u.query[j][1] # key
    IN  u.query[i][2]

\* Nothing leads score to return MISMATCH.
Compatible(u, v) ==
    /\ u.host = v.host
    /\ Len(u.path) = Len(v.path)
    /\ u.hasQuery = v.hasQuery
    /\ Len(u.query) = Len(v.query)
    /\ u.hasFragment = v.hasFragment
    /\ Keys(u) \subseteq Keys(v)

MatchingValues(u, v) ==
    {i \in 1..Len(u.query) : u.query[i][2] = QueryItemValue(v, u.query[i][1])}

MatchingFragments(u, v) == {i \in 1..Len(u.path) : u.path[i] = v.path[i]}

\* Mutant: a path fragment weighs no more than the query items together.
PathWeightOffByOne(u) == Len(u.query)

\* scorePath
PathWeight(u) == Len(u.query) + 1

Score(u, v) ==
    IF u = v THEN MATCH
    ELSE IF ~Compatible(u, v) THEN MISMATCH
    ELSE 1 + Cardinality(MatchingValues(u, v))
           + PathWeight(u) * Cardinality(MatchingFragments(u, v))

\* Mutant: the score of the URL is not halved when the parents agree.
CandidateScoreUnhalved(w, c) ==
    IF w.parent = 0 THEN Score(w.url, c.url)
    ELSE IF w.parent = c.parent THEN UINT_MAX \div 2 ELSE Score(w.url, c.url)

\* The score with the bonus for a timer of the same parent.
CandidateScore(w, c) ==
    IF w.parent = 0 THEN Score(w.url, c.url)
    ELSE (Score(w.url, c.url) \div 2) + (IF w.parent = c.parent THEN UINT_MAX \div 2 ELSE 0)

-----------------------------------------------------------------------------
SearchInit ==
    /\ wanted \in Candidates
    /\ seen = <<>>
    /\ best = NoMatch
    /\ bestScore = 0

\* Only a strictly higher score replaces the best candidate so far.
Better(score) == score > bestScore

\* One round of the loop; the names are a set, so none comes twice.
Consider(c) ==
    /\ Len(seen) < MaxSeen
    /\ \A i \in 1..Len(seen) : seen[i] # c
    /\ seen' = Append(seen, c)
    /\ best' = IF Better(CandidateScore(wanted, c)) THEN c ELSE best
    /\ bestScore' = IF Better(CandidateScore(wanted, c))
                    THEN CandidateScore(wanted, c) ELSE bestScore
    /\ UNCHANGED wanted

SearchNext == \E c \in Candidates : Consider(c)

SearchSpec == SearchInit /\ [][SearchNext]_searchVars

-----------------------------------------------------------------------------
(* Properties. *)

\* "This way the query score only decides the winner of URLs with matching
\* paths": unless it equals the URL, the winner matches as many path fragments
\* as any compatible candidate, when no parents are compared.
PathDecides ==
    (wanted.parent = 0 /\ best # NoMatch /\ best.url # wanted.url) =>
        \A i \in 1..Len(seen) :
            Compatible(wanted.url, seen[i].url) =>
                Cardinality(MatchingFragments(wanted.url, seen[i].url))
                    <= Cardinality(MatchingFragments(wanted.url, best.url))

\* A timer of the replayed parent with a compatible URL beats every timer of
\* another parent, the one with exactly the scheduled URL included: the halves
\* of the score range never overlap.
SameParentPreferred ==
    (/\ wanted.parent # 0
     /\ \E i \in 1..Len(seen) : /\ seen[i].parent = wanted.parent
                                /\ Compatible(wanted.url, seen[i].url))
    => best.parent = wanted.parent

=============================================================================
