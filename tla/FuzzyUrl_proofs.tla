--------------------------- MODULE FuzzyUrl_proofs ---------------------------
(***************************************************************************)
(* Theorems about the fuzzy search, for every set of URLs, every number of *)
(* candidates and every width of the score.                                *)
(***************************************************************************)
EXTENDS FuzzyUrl, FiniteSetTheorems, SequenceTheorems, TLAPS

\* A product keeps the order of its factors.
LEMMA ProductMonotone ==
    ASSUME NEW w \in Nat, NEW a \in Nat, NEW b \in Nat, a <= b
    PROVE  w * a <= w * b
<1>1. PICK d \in Nat : b = a + d
  <2>1. b - a \in Nat /\ b = a + (b - a)
    OBVIOUS
  <2> QED BY <2>1
<1>2. w * b = w * a + w * d /\ w * d >= 0 /\ w * a \in Nat /\ w * d \in Nat
  BY <1>1
<1> QED BY <1>2

\* Sets of indices are finite and no larger than the sequence.
LEMMA IndicesBounded ==
    ASSUME NEW n \in Nat, NEW S \in SUBSET (1..n)
    PROVE  IsFiniteSet(S) /\ Cardinality(S) \in Nat /\ Cardinality(S) <= n
<1>1. IsFiniteSet(1..n) /\ Cardinality(1..n) = n
  <2>1. /\ IsFiniteSet(1..n)
        /\ Cardinality(1..n) = IF 1 > n THEN 0 ELSE n - 1 + 1
    BY FS_Interval
  <2> QED BY <2>1
<1>2. IsFiniteSet(S) /\ Cardinality(S) <= n
  BY <1>1, FS_Subset
<1> QED BY <1>2, FS_CardinalityType

\* What is known of two compatible URLs that differ: the score is made of the
\* matching values, fewer than the weight, and the weighted matching fragments,
\* of which there is at least the empty one in front of the first slash.
LEMMA CompatibleScore ==
    ASSUME NEW u \in Urls, NEW v \in Urls, Compatible(u, v)
    PROVE  LET f == Cardinality(MatchingFragments(u, v))
               m == Cardinality(MatchingValues(u, v))
           IN  /\ f \in Nat /\ f >= 1 /\ f <= Len(u.path)
               /\ m \in Nat /\ m < PathWeight(u)
               /\ Len(u.path) \in Nat /\ PathWeight(u) \in Nat /\ PathWeight(u) >= 1
               /\ 2 * PathWeight(u) * (Len(u.path) + 1) < UINT_MAX
               /\ u # v => Score(u, v) = 1 + m + PathWeight(u) * f
<1>1. /\ IsUrl(u) /\ IsUrl(v) /\ UINT_MAX \in Nat
      /\ 2 * (Len(u.query) + 1) * (Len(u.path) + 1) < UINT_MAX
  BY UrlAssumption
<1>2. /\ u.path \in Seq(STRING) /\ u.query \in Seq(STRING \X STRING) /\ Len(u.path) > 0
      /\ u.path[1] = "" /\ v.path[1] = ""
  BY <1>1 DEF IsUrl
<1>3. Len(u.path) \in Nat /\ Len(u.query) \in Nat
  BY <1>2, LenProperties
<1> DEFINE F == MatchingFragments(u, v)
           V == MatchingValues(u, v)
<1>4. F \in SUBSET (1..Len(u.path)) /\ 1 \in F
  <2>1. Len(u.path) > 0
    BY <1>2
  <2>2. 1 \in 1..Len(u.path)
    BY <1>3, <2>1
  <2>3. u.path[1] = v.path[1]
    BY <1>2, Zenon
  <2> QED BY <2>2, <2>3 DEF MatchingFragments
<1>5. V \in SUBSET (1..Len(u.query))
  BY DEF MatchingValues
<1> HIDE DEF F, V
<1>6. /\ IsFiniteSet(F) /\ Cardinality(F) \in Nat /\ Cardinality(F) <= Len(u.path)
      /\ Cardinality(V) \in Nat /\ Cardinality(V) <= Len(u.query)
  BY <1>3, <1>4, <1>5, IndicesBounded
<1>7. Cardinality(F) >= 1
  <2>1. Cardinality(F) # 0
    BY <1>4, <1>6, FS_EmptySet
  <2> QED BY <1>6, <2>1
<1>8. u # v => Score(u, v) = 1 + Cardinality(V) + PathWeight(u) * Cardinality(F)
  BY DEF Score, F, V
<1>9. PathWeight(u) = Len(u.query) + 1
  BY DEF PathWeight
<1>10. PathWeight(u) \in Nat /\ PathWeight(u) >= 1 /\ Cardinality(V) < PathWeight(u)
  BY <1>3, <1>6, <1>9
<1>11. 2 * PathWeight(u) * (Len(u.path) + 1) < UINT_MAX
  BY <1>1, <1>9
<1> QED BY <1>3, <1>6, <1>7, <1>8, <1>10, <1>11 DEF F, V

\* Scores of URLs that differ stay below half of the range.
LEMMA ScoreRange ==
    ASSUME NEW u \in Urls, NEW v \in Urls
    PROVE  /\ Score(u, v) \in 0..UINT_MAX
           /\ u # v => 2 * Score(u, v) < UINT_MAX
           /\ Compatible(u, v) => Score(u, v) >= 2
<1>0. UINT_MAX \in Nat
  BY UrlAssumption
<1>1. CASE ~Compatible(u, v)
  <2>1. u # v
    BY <1>1 DEF Compatible
  <2>2. Score(u, v) = 0
    BY <1>1, <2>1 DEF Score, MISMATCH
  <2>3. UINT_MAX > 0
    BY UrlAssumption
  <2> QED BY <1>0, <1>1, <2>2, <2>3
<1>2. CASE Compatible(u, v)
  <2> DEFINE f == Cardinality(MatchingFragments(u, v))
             m == Cardinality(MatchingValues(u, v))
             w == PathWeight(u)
             p == Len(u.path)
  <2>1. /\ f \in Nat /\ f >= 1 /\ f <= p /\ m \in Nat /\ m < w
        /\ p \in Nat /\ w \in Nat /\ w >= 1 /\ 2 * w * (p + 1) < UINT_MAX
        /\ u # v => Score(u, v) = 1 + m + w * f
    BY <1>2, CompatibleScore
  <2>2. u = v => Score(u, v) = UINT_MAX
    BY DEF Score, MATCH
  <2> HIDE DEF f, m, w, p
  <2>3. w * f \in Nat /\ w * f <= w * p /\ w * 1 <= w * f /\ w * p \in Nat
    BY <2>1, ProductMonotone
  <2>4. w * (p + 1) = w * p + w /\ 2 * w * (p + 1) = 2 * (w * p + w)
    BY <2>1
  <2>5. 2 * (1 + m + w * f) < UINT_MAX /\ 1 + m + w * f >= 2
    BY <1>0, <2>1, <2>3, <2>4
  <2>6. UINT_MAX >= 2
    BY <1>0, <2>1, <2>3, <2>5
  <2> QED BY <1>0, <1>2, <2>1, <2>2, <2>3, <2>5, <2>6
<1> QED BY <1>1, <1>2

-----------------------------------------------------------------------------
(* The search. *)

\* The best score so far bounds those of all candidates seen, and belongs to the
\* best candidate as soon as there is one.
SearchInv ==
    /\ wanted \in Candidates /\ seen \in Seq(Candidates) /\ bestScore \in Nat
    /\ \A i \in 1..Len(seen) : CandidateScore(wanted, seen[i]) <= bestScore
    /\ IF bestScore = 0 THEN best = NoMatch
       ELSE best \in Candidates /\ bestScore = CandidateScore(wanted, best)

LEMMA CandidateScoreType ==
    ASSUME NEW w \in Candidates, NEW c \in Candidates
    PROVE  CandidateScore(w, c) \in Nat
<1>1. w.url \in Urls /\ c.url \in Urls /\ UINT_MAX \in Nat
  BY UrlAssumption DEF Candidates
<1>2. Score(w.url, c.url) \in Nat
  BY <1>1, ScoreRange
<1> QED BY <1>1, <1>2 DEF CandidateScore

LEMMA SearchStep == ASSUME SearchInv, [SearchNext]_searchVars PROVE SearchInv'
<1>1. ASSUME NEW c \in Candidates, Consider(c) PROVE SearchInv'
  <2>0. /\ wanted \in Candidates /\ seen \in Seq(Candidates) /\ Len(seen) \in Nat
        /\ bestScore \in Nat /\ wanted' = wanted /\ seen' = Append(seen, c)
    BY <1>1 DEF SearchInv, Consider
  <2>1. /\ seen' \in Seq(Candidates) /\ Len(seen') = Len(seen) + 1
        /\ \A i \in 1..Len(seen) : seen'[i] = seen[i]
        /\ seen'[Len(seen) + 1] = c
    BY <2>0, AppendProperties
  <2> DEFINE score(x) == CandidateScore(wanted, x)
  <2>2. score(c) \in Nat
    BY <2>0, CandidateScoreType
  <2>3. /\ best' = IF score(c) > bestScore THEN c ELSE best
        /\ bestScore' = IF score(c) > bestScore THEN score(c) ELSE bestScore
    BY <1>1 DEF Consider, Better
  <2>4. \A i \in 1..Len(seen) : score(seen[i]) \in Nat
    <3>1. \A i \in 1..Len(seen) : seen[i] \in Candidates
      BY <2>0
    <3>2. \A x \in Candidates : CandidateScore(wanted, x) \in Nat
      BY <2>0, CandidateScoreType
    <3> QED BY <3>1, <3>2
  <2>5. \A x : CandidateScore(wanted', x) = score(x)
    BY <2>0
  <2> HIDE DEF score
  <2>6. bestScore' \in Nat
    BY <2>0, <2>2, <2>3
  <2>7. \A i \in 1..Len(seen') : score(seen'[i]) <= bestScore'
    <3> SUFFICES ASSUME NEW i \in 1..Len(seen') PROVE score(seen'[i]) <= bestScore'
      OBVIOUS
    <3>1. CASE i = Len(seen) + 1
      BY <2>0, <2>1, <2>2, <2>3, <3>1
    <3>2. CASE i \in 1..Len(seen)
      <4>1. score(seen[i]) <= bestScore
        BY <3>2 DEF SearchInv, score
      <4> QED BY <2>0, <2>1, <2>2, <2>3, <2>4, <3>2, <4>1
    <3> QED BY <2>0, <2>1, <3>1, <3>2
  <2>8. IF bestScore' = 0 THEN best' = NoMatch
        ELSE best' \in Candidates /\ bestScore' = score(best')
    <3>1. IF bestScore = 0 THEN best = NoMatch
          ELSE best \in Candidates /\ bestScore = score(best)
      BY DEF SearchInv, score
    <3> QED BY <2>0, <2>2, <2>3, <3>1
  <2> QED BY <2>0, <2>1, <2>6, <2>7, <2>8 DEF SearchInv, score
<1>2. CASE UNCHANGED searchVars
  BY <1>2 DEF SearchInv, searchVars
<1> QED BY <1>1, <1>2 DEF SearchNext

LEMMA SearchAlways == SearchSpec => []SearchInv
<1>1. SearchInit => SearchInv
  BY DEF SearchInit, SearchInv
<1>2. SearchInv /\ [SearchNext]_searchVars => SearchInv'
  BY SearchStep
<1> QED BY <1>1, <1>2, PTL DEF SearchSpec

\* Two scores compare as their fragment counts do when those differ.
LEMMA WeightDecides ==
    ASSUME NEW w \in Nat, NEW f \in Nat, NEW g \in Nat, NEW m \in Nat, NEW n \in Nat,
           n < w, 1 + m + w * f <= 1 + n + w * g
    PROVE  f <= g
<1> SUFFICES ASSUME ~(f <= g) PROVE FALSE
  OBVIOUS
<1>1. g + 1 <= f /\ g + 1 \in Nat
  OBVIOUS
<1>2. w * (g + 1) <= w * f
  BY <1>1, ProductMonotone
<1>3. w * (g + 1) = w * g + w /\ w * g \in Nat /\ w * f \in Nat
  OBVIOUS
<1> QED BY <1>2, <1>3

LEMMA PathDecidesFromInv == ASSUME SearchInv PROVE PathDecides
<1> SUFFICES ASSUME wanted.parent = 0, best # NoMatch, best.url # wanted.url,
                    NEW i \in 1..Len(seen), Compatible(wanted.url, seen[i].url)
             PROVE  Cardinality(MatchingFragments(wanted.url, seen[i].url))
                        <= Cardinality(MatchingFragments(wanted.url, best.url))
  BY DEF PathDecides
<1>1. /\ wanted \in Candidates /\ best \in Candidates /\ seen[i] \in Candidates
      /\ bestScore # 0 /\ bestScore \in Nat
      /\ CandidateScore(wanted, seen[i]) <= bestScore
      /\ bestScore = CandidateScore(wanted, best)
  BY DEF SearchInv
<1> DEFINE u == wanted.url
           v == best.url
           x == seen[i].url
<1>2. u \in Urls /\ v \in Urls /\ x \in Urls
  BY <1>1 DEF Candidates
<1>3. bestScore = Score(u, v) /\ Score(u, x) <= Score(u, v)
  BY <1>1 DEF CandidateScore
<1>4. Compatible(u, v)
  BY <1>1, <1>3 DEF Score, MISMATCH
<1> HIDE DEF u, v, x
<1>5. u # x
  <2> SUFFICES ASSUME u = x PROVE FALSE
    OBVIOUS
  <2>1. Score(u, x) = UINT_MAX
    BY DEF Score, MATCH
  <2>2. 2 * Score(u, v) < UINT_MAX /\ Score(u, v) \in Nat /\ UINT_MAX \in Nat
    BY <1>2, ScoreRange, UrlAssumption DEF u, v
  <2> QED BY <1>3, <2>1, <2>2
<1> DEFINE f == Cardinality(MatchingFragments(u, x))
           g == Cardinality(MatchingFragments(u, v))
           m == Cardinality(MatchingValues(u, x))
           n == Cardinality(MatchingValues(u, v))
           w == PathWeight(u)
<1>6. f \in Nat /\ m \in Nat /\ Score(u, x) = 1 + m + w * f /\ w \in Nat
  BY <1>2, <1>5, CompatibleScore DEF u, x
<1>7. g \in Nat /\ n \in Nat /\ n < w /\ Score(u, v) = 1 + n + w * g
  BY <1>2, <1>4, CompatibleScore DEF u, v
<1> HIDE DEF f, g, m, n, w
<1>8. f <= g
  BY <1>3, <1>6, <1>7, WeightDecides, ZenonT(60)
<1> QED BY <1>8 DEF f, g, u, v, x

\* The claim of FuzzyUrlMatcher's comment, for every set of URLs: the query only
\* decides between URLs whose paths match equally well.
THEOREM PathAlwaysDecides == SearchSpec => []PathDecides
<1>1. SearchInv => PathDecides
  BY PathDecidesFromInv
<1> QED BY <1>1, SearchAlways, PTL

LEMMA SameParentFromInv == ASSUME SearchInv PROVE SameParentPreferred
<1> SUFFICES ASSUME wanted.parent # 0,
                    NEW i \in 1..Len(seen), seen[i].parent = wanted.parent,
                    Compatible(wanted.url, seen[i].url)
             PROVE  best.parent = wanted.parent
  BY DEF SameParentPreferred
<1>0. UINT_MAX \in Nat
  BY UrlAssumption
<1> DEFINE half == UINT_MAX \div 2
<1>1. /\ wanted \in Candidates /\ seen[i] \in Candidates
      /\ bestScore \in Nat /\ CandidateScore(wanted, seen[i]) <= bestScore
      /\ bestScore # 0 => best \in Candidates /\ bestScore = CandidateScore(wanted, best)
  BY DEF SearchInv
<1>2. wanted.url \in Urls /\ seen[i].url \in Urls
  BY <1>1 DEF Candidates
<1>3. Score(wanted.url, seen[i].url) \in Nat /\ Score(wanted.url, seen[i].url) >= 2
  BY <1>2, ScoreRange
<1>4. CandidateScore(wanted, seen[i]) >= half + 1 /\ half \in Nat
  BY <1>0, <1>3 DEF CandidateScore
<1>5. CandidateScore(wanted, seen[i]) \in Nat
  BY <1>1, CandidateScoreType
<1>6. bestScore >= half + 1 /\ bestScore # 0
  BY <1>1, <1>4, <1>5
<1>7. best \in Candidates /\ bestScore = CandidateScore(wanted, best)
  BY <1>1, <1>6
<1>8. Score(wanted.url, best.url) \in 0..UINT_MAX
  BY <1>2, <1>7, ScoreRange DEF Candidates
<1>9. best.parent # wanted.parent => bestScore <= half
  BY <1>0, <1>7, <1>8 DEF CandidateScore
<1> QED BY <1>1, <1>4, <1>6, <1>9

\* A compatible timer of the replayed parent always wins over a timer of another
\* parent: rounding never lets the two halves of the score range meet.
THEOREM SameParentWins == SearchSpec => []SameParentPreferred
<1>1. SearchInv => SameParentPreferred
  BY SameParentFromInv
<1> QED BY <1>1, SearchAlways, PTL
=============================================================================
