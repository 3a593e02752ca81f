-------------------------- MODULE SkillRetrieval --------------------------
(***************************************************************************)
(* Keyword retrieval of internal/services/skill_registry.go: the score of  *)
(* a skill for a query, the threshold, the insertion sort and the cut.     *)
(* Texts are sequences of tokens, what tokenize leaves of them.            *)
(*                                                                         *)
(* computeRelevanceScore returns                                           *)
(*     0.6 * matched / q + 0.4 * weight / q,     q the tokens of the query *)
(* All scores of a query share q, so they are kept as points, 10^4 * q     *)
(* times the score, with logarithms in thousandths.                        *)
(***************************************************************************)
EXTENDS Integers, SequencesExt

CONSTANTS
  Skills,      \* skill identifiers
  Tokens,      \* what texts and queries consist of
  Text,        \* skill -> the tokens of its name, description, category, keywords
  Overlaps,    \* pairs of different tokens one of which contains the other
  LogWeight,   \* 1000 * (1 + ln f), for the frequencies f the texts have
  Threshold,   \* scoreThreshold, in ten-thousandths
  MaxResults   \* maxResults

Frequency(token, s) == Cardinality({i \in DOMAIN Text[s] : Text[s][i] = token})

ASSUME RetrievalAssumption ==
  /\ IsFiniteSet(Skills)
  /\ Text \in [Skills -> Seq(Tokens)]
  /\ LogWeight \in Seq(Nat)
  /\ \A s \in Skills, t \in Tokens : Frequency(t, s) <= Len(LogWeight)
  /\ Threshold \in Nat \ {0}
  /\ MaxResults \in Nat \ {0}

\* What a token of the query can add to totalWeight, in half-thousandths; the
\* empty set says it matches nothing.  A token the text does not have counts
\* half, with the frequency of whichever overlapping token the iteration over
\* the map meets first.
Weights(token, s) ==
  IF Frequency(token, s) > 0
  THEN {2 * LogWeight[Frequency(token, s)]}
  ELSE {LogWeight[Frequency(t, s)] :
          t \in {u \in ToSet(Text[s]) :
                   <<token, u>> \in Overlaps \/ <<u, token>> \in Overlaps}}

\* The points after one more token of the query, one of weights its weight.
AddToken(points, weights) ==
  IF weights = {} THEN points
  ELSE {p + 6000 + 2 * w : p \in points, w \in weights}

\* The points computeRelevanceScore can return for a query and a skill: the
\* loop over the tokens of the query, with every choice of Weights.
PossiblePoints(query, s) ==
  LET after[i \in 0..Len(query)] ==
        IF i = 0 THEN {0} ELSE AddToken(after[i - 1], Weights(query[i], s))
  IN  after[Len(query)]

Enough(query) == Threshold * Len(query)

\* Faulty variant of InsertByScore.
InsertAscending(sorted, x) ==
  LET stop == CHOOSE n \in 0..Len(sorted) :
                /\ n = 0 \/ sorted[n].points <= x.points
                /\ \A i \in n + 1..Len(sorted) : sorted[i].points > x.points
  IN  SubSeq(sorted, 1, stop) \o <<x>> \o SubSeq(sorted, stop + 1, Len(sorted))

\* One round of sortRetrievalResults: x moves left past every smaller score
\* and stops at the first one, seen from the right, that is not smaller.
InsertByScore(sorted, x) ==
  LET stop == CHOOSE n \in 0..Len(sorted) :
                /\ n = 0 \/ sorted[n].points >= x.points
                /\ \A i \in n + 1..Len(sorted) : sorted[i].points < x.points
  IN  SubSeq(sorted, 1, stop) \o <<x>> \o SubSeq(sorted, stop + 1, Len(sorted))

\* The outer loop: after round i the first i results are sorted.
SortResults(results) ==
  LET sorted[i \in 0..Len(results)] ==
        IF i = 0 THEN <<>> ELSE InsertByScore(sorted[i - 1], results[i])
  IN  sorted[Len(results)]

Scored(index, f) == [i \in DOMAIN index |-> [skill |-> index[i], points |-> f[index[i]]]]

\* The loop over the index: what reaches the threshold is appended.
AboveThreshold(scored, query) ==
  LET kept[i \in 0..Len(scored)] ==
        IF i = 0 THEN <<>>
        ELSE IF scored[i].points >= Enough(query) THEN Append(kept[i - 1], scored[i])
        ELSE kept[i - 1]
  IN  kept[Len(scored)]

Cut(results) ==
  SubSeq(results, 1, IF Len(results) > MaxResults THEN MaxResults ELSE Len(results))

\* The scores computeRelevanceScore can give the skills.
Scorings(query, skills) ==
  {f \in [skills -> UNION {PossiblePoints(query, s) : s \in skills}] :
     \A s \in skills : f[s] \in PossiblePoints(query, s)}

\* The results of RetrieveSkills over a registry of skills.  The index is
\* rebuilt from a map, so the skills come in any order.
Retrievals(query, skills) ==
  IF query = <<>> THEN {<<>>}
  ELSE {Cut(SortResults(AboveThreshold(Scored(index, f), query))) :
          index \in SetToSeqs(skills), f \in Scorings(query, skills)}

-----------------------------------------------------------------------------
\* What a retrieval promises, without saying how it is computed: nothing for a
\* query without tokens; otherwise no skill twice, each one registered and
\* above the threshold, best first, and a skill is left out only if it can miss
\* the threshold or if the list is full of skills that are no worse.
BestFirst(results) ==
  \A i, j \in DOMAIN results :
    i < j => /\ results[i].skill # results[j].skill
             /\ results[i].points >= results[j].points

IsEarned(result, query, skills) ==
  /\ result.skill \in skills
  /\ result.points \in PossiblePoints(query, result.skill)
  /\ result.points >= Enough(query)

\* Whether s has a score that explains its absence from the results.
IsOutdone(s, results, query) ==
  \E points \in PossiblePoints(query, s) :
    \/ points < Enough(query)
    \/ /\ Len(results) = MaxResults
       /\ points <= results[MaxResults].points

IsBestMatches(results, query, skills) ==
  IF query = <<>> THEN results = <<>>
  ELSE /\ Len(results) <= MaxResults
       /\ BestFirst(results)
       /\ \A i \in DOMAIN results : IsEarned(results[i], query, skills)
       /\ \A s \in skills \ {results[i].skill : i \in DOMAIN results} :
            IsOutdone(s, results, query)
=============================================================================
