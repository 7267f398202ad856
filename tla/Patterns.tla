------------------------------- MODULE Patterns -------------------------------
(***************************************************************************)
(* Secret identifiers and patterns (x/secrets/identifiers.go, pattern.go). *)
(* Both are sequences of components; split is the only reader of their     *)
(* text, so text is left out.  The module evaluates Match, Includes,       *)
(* Filter and ExpandPattern on every small input and compares them with    *)
(* the language of a pattern: the identifiers that "*" as one component    *)
(* and "**" as any number of them describe.                                *)
(***************************************************************************)
EXTENDS Integers, Sequences, SequencesExt

CONSTANTS
  Literal,   \* the literal components patterns use
  Other,     \* components only identifiers have
  MaxParts,  \* bound: components of a pattern
  MaxPath    \* bound: components of an identifier

Star == "*"
Glob == "**"

ASSUME PatternsAssumption ==
  /\ MaxParts \in Nat \ {0} /\ MaxPath \in Nat \ {0}
  /\ {Star, Glob} \cap (Literal \cup Other) = {}

\* What ParsePattern and ParseID accept: one component or more, none empty; a
\* wildcard is a whole component, and an identifier has none.
PatternSet == BoundedSeq(Literal \cup {Star, Glob}, MaxParts) \ {<<>>}
IDSet      == BoundedSeq(Literal \cup Other, MaxPath) \ {<<>>}

\* Variant: literals are not compared.
match_AnyLiteral(pattern, path) ==
  LET n == Len(pattern)
      k == Len(path)
      from[pi \in 1..(n + 1), si \in 1..(k + 1)] ==
        IF pi > n \/ si > k
        THEN si > k /\ \A i \in pi..n : pattern[i] = Glob
        ELSE CASE pattern[pi] = Glob -> pi = n \/ \E s \in si..(k + 1) : from[pi + 1, s]
               [] OTHER -> from[pi + 1, si + 1]
  IN from[1, 1]

\* match(pattern, path) from pattern[pi] and path[si] on.  The switch in the
\* loop compares a literal with a path component that may be "*": Includes
\* passes another pattern as the path.  After the loop trailing globs match
\* the empty rest.
match(pattern, path) ==
  LET n == Len(pattern)
      k == Len(path)
      from[pi \in 1..(n + 1), si \in 1..(k + 1)] ==
        IF pi > n \/ si > k
        THEN si > k /\ \A i \in pi..n : pattern[i] = Glob
        ELSE CASE pattern[pi] = Glob -> pi = n \/ \E s \in si..(k + 1) : from[pi + 1, s]
               [] pattern[pi] = Star -> from[pi + 1, si + 1]
               [] OTHER -> /\ pattern[pi] = path[si] \/ path[si] = Star
                           /\ from[pi + 1, si + 1]
  IN from[1, 1]

Match(p, id) == match(p, id)

Includes(p, other) == match(p, other)

\* Filter: the narrower of two patterns, as a set of at most one.
Filter(filter, other) ==
  IF Includes(filter, other) THEN {other}
  ELSE IF Includes(other, filter) THEN {filter} ELSE {}

\* replace1: the only glob of p is replaced by the components of other.
ExpandPattern(p, other) ==
  LET globs == {i \in DOMAIN p : p[i] = Glob} IN
  {SubSeq(p, 1, i - 1) \o other \o SubSeq(p, i + 1, Len(p)) :
     i \in {j \in globs : globs = {j}}}

-----------------------------------------------------------------------------
(* The reference: a pattern describes an identifier when the identifier can *)
(* be cut into one piece per component of the pattern.                      *)

Describes(p, id) ==
  \E cut \in [0..Len(p) -> 0..Len(id)] :
    /\ cut[0] = 0 /\ cut[Len(p)] = Len(id)
    /\ \A i \in DOMAIN p :
         IF p[i] = Glob THEN cut[i - 1] <= cut[i]
         ELSE cut[i] = cut[i - 1] + 1 /\ p[i] \in {Star, id[cut[i]]}

Language == [p \in PatternSet |-> {id \in IDSet : Describes(p, id)}]

-----------------------------------------------------------------------------
VARIABLES
  p, q,  \* the receiver or filter, and the other pattern
  out    \* the results of the calls, once they are made

vars == <<p, q, out>>

NoResult == <<>>

Init == p \in PatternSet /\ q \in PatternSet /\ out = NoResult

\* Match is asked for every identifier, once per pattern.
EvaluateMatch ==
  /\ out = NoResult /\ q = p
  /\ out' = [match |-> {id \in IDSet : Match(p, id)}]
  /\ UNCHANGED <<p, q>>

\* The calls that take another pattern.
EvaluatePair ==
  /\ out = NoResult
  /\ out' = [includes |-> Includes(p, q),
             filter   |-> Filter(p, q),
             expand   |-> ExpandPattern(p, q)]
  /\ UNCHANGED <<p, q>>

Evaluate == EvaluateMatch \/ EvaluatePair

Spec == Init /\ [][Evaluate]_vars

Matched == "match" \in DOMAIN out
Evaluated == "includes" \in DOMAIN out

\* The loop with its early returns and its recursion on the rest of the
\* pattern decides the language: Match(id) is true exactly for the identifiers
\* the pattern describes.
MatchDecidesLanguage == Matched => out.match = Language[p]

\* Includes misses nothing: a pattern that describes all identifiers of
\* another one includes it.
IncludesIsComplete == Evaluated /\ Language[q] \subseteq Language[p] => out.includes

\* Filter "returns false if there's no overlap": a pattern it returns
\* describes something both patterns describe.
FilterNeedsOverlap ==
  Evaluated /\ out.filter # {} => Language[p] \cap Language[q] # {}

\* Expanding the glob of a pattern by another pattern stays inside the first:
\* what the expanded pattern matches the unexpanded one describes.
ExpandStaysInside ==
  Evaluated => \A e \in out.expand : \A id \in IDSet \ Language[p] : ~Match(e, id)

\* The patterns that q stands for when a wildcard of it may be read as less.
Narrowings ==
  {r \in PatternSet : Len(r) = Len(q) /\ \A i \in DOMAIN q :
     r[i] = q[i] \/ (q[i] \in {Star, Glob} /\ r[i] # Glob)}

\* Includes says yes only for a pattern of which it covers a reading: one
\* without wildcards it really includes, and a "*" or "**" of the other pattern
\* may count for any one component.  ("docker/proj1/**" includes
\* "docker/*/mcp/*", as pattern_test.go:93 asks, and "*" includes "**"; "all
\* matches of Pattern [other]", pattern.go:86, does not hold of these.)
IncludesAReading ==
  Evaluated /\ out.includes => \E r \in Narrowings : Language[r] \subseteq Language[p]

==============================================================================
