----------------------------- MODULE LikeSearch -----------------------------
(***************************************************************************)
(* The two text filters of GET /jobs: q, a substring of the title or the   *)
(* company, and company, a prefix of it.  The repository turns the term    *)
(* into a LIKE pattern; SQLite matches the pattern.  A text is a sequence  *)
(* of characters.  JobsQuery uses these filters among the others.          *)
(***************************************************************************)
EXTENDS Integers, Sequences

CONSTANTS
  Letters,  \* characters with no meaning in a pattern
  Lower     \* a letter in lower case, for the letters SQLite folds

Escape == "\\"
Wildcards == {"%", "_"}
Chars == Letters \cup Wildcards \cup {Escape}

ASSUME LettersAssumption == Letters \cap (Wildcards \cup {Escape}) = {}
ASSUME LowerAssumption == Lower \in [Letters -> Letters]
-----------------------------------------------------------------------------
(* The pattern                                                              *)

\* str.replace(c, Escape + c)
Replaced(v, c) ==
  LET Upto[i \in 0..Len(v)] ==
        IF i = 0 THEN <<>>
        ELSE Upto[i - 1] \o (IF v[i] = c THEN <<Escape, c>> ELSE <<v[i]>>)
  IN Upto[Len(v)]

\* Faulty: the backslash last, it doubles the ones just added.
EscapeBackslashLast(v) == Replaced(Replaced(Replaced(v, "%"), "_"), Escape)

EscapeLike(v) == Replaced(Replaced(Replaced(v, Escape), "%"), "_")

Fold(c) == IF c \in Letters THEN Lower[c] ELSE c

\* LIKE ? ESCAPE '\': % is any text, _ any character, and what follows the
\* escape character is itself.  Per place in the pattern: the places in the text
\* from which the rest of the pattern matches the rest of the text.
Matches(pattern, text) ==
  LET same(i, j) == Fold(pattern[i]) = Fold(text[j])
      From[i \in 1..Len(pattern) + 1] ==
        IF i > Len(pattern) THEN {Len(text) + 1}
        ELSE CASE pattern[i] = "%" ->
                    {j \in 1..Len(text) + 1 : \E k \in From[i + 1] : j <= k}
               [] pattern[i] = "_" ->
                    {j \in 1..Len(text) : j + 1 \in From[i + 1]}
               [] pattern[i] = Escape ->
                    {j \in 1..Len(text) : /\ i < Len(pattern) /\ same(i + 1, j)
                                          /\ j + 1 \in From[i + 2]}
               [] OTHER ->
                    {j \in 1..Len(text) : same(i, j) /\ j + 1 \in From[i + 1]}
  IN From

Like(pattern, text) == 1 \in Matches(pattern, text)[1]

\* The q condition of _build_where.
Found(q, title, company) ==
  LET pattern == <<"%">> \o EscapeLike(q) \o <<"%">>
  IN Like(pattern, title) \/ Like(pattern, company)

\* The company condition.
Prefixed(c, company) == Like(EscapeLike(c) \o <<"%">>, company)

-----------------------------------------------------------------------------
(* What they mean, without patterns                                         *)

\* The folded term stands in the text from position k + 1 on.
StandsAt(t, text, k) ==
  /\ k + Len(t) <= Len(text)
  /\ \A i \in DOMAIN t : Fold(t[i]) = Fold(text[k + i])

StandsIn(t, text) == \E k \in 0..Len(text) : StandsAt(t, text, k)

=============================================================================
