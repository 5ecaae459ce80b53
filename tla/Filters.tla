------------------------------- MODULE Filters -------------------------------
(***************************************************************************)
(* The list comprehension [x for x in s if x in K], which the queues and    *)
(* caches of the harness are rebuilt with, as a recursive function, and the *)
(* sum of the amounts of what a store or a desk keeps.                      *)
(***************************************************************************)
EXTENDS Naturals, Sequences, FiniteSetsExt

\* The elements of s that are in K, in their order.
Kept(s, K) ==
    LET upTo[n \in 0 .. Len(s)] ==
          IF n = 0 THEN <<>>
          ELSE IF s[n] \in K THEN Append(upTo[n - 1], s[n]) ELSE upTo[n - 1]
    IN upTo[Len(s)]

\* The elements of a sequence, and that none of them comes twice.
Members(s) == {s[i] : i \in 1 .. Len(s)}
Distinct(s) == \A i, j \in 1 .. Len(s) : s[i] = s[j] => i = j

\* What the elements of S weigh together.
SumBy(w, S) == MapThenSumSet(LAMBDA x : w[x], S)

==============================================================================
