------------------------------- MODULE Sorting -------------------------------
(***************************************************************************)
(* Python's sorted, list.sort and list comprehensions as the code uses     *)
(* them.  The sort is stable: the place of an element is the number of     *)
(* elements ahead of it, those before it that it does not beat and those   *)
(* behind it that beat it.                                                 *)
(***************************************************************************)
EXTENDS Integers, FiniteSets

Ahead(i, n, better) ==
  {j \in 1 .. i - 1 : <<i, j>> \notin better} \cup {j \in i + 1 .. n : <<j, i>> \in better}
Ranked(n, better) ==
  LET places == {<<Cardinality(Ahead(i, n, better)) + 1, i>> : i \in 1 .. n}
  IN [k \in 1 .. n |-> (CHOOSE p \in places : p[1] = k)[2]]
\* Indices of a sequence of length n, best first.
Order(n, Before(_, _)) == Ranked(n, {p \in (1 .. n) \X (1 .. n) : Before(p[1], p[2])})
Pick(s, order) == [i \in DOMAIN order |-> s[order[i]]]
\* A comprehension with a condition: the elements that pass, in their order.
Ascending(kept) ==
  [k \in 1 .. Cardinality(kept) |-> CHOOSE i \in kept : Cardinality({j \in kept : j < i}) = k - 1]
Keep(s, Test(_)) == Pick(s, Ascending({i \in DOMAIN s : Test(s[i])}))
==============================================================================
