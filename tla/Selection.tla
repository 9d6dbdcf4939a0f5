------------------------------ MODULE Selection ------------------------------
(***************************************************************************)
(* Selecting the elements of a sequence that lie in a set, in their order:  *)
(* a list comprehension with a condition, or the removal of keys from a     *)
(* dictionary kept in insertion order.  The element at position k of the    *)
(* selection is the k-th selected one.  (The operator SelectSeq of module   *)
(* Sequences gives the same value, by a recursion nothing can be proved      *)
(* about here.)                                                             *)
(***************************************************************************)
EXTENDS Integers, Sequences, FiniteSets, Functions

(* The positions of s that hold a member of S. *)
Places(s, S) == {i \in DOMAIN s : s[i] \in S}

(* x comes before y in s. *)
Before(s, x, y) == \E i, j \in DOMAIN s : i < j /\ s[i] = x /\ s[j] = y

(* How many of the positions in I come no later than i. *)
Rank(I, i) == Cardinality({j \in I : j <= i})

(* The members of S in s, and what is left when they are taken out. *)
Only(s, S) ==
    LET I == Places(s, S)
        n == Cardinality(I)
    IN SubSeq([k \in 1..n |-> s[CHOOSE i \in I : Rank(I, i) = k]], 1, n)

(* Retention: s without the oldest of its members in S, of which n stay. *)
Trimmed(s, S, n) ==
    LET chosen == Only(s, S)
        out    == {chosen[i] : i \in 1..(Len(chosen) - n)}
    IN Only(s, Range(s) \ out)

=============================================================================
