----------------------------- MODULE Selections -----------------------------
(***************************************************************************)
(* Some elements of a sequence, in the order they have in it.               *)
(***************************************************************************)
EXTENDS Naturals, FiniteSets

(* The numbers of S from the lowest to the highest.                         *)
InOrder(S) ==
  CHOOSE f \in [1 .. Cardinality(S) -> S] : \A a, b \in DOMAIN f : a < b => f[a] < f[b]

(* The elements of s at the places in P.                                    *)
Picked(s, P) == LET places == InOrder(P) IN [k \in 1 .. Cardinality(P) |-> s[places[k]]]
=============================================================================
