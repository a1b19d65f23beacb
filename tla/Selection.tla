-------------------------------- MODULE Selection --------------------------------
(***************************************************************************)
(* What is left of an ordered list when some of its members go, and the    *)
(* places numbers take when they are put in order.  SelectSeq does the     *)
(* first by recursion, about which nothing can be proved here.             *)
(***************************************************************************)
EXTENDS Naturals, Sequences, FiniteSets

\* The place of k among the numbers of S, from 1 on.
RankIn(S, k) == Cardinality({h \in S : h <= k})

Places(seq, S) == {i \in DOMAIN seq : seq[i] \in S}

\* The members of seq that are in S, in their order: the k-th of them has rank k among their
\* positions.
SelectIn(seq, S) ==
    [k \in 1 .. Cardinality(Places(seq, S)) |->
        seq[CHOOSE i \in Places(seq, S) : RankIn(Places(seq, S), i) = k]]
===============================================================================
