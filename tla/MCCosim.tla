------------------------------- MODULE MCCosim -------------------------------
(* Instructions and comparisons for TLC: two pages of two bytes in each of two *)
(* banks, at 0 .. 3 and 6 .. 9; the supervisor stack begins behind the first.  *)
EXTENDS Cosim

Changes(r) == [reg |-> r, addr |-> 0, bytes |-> <<>>, raises |-> FALSE]
StoreOf(a, bytes) == [reg |-> "none", addr |-> a, bytes |-> bytes, raises |-> FALSE]

\* A return to user mode, with and without an interrupt behind it, a push, a word over two
\* pages, a long word, one whose second half lies behind its bank, an interrupt after a byte.
MCCosimOps == {Changes("sr"), [Changes("sr") EXCEPT !.raises = TRUE], Changes("a7"),
               StoreOf(1, <<1, 1>>), StoreOf(6, <<1, 0, 0, 1>>), StoreOf(8, <<1, 1, 1, 0>>),
               [StoreOf(2, <<1>>) EXCEPT !.raises = TRUE]}

\* Registers, a byte of each bank, and one in the gap.
MCTargets == {[reg |-> r, addr |-> 0] : r \in {"d0", "a7", "usp", "ssp"}}
             \cup {[reg |-> "none", addr |-> a] : a \in {2, 4, 7}}

\* Both sides against each other, with a fault at the third instruction or the second; and
\* each by itself, with one at the third or at one that is not reached.
Against(pairs, faults) == {[left |-> p[1], right |-> p[2], seq |-> f[1], target |-> f[2]] :
                             p \in pairs, f \in faults}
A7 == [reg |-> "a7", addr |-> 0]
MCComparisons ==
    Against({<<"native", "oracle">>, <<"oracle", "native">>}, ({2} \X MCTargets) \cup {<<1, A7>>})
    \cup Against({<<"native", "native">>, <<"oracle", "oracle">>},
                 {<<2, [reg |-> "usp", addr |-> 0]>>, <<2, [reg |-> "none", addr |-> 2]>>, <<9, A7>>})
=============================================================================
