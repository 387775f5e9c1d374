-------------------------- MODULE MCNativeBinding ---------------------------
(* Instances of NativeBinding for TLC. *)
EXTENDS NativeBinding

CONSTANTS H2, H3, Other2

\* Other2 is the header of a module that was not compiled.  The sync word read as a
\* header has a plausible size and the wrong parity.
MCSizeOf == [v \in Values |-> CASE v \in {H2, Other2} -> 2 [] v \in {H3, Sync} -> 3 [] OTHER -> 0]

\* Two compiled images; the last word of Large can be the first of a Small.
Small == [size |-> 2, word |-> [i \in 0 .. 1 |-> IF i = 0 THEN Sync ELSE H2]]
Large == [size |-> 3, word |-> [i \in 0 .. 2 |-> IF i = 1 THEN H3 ELSE Sync]]
MCModules == {Small, Large}
=============================================================================
