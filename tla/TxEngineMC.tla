------------------------------ MODULE TxEngineMC ------------------------------
(* Small instances of TxEngine. *)
EXTENDS TxEngine

\* The test signal, a dot-gap-dot, a repeated dot and one that starts silent.
MCSequences == {[on |-> <<TRUE>>, repeat |-> FALSE],
                [on |-> <<TRUE, FALSE, TRUE>>, repeat |-> FALSE],
                [on |-> <<TRUE, FALSE>>, repeat |-> TRUE],
                [on |-> <<FALSE, TRUE, TRUE>>, repeat |-> FALSE]}

\* Two tones in a row, as rtty.c and wspr.c encode every symbol.
MCTones == {[on |-> <<TRUE, TRUE>>, repeat |-> FALSE]}
=============================================================================
