-------------------------- MODULE MCAsynchIOService -------------------------
(* Instances of the I/O service for TLC.  The names of threads, sockets and   *)
(* frames carry no information, so they may be permuted in safety runs.       *)
EXTENDS AsynchIOService, TLC

Symmetry == Permutations(Workers) \cup Permutations(Sockets)
            \cup Permutations(Frames) \cup Permutations(Handles)
=============================================================================
