---------------------------- MODULE MCEchoServer ----------------------------
(* Instances of the echo server for TLC: two workers with the activations of  *)
(* notifyMessage they run, one acceptor and the main thread.                  *)
EXTENDS EchoServer, TLC

CONSTANTS w1, w2, n1, n2

MCWorkers == {w1, w2}
MCClients == {main, n1, n2}
MCcallback == [w \in MCWorkers |-> IF w = w1 THEN n1 ELSE n2]

Symmetry == Permutations(Sockets) \cup Permutations(Frames) \cup Permutations(Handles)
=============================================================================
