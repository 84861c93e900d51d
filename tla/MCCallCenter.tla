---------------------------- MODULE MCCallCenter ----------------------------
(* Two queues that can share two agents.                                    *)
EXTENDS CallCenter, TLC

Interchangeable ==
  Permutations(Queues) \cup Permutations(Agents) \cup Permutations(Strategies)

=============================================================================
