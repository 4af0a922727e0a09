----------------------------- MODULE MCTopology -----------------------------
(* The topology of the terminal client: two boards, two ports, two groups, *)
(* one channel per board.                                                  *)
EXTENDS Topology

MCDefaultAlias == [ch \in Channels |-> "CH0"]

(* What the launch flow ends with: one board connected to directly, or two
   boards on a bus, one of them in a group. *)
Single ==
    [buses |-> {"p1"}, boards |-> {[nick |-> "a", port |-> "p1", slave |-> 1]},
     groups |-> {}, refs |-> {}]
Multi ==
    [buses |-> {"p1"},
     boards |-> {[nick |-> "a", port |-> "p1", slave |-> 1], [nick |-> "b", port |-> "p1", slave |-> 2]},
     groups |-> {"g", "h"},
     refs |-> {[group |-> "g", board |-> "a", ch |-> 0, alias |-> "CH0"]}]
MCStartTopologies == {Single, Multi}
=============================================================================
