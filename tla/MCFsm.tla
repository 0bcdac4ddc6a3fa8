------------------------------- MODULE MCFsm -------------------------------
(***************************************************************************)
(* Machines for FsmOptimization: three states with every pattern of        *)
(* outputs and second branches, and four states on a ring whose other      *)
(* branches are free; each with a choice of options.                       *)
(***************************************************************************)
EXTENDS FsmOptimization, TLC

Plain == [encoding |-> "binary", start |-> 0, delayed |-> {},
          follower |-> FALSE, flag |-> FALSE, minimize |-> TRUE,
          search |-> "none", emit |-> FALSE, dontCares |-> FALSE,
          cost |-> "distance", wide |-> FALSE]
Sized(k, step, other, outs) ==
  [n |-> k,
   next |-> [s \in 0 .. k - 1 |-> [v \in InputBit |-> IF v = 1 THEN step[s] ELSE other[s]]],
   out |-> [s \in 0 .. k - 1 |-> [v \in InputBit |-> outs[s][v]]]] @@ Plain

Moore(k) == {[s \in 0 .. k - 1 |-> [v \in InputBit |-> o[s]]] : o \in [0 .. k - 1 -> InputBit]}
Ring(k)  == [s \in 0 .. k - 1 |-> (s + 1) % k]

Three == {Sized(3, st, ot, o) : st \in {Ring(3), [Ring(3) EXCEPT ![1] = 0]},
            ot \in [0 .. 2 -> 0 .. 2], o \in {q \in Moore(3) : q[0][0] = 0}}
Four  == {Sized(4, Ring(4), ot, o) : ot \in [0 .. 3 -> {0, 1, 3}],
            o \in {q \in Moore(4) : q[0][0] = 0 /\ q[3][0] = 1}}
Mealy == {Sized(3, Ring(3), ot, [s \in 0 .. 2 |-> [v \in InputBit |-> IF s = k THEN v ELSE 0]]) :
            ot \in [0 .. 2 -> {0, 1}], k \in 0 .. 2}
Five  == {Sized(5, Ring(5), ot, [s \in 0 .. 4 |-> [v \in InputBit |-> s % 2]]) :
            ot \in {[s \in 0 .. 4 |-> 0], [s \in 0 .. 4 |-> s]}}

With(S, opt) == {opt @@ m : m \in S}
Small == {m \in Three : m.next[1][1] = 2 /\ m.next[0][0] = 0} \cup Mealy
Few   == {m \in Small : m.out[1][0] = 1 /\ m.next[2][0] = 1 /\ m.next[1][0] = 0}
Mute  == {Sized(3, Ring(3), [s \in 0 .. 2 |-> 0], [s \in 0 .. 2 |-> [v \in InputBit |-> 0]])}
Pair  == {Sized(2, Ring(2), ot, [s \in 0 .. 1 |-> [v \in InputBit |-> s]]) :
            ot \in [0 .. 1 -> 0 .. 1]}

MCMachines ==
  With(Three \cup Four \cup Mealy \cup Five, [search |-> "none"])
    \cup With(Three, [search |-> "exhaustive", emit |-> TRUE, dontCares |-> TRUE])
    \cup With(Small, [search |-> "predefined", encoding |-> "gray", cost |-> "partial"])
    \cup With(Small, [search |-> "adjacency", minimize |-> FALSE, emit |-> TRUE])
    \cup With(Few, [search |-> "adjacency", cost |-> "partial"])
    \cup With(Few, [search |-> "auto", start |-> 1, cost |-> "fails"])
    \cup With(Few \cup Mute, [search |-> "swap"])
    \cup With(Few, [search |-> "swap", minimize |-> FALSE, cost |-> "partial"])
    \cup With(Few, [search |-> "adjacency", emit |-> TRUE, follower |-> TRUE])
    \cup With(Few, [search |-> "auto", emit |-> TRUE, wide |-> TRUE])
    \cup With(Pair, [search |-> "auto", encoding |-> "onehot"])
    \cup With(Five, [search |-> "predefined", encoding |-> "onehot"])

(* Guards that read a register; a flag beside the machine. *)
MCDelayed == With(Four, [delayed |-> {1}])
MCEncoded == With(Small, [search |-> "exhaustive", minimize |-> FALSE, flag |-> TRUE])
=============================================================================
