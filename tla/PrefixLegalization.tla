------------------------- MODULE PrefixLegalization --------------------------
(***************************************************************************)
(* legalize_P repairs a prefix network: it visits the nodes of a Python    *)
(* set, whose order nothing fixes, and adds what a node's split needs.     *)
(* Whatever network comes in, of a topology or random, and whatever the    *)
(* order, the result must be a network that an adder can be built from.    *)
(***************************************************************************)
EXTENDS PrefixNetworks

CONSTANTS
  Topologies,    \* pairs <<name, width>> to build
  RandomWidth,   \* width at which every set of nodes is legalized
  FreeOrder      \* the order is free for networks of at most this many nodes

ASSUME PrefixAssumption ==
  /\ \A t \in Topologies : t[2] \in Nat \ {0}
  /\ RandomWidth \in Nat \ {0}

VARIABLES
  topology, width,
  prefixNodes,   \* nodes
  unvisited,     \* the nodes legalize_P has yet to visit
  legalizing     \* "visit", "carries" or "done"

prefixVars == <<topology, width, prefixNodes, unvisited, legalizing>>

AllNodes(n) == {p \in (0..(n - 1)) \X (0..(n - 1)) : p[2] < p[1]}

PrefixMatrix(name, n) ==
  CASE name = "ripple"         -> RippleNodes(n)
    [] name = "kogge_stone"    -> KoggeStoneNodes(n)
    [] name = "sklansky"       -> SklanskyNodes(n)
    [] name = "brent_kung"     -> BrentKungNodes(n)
    [] name = "han_carlson"    -> HanCarlsonNodes(n)
    [] name = "ladner_fischer" -> LadnerFischerNodes(n)
    [] name = "sparse_2"       -> SparseKoggeStoneNodes(n, 2)
    [] name = "sparse_4"       -> SparseKoggeStoneNodes(n, 4)
    [] name = "multi_scan"     -> MultiScanNodes(n)
    [] name = "zcg"            -> ZCGNodes(n)

PrefixInit ==
  /\ \/ \E t \in Topologies :
          /\ topology = t[1] /\ width = t[2]
          /\ InRange(PrefixMatrix(t[1], t[2]), t[2])
          /\ prefixNodes = StartNodes(PrefixMatrix(t[1], t[2]), t[2])
     \/ /\ topology = "random" /\ width = RandomWidth
        /\ \E P \in SUBSET AllNodes(RandomWidth) :
             prefixNodes = StartNodes(P, RandomWidth)
  /\ unvisited = prefixNodes
  /\ legalizing = "visit"

Visit ==
  /\ legalizing = "visit" /\ unvisited # {}
  /\ \E p \in unvisited :
       /\ Cardinality(prefixNodes) > FreeOrder =>
            p = CHOOSE q \in unvisited : \A r \in unvisited :
                  q[1] < r[1] \/ (q[1] = r[1] /\ q[2] <= r[2])
       /\ prefixNodes' = FixNode(prefixNodes, p[1], p[2])
       /\ unvisited' = unvisited \ {p}
  /\ UNCHANGED <<topology, width, legalizing>>
AllVisited ==
  /\ legalizing = "visit" /\ unvisited = {}
  /\ prefixNodes' = FixCarries(prefixNodes, width)
  /\ legalizing' = "done"
  /\ UNCHANGED <<topology, width, unvisited>>

PrefixNext == Visit \/ AllVisited
PrefixSpec == PrefixInit /\ [][PrefixNext]_prefixVars

-----------------------------------------------------------------------------
(* An adder built from the result adds: for every propagate and generate   *)
(* of the bits and every carry in, with either way of choosing splits.     *)
RowsOf(n) == [0..(n - 1) -> {<<0, 0>>, <<1, 0>>, <<1, 1>>}]
Number(bits) ==
  LET from[k \in 1..(Len(bits) + 1)] ==
        IF k > Len(bits) THEN 0 ELSE bits[k] + 2 * from[k + 1]
  IN  from[1]
Adds(P, n) ==
  \A splits \in {Splits(P, m) : m \in SplitModes}, r \in RowsOf(n), cin \in {0, 1} :
    LET a == [i \in 0..(n - 1) |-> r[i][1]]
        b == [i \in 0..(n - 1) |-> r[i][2]]
        value(x) == Number([k \in 1..n |-> x[k - 1]])
    IN  Number(PrefixSum(splits, n, a, b, cin)) = value(a) + value(b) + cin
NetworkAdds == legalizing = "done" /\ width <= 5 => Adds(prefixNodes, width)

(* Choosing the split of least depth node by node makes every carry's tree *)
(* as shallow as any: no way of choosing splits gets below it, neither the *)
(* highest, nor the lowest, which the analysis reports as the depth.       *)
Shallowest(P, n) ==
  \A i \in 1..(n - 1) :
    LET chosen == SplitDepth(Splits(P, "min_depth_splits"), i, 0)
    IN  /\ chosen <= SplitDepth(Splits(P, "first_split"), i, 0)
        /\ chosen <= GreedyDepth(P, i, 0)
DepthMinimal == legalizing = "done" /\ width <= 6 => Shallowest(prefixNodes, width)
=============================================================================
