------------------------- MODULE FirstMatchProgram -------------------------
(***************************************************************************)
(* What if_/elif_/else_ and switch_/case_/default promise: the text of the *)
(* program, read one statement after the other, for every valuation of the *)
(* inputs at once.                                                         *)
(*                                                                         *)
(* A block is open for the points at which its statements execute.  An if  *)
(* chain and a switch hand each point to the first arm whose test accepts  *)
(* it; an assignment overwrites the signal at the points at which it       *)
(* executes, and only there.  Nothing here is hardware: there are no       *)
(* conditions, no muxes and no gating.                                     *)
(***************************************************************************)
EXTENDS Naturals, Sequences

CONSTANTS
  Point,  \* the valuations of the signals a condition may read
  Test,   \* the sets of points (of Point) a condition may denote
  Value   \* what may be assigned; one member is the undriven value

VARIABLES
  value,   \* the signal's value at each point
  blocks,  \* the open blocks, outermost first: the points at which each one
           \* executes and, for an if arm or a switch, the points left over
  chain,   \* the if chain an elif or an else may continue, or NoChain
  outer    \* what fresh scopes put aside: blocks and chain

programVars == <<value, blocks, chain, outer>>

NoChain == [at |-> 0, left |-> {}, live |-> FALSE]
Chain(at, left) == [at |-> at, left |-> left, live |-> TRUE]
Block(kind, run, left) == [kind |-> kind, run |-> run, left |-> left]

(* The points at which the next statement executes. *)
Running == LET n == Len(blocks) IN IF n = 0 THEN Point ELSE blocks[n].run

(* A chain may be continued only in the very block it was written in. *)
Continuable == chain.live /\ chain.at = Len(blocks)

Init == /\ value \in {[p \in Point |-> v] : v \in Value}
        /\ blocks = <<>>
        /\ chain = NoChain
        /\ outer = <<>>

(* One more block is opened: one of the given ones. *)
Open(candidates) == /\ LET before == blocks
                       IN blocks' \in {Append(before, b) : b \in candidates}
                    /\ UNCHANGED <<value, outer>>

If == /\ LET run == Running
         IN Open({Block("arm", run \cap c, Point \ c) : c \in Test})
      /\ chain' = NoChain

Elif == /\ Continuable
        /\ \E c \in Test :
             /\ Open({Block("arm", Running \cap chain.left \cap c, chain.left \ c)})
             /\ chain' = Chain(chain.at, chain.left \ c)

Else == /\ Continuable
        /\ Open({Block("last", Running \cap chain.left, {})})
        /\ chain' = Chain(chain.at, {})

Switch == Open({Block("switch", Running, Point)}) /\ UNCHANGED chain

Region == Open({Block("plain", Running, {})}) /\ UNCHANGED chain

Switches == {k \in DOMAIN blocks : blocks[k].kind = "switch"}

(* An arm of the innermost switch; default is the one that accepts all. *)
Case == \E k \in Switches :
          /\ \A j \in Switches : j <= k
          /\ LET run == Running \cap blocks[k].left
                 taking(c) == [blocks EXCEPT ![k].left = @ \ c]
             IN blocks' \in {Append(taking(c), Block("plain", run \cap c, {}))
                             : c \in Test \cup {Point}}
          /\ UNCHANGED <<value, chain, outer>>

Assign == /\ LET run == Running
                 old == value
             IN value' \in {[p \in Point |-> IF p \in run THEN v ELSE old[p]] : v \in Value}
          /\ UNCHANGED <<blocks, chain, outer>>

Leave ==
  /\ blocks # <<>>
  /\ blocks' = SubSeq(blocks, 1, Len(blocks) - 1)
  /\ LET b == blocks[Len(blocks)] IN
     chain' = IF b.kind = "arm" THEN Chain(Len(blocks) - 1, b.left)
              ELSE IF b.kind = "last" \/ chain.at >= Len(blocks) THEN NoChain
              ELSE chain
  /\ UNCHANGED <<value, outer>>

(* A fresh scope, for the construction of a component. *)
Fresh == /\ outer' = Append(outer, [blocks |-> blocks, chain |-> chain])
         /\ blocks' = <<>> /\ chain' = NoChain
         /\ UNCHANGED value

EndFresh == /\ outer # <<>> /\ blocks = <<>>
            /\ blocks' = outer[Len(outer)].blocks
            /\ chain' = outer[Len(outer)].chain
            /\ outer' = SubSeq(outer, 1, Len(outer) - 1)
            /\ UNCHANGED value

Next == \/ If \/ Elif \/ Else \/ Switch \/ Case \/ Region
        \/ Assign \/ Leave \/ Fresh \/ EndFresh

Spec == Init /\ [][Next]_programVars
=============================================================================
