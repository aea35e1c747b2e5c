---------------------------- MODULE MCPeerSync ----------------------------
(* Instances of PeerSync for TLC: devices are numbers in peer-id order.      *)
EXTENDS PeerSync, TLC

MCRank == [d \in Devices |-> d]
KeySymmetry == Permutations(Keys)

\* Who is paired with whom: everybody, or a chain with device c in the middle.
AllPaired == {x \in Devices \X Devices : x[1] # x[2]}
Chain(c) == {x \in AllPaired : c \in {x[1], x[2]}}
ChainOfMiddle == Chain(2)
=============================================================================
