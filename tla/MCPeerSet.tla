------------------------------ MODULE MCPeerSet ------------------------------
(* A small instance of PeerSet for TLC. *)
EXTENDS PeerSet

CONSTANTS pool, a, b, c, bad, here, far

\* Two peers come and go, a third also changes its data center, and one list
\* has an address that cannot be dialled.
InLists ==
    {[addr : S, dc : {here}] \cup T :
        S \in SUBSET {a, b},
        T \in {{}, {[addr |-> c, dc |-> here]}, {[addr |-> c, dc |-> far]}}}
    \cup {[addr : {a, bad}, dc : {here}]}

\* Every order of the six points, up to the names of the first two peers, on
\* a ring with a hash value left over.
AllHashings ==
    {[x \in Addrs \X (1 .. Replicas) |-> IF x[1] = bad THEN 3 ELSE h[x]] :
        h \in {h \in [{a, b, c} \X (1 .. Replicas) -> {0, 1, 2, 4, 5, 6}] :
                  /\ \A x, y \in DOMAIN h : x # y => h[x] # h[y]
                  /\ h[a, 1] < h[b, 1]
                  /\ \A x \in {a, b, c} : h[x, 1] < h[x, 2]}}
=============================================================================
