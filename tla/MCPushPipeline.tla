--------------------------- MODULE MCPushPipeline ---------------------------
\* Model values and small structures for PushPipeline.
EXTENDS PushPipeline, TLC
CONSTANTS p1, p2, r1, r2, w1, w2
\* A request of its own for each publish; p1 is the older one.
MCTarget == [r \in Requests |-> IF r = r1 THEN p1 ELSE p2]
MCStamp == [p \in Publishes |-> IF p = p1 THEN 1 ELSE 2]
OneDevice == <<{1}>>
TwoDevices == <<{1}, {2}>>
\* A client-scoped subscription of two devices, and a device's.
ClientFirst == <<{1, 2}, {3}>>
\* Every worker is the only one with its lock owner id.
OwnOwner == [w \in Workers |-> w]
WorkerSymmetry == Permutations(Workers)
=============================================================================
