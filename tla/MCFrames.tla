------------------------------ MODULE MCFrames ------------------------------
\* Instance of Frames for TLC: two peers with a relay between them.
EXTENDS Frames, TLC

CONSTANTS a, b, w, aw, wb, bw, wa, m1, m2

RelayFrom == (aw :> a) @@ (wb :> w) @@ (bw :> b) @@ (wa :> w)
RelayTo == (aw :> w) @@ (wb :> b) @@ (bw :> w) @@ (wa :> a)
RelayLegs == <<aw, wb, bw, wa>>

\* The first peer sends one frame more than the relay forwards.
RelaySent == [k \in Wire |-> IF k = aw THEN 2 ELSE 1]

Sizes == (m1 :> 1) @@ (m2 :> 2)
=============================================================================
