----------------------- MODULE MCDeferredRateLimiter -----------------------
(* Instances of DeferredRateLimiter for TLC.                               *)
EXTENDS DeferredRateLimiter

CONSTANTS p1, p2, r1, r2, r3, r4

OneProxy == {p1}
TwoProxies == {p1, p2}
FourRequests == {r1, r2, r3, r4}
ThreeRequests == {r1, r2, r3}
=============================================================================
