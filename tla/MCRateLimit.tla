---------------------------- MODULE MCRateLimit ----------------------------
(* Instances of RateLimit: two workers share the cache; one client comes    *)
(* from its own address and through a proxy, another one from the proxy's.  *)
EXTENDS RateLimit, TLC

CONSTANTS h1, h2

Anonymous(forwarded, host) == [user |-> Absent, forwarded |-> forwarded, host |-> host]

MCRequests == {Anonymous(Absent, h1), Anonymous(h1, h2), Anonymous(Absent, h2)}
Symmetry == Permutations(Workers)
=============================================================================
