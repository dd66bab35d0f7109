----------------------------- MODULE MCSessions -----------------------------
(* Small instances of Sessions. *)
EXTENDS Sessions, TLC

Symmetry == Permutations(Clients) \union Permutations(Requests)

\* These differ without consequence: how an ended call ended; what a token was that will
\* not verify again, but for the call that carries it; whether a token with the lifetime
\* of both is a service's or a partner's, for each has a dependency that takes it and one
\* that does not; and the epoch of a token that is not an access token.
Kind(t) == IF t.type = "partner" THEN "service" ELSE t.type
Epoch(t) == IF t.type = "access" THEN t.epoch ELSE 0

Dead(j) == Expired(j) \/ blacklist[j] >= token[j].exp

TokenView(j) ==
    IF Dead(j) THEN <<>>
    ELSE <<Kind(token[j]), token[j].exp, Epoch(token[j]), blacklist[j], rotated[j],
           j \in revoked>>

CallView(w) ==
    IF pc[w] \in Ended THEN "ended"
    ELSE IF held[w] = None THEN pc[w]
    ELSE <<pc[w], held[w], Kind(token[held[w]]), Epoch(token[held[w]])>>

View ==
    <<clock, minted, [j \in Jti |-> TokenView(j)], Cardinality(Granted),
      Cardinality(revoked), userVars, gateVars, [w \in Workers |-> CallView(w)]>>
=============================================================================
