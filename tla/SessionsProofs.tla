--------------------------- MODULE SessionsProofs ---------------------------
(***************************************************************************)
(* What Sessions guarantees for any number of clients and requests, any    *)
(* lifetimes and any resolution of the clock.                              *)
(***************************************************************************)
EXTENDS Sessions, TLAPS

\* A jti that was not minted was neither logged out nor exchanged.
UnmintedInv == \A j \in Jti : j > minted => j \notin revoked /\ rotated[j] = 0

\* The entry logout stores outlives the token, so it is never written again.
RevokedInv == \A j \in revoked : blacklist[j] >= token[j].exp

\* The entry an exchange stores reaches into the token's last second; an
\* exchange that stores none happens in that second.
ExchangedInv ==
    \A j \in Jti : rotated[j] > 0 =>
        \/ blacklist[j] > token[j].exp - Tps
        \/ clock > token[j].exp - Tps

Waiting == {"version", "gate"}

\* A request that waits for the version, or for its turn after that, carries an access
\* token; no token says which version it was minted under.
GateInv ==
    /\ \A w \in Workers : pc[w] \in Waiting =>
          held[w] \in 1..minted /\ token[held[w]].type = "access"
    /\ \A j \in Jti : token[j].ver = 0

\* The version only grows, so what a request has read is not older than what was
\* there when it began.
SeenInv ==
    \A w \in Requests :
        /\ pc[w] = "version" => opened[w] <= version
        /\ pc[w] = "gate" => opened[w] <= seen[w]

IInv == TypeOK /\ UnmintedInv /\ RevokedInv /\ ExchangedInv /\ GateInv /\ SeenInv

-----------------------------------------------------------------------------

LEMMA WholeSecondsBounds ==
    ASSUME NEW n \in Nat
    PROVE  /\ WholeSeconds(n) \in Nat
           /\ WholeSeconds(n) <= n
           /\ n - Tps < WholeSeconds(n)
<1>1. n % Tps \in 0..(Tps - 1)
  BY TimeAssumption
<1>2. n % Tps <= n
  BY TimeAssumption
<1> QED BY <1>1, <1>2, TimeAssumption DEF WholeSeconds

LEMMA LogoutTtlBounds ==
    ASSUME TypeOK, NEW j \in Jti, Verifies(j)
    PROVE  LogoutTtl(j) \in Nat /\ clock + LogoutTtl(j) >= token[j].exp
<1>1. token[j].exp \in Nat /\ clock \in Nat /\ clock < token[j].exp
  BY DEF TypeOK, Token, Verifies, Expired
<1> QED BY <1>1, WholeSecondsBounds DEF LogoutTtl

LEMMA RotationTtlBounds ==
    ASSUME TypeOK, NEW j \in Jti, Verifies(j)
    PROVE  /\ RotationTtl(j) \in Nat
           /\ clock + RotationTtl(j) > token[j].exp - Tps
<1>1. token[j].exp \in Nat /\ clock \in Nat /\ clock < token[j].exp
  BY DEF TypeOK, Token, Verifies, Expired
<1>2. token[j].exp - clock \in Nat
  BY <1>1
<1> QED BY <1>1, <1>2, WholeSecondsBounds, TimeAssumption DEF RotationTtl

\* What was logged out does not verify again.
LEMMA RevokedFails ==
    ASSUME IInv, NEW j \in revoked
    PROVE  ~Verifies(j)
<1>1. token[j].exp \in Nat /\ blacklist[j] \in Nat /\ clock \in Nat
  BY DEF IInv, TypeOK, Token
<1>2. blacklist[j] >= token[j].exp
  BY DEF IInv, RevokedInv
<1> QED BY <1>1, <1>2 DEF Verifies, Expired, Blacklisted

LEMMA MintedClaims ==
    ASSUME TypeOK, NEW type \in Types,
           NEW life \in Nat
    PROVE  Claims(type, life) \in Token /\ Claims(type, life).ver = 0
           /\ Claims(type, life).type = type
<1>1. life * Tps \in Nat
  BY TimeAssumption
<1>2. WholeSeconds(clock) \in Nat
  BY WholeSecondsBounds DEF TypeOK
<1>3. WholeSeconds(clock) + life * Tps \in Nat
  BY <1>1, <1>2
<1> QED BY <1>3 DEF Claims, VerClaim, Token, TypeOK

\* Minting adds two tokens and leaves the others alone.
LEMMA MintingAdds ==
    ASSUME IInv, MintPair
    PROVE  /\ minted' \in 0..MaxTokens /\ minted' = minted + 2
           /\ token' \in [Jti -> Token]
           /\ \A j \in Jti : token'[j].ver = 0
           /\ \A j \in Jti : j <= minted => token'[j] = token[j]
<1>1. /\ Claims("refresh", RefreshLife) \in Token
      /\ Claims("refresh", RefreshLife).ver = 0
      /\ Claims("access", AccessLife) \in Token
      /\ Claims("access", AccessLife).ver = 0
  BY MintedClaims, TimeAssumption DEF IInv, Types
<1>2. /\ minted \in 0..MaxTokens /\ MaxTokens \in Nat /\ token \in [Jti -> Token]
      /\ \A j \in Jti : token[j].ver = 0
  BY BoundsAssumption DEF IInv, TypeOK, GateInv
<1> QED BY <1>1, <1>2 DEF MintPair, Jti

\* So does a token for a service or a partner.
LEMMA GrantingAdds ==
    ASSUME IInv, NEW claims \in {ServiceToken, PartnerToken}, Grant(claims)
    PROVE  /\ minted' \in 0..MaxTokens /\ minted' = minted + 1
           /\ token' \in [Jti -> Token]
           /\ \A j \in Jti : token'[j].ver = 0
           /\ \A j \in Jti : j <= minted => token'[j] = token[j]
<1>1. claims \in Token /\ claims.ver = 0
  BY MintedClaims, TimeAssumption DEF IInv, Types, ServiceToken, PartnerToken
<1>2. /\ minted \in 0..MaxTokens /\ MaxTokens \in Nat /\ token \in [Jti -> Token]
      /\ \A j \in Jti : token[j].ver = 0
  BY BoundsAssumption DEF IInv, TypeOK, GateInv
<1> QED BY <1>1, <1>2 DEF Grant, Jti

\* Minting a pair for one caller does not concern the requests at the gate.
LEMMA MintingKeepsGate ==
    ASSUME IInv, MintPair, NEW w \in Workers, Finish(w, "issued")
    PROVE  GateInv'
<1>1. /\ \A j \in Jti : token'[j].ver = 0
      /\ \A j \in Jti : j <= minted => token'[j] = token[j]
      /\ minted' = minted + 2 /\ minted \in Nat /\ minted <= MaxTokens /\ MaxTokens \in Nat
  BY MintingAdds, BoundsAssumption DEF IInv, TypeOK
<1> SUFFICES ASSUME NEW x \in Workers, pc'[x] \in Waiting
             PROVE  held'[x] \in 1..minted' /\ token'[held'[x]].type = "access"
  BY <1>1 DEF GateInv
<1>2. x # w /\ pc[x] \in Waiting /\ held'[x] = held[x]
  BY DEF Finish, IInv, TypeOK, Waiting
<1>3. held[x] \in 1..minted /\ token[held[x]].type = "access"
  BY <1>2 DEF IInv, GateInv
<1>4. held[x] \in Jti /\ held[x] <= minted /\ held[x] \in 1..minted'
  BY <1>1, <1>3 DEF Jti
<1> QED BY <1>1, <1>2, <1>3, <1>4

-----------------------------------------------------------------------------

LEMMA InitIInv == Init => IInv
BY TimeAssumption, BoundsAssumption
   DEF Init, IInv, TypeOK, Token, Types, Unminted, Ended, Workers, UnmintedInv,
       RevokedInv, ExchangedInv, GateInv, SeenInv, Waiting, Jti, None

LEMMA NextIInv == IInv /\ [Next]_vars => IInv'
<1> SUFFICES ASSUME IInv, [Next]_vars PROVE IInv'
  OBVIOUS
<1> USE DEF IInv, Workers, Ended
<1>1. ASSUME NEW w \in Clients, StartLogin(w) PROVE IInv'
  BY <1>1 DEF StartLogin, Begin, TypeOK, UnmintedInv, RevokedInv,
              ExchangedInv, GateInv, SeenInv, Waiting, gateVars, tokenVars, userVars, None
<1>2. ASSUME NEW w \in Clients, FindUser(w) PROVE IInv'
  BY <1>2 DEF FindUser, Begin, Finish, TypeOK, UnmintedInv, RevokedInv,
              ExchangedInv, GateInv, SeenInv, Waiting, gateVars, tokenVars, userVars, None
<1>3. ASSUME NEW w \in Clients, LoginPair(w) PROVE IInv'
  <2>1. TypeOK'
    BY <1>3, MintingAdds DEF LoginPair, Finish, TypeOK, gateVars, userVars
  <2>2. UnmintedInv' /\ RevokedInv' /\ ExchangedInv'
    BY <1>3, MintingAdds
       DEF LoginPair, TypeOK, UnmintedInv, RevokedInv, ExchangedInv, Jti
  <2>3. GateInv'
    BY <1>3, MintingKeepsGate DEF LoginPair
  <2>4. SeenInv'
    BY <1>3 DEF LoginPair, Finish, TypeOK, SeenInv, gateVars, userVars
  <2> QED BY <2>1, <2>2, <2>3, <2>4
<1>4. ASSUME NEW w \in Clients, Rotate(w) PROVE IInv'
  <2> DEFINE t == held[w]
  <2>1. t \in Jti /\ Verifies(t) /\ t <= minted /\ t \notin revoked
    BY <1>4, RevokedFails DEF Rotate, TypeOK, Verifies, None
  <2>2. /\ RotationTtl(t) \in Nat
        /\ clock + RotationTtl(t) > token[t].exp - Tps
    BY <2>1, RotationTtlBounds
  <2>3. MintPair /\ Blacklist(t, RotationTtl(t)) /\ Finish(w, "issued")
        /\ rotated' = [rotated EXCEPT ![t] = @ + 1]
        /\ UNCHANGED <<clock, version, userExists, revoked, seen, opened>>
    BY <1>4 DEF Rotate, gateVars, userVars
  <2> HIDE DEF t
  <2>4. TypeOK'
    BY <2>1, <2>2, <2>3, MintingAdds DEF Blacklist, Finish, TypeOK
  <2>5. UnmintedInv'
    BY <2>1, <2>3, MintingAdds DEF UnmintedInv, TypeOK, Jti
  <2>6. RevokedInv'
    BY <2>1, <2>3, MintingAdds DEF RevokedInv, UnmintedInv, Blacklist, TypeOK, Jti
  <2>7. ExchangedInv'
    <3> SUFFICES ASSUME NEW j \in Jti, rotated'[j] > 0
                 PROVE  \/ blacklist'[j] > token'[j].exp - Tps
                        \/ clock > token'[j].exp - Tps
      BY <2>3 DEF ExchangedInv
    <3>1. CASE j = t
      BY <3>1, <2>1, <2>2, <2>3, MintingAdds DEF Blacklist, TypeOK
    <3>2. CASE j # t
      <4>1. rotated[j] > 0 /\ j <= minted /\ blacklist'[j] = blacklist[j]
        BY <3>2, <2>3 DEF UnmintedInv, TypeOK, Blacklist, Jti
      <4> QED BY <4>1, <2>3, MintingAdds DEF ExchangedInv
    <3> QED BY <3>1, <3>2
  <2>8. GateInv'
    BY <2>3, MintingKeepsGate
  <2>9. SeenInv'
    BY <2>3 DEF Finish, TypeOK, SeenInv
  <2> QED BY <2>4, <2>5, <2>6, <2>7, <2>8, <2>9
<1>5. ASSUME NEW w \in Clients, RotateFails(w) PROVE IInv'
  BY <1>5 DEF RotateFails, Finish, TypeOK, UnmintedInv, RevokedInv,
              ExchangedInv, GateInv, SeenInv, Waiting, gateVars, tokenVars, userVars
<1>6. ASSUME NEW w \in Clients, NEW j \in Jti, StartRefresh(w, j) PROVE IInv'
  BY <1>6 DEF StartRefresh, Begin, Finish, TypeOK, UnmintedInv, RevokedInv,
              ExchangedInv, GateInv, SeenInv, Waiting, gateVars, tokenVars, userVars
<1>7. ASSUME NEW w \in Requests, ReadVersion(w) \/ Gate(w) PROVE IInv'
  <2>1. TypeOK'
    BY <1>7 DEF ReadVersion, Get, Gate, Finish, TypeOK, tokenVars, userVars
  <2>2. UnmintedInv' /\ RevokedInv' /\ ExchangedInv' /\ GateInv'
    BY <1>7 DEF ReadVersion, Gate, Finish, TypeOK, UnmintedInv, RevokedInv,
                ExchangedInv, GateInv, Waiting, tokenVars, userVars
  <2>3. SeenInv'
    BY <1>7 DEF ReadVersion, Get, Gate, Finish, TypeOK, SeenInv, userVars
  <2> QED BY <2>1, <2>2, <2>3
<1>8. ASSUME NEW w \in Requests, NEW j \in Jti, NEW accepted, StartRequest(w, j, accepted)
      PROVE  IInv'
  <2>1. TypeOK' /\ UnmintedInv' /\ RevokedInv' /\ ExchangedInv'
    BY <1>8 DEF StartRequest, Begin, Finish, TypeOK, UnmintedInv, RevokedInv,
                ExchangedInv, tokenVars, userVars
  <2>2. GateInv'
    <3>1. UNCHANGED <<token, minted>>
      BY <1>8 DEF StartRequest, tokenVars
    <3>2. ASSUME NEW x \in Workers, pc'[x] \in Waiting
          PROVE  held'[x] \in 1..minted /\ token[held'[x]].type = "access"
      <4>1. CASE x = w
        <5>1. Verifies(j) /\ held'[x] = j /\ token[j].type \in accepted
              /\ accepted = UserOnly
          BY <1>8, <3>2, <4>1 DEF StartRequest, Begin, Finish, TypeOK, Waiting
        <5> QED BY <5>1 DEF Verifies, UserOnly, Jti, TypeOK
      <4>2. CASE x # w
        BY <1>8, <3>2, <4>2 DEF StartRequest, Begin, Finish, TypeOK, GateInv
      <4> QED BY <4>1, <4>2
    <3> QED BY <3>1, <3>2 DEF GateInv
  <2>3. SeenInv'
    BY <1>8 DEF StartRequest, Begin, Finish, TypeOK, SeenInv, userVars
  <2> QED BY <2>1, <2>2, <2>3
<1>9. ASSUME NEW r \in Jti, NEW a \in 1..r, Logout({a, r}) PROVE IInv'
  <2> DEFINE valid == {a, r}
  <2>1. /\ blacklist' = [j \in Jti |-> IF j \in valid THEN clock + LogoutTtl(j)
                                                      ELSE blacklist[j]]
        /\ revoked' = revoked \union valid
        /\ UNCHANGED <<clock, minted, token, version, userExists, pc, held, rotated,
                      seen, opened>>
    BY <1>9 DEF Logout, tokenVars, userVars, gateVars
  <2>2. valid \subseteq Jti /\ \A j \in valid : Verifies(j) /\ j <= minted
    BY <1>9, BoundsAssumption DEF Logout, Jti, Verifies
  <2> HIDE DEF valid
  <2>3. \A j \in valid : LogoutTtl(j) \in Nat /\ clock + LogoutTtl(j) >= token[j].exp
    BY <2>2, LogoutTtlBounds
  <2>4. TypeOK'
    BY <2>1, <2>2, <2>3 DEF TypeOK
  <2>5. UnmintedInv'
    BY <2>1, <2>2 DEF UnmintedInv, TypeOK, Jti
  <2>6. RevokedInv'
    BY <2>1, <2>2, <2>3 DEF RevokedInv, TypeOK
  <2>7. ExchangedInv'
    <3> SUFFICES ASSUME NEW j \in Jti, rotated[j] > 0
                 PROVE  \/ blacklist'[j] > token[j].exp - Tps
                        \/ clock > token[j].exp - Tps
      BY <2>1 DEF ExchangedInv
    <3>1. CASE j \in valid
      BY <3>1, <2>1, <2>3, TimeAssumption DEF TypeOK, Token
    <3>2. CASE j \notin valid
      BY <3>2, <2>1 DEF ExchangedInv
    <3> QED BY <3>1, <3>2
  <2>8. GateInv' /\ SeenInv'
    BY <2>1 DEF GateInv, SeenInv, Waiting
  <2> QED BY <2>4, <2>5, <2>6, <2>7, <2>8
<1>10. CASE Bump
  BY <1>10 DEF Bump, TypeOK, UnmintedInv, RevokedInv, ExchangedInv, GateInv, SeenInv,
               Waiting, gateVars, tokenVars
<1>11. CASE DeleteUser
  <2>1. TypeOK'
    BY <1>11 DEF DeleteUser, TypeOK, gateVars, tokenVars
  <2>2. UnmintedInv' /\ RevokedInv' /\ ExchangedInv' /\ GateInv' /\ SeenInv'
    BY <1>11 DEF DeleteUser, UnmintedInv, RevokedInv, ExchangedInv, GateInv, SeenInv,
                 Waiting, gateVars, tokenVars
  <2> QED BY <2>1, <2>2
<1>12. CASE Tick
  <2>1. TypeOK' /\ UnmintedInv' /\ RevokedInv' /\ GateInv' /\ SeenInv'
    BY <1>12 DEF Tick, TypeOK, UnmintedInv, RevokedInv, GateInv, SeenInv, Waiting,
                 gateVars, tokenVars, userVars
  <2>2. ExchangedInv'
    BY <1>12, TimeAssumption DEF Tick, TypeOK, Token, ExchangedInv, tokenVars
  <2> QED BY <2>1, <2>2
<1>13. CASE UNCHANGED vars
  BY <1>13 DEF vars, TypeOK, UnmintedInv, RevokedInv, ExchangedInv, GateInv, SeenInv,
               Waiting, tokenVars, userVars, gateVars
<1>14. ASSUME NEW claims \in {ServiceToken, PartnerToken}, Grant(claims) PROVE IInv'
  <2>1. /\ UNCHANGED <<clock, blacklist, version, userExists, pc, held, rotated, revoked,
                       seen, opened>>
        /\ minted' = minted + 1 /\ minted \in Nat
    BY <1>14, BoundsAssumption DEF Grant, userVars, gateVars, TypeOK
  <2>2. TypeOK'
    BY <1>14, <2>1, GrantingAdds DEF TypeOK
  <2>3. UnmintedInv' /\ RevokedInv' /\ ExchangedInv'
    BY <1>14, <2>1, GrantingAdds
       DEF TypeOK, UnmintedInv, RevokedInv, ExchangedInv, Jti
  <2>4. GateInv'
    <3> SUFFICES ASSUME NEW x \in Workers, pc[x] \in Waiting
                 PROVE  held[x] \in 1..minted' /\ token'[held[x]].type = "access"
      BY <1>14, <2>1, GrantingAdds DEF GateInv
    <3>1. held[x] \in 1..minted /\ token[held[x]].type = "access" /\ held[x] \in Jti
      BY BoundsAssumption DEF GateInv, TypeOK, Jti
    <3> QED BY <3>1, <1>14, <2>1, GrantingAdds
  <2>5. SeenInv'
    BY <2>1 DEF SeenInv
  <2> QED BY <2>2, <2>3, <2>4, <2>5
<1>15. ASSUME NEW w \in Requests, Respond(w) PROVE IInv'
  <2>1. TypeOK'
    BY <1>15 DEF Respond, Finish, TypeOK, tokenVars, userVars, gateVars
  <2>2. UnmintedInv' /\ RevokedInv' /\ ExchangedInv' /\ GateInv' /\ SeenInv'
    BY <1>15 DEF Respond, Finish, TypeOK, UnmintedInv, RevokedInv, ExchangedInv,
                 GateInv, SeenInv, Waiting, tokenVars, userVars, gateVars
  <2> QED BY <2>1, <2>2
<1> QED
  BY <1>1, <1>2, <1>3, <1>4, <1>5, <1>6, <1>7, <1>8, <1>9, <1>10, <1>11, <1>12,
     <1>13, <1>14, <1>15 DEF Next, Refresh, SignOut

\* The strengthened invariant the theorems below follow from.
THEOREM Invariant == Spec => []IInv
BY InitIInv, NextIInv, PTL DEF Spec

\* Every reachable state of the token life is well typed.
THEOREM TypeCorrect == Spec => []TypeOK
BY Invariant, PTL DEF IInv

\* The entry logout stores covers the token for the rest of its life, although
\* the clock has fractions and the entry's life has not.
THEOREM BlacklistCovers == Spec => []RevokedIsBlacklisted
<1>1. IInv => RevokedIsBlacklisted
  <2> SUFFICES ASSUME IInv, NEW j \in revoked PROVE Expired(j) \/ Blacklisted(j)
    BY DEF RevokedIsBlacklisted
  <2>1. j \in Jti /\ token[j].exp \in Nat /\ blacklist[j] \in Nat /\ clock \in Nat
    BY DEF IInv, TypeOK, Token
  <2> QED BY <2>1 DEF IInv, RevokedInv, Expired, Blacklisted
<1> QED BY <1>1, Invariant, PTL

-----------------------------------------------------------------------------

\* The actions a call is let in by, and the one that exchanges a token.
LEMMA LetsInBy ==
    ASSUME IInv, [Next]_vars, NEW w \in Workers, LetsIn(w)
    PROVE  held'[w] \in Jti /\ Verifies(held'[w])
<1> USE DEF IInv, TypeOK, LetsIn, Ended, Workers, Begin, Finish
<1>1. ASSUME NEW x \in Clients, NEW j \in Jti, StartRefresh(x, j)
      PROVE  held'[w] \in Jti /\ Verifies(held'[w])
  BY <1>1 DEF StartRefresh
<1>2. ASSUME NEW x \in Requests, NEW j \in Jti, NEW accepted,
             StartRequest(x, j, accepted)
      PROVE  held'[w] \in Jti /\ Verifies(held'[w])
  BY <1>2 DEF StartRequest
<1>3. ASSUME NEW x \in Clients,
             StartLogin(x) \/ FindUser(x) \/ LoginPair(x) \/ Rotate(x) \/ RotateFails(x)
      PROVE  FALSE
  BY <1>3 DEF StartLogin, FindUser, LoginPair, Rotate, RotateFails
<1>4. ASSUME NEW x \in Requests, ReadVersion(x) \/ Gate(x) \/ Respond(x) PROVE FALSE
  BY <1>4 DEF ReadVersion, Gate, Respond
<1>5. ASSUME NEW r \in Jti, NEW a \in 1..r, Logout({a, r}) PROVE FALSE
  BY <1>5 DEF Logout
<1>6. CASE Bump \/ DeleteUser \/ Tick \/ UNCHANGED vars
  BY <1>6 DEF Bump, DeleteUser, Tick, vars
<1>7. CASE Grant(ServiceToken) \/ Grant(PartnerToken)
  BY <1>7 DEF Grant
<1> QED BY <1>1, <1>2, <1>3, <1>4, <1>5, <1>6, <1>7 DEF Next, Refresh, SignOut

LEMMA ExchangesBy ==
    ASSUME IInv, [Next]_vars, NEW w \in Workers, Exchanges(w)
    PROVE  held[w] \in Jti /\ Verifies(held[w])
<1> USE DEF IInv, TypeOK, Exchanges, Ended, Workers, Begin, Finish
<1>1. ASSUME NEW x \in Clients, Rotate(x) PROVE held[w] \in Jti /\ Verifies(held[w])
  BY <1>1 DEF Rotate
<1>2. ASSUME NEW x \in Clients,
             StartLogin(x) \/ FindUser(x) \/ LoginPair(x) \/ RotateFails(x)
      PROVE  FALSE
  BY <1>2 DEF StartLogin, FindUser, LoginPair, RotateFails
<1>3. ASSUME NEW x \in Clients, NEW j \in Jti, StartRefresh(x, j) PROVE FALSE
  BY <1>3 DEF StartRefresh
<1>4. ASSUME NEW x \in Requests, ReadVersion(x) \/ Gate(x) \/ Respond(x) PROVE FALSE
  BY <1>4 DEF ReadVersion, Gate, Respond
<1>5. ASSUME NEW x \in Requests, NEW j \in Jti, NEW accepted,
             StartRequest(x, j, accepted) PROVE FALSE
  BY <1>5 DEF StartRequest
<1>6. ASSUME NEW r \in Jti, NEW a \in 1..r, Logout({a, r}) PROVE FALSE
  BY <1>6 DEF Logout
<1>7. CASE Bump \/ DeleteUser \/ Tick \/ UNCHANGED vars
  BY <1>7 DEF Bump, DeleteUser, Tick, vars
<1>8. CASE Grant(ServiceToken) \/ Grant(PartnerToken)
  BY <1>8 DEF Grant
<1> QED BY <1>1, <1>2, <1>3, <1>4, <1>5, <1>6, <1>7, <1>8 DEF Next, Refresh, SignOut

\* A token that was logged out opens no request and ends no exchange, whatever
\* was under way when it was logged out.
THEOREM LogoutFinal == Spec => LogoutIsFinal
<1>1. ASSUME IInv, [Next]_vars, NEW w \in Workers
      PROVE  /\ LetsIn(w) => held'[w] \notin revoked
             /\ Exchanges(w) => held[w] \notin revoked
  BY <1>1, LetsInBy, ExchangesBy, RevokedFails
<1>2. IInv /\ [Next]_vars =>
        [\A w \in Workers : /\ LetsIn(w) => held'[w] \notin revoked
                            /\ Exchanges(w) => held[w] \notin revoked]_vars
  BY <1>1
<1> QED BY <1>2, Invariant, PTL DEF Spec, LogoutIsFinal

\* Of all the exchanges of a refresh token, those after the first fall into the
\* last second of its life.
THEOREM ExchangedOnceOnly == Spec => ExchangedOnce
<1>1. ASSUME IInv, [Next]_vars, NEW w \in Workers, Exchanges(w), rotated[held[w]] > 0
      PROVE  clock > token[held[w]].exp - Tps
  <2>1. held[w] \in Jti /\ Verifies(held[w])
    BY <1>1, ExchangesBy
  <2>2. clock \in Nat /\ blacklist[held[w]] \in Nat /\ token[held[w]].exp \in Nat
    BY <1>1, <2>1 DEF IInv, TypeOK, Token
  <2>3. clock >= blacklist[held[w]]
    BY <2>1, <2>2 DEF Verifies, Blacklisted
  <2> QED BY <1>1, <2>1, <2>2, <2>3, TimeAssumption DEF IInv, ExchangedInv
<1>2. IInv /\ [Next]_vars =>
        [\A w \in Workers : (Exchanges(w) /\ rotated[held[w]] > 0)
                                => clock > token[held[w]].exp - Tps]_vars
  BY <1>1
<1> QED BY <1>2, Invariant, PTL DEF Spec, ExchangedOnce

\* A request that begins after an authorisation change is not admitted with a token
\* minted before the change, wherever the reading of the version and the await fall.
THEOREM ChangeReachesLater == Spec => ChangeReachesLaterRequests
<1>1. ASSUME IInv, [Next]_vars, NEW w \in Requests, pc[w] = "gate", pc'[w] = "admitted"
      PROVE  token[held[w]].type = "access" /\ token[held[w]].epoch >= opened[w]
  <2>1. /\ held[w] \in Jti /\ token[held[w]].type = "access" /\ token[held[w]].ver = 0
        /\ token[held[w]].epoch \in Nat /\ seen[w] \in Nat /\ opened[w] \in Nat
        /\ opened[w] <= seen[w]
    BY <1>1, BoundsAssumption
       DEF IInv, GateInv, SeenInv, Waiting, Workers, TypeOK, Token, Jti
  <2>2. ~Outdated(w)
    <3> USE <1>1 DEF IInv, TypeOK, Ended, Workers, Begin, Finish
    <3>1. ASSUME NEW x \in Requests, Gate(x) PROVE ~Outdated(w)
      BY <3>1 DEF Gate
    <3>2. ASSUME NEW x \in Clients,
                 \/ StartLogin(x) \/ FindUser(x) \/ LoginPair(x)
                 \/ Rotate(x) \/ RotateFails(x)
          PROVE  FALSE
      BY <3>2 DEF StartLogin, FindUser, LoginPair, Rotate, RotateFails
    <3>3. ASSUME NEW x \in Clients, NEW j \in Jti, StartRefresh(x, j) PROVE FALSE
      BY <3>3 DEF StartRefresh
    <3>4. ASSUME NEW x \in Requests, NEW j \in Jti, NEW accepted,
             StartRequest(x, j, accepted) PROVE FALSE
      BY <3>4 DEF StartRequest
    <3>5. ASSUME NEW r \in Jti, NEW a \in 1..r, Logout({a, r}) PROVE FALSE
      BY <3>5 DEF Logout
    <3>6. CASE Bump \/ DeleteUser \/ Tick \/ UNCHANGED vars
      BY <3>6 DEF Bump, DeleteUser, Tick, vars
    <3>7. ASSUME NEW x \in Requests, ReadVersion(x) \/ Respond(x) PROVE FALSE
      BY <3>7 DEF ReadVersion, Respond
    <3>8. CASE Grant(ServiceToken) \/ Grant(PartnerToken)
      BY <3>8 DEF Grant
    <3> QED BY <3>1, <3>2, <3>3, <3>4, <3>5, <3>6, <3>7, <3>8 DEF Next, Refresh, SignOut
  <2> QED BY <2>1, <2>2 DEF Outdated
<1>2. IInv /\ [Next]_vars =>
        [\A w \in Requests : (pc[w] = "gate" /\ pc'[w] = "admitted")
            => /\ token[held[w]].type = "access"
               /\ token[held[w]].epoch >= opened[w]]_vars
  BY <1>1
<1> QED BY <1>2, Invariant, PTL DEF Spec, ChangeReachesLaterRequests
=============================================================================
