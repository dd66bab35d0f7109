------------------------------ MODULE Sessions ------------------------------
(***************************************************************************)
(* The token life of one user: the pair minted at login, its rotation by   *)
(* AuthUseCases.refresh, revocation by AuthUseCases.logout, the tokens of  *)
(* services and partners, and the dependencies in front of a request:      *)
(* get_current_user, get_current_principal and the require_* family.  The  *)
(* code is accounts/api/application/use_cases/auth_use_cases.py and        *)
(* common/auth/{jwt/handler,token_version,dependencies}.py.                *)
(*                                                                         *)
(* Calls are coroutines: what lies between two awaits is one step.  Time   *)
(* runs in ticks, Tps to the second: PyJWT writes `exp` in whole seconds   *)
(* and the cache takes whole seconds to live, but both compare with a      *)
(* clock that has fractions, and the properties turn on that.  A handler   *)
(* that does not await takes no time.                                      *)
(*                                                                         *)
(* A token is its jti, a fresh UUID4: tokens are numbered as they are      *)
(* minted.  Signatures, issuer and audience are taken to be right, and a   *)
(* token that does not decode is one that was not minted.  The cache keeps *)
(* an entry until its time to live is over.                                *)
(*                                                                         *)
(* A definition X_<mistake>, placed before X, is X with a plausible        *)
(* mistake, swapped in for X to confirm that some property notices.        *)
(***************************************************************************)
EXTENDS Integers, FiniteSets

CONSTANTS
    Clients,      \* concurrent calls of login and refresh
    Requests,     \* concurrent calls of guarded endpoints
    Tps,          \* ticks in a second
    AccessLife,   \* access_token_expire, in seconds
    RefreshLife,  \* refresh_token_expire, in seconds
    ServiceLife,  \* service_token_expire, in seconds
    PartnerLife,  \* partner_token_expire, in seconds
    MaxTokens,    \* bound on the tokens minted
    MaxGranted,   \* bound on the service and partner tokens among them
    MaxClock,     \* bound on the clock, in ticks
    MaxBumps,     \* bound on the authorisation changes
    MaxRevoked    \* bound on the tokens logged out

ASSUME TimeAssumption ==
    /\ Tps \in Nat \ {0}
    /\ {AccessLife, RefreshLife, ServiceLife, PartnerLife} \subseteq Nat \ {0}
ASSUME BoundsAssumption == {MaxTokens, MaxGranted, MaxClock, MaxBumps, MaxRevoked} \subseteq Nat

VARIABLES
    clock,       \* now, in ticks
    minted,      \* the last jti given out
    token,       \* the claims of each jti
    blacklist,   \* cache: the tick at which blacklist:<jti> expires, 0 if never set
    version,     \* cache: user_token_version:<user>
    userExists,  \* whether the user's row is there
    pc,          \* where each call is
    held,        \* the token each call carries
    seen,        \* the version a request has read
    rotated,     \* for the properties: how often a refresh token was exchanged
    revoked,     \* for the properties: the tokens a logout has accepted
    opened       \* for the properties: the version when a request began

vars == <<clock, minted, token, blacklist, version, userExists, pc, held, seen,
          rotated, revoked, opened>>
tokenVars == <<minted, token>>
userVars == <<version, userExists>>
gateVars == <<seen, opened>>

Jti == 1..MaxTokens
None == 0

Types == {"access", "refresh", "service", "partner"}

\* exp is in ticks; epoch, kept for the properties, is the user's version when
\* the token was minted.
Token == [type : Types, exp : Nat, ver : Nat, epoch : Nat]
Unminted == [type |-> "access", exp |-> 0, ver |-> 0, epoch |-> 0]

Workers == Clients \union Requests

\* A call has not started or was refused with AuthenticationError; or it got a
\* pair, or an exception of the jwt library that nothing catches; or its request was
\* admitted, or its token was found outdated.
Ended == {"idle", "issued", "crashed", "admitted", "outdated"}

TypeOK ==
    /\ clock \in Nat
    /\ minted \in 0..MaxTokens
    /\ token \in [Jti -> Token]
    /\ blacklist \in [Jti -> Nat]
    /\ version \in Nat
    /\ userExists \in BOOLEAN
    /\ pc \in [Workers -> Ended \union {"user", "claims", "version", "gate", "open"}]
    /\ held \in [Workers -> Jti \union {None}]
    /\ rotated \in [Jti -> Nat]
    /\ revoked \subseteq Jti
    /\ seen \in [Requests -> Nat]
    /\ opened \in [Requests -> Nat]

Init ==
    /\ clock = 0
    /\ minted = 0
    /\ token = [j \in Jti |-> Unminted]
    /\ blacklist = [j \in Jti |-> 0]
    /\ version = 0
    /\ userExists = TRUE
    /\ pc = [w \in Workers |-> "idle"]
    /\ held = [w \in Workers |-> None]
    /\ rotated = [j \in Jti |-> 0]
    /\ revoked = {}
    /\ seen = [w \in Requests |-> 0]
    /\ opened = [w \in Requests |-> 0]

-----------------------------------------------------------------------------
(* JWTHandler. *)

\* A number of ticks cut to whole seconds: int() of a time, or of an interval.
WholeSeconds(n) == n - (n % Tps)

Blacklisted(j) == clock < blacklist[j]

Expired(j) == clock >= token[j].exp

\* verify_token: the token decodes, has not expired and is not blacklisted.
Verifies(j) ==
    /\ j <= minted
    /\ ~Expired(j)
    /\ ~Blacklisted(j)

\* get_user_token_claims gives no `ver` claim, no minter adds one, and TokenUser.ver
\* reads an absent claim as 0.
VerClaim == 0

Claims(type, life) ==
    [type |-> type, exp |-> WholeSeconds(clock) + life * Tps, ver |-> VerClaim,
     epoch |-> version]

\* A new refresh token and a new access token.
MintPair ==
    /\ minted + 2 <= MaxTokens
    /\ minted' = minted + 2
    /\ token' = [token EXCEPT ![minted + 1] = Claims("refresh", RefreshLife),
                              ![minted + 2] = Claims("access", AccessLife)]

\* The tokens of a service and of a partner, by the client_credentials grant.
ServiceToken == Claims("service", ServiceLife)
PartnerToken == Claims("partner", PartnerLife)

Granted == {j \in 1..minted : token[j].type \in {"service", "partner"}}

Grant(claims) ==
    /\ minted < MaxTokens /\ Cardinality(Granted) < MaxGranted
    /\ minted' = minted + 1
    /\ token' = [token EXCEPT ![minted + 1] = claims]
    /\ UNCHANGED <<clock, blacklist, userVars, pc, held, rotated, revoked, gateVars>>

\* rotate_refresh_token writes no entry when less than a second remains.
RotationTtl_NotStored(j) == 0
RotationTtl(j) == WholeSeconds(token[j].exp - clock)

\* The entry written for j, `ttl` ticks of life from now; none for ttl = 0.
Blacklist(j, ttl) ==
    blacklist' = [blacklist EXCEPT ![j] = IF ttl > 0 THEN clock + ttl ELSE @]

-----------------------------------------------------------------------------
(* Login and refresh. *)

Finish(w, result) ==
    /\ pc' = [pc EXCEPT ![w] = result]
    /\ held' = [held EXCEPT ![w] = None]

Begin(w, j, step) ==
    /\ pc' = [pc EXCEPT ![w] = step]
    /\ held' = [held EXCEPT ![w] = j]

\* verify_otp has accepted the code and found the user; _build_token_pair
\* awaits the user's claims.
StartLogin(w) ==
    /\ pc[w] \in Ended /\ userExists
    /\ Begin(w, None, "claims")
    /\ UNCHANGED <<clock, tokenVars, blacklist, userVars, rotated, revoked, gateVars>>

\* refresh checks the token, then awaits the user.
StartRefresh(w, j) ==
    /\ pc[w] \in Ended
    /\ IF Verifies(j) /\ token[j].type = "refresh"
       THEN Begin(w, j, "user") ELSE Finish(w, "idle")
    /\ UNCHANGED <<clock, tokenVars, blacklist, userVars, rotated, revoked, gateVars>>

\* get_user_by_id returns; _build_token_pair then awaits the claims.
FindUser(w) ==
    /\ pc[w] = "user"
    /\ IF userExists THEN Begin(w, held[w], "claims") ELSE Finish(w, "idle")
    /\ UNCHANGED <<clock, tokenVars, blacklist, userVars, rotated, revoked, gateVars>>

\* The claims are there and a login mints its pair.
LoginPair(w) ==
    /\ pc[w] = "claims" /\ held[w] = None
    /\ MintPair
    /\ Finish(w, "issued")
    /\ UNCHANGED <<clock, blacklist, userVars, rotated, revoked, gateVars>>

\* The claims are there and a refresh exchanges the token it carries, which
\* rotate_refresh_token verifies once more: it may have been used since.
Rotate(w) ==
    /\ pc[w] = "claims" /\ held[w] # None
    /\ Verifies(held[w])
    /\ Blacklist(held[w], RotationTtl(held[w]))
    /\ MintPair
    /\ rotated' = [rotated EXCEPT ![held[w]] = @ + 1]
    /\ Finish(w, "issued")
    /\ UNCHANGED <<clock, userVars, revoked, gateVars>>

\* The second check fails: the jwt exception passes through refresh.
RotateFails(w) ==
    /\ pc[w] = "claims" /\ held[w] # None
    /\ ~Verifies(held[w])
    /\ Finish(w, "crashed")
    /\ UNCHANGED <<clock, tokenVars, blacklist, userVars, rotated, revoked, gateVars>>

-----------------------------------------------------------------------------
(* Logout, and the gate of a request. *)

\* The seconds left, counted from the start of the current one.
LogoutTtl_Floored(j) == WholeSeconds(token[j].exp - clock)
LogoutTtl(j) == token[j].exp - WholeSeconds(clock)

\* logout takes the two tokens of its request in turn and skips those that do
\* not verify: valid are the ones that do.  It does not look at their type, so that
\* their order does not matter.
Logout(valid) ==
    /\ Cardinality(revoked \union valid) <= MaxRevoked
    /\ \A j \in valid : Verifies(j)
    /\ blacklist' = [j \in Jti |-> IF j \in valid THEN clock + LogoutTtl(j) ELSE blacklist[j]]
    /\ revoked' = revoked \union valid
    /\ UNCHANGED <<clock, tokenVars, userVars, pc, held, rotated, gateVars>>

\* The types of token that each dependency takes.  get_current_principal, which
\* require_any_authenticated and require_scope build on, takes whatever verifies.
AnyPrincipal == Types
ServiceOrUser == Types \ {"partner"}
PartnerOrUser == Types \ {"service"}
UserOnly == {"access"}

\* The dependency decodes the bearer token and looks at its type.  get_current_user
\* then awaits the user's version; the others let the request in at once.
StartRequest(w, j, accepted) ==
    /\ pc[w] \in Ended
    /\ IF Verifies(j) /\ token[j].type \in accepted
       THEN Begin(w, j, IF accepted = UserOnly THEN "version" ELSE "open")
       ELSE Finish(w, "idle")
    /\ opened' = [opened EXCEPT ![w] = IF pc'[w] = "version" THEN version ELSE @]
    /\ UNCHANGED <<clock, tokenVars, blacklist, userVars, seen, rotated, revoked>>

\* The endpoint of such a request has done its work.
Respond(w) ==
    /\ pc[w] = "open"
    /\ Finish(w, "admitted")
    /\ UNCHANGED <<clock, tokenVars, blacklist, userVars, rotated, revoked, gateVars>>

\* aget: a worker thread gets the version from the cache.
Get_Memoised(w) == seen[w]
Get(w) == version

ReadVersion(w) ==
    /\ pc[w] = "version"
    /\ seen' = [seen EXCEPT ![w] = Get(w)]
    /\ pc' = [pc EXCEPT ![w] = "gate"]
    /\ UNCHANGED <<clock, tokenVars, blacklist, userVars, held, rotated, revoked, opened>>

Outdated(w) == seen[w] > token[held[w]].ver

\* The request resumes with what was read, whatever has happened to the version since.
Gate(w) ==
    /\ pc[w] = "gate"
    /\ Finish(w, IF Outdated(w) THEN "outdated" ELSE "admitted")
    /\ seen' = [seen EXCEPT ![w] = 0]
    /\ opened' = [opened EXCEPT ![w] = 0]
    /\ UNCHANGED <<clock, tokenVars, blacklist, userVars, rotated, revoked>>

\* POST /auth/logout.  get_current_user must let the caller in, but nothing asks whose
\* the tokens are: it may be another user, whose own tokens are not modelled.
SignOut == \E r \in Jti : \E a \in 1..r : Logout({a, r})

-----------------------------------------------------------------------------
(* What happens around the calls. *)

\* TokenVersionService.bump: incr, or set(1) when the key is absent.
Bump ==
    /\ version < MaxBumps
    /\ version' = version + 1
    /\ UNCHANGED <<clock, tokenVars, blacklist, userExists, pc, held, rotated, revoked, gateVars>>

DeleteUser ==
    /\ userExists
    /\ userExists' = FALSE
    /\ UNCHANGED <<clock, tokenVars, blacklist, version, pc, held, rotated, revoked, gateVars>>

Tick ==
    /\ clock < MaxClock
    /\ clock' = clock + 1
    /\ UNCHANGED <<tokenVars, blacklist, userVars, pc, held, rotated, revoked, gateVars>>

\* POST /auth/refresh.
Refresh(w) ==
    \/ \E j \in Jti : StartRefresh(w, j)
    \/ FindUser(w) \/ Rotate(w) \/ RotateFails(w)

Next ==
    \/ \E w \in Clients : StartLogin(w) \/ LoginPair(w) \/ Refresh(w)
    \/ Grant(ServiceToken) \/ Grant(PartnerToken)
    \/ \E w \in Requests : ReadVersion(w) \/ Gate(w) \/ Respond(w)
    \/ \E w \in Requests, j \in Jti,
           accepted \in {AnyPrincipal, ServiceOrUser, PartnerOrUser, UserOnly} :
           StartRequest(w, j, accepted)
    \/ SignOut
    \/ Bump \/ DeleteUser \/ Tick

Spec == Init /\ [][Next]_vars

-----------------------------------------------------------------------------
(* Properties. *)

\* w exchanges the token it holds.
Exchanges(w) == pc[w] = "claims" /\ held[w] # None /\ pc'[w] = "issued"

\* w's call is let in with a token: past the check at its start.
LetsIn(w) == pc[w] \in Ended /\ pc'[w] \in {"version", "user", "open"}

\* Logging out is final.  However the tokens' seconds and the clock's fractions
\* fall, no request starts and no exchange ends with a token that was revoked
\* before, whatever dependency guards the request, and not even an exchange that
\* had started earlier (logout; the two calls of verify_token in refresh).
LogoutIsFinal ==
    [][\A w \in Workers :
          /\ LetsIn(w) => held'[w] \notin revoked
          /\ Exchanges(w) => held[w] \notin revoked]_vars

\* What logout stores holds for as long as the token could be used.
RevokedIsBlacklisted == \A j \in revoked : Expired(j) \/ Blacklisted(j)

\* A refresh token is exchanged again only during the last second of its life,
\* whatever calls run at the same time (rotate_refresh_token).
ExchangedOnce ==
    [][\A w \in Workers :
          (Exchanges(w) /\ rotated[held[w]] > 0)
              => clock > token[held[w]].exp - Tps]_vars

\* An authorisation change reaches every request behind get_current_user that begins
\* after it: whoever is admitted carries an access token minted under the version its
\* request found when it began, or a later one.  (The version is read in a thread and
\* compared after an await: a change that comes while the request is under way may be
\* missed.  The other dependencies do not read the version.)
ChangeReachesLaterRequests ==
    [][\A w \in Requests :
          (pc[w] = "gate" /\ pc'[w] = "admitted")
              => /\ token[held[w]].type = "access"
                 /\ token[held[w]].epoch >= opened[w]]_vars

=============================================================================
