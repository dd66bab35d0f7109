--------------------------- MODULE OutboundProofs ---------------------------
(***************************************************************************)
(* What Outbound guarantees for any number of callers, any threshold and   *)
(* any timeout: one client, calls in the right name, events that never     *)
(* raise, and a breaker that only silence opens.                           *)
(***************************************************************************)
EXTENDS Outbound, TLAPS

-----------------------------------------------------------------------------
(* The registry.                                                           *)

\* The registry has a client once one is built, a caller that is past it has seen
\* one, and a caller that makes its call holds that one.
RegistryInv ==
    /\ pc \in [Callers -> Location]
    /\ client \in [Callers -> Nat]
    /\ built \in {0, 1} /\ instance = built
    /\ \A c \in Callers : /\ pc[c] \in {"read", "call", "flight"} => built = 1
                          /\ pc[c] \in {"call", "flight"} => client[c] = 1

LEMMA InitRegistry == Init => RegistryInv
BY DEF Init, RegistryInv, Location

LEMMA NextRegistry == RegistryInv /\ [Next]_vars => RegistryInv'
<1> SUFFICES ASSUME RegistryInv, [Next]_vars PROVE RegistryInv'
  OBVIOUS
<1> USE DEF RegistryInv, Location, Goto, registryVars, callVars
<1>1. ASSUME NEW c \in Callers, Enter(c) PROVE RegistryInv'
  BY <1>1 DEF Enter, EnterWithoutUser, EnterWithUser, Refuse, StartWork
<1>2. ASSUME NEW c \in Callers, GoOn(c) PROVE RegistryInv'
  <2>1. ASSUME NEW operation, NEW ids, CallOperation(c, operation, ids)
        PROVE RegistryInv'
    BY <2>1 DEF CallOperation, End
  <2>2. CASE ForwardUserToken(c) \/ AskServiceToken(c) \/ UseServiceToken(c)
    BY <2>2 DEF ForwardUserToken, AskServiceToken, UseServiceToken
  <2>3. CASE LookUp(c)
    BY <2>3 DEF LookUp
  <2>4. CASE LockRegistry(c)
    BY <2>4 DEF LockRegistry
  <2>5. CASE BuildClient(c)
    BY <2>5 DEF BuildClient, MustBuild
  <2>6. CASE ReadRegistry(c)
    BY <2>6 DEF ReadRegistry
  <2>7. CASE Admitted(c)
    BY <2>7 DEF Admitted
  <2>8. CASE RejectCall(c)
    BY <2>8 DEF RejectCall
  <2>9. CASE RejectionHandled(c)
    BY <2>9 DEF RejectionHandled, End
  <2>10. ASSUME NEW result, Receive(c, result) PROVE RegistryInv'
    BY <2>10 DEF Receive, End
  <2> QED
    BY <1>2, <2>1, <2>2, <2>3, <2>4, <2>5, <2>6, <2>7, <2>8, <2>9, <2>10 DEF GoOn
<1>3. CASE RefreshServiceToken
  BY <1>3 DEF RefreshServiceToken
<1>4. CASE Tick
  BY <1>4 DEF Tick
<1>5. CASE UNCHANGED vars
  BY <1>5 DEF vars
<1> QED
  BY <1>1, <1>2, <1>3, <1>4, <1>5 DEF Next

\* All callers go through one client, and so through one breaker, whoever looks it
\* up first (HttpClient.get_instance).
THEOREM OneClientOnly == Spec => []OneClient
<1>1. RegistryInv => OneClient
  BY DEF RegistryInv, OneClient
<1> QED BY <1>1, InitRegistry, NextRegistry, PTL DEF Spec

-----------------------------------------------------------------------------
(* In whose name.                                                          *)

\* While a caller is at work, its context holds its own token if the middleware let it
\* in and none if not; once the headers are made they say the same.
NameInv ==
    /\ pc \in [Callers -> Location]
    /\ work \in [Callers -> {"none", "middleware", "other"}]
    /\ user \in [Callers -> Callers \union {Nobody}]
    /\ header \in [Callers -> Callers \union {"service", "blank", "none"}]
    /\ \A c \in Callers :
           /\ pc[c] # "idle" => user[c] = IF work[c] = "middleware" THEN c ELSE Nobody
           /\ pc[c] = "token" => work[c] # "middleware"
           /\ pc[c] \in {"registry", "lock", "locked", "read", "call", "flight"} =>
                  header[c] \in IF work[c] = "middleware" THEN {c}
                                                          ELSE {"service", "blank", "none"}

LEMMA InitName == Init => NameInv
BY DEF Init, NameInv, Location

LEMMA NextName == NameInv /\ [Next]_vars => NameInv'
<1> SUFFICES ASSUME NameInv, [Next]_vars PROVE NameInv'
  OBVIOUS
<1> USE NobodyAssumption DEF NameInv, Location, Goto, registryVars, callVars
<1>1. ASSUME NEW c \in Callers, Enter(c) PROVE NameInv'
  <2>1. CASE EnterWithoutUser(c)
    BY <2>1 DEF EnterWithoutUser, StartWork, NewContext
  <2>2. CASE EnterWithUser(c)
    BY <2>2 DEF EnterWithUser, StartWork, SetUserToken
  <2>3. CASE Refuse(c)
    BY <2>3 DEF Refuse
  <2> QED BY <1>1, <2>1, <2>2, <2>3 DEF Enter
<1>2. ASSUME NEW c \in Callers, GoOn(c) PROVE NameInv'
  <2>1. ASSUME NEW operation, NEW ids, CallOperation(c, operation, ids)
        PROVE NameInv'
    BY <2>1 DEF CallOperation, End
  <2>2. CASE ForwardUserToken(c)
    BY <2>2 DEF ForwardUserToken
  <2>3. CASE AskServiceToken(c)
    BY <2>3 DEF AskServiceToken
  <2>4. CASE UseServiceToken(c)
    <3>1. pc[c] = "token" /\ work[c] # "middleware"
      BY <2>4 DEF UseServiceToken
    <3> QED BY <2>4, <3>1 DEF UseServiceToken
  <2>5. CASE LookUp(c) \/ LockRegistry(c) \/ BuildClient(c) \/ ReadRegistry(c)
    BY <2>5 DEF LookUp, LockRegistry, BuildClient, ReadRegistry
  <2>6. CASE Admitted(c) \/ RejectCall(c)
    BY <2>6 DEF Admitted, RejectCall
  <2>7. CASE RejectionHandled(c)
    BY <2>7 DEF RejectionHandled, End
  <2>8. ASSUME NEW result, Receive(c, result) PROVE NameInv'
    BY <2>8 DEF Receive, End
  <2> QED
    BY <1>2, <2>1, <2>2, <2>3, <2>4, <2>5, <2>6, <2>7, <2>8 DEF GoOn
<1>3. CASE RefreshServiceToken \/ Tick
  BY <1>3 DEF RefreshServiceToken, Tick
<1>4. CASE UNCHANGED vars
  BY <1>4 DEF vars
<1> QED
  BY <1>1, <1>2, <1>3, <1>4 DEF Next

\* A call for a request that the middleware let in carries that request's token, and
\* any other call no user's, whatever other requests are let in meanwhile and whatever
\* the token manager answers (_default_headers).
THEOREM InTheRightName == Spec => []OnBehalfOf
<1>1. NameInv => OnBehalfOf
  BY DEF NameInv, OnBehalfOf
<1> QED BY <1>1, InitName, NextName, PTL DEF Spec

-----------------------------------------------------------------------------
(* The breaker inside.                                                     *)

\* Only an open breaker is probing.
FlagInv == state \in {"closed", "open"} /\ probing \in BOOLEAN
           /\ (probing => state = "open")

\* The counter is the threshold on an open breaker and never runs ahead of the
\* silence.
CountInv ==
    /\ failureCount \in 0..FailureThreshold /\ silent \in 0..FailureThreshold
    /\ failureCount <= silent
    /\ state = "open" => failureCount = FailureThreshold

SilenceInv == FlagInv /\ CountInv

LEMMA InitSilence == Init => SilenceInv
<1> SUFFICES ASSUME Init PROVE SilenceInv
  OBVIOUS
<1>1. state = "closed" /\ failureCount = 0 /\ silent = 0
  BY DEF Init, Breaker!Init
<1>2. probing = FALSE
  BY DEF Init, Breaker!Init
<1>3. FlagInv
  BY <1>1, <1>2 DEF FlagInv
<1>4. CountInv
  BY <1>1, ThresholdAssumption DEF CountInv
<1> QED BY <1>3, <1>4 DEF SilenceInv

\* What is received from the service, or instead of it.
LEMMA ReceiveSilence ==
    ASSUME SilenceInv, NEW c \in Callers,
           NEW result \in Answers \union TransportErrors \union OtherErrors,
           Receive(c, result)
    PROVE  SilenceInv'
<1> USE ThresholdAssumption DEF SilenceInv
<1>1. CASE result \in Answers
  <2>1. Breaker!RecordSuccess(c) /\ silent' = 0
    BY <1>1 DEF Receive, Record, Answers, TransportErrors, OtherErrors
  <2>2. state' = "closed" /\ failureCount' = 0
    BY <2>1 DEF Breaker!RecordSuccess, Breaker!CloseCircuit
  <2>3. probing' = FALSE
    BY <2>1 DEF Breaker!RecordSuccess, Breaker!ClearFlag
  <2>4. FlagInv'
    BY <2>2, <2>3 DEF FlagInv
  <2>5. CountInv'
    BY <2>1, <2>2 DEF CountInv
  <2> QED BY <2>4, <2>5
<1>2. CASE result \in TransportErrors
  <2>1. Breaker!RecordFailure(c)
    BY <1>2 DEF Receive, Record, Answers, TransportErrors, OtherErrors
  <2>2. silent' = IF silent < FailureThreshold THEN silent + 1 ELSE silent
    BY <1>2 DEF Receive, Answers, TransportErrors
  <2>3. probing' = FALSE /\ failureCount' = Breaker!Counted
    BY <2>1 DEF Breaker!RecordFailure, Breaker!ClearFlag
  <2>4. state' = IF ~probing /\ Breaker!Counted >= FailureThreshold
                 THEN "open" ELSE state
    BY <2>1 DEF Breaker!RecordFailure
  <2>5. FlagInv'
    BY <2>3, <2>4 DEF FlagInv
  <2>6. CountInv'
    BY <2>2, <2>3, <2>4 DEF CountInv, Breaker!Counted
  <2> QED BY <2>5, <2>6
<1>3. CASE result \in OtherErrors
  <2>1. Breaker!Escape(c) /\ silent' = silent
    BY <1>3 DEF Receive, Record, Answers, TransportErrors, OtherErrors
  <2> QED
    BY <2>1 DEF Breaker!Escape, FlagInv, CountInv
<1> QED BY <1>1, <1>2, <1>3

LEMMA NextSilence == SilenceInv /\ [Next]_vars => SilenceInv'
<1> SUFFICES ASSUME SilenceInv, [Next]_vars PROVE SilenceInv'
  OBVIOUS
<1> USE DEF SilenceInv, FlagInv, CountInv, breakerVars
<1>1. ASSUME NEW c \in Callers, Enter(c) PROVE SilenceInv'
  BY <1>1 DEF Enter, EnterWithoutUser, EnterWithUser, Refuse, StartWork
<1>2. ASSUME NEW c \in Callers, GoOn(c) PROVE SilenceInv'
  <2>1. ASSUME NEW operation, NEW ids, CallOperation(c, operation, ids)
        PROVE SilenceInv'
    BY <2>1 DEF CallOperation
  <2>2. CASE \/ ForwardUserToken(c) \/ AskServiceToken(c) \/ UseServiceToken(c)
             \/ LookUp(c) \/ LockRegistry(c) \/ BuildClient(c) \/ ReadRegistry(c)
    BY <2>2 DEF ForwardUserToken, AskServiceToken, UseServiceToken, LookUp,
                LockRegistry, BuildClient, ReadRegistry
  <2>3. CASE Admitted(c)
    <3>1. CASE Breaker!Admit(c)
      BY <2>3, <3>1 DEF Admitted, Breaker!Admit
    <3>2. CASE Breaker!AdmitProbe(c)
      <4>1. UNCHANGED <<state, failureCount, silent>> /\ state = "open"
        BY <2>3, <3>2 DEF Admitted, Breaker!AdmitProbe, Breaker!MayProbe
      <4>2. probing' = TRUE
        BY <3>2 DEF Breaker!AdmitProbe
      <4> QED BY <4>1, <4>2
    <3> QED BY <2>3, <3>1, <3>2 DEF Admitted
  <2>4. CASE RejectCall(c)
    BY <2>4 DEF RejectCall, Breaker!Reject
  <2>5. CASE RejectionHandled(c)
    BY <2>5 DEF RejectionHandled, Breaker!HandleRejection
  <2>6. ASSUME NEW result \in Answers \union TransportErrors \union OtherErrors,
               Receive(c, result)
        PROVE SilenceInv'
    BY <2>6, ReceiveSilence
  <2> QED
    BY <1>2, <2>1, <2>2, <2>3, <2>4, <2>5, <2>6 DEF GoOn
<1>3. CASE RefreshServiceToken
  BY <1>3 DEF RefreshServiceToken
<1>4. CASE Tick
  BY <1>4 DEF Tick, Breaker!Tick
<1>5. CASE UNCHANGED vars
  BY <1>5 DEF vars
<1> QED
  BY <1>1, <1>2, <1>3, <1>4, <1>5 DEF Next

\* The circuit opens only on a service that has been silent for as many calls as the
\* threshold, whatever late calls and probes come to (expected_exceptions of
\* HttpClient).
THEOREM OnlySilenceOpens == Spec => []AnsweringServiceIsCalled
<1>1. SilenceInv => AnsweringServiceIsCalled
  BY DEF SilenceInv, CountInv, AnsweringServiceIsCalled
<1> QED BY <1>1, InitSilence, NextSilence, PTL DEF Spec

-----------------------------------------------------------------------------
(* Events.                                                                 *)

\* Every caller has a method, and an outcome.
CallInv == op \in [Callers -> {"none", "_post", "_request"}] /\ DOMAIN outcome = Callers

LEMMA InitCall == Init => CallInv
BY DEF Init, CallInv

LEMMA EndOfCall ==
    ASSUME CallInv, NEW c \in Callers, NEW what, End(c, what)
    PROVE  CallInv' /\ outcome'[c] = what /\ \A d \in Callers \ {c} : op'[d] = op[d]
BY DEF CallInv, End

\* Whatever suppress() is given, a call of _post returns.
LEMMA PostReturns ==
    ASSUME NEW method, method = "_post", NEW e
    PROVE  OutcomeOf(method, e) = Returned
BY DEF OutcomeOf, Suppress

LEMMA NextCall ==
    ASSUME CallInv, [Next]_vars
    PROVE  /\ CallInv'
           /\ \A c \in Callers :
                  op[c] = "_post" /\ op'[c] = "none" => outcome'[c] = Returned
<1> DEFINE Goal == /\ CallInv'
                   /\ \A c \in Callers : op[c] = "_post" /\ op'[c] = "none" =>
                                             outcome'[c] = Returned
<1>1. ASSUME UNCHANGED <<op, outcome>> PROVE Goal
  BY <1>1 DEF CallInv
<1>2. ASSUME NEW c \in Callers, Enter(c) PROVE Goal
  BY <1>2 DEF Enter, EnterWithoutUser, EnterWithUser, Refuse, StartWork, CallInv
<1>3. ASSUME NEW c \in Callers, GoOn(c) PROVE Goal
  <2>1. ASSUME NEW operation, NEW ids, CallOperation(c, operation, ids) PROVE Goal
    <3>1. CASE NeedsNoCall(operation, ids)
      <4>1. End(c, Returned)
        BY <2>1, <3>1 DEF CallOperation
      <4> QED BY <4>1, EndOfCall
    <3>2. CASE ~NeedsNoCall(operation, ids)
      BY <2>1, <3>2 DEF CallOperation, CallInv, Through
    <3> QED BY <3>1, <3>2
  <2>2. CASE \/ ForwardUserToken(c) \/ AskServiceToken(c) \/ UseServiceToken(c)
             \/ LookUp(c) \/ LockRegistry(c) \/ BuildClient(c) \/ ReadRegistry(c)
             \/ Admitted(c) \/ RejectCall(c)
    <3>1. UNCHANGED <<op, outcome>>
      BY <2>2 DEF ForwardUserToken, AskServiceToken, UseServiceToken, LookUp,
                  LockRegistry, BuildClient, ReadRegistry, Admitted, RejectCall,
                  callVars
    <3> QED BY <3>1, <1>1
  <2>3. CASE RejectionHandled(c)
    <3>1. End(c, OutcomeOf(op[c], CircuitBreakerOpenError))
      BY <2>3 DEF RejectionHandled
    <3>2. op[c] = "_post" => OutcomeOf(op[c], CircuitBreakerOpenError) = Returned
      BY PostReturns
    <3> QED BY <3>1, <3>2, EndOfCall
  <2>4. ASSUME NEW result, Receive(c, result) PROVE Goal
    <3> DEFINE what == IF result = "data" THEN Returned
                                          ELSE OutcomeOf(op[c], Wrapped(result))
    <3>1. End(c, what)
      BY <2>4 DEF Receive
    <3>2. op[c] = "_post" => what = Returned
      BY PostReturns
    <3> HIDE DEF what
    <3> QED BY <3>1, <3>2, EndOfCall
  <2> QED
    BY <1>3, <2>1, <2>2, <2>3, <2>4 DEF GoOn
<1>4. CASE RefreshServiceToken \/ Tick
  BY <1>4, <1>1 DEF RefreshServiceToken, Tick, callVars
<1>5. CASE UNCHANGED vars
  BY <1>5, <1>1 DEF vars, callVars
<1> QED
  BY <1>2, <1>3, <1>4, <1>5 DEF Next

\* Publishing an event returns to its caller, whatever the token manager, the breaker
\* and the service make of it (_post: "swallows all errors").
THEOREM EventsReturn == Spec => EventsNeverRaise
<1>1. CallInv /\ [Next]_vars => CallInv'
  BY NextCall
<1>2. CallInv /\ [Next]_vars =>
          [\A c \in Callers :
              op[c] = "_post" /\ op'[c] = "none" => outcome'[c] = Returned]_vars
  BY NextCall
<1> QED BY <1>1, <1>2, InitCall, PTL DEF Spec, EventsNeverRaise

-----------------------------------------------------------------------------
(* The composition.                                                        *)

\* Each action is one of the breaker's or leaves the breaker alone.
LEMMA BreakerStep == [Next]_vars => [Breaker!Next]_(Breaker!vars)
<1> SUFFICES ASSUME [Next]_vars PROVE Breaker!Next \/ UNCHANGED breakerVars
  BY DEF Breaker!vars, breakerVars
<1>1. ASSUME NEW c \in Callers, Enter(c) PROVE UNCHANGED breakerVars
  BY <1>1 DEF Enter, EnterWithoutUser, EnterWithUser, Refuse, StartWork
<1>2. ASSUME NEW c \in Callers, GoOn(c) PROVE Breaker!Next \/ UNCHANGED breakerVars
  <2>1. ASSUME NEW operation, NEW ids, CallOperation(c, operation, ids)
        PROVE UNCHANGED breakerVars
    BY <2>1 DEF CallOperation
  <2>2. CASE \/ ForwardUserToken(c) \/ AskServiceToken(c) \/ UseServiceToken(c)
             \/ LookUp(c) \/ LockRegistry(c) \/ BuildClient(c) \/ ReadRegistry(c)
    BY <2>2 DEF ForwardUserToken, AskServiceToken, UseServiceToken, LookUp,
                LockRegistry, BuildClient, ReadRegistry
  <2>3. CASE Admitted(c) \/ RejectCall(c) \/ RejectionHandled(c)
    BY <2>3 DEF Admitted, RejectCall, RejectionHandled, Breaker!Next
  <2>4. ASSUME NEW result \in Answers \union TransportErrors \union OtherErrors,
               Receive(c, result)
        PROVE Breaker!Next
    <3>1. Record(c, result)
      BY <2>4 DEF Receive
    <3>2. \/ Breaker!RecordFailure(c) \/ Breaker!Escape(c) \/ Breaker!RecordSuccess(c)
      BY <3>1 DEF Record, Answers, TransportErrors, OtherErrors
    <3> QED BY <3>2 DEF Breaker!Next
  <2> QED BY <1>2, <2>1, <2>2, <2>3, <2>4 DEF GoOn
<1>3. CASE RefreshServiceToken
  BY <1>3 DEF RefreshServiceToken
<1>4. CASE Tick
  BY <1>4 DEF Tick, Breaker!Next
<1>5. CASE UNCHANGED vars
  BY <1>5 DEF vars
<1> QED BY <1>1, <1>2, <1>3, <1>4, <1>5 DEF Next

\* The client uses its breaker as CircuitBreaker says it is used, so that all that
\* is proved of CircuitBreaker holds of the calls of the dispatchers.
THEOREM ImplementsBreaker == Spec => Breaker!Spec
<1>1. Init => Breaker!Init
  BY DEF Init
<1> QED BY <1>1, BreakerStep, PTL DEF Spec, Breaker!Spec

-----------------------------------------------------------------------------
(* Types.                                                                  *)

LEMMA BreakerType ==
    ASSUME Breaker!TypeOK, [Breaker!Next]_(Breaker!vars)
    PROVE  Breaker!TypeOK'
<1> USE ThresholdAssumption, TimeoutAssumption DEF Breaker!TypeOK, Breaker!CallStatus
<1>1. ASSUME NEW t \in Callers, Breaker!Admit(t) PROVE Breaker!TypeOK'
  BY <1>1 DEF Breaker!Admit
<1>2. ASSUME NEW t \in Callers, Breaker!AdmitProbe(t) PROVE Breaker!TypeOK'
  BY <1>2 DEF Breaker!AdmitProbe
<1>3. ASSUME NEW t \in Callers, Breaker!Reject(t) \/ Breaker!HandleRejection(t)
      PROVE Breaker!TypeOK'
  BY <1>3 DEF Breaker!Reject, Breaker!HandleRejection
<1>4. ASSUME NEW t \in Callers, Breaker!RecordFailure(t) PROVE Breaker!TypeOK'
  <2>1. calls' \in [Callers -> Breaker!CallStatus]
    BY <1>4 DEF Breaker!RecordFailure
  <2>2. failureCount' \in 0..FailureThreshold /\ failureAge' \in 0..RecoveryTimeout
    BY <1>4 DEF Breaker!RecordFailure, Breaker!Counted, Breaker!RestartTimer
  <2>3. /\ state' \in {"closed", "open"} /\ probing' \in BOOLEAN
        /\ probeAge' \in 0..RecoveryTimeout /\ leaked' \in BOOLEAN
    BY <1>4 DEF Breaker!RecordFailure, Breaker!ClearFlag
  <2> QED BY <2>1, <2>2, <2>3
<1>5. ASSUME NEW t \in Callers, Breaker!RecordSuccess(t) PROVE Breaker!TypeOK'
  <2>1. calls' \in [Callers -> Breaker!CallStatus]
    BY <1>5 DEF Breaker!RecordSuccess
  <2>2. /\ failureCount' \in 0..FailureThreshold /\ failureAge' \in 0..RecoveryTimeout
        /\ probeAge' \in 0..RecoveryTimeout
    BY <1>5 DEF Breaker!RecordSuccess, Breaker!CloseCircuit
  <2>3. state' \in {"closed", "open"} /\ probing' \in BOOLEAN /\ leaked' \in BOOLEAN
    BY <1>5 DEF Breaker!RecordSuccess, Breaker!ClearFlag, Breaker!CloseCircuit
  <2> QED BY <2>1, <2>2, <2>3
<1>6. ASSUME NEW t \in Callers, Breaker!Escape(t) PROVE Breaker!TypeOK'
  BY <1>6 DEF Breaker!Escape
<1>7. CASE Breaker!Tick
  BY <1>7 DEF Breaker!Tick, Breaker!Older
<1>8. CASE UNCHANGED Breaker!vars
  BY <1>8 DEF Breaker!vars
<1> QED BY <1>1, <1>2, <1>3, <1>4, <1>5, <1>6, <1>7, <1>8 DEF Breaker!Next

Outcome == {NoOutcome, Returned} \union [returned : {FALSE}, status : {401, 500, 502, 503}]

LEMMA OutcomeType ==
    /\ NoOutcome \in Outcome /\ Returned \in Outcome
    /\ \A status \in {401, 500, 502, 503} :
           [returned |-> FALSE, status |-> status] \in Outcome
BY DEF Outcome

LEMMA StatusType ==
    ASSUME NEW method, NEW result
    PROVE  /\ OutcomeOf(method, Wrapped(result)) \in Outcome
           /\ OutcomeOf(method, CircuitBreakerOpenError) \in Outcome
<1>1. StatusOfError(CircuitBreakerOpenError) = 503
  BY DEF StatusOfError, CircuitBreakerOpenError
<1>2. CASE result \in OtherErrors
  <2>1. Wrapped(result) = [class |-> "InvalidURL", carries |-> 500]
    BY <1>2 DEF OtherErrors, Wrapped, OtherError
  <2>2. StatusOf(Wrapped(result)) = 500
    BY <2>1 DEF StatusOf, IsInstance, HandleGenericException, Bases, DefaultStatus
  <2>3. StatusOfError(Wrapped(result)) = 500
    BY <2>1, <2>2 DEF StatusOfError, CircuitBreakerOpenError
  <2> QED BY <1>1, <2>3, OutcomeType DEF OutcomeOf, RaisedError
<1>3. CASE result \notin OtherErrors
  <2>1. Wrapped(result) = [class |-> "ExternalServiceError", carries |-> 502]
    BY <1>3 DEF Wrapped, AppError, DefaultStatus
  <2>2. StatusOf(Wrapped(result)) = 502
    BY <2>1 DEF StatusOf, HandleCarried, IsInstance, DefaultStatus
  <2>3. StatusOfError(Wrapped(result)) = 502
    BY <2>1, <2>2 DEF StatusOfError, CircuitBreakerOpenError
  <2> QED BY <1>1, <2>3, OutcomeType DEF OutcomeOf, RaisedError
<1> QED BY <1>2, <1>3

\* TypeOK without the breaker, whose variables have lemmas of their own.
CallerType ==
    /\ held \in BOOLEAN /\ cause \in {"never", "nothing", "empty_answer"}
    /\ instance \in Nat /\ built \in Nat
    /\ lock \in Callers \union {Nobody}
    /\ pc \in [Callers -> Location]
    /\ op \in [Callers -> {"none", "_post", "_request"}]
    /\ work \in [Callers -> {"none", "middleware", "other"}]
    /\ user \in [Callers -> Callers \union {Nobody}]
    /\ header \in [Callers -> Callers \union {"service", "blank", "none"}]
    /\ client \in [Callers -> Nat]
    /\ outcome \in [Callers -> Outcome]

LEMMA EndType ==
    ASSUME CallerType, NEW c \in Callers, NEW what \in Outcome, End(c, what),
           UNCHANGED registryVars
    PROVE  CallerType'
BY DEF CallerType, End, Goto, Location, Token!Forget, registryVars

LEMMA NextCallerType == CallerType /\ [Next]_vars => CallerType'
<1> SUFFICES ASSUME CallerType, [Next]_vars PROVE CallerType'
  OBVIOUS
<1> USE DEF CallerType, Goto, Location, tokenVars, registryVars, callVars
<1>1. ASSUME NEW c \in Callers, Enter(c) PROVE CallerType'
  <2>1. CASE EnterWithoutUser(c)
    BY <2>1, OutcomeType DEF EnterWithoutUser, StartWork, NewContext
  <2>2. CASE EnterWithUser(c)
    BY <2>2, OutcomeType DEF EnterWithUser, StartWork, SetUserToken
  <2>3. CASE Refuse(c)
    BY <2>3, OutcomeType DEF Refuse
  <2> QED BY <1>1, <2>1, <2>2, <2>3 DEF Enter
<1>2. ASSUME NEW c \in Callers, GoOn(c) PROVE CallerType'
  <2>1. ASSUME NEW operation, NEW ids, CallOperation(c, operation, ids)
        PROVE CallerType'
    <3>1. CASE NeedsNoCall(operation, ids)
      BY <2>1, <3>1, EndType, OutcomeType DEF CallOperation
    <3>2. CASE ~NeedsNoCall(operation, ids)
      BY <2>1, <3>2 DEF CallOperation, Through
    <3> QED BY <3>1, <3>2
  <2>2. CASE ForwardUserToken(c)
    BY <2>2 DEF ForwardUserToken
  <2>3. CASE AskServiceToken(c)
    BY <2>3 DEF AskServiceToken, Token!Ask
  <2>4. CASE UseServiceToken(c)
    BY <2>4 DEF UseServiceToken, Token!Reply
  <2>5. CASE LookUp(c) \/ LockRegistry(c) \/ ReadRegistry(c)
    BY <2>5 DEF LookUp, LockRegistry, ReadRegistry
  <2>6. CASE BuildClient(c)
    BY <2>6 DEF BuildClient, MustBuild, ReleaseRegistry
  <2>7. CASE Admitted(c) \/ RejectCall(c)
    BY <2>7 DEF Admitted, RejectCall
  <2>8. CASE RejectionHandled(c)
    <3> DEFINE what == OutcomeOf(op[c], CircuitBreakerOpenError)
    <3>1. what \in Outcome
      BY StatusType
    <3>2. End(c, what) /\ UNCHANGED registryVars
      BY <2>8 DEF RejectionHandled
    <3> HIDE DEF what, CallerType, tokenVars, registryVars
    <3> QED BY <3>1, <3>2, EndType
  <2>9. ASSUME NEW result, Receive(c, result) PROVE CallerType'
    <3> DEFINE what == IF result = "data" THEN Returned
                                          ELSE OutcomeOf(op[c], Wrapped(result))
    <3>1. what \in Outcome
      BY StatusType, OutcomeType
    <3>2. End(c, what) /\ UNCHANGED registryVars
      BY <2>9 DEF Receive
    <3> HIDE DEF what, CallerType, tokenVars, registryVars
    <3> QED BY <3>1, <3>2, EndType
  <2> QED
    BY <1>2, <2>1, <2>2, <2>3, <2>4, <2>5, <2>6, <2>7, <2>8, <2>9 DEF GoOn
<1>3. CASE RefreshServiceToken
  BY <1>3 DEF RefreshServiceToken, Token!Obtain, Token!ObtainEmpty
<1>4. CASE Tick
  BY <1>4 DEF Tick
<1>5. CASE UNCHANGED vars
  BY <1>5 DEF vars
<1> QED BY <1>1, <1>2, <1>3, <1>4, <1>5 DEF Next

\* Type correctness, statuses included: a call of a dispatcher is answered 500, 502
\* or 503 when it fails, and an unauthenticated request 401.
THEOREM TypeCorrect == Spec => []TypeOK
<1>1. Init => Breaker!TypeOK
  <2> SUFFICES ASSUME Init PROVE Breaker!TypeOK
    OBVIOUS
  <2> USE ThresholdAssumption, TimeoutAssumption DEF Init, Breaker!Init
  <2>1. calls \in [Callers -> Breaker!CallStatus]
    BY DEF Breaker!CallStatus
  <2>2. failureCount \in 0..FailureThreshold
        /\ failureAge \in 0..RecoveryTimeout /\ probeAge \in 0..RecoveryTimeout
    OBVIOUS
  <2>3. state \in {"closed", "open"} /\ probing \in BOOLEAN /\ leaked \in BOOLEAN
    OBVIOUS
  <2> QED BY <2>1, <2>2, <2>3 DEF Breaker!TypeOK
<1>2. Init => CallerType
  <2> SUFFICES ASSUME Init PROVE CallerType
    OBVIOUS
  <2>1. held \in BOOLEAN /\ cause = "never"
    BY DEF Init, Token!Init
  <2> QED BY <2>1, OutcomeType DEF Init, CallerType, Location
<1>3. Breaker!TypeOK /\ [Next]_vars => Breaker!TypeOK'
  BY BreakerStep, BreakerType
<1>4. Breaker!TypeOK /\ CallerType => TypeOK
  BY DEF CallerType, TypeOK, Outcome
<1> QED BY <1>1, <1>2, <1>3, <1>4, NextCallerType, PTL DEF Spec
=============================================================================
