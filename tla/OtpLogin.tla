------------------------------ MODULE OtpLogin ------------------------------
(***************************************************************************)
(* Login by one-time code for one phone number: AuthUseCases.send_otp and  *)
(* verify_otp (accounts/api/application/use_cases/auth_use_cases.py), the  *)
(* admin create and delete of OTPUseCases, the admin site of               *)
(* accounts/admin.py, the counters of OTPHandler                           *)
(* (common/auth/otp/handler.py) and the rows they share: OTP, PhoneNumber  *)
(* and User.                                                               *)
(*                                                                         *)
(* A request is a coroutine.  It runs alone from one await to the next, so *)
(* what is synchronous, the cache counters among it, is one step, and each *)
(* awaited query is a step of its own; the requests interleave at the      *)
(* awaits.  There is no transaction around a request.                      *)
(*                                                                         *)
(* A code is what an OTP row is given at one time, its digits and its      *)
(* expires_at; codes are numbered.  Generated digits are new (two draws    *)
(* alike are not modelled), an administrator may supply old ones; digits 0 *)
(* are a wrong guess.  Counters and codes expire at any time after they    *)
(* were set.  Phones do not interact, so one is enough.                    *)
(*                                                                         *)
(* A definition X_<mistake>, placed before X, is X with a plausible        *)
(* mistake, swapped in for X to confirm that some property notices.        *)
(***************************************************************************)
EXTENDS Integers, Sequences, FiniteSets

CONSTANTS
    Senders,      \* concurrent calls of send_otp
    Verifiers,    \* concurrent calls of verify_otp
    Admins,       \* concurrent calls of the admin endpoints
    RateMax,      \* OTP_RATE_LIMIT_MAX
    MaxAttempts,  \* MAX_VERIFY_ATTEMPTS
    MaxRunning,   \* bound on the requests that run at once
    MaxCodes,     \* bound on the codes
    MaxRows,      \* bound on the OTP rows ever created
    MaxUsers,     \* bound on the users ever created
    MaxMade       \* bound on the codes and the users together

ASSUME LimitsAssumption == RateMax \in Nat \ {0} /\ MaxAttempts \in Nat \ {0}
ASSUME FiniteAssumption == IsFiniteSet(Senders) /\ IsFiniteSet(Verifiers)
ASSUME BoundsAssumption == {MaxCodes, MaxRows, MaxUsers} \subseteq Nat

VARIABLES
    row,       \* the OTP row of the phone: NoRow or [pk, code]
    rows,      \* the last primary key given out
    digits,    \* the digits of each code there has been
    expired,   \* the codes whose expires_at has passed
    rate,      \* cache: otp_rate:<phone>
    attempts,  \* cache: otp_verify:<phone>
    owner,     \* PhoneNumber.user, or NoUser while there is no such row
    users,     \* the User rows, by primary key
    made,      \* the last primary key of a User
    pc,        \* where each request is
    obj,       \* the OTP instance a request holds
    guess,     \* the code a verify request carries
    user,      \* the user a verify request has resolved
    history    \* what the requests have seen and done, for the properties

otpVars == <<row, rows, digits>>
userVars == <<owner, users, made>>
vars == <<otpVars, userVars, expired, rate, attempts, pc, obj, guess, user, history>>

Requests == Senders \union Verifiers \union Admins
Codes == 1..MaxCodes
issued == Len(digits)
Wrong == 0
NoUser == 0
Users == 1..MaxUsers
NoRow == [pk |-> 0, code |-> 0]
Row == [pk : 0..MaxRows, code : 0..MaxCodes]

\* A request has ended, with the limit's 429 or in any other way; what it held
\* is gone and another request may follow.
Ended == {"idle", "limited"}
Running == {"row", "save", "deliver",
            "read", "decide", "delete", "phone", "user", "create", "link",
            "issue", "adminRow", "adminSave"}

TypeOK ==
    /\ row \in Row
    /\ rows \in 0..MaxRows
    /\ digits \in Seq(Codes) /\ issued <= MaxCodes
    /\ expired \subseteq Codes
    /\ rate \in Nat /\ attempts \in Nat
    /\ owner \in users \union {NoUser}
    /\ users \subseteq 1..made /\ made \in 0..MaxUsers
    /\ pc \in [Requests -> Ended \union Running]
    /\ obj \in [Requests -> Row]
    /\ guess \in [Verifiers -> 0..MaxCodes]
    /\ user \in [Verifiers -> 0..made]

Init ==
    /\ row = NoRow /\ rows = 0 /\ digits = <<>> /\ expired = {}
    /\ rate = 0 /\ attempts = 0
    /\ owner = NoUser /\ users = {} /\ made = 0
    /\ pc = [r \in Requests |-> "idle"]
    /\ obj = [r \in Requests |-> NoRow]
    /\ guess = [v \in Verifiers |-> Wrong]
    /\ user = [v \in Verifiers |-> NoUser]
    /\ history = [sends     |-> 0,      \* deliveries counted by the rate entry
                  misses    |-> 0,      \* misses counted by the attempts entry
                  retired   |-> {},     \* codes once stored and no longer so
                  accepted  |-> {},     \* codes that a verify request matched
                  late      |-> [v \in Verifiers |-> {}],
                  owners    |-> [v \in Verifiers |-> {}]]

-----------------------------------------------------------------------------
Goto(r, location) == pc' = [pc EXCEPT ![r] = location]

CanStart(r) ==
    /\ pc[r] \in Ended
    /\ Cardinality({q \in Requests : pc[q] \notin Ended}) < MaxRunning

\* set_otp_and_validity(): a code with new digits.  OTPCreateDTO and the admin site
\* may supply digits and expires_at.
CanIssue == issued < MaxCodes /\ issued + made < MaxMade
NextCode == issued + 1
Generated == {NextCode}
Supplied == 1..NextCode
Draw(choices) == CanIssue /\ \E d \in choices : digits' = Append(digits, d)

\* The database holds `new` for the phone; the code held before is retired.
StoreRow(new) ==
    /\ row' = new
    /\ history' = [history EXCEPT !.retired =
          IF row # NoRow /\ row.code # new.code THEN @ \union {row.code} ELSE @]

Limited_OffByOne == rate > RateMax
Limited == rate >= RateMax

\* send_otp: is_rate_limited().
SendCheck(s) ==
    /\ CanStart(s)
    /\ Goto(s, IF Limited THEN "limited" ELSE "row")
    /\ UNCHANGED <<otpVars, userVars, expired, rate, attempts, obj, guess, user,
                   history>>

\* get_or_create(phone).  A new row saves itself with a generated code; for a row that
\* was there the request draws the code it is about to save.
Create(r, next) ==
    /\ row = NoRow /\ rows < MaxRows
    /\ Draw(Generated)
    /\ rows' = rows + 1
    /\ StoreRow([pk |-> rows', code |-> NextCode])
    /\ obj' = [obj EXCEPT ![r] = row']
    /\ Goto(r, next)
    /\ UNCHANGED <<userVars, expired, rate, attempts, guess, user>>

Redraw(r, pk, choices, next) ==
    /\ Draw(choices)
    /\ obj' = [obj EXCEPT ![r] = [pk |-> pk, code |-> NextCode]]
    /\ Goto(r, next)
    /\ UNCHANGED <<row, rows, userVars, expired, rate, attempts, guess, user, history>>

SendRow_KeepsOldCode(s) ==
    /\ pc[s] = "row"
    /\ \/ Create(s, "deliver")
       \/ /\ row # NoRow
          /\ Draw(Generated)
          /\ obj' = [obj EXCEPT ![s] = row]
          /\ Goto(s, "save")
          /\ UNCHANGED <<row, rows, userVars, expired, rate, attempts, guess, user,
                         history>>

SendRow(s) ==
    /\ pc[s] = "row"
    /\ \/ Create(s, "deliver")
       \/ row # NoRow /\ Redraw(s, row.pk, Generated, "save")

\* asave(): UPDATE by primary key, or INSERT when the row has been deleted
\* meanwhile.  A new row for the phone makes the INSERT fail (phone is unique).
Save(r, next) ==
    /\ IF row = NoRow \/ row.pk = obj[r].pk
       THEN StoreRow(obj[r]) /\ Goto(r, next)
       ELSE Goto(r, "idle") /\ UNCHANGED <<row, history>>
    /\ obj' = IF pc'[r] = "idle" THEN [obj EXCEPT ![r] = NoRow] ELSE obj
    /\ UNCHANGED <<rows, digits, userVars, expired, rate, attempts, guess, user>>

SendSave(s) == pc[s] = "save" /\ Save(s, "deliver")

CountSend_Down == rate' = rate - 1
CountSend == rate' = rate + 1

\* increment_rate(), then the dispatcher.
Deliver(s) ==
    /\ pc[s] = "deliver"
    /\ CountSend
    /\ history' = [history EXCEPT !.sends = @ + 1]
    /\ Goto(s, "idle")
    /\ obj' = [obj EXCEPT ![s] = NoRow]
    /\ UNCHANGED <<otpVars, userVars, expired, attempts, guess, user>>

-----------------------------------------------------------------------------
VerifyLimited_Never == FALSE
VerifyLimited == attempts >= MaxAttempts

\* The codes with these digits that can no longer be used.
Spent(d) == {code \in history.retired \union expired : digits[code] = d}

\* verify_otp: is_verify_rate_limited().
VerifyCheck(v) ==
    /\ CanStart(v)
    /\ \/ /\ VerifyLimited
          /\ Goto(v, "limited")
          /\ UNCHANGED <<guess, history>>
       \/ /\ ~VerifyLimited
          /\ Goto(v, "read")
          /\ \E d \in {digits[code] : code \in 1..issued} \union {Wrong} :
                /\ guess' = [guess EXCEPT ![v] = d]
                /\ history' = [history EXCEPT !.late[v] = Spent(d),
                                              !.owners[v] = {owner}]
    /\ UNCHANGED <<otpVars, userVars, expired, rate, attempts, obj, user>>

\* get_by_phone().
VerifyRead(v) ==
    /\ pc[v] = "read"
    /\ obj' = [obj EXCEPT ![v] = row]
    /\ Goto(v, "decide")
    /\ UNCHANGED <<otpVars, userVars, expired, rate, attempts, guess, user, history>>

Matches(v) ==
    /\ obj[v] # NoRow
    /\ digits[obj[v].code] = guess[v]
    /\ obj[v].code \notin expired

\* increment_verify_attempts() or clear_verify_attempts().
Decide(v) ==
    /\ pc[v] = "decide"
    /\ IF Matches(v)
       THEN /\ attempts' = 0
            /\ history' = [history EXCEPT !.misses = 0,
                                          !.accepted = @ \union {obj[v].code}]
            /\ Goto(v, "delete")
            /\ UNCHANGED obj
       ELSE /\ attempts' = attempts + 1
            /\ history' = [history EXCEPT !.misses = @ + 1, !.late[v] = {},
                                          !.owners[v] = {}]
            /\ Goto(v, "idle")
            /\ obj' = [obj EXCEPT ![v] = NoRow]
    /\ guess' = [guess EXCEPT ![v] = Wrong]
    /\ UNCHANGED <<otpVars, userVars, expired, rate, user>>

\* delete_row(): DELETE by primary key, whatever the row holds by now.
DeleteRow(v) ==
    /\ pc[v] = "delete"
    /\ IF row.pk = obj[v].pk THEN StoreRow(NoRow)
                             ELSE UNCHANGED <<row, history>>
    /\ Goto(v, "phone")
    /\ obj' = [obj EXCEPT ![v] = NoRow]
    /\ UNCHANGED <<rows, digits, userVars, expired, rate, attempts, guess, user>>

Resolve(v, who, next) ==
    /\ user' = [user EXCEPT ![v] = who]
    /\ Goto(v, next)
    /\ history' = IF next = "idle"
                  THEN [history EXCEPT !.owners[v] = {}, !.late[v] = {}] ELSE history
    /\ UNCHANGED <<otpVars, expired, rate, attempts, obj, guess>>

\* get_or_create_user_by_phone: the owner of the PhoneNumber row ...
FindPhone_Skipped(v) ==
    /\ pc[v] = "phone"
    /\ Resolve(v, NoUser, "create")
    /\ UNCHANGED userVars

FindPhone(v) ==
    /\ pc[v] = "phone"
    /\ IF owner # NoUser THEN Resolve(v, owner, "issue")
                         ELSE Resolve(v, NoUser, "user")
    /\ UNCHANGED userVars

\* ... or the first user that carries the phone.  Its copy in User is not unique, and
\* the admin site may change it at any time: any user may be the one, or none.
FindUser(v) ==
    /\ pc[v] = "user"
    /\ \/ \E u \in users : Resolve(v, u, "link")
       \/ Resolve(v, NoUser, "create")
    /\ UNCHANGED userVars

\* The model User.
NewUser ==
    /\ made < MaxUsers /\ issued + made < MaxMade
    /\ made' = made + 1
    /\ users' = users \union {made'}

\* ... or a new one.
CreateUser(v) ==
    /\ pc[v] = "create"
    /\ NewUser /\ Resolve(v, made', "link")
    /\ UNCHANGED owner

\* The model PhoneNumber: its phone is unique, so get_or_create finds the row that
\* another request has created.  The insertion fails for a user that is gone.
\* The request goes on with its own user, whoever has the row.
LinkPhone(v) ==
    /\ pc[v] = "link"
    /\ IF owner # NoUser        THEN UNCHANGED owner /\ Resolve(v, user[v], "issue")
       ELSE IF user[v] \in users THEN owner' = user[v] /\ Resolve(v, user[v], "issue")
                                 ELSE UNCHANGED owner /\ Resolve(v, NoUser, "idle")
    /\ UNCHANGED <<users, made>>

\* The claims are read and the token pair is issued (see Sessions).
Issue(v) ==
    /\ pc[v] = "issue"
    /\ Resolve(v, NoUser, "idle")
    /\ UNCHANGED userVars

-----------------------------------------------------------------------------
\* OTPUseCases.create draws a code even for a row that was just created.
AdminCreate(a) ==
    /\ CanStart(a)
    /\ \/ Create(a, "adminRow")
       \/ row # NoRow /\ Redraw(a, row.pk, Supplied, "adminSave")

AdminRedraw(a) == pc[a] = "adminRow" /\ Redraw(a, obj[a].pk, Supplied, "adminSave")

AdminSave(a) == pc[a] = "adminSave" /\ Save(a, "idle")

\* The admin site loads an OTP row and saves the digits and the expiry of the form; a
\* row that it adds is as AdminCreate's.
SiteEdit(a) == CanStart(a) /\ row # NoRow /\ Redraw(a, row.pk, Supplied, "adminSave")

\* OTPUseCases.delete, and the admin site's.
AdminDelete(a) ==
    /\ CanStart(a)
    /\ row # NoRow
    /\ StoreRow(NoRow)
    /\ Goto(a, "idle")
    /\ UNCHANGED <<rows, digits, userVars, expired, rate, attempts, obj, guess, user>>

\* The admin site: a user is added, or deleted with its PhoneNumber (CASCADE); the
\* PhoneNumber is added, edited or deleted.
SiteAddUser == NewUser /\ UNCHANGED owner

SiteDeleteUser ==
    /\ \E u \in users : /\ users' = users \ {u}
                        /\ owner' = IF owner = u THEN NoUser ELSE owner
    /\ UNCHANGED made

SiteEditPhone ==
    /\ owner' \in (users \union {NoUser}) \ {owner}
    /\ UNCHANGED <<users, made>>

\* The logins under way have seen the phone change hands.
Site ==
    /\ SiteAddUser \/ SiteDeleteUser \/ SiteEditPhone
    /\ history' = [history EXCEPT !.owners = [v \in Verifiers |->
                      IF @[v] = {} THEN {} ELSE @[v] \union {owner'}]]
    /\ UNCHANGED <<otpVars, expired, rate, attempts, pc, obj, guess, user>>

\* A query raises, or its answer is lost: the request ends with an error, and what it
\* has done so far stays.
Fail(r) ==
    /\ pc[r] \notin Ended
    /\ Goto(r, "idle")
    /\ obj' = [obj EXCEPT ![r] = NoRow]
    /\ guess' = [v \in Verifiers |-> IF v = r THEN Wrong ELSE guess[v]]
    /\ user' = [v \in Verifiers |-> IF v = r THEN NoUser ELSE user[v]]
    /\ history' = [history EXCEPT
          !.late = [v \in Verifiers |-> IF v = r THEN {} ELSE @[v]],
          !.owners = [v \in Verifiers |-> IF v = r THEN {} ELSE @[v]]]
    /\ UNCHANGED <<otpVars, userVars, expired, rate, attempts>>

\* Time passes: a code that somebody holds, or a counter in the cache, reaches its
\* expiry.
CodeExpires ==
    /\ \E code \in ({row.code} \union {obj[r].code : r \in Requests})
                   \ (expired \union {NoRow.code}) :
          expired' = expired \union {code}
    /\ UNCHANGED <<otpVars, userVars, rate, attempts, pc, obj, guess, user, history>>

RateExpires ==
    /\ rate > 0
    /\ rate' = 0
    /\ history' = [history EXCEPT !.sends = 0]
    /\ UNCHANGED <<otpVars, userVars, expired, attempts, pc, obj, guess, user>>

AttemptsExpire ==
    /\ attempts > 0
    /\ attempts' = 0
    /\ history' = [history EXCEPT !.misses = 0]
    /\ UNCHANGED <<otpVars, userVars, expired, rate, pc, obj, guess, user>>

-----------------------------------------------------------------------------
Send(s) == SendCheck(s) \/ SendRow(s) \/ SendSave(s) \/ Deliver(s)

Verify(v) ==
    \/ VerifyCheck(v)
    \/ VerifyRead(v)
    \/ Decide(v)
    \/ DeleteRow(v)
    \/ FindPhone(v)
    \/ FindUser(v)
    \/ CreateUser(v)
    \/ LinkPhone(v)
    \/ Issue(v)

Administer(a) ==
    AdminCreate(a) \/ AdminRedraw(a) \/ AdminSave(a) \/ AdminDelete(a) \/ SiteEdit(a)

Next ==
    \/ \E s \in Senders : Send(s)
    \/ \E v \in Verifiers : Verify(v)
    \/ \E a \in Admins : Administer(a)
    \/ \E r \in Requests : Fail(r)
    \/ Site
    \/ CodeExpires
    \/ RateExpires
    \/ AttemptsExpire

Spec == Init /\ [][Next]_vars

-----------------------------------------------------------------------------
\* The limit is tested before the awaits and the counter raised after them, so
\* requests in flight together overshoot it, but only by their own number: a
\* window never sees RateMax deliveries and then a request that starts.
SendsBounded == history.sends < RateMax + Cardinality(Senders)

\* Likewise for wrong guesses, between two resets of the attempts counter.
MissesBounded == history.misses < MaxAttempts + Cardinality(Verifiers)

\* No request succeeds by a code that was consumed, replaced, deleted or expired when
\* it started: no save of an instance read earlier, and no re-insertion of a deleted
\* row, brings a spent code back.  (An administrator may give its digits out again,
\* as another code.)
LateVerifyFails ==
    \A v \in Verifiers : pc[v] = "delete" => obj[v].code \notin history.late[v]

\* As long as a PhoneNumber row exists, every login is its owner's, and only the
\* admin site makes the row change hands.
KnownPhoneKeepsUser ==
    \A v \in Verifiers : pc[v] = "issue" =>
        history.owners[v] \intersect {user[v], NoUser} # {}

\* "Consumes the OTP row on success (single-use)": no code is accepted twice.
SingleUse ==
    [][\A v \in Verifiers : pc[v] = "decide" /\ pc'[v] = "delete"
          => obj[v].code \notin history.accepted]_vars
=============================================================================
