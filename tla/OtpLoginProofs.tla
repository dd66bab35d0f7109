--------------------------- MODULE OtpLoginProofs ---------------------------
(***************************************************************************)
(* What OtpLogin guarantees for any number of requests, any limits and any *)
(* number of codes, rows and users.  Each theorem has an inductive         *)
(* invariant of its own; all of them rest on TypeInv.                      *)
(***************************************************************************)
EXTENDS OtpLogin, FiniteSetTheorems, TLAPS

Histories ==
    [sends : Nat, misses : Nat, retired : SUBSET Nat, accepted : SUBSET Nat,
     late : [Verifiers -> SUBSET Nat], owners : [Verifiers -> SUBSET Nat]]

TypeInv == TypeOK /\ history \in Histories

LEMMA InitType == Init => TypeInv
BY BoundsAssumption
   DEF Init, TypeInv, TypeOK, Histories, Row, NoRow, Ended, NoUser, Wrong, issued

LEMMA StoreRowType ==
    ASSUME TypeInv, NEW new \in Row, StoreRow(new)
    PROVE  row' \in Row /\ history' \in Histories
<1> DEFINE retired == IF row # NoRow /\ row.code # new.code
                      THEN history.retired \union {row.code} ELSE history.retired
<1>1. row' = new /\ history' = [history EXCEPT !.retired = retired]
  BY DEF StoreRow
<1>2. retired \in SUBSET Nat
  BY BoundsAssumption DEF TypeInv, TypeOK, Histories, Row
<1> HIDE DEF retired
<1> QED BY <1>1, <1>2 DEF TypeInv, Histories

\* One more code.
LEMMA Drawn ==
    ASSUME TypeInv, NEW choices, choices \subseteq 1..NextCode, Draw(choices)
    PROVE  /\ issued \in Nat /\ issued' = NextCode /\ NextCode = issued + 1
           /\ NextCode \in Codes /\ NextCode \in 0..MaxCodes
           /\ digits' \in Seq(Codes) /\ issued' <= MaxCodes
<1>1. digits \in Seq(Codes) /\ issued \in Nat /\ NextCode = issued + 1
  BY DEF TypeInv, TypeOK, issued, NextCode
<1>2. NextCode \in Codes /\ NextCode \in 0..MaxCodes
  BY <1>1, BoundsAssumption DEF Draw, CanIssue, Codes
<1>3. PICK d \in choices : digits' = Append(digits, d)
  BY DEF Draw
<1>4. d \in Codes
  BY <1>1, <1>2, BoundsAssumption DEF Codes
<1>5. digits' \in Seq(Codes) /\ Len(digits') = Len(digits) + 1
  BY <1>1, <1>3, <1>4
<1>6. issued' = NextCode
  BY <1>1, <1>5 DEF issued
<1>7. issued' <= MaxCodes
  BY <1>2, <1>6, BoundsAssumption DEF Codes
<1> QED BY <1>1, <1>2, <1>5, <1>6, <1>7

LEMMA Choices == /\ Generated \subseteq 1..NextCode \/ issued \notin Nat
                 /\ Supplied \subseteq 1..NextCode
BY DEF Generated, Supplied, NextCode

LEMMA CreateType ==
    ASSUME TypeInv, NEW r \in Requests, NEW next \in Running, Create(r, next)
    PROVE  TypeInv'
<1>0. issued \in Nat
  BY DEF TypeInv, TypeOK, issued
<1>1. digits' \in Seq(Codes) /\ issued' <= MaxCodes /\ NextCode \in 0..MaxCodes
  BY <1>0, Choices, Drawn DEF Create
<1>2. rows' \in 0..MaxRows
  BY BoundsAssumption DEF Create, TypeInv, TypeOK
<1>3. [pk |-> rows', code |-> NextCode] \in Row
  BY <1>1, <1>2 DEF Row
<1>4. row' \in Row /\ history' \in Histories
  BY <1>3, StoreRowType DEF Create
<1>5. obj' \in [Requests -> Row] /\ pc' \in [Requests -> Ended \union Running]
  BY <1>4 DEF Create, Goto, TypeInv, TypeOK
<1> QED BY <1>1, <1>2, <1>4, <1>5 DEF Create, TypeInv, TypeOK, userVars, issued

LEMMA RedrawType ==
    ASSUME TypeInv, NEW r \in Requests, NEW pk \in 0..MaxRows, NEW choices,
           choices \subseteq 1..NextCode, NEW next \in Running,
           Redraw(r, pk, choices, next)
    PROVE  TypeInv'
<1>1. digits' \in Seq(Codes) /\ issued' <= MaxCodes /\ NextCode \in 0..MaxCodes
  BY Drawn DEF Redraw
<1>2. [pk |-> pk, code |-> NextCode] \in Row
  BY <1>1 DEF Row
<1>3. obj' \in [Requests -> Row] /\ pc' \in [Requests -> Ended \union Running]
  BY <1>2 DEF Redraw, Goto, TypeInv, TypeOK
<1> QED BY <1>1, <1>3 DEF Redraw, TypeInv, TypeOK, userVars, issued

LEMMA SaveType ==
    ASSUME TypeInv, NEW r \in Requests, NEW next \in Ended \union Running,
           Save(r, next)
    PROVE  TypeInv'
<1>1. row' \in Row /\ history' \in Histories
  BY StoreRowType DEF Save, TypeInv, TypeOK
<1>2. pc' \in [Requests -> Ended \union Running]
  BY DEF Save, Goto, TypeInv, TypeOK, Ended
<1>3. obj' \in [Requests -> Row]
  BY BoundsAssumption DEF Save, TypeInv, TypeOK, Row, NoRow
<1> QED BY <1>1, <1>2, <1>3 DEF Save, TypeInv, TypeOK, userVars, issued

-----------------------------------------------------------------------------
(* What the steps do to the history.                                       *)

LEMMA StoreRowFields ==
    ASSUME TypeInv, NEW new, StoreRow(new)
    PROVE  /\ row' = new
           /\ history'.retired = IF row # NoRow /\ row.code # new.code
                                 THEN history.retired \union {row.code}
                                 ELSE history.retired
           /\ history'.sends = history.sends /\ history'.misses = history.misses
           /\ history'.late = history.late /\ history'.owners = history.owners
BY DEF TypeInv, Histories, StoreRow

\* Only the late codes and the owners of one login, if any.
Untouched ==
    /\ history'.sends = history.sends /\ history'.misses = history.misses
    /\ history'.retired = history.retired /\ history'.accepted = history.accepted

LEMMA ResolveFields ==
    ASSUME TypeInv, NEW v \in Verifiers, NEW who, NEW next, Resolve(v, who, next)
    PROVE  /\ Untouched /\ history' \in Histories
           /\ next # "idle" => history' = history
           /\ \A w \in Verifiers \ {v} : /\ history'.late[w] = history.late[w]
                                         /\ history'.owners[w] = history.owners[w]
           /\ history'.late[v] \in {history.late[v], {}}
<1>1. CASE next # "idle"
  BY <1>1 DEF Resolve, Untouched, TypeInv
<1>2. CASE next = "idle"
  <2>1. history' = [history EXCEPT !.owners[v] = {}, !.late[v] = {}]
    BY <1>2 DEF Resolve
  <2>2. /\ [history.late EXCEPT ![v] = {}] \in [Verifiers -> SUBSET Nat]
        /\ [history.owners EXCEPT ![v] = {}] \in [Verifiers -> SUBSET Nat]
    BY DEF TypeInv, Histories
  <2>3. Untouched /\ history' \in Histories
    BY <2>1, <2>2 DEF TypeInv, Histories, Untouched
  <2>4. /\ history'.late = [history.late EXCEPT ![v] = {}]
        /\ history'.owners = [history.owners EXCEPT ![v] = {}]
    BY <2>1 DEF TypeInv, Histories
  <2>5. /\ history'.late[v] = {}
        /\ \A w \in Verifiers \ {v} : /\ history'.late[w] = history.late[w]
                                      /\ history'.owners[w] = history.owners[w]
    BY <2>4 DEF TypeInv, Histories
  <2> QED BY <1>2, <2>3, <2>5
<1> QED BY <1>1, <1>2

LEMMA FailFields ==
    ASSUME TypeInv, NEW r, Fail(r)
    PROVE  /\ Untouched /\ history' \in Histories
           /\ history'.late = [v \in Verifiers |-> IF v = r THEN {} ELSE history.late[v]]
           /\ history'.owners =
                  [v \in Verifiers |-> IF v = r THEN {} ELSE history.owners[v]]
<1> DEFINE late == [v \in Verifiers |-> IF v = r THEN {} ELSE history.late[v]]
           owners == [v \in Verifiers |-> IF v = r THEN {} ELSE history.owners[v]]
<1>1. history' = [history EXCEPT !.late = late, !.owners = owners]
  BY DEF Fail
<1>2. late \in [Verifiers -> SUBSET Nat] /\ owners \in [Verifiers -> SUBSET Nat]
  BY DEF TypeInv, Histories
<1> HIDE DEF late, owners
<1>3. history'.late = late /\ history'.owners = owners
  BY <1>1 DEF TypeInv, Histories
<1>4. Untouched /\ history' \in Histories
  BY <1>1, <1>2 DEF TypeInv, Histories, Untouched
<1> QED BY <1>3, <1>4 DEF late, owners

LEMMA SiteFields ==
    ASSUME TypeInv, owner' \in Nat, Site
    PROVE  /\ Untouched /\ history' \in Histories /\ history'.late = history.late
           /\ \A v \in Verifiers : history'.owners[v] =
                  IF history.owners[v] = {} THEN {} ELSE history.owners[v] \union {owner'}
<1> DEFINE owners == [v \in Verifiers |-> IF history.owners[v] = {} THEN {}
                                          ELSE history.owners[v] \union {owner'}]
<1>1. history' = [history EXCEPT !.owners = owners]
  BY DEF Site
<1>2. owners \in [Verifiers -> SUBSET Nat]
  BY DEF TypeInv, Histories
<1>3. \A v \in Verifiers : owners[v] =
          IF history.owners[v] = {} THEN {} ELSE history.owners[v] \union {owner'}
  OBVIOUS
<1> HIDE DEF owners
<1>4. history'.owners = owners
  BY <1>1 DEF TypeInv, Histories
<1>5. Untouched /\ history' \in Histories /\ history'.late = history.late
  BY <1>1, <1>2 DEF TypeInv, Histories, Untouched
<1> QED BY <1>3, <1>4, <1>5

LEMMA VerifyCheckFields ==
    ASSUME TypeInv, NEW v \in Verifiers, VerifyCheck(v)
    PROVE  /\ Untouched /\ history' \in Histories
           /\ guess' \in [Verifiers -> 0..MaxCodes]
           /\ \/ VerifyLimited /\ pc' = [pc EXCEPT ![v] = "limited"]
                 /\ UNCHANGED <<guess, history>>
              \/ /\ ~VerifyLimited /\ pc' = [pc EXCEPT ![v] = "read"]
                 /\ history'.owners = [history.owners EXCEPT ![v] = {owner}]
                 /\ \A w \in Verifiers \ {v} : history'.late[w] = history.late[w]
                 /\ history'.late[v] \subseteq history.retired \union expired
<1>1. CASE VerifyLimited
  BY <1>1 DEF VerifyCheck, Goto, Untouched, TypeInv, TypeOK
<1>2. CASE ~VerifyLimited
  <2>1. PICK d \in {digits[code] : code \in 1..issued} \union {Wrong} :
           /\ guess' = [guess EXCEPT ![v] = d]
           /\ history' = [history EXCEPT !.late[v] = Spent(d), !.owners[v] = {owner}]
    BY <1>2 DEF VerifyCheck
  <2>2. pc' = [pc EXCEPT ![v] = "read"]
    BY <1>2 DEF VerifyCheck, Goto
  <2>3. d \in 0..MaxCodes
    <3>1. \A code \in 1..issued : digits[code] \in Codes
      BY DEF TypeInv, TypeOK, issued
    <3> QED BY <2>1, <3>1, BoundsAssumption DEF Wrong, Codes
  <2>4. guess' \in [Verifiers -> 0..MaxCodes]
    BY <2>1, <2>3 DEF TypeInv, TypeOK
  <2> DEFINE late == Spent(d)
  <2>5. late \subseteq history.retired \union expired
    BY DEF Spent
  <2>6. late \in SUBSET Nat
    <3>1. history.retired \subseteq Nat /\ expired \subseteq Nat
      BY DEF TypeInv, TypeOK, Histories, Codes
    <3> HIDE DEF late
    <3> QED BY <2>5, <3>1
  <2>7. owner \in Nat
    BY DEF TypeInv, TypeOK, NoUser
  <2>8. history' = [history EXCEPT !.late[v] = late, !.owners[v] = {owner}]
    BY <2>1
  <2> HIDE DEF late
  <2>9. /\ [history.late EXCEPT ![v] = late] \in [Verifiers -> SUBSET Nat]
        /\ [history.owners EXCEPT ![v] = {owner}] \in [Verifiers -> SUBSET Nat]
    BY <2>6, <2>7 DEF TypeInv, Histories
  <2>10. /\ history'.late = [history.late EXCEPT ![v] = late]
         /\ history'.owners = [history.owners EXCEPT ![v] = {owner}]
    BY <2>8 DEF TypeInv, Histories
  <2>11. Untouched /\ history' \in Histories
    BY <2>8, <2>9 DEF TypeInv, Histories, Untouched
  <2>12. /\ history'.late[v] = late
         /\ \A w \in Verifiers \ {v} : history'.late[w] = history.late[w]
    BY <2>10 DEF TypeInv, Histories
  <2> QED BY <1>2, <2>2, <2>4, <2>5, <2>10, <2>11, <2>12
<1> QED BY <1>1, <1>2

LEMMA DecideFields ==
    ASSUME TypeInv, NEW v \in Verifiers, Decide(v)
    PROVE  /\ history' \in Histories
           /\ history'.retired = history.retired /\ history'.sends = history.sends
           /\ \/ /\ Matches(v) /\ history'.misses = 0
                 /\ history'.late = history.late
                 /\ history'.owners = history.owners
              \/ /\ ~Matches(v) /\ history'.misses = history.misses + 1
                 /\ history'.late = [history.late EXCEPT ![v] = {}]
                 /\ history'.owners = [history.owners EXCEPT ![v] = {}]
<1>1. CASE Matches(v)
  <2> DEFINE accepted == history.accepted \union {obj[v].code}
  <2>1. history' = [history EXCEPT !.misses = 0, !.accepted = accepted]
    BY <1>1 DEF Decide
  <2>2. accepted \in SUBSET Nat
    <3>1. obj[v] \in Row
      BY DEF TypeInv, TypeOK, Requests
    <3> QED BY <3>1, BoundsAssumption DEF TypeInv, Histories, Row
  <2> HIDE DEF accepted
  <2> QED BY <1>1, <2>1, <2>2 DEF TypeInv, Histories
<1>2. CASE ~Matches(v)
  <2>1. history' = [history EXCEPT !.misses = @ + 1, !.late[v] = {}, !.owners[v] = {}]
    BY <1>2 DEF Decide
  <2>2. /\ [history.late EXCEPT ![v] = {}] \in [Verifiers -> SUBSET Nat]
        /\ [history.owners EXCEPT ![v] = {}] \in [Verifiers -> SUBSET Nat]
        /\ history.misses + 1 \in Nat
    BY DEF TypeInv, Histories
  <2> QED BY <1>2, <2>1, <2>2 DEF TypeInv, Histories
<1> QED BY <1>1, <1>2

LEMMA ResolveType ==
    ASSUME TypeInv, NEW v \in Verifiers, NEW next \in Ended \union Running,
           NEW who, who \in 0..made', Resolve(v, who, next),
           made' \in 0..MaxUsers, made <= made',
           users' \subseteq 1..made', owner' \in users' \union {NoUser}
    PROVE  TypeInv'
<1>1. history' \in Histories
  BY ResolveFields
<1>2. pc' \in [Requests -> Ended \union Running]
  BY DEF Resolve, Goto, TypeInv, TypeOK, Requests
<1>3. user' \in [Verifiers -> 0..made']
  <2>1. \A w \in Verifiers : user[w] \in 0..made'
    BY BoundsAssumption DEF TypeInv, TypeOK
  <2> QED BY <2>1 DEF Resolve, TypeInv, TypeOK
<1> QED BY <1>1, <1>2, <1>3 DEF Resolve, TypeInv, TypeOK, otpVars, issued

LEMMA NextType == TypeInv /\ [Next]_vars => TypeInv'
<1> SUFFICES ASSUME TypeInv, [Next]_vars PROVE TypeInv'
  OBVIOUS
<1>0. /\ issued \in Nat /\ made \in Nat /\ made \in 0..MaxUsers
      /\ NoRow \in Row /\ row.pk \in 0..MaxRows
      /\ users \subseteq 1..made /\ owner \in users \union {NoUser}
      /\ NoUser \in 0..made /\ users \subseteq 0..made /\ owner \in 0..made
      /\ \A v \in Verifiers : user[v] \in 0..made
      /\ \A r \in Requests : obj[r].pk \in 0..MaxRows
  BY BoundsAssumption DEF NoRow, NoUser, Row, TypeInv, TypeOK, issued
<1>01. /\ Senders \subseteq Requests /\ Verifiers \subseteq Requests
       /\ Admins \subseteq Requests
       /\ Ended = {"idle", "limited"} /\ Ended \subseteq Ended \union Running
       /\ {"row", "save", "deliver", "adminRow", "adminSave"} \subseteq Running
       /\ {"issue", "user", "link", "create", "idle"} \subseteq Ended \union Running
  BY DEF Requests, Ended, Running
<1>1. ASSUME NEW s \in Senders, Send(s) PROVE TypeInv'
  <2>1. CASE SendCheck(s)
    BY <1>01, <2>1 DEF SendCheck, Goto, TypeInv, TypeOK, Ended, otpVars, userVars, issued
  <2>2. CASE SendRow(s)
    BY <1>0, <1>01, <2>2, CreateType, RedrawType, Choices DEF SendRow
  <2>3. CASE SendSave(s)
    BY <1>01, <2>3, SaveType DEF SendSave
  <2>4. CASE Deliver(s)
    <3> DEFINE sends == history.sends + 1
    <3>1. history' = [history EXCEPT !.sends = sends] /\ sends \in Nat
      BY <2>4 DEF Deliver, TypeInv, Histories
    <3> HIDE DEF sends
    <3>2. history' \in Histories
      BY <3>1 DEF TypeInv, Histories
    <3>3. obj' \in [Requests -> Row] /\ pc' \in [Requests -> Ended \union Running]
      BY <1>0, <1>01, <2>4 DEF Deliver, Goto, TypeInv, TypeOK
    <3>4. rate' \in Nat
      BY <2>4 DEF Deliver, CountSend, TypeInv, TypeOK
    <3> QED BY <2>4, <3>2, <3>3, <3>4
            DEF Deliver, TypeInv, TypeOK, otpVars, userVars, issued
  <2> QED BY <1>1, <2>1, <2>2, <2>3, <2>4 DEF Send
<1>2. ASSUME NEW v \in Verifiers, Verify(v) PROVE TypeInv'
  <2> USE <1>0, <1>01
  <2>0. ASSUME NEW who \in 0..made, NEW next \in Ended \union Running,
               Resolve(v, who, next), UNCHANGED <<users, made>>,
               owner' \in users \union {NoUser}
        PROVE  TypeInv'
    BY <2>0, ResolveType
  <2>1. CASE VerifyCheck(v)
    <3>1. history' \in Histories /\ guess' \in [Verifiers -> 0..MaxCodes]
      BY <2>1, VerifyCheckFields
    <3>2. pc' \in [Requests -> Ended \union Running]
      BY <2>1 DEF VerifyCheck, Goto, TypeInv, TypeOK, Running
    <3> QED BY <2>1, <3>1, <3>2
            DEF VerifyCheck, TypeInv, TypeOK, otpVars, userVars, issued
  <2>2. CASE VerifyRead(v)
    BY <2>2 DEF VerifyRead, Goto, TypeInv, TypeOK, otpVars, userVars, issued, Running
  <2>3. CASE Decide(v)
    <3>1. history' \in Histories
      BY <2>3, DecideFields
    <3>2. guess' \in [Verifiers -> 0..MaxCodes]
      BY <2>3, BoundsAssumption DEF Decide, Wrong, TypeInv, TypeOK
    <3>3. /\ attempts' = 0 \/ attempts' = attempts + 1
          /\ obj' = obj \/ obj' = [obj EXCEPT ![v] = NoRow]
          /\ \E next \in {"delete", "idle"} : Goto(v, next)
      BY <2>3 DEF Decide
    <3>4. attempts' \in Nat
      BY <3>3 DEF TypeInv, TypeOK
    <3>5. obj' \in [Requests -> Row]
      BY <3>3 DEF TypeInv, TypeOK
    <3>6. pc' \in [Requests -> Ended \union Running]
      BY <3>3 DEF Goto, TypeInv, TypeOK, Running
    <3> QED BY <2>3, <3>1, <3>2, <3>4, <3>5, <3>6
            DEF Decide, TypeInv, TypeOK, otpVars, userVars, issued
  <2>4. CASE DeleteRow(v)
    <3>1. row' \in Row /\ history' \in Histories
      BY <2>4, StoreRowType DEF DeleteRow, TypeInv, TypeOK
    <3>2. obj' \in [Requests -> Row] /\ pc' \in [Requests -> Ended \union Running]
      BY <2>4 DEF DeleteRow, Goto, TypeInv, TypeOK, Running
    <3> QED BY <2>4, <3>1, <3>2 DEF DeleteRow, TypeInv, TypeOK, userVars, issued
  <2>5. CASE FindPhone(v)
    BY <2>0, <2>5 DEF FindPhone, userVars
  <2>6. CASE FindUser(v)
    <3>1. UNCHANGED userVars
      BY <2>6 DEF FindUser
    <3>2. CASE \E u \in users : Resolve(v, u, "link")
      <4>1. PICK u \in users : Resolve(v, u, "link")
        BY <3>2
      <4> QED BY <2>0, <3>1, <4>1 DEF userVars
    <3>3. CASE Resolve(v, NoUser, "create")
      BY <2>0, <3>1, <3>3 DEF userVars
    <3> QED BY <2>6, <3>2, <3>3 DEF FindUser
  <2>7. CASE CreateUser(v)
    <3>1. NewUser /\ Resolve(v, made', "link") /\ owner' = owner
      BY <2>7 DEF CreateUser
    <3>2. made' = made + 1 /\ made' \in 0..MaxUsers /\ users' = users \union {made'}
      BY <3>1, BoundsAssumption DEF NewUser
    <3>3. users' \subseteq 1..made'
      <4>1. \A u \in 1..made : u \in 1..(made + 1)
        OBVIOUS
      <4>2. made + 1 \in 1..(made + 1)
        OBVIOUS
      <4> QED BY <3>2, <4>1, <4>2
    <3>5. owner' \in users' \union {NoUser}
      BY <3>1, <3>2
    <3>4. made' \in 0..made' /\ made <= made'
      BY <3>2
    <3> QED BY <3>1, <3>2, <3>3, <3>4, <3>5, ResolveType
  <2>8. CASE LinkPhone(v)
    <3>1. UNCHANGED <<users, made>> /\ user[v] \in 0..made
      BY <2>8 DEF LinkPhone
    <3>2. CASE owner # NoUser
      BY <2>0, <2>8, <3>1, <3>2 DEF LinkPhone
    <3>3. CASE owner = NoUser /\ user[v] \in users
      BY <2>0, <2>8, <3>1, <3>3 DEF LinkPhone
    <3>4. CASE owner = NoUser /\ user[v] \notin users
      BY <2>0, <2>8, <3>1, <3>4 DEF LinkPhone
    <3> QED BY <3>2, <3>3, <3>4
  <2>9. CASE Issue(v)
    BY <2>0, <2>9 DEF Issue, userVars
  <2> QED
    BY <1>2, <2>1, <2>2, <2>3, <2>4, <2>5, <2>6, <2>7, <2>8, <2>9 DEF Verify
<1>3. ASSUME NEW a \in Admins, Administer(a) PROVE TypeInv'
  <2>1. CASE AdminCreate(a)
    BY <1>0, <1>01, <2>1, CreateType, RedrawType, Choices DEF AdminCreate
  <2>2. CASE AdminRedraw(a)
    BY <1>0, <1>01, <2>2, RedrawType, Choices DEF AdminRedraw
  <2>3. CASE AdminSave(a)
    BY <1>01, <2>3, SaveType DEF AdminSave
  <2>4. CASE AdminDelete(a)
    <3>1. row' \in Row /\ history' \in Histories
      BY <1>0, <2>4, StoreRowType DEF AdminDelete
    <3>2. pc' \in [Requests -> Ended \union Running]
      BY <1>01, <2>4 DEF AdminDelete, Goto, TypeInv, TypeOK
    <3> QED BY <2>4, <3>1, <3>2 DEF AdminDelete, TypeInv, TypeOK, userVars, issued
  <2>5. CASE SiteEdit(a)
    BY <1>0, <1>01, <2>5, RedrawType, Choices DEF SiteEdit
  <2> QED BY <1>3, <2>1, <2>2, <2>3, <2>4, <2>5 DEF Administer
<1>4. ASSUME NEW r \in Requests, Fail(r) PROVE TypeInv'
  <2>1. history' \in Histories
    BY <1>4, FailFields
  <2>2. obj' \in [Requests -> Row] /\ pc' \in [Requests -> Ended \union Running]
    BY <1>0, <1>01, <1>4 DEF Fail, Goto, TypeInv, TypeOK
  <2>3. guess' \in [Verifiers -> 0..MaxCodes] /\ user' \in [Verifiers -> 0..made]
    BY <1>0, <1>4, BoundsAssumption DEF Fail, Wrong, TypeInv, TypeOK
  <2> QED BY <1>4, <2>1, <2>2, <2>3 DEF Fail, TypeInv, TypeOK, otpVars, userVars, issued
<1>5. CASE Site
  <2>1. /\ made' \in 0..MaxUsers /\ made <= made' /\ users' \subseteq 1..made'
        /\ owner' \in users' \union {NoUser}
    <3>1. CASE SiteAddUser
      <4>1. made' = made + 1 /\ made' \in 0..MaxUsers /\ users' = users \union {made'}
        BY <1>0, <3>1, BoundsAssumption DEF SiteAddUser, NewUser
      <4> QED BY <1>0, <3>1, <4>1 DEF SiteAddUser
    <3>2. CASE SiteDeleteUser
      BY <1>0, <3>2 DEF SiteDeleteUser
    <3>3. CASE SiteEditPhone
      BY <1>0, <3>3 DEF SiteEditPhone
    <3> QED BY <1>5, <3>1, <3>2, <3>3 DEF Site
  <2>2. owner' \in Nat
    BY <2>1 DEF NoUser
  <2>3. history' \in Histories
    BY <1>5, <2>2, SiteFields
  <2>4. user' \in [Verifiers -> 0..made']
    <3>1. \A w \in Verifiers : user[w] \in 0..made'
      BY <1>0, <2>1, BoundsAssumption
    <3> QED BY <1>5, <3>1 DEF Site, TypeInv, TypeOK
  <2> QED BY <1>5, <2>1, <2>3, <2>4 DEF Site, TypeInv, TypeOK, otpVars, issued
<1>6. CASE CodeExpires
  <2>1. /\ \A r \in Requests : obj[r].code \in 0..MaxCodes
        /\ row.code \in 0..MaxCodes
    BY DEF Row, TypeInv, TypeOK
  <2>2. PICK code \in ({row.code} \union {obj[r].code : r \in Requests})
                      \ (expired \union {NoRow.code}) :
            expired' = expired \union {code}
    BY <1>6 DEF CodeExpires
  <2>3. code \in Codes
    BY <2>1, <2>2, BoundsAssumption DEF NoRow, Codes
  <2> QED BY <1>6, <2>2, <2>3 DEF CodeExpires, TypeInv, TypeOK, otpVars, userVars, issued
<1>7. CASE RateExpires
  <2>1. history' \in Histories
    BY <1>7 DEF RateExpires, TypeInv, Histories
  <2> QED BY <1>7, <2>1 DEF RateExpires, TypeInv, TypeOK, otpVars, userVars, issued
<1>8. CASE AttemptsExpire
  <2>1. history' \in Histories
    BY <1>8 DEF AttemptsExpire, TypeInv, Histories
  <2> QED BY <1>8, <2>1 DEF AttemptsExpire, TypeInv, TypeOK, otpVars, userVars, issued
<1>9. CASE UNCHANGED vars
  BY <1>9 DEF vars, TypeInv, TypeOK, otpVars, userVars, issued
<1> QED BY <1>1, <1>2, <1>3, <1>4, <1>5, <1>6, <1>7, <1>8, <1>9 DEF Next

\* TypeOK and the types of the history, which the other invariants of this module rest on:
\* whatever the use cases and the admin site do, no field leaves its range.
THEOREM Types == Spec => []TypeInv
BY InitType, NextType, PTL DEF Spec

\* Type correctness of the rows, the counters and the requests.
THEOREM TypeCorrect == Spec => []TypeOK
<1>1. TypeInv => TypeOK
  BY DEF TypeInv
<1> QED BY <1>1, Types, PTL

-----------------------------------------------------------------------------
(* The owner of a phone.                                                   *)

Serving == {"read", "decide", "delete", "phone", "user", "create", "link", "issue"}

\* A login at `place`, with the user `who`, that has seen the phone with the owners in
\* `seen`: its owner now is one of them, unless it has seen it without; beyond the short
\* way it has seen it without; and at its end it has seen it with its user.
Known(seen, place, who, own) ==
    place \in Serving =>
        /\ own \in seen \/ NoUser \in seen
        /\ place \in {"user", "create", "link"} => NoUser \in seen
        /\ place = "issue" => who \in seen \/ NoUser \in seen

OwnerInv ==
    \A v \in Verifiers : Known(history.owners[v], pc[v], user[v], owner)

LEMMA InitOwner == Init => OwnerInv
BY DEF Init, OwnerInv, Known, Serving, Requests

\* A step of one request, which alone may have to be looked at: a phone changes hands
\* in it only when nobody has it.
LEMMA OneOwner ==
    ASSUME OwnerInv, NEW r, owner' = owner \/ owner = NoUser,
           \A w \in Verifiers \ {r} : /\ pc'[w] = pc[w] /\ user'[w] = user[w]
                                      /\ history'.owners[w] = history.owners[w],
           r \in Verifiers => Known(history'.owners[r], pc'[r], user'[r], owner')
    PROVE  OwnerInv'
<1> SUFFICES ASSUME NEW w \in Verifiers
             PROVE  Known(history'.owners[w], pc'[w], user'[w], owner')
  BY DEF OwnerInv
<1>1. CASE w = r
  BY <1>1
<1>2. CASE w # r
  BY <1>2 DEF OwnerInv, Known
<1> QED BY <1>1, <1>2

\* One of a request that is no login, or that only ends it.
LEMMA ElsewhereOwner ==
    ASSUME TypeInv, OwnerInv, UNCHANGED <<owner, user>>,
           history'.owners = history.owners,
           NEW r \in Requests, NEW location, location \notin Serving,
           Goto(r, location)
    PROVE  OwnerInv'
<1>1. pc'[r] = location /\ \A w \in Requests \ {r} : pc'[w] = pc[w]
  BY DEF TypeInv, TypeOK, Goto
<1>2. Known(history'.owners[r], pc'[r], user'[r], owner')
  BY <1>1 DEF Known
<1> QED BY <1>1, <1>2, OneOwner DEF Requests

\* A step of get_or_create_user_by_phone.
LEMMA ResolveOwner ==
    ASSUME TypeInv, OwnerInv, NEW v \in Verifiers, NEW who, NEW next,
           Resolve(v, who, next), owner' = owner \/ owner = NoUser,
           next # "idle" => Known(history.owners[v], next, who, owner')
    PROVE  OwnerInv'
<1>0. v \in Requests /\ Verifiers \subseteq Requests
      /\ pc \in [Requests -> Ended \union Running]
      /\ user \in [Verifiers -> 0..made] /\ history.owners \in [Verifiers -> SUBSET Nat]
  BY DEF TypeInv, TypeOK, Histories, Requests
<1>1. /\ pc'[v] = next /\ user'[v] = who
      /\ \A w \in Verifiers \ {v} : pc'[w] = pc[w] /\ user'[w] = user[w]
  BY <1>0 DEF Resolve, Goto
<1>2. /\ \A w \in Verifiers \ {v} : history'.owners[w] = history.owners[w]
      /\ next # "idle" => history'.owners[v] = history.owners[v]
  BY <1>0, ResolveFields
<1>3. Known(history'.owners[v], pc'[v], user'[v], owner')
  BY <1>1, <1>2 DEF Known, Serving
<1> QED BY <1>1, <1>2, <1>3, OneOwner

LEMMA NextOwner == TypeInv /\ OwnerInv /\ [Next]_vars => OwnerInv'
<1> SUFFICES ASSUME TypeInv, OwnerInv, [Next]_vars PROVE OwnerInv'
  OBVIOUS
<1> USE DEF userVars
<1>0. /\ Senders \subseteq Requests /\ Verifiers \subseteq Requests
      /\ Admins \subseteq Requests /\ pc \in [Requests -> Ended \union Running]
      /\ user \in [Verifiers -> 0..made] /\ history.owners \in [Verifiers -> SUBSET Nat]
  BY DEF TypeInv, TypeOK, Histories, Requests
<1>01. {"row", "save", "deliver", "idle", "limited", "adminRow", "adminSave"}
           \intersect Serving = {}
  BY DEF Serving
<1>1. ASSUME NEW s \in Senders, Send(s) PROVE OwnerInv'
  <2>1. history'.owners = history.owners
    BY <1>1, StoreRowFields
       DEF Send, SendCheck, SendRow, Create, Redraw, SendSave, Save, Deliver,
           TypeInv, Histories
  <2>2. PICK location \in {"row", "save", "deliver", "idle", "limited"} :
             Goto(s, location)
    BY <1>1 DEF Send, SendCheck, SendRow, Create, Redraw, SendSave, Save, Deliver
  <2>3. UNCHANGED <<owner, user>>
    BY <1>1 DEF Send, SendCheck, SendRow, Create, Redraw, SendSave, Save, Deliver
  <2> QED BY <1>0, <1>01, <2>1, <2>2, <2>3, ElsewhereOwner
<1>2. ASSUME NEW v \in Verifiers, Verify(v) PROVE OwnerInv'
  <2>0. Known(history.owners[v], pc[v], user[v], owner)
    BY DEF OwnerInv
  <2>1. CASE VerifyCheck(v)
    <3>1. UNCHANGED <<owner, user>>
      BY <2>1 DEF VerifyCheck
    <3>2. CASE pc' = [pc EXCEPT ![v] = "limited"] /\ history' = history
      BY <1>0, <1>01, <3>1, <3>2, ElsewhereOwner DEF Goto
    <3>3. CASE /\ pc' = [pc EXCEPT ![v] = "read"]
               /\ history'.owners = [history.owners EXCEPT ![v] = {owner}]
      <4>1. pc'[v] = "read" /\ history'.owners[v] = {owner}
            /\ \A w \in Verifiers \ {v} : /\ pc'[w] = pc[w]
                                          /\ history'.owners[w] = history.owners[w]
        BY <1>0, <3>3
      <4>2. Known(history'.owners[v], pc'[v], user'[v], owner')
        BY <3>1, <4>1 DEF Known
      <4> QED BY <3>1, <4>1, <4>2, OneOwner
    <3> QED BY <2>1, <3>2, <3>3, VerifyCheckFields
  <2>2. CASE VerifyRead(v)
    <3>1. pc[v] = "read" /\ pc'[v] = "decide" /\ UNCHANGED <<owner, user, history>>
          /\ \A w \in Verifiers \ {v} : pc'[w] = pc[w]
      BY <1>0, <2>2 DEF VerifyRead, Goto
    <3>2. Known(history'.owners[v], pc'[v], user'[v], owner')
      BY <2>0, <3>1 DEF Known, Serving
    <3> QED BY <3>1, <3>2, OneOwner
  <2>3. CASE Decide(v)
    <3>1. /\ pc[v] = "decide" /\ UNCHANGED <<owner, user>>
          /\ \A w \in Verifiers \ {v} : pc'[w] = pc[w]
          /\ ~Matches(v) => pc'[v] = "idle"
          /\ Matches(v) => pc'[v] = "delete"
      BY <1>0, <2>3 DEF Decide, Goto
    <3>2. /\ Matches(v) => history'.owners = history.owners
          /\ \A w \in Verifiers \ {v} : history'.owners[w] = history.owners[w]
      BY <1>0, <2>3, DecideFields
    <3>3. Known(history'.owners[v], pc'[v], user'[v], owner')
      <4>1. CASE Matches(v)
        BY <2>0, <3>1, <3>2, <4>1 DEF Known, Serving
      <4>2. CASE ~Matches(v)
        BY <3>1, <4>2 DEF Known, Serving
      <4> QED BY <4>1, <4>2
    <3> QED BY <3>1, <3>2, <3>3, OneOwner
  <2>4. CASE DeleteRow(v)
    <3>1. history'.owners = history.owners
      BY <2>4, StoreRowFields DEF DeleteRow
    <3>2. pc[v] = "delete" /\ pc'[v] = "phone" /\ UNCHANGED <<owner, user>>
          /\ \A w \in Verifiers \ {v} : pc'[w] = pc[w]
      BY <1>0, <2>4 DEF DeleteRow, Goto
    <3>3. Known(history'.owners[v], pc'[v], user'[v], owner')
      BY <2>0, <3>1, <3>2 DEF Known, Serving
    <3> QED BY <3>1, <3>2, <3>3, OneOwner
  <2>5. CASE FindPhone(v)
    <3>1. pc[v] = "phone" /\ owner' = owner
      BY <2>5 DEF FindPhone
    <3>2. CASE owner # NoUser /\ Resolve(v, owner, "issue")
      <4>1. Known(history.owners[v], "issue", owner, owner')
        BY <2>0, <3>1 DEF Known, Serving
      <4> QED BY <3>1, <3>2, <4>1, ResolveOwner
    <3>3. CASE owner = NoUser /\ Resolve(v, NoUser, "user")
      <4>1. Known(history.owners[v], "user", NoUser, owner')
        BY <2>0, <3>1, <3>3 DEF Known, Serving
      <4> QED BY <3>1, <3>3, <4>1, ResolveOwner
    <3> QED BY <2>5, <3>2, <3>3 DEF FindPhone
  <2>6. ASSUME pc[v] \in {"user", "create", "link"}, NEW who,
               NEW next \in {"create", "link", "issue", "idle"}, Resolve(v, who, next),
               owner' = owner \/ owner = NoUser
        PROVE  OwnerInv'
    <3>1. NoUser \in history.owners[v]
      BY <2>0, <2>6 DEF Known, Serving
    <3>2. Known(history.owners[v], next, who, owner')
      BY <3>1 DEF Known
    <3> QED BY <2>6, <3>2, ResolveOwner
  <2>7. CASE FindUser(v)
    <3>1. /\ pc[v] = "user" /\ owner' = owner
          /\ \E who, next : next \in {"create", "link"} /\ Resolve(v, who, next)
      BY <2>7 DEF FindUser
    <3> QED BY <2>6, <3>1
  <2>8. CASE CreateUser(v)
    BY <2>6, <2>8 DEF CreateUser
  <2>9. CASE LinkPhone(v)
    <3>1. pc[v] = "link"
      BY <2>9 DEF LinkPhone
    <3>2. owner' = owner \/ owner = NoUser
      BY <2>9 DEF LinkPhone
    <3>3. \E who, next : next \in {"issue", "idle"} /\ Resolve(v, who, next)
      BY <2>9 DEF LinkPhone
    <3> QED BY <2>6, <3>1, <3>2, <3>3
  <2>10. CASE Issue(v)
    BY <2>10, ResolveOwner DEF Issue
  <2> QED
    BY <1>2, <2>1, <2>2, <2>3, <2>4, <2>5, <2>7, <2>8, <2>9, <2>10 DEF Verify
<1>3. ASSUME NEW a \in Admins, Administer(a) PROVE OwnerInv'
  <2>1. history'.owners = history.owners
    BY <1>3, StoreRowFields
       DEF Administer, AdminCreate, Create, Redraw, AdminRedraw, AdminSave, Save,
           AdminDelete, SiteEdit
  <2>2. PICK location \in {"adminRow", "adminSave", "idle"} : Goto(a, location)
    BY <1>3 DEF Administer, AdminCreate, Create, Redraw, AdminRedraw, AdminSave, Save,
                AdminDelete, SiteEdit
  <2>3. UNCHANGED <<owner, user>>
    BY <1>3 DEF Administer, AdminCreate, Create, Redraw, AdminRedraw, AdminSave, Save,
                AdminDelete, SiteEdit
  <2> QED BY <1>0, <1>01, <2>1, <2>2, <2>3, ElsewhereOwner
<1>4. ASSUME NEW r \in Requests, Fail(r) PROVE OwnerInv'
  <2>1. pc'[r] = "idle" /\ owner' = owner
        /\ \A w \in Verifiers \ {r} : pc'[w] = pc[w] /\ user'[w] = user[w]
    BY <1>0, <1>4 DEF Fail, Goto
  <2>2. \A w \in Verifiers \ {r} : history'.owners[w] = history.owners[w]
    <3>1. history'.owners = [v \in Verifiers |-> IF v = r THEN {} ELSE history.owners[v]]
      BY <1>4, FailFields
    <3> QED BY <3>1
  <2>3. Known(history'.owners[r], pc'[r], user'[r], owner')
    BY <2>1 DEF Known, Serving
  <2> QED BY <2>1, <2>2, <2>3, OneOwner
<1>5. CASE Site
  <2>1. owner' \in Nat
    <3>1. TypeInv'
      BY NextType
    <3> QED BY <3>1 DEF TypeInv, TypeOK, NoUser
  <2>2. \A v \in Verifiers : history'.owners[v] =
            IF history.owners[v] = {} THEN {} ELSE history.owners[v] \union {owner'}
    BY <1>5, <2>1, SiteFields
  <2>3. pc' = pc /\ user' = user
    BY <1>5 DEF Site
  <2> SUFFICES ASSUME NEW w \in Verifiers
               PROVE  Known(history'.owners[w], pc'[w], user'[w], owner')
    BY DEF OwnerInv
  <2> QED BY <2>2, <2>3 DEF OwnerInv, Known
<1>6. CASE CodeExpires
  BY <1>6 DEF CodeExpires, OwnerInv
<1>7. CASE RateExpires \/ AttemptsExpire
  <2>1. history'.owners = history.owners
    BY <1>7 DEF RateExpires, AttemptsExpire, TypeInv, Histories
  <2> QED BY <1>7, <2>1 DEF RateExpires, AttemptsExpire, OwnerInv
<1>8. CASE UNCHANGED vars
  BY <1>8 DEF vars, OwnerInv
<1> QED BY <1>1, <1>2, <1>3, <1>4, <1>5, <1>6, <1>7, <1>8 DEF Next

\* While the phone has an owner every login is an owner's, however many logins race,
\* and only the admin site makes it change hands (get_or_create_user_by_phone).
THEOREM PhoneKeepsUser == Spec => []KnownPhoneKeepsUser
<1>1. OwnerInv => KnownPhoneKeepsUser
  <2> SUFFICES ASSUME OwnerInv, NEW v \in Verifiers, pc[v] = "issue"
               PROVE  history.owners[v] \intersect {user[v], NoUser} # {}
    BY DEF KnownPhoneKeepsUser
  <2>1. user[v] \in history.owners[v] \/ NoUser \in history.owners[v]
    BY DEF OwnerInv, Known, Serving
  <2> QED BY <2>1
<1> QED BY <1>1, InitOwner, NextOwner, Types, PTL DEF Spec

-----------------------------------------------------------------------------
(* Spent codes.                                                            *)

\* The instances that requests may still save.
Saving == {r \in Requests : pc[r] \in {"save", "adminSave"}}

\* A code that has left the row is on no instance that may still be saved, for each
\* instance has a code of its own that has never been stored.
CodesInv ==
    /\ row # NoRow => row.code \in 1..issued
    /\ history.retired \subseteq 1..issued /\ row.code \notin history.retired
    /\ \A r \in Saving : /\ obj[r].code \in 1..issued
                         /\ obj[r].code \notin history.retired \union {row.code}
    /\ \A r, q \in Saving : r # q => obj[r].code # obj[q].code

\* A verification at `place` with the instance `held`, and the codes that were spent
\* when it started: what it holds is none of them, or has expired by now.
Late(late, place, held, retired, gone) ==
    /\ place \in {"read", "decide"} => late \subseteq retired \union gone
    /\ place = "decide" /\ held # NoRow => held.code \notin late \/ held.code \in gone
    /\ place = "delete" => held.code \notin late

LateInv ==
    \A v \in Verifiers :
        Late(history.late[v], pc[v], obj[v], history.retired, expired)

LEMMA InitCodes == Init => CodesInv /\ LateInv
BY DEF Init, CodesInv, LateInv, Late, Saving, NoRow, Requests

\* A step that stores no code and leaves nothing new to be saved.
LEMMA QuietCodes ==
    ASSUME TypeInv, CodesInv, UNCHANGED <<row, digits>>,
           history'.retired = history.retired,
           Saving' \subseteq Saving, \A r \in Saving' : obj'[r].code = obj[r].code
    PROVE  CodesInv'
BY DEF CodesInv, issued

\* One that stores the code of r, of nobody else, or none.
LEMMA StoreCodes ==
    ASSUME TypeInv, CodesInv, NEW new \in Row, StoreRow(new), UNCHANGED digits,
           Saving' \subseteq Saving, \A r \in Saving' : obj'[r].code = obj[r].code,
           \/ new = NoRow
           \/ \E r \in Saving : new = obj[r] /\ r \notin Saving'
    PROVE  CodesInv'
<1>0. issued' = issued
  BY DEF issued
<1>1. /\ row' = new
      /\ history'.retired = IF row # NoRow /\ row.code # new.code
                            THEN history.retired \union {row.code}
                            ELSE history.retired
  BY StoreRowFields
<1>2. new # NoRow => new.code \in 1..issued
  BY DEF CodesInv
<1>3. new.code \notin history'.retired
  BY <1>1 DEF CodesInv, NoRow
<1>4. history'.retired \subseteq 1..issued
  BY <1>1 DEF CodesInv
<1>5. ASSUME NEW r \in Saving' PROVE obj'[r].code \notin history'.retired \union {new.code}
  <2>1. CASE new = NoRow
    BY <1>1, <2>1 DEF CodesInv, NoRow
  <2>2. CASE \E q \in Saving : new = obj[q] /\ q \notin Saving'
    BY <1>1, <2>2 DEF CodesInv
  <2> QED BY <2>1, <2>2
<1> QED BY <1>0, <1>1, <1>2, <1>3, <1>4, <1>5 DEF CodesInv

\* One that draws the next code, for a new row or to be saved by r.
LEMMA DrawCodes ==
    ASSUME TypeInv, CodesInv, NEW r \in Requests, issued' = NextCode,
           history'.retired = history.retired,
           \A q \in Saving' \ {r} : q \in Saving /\ obj'[q].code = obj[q].code,
           \/ row = NoRow /\ row'.code = NextCode /\ row' # NoRow /\ r \notin Saving'
           \/ row' = row /\ obj'[r].code = NextCode
    PROVE  CodesInv'
<1>1. issued \in Nat /\ 1..issued \subseteq 1..issued' /\ NextCode \in 1..issued'
      /\ NextCode \notin 1..issued
  <2>1. issued \in Nat /\ NextCode = issued + 1
    BY DEF TypeInv, TypeOK, issued, NextCode
  <2> QED BY <2>1
<1>2. row.code \in 0..issued /\ NextCode # row.code
  BY <1>1 DEF CodesInv, NoRow, NextCode
<1>3. CASE row = NoRow /\ row'.code = NextCode /\ row' # NoRow /\ r \notin Saving'
  BY <1>1, <1>3 DEF CodesInv
<1>4. CASE row' = row /\ obj'[r].code = NextCode
  BY <1>1, <1>2, <1>4 DEF CodesInv
<1> QED BY <1>3, <1>4

LEMMA CreateCodes ==
    ASSUME TypeInv, CodesInv, NEW r \in Requests, NEW next \in {"deliver", "adminRow"},
           Create(r, next)
    PROVE  CodesInv'
<1>1. pc \in [Requests -> Ended \union Running] /\ obj \in [Requests -> Row]
  BY DEF TypeInv, TypeOK
<1>2. issued' = NextCode /\ NextCode \in Nat /\ NextCode # 0
  <2>1. issued \in Nat
    BY DEF TypeInv, TypeOK, issued
  <2>2. issued' = NextCode /\ NextCode = issued + 1
    BY <2>1, Choices, Drawn DEF Create
  <2> QED BY <2>1, <2>2
<1>3. row = NoRow /\ history'.retired = history.retired /\ row'.code = NextCode
  BY StoreRowFields DEF Create
<1>4. row' # NoRow
  BY <1>2, <1>3 DEF NoRow
<1>5. r \notin Saving' /\ \A q \in Saving' \ {r} : q \in Saving /\ obj'[q] = obj[q]
  BY <1>1 DEF Create, Saving, Goto
<1> QED BY <1>2, <1>3, <1>4, <1>5, DrawCodes

LEMMA RedrawCodes ==
    ASSUME TypeInv, CodesInv, NEW r \in Requests, NEW pk, NEW choices, NEW next,
           choices \subseteq 1..NextCode, Redraw(r, pk, choices, next)
    PROVE  CodesInv'
<1>1. pc \in [Requests -> Ended \union Running] /\ obj \in [Requests -> Row]
  BY DEF TypeInv, TypeOK
<1>2. issued' = NextCode
  BY Drawn DEF Redraw
<1>3. /\ obj'[r].code = NextCode /\ UNCHANGED <<row, history>>
      /\ \A q \in Saving' \ {r} : q \in Saving /\ obj'[q] = obj[q]
  BY <1>1 DEF Redraw, Saving, Goto
<1> QED BY <1>2, <1>3, DrawCodes

LEMMA SaveCodes ==
    ASSUME TypeInv, CodesInv, NEW r \in Saving, NEW next \in {"deliver", "idle"},
           Save(r, next)
    PROVE  CodesInv'
<1>1. pc \in [Requests -> Ended \union Running] /\ obj \in [Requests -> Row]
      /\ r \in Requests
  BY DEF TypeInv, TypeOK, Saving
<1>2. Goto(r, next) \/ Goto(r, "idle")
  BY DEF Save
<1>3. obj' \in {obj, [obj EXCEPT ![r] = NoRow]}
  BY DEF Save
<1>4. /\ Saving' \subseteq Saving /\ r \notin Saving'
      /\ \A q \in Saving' : obj'[q] = obj[q]
  BY <1>1, <1>2, <1>3 DEF Saving, Goto
<1>5. CASE StoreRow(obj[r])
  BY <1>1, <1>4, <1>5, StoreCodes DEF Save
<1>6. CASE UNCHANGED <<row, history>>
  BY <1>4, <1>6, QuietCodes DEF Save
<1> QED BY <1>5, <1>6 DEF Save

LEMMA NextCodes == TypeInv /\ CodesInv /\ [Next]_vars => CodesInv'
<1> SUFFICES ASSUME TypeInv, CodesInv, [Next]_vars PROVE CodesInv'
  OBVIOUS
<1> USE DEF otpVars
<1>0. /\ pc \in [Requests -> Ended \union Running] /\ obj \in [Requests -> Row]
      /\ Senders \subseteq Requests /\ Verifiers \subseteq Requests
      /\ Admins \subseteq Requests /\ NoRow \in Row /\ issued \in Nat
  BY BoundsAssumption DEF TypeInv, TypeOK, Requests, NoRow, Row, issued
<1>1. ASSUME NEW s \in Senders, Send(s) PROVE CodesInv'
  <2>1. CASE SendCheck(s)
    <3>1. Saving' \subseteq Saving
      BY <1>0, <2>1 DEF SendCheck, Saving, Goto
    <3> QED BY <2>1, <3>1, QuietCodes DEF SendCheck
  <2>2. CASE SendRow(s)
    BY <1>0, <2>2, CreateCodes, RedrawCodes, Choices DEF SendRow
  <2>3. CASE SendSave(s)
    BY <1>0, <2>3, SaveCodes DEF SendSave, Saving
  <2>4. CASE Deliver(s)
    <3>1. Saving' \subseteq Saving /\ \A q \in Saving' : obj'[q] = obj[q]
      BY <1>0, <2>4 DEF Deliver, Saving, Goto
    <3>2. history'.retired = history.retired
      BY <2>4 DEF Deliver, TypeInv, Histories
    <3> QED BY <2>4, <3>1, <3>2, QuietCodes DEF Deliver
  <2> QED BY <1>1, <2>1, <2>2, <2>3, <2>4 DEF Send
<1>2. ASSUME NEW v \in Verifiers, Verify(v) PROVE CodesInv'
  <2>1. CASE VerifyCheck(v)
    <3>1. /\ history'.retired = history.retired
          /\ \E place \in {"limited", "read"} : pc' = [pc EXCEPT ![v] = place]
      BY <2>1, VerifyCheckFields DEF Untouched
    <3>2. Saving' \subseteq Saving
      BY <1>0, <3>1 DEF Saving
    <3> QED BY <2>1, <3>1, <3>2, QuietCodes DEF VerifyCheck
  <2>2. CASE VerifyRead(v)
    <3>1. Saving' \subseteq Saving /\ \A q \in Saving' : obj'[q] = obj[q]
      BY <1>0, <2>2 DEF VerifyRead, Saving, Goto
    <3> QED BY <2>2, <3>1, QuietCodes DEF VerifyRead
  <2>3. CASE Decide(v)
    <3>1. history'.retired = history.retired
      BY <2>3, DecideFields
    <3>2. /\ Goto(v, "delete") \/ Goto(v, "idle")
          /\ obj' \in {obj, [obj EXCEPT ![v] = NoRow]} /\ pc[v] = "decide"
      BY <2>3 DEF Decide
    <3>3. Saving' \subseteq Saving /\ \A q \in Saving' : obj'[q] = obj[q]
      BY <1>0, <3>2 DEF Saving, Goto
    <3> QED BY <2>3, <3>1, <3>3, QuietCodes DEF Decide
  <2>4. CASE DeleteRow(v)
    <3>1. Saving' \subseteq Saving /\ \A q \in Saving' : obj'[q] = obj[q]
      BY <1>0, <2>4 DEF DeleteRow, Saving, Goto
    <3> QED BY <1>0, <2>4, <3>1, QuietCodes, StoreCodes DEF DeleteRow
  <2>5. ASSUME NEW who, NEW next, next \notin {"save", "adminSave"},
               Resolve(v, who, next)
        PROVE CodesInv'
    <3>1. history'.retired = history.retired
      BY <2>5, ResolveFields DEF Untouched
    <3>2. Saving' \subseteq Saving
      BY <1>0, <2>5 DEF Resolve, Saving, Goto
    <3> QED BY <2>5, <3>1, <3>2, QuietCodes DEF Resolve
  <2>6. CASE FindPhone(v) \/ FindUser(v) \/ CreateUser(v) \/ LinkPhone(v) \/ Issue(v)
    BY <2>5, <2>6 DEF FindPhone, FindUser, CreateUser, LinkPhone, Issue
  <2> QED BY <1>2, <2>1, <2>2, <2>3, <2>4, <2>6 DEF Verify
<1>3. ASSUME NEW a \in Admins, Administer(a) PROVE CodesInv'
  <2>1. CASE AdminCreate(a)
    BY <1>0, <2>1, CreateCodes, RedrawCodes, Choices DEF AdminCreate
  <2>2. CASE AdminRedraw(a)
    BY <1>0, <2>2, RedrawCodes, Choices DEF AdminRedraw
  <2>3. CASE AdminSave(a)
    BY <1>0, <2>3, SaveCodes DEF AdminSave, Saving
  <2>4. CASE AdminDelete(a)
    <3>1. Saving' \subseteq Saving
      BY <1>0, <2>4 DEF AdminDelete, Saving, Goto
    <3> QED BY <1>0, <2>4, <3>1, StoreCodes DEF AdminDelete
  <2>5. CASE SiteEdit(a)
    BY <1>0, <2>5, RedrawCodes, Choices DEF SiteEdit
  <2> QED BY <1>3, <2>1, <2>2, <2>3, <2>4, <2>5 DEF Administer
<1>4. ASSUME NEW r \in Requests, Fail(r) PROVE CodesInv'
  <2>1. Saving' \subseteq Saving /\ \A q \in Saving' : obj'[q] = obj[q]
    BY <1>0, <1>4 DEF Fail, Saving, Goto
  <2>2. history'.retired = history.retired
    BY <1>4, FailFields DEF Untouched
  <2> QED BY <1>4, <2>1, <2>2, QuietCodes DEF Fail
<1>5. CASE Site
  <2>1. history'.retired = history.retired
    BY <1>5 DEF Site, TypeInv, Histories
  <2> QED BY <1>5, <2>1, QuietCodes DEF Site, Saving
<1>6. CASE CodeExpires
  BY <1>6, QuietCodes DEF CodeExpires, Saving
<1>7. CASE RateExpires \/ AttemptsExpire
  <2>1. history'.retired = history.retired
    BY <1>7 DEF RateExpires, AttemptsExpire, TypeInv, Histories
  <2> QED BY <1>7, <2>1, QuietCodes DEF RateExpires, AttemptsExpire, Saving
<1>8. CASE UNCHANGED vars
  BY <1>8, QuietCodes DEF vars, Saving
<1> QED BY <1>1, <1>2, <1>3, <1>4, <1>5, <1>6, <1>7, <1>8 DEF Next

\* A step of one request, which alone may have to be looked at: spent codes stay spent.
LEMMA OneLate ==
    ASSUME LateInv, NEW r,
           history.retired \subseteq history'.retired, expired \subseteq expired',
           \A w \in Verifiers \ {r} : /\ pc'[w] = pc[w] /\ obj'[w] = obj[w]
                                      /\ history'.late[w] = history.late[w],
           r \in Verifiers =>
               Late(history'.late[r], pc'[r], obj'[r], history'.retired, expired')
    PROVE  LateInv'
<1> SUFFICES ASSUME NEW w \in Verifiers
             PROVE  Late(history'.late[w], pc'[w], obj'[w], history'.retired, expired')
  BY DEF LateInv
<1>1. CASE w = r
  BY <1>1
<1>2. CASE w # r
  BY <1>2 DEF LateInv, Late
<1> QED BY <1>1, <1>2

LEMMA ElsewhereLate ==
    ASSUME TypeInv, LateInv, NEW r \in Requests, NEW location,
           location \notin {"read", "decide", "delete"}, Goto(r, location),
           \A q \in Requests \ {r} : obj'[q] = obj[q],
           history.retired \subseteq history'.retired, expired \subseteq expired',
           \A w \in Verifiers \ {r} : history'.late[w] = history.late[w]
    PROVE  LateInv'
<1>1. pc'[r] = location /\ \A q \in Requests \ {r} : pc'[q] = pc[q]
  BY DEF Goto, TypeInv, TypeOK
<1>2. Late(history'.late[r], pc'[r], obj'[r], history'.retired, expired')
  BY <1>1 DEF Late
<1> QED BY <1>1, <1>2, OneLate DEF Requests

LEMMA QuietLate ==
    ASSUME LateInv, UNCHANGED <<pc, obj>>, history'.late = history.late,
           history.retired \subseteq history'.retired, expired \subseteq expired'
    PROVE  LateInv'
BY DEF LateInv, Late

LEMMA StoreLate ==
    ASSUME TypeInv, NEW new, StoreRow(new)
    PROVE  history'.late = history.late /\ history.retired \subseteq history'.retired
BY StoreRowFields

LEMMA NextLate == TypeInv /\ CodesInv /\ LateInv /\ [Next]_vars => LateInv'
<1> SUFFICES ASSUME TypeInv, CodesInv, LateInv, [Next]_vars PROVE LateInv'
  OBVIOUS
<1>0. /\ pc \in [Requests -> Ended \union Running] /\ obj \in [Requests -> Row]
      /\ Senders \subseteq Requests /\ Verifiers \subseteq Requests
      /\ Admins \subseteq Requests /\ history.late \in [Verifiers -> SUBSET Nat]
  BY DEF TypeInv, TypeOK, Requests, Histories
<1>1. ASSUME NEW s \in Senders, Send(s) PROVE LateInv'
  <2>1. PICK location \in {"row", "save", "deliver", "idle", "limited"} :
             Goto(s, location)
    BY <1>1 DEF Send, SendCheck, SendRow, Create, Redraw, SendSave, Save, Deliver
  <2>2. expired' = expired /\ \A q \in Requests \ {s} : obj'[q] = obj[q]
    BY <1>0, <1>1 DEF Send, SendCheck, SendRow, Create, Redraw, SendSave, Save, Deliver
  <2>3. history'.late = history.late /\ history.retired \subseteq history'.retired
    <3>1. CASE Deliver(s)
      BY <3>1 DEF Deliver, TypeInv, Histories
    <3> QED BY <1>1, <3>1, StoreLate
            DEF Send, SendCheck, SendRow, Create, Redraw, SendSave, Save
  <2> QED BY <1>0, <2>1, <2>2, <2>3, ElsewhereLate
<1>2. ASSUME NEW v \in Verifiers, Verify(v) PROVE LateInv'
  <2>0. Late(history.late[v], pc[v], obj[v], history.retired, expired)
    BY DEF LateInv
  <2>1. CASE VerifyCheck(v)
    <3>1. UNCHANGED <<expired, obj>> /\ history'.retired = history.retired
      BY <2>1, VerifyCheckFields DEF VerifyCheck, Untouched
    <3>2. CASE pc' = [pc EXCEPT ![v] = "limited"] /\ history' = history
      BY <1>0, <3>1, <3>2, ElsewhereLate DEF Goto
    <3>3. CASE /\ pc' = [pc EXCEPT ![v] = "read"]
               /\ \A w \in Verifiers \ {v} : history'.late[w] = history.late[w]
               /\ history'.late[v] \subseteq history.retired \union expired
      <4>1. pc'[v] = "read" /\ \A w \in Verifiers \ {v} : pc'[w] = pc[w]
        BY <1>0, <3>3
      <4>2. Late(history'.late[v], pc'[v], obj'[v], history'.retired, expired')
        BY <3>1, <3>3, <4>1 DEF Late
      <4> QED BY <3>1, <3>3, <4>1, <4>2, OneLate
    <3> QED BY <2>1, <3>2, <3>3, VerifyCheckFields
  <2>2. CASE VerifyRead(v)
    <3>1. /\ pc[v] = "read" /\ pc'[v] = "decide" /\ obj'[v] = row
          /\ \A w \in Verifiers \ {v} : pc'[w] = pc[w] /\ obj'[w] = obj[w]
          /\ UNCHANGED <<history, expired>>
      BY <1>0, <2>2 DEF VerifyRead, Goto
    <3>2. row.code \notin history.retired
      BY DEF CodesInv
    <3>3. Late(history'.late[v], pc'[v], obj'[v], history'.retired, expired')
      BY <2>0, <3>1, <3>2 DEF Late
    <3> QED BY <3>1, <3>3, OneLate
  <2>3. CASE Decide(v)
    <3>0. history'.retired = history.retired /\ expired' = expired /\ pc[v] = "decide"
      BY <2>3, DecideFields DEF Decide
    <3>1. CASE Matches(v)
      <4>1. /\ pc'[v] = "delete" /\ obj' = obj
            /\ \A w \in Verifiers \ {v} : pc'[w] = pc[w]
        BY <1>0, <2>3, <3>1 DEF Decide, Goto
      <4>2. history'.late = history.late
        BY <2>3, <3>1, DecideFields
      <4>3. Late(history'.late[v], pc'[v], obj'[v], history'.retired, expired')
        BY <2>0, <3>0, <3>1, <4>1, <4>2 DEF Late, Matches
      <4> QED BY <3>0, <4>1, <4>2, <4>3, OneLate
    <3>2. CASE ~Matches(v)
      <4>1. Goto(v, "idle") /\ \A q \in Requests \ {v} : obj'[q] = obj[q]
        BY <1>0, <2>3, <3>2 DEF Decide
      <4>2. \A w \in Verifiers \ {v} : history'.late[w] = history.late[w]
        BY <1>0, <2>3, <3>2, DecideFields
      <4> QED BY <1>0, <3>0, <4>1, <4>2, ElsewhereLate
    <3> QED BY <3>1, <3>2
  <2>4. CASE DeleteRow(v)
    <3>1. /\ Goto(v, "phone") /\ expired' = expired
          /\ \A q \in Requests \ {v} : obj'[q] = obj[q]
      BY <1>0, <2>4 DEF DeleteRow
    <3>2. history'.late = history.late /\ history.retired \subseteq history'.retired
      BY <2>4, StoreLate DEF DeleteRow
    <3> QED BY <1>0, <3>1, <3>2, ElsewhereLate
  <2>5. ASSUME NEW who, NEW next \in {"issue", "user", "link", "create", "idle"},
               Resolve(v, who, next)
        PROVE LateInv'
    <3>1. /\ \A w \in Verifiers \ {v} : history'.late[w] = history.late[w]
          /\ history'.retired = history.retired
      BY <2>5, ResolveFields DEF Untouched
    <3>2. UNCHANGED <<expired, obj>> /\ Goto(v, next)
      BY <2>5 DEF Resolve
    <3> QED BY <1>0, <3>1, <3>2, ElsewhereLate
  <2>6. CASE FindPhone(v) \/ FindUser(v) \/ CreateUser(v) \/ LinkPhone(v) \/ Issue(v)
    BY <2>5, <2>6 DEF FindPhone, FindUser, CreateUser, LinkPhone, Issue
  <2> QED BY <1>2, <2>1, <2>2, <2>3, <2>4, <2>6 DEF Verify
<1>3. ASSUME NEW a \in Admins, Administer(a) PROVE LateInv'
  <2>1. PICK location \in {"adminRow", "adminSave", "idle"} : Goto(a, location)
    BY <1>3 DEF Administer, AdminCreate, Create, Redraw, AdminRedraw, AdminSave, Save,
                AdminDelete, SiteEdit
  <2>2. expired' = expired /\ \A q \in Requests \ {a} : obj'[q] = obj[q]
    BY <1>0, <1>3 DEF Administer, AdminCreate, Create, Redraw, AdminRedraw, AdminSave,
                      Save, AdminDelete, SiteEdit
  <2>3. history'.late = history.late /\ history.retired \subseteq history'.retired
    BY <1>3, StoreLate
       DEF Administer, AdminCreate, Create, Redraw, AdminRedraw, AdminSave, Save,
           AdminDelete, SiteEdit
  <2> QED BY <1>0, <2>1, <2>2, <2>3, ElsewhereLate
<1>4. ASSUME NEW r \in Requests, Fail(r) PROVE LateInv'
  <2>1. /\ Goto(r, "idle") /\ expired' = expired
        /\ \A q \in Requests \ {r} : obj'[q] = obj[q]
    BY <1>0, <1>4 DEF Fail
  <2>2. /\ history'.retired = history.retired
        /\ history'.late = [v \in Verifiers |-> IF v = r THEN {} ELSE history.late[v]]
    BY <1>4, FailFields DEF Untouched
  <2>3. \A w \in Verifiers \ {r} : history'.late[w] = history.late[w]
    BY <2>2
  <2> QED BY <2>1, <2>2, <2>3, ElsewhereLate
<1>5. CASE Site
  <2>1. history'.late = history.late /\ history'.retired = history.retired
    BY <1>5 DEF Site, TypeInv, Histories
  <2> QED BY <1>5, <2>1, QuietLate DEF Site
<1>6. CASE CodeExpires
  BY <1>6, QuietLate DEF CodeExpires
<1>7. CASE RateExpires \/ AttemptsExpire
  <2>1. history'.late = history.late /\ history'.retired = history.retired
    BY <1>7 DEF RateExpires, AttemptsExpire, TypeInv, Histories
  <2> QED BY <1>7, <2>1, QuietLate DEF RateExpires, AttemptsExpire
<1>8. CASE UNCHANGED vars
  BY <1>8, QuietLate DEF vars
<1> QED BY <1>1, <1>2, <1>3, <1>4, <1>5, <1>6, <1>7, <1>8 DEF Next

\* No request succeeds by a code that was consumed, replaced, deleted or expired when it
\* started, whatever saves of stale instances race with it (verify_otp).
THEOREM SpentStaysSpent == Spec => []LateVerifyFails
<1>1. LateInv => LateVerifyFails
  BY DEF LateInv, Late, LateVerifyFails
<1> QED BY <1>1, InitCodes, NextCodes, NextLate, Types, PTL DEF Spec

-----------------------------------------------------------------------------
(* The limits.                                                             *)

\* The requests that have passed the test of a limit and not been counted yet.
Sending == {s \in Senders : pc[s] \in {"row", "save", "deliver"}}
Guessing == {v \in Verifiers : pc[v] \in {"read", "decide"}}

\* What is counted and what will be stays below the limit and the requests.
LimitInv ==
    /\ history.sends = rate
    /\ rate + Cardinality(Sending) < RateMax + Cardinality(Senders)
    /\ history.misses = attempts
    /\ attempts + Cardinality(Guessing) < MaxAttempts + Cardinality(Verifiers)

LEMMA Part ==
    ASSUME NEW S, IsFiniteSet(S), NEW T, T \subseteq S
    PROVE  /\ IsFiniteSet(T) /\ Cardinality(T) \in Nat /\ Cardinality(S) \in Nat
           /\ Cardinality(T) <= Cardinality(S)
           /\ \A x \in T : Cardinality(T \ {x}) = Cardinality(T) - 1
BY FS_Subset, FS_CardinalityType, FS_RemoveElement

\* A counter with a limit: a step that lets a request in tests the limit, one that
\* counts takes the request out, one that resets the counter needs nothing.
LEMMA CounterStep ==
    ASSUME NEW S, IsFiniteSet(S), NEW T, T \subseteq S, NEW U, U \subseteq S,
           NEW limit \in Nat \ {0}, NEW count \in Nat, NEW next,
           count + Cardinality(T) < limit + Cardinality(S),
           \/ next = count /\ U \subseteq T
           \/ next = count /\ count < limit
           \/ next = count + 1 /\ \E x \in T : U \subseteq T \ {x}
           \/ next = 0
    PROVE  next + Cardinality(U) < limit + Cardinality(S)
<1>1. /\ Cardinality(T) \in Nat /\ Cardinality(U) \in Nat /\ Cardinality(S) \in Nat
      /\ Cardinality(U) <= Cardinality(S) /\ IsFiniteSet(T)
  BY Part
<1>2. CASE next = count /\ U \subseteq T
  <2>1. Cardinality(U) <= Cardinality(T)
    BY <1>1, <1>2, Part
  <2> QED BY <1>1, <1>2, <2>1
<1>3. CASE next = count /\ count < limit
  BY <1>1, <1>3
<1>4. CASE next = count + 1 /\ \E x \in T : U \subseteq T \ {x}
  <2>1. PICK x \in T : U \subseteq T \ {x}
    BY <1>4
  <2>2. Cardinality(T \ {x}) = Cardinality(T) - 1 /\ IsFiniteSet(T \ {x})
    BY <1>1, Part, FS_Subset
  <2>3. Cardinality(U) <= Cardinality(T \ {x})
    BY <2>1, <2>2, FS_Subset
  <2> QED BY <1>1, <1>4, <2>2, <2>3
<1>5. CASE next = 0
  BY <1>1, <1>5
<1> QED BY <1>2, <1>3, <1>4, <1>5

LEMMA InitLimit == Init => LimitInv
<1> SUFFICES ASSUME Init PROVE LimitInv
  OBVIOUS
<1>1. Sending = {} /\ Guessing = {}
  BY DEF Init, Sending, Guessing, Requests
<1>2. rate = 0 /\ attempts = 0 /\ history.sends = 0 /\ history.misses = 0
  BY DEF Init
<1>3. Cardinality(Senders) \in Nat /\ Cardinality(Verifiers) \in Nat
  BY FiniteAssumption, FS_CardinalityType
<1> QED BY <1>1, <1>2, <1>3, FS_EmptySet, LimitsAssumption DEF LimitInv

\* What a step of a request that no limit is about does to the counts.
Uncounted ==
    /\ UNCHANGED <<rate, attempts>>
    /\ history'.sends = history.sends /\ history'.misses = history.misses
    /\ Sending' \subseteq Sending /\ Guessing' \subseteq Guessing

\* What a step does to the deliveries, and to the misses.
SendStep ==
    /\ history'.sends = rate'
    /\ \/ rate' = rate /\ Sending' \subseteq Sending
       \/ rate' = rate /\ rate < RateMax
       \/ rate' = rate + 1 /\ \E s \in Sending : Sending' \subseteq Sending \ {s}
       \/ rate' = 0

MissStep ==
    /\ history'.misses = attempts'
    /\ \/ attempts' = attempts /\ Guessing' \subseteq Guessing
       \/ attempts' = attempts /\ attempts < MaxAttempts
       \/ /\ attempts' = attempts + 1
          /\ \E v \in Guessing : Guessing' \subseteq Guessing \ {v}
       \/ attempts' = 0

LEMMA LimitSteps ==
    ASSUME TypeInv, LimitInv, [Next]_vars
    PROVE  SendStep /\ MissStep
<1> USE DEF otpVars, userVars
<1>0. pc \in [Requests -> Ended \union Running] /\ rate \in Nat /\ attempts \in Nat
      /\ Senders \union Verifiers \union Admins \subseteq Requests
      /\ history.sends = rate /\ history.misses = attempts
  BY DEF TypeInv, TypeOK, Requests, LimitInv
<1>1. ASSUME Uncounted PROVE SendStep /\ MissStep
  BY <1>0, <1>1 DEF Uncounted, SendStep, MissStep
<1>2. ASSUME NEW r \in Requests, NEW location, Goto(r, location)
      PROVE  /\ (location \in {"row", "save", "deliver"} => r \in Sending)
                    => Sending' \subseteq Sending
             /\ (location \in {"read", "decide"} => r \in Guessing)
                    => Guessing' \subseteq Guessing
  BY <1>0, <1>2 DEF Goto, Sending, Guessing
<1>3. ASSUME NEW s \in Senders, Send(s) PROVE SendStep /\ MissStep
  <2>1. CASE SendCheck(s)
    <3>1. UNCHANGED <<rate, attempts, history>>
      BY <2>1 DEF SendCheck
    <3>2. CASE Limited
      BY <1>0, <1>1, <1>2, <2>1, <3>1, <3>2 DEF SendCheck, Uncounted
    <3>3. CASE ~Limited
      <4>1. rate < RateMax
        BY <1>0, <3>3, LimitsAssumption DEF Limited
      <4>2. Guessing' \subseteq Guessing
        BY <1>0, <1>2, <2>1, <3>3 DEF SendCheck
      <4> QED BY <1>0, <3>1, <4>1, <4>2 DEF SendStep, MissStep
    <3> QED BY <3>2, <3>3
  <2>2. CASE SendRow(s)
    <3>1. history'.sends = history.sends /\ history'.misses = history.misses
      BY <2>2, StoreRowFields DEF SendRow, Create, Redraw
    <3>2. s \in Sending /\ UNCHANGED <<rate, attempts>>
          /\ (Goto(s, "deliver") \/ Goto(s, "save"))
      BY <2>2 DEF SendRow, Create, Redraw, Sending
    <3> QED BY <1>0, <1>1, <1>2, <3>1, <3>2 DEF Uncounted
  <2>3. CASE SendSave(s)
    <3>1. history'.sends = history.sends /\ history'.misses = history.misses
      BY <2>3, StoreRowFields DEF SendSave, Save
    <3>2. s \in Sending /\ UNCHANGED <<rate, attempts>>
          /\ (Goto(s, "deliver") \/ Goto(s, "idle"))
      BY <2>3 DEF SendSave, Save, Sending
    <3> QED BY <1>0, <1>1, <1>2, <3>1, <3>2 DEF Uncounted
  <2>4. CASE Deliver(s)
    <3>1. history'.sends = history.sends + 1 /\ history'.misses = history.misses
      BY <2>4 DEF Deliver, TypeInv, Histories
    <3>2. s \in Sending /\ Sending' \subseteq Sending \ {s} /\ Guessing' \subseteq Guessing
      BY <1>0, <2>4 DEF Deliver, Goto, Sending, Guessing
    <3> QED BY <1>0, <2>4, <3>1, <3>2 DEF Deliver, CountSend, SendStep, MissStep
  <2> QED BY <1>3, <2>1, <2>2, <2>3, <2>4 DEF Send
<1>4. ASSUME NEW v \in Verifiers, Verify(v) PROVE SendStep /\ MissStep
  <2>1. CASE VerifyCheck(v)
    <3>1. history'.sends = history.sends /\ history'.misses = history.misses
      BY <2>1, VerifyCheckFields DEF Untouched
    <3>2. \/ Goto(v, "limited")
          \/ Goto(v, "read") /\ attempts < MaxAttempts
      <4>1. ~VerifyLimited => attempts < MaxAttempts
        BY <1>0, LimitsAssumption DEF VerifyLimited
      <4> QED BY <2>1, <4>1 DEF VerifyCheck
    <3>3. UNCHANGED <<rate, attempts>>
      BY <2>1 DEF VerifyCheck
    <3>4. CASE Goto(v, "limited")
      BY <1>0, <1>1, <1>2, <3>1, <3>3, <3>4 DEF Uncounted
    <3>5. CASE Goto(v, "read") /\ attempts < MaxAttempts
      <4>1. Sending' \subseteq Sending
        BY <1>0, <1>2, <3>5
      <4> QED BY <1>0, <3>1, <3>3, <3>5, <4>1 DEF SendStep, MissStep
    <3> QED BY <3>2, <3>4, <3>5
  <2>2. CASE VerifyRead(v)
    BY <1>0, <1>1, <1>2, <2>2 DEF VerifyRead, Uncounted, Guessing
  <2>3. CASE Decide(v)
    <3>1. v \in Guessing /\ rate' = rate /\ (Goto(v, "delete") \/ Goto(v, "idle"))
      BY <2>3 DEF Decide, Guessing
    <3>2. Sending' \subseteq Sending /\ Guessing' \subseteq Guessing \ {v}
      BY <1>0, <3>1 DEF Goto, Sending, Guessing
    <3>3. history'.sends = history.sends
      BY <2>3, DecideFields
    <3>4. \/ attempts' = 0 /\ history'.misses = 0
          \/ attempts' = attempts + 1 /\ history'.misses = history.misses + 1
      BY <2>3, DecideFields DEF Decide
    <3> QED BY <1>0, <3>1, <3>2, <3>3, <3>4 DEF SendStep, MissStep
  <2>4. CASE DeleteRow(v)
    <3>1. history'.sends = history.sends /\ history'.misses = history.misses
      BY <2>4, StoreRowFields DEF DeleteRow
    <3>2. Goto(v, "phone") /\ UNCHANGED <<rate, attempts>>
      BY <2>4 DEF DeleteRow
    <3> QED BY <1>0, <1>1, <1>2, <3>1, <3>2 DEF Uncounted
  <2>5. ASSUME NEW who, NEW next \in {"issue", "user", "link", "create", "idle"},
               Resolve(v, who, next)
        PROVE SendStep /\ MissStep
    <3>1. history'.sends = history.sends /\ history'.misses = history.misses
      BY <2>5, ResolveFields DEF Untouched
    <3>2. Goto(v, next) /\ UNCHANGED <<rate, attempts>>
      BY <2>5 DEF Resolve
    <3> QED BY <1>0, <1>1, <1>2, <3>1, <3>2 DEF Uncounted
  <2>6. CASE FindPhone(v) \/ FindUser(v) \/ CreateUser(v) \/ LinkPhone(v) \/ Issue(v)
    BY <2>5, <2>6 DEF FindPhone, FindUser, CreateUser, LinkPhone, Issue
  <2> QED BY <1>4, <2>1, <2>2, <2>3, <2>4, <2>6 DEF Verify
<1>5. ASSUME NEW a \in Admins, Administer(a) PROVE SendStep /\ MissStep
  <2>1. history'.sends = history.sends /\ history'.misses = history.misses
    BY <1>5, StoreRowFields
       DEF Administer, AdminCreate, Create, Redraw, AdminRedraw, AdminSave, Save,
           AdminDelete, SiteEdit
  <2>2. UNCHANGED <<rate, attempts>>
        /\ \E location \in {"adminRow", "adminSave", "idle"} : Goto(a, location)
    BY <1>5 DEF Administer, AdminCreate, Create, Redraw, AdminRedraw, AdminSave, Save,
                AdminDelete, SiteEdit
  <2> QED BY <1>0, <1>1, <1>2, <2>1, <2>2 DEF Uncounted
<1>6. ASSUME NEW r \in Requests, Fail(r) PROVE SendStep /\ MissStep
  <2>1. history'.sends = history.sends /\ history'.misses = history.misses
    BY <1>6, FailFields DEF Untouched
  <2>2. UNCHANGED <<rate, attempts>> /\ Goto(r, "idle")
    BY <1>6 DEF Fail
  <2> QED BY <1>0, <1>1, <1>2, <2>1, <2>2 DEF Uncounted
<1>7. CASE Site
  <2>1. history'.sends = history.sends /\ history'.misses = history.misses
    BY <1>7 DEF Site, TypeInv, Histories
  <2> QED BY <1>1, <1>7, <2>1 DEF Site, Uncounted, Sending, Guessing
<1>8. CASE CodeExpires
  BY <1>1, <1>8 DEF CodeExpires, Uncounted, Sending, Guessing
<1>9. CASE RateExpires
  <2>1. history'.sends = 0 /\ history'.misses = history.misses
    BY <1>9 DEF RateExpires, TypeInv, Histories
  <2> QED BY <1>0, <1>9, <2>1 DEF RateExpires, SendStep, MissStep, Guessing
<1>10. CASE AttemptsExpire
  <2>1. history'.misses = 0 /\ history'.sends = history.sends
    BY <1>10 DEF AttemptsExpire, TypeInv, Histories
  <2> QED BY <1>0, <1>10, <2>1 DEF AttemptsExpire, SendStep, MissStep, Sending
<1>11. CASE UNCHANGED vars
  BY <1>1, <1>11 DEF vars, Uncounted, Sending, Guessing
<1> QED BY <1>3, <1>4, <1>5, <1>6, <1>7, <1>8, <1>9, <1>10, <1>11 DEF Next

LEMMA NextLimit == TypeInv /\ LimitInv /\ [Next]_vars => LimitInv'
<1> SUFFICES ASSUME TypeInv, LimitInv, [Next]_vars PROVE LimitInv'
  OBVIOUS
<1>1. SendStep /\ MissStep
  BY LimitSteps
<1>2. rate \in Nat /\ attempts \in Nat
  BY DEF TypeInv, TypeOK
<1>3. /\ Sending \subseteq Senders /\ Sending' \subseteq Senders
      /\ Guessing \subseteq Verifiers /\ Guessing' \subseteq Verifiers
  BY DEF Sending, Guessing
<1>4. rate' + Cardinality(Sending') < RateMax + Cardinality(Senders)
  BY <1>1, <1>2, <1>3, CounterStep, FiniteAssumption, LimitsAssumption
     DEF SendStep, LimitInv
<1>5. attempts' + Cardinality(Guessing') < MaxAttempts + Cardinality(Verifiers)
  BY <1>1, <1>2, <1>3, CounterStep, FiniteAssumption, LimitsAssumption
     DEF MissStep, LimitInv
<1> QED BY <1>1, <1>4, <1>5 DEF SendStep, MissStep, LimitInv

LEMMA Limits == Spec => []LimitInv
BY InitLimit, NextLimit, Types, PTL DEF Spec

\* No more codes are sent in the life of the counter than the limit and the requests
\* in flight allow (is_rate_limited, increment_rate).
THEOREM SendsAreBounded == Spec => []SendsBounded
<1>1. TypeInv /\ LimitInv => SendsBounded
  <2> SUFFICES ASSUME TypeInv, LimitInv PROVE SendsBounded
    OBVIOUS
  <2>1. rate \in Nat /\ Sending \subseteq Senders /\ Cardinality(Sending) \in Nat
        /\ Cardinality(Senders) \in Nat
    BY Part, FiniteAssumption DEF TypeInv, TypeOK, Sending
  <2> QED BY <2>1, LimitsAssumption DEF LimitInv, SendsBounded
<1> QED BY <1>1, Limits, Types, PTL

\* Likewise for wrong guesses in the life of theirs (is_verify_rate_limited,
\* increment_verify_attempts).
THEOREM MissesAreBounded == Spec => []MissesBounded
<1>1. TypeInv /\ LimitInv => MissesBounded
  <2> SUFFICES ASSUME TypeInv, LimitInv PROVE MissesBounded
    OBVIOUS
  <2>1. attempts \in Nat /\ Guessing \subseteq Verifiers /\ Cardinality(Guessing) \in Nat
        /\ Cardinality(Verifiers) \in Nat
    BY Part, FiniteAssumption DEF TypeInv, TypeOK, Guessing
  <2> QED BY <2>1, LimitsAssumption DEF LimitInv, MissesBounded
<1> QED BY <1>1, Limits, Types, PTL
=============================================================================
