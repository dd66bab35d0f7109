-------------------------- MODULE AcademiesProofs --------------------------
(***************************************************************************)
(* What Academies guarantees for any number of requests, academies,        *)
(* memberships, users, sports and columns, and any size of the pages.      *)
(***************************************************************************)
EXTENDS Integers, Academies, FiniteSetTheorems, SequenceTheorems,
        WellFoundedInduction, TLAPS

-----------------------------------------------------------------------------
(* The invariant of the tables.                                            *)

Rows ==
    /\ tables \in [academy : [AcademyIds -> Academy \union {NoRow}],
                   membership : [MembershipIds -> Membership \union {NoRow}]]
    /\ sportsOf \in [AcademyIds -> SUBSET SportIds]
    /\ sports \subseteq SportIds /\ users \subseteq Users
    /\ given \in [academy : 0..MaxAcademies, membership : 0..MaxMemberships]

\* Nothing lives under a key that has not been given out.
KeysGiven == \A table \in {"academy", "membership"} :
    \A id \in Live(table) : id <= given[table]

-----------------------------------------------------------------------------
(* The invariant of a request: what it is, what is ahead, what is now.     *)

OnMemberships == {"apply", "approve", "reject", "listMembers"}
OnAcademies == {"none", "create", "update", "patch", "delete", "get", "list",
                "bulkDelete", "bulkPatch", "walk"}
TableOf(op) == IF op \in OnMemberships THEN "membership" ELSE "academy"

Dtos == AcademyCreateDTO \union AcademyUpdateDTO \union AcademyPatchDTO
          \union MembershipCreateDTO \union StatusDTO
DtosOf(op) ==
    IF op = "create" THEN AcademyCreateDTO
    ELSE IF op = "update" THEN AcademyUpdateDTO
    ELSE IF op \in {"apply", "listMembers"} THEN MembershipCreateDTO
    ELSE IF op \in {"approve", "reject"} THEN StatusDTO
    ELSE AcademyPatchDTO

AnswerBodies ==
    {NoBody} \union AcademyResponseSchema \union MembershipResponseSchema
      \union OffsetPaginatedResponse \union [id : {0}, times : [AcademyIds -> 0..1]]

StepNames == {"getOrRaise", "validateSportIds", "insert", "load", "save", "updateAll",
              "loadForSports", "setSports", "reload", "delete", "deleteAll", "page",
              "count", "cursorPage"}
StepsAhead == [do : StepNames, table : {"academy", "membership"}, id : Nat]

Request ==
    [op : OnMemberships \union OnAcademies, dto : Dtos, todo : Seq(StepsAhead),
     obj : Academy \union Membership \union {NoRow},
     rows : SUBSET (AcademyIds \union MembershipIds), cursor : Nat, count : Nat,
     answer : [status : Nat, body : AnswerBodies],
     wrote : BOOLEAN, disturbed : BOOLEAN,
     throughout : SUBSET AcademyIds, times : [AcademyIds -> Nat]]

Writes == {"insert", "save", "updateAll", "setSports", "delete", "deleteAll"}

\* The steps that may find that what the client named does not exist, before
\* anything is written.
Checks(step) == \/ step.do = "validateSportIds"
                \/ step.do = "getOrRaise" /\ step.table = "membership"

\* The operations that set the sports of an academy.
SetsSports(op, dto) == op \in {"create", "update", "patch"} /\ dto.sports # Unset

\* What holds of the steps ahead of an operation, however many are done.
AheadAt(op, dto, todo, i) ==
    /\ todo[i].table = TableOf(op)
    /\ todo[i].do = "insert" => op \in {"create", "apply"}
    /\ todo[i].do = "updateAll" => todo[i].table = "academy"
    /\ todo[i].do = "cursorPage" <=> op = "walk"
    /\ todo[i].do = "cursorPage" => i = Len(todo)
    /\ todo[i].do = "load" => i < Len(todo) /\ todo[i + 1].do = "save"
    /\ i > 1 =>
        /\ todo[i].do = "save" => todo[i - 1].do = "load"
        /\ todo[i].do = "count" => todo[i - 1].do = "page"
        /\ SetsSports(op, dto) /\ todo[i].do = "reload" =>
              todo[i - 1].do = "setSports" /\ todo[i - 1].id = todo[i].id
    /\ SetsSports(op, dto) =>
        /\ todo[i].do = "reload" <=> i = Len(todo)
        /\ todo[i].do = "setSports" => i < Len(todo)
    /\ Checks(todo[i]) => \A j \in 1..i : todo[j].do \notin Writes

Ahead(op, dto, todo) ==
    dto \in DtosOf(op) /\ \A i \in 1..Len(todo) : AheadAt(op, dto, todo, i)

\* What holds of a request between two steps.
Now(s) == s.todo # <<>> =>
    /\ Head(s.todo).do = "save" =>
          s.obj \in (IF s.op \in OnMemberships THEN Membership ELSE Academy)
    /\ Head(s.todo).do = "count" =>
          IsFiniteSet(s.rows) /\ Cardinality(s.rows) <= Limit
    /\ s.wrote => \A i \in 1..Len(s.todo) : ~Checks(s.todo[i])

RequestOK(s) == s \in Request /\ Ahead(s.op, s.dto, s.todo) /\ Now(s)

RequestsInv == req \in [Requests -> Request] /\ \A r \in Requests : RequestOK(req[r])

\* A request that has set the sports of its academy, and nobody since.
SportsKept(s) ==
    /\ s.todo # <<>> /\ SetsSports(s.op, s.dto)
    /\ Head(s.todo).do = "reload" /\ Head(s.todo).id \in AcademyIds
    => s.disturbed \/ sportsOf[Head(s.todo).id] = s.dto.sports

\* A walk has shown each row up to its cursor that exists all along once, and none
\* behind it.
Walked(s) == s.op = "walk" =>
    /\ s.throughout \subseteq Live("academy")
    /\ \A a \in AcademyIds :
        /\ s.times[a] <= 1
        /\ a > s.cursor => s.times[a] = 0
        /\ a \in s.throughout /\ a <= s.cursor => s.times[a] = 1

SportsInv == \A r \in Requests : SportsKept(req[r])
WalkInv == \A r \in Requests : Walked(req[r])

-----------------------------------------------------------------------------
(* Transfer objects and requests.                                          *)

\* What the mappers make of a body that the schema let pass.
LEMMA MappedDtos ==
    ASSUME NEW body \in Bodies
    PROVE  /\ body \in AcademyCreateSchema =>
                  \A caller \in Users : SchemaToDto(body, caller) \in AcademyCreateDTO
           /\ body \in AcademyUpdateSchema => UpdateSchemaToDto(body) \in AcademyUpdateDTO
           /\ body \in AcademyPatchSchema =>
                  /\ PatchSchemaToDto(body) \in AcademyPatchDTO
                  /\ body \in AcademyPatchDTO
<1>1. PICK S \in SUBSET Fields : body.data \in [S -> Values \union {Invalid}]
  BY BodiesAssumption
<1>2. /\ body.sports \in (SUBSET SportIds) \union {Unset}
      /\ body = [data |-> body.data, sports |-> body.sports]
  BY BodiesAssumption
<1>3. Validated(body) => body.data \in [S -> Values]
  BY <1>1 DEF Validated
<1>4. ASSUME body \in AcademyCreateSchema, NEW caller \in Users
      PROVE  SchemaToDto(body, caller) \in AcademyCreateDTO
  <2>1. Validated(body)
    BY <1>4 DEF AcademyCreateSchema
  <2>2. [f \in Fields |-> IF f \in DOMAIN body.data THEN body.data[f] ELSE Blank]
            \in [Fields -> Values]
    BY <1>1, <1>3, <2>1, ValuesAssumption
  <2>3. (IF body.sports = Unset THEN {} ELSE body.sports) \in SUBSET SportIds
    BY <1>2
  <2> QED BY <2>2, <2>3 DEF SchemaToDto, AcademyCreateDTO
<1>5. ASSUME body \in AcademyUpdateSchema
      PROVE  UpdateSchemaToDto(body) \in AcademyUpdateDTO
  <2>1. /\ Validated(body) /\ DOMAIN body.data = Fields /\ body.sports # Unset
    BY <1>5 DEF AcademyUpdateSchema
  <2>2. body.data \in [Fields -> Values] /\ body.sports \in SUBSET SportIds
    BY <1>1, <1>2, <1>3, <2>1
  <2> QED BY <2>2 DEF UpdateSchemaToDto, AcademyUpdateDTO
<1>6. ASSUME body \in AcademyPatchSchema
      PROVE  /\ PatchSchemaToDto(body) \in AcademyPatchDTO
             /\ body \in AcademyPatchDTO
  <2>1. body.data \in [S -> Values]
    BY <1>3, <1>6 DEF AcademyPatchSchema
  <2>2. body.data \in Partial(Values)
    BY <2>1 DEF Partial
  <2> QED BY <1>2, <2>2 DEF PatchSchemaToDto, AcademyPatchDTO
<1> QED BY <1>4, <1>5, <1>6

\* The other transfer objects are well formed.
LEMMA OtherDtos ==
    /\ NoDto \in AcademyPatchDTO
    /\ \A caller \in Users \union {Unset}, academy \in AcademyIds :
           MembershipSchemaToDto(caller, academy) \in MembershipCreateDTO
    /\ \A status \in {"approved", "rejected"} : Deciding(status) \in StatusDTO
<1>1. <<>> \in [{} -> Values]
  OBVIOUS
<1>2. NoDto \in AcademyPatchDTO
  BY <1>1 DEF NoDto, AcademyPatchDTO, Partial
<1>3. ASSUME NEW caller \in Users \union {Unset}, NEW academy \in AcademyIds
      PROVE  MembershipSchemaToDto(caller, academy) \in MembershipCreateDTO
  BY DEF MembershipSchemaToDto, MembershipCreateDTO, Statuses
<1>4. ASSUME NEW status \in {"approved", "rejected"}
      PROVE  Deciding(status) \in StatusDTO
  <2>1. Deciding(status) = [data |-> [status |-> status], sports |-> Unset]
    BY DEF Deciding, NoDto
  <2> QED BY <2>1 DEF StatusDTO, Statuses
<1> QED BY <1>2, <1>3, <1>4

\* What the transfer object of an operation is good for.
LEMMA DtoUses ==
    ASSUME NEW op, NEW dto \in DtosOf(op)
    PROVE  /\ dto \in Dtos
           /\ op \in OnMemberships => dto.data \in [status : Statuses]
           /\ op \notin OnMemberships => dto.data \in Partial(Values)
           /\ op = "create" => dto.data \in [Fields -> Values]
<1> USE DEF DtosOf, Dtos, OnMemberships
<1>1. CASE op = "create"
  <2>1. dto.data \in [Fields -> Values]
    BY <1>1 DEF AcademyCreateDTO
  <2> QED BY <1>1, <2>1 DEF Partial
<1>2. CASE op = "update"
  <2>1. dto.data \in [Fields -> Values]
    BY <1>2 DEF AcademyUpdateDTO
  <2> QED BY <1>2, <2>1 DEF Partial
<1>3. CASE op \in OnMemberships
  BY <1>3 DEF MembershipCreateDTO, StatusDTO
<1>4. CASE op \notin {"create", "update"} \union OnMemberships
  BY <1>4 DEF AcademyPatchDTO
<1> QED BY <1>1, <1>2, <1>3, <1>4

\* A request that does nothing, and one that has been answered.
LEMMA IdleRequest ==
    /\ RequestOK(Idle) /\ Idle \in Request
    /\ Idle.todo = <<>> /\ Idle.op = "none" /\ Idle.cursor = 0 /\ Idle.wrote = FALSE
    /\ Idle.times = NotShown /\ Idle.throughout = {}
<1>1. /\ Idle.todo = <<>> /\ Idle.op = "none" /\ Idle.cursor = 0 /\ Idle.wrote = FALSE
      /\ Idle.times = NotShown /\ Idle.throughout = {} /\ Idle.dto = NoDto
  BY DEF Idle
<1>2. NoAnswer \in [status : Nat, body : AnswerBodies]
  BY DEF NoAnswer, AnswerBodies
<1>3. NotShown \in [AcademyIds -> Nat]
  BY DEF NotShown
<1>4. NoDto \in Dtos /\ "none" \in OnAcademies
  BY OtherDtos DEF Dtos, OnAcademies
<1>5. Idle \in Request
  BY <1>2, <1>3, <1>4 DEF Idle, Request
<1>6. Ahead("none", NoDto, <<>>)
  BY OtherDtos DEF Ahead, DtosOf
<1> QED BY <1>1, <1>5, <1>6 DEF RequestOK, Now

\* A request that has been answered is as idle as one that never began.
LEMMA AnsweredRequest ==
    ASSUME NEW status \in Nat, NEW body \in AnswerBodies
    PROVE  /\ RequestOK(Answered(status, body))
           /\ Answered(status, body).todo = <<>>
           /\ Answered(status, body).op = "none"
           /\ Answered(status, body).answer = [status |-> status, body |-> body]
<1> DEFINE answer == [status |-> status, body |-> body]
           s == Answered(status, body)
<1>1. answer \in [status : Nat, body : AnswerBodies]
  OBVIOUS
<1> HIDE DEF answer
<1>2. s = [Idle EXCEPT !.answer = answer]
  BY DEF Answered, answer
<1>3. RequestOK(Idle) /\ Idle \in Request /\ Idle.todo = <<>> /\ Idle.op = "none"
  BY IdleRequest
<1>4. s \in Request
  BY <1>1, <1>2, <1>3 DEF Request
<1>5. /\ s.op = Idle.op /\ s.dto = Idle.dto /\ s.todo = Idle.todo
      /\ s.answer = answer
  BY <1>2, <1>3 DEF Request
<1>6. RequestOK(s)
  <2> HIDE DEF s
  <2> QED BY <1>3, <1>4, <1>5 DEF RequestOK, Now
<1> QED BY <1>3, <1>5, <1>6 DEF answer

-----------------------------------------------------------------------------
(* One request, step by step.                                              *)

\* Nothing of RequestOK is about the fields that others change.
LEMMA SameRequest ==
    ASSUME NEW s, RequestOK(s), NEW t \in Request,
           t.op = s.op, t.dto = s.dto, t.todo = s.todo, t.obj = s.obj, t.rows = s.rows,
           t.wrote = s.wrote
    PROVE  RequestOK(t)
BY DEF RequestOK, Now

\* Dropping the answers changes nothing else.
LEMMA SilentRequests ==
    ASSUME RequestsInv, NEW q \in Requests
    PROVE  /\ RequestOK(Silent(req)[q])
           /\ \A f \in DOMAIN Silent(req)[q] \ {"answer"} : Silent(req)[q][f] = req[q][f]
           /\ DOMAIN Silent(req)[q] = DOMAIN req[q]
<1> DEFINE s == req[q]
           t == Silent(req)[q]
<1>1. RequestOK(s) /\ s \in Request
  BY DEF RequestsInv, RequestOK
<1>2. t = [s EXCEPT !.answer = NoAnswer]
  BY DEF Silent
<1>3. NoAnswer \in [status : Nat, body : AnswerBodies]
  BY DEF NoAnswer, AnswerBodies
<1> HIDE DEF s, t
<1>4. /\ t \in Request
      /\ t.op = s.op /\ t.dto = s.dto /\ t.todo = s.todo /\ t.obj = s.obj
      /\ t.rows = s.rows /\ t.wrote = s.wrote
  BY <1>1, <1>2, <1>3 DEF Request
<1>5. RequestOK(t)
  BY <1>1, <1>4, SameRequest
<1>6. DOMAIN t = DOMAIN s /\ \A f \in DOMAIN t \ {"answer"} : t[f] = s[f]
  BY <1>1, <1>2 DEF Request
<1> QED BY <1>5, <1>6 DEF s, t

\* What becomes of the other requests when request r goes on, or when rows are lost.
Other(s, t) ==
    /\ t \in Request
    /\ t.op = s.op /\ t.dto = s.dto /\ t.todo = s.todo /\ t.obj = s.obj
    /\ t.rows = s.rows /\ t.cursor = s.cursor /\ t.wrote = s.wrote
    /\ t.times = s.times

\* The requests, when one of them becomes something well formed.
LEMMA Becoming ==
    ASSUME RequestsInv, NEW r \in Requests, NEW s, RequestOK(s), Become(r, s)
    PROVE  /\ RequestsInv' /\ req'[r] = s
           /\ \A q \in Requests \ {r} :
                 /\ Other(req[q], req'[q])
                 /\ req'[q].throughout = req[q].throughout
                 /\ req'[q].disturbed = req[q].disturbed
<1>1. /\ req' = [q \in Requests |-> IF q = r THEN s ELSE Silent(req)[q]]
  BY DEF Become, Silent
<1>2. \A q \in Requests : RequestOK(req'[q])
  BY <1>1, SilentRequests
<1>3. RequestsInv'
  BY <1>1, <1>2 DEF RequestsInv, RequestOK
<1>4. ASSUME NEW q \in Requests \ {r}
      PROVE  /\ Other(req[q], req'[q])
             /\ req'[q].throughout = req[q].throughout
             /\ req'[q].disturbed = req[q].disturbed
  <2>1. req'[q] = [req[q] EXCEPT !.answer = NoAnswer]
    BY <1>1 DEF Silent
  <2>2. req[q] \in Request
    BY DEF RequestsInv
  <2>3. req'[q] \in Request
    BY <1>2 DEF RequestOK
  <2> QED BY <2>1, <2>2, <2>3 DEF Other, Request
<1> QED BY <1>1, <1>3, <1>4

\* A request while rows are lost and sports change.
LEMMA Outdating ==
    ASSUME RequestsInv, NEW lost, NEW q \in Requests
    PROVE  LET t == Outdate(req, lost)[q] IN
           /\ RequestOK(t) /\ Other(req[q], t)
           /\ t.throughout = req[q].throughout \ lost
           /\ t.disturbed = (req[q].dto.sports # Unset)
<1> DEFINE s == req[q]
           u == Silent(req)[q]
           t == Outdate(req, lost)[q]
           late == s.dto.sports # Unset
           left == u.throughout \ lost
<1>1. RequestOK(s) /\ s \in Request
  BY DEF RequestsInv, RequestOK
<1>2. u = [s EXCEPT !.answer = NoAnswer]
  BY DEF Silent
<1>3. RequestOK(u) /\ u \in Request
  BY SilentRequests DEF RequestOK
<1>4. t = [u EXCEPT !.throughout = left, !.disturbed = late]
  BY DEF Outdate
<1>5. /\ u.op = s.op /\ u.dto = s.dto /\ u.todo = s.todo /\ u.obj = s.obj
      /\ u.rows = s.rows /\ u.wrote = s.wrote /\ u.cursor = s.cursor
      /\ u.throughout = s.throughout /\ u.times = s.times
  BY <1>1, <1>2 DEF Request
<1>6. left \in SUBSET AcademyIds
  BY <1>3 DEF Request
<1>7. late \in BOOLEAN
  OBVIOUS
<1> HIDE DEF s, u, t, late, left
<1>8. t \in Request
  BY <1>3, <1>4, <1>6, <1>7 DEF Request
<1>9. /\ t.op = u.op /\ t.dto = u.dto /\ t.todo = u.todo /\ t.obj = u.obj
      /\ t.rows = u.rows /\ t.wrote = u.wrote /\ t.cursor = u.cursor
      /\ t.times = u.times /\ t.throughout = left /\ t.disturbed = late
  BY <1>3, <1>4 DEF Request
<1>10. RequestOK(t)
  BY <1>3, <1>8, <1>9, SameRequest
<1>11. Other(s, t)
  BY <1>5, <1>8, <1>9 DEF Other
<1> QED BY <1>5, <1>9, <1>10, <1>11 DEF s, t, late, left

\* Rows are lost while request r goes on.
LEMMA OutdatingBy ==
    ASSUME RequestsInv, NEW lost, NEW r \in Requests, NEW s,
           RequestOK(s), req' = [Outdate(req, lost) EXCEPT ![r] = s]
    PROVE  /\ RequestsInv' /\ req'[r] = s
           /\ \A q \in Requests \ {r} :
                 /\ Other(req[q], req'[q])
                 /\ req'[q].throughout = req[q].throughout \ lost
                 /\ req'[q].disturbed = (req[q].dto.sports # Unset)
<1>1. req' = [q \in Requests |-> IF q = r THEN s ELSE Outdate(req, lost)[q]]
  BY DEF Outdate
<1>2. \A q \in Requests : RequestOK(req'[q])
  BY <1>1, Outdating
<1>3. RequestsInv'
  BY <1>1, <1>2 DEF RequestsInv, RequestOK
<1> QED BY <1>1, <1>3, Outdating

\* The rest of what is ahead is ahead when the first step is done.
LEMMA AheadRest ==
    ASSUME NEW op, NEW dto, NEW todo \in Seq(StepsAhead), todo # <<>>,
           Ahead(op, dto, todo)
    PROVE  /\ Tail(todo) \in Seq(StepsAhead) /\ Ahead(op, dto, Tail(todo))
           /\ Len(Tail(todo)) = Len(todo) - 1
           /\ \A i \in 1..Len(Tail(todo)) : Tail(todo)[i] = todo[i + 1]
           /\ Head(todo) = todo[1] /\ Head(todo) \in StepsAhead
           /\ Tail(todo) # <<>> => Head(Tail(todo)) = todo[2] /\ Len(todo) > 1
           /\ Tail(todo) = <<>> => Len(todo) = 1
<1> DEFINE rest == Tail(todo)
           n == Len(todo)
<1>1. /\ rest \in Seq(StepsAhead) /\ Len(rest) = n - 1 /\ n \in Nat /\ n > 0
      /\ \A i \in 1..Len(rest) : rest[i] = todo[i + 1]
      /\ Head(todo) = todo[1] /\ Head(todo) \in StepsAhead
  BY HeadTailProperties, LenProperties
<1>2. /\ rest # <<>> => Len(rest) > 0 /\ Head(rest) = rest[1]
      /\ rest = <<>> => Len(rest) = 0
  <2> HIDE DEF rest
  <2>1. rest # <<>> => Len(rest) \in Nat \ {0}
    BY <1>1, EmptySeq
  <2> QED BY <1>1, <2>1
<1>3. ASSUME NEW i \in 1..Len(rest)
      PROVE  /\ i + 1 \in 1..n /\ i + 1 > 1 /\ rest[i] = todo[i + 1]
             /\ i < Len(rest) <=> i + 1 < n
             /\ i = Len(rest) <=> i + 1 = n
             /\ i < Len(rest) => rest[i + 1] = todo[(i + 1) + 1]
             /\ i > 1 => rest[i - 1] = todo[(i + 1) - 1]
  BY <1>1
<1>4. ASSUME NEW i \in 1..Len(rest), NEW j \in 1..i
      PROVE  j + 1 \in 1..(i + 1) /\ rest[j] = todo[j + 1]
  BY <1>1
<1> HIDE DEF rest, n
<1>5. ASSUME NEW i \in 1..Len(rest) PROVE AheadAt(op, dto, rest, i)
  <2>1. AheadAt(op, dto, todo, i + 1)
    BY <1>3 DEF Ahead, n
  <2>2. Checks(todo[i + 1]) => \A j \in 1..i : rest[j].do \notin Writes
    BY <1>4, <2>1 DEF AheadAt
  <2> QED BY <1>3, <2>1, <2>2 DEF AheadAt, n
<1>6. Ahead(op, dto, rest)
  BY <1>5 DEF Ahead
<1> QED BY <1>1, <1>2, <1>6 DEF rest, n

\* A request that has done its first step, and has more to do.
LEMMA StepDone ==
    ASSUME NEW s, RequestOK(s), s.todo # <<>>, NEW t \in Request,
           t.op = s.op, t.dto = s.dto, t.todo = Tail(s.todo),
           Head(s.todo).do = "load" =>
               t.obj \in (IF s.op \in OnMemberships THEN Membership ELSE Academy),
           Head(s.todo).do = "page" =>
               IsFiniteSet(t.rows) /\ Cardinality(t.rows) <= Limit,
           t.wrote => s.wrote \/ Head(s.todo).do \in Writes
    PROVE  RequestOK(t)
<1> DEFINE rest == Tail(s.todo)
<1>1. s.todo \in Seq(StepsAhead) /\ Ahead(s.op, s.dto, s.todo) /\ Now(s)
  BY DEF RequestOK, Request
<1>2. /\ Ahead(t.op, t.dto, t.todo) /\ Len(rest) = Len(s.todo) - 1
      /\ \A i \in 1..Len(rest) : rest[i] = s.todo[i + 1]
      /\ Head(s.todo) = s.todo[1] /\ Len(s.todo) \in Nat
      /\ rest # <<>> => Head(rest) = s.todo[2] /\ Len(s.todo) > 1
  BY <1>1, AheadRest, LenProperties
<1>3. ASSUME rest # <<>>
      PROVE  /\ Head(rest).do = "save" => Head(s.todo).do = "load"
             /\ Head(rest).do = "count" => Head(s.todo).do = "page"
  BY <1>1, <1>2, <1>3 DEF Ahead, AheadAt
<1>4. ASSUME Head(s.todo).do \in Writes, NEW i \in 1..Len(rest)
      PROVE  ~Checks(rest[i])
  <2>1. i + 1 \in 1..Len(s.todo) /\ 1 \in 1..(i + 1) /\ rest[i] = s.todo[i + 1]
    BY <1>2
  <2> QED BY <1>1, <1>2, <1>4, <2>1 DEF Ahead, AheadAt
<1>5. ASSUME s.wrote, NEW i \in 1..Len(rest)
      PROVE  ~Checks(rest[i])
  <2>1. i + 1 \in 1..Len(s.todo) /\ rest[i] = s.todo[i + 1]
    BY <1>2
  <2> QED BY <1>1, <1>5, <2>1 DEF Now
<1> HIDE DEF rest
<1>6. Now(t)
  BY <1>3, <1>4, <1>5 DEF Now, rest
<1> QED BY <1>2, <1>6 DEF RequestOK

-----------------------------------------------------------------------------
(* What is answered, and what a query makes of a request.                  *)

\* What a step of a use case may raise.
Raises == {AppError("ResourceNotFoundError"), OtherError("ForeignKeyViolation"),
           OtherError("UniqueViolation"), OtherError("NotUpdated"),
           OtherError("DoesNotExist")}

\* What the client is told of each exception.
LEMMA RaisedStatus ==
    /\ StatusOf(AppError("ResourceNotFoundError")) = 404
    /\ StatusOf(AppError("DuplicateResourceError")) = 409
    /\ StatusOf(OtherError("RequestValidationError")) = 422
    /\ StatusOf(OtherError("ForeignKeyViolation")) = 400
    /\ StatusOf(OtherError("UniqueViolation")) = 409
    /\ StatusOf(OtherError("NotUpdated")) = 500
    /\ StatusOf(OtherError("DoesNotExist")) = 500
<1>1. StatusOf(AppError("ResourceNotFoundError")) = 404
  BY DEF StatusOf, HandleCarried, IsInstance, AppError, DefaultStatus
<1>2. StatusOf(AppError("DuplicateResourceError")) = 409
  BY DEF StatusOf, HandleCarried, IsInstance, AppError, DefaultStatus
<1>3. StatusOf(OtherError("RequestValidationError")) = 422
  BY DEF StatusOf, HandleInvalid, IsInstance, OtherError, DefaultStatus, Bases
<1>4. StatusOf(OtherError("ForeignKeyViolation")) = 400
  BY DEF StatusOf, IsInstance, OtherError, DefaultStatus, Bases, HandleIntegrityError
<1>5. StatusOf(OtherError("UniqueViolation")) = 409
  BY DEF StatusOf, IsInstance, OtherError, DefaultStatus, Bases, HandleIntegrityError
<1>6. StatusOf(OtherError("NotUpdated")) = 500
  BY DEF StatusOf, IsInstance, OtherError, DefaultStatus, Bases
<1>7. StatusOf(OtherError("DoesNotExist")) = 500
  BY DEF StatusOf, IsInstance, OtherError, DefaultStatus, Bases, HandleGenericException
<1> QED BY <1>1, <1>2, <1>3, <1>4, <1>5, <1>6, <1>7

\* The request has been answered.
Over(t) == t.todo = <<>> /\ t.op = "none"

\* It has been answered an error: 404 only for what the client named.
Refused(s, t, exception) ==
    /\ Over(t) /\ ~Success(t.answer.status)
    /\ t.answer.status = 404 => /\ s.op # "apply"
                                /\ exception = AppError("ResourceNotFoundError")

\* A request whose step raises is over, and refused.
LEMMA RaisedRequest ==
    ASSUME NEW s, NEW exception \in Raises
    PROVE  RequestOK(Raised(s, exception)) /\ Refused(s, Raised(s, exception), exception)
<1> DEFINE raised == IF s.op = "apply" THEN AppError("DuplicateResourceError")
                     ELSE exception
           status == StatusOf(raised)
<1>1. /\ status \in Nat /\ ~Success(status)
      /\ status = 404 => s.op # "apply" /\ exception = AppError("ResourceNotFoundError")
  BY RaisedStatus DEF Raises, Success
<1>2. NoBody \in AnswerBodies
  BY DEF AnswerBodies
<1>3. Raised(s, exception) = Answered(status, NoBody)
  BY DEF Raised
<1> HIDE DEF raised, status
<1>4. /\ RequestOK(Answered(status, NoBody)) /\ Over(Answered(status, NoBody))
      /\ Answered(status, NoBody).answer = [status |-> status, body |-> NoBody]
  BY <1>1, <1>2, AnsweredRequest DEF Over
<1>5. Answered(status, NoBody).answer.status = status
  BY <1>4
<1> QED BY <1>1, <1>3, <1>4, <1>5 DEF Refused

\* What r's becoming s leaves to the others.
OthersKept(r) == \A q \in Requests \ {r} :
    /\ Other(req[q], req'[q])
    /\ req'[q].throughout = req[q].throughout
    /\ req'[q].disturbed = req[q].disturbed

\* The requests, when the step of one of them raises.
LEMMA Failing ==
    ASSUME RequestsInv, NEW r \in Requests, NEW exception \in Raises, Fail(r, exception)
    PROVE  /\ RequestsInv' /\ OthersKept(r) /\ UNCHANGED dbVars
           /\ Refused(req[r], req'[r], exception)
BY RaisedRequest, Becoming DEF Fail, OthersKept

\* What a step that succeeds makes of a request, when it leaves it as `state`.
GoneOn(s, state, t, body) ==
    IF Tail(s.todo) = <<>>
    THEN Over(t) /\ t.answer = [status |-> SuccessStatus(s.op), body |-> body]
    ELSE /\ t = [state EXCEPT !.todo = Tail(s.todo)]
         /\ t.todo = Tail(s.todo) /\ t.op = s.op /\ t.dto = s.dto

\* A request whose step succeeds, other than one that reads rows into it.
LEMMA Proceeding ==
    ASSUME NEW s, RequestOK(s), s.todo # <<>>, NEW body \in AnswerBodies,
           NEW state \in Request,
           state.op = s.op, state.dto = s.dto, state.todo = s.todo,
           Head(s.todo).do \notin {"load", "page"},
           state.wrote => s.wrote \/ Head(s.todo).do \in Writes
    PROVE  /\ RequestOK(Proceed(state, body))
           /\ GoneOn(s, state, Proceed(state, body), body)
<1> DEFINE rest == Tail(s.todo)
<1>1. CASE rest = <<>>
  <2>1. Proceed(state, body) = Answered(SuccessStatus(s.op), body)
    BY <1>1 DEF Proceed
  <2>2. SuccessStatus(s.op) \in Nat
    BY DEF SuccessStatus
  <2> QED BY <1>1, <2>1, <2>2, AnsweredRequest DEF GoneOn, Over
<1>2. CASE rest # <<>>
  <2> DEFINE t == [state EXCEPT !.todo = rest]
  <2>1. Proceed(state, body) = t
    BY <1>2 DEF Proceed
  <2>2. rest \in Seq(StepsAhead)
    BY AheadRest DEF RequestOK, Request
  <2> HIDE DEF rest
  <2>3. t \in Request
    BY <2>2 DEF Request
  <2>4. t.op = s.op /\ t.dto = s.dto /\ t.todo = rest /\ t.wrote = state.wrote
    BY DEF Request
  <2> HIDE DEF t
  <2>5. RequestOK(t)
    BY <2>3, <2>4, StepDone DEF rest
  <2> QED BY <1>2, <2>1, <2>4, <2>5 DEF GoneOn, rest, t
<1> QED BY <1>1, <1>2

\* The first step of a request that goes on.
LEMMA FirstStep ==
    ASSUME RequestsInv, NEW r \in Requests, ~Ended(r)
    PROVE  /\ req[r] \in Request /\ RequestOK(req[r]) /\ req[r].todo # <<>>
           /\ req[r].todo \in Seq(StepsAhead) /\ Ahead(req[r].op, req[r].dto, req[r].todo)
           /\ Head(req[r].todo) \in StepsAhead /\ Head(req[r].todo) = req[r].todo[1]
           /\ Len(req[r].todo) \in Nat /\ Len(req[r].todo) >= 1
           /\ AheadAt(req[r].op, req[r].dto, req[r].todo, 1)
           /\ Table(r) = TableOf(req[r].op) /\ Target(r) \in Nat
           /\ req[r].dto \in DtosOf(req[r].op)
<1>1. /\ req[r] \in Request /\ RequestOK(req[r]) /\ req[r].todo # <<>>
      /\ req[r].todo \in Seq(StepsAhead) /\ Ahead(req[r].op, req[r].dto, req[r].todo)
  BY DEF RequestsInv, RequestOK, Request, Ended
<1>2. Len(req[r].todo) \in Nat /\ Len(req[r].todo) >= 1
  BY <1>1, EmptySeq
<1>3. Head(req[r].todo) \in StepsAhead /\ Head(req[r].todo) = req[r].todo[1]
  BY <1>1, HeadTailProperties
<1>4. AheadAt(req[r].op, req[r].dto, req[r].todo, 1) /\ req[r].dto \in DtosOf(req[r].op)
  BY <1>1, <1>2 DEF Ahead
<1> QED BY <1>1, <1>2, <1>3, <1>4 DEF AheadAt, Table, Target, StepsAhead

-----------------------------------------------------------------------------
(* The queries, as far as the requests are concerned.                      *)

\* What is shown of an academy that is there.
LEMMA ShownBody ==
    ASSUME Rows, NEW id \in Live("academy")
    PROVE  /\ Shown(id) \in AnswerBodies /\ Shown(id).sports = sportsOf[id]
           /\ id \in AcademyIds /\ tables.academy[id] \in Academy
<1>1. id \in AcademyIds /\ tables.academy[id] \in Academy
  BY DEF Rows, Live
<1>2. Shown(id) = [id |-> id, data |-> tables.academy[id].data,
                   owner |-> tables.academy[id].owner, sports |-> sportsOf[id],
                   stamp |-> tables.academy[id].stamp]
  BY DEF Shown, EntityToDto, OrmToEntity
<1>3. Shown(id) \in AcademyEntity
  BY <1>1, <1>2 DEF AcademyEntity, Academy, Rows
<1> QED BY <1>1, <1>2, <1>3
        DEF AnswerBodies, AcademyResponseSchema, AcademyResponseDTO

\* What is shown of a membership.
LEMMA MembershipShownBody ==
    ASSUME NEW id \in MembershipIds, NEW instance \in Membership
    PROVE  MembershipShown(id, instance) \in AnswerBodies
<1>1. MembershipShown(id, instance) =
          [id |-> id, user |-> instance.user, academy |-> instance.academy,
           status |-> instance.data.status, stamp |-> instance.stamp]
  BY DEF MembershipShown, MembershipEntityToDto, MembershipOrmToEntity
<1>2. MembershipShown(id, instance) \in MembershipEntity
  BY <1>1 DEF MembershipEntity, Membership
<1> QED BY <1>2 DEF AnswerBodies, MembershipResponseSchema, MembershipResponseDTO

\* The bodies that are neither an academy nor a membership.
LEMMA OtherBodies ==
    /\ NoBody \in AnswerBodies
    /\ \A n \in 0..Limit, more \in BOOLEAN :
           [id |-> 0, returned |-> n, hasMore |-> more] \in AnswerBodies
    /\ \A times \in [AcademyIds -> 0..1] : [id |-> 0, times |-> times] \in AnswerBodies
BY DEF AnswerBodies, OffsetPaginatedResponse

\* A row that is loaded, and a row that is saved.
LEMMA RowOf ==
    ASSUME Rows, NEW table \in {"academy", "membership"}, NEW id \in Live(table)
    PROVE  /\ table = "academy" => id \in AcademyIds /\ tables[table][id] \in Academy
           /\ table = "membership" =>
                 id \in MembershipIds /\ tables[table][id] \in Membership
BY DEF Rows, Live

\* Assigning to some columns leaves a row well formed.
LEMMA Assigned ==
    ASSUME NEW data, NEW changes
    PROVE  /\ data \in [Fields -> Values] /\ changes \in Partial(Values)
                  => Assign(data, changes) \in [Fields -> Values]
           /\ data \in [status : Statuses] /\ changes \in [status : Statuses]
                  => Assign(data, changes) \in [status : Statuses]
<1>1. ASSUME data \in [Fields -> Values], changes \in Partial(Values)
      PROVE  Assign(data, changes) \in [Fields -> Values]
  <2>1. PICK S \in SUBSET Fields : changes \in [S -> Values]
    BY <1>1 DEF Partial
  <2> QED BY <1>1, <2>1 DEF Assign
<1>2. ASSUME data \in [status : Statuses], changes \in [status : Statuses]
      PROVE  Assign(data, changes) \in [status : Statuses]
  <2>1. DOMAIN data = {"status"} /\ DOMAIN changes = {"status"}
    BY <1>2
  <2>2. Assign(data, changes) = [f \in {"status"} |-> changes[f]]
    BY <2>1 DEF Assign
  <2>3. [f \in {"status"} |-> changes[f]] = [status |-> changes.status]
    OBVIOUS
  <2> QED BY <1>2, <2>2, <2>3
<1> QED BY <1>1, <1>2

\* What a step makes of the request that does it: it is refused, or done, or goes on.
NotNamed(r, exception) ==
    exception = AppError("ResourceNotFoundError") =>
        \/ At(r, "getOrRaise") /\ Target(r) \notin Live(Table(r))
        \/ At(r, "validateSportIds")
Done(s, t) ==
    /\ Over(t) /\ Success(t.answer.status)
    /\ SetsSports(s.op, s.dto) => Len(s.todo) = 1
Continues(s, t) ==
    /\ t.todo # <<>> /\ t.op = s.op /\ t.dto = s.dto
    /\ SetsSports(s.op, s.dto) /\ Head(t.todo).do = "reload" =>
           Head(s.todo).do = "setSports"

Outcome(r) ==
    \/ \E exception \in Raises : /\ Refused(req[r], req'[r], exception)
                                 /\ NotNamed(r, exception)
    \/ Done(req[r], req'[r])
    \/ Continues(req[r], req'[r])

\* A step that succeeds answers the request or leaves it more to do.
LEMMA GoneOnOutcome ==
    ASSUME NEW s, RequestOK(s), s.todo # <<>>, NEW state, NEW t, NEW body,
           GoneOn(s, state, t, body)
    PROVE  Done(s, t) \/ Continues(s, t)
<1>1. s.todo \in Seq(StepsAhead) /\ Ahead(s.op, s.dto, s.todo)
  BY DEF RequestOK, Request
<1>2. CASE Tail(s.todo) = <<>>
  <2>1. Over(t) /\ t.answer = [status |-> SuccessStatus(s.op), body |-> body]
    BY <1>2 DEF GoneOn
  <2>2. Success(t.answer.status)
    BY <2>1 DEF SuccessStatus, Success
  <2> QED BY <1>1, <1>2, <2>1, <2>2, AheadRest DEF Done
<1>3. CASE Tail(s.todo) # <<>>
  <2>1. t.todo = Tail(s.todo) /\ t.op = s.op /\ t.dto = s.dto
    BY <1>3 DEF GoneOn
  <2>2. /\ Head(Tail(s.todo)) = s.todo[2] /\ Len(s.todo) > 1 /\ Len(s.todo) \in Nat
        /\ Head(s.todo) = s.todo[1]
    BY <1>1, <1>3, AheadRest, LenProperties
  <2>3. AheadAt(s.op, s.dto, s.todo, 2)
    BY <1>1, <2>2 DEF Ahead
  <2> QED BY <1>3, <2>1, <2>2, <2>3 DEF Continues, AheadAt
<1> QED BY <1>2, <1>3

\* A step that leaves the request as `state` and the tables alone.
LEMMA BecomesProceeded ==
    ASSUME RequestsInv, NEW r \in Requests, ~Ended(r), NEW body \in AnswerBodies,
           NEW state \in Request,
           state.op = req[r].op, state.dto = req[r].dto, state.todo = req[r].todo,
           Head(req[r].todo).do \notin {"load", "page"},
           state.wrote => req[r].wrote \/ Head(req[r].todo).do \in Writes,
           Become(r, Proceed(state, body))
    PROVE  /\ RequestsInv' /\ OthersKept(r) /\ Outcome(r)
           /\ GoneOn(req[r], state, req'[r], body)
<1> DEFINE s == req[r]
           t == Proceed(state, body)
<1>1. RequestOK(s) /\ s.todo # <<>>
  BY FirstStep
<1>2. RequestOK(t) /\ GoneOn(s, state, t, body)
  BY <1>1, Proceeding
<1>3. RequestsInv' /\ OthersKept(r) /\ req'[r] = t
  BY <1>2, Becoming DEF OthersKept
<1>4. Done(s, t) \/ Continues(s, t)
  BY <1>1, <1>2, GoneOnOutcome
<1> HIDE DEF s, t
<1> QED BY <1>2, <1>3, <1>4 DEF Outcome, s

\* A step that raises refuses the request and changes no table.
LEMMA BecomesRefused ==
    ASSUME RequestsInv, NEW r \in Requests, NEW exception \in Raises,
           Fail(r, exception), NotNamed(r, exception)
    PROVE  RequestsInv' /\ OthersKept(r) /\ Outcome(r) /\ UNCHANGED dbVars
BY Failing DEF Outcome

\* get() and the queries that look whether a row is there.
LEMMA ReadRequests ==
    ASSUME Rows, RequestsInv, NEW r \in Requests,
           GetOrRaise(r) \/ ExistingSportIds(r) \/ LoadForSports(r) \/ Reload(r)
    PROVE  RequestsInv' /\ OthersKept(r) /\ Outcome(r) /\ UNCHANGED dbVars
<1>1. ASSUME NEW exception \in Raises, Fail(r, exception), NotNamed(r, exception)
      PROVE  RequestsInv' /\ OthersKept(r) /\ Outcome(r) /\ UNCHANGED dbVars
  BY <1>1, BecomesRefused
<1>2. ASSUME ~Ended(r), Head(req[r].todo).do \notin {"load", "page"},
             NEW body \in AnswerBodies, Become(r, Proceed(req[r], body))
      PROVE  RequestsInv' /\ OthersKept(r) /\ Outcome(r)
  BY <1>2, BecomesProceeded, FirstStep
<1>3. NoBody \in AnswerBodies
  BY OtherBodies
<1>4. CASE GetOrRaise(r)
  <2>1. At(r, "getOrRaise") /\ ~Ended(r) /\ Head(req[r].todo).do = "getOrRaise"
    BY <1>4 DEF GetOrRaise, At
  <2>2. CASE Target(r) \in Live(Table(r))
    <3> DEFINE body == IF Table(r) = "academy" THEN Shown(Target(r)) ELSE NoBody
    <3>1. body \in AnswerBodies
      BY <1>3, <2>2, ShownBody
    <3>2. Become(r, Proceed(req[r], body)) /\ UNCHANGED dbVars
      BY <1>4, <2>2 DEF GetOrRaise
    <3> HIDE DEF body
    <3> QED BY <1>2, <2>1, <3>1, <3>2
  <2>3. CASE Target(r) \notin Live(Table(r))
    <3>1. Fail(r, AppError("ResourceNotFoundError"))
      BY <1>4, <2>3 DEF GetOrRaise
    <3>2. NotNamed(r, AppError("ResourceNotFoundError"))
      BY <2>1, <2>3 DEF NotNamed
    <3> QED BY <1>1, <3>1, <3>2 DEF Raises
  <2> QED BY <2>2, <2>3
<1>5. CASE ExistingSportIds(r)
  <2>1. At(r, "validateSportIds") /\ ~Ended(r) /\ Head(req[r].todo).do = "validateSportIds"
    BY <1>5 DEF ExistingSportIds, At
  <2>2. CASE req[r].dto.sports \subseteq sports
    BY <1>2, <1>3, <1>5, <2>1, <2>2 DEF ExistingSportIds
  <2>3. CASE ~(req[r].dto.sports \subseteq sports)
    <3>1. Fail(r, AppError("ResourceNotFoundError"))
      BY <1>5, <2>3 DEF ExistingSportIds
    <3> QED BY <1>1, <2>1, <3>1 DEF Raises, NotNamed
  <2> QED BY <2>2, <2>3
<1>6. OtherError("DoesNotExist") \in Raises /\ NotNamed(r, OtherError("DoesNotExist"))
  BY DEF Raises, NotNamed, OtherError, AppError
<1>7. CASE LoadForSports(r)
  <2>1. ~Ended(r) /\ Head(req[r].todo).do = "loadForSports"
    BY <1>7 DEF LoadForSports, At
  <2> QED BY <1>1, <1>2, <1>3, <1>6, <1>7, <2>1 DEF LoadForSports
<1>8. CASE Reload(r)
  <2>1. ~Ended(r) /\ Head(req[r].todo).do = "reload"
    BY <1>8 DEF Reload, At
  <2>2. CASE Target(r) \in Live("academy")
    <3>1. Shown(Target(r)) \in AnswerBodies
      BY <2>2, ShownBody
    <3> QED BY <1>2, <1>8, <2>1, <2>2, <3>1 DEF Reload
  <2>3. CASE Target(r) \notin Live("academy")
    BY <1>1, <1>6, <1>8, <2>3 DEF Reload
  <2> QED BY <2>2, <2>3
<1> QED BY <1>4, <1>5, <1>7, <1>8


\* The request once the steps it has left are about the row "id".
About(s, id) ==
    [s EXCEPT !.todo = [i \in DOMAIN s.todo |-> [s.todo[i] EXCEPT !.id = id]]]

\* A step that gives a new row to the request, whose further steps are about it.
LEMMA Renamed ==
    ASSUME NEW s, RequestOK(s), NEW id \in Nat, NEW t, t = About(s, id)
    PROVE  /\ RequestOK(t) /\ t.op = s.op /\ t.dto = s.dto /\ t.wrote = s.wrote
           /\ Len(t.todo) = Len(s.todo) /\ (t.todo = <<>> <=> s.todo = <<>>)
           /\ s.todo # <<>> => Head(t.todo).do = Head(s.todo).do
<1> DEFINE ahead == [i \in DOMAIN s.todo |-> [s.todo[i] EXCEPT !.id = id]]
           n == Len(s.todo)
<1>1. /\ s \in Request /\ s.todo \in Seq(StepsAhead) /\ Ahead(s.op, s.dto, s.todo)
      /\ Now(s)
  BY DEF RequestOK, Request
<1>2. /\ n \in Nat /\ DOMAIN s.todo = 1..n
      /\ \A i \in 1..n : s.todo[i] \in StepsAhead
  BY <1>1, LenProperties, ElementOfSeq
<1>3. ASSUME NEW i \in 1..n
      PROVE  /\ ahead[i] \in StepsAhead /\ ahead[i].do = s.todo[i].do
             /\ ahead[i].table = s.todo[i].table /\ ahead[i].id = id
  BY <1>2 DEF StepsAhead
<1>4. ahead \in [1..n -> StepsAhead]
  BY <1>2, <1>3
<1>5. ahead \in Seq(StepsAhead) /\ Len(ahead) = n
  BY <1>2, <1>4, SeqDef, LenProperties
<1>6. t = [s EXCEPT !.todo = ahead]
  BY DEF About
<1> HIDE DEF ahead, n
<1>7. /\ t \in Request /\ t.op = s.op /\ t.dto = s.dto /\ t.wrote = s.wrote
      /\ t.todo = ahead /\ t.obj = s.obj /\ t.rows = s.rows
  BY <1>1, <1>5, <1>6 DEF Request
<1>8. ahead = <<>> <=> s.todo = <<>>
  BY <1>1, <1>5, EmptySeq DEF n
<1>9. ASSUME s.todo # <<>>
      PROVE  /\ Head(ahead) = ahead[1] /\ Head(s.todo) = s.todo[1] /\ 1 \in 1..n
             /\ Head(ahead).do = Head(s.todo).do
  <2>1. Head(ahead) = ahead[1] /\ Head(s.todo) = s.todo[1]
    BY <1>1, <1>5, <1>8, <1>9, HeadTailProperties
  <2>2. 1 \in 1..n
    BY <1>1, <1>2, <1>9, EmptySeq DEF n
  <2> QED BY <1>3, <2>1, <2>2
<1>10. ASSUME NEW i \in 1..n PROVE AheadAt(s.op, s.dto, ahead, i)
  <2>1. AheadAt(s.op, s.dto, s.todo, i)
    BY <1>1 DEF Ahead, n
  <2>2. /\ i > 1 => i - 1 \in 1..n
        /\ i < n => i + 1 \in 1..n
        /\ \A j \in 1..i : j \in 1..n
    BY <1>2
  <2>3. Checks(ahead[i]) <=> Checks(s.todo[i])
    BY <1>3 DEF Checks
  <2>4. Checks(ahead[i]) => \A j \in 1..i : ahead[j].do \notin Writes
    BY <1>3, <2>1, <2>2, <2>3 DEF AheadAt
  <2> QED BY <1>3, <1>5, <2>1, <2>2, <2>4 DEF AheadAt, n
<1>11. Ahead(t.op, t.dto, t.todo)
  BY <1>1, <1>5, <1>7, <1>10 DEF Ahead
<1>12. Now(t)
  <2> SUFFICES ASSUME s.todo # <<>> PROVE Now(t)
    BY <1>7, <1>8 DEF Now
  <2>1. \A i \in 1..n : Checks(ahead[i]) <=> Checks(s.todo[i])
    BY <1>3 DEF Checks
  <2> QED BY <1>1, <1>5, <1>7, <1>9, <2>1 DEF Now, n
<1> QED BY <1>5, <1>7, <1>8, <1>9, <1>11, <1>12 DEF RequestOK, n

\* acreate(), for the requests.
LEMMA CreateRequests ==
    ASSUME Rows, RequestsInv, NEW r \in Requests, At(r, "insert"),
           NEW row \in (IF Table(r) = "academy" THEN Academy ELSE Membership),
           Create(r, Table(r), row)
    PROVE  RequestsInv' /\ OthersKept(r) /\ Outcome(r)
<1> DEFINE s == req[r]
           id == given[Table(r)] + 1
           u == About(s, id)
           state == [u EXCEPT !.wrote = TRUE]
           body == IF Table(r) = "academy" THEN NoBody ELSE MembershipShown(id, row)
<1>1. /\ s \in Request /\ RequestOK(s) /\ s.todo # <<>> /\ Head(s.todo).do = "insert"
      /\ Table(r) \in {"academy", "membership"}
  BY FirstStep DEF At, TableOf
<1>2. id \in Nat /\ id \in DOMAIN tables[Table(r)]
  BY <1>1 DEF Create, Rows
<1>3. /\ RequestOK(u) /\ u.op = s.op /\ u.dto = s.dto /\ Len(u.todo) = Len(s.todo)
      /\ u.todo # <<>> /\ Head(u.todo).do = "insert" /\ u \in Request
  <2> HIDE DEF s, id, body
  <2>1. RequestOK(s) /\ id \in Nat
    BY <1>1, <1>2
  <2>2. /\ RequestOK(u) /\ u.op = s.op /\ u.dto = s.dto
        /\ Len(u.todo) = Len(s.todo) /\ (u.todo = <<>> <=> s.todo = <<>>)
        /\ s.todo # <<>> => Head(u.todo).do = Head(s.todo).do
    BY <2>1, Renamed
  <2> HIDE DEF u
  <2>3. u \in Request
    BY <2>2 DEF RequestOK
  <2>4. u.todo # <<>> /\ Head(u.todo).do = "insert"
    BY <1>1, <2>2
  <2> QED BY <2>2, <2>3, <2>4
<1>4. body \in AnswerBodies
  <2>1. CASE Table(r) = "academy"
    BY <2>1, OtherBodies
  <2>2. CASE Table(r) = "membership"
    <3>1. id \in MembershipIds /\ row \in Membership
      BY <1>2, <2>2 DEF Rows
    <3> QED BY <2>2, <3>1, MembershipShownBody
  <2> QED BY <1>1, <2>1, <2>2
<1>5. state = [s EXCEPT !.todo =
                    [i \in DOMAIN s.todo |-> [s.todo[i] EXCEPT !.id = id]],
                       !.wrote = TRUE]
  BY <1>1 DEF Request, About
<1>6. Become(r, Proceed(state, body))
  BY <1>5 DEF Create
<1> HIDE DEF s, id, u, body
<1>7. /\ state \in Request /\ state.op = u.op /\ state.dto = u.dto
      /\ state.todo = u.todo
  BY <1>3 DEF Request
<1> HIDE DEF state
<1>8. "insert" \in Writes
  BY DEF Writes
<1>9. /\ RequestOK(Proceed(state, body))
      /\ GoneOn(u, state, Proceed(state, body), body)
  BY <1>3, <1>4, <1>7, <1>8, Proceeding
<1>10. RequestsInv' /\ OthersKept(r) /\ req'[r] = Proceed(state, body)
  BY <1>6, <1>9, Becoming DEF OthersKept
<1>11. Done(u, req'[r]) \/ Continues(u, req'[r])
  BY <1>3, <1>9, <1>10, GoneOnOutcome
<1>12. Done(s, req'[r]) \/ Continues(s, req'[r])
  BY <1>1, <1>3, <1>11 DEF Done, Continues
<1> QED BY <1>10, <1>12 DEF Outcome, s

\* The rows that the two inserts put into the tables.
LEMMA InsertedRow ==
    ASSUME Rows, RequestsInv, NEW r \in Requests, InsertAcademy(r) \/ InsertMembership(r)
    PROVE  LET dto == req[r].dto IN
           \/ UNCHANGED dbVars /\ \E exception \in Raises :
                  Fail(r, exception) /\ NotNamed(r, exception)
           \/ \E row \in Academy :
                  /\ At(r, "insert") /\ Table(r) = "academy" /\ Create(r, "academy", row)
                  /\ row.owner \in users
           \/ \E row \in Membership :
                  /\ At(r, "insert") /\ Table(r) = "membership"
                  /\ Create(r, "membership", row)
                  /\ row.user \in users /\ row.academy \in Live("academy")
                  /\ UniqueTogether(row.user, row.academy)
<1> DEFINE dto == req[r].dto
<1>1. At(r, "insert") /\ ~Ended(r)
  BY DEF InsertAcademy, InsertMembership, At
<1>2. /\ req[r].op \in {"create", "apply"} /\ dto \in DtosOf(req[r].op)
      /\ Table(r) = TableOf(req[r].op)
  BY <1>1, FirstStep DEF At, AheadAt
<1>3. ASSUME NEW exception \in {OtherError("ForeignKeyViolation"),
                                OtherError("UniqueViolation")}
      PROVE  exception \in Raises /\ NotNamed(r, exception)
  BY DEF Raises, NotNamed, OtherError, AppError
<1>4. CASE InsertAcademy(r)
  <2>1. Table(r) = "academy" /\ dto \in AcademyCreateDTO
    BY <1>2, <1>4 DEF InsertAcademy, TableOf, OnMemberships, DtosOf
  <2>2. CASE dto.owner \in users
    <3> DEFINE row == [owner |-> dto.owner, stamp |-> "atCreation", data |-> dto.data]
    <3>1. row \in Academy /\ row.owner = dto.owner
      BY <2>1 DEF AcademyCreateDTO, Academy, Stamps
    <3>2. Create(r, "academy", row)
      BY <1>4, <2>2 DEF InsertAcademy
    <3> HIDE DEF row
    <3> QED BY <1>1, <2>1, <2>2, <3>1, <3>2
  <2>3. CASE dto.owner \notin users
    BY <1>3, <1>4, <2>3 DEF InsertAcademy, Fail
  <2> QED BY <2>2, <2>3
<1>5. CASE InsertMembership(r)
  <2>1. Table(r) = "membership" /\ dto \in MembershipCreateDTO
    BY <1>2, <1>5 DEF InsertMembership, TableOf, OnMemberships, DtosOf
  <2>2. CASE dto.user \notin users \/ dto.academy \notin Live("academy")
    BY <1>3, <1>5, <2>2 DEF InsertMembership, Fail
  <2>3. CASE /\ dto.user \in users /\ dto.academy \in Live("academy")
             /\ ~UniqueTogether(dto.user, dto.academy)
    BY <1>3, <1>5, <2>3 DEF InsertMembership, Fail
  <2>4. CASE /\ dto.user \in users /\ dto.academy \in Live("academy")
             /\ UniqueTogether(dto.user, dto.academy)
    <3> DEFINE row == [user |-> dto.user, academy |-> dto.academy,
                       stamp |-> "atCreation", data |-> dto.data]
    <3>1. dto.user \in Users /\ dto.academy \in AcademyIds /\ dto.data \in [status : Statuses]
      BY <2>1, <2>4 DEF MembershipCreateDTO, Rows
    <3>2. row \in Membership /\ row.user = dto.user /\ row.academy = dto.academy
      BY <3>1 DEF Membership, Stamps
    <3>3. Create(r, "membership", row)
      BY <1>5, <2>4 DEF InsertMembership
    <3> HIDE DEF row
    <3> QED BY <1>1, <2>1, <2>4, <3>2, <3>3
  <2> QED BY <2>2, <2>3, <2>4
<1> QED BY <1>4, <1>5

\* Both inserts, for the requests.
LEMMA InsertRequests ==
    ASSUME Rows, RequestsInv, NEW r \in Requests, InsertAcademy(r) \/ InsertMembership(r)
    PROVE  RequestsInv' /\ OthersKept(r) /\ Outcome(r)
BY InsertedRow, CreateRequests, BecomesRefused

\* A step that loads, or passes over a row that is gone.
LEMMA LoadRequests ==
    ASSUME Rows, RequestsInv, NEW r \in Requests, Load(r)
    PROVE  RequestsInv' /\ OthersKept(r) /\ Outcome(r) /\ UNCHANGED dbVars
<1> DEFINE s == req[r]
           rest == Tail(s.todo)
<1>1. /\ At(r, "load") /\ s \in Request /\ RequestOK(s) /\ s.todo # <<>>
      /\ s.todo \in Seq(StepsAhead) /\ Ahead(s.op, s.dto, s.todo) /\ Now(s)
      /\ Head(s.todo).do = "load" /\ Head(s.todo) = s.todo[1]
      /\ Table(r) = TableOf(s.op) /\ AheadAt(s.op, s.dto, s.todo, 1)
  BY FirstStep DEF Load, At, RequestOK
<1>2. /\ rest \in Seq(StepsAhead) /\ Ahead(s.op, s.dto, rest) /\ rest # <<>>
      /\ Head(rest).do = "save" /\ s.todo[2].do = "save" /\ Len(s.todo) > 1
      /\ Len(s.todo) \in Nat /\ Len(rest) = Len(s.todo) - 1
      /\ \A i \in 1..Len(rest) : rest[i] = s.todo[i + 1]
  <2>1. Len(s.todo) \in Nat /\ Len(s.todo) > 1 /\ s.todo[2].do = "save"
    BY <1>1, LenProperties DEF AheadAt
  <2>2. /\ rest \in Seq(StepsAhead) /\ Ahead(s.op, s.dto, rest)
        /\ Len(rest) = Len(s.todo) - 1
        /\ \A i \in 1..Len(rest) : rest[i] = s.todo[i + 1]
        /\ rest # <<>> => Head(rest) = s.todo[2]
        /\ rest = <<>> => Len(s.todo) = 1
    <3> HIDE DEF s
    <3> QED BY <1>1, AheadRest DEF rest
  <2> HIDE DEF rest
  <2> QED BY <2>1, <2>2
<1>3. CASE Target(r) \in Live(Table(r))
  <2> DEFINE row == tables[Table(r)][Target(r)]
             u == [s EXCEPT !.todo = rest]
             t == [u EXCEPT !.obj = row]
  <2>1. Become(r, t) /\ UNCHANGED dbVars
    BY <1>2, <1>3 DEF Load, Proceed
  <2>2. row \in (IF s.op \in OnMemberships THEN Membership ELSE Academy)
    BY <1>1, <1>3, RowOf DEF TableOf
  <2> HIDE DEF s, rest, row
  <2>3. /\ u \in Request /\ u.op = s.op /\ u.dto = s.dto /\ u.todo = rest
        /\ u.wrote = s.wrote
    BY <1>1, <1>2 DEF Request
  <2> HIDE DEF u
  <2>4. /\ t \in Request /\ t.op = s.op /\ t.dto = s.dto /\ t.todo = rest
        /\ t.wrote = s.wrote /\ t.obj = row
    BY <2>2, <2>3 DEF Request
  <2> HIDE DEF t
  <2>5. RequestOK(t)
    BY <1>1, <2>2, <2>4, StepDone DEF rest
  <2>6. Continues(s, t)
    BY <1>2, <2>4 DEF Continues
  <2> QED BY <2>1, <2>5, <2>6, Becoming DEF OthersKept, Outcome, s
<1>4. CASE Target(r) \notin Live(Table(r)) /\ s.op = "bulkPatch"
  <2> DEFINE u == [s EXCEPT !.todo = rest]
             last == Tail(rest)
             t == [s EXCEPT !.todo = last]
  <2>1. Become(r, Proceed(u, NoBody)) /\ UNCHANGED dbVars
    BY <1>4 DEF Load
  <2>2. /\ last \in Seq(StepsAhead) /\ Ahead(s.op, s.dto, last)
        /\ Len(last) = Len(rest) - 1
        /\ \A i \in 1..Len(last) : last[i] = rest[i + 1]
        /\ last # <<>> => Head(last) = s.todo[3] /\ Len(s.todo) > 2
    <3> HIDE DEF s, rest
    <3>1. /\ last \in Seq(StepsAhead) /\ Ahead(s.op, s.dto, last)
          /\ Len(last) = Len(rest) - 1
          /\ \A i \in 1..Len(last) : last[i] = rest[i + 1]
          /\ last # <<>> => Head(last) = rest[2] /\ Len(rest) > 1
      BY <1>2, AheadRest
    <3> HIDE DEF last
    <3>2. ASSUME last # <<>> PROVE 2 \in 1..Len(rest) /\ 2 + 1 = 3
      BY <1>2, <3>1, <3>2
    <3>3. last # <<>> => rest[2] = s.todo[3]
      BY <1>2, <3>2
    <3>4. last # <<>> => Len(s.todo) > 2
      BY <1>2, <3>1
    <3>5. last # <<>> => Head(last) = s.todo[3]
      BY <3>1, <3>3
    <3> QED BY <3>1, <3>4, <3>5
  <2> HIDE DEF s, rest
  <2>3. u.todo = rest /\ u.op = s.op
    BY <1>1, <1>2 DEF Request
  <2>4. ~SetsSports(s.op, s.dto) /\ s.op = "bulkPatch"
    BY <1>4 DEF SetsSports
  <2>5. CASE last = <<>>
    <3>1. Proceed(u, NoBody) = Answered(200, NoBody)
      BY <1>4, <2>3, <2>5 DEF Proceed, SuccessStatus
    <3>2. RequestOK(Answered(200, NoBody)) /\ Done(s, Answered(200, NoBody))
      <4>1. /\ RequestOK(Answered(200, NoBody)) /\ Over(Answered(200, NoBody))
            /\ Answered(200, NoBody).answer = [status |-> 200, body |-> NoBody]
        BY AnsweredRequest, OtherBodies DEF Over
      <4>2. Success(Answered(200, NoBody).answer.status)
        BY <4>1 DEF Success
      <4> QED BY <2>4, <4>1, <4>2 DEF Done
    <3> QED BY <2>1, <3>1, <3>2, Becoming DEF OthersKept, Outcome, s
  <2>6. CASE last # <<>>
    <3>1. t \in Request /\ t.op = s.op /\ t.dto = s.dto /\ t.todo = last /\ t.wrote = s.wrote
      BY <1>1, <2>2 DEF Request
    <3>2. Proceed(u, NoBody) = t
      BY <1>1, <2>3, <2>6 DEF Proceed, Request
    <3> HIDE DEF t, u
    <3>3. AheadAt(s.op, s.dto, s.todo, 3) /\ Head(last) = s.todo[3]
      BY <1>1, <1>2, <2>2, <2>6 DEF Ahead
    <3>4. Head(last).do \notin {"save", "count"}
      <4>1. 3 - 1 = 2 /\ 3 > 1
        OBVIOUS
      <4>2. /\ s.todo[3].do = "save" => s.todo[2].do = "load"
            /\ s.todo[3].do = "count" => s.todo[2].do = "page"
        BY <3>3, <4>1 DEF AheadAt
      <4> QED BY <1>2, <3>3, <4>2
    <3>5. ASSUME s.wrote, NEW i \in 1..Len(last) PROVE ~Checks(last[i])
      <4>1. i + 2 \in 1..Len(s.todo) /\ last[i] = s.todo[i + 2]
        BY <1>2, <2>2
      <4> QED BY <1>1, <3>5, <4>1 DEF Now
    <3>6. RequestOK(t)
      BY <2>2, <3>1, <3>4, <3>5 DEF RequestOK, Now
    <3>7. Continues(s, t)
      BY <2>4, <2>6, <3>1 DEF Continues
    <3> QED BY <2>1, <3>2, <3>6, <3>7, Becoming DEF OthersKept, Outcome, s
  <2> QED BY <2>5, <2>6
<1>5. CASE Target(r) \notin Live(Table(r)) /\ s.op # "bulkPatch"
  <2>1. Fail(r, OtherError("DoesNotExist"))
    BY <1>5 DEF Load
  <2>2. OtherError("DoesNotExist") \in Raises /\ NotNamed(r, OtherError("DoesNotExist"))
    BY DEF Raises, NotNamed, OtherError, AppError
  <2> QED BY <2>1, <2>2, BecomesRefused
<1> QED BY <1>3, <1>4, <1>5

\* A step that writes, counts and goes on.
LEMMA WritingState ==
    ASSUME NEW s \in Request, NEW t, NEW n \in Nat,
           \/ t = [s EXCEPT !.wrote = TRUE, !.count = n]
           \/ t = [s EXCEPT !.wrote = TRUE, !.obj = NoRow, !.count = n]
    PROVE  t \in Request /\ t.op = s.op /\ t.dto = s.dto /\ t.todo = s.todo
BY DEF Request

\* asave(), for the requests.
LEMMA SaveRequests ==
    ASSUME Rows, RequestsInv, NEW r \in Requests, Save(r)
    PROVE  RequestsInv' /\ OthersKept(r) /\ Outcome(r)
<1> DEFINE s == req[r]
           table == Table(r)
           id == Target(r)
           instance == [s.obj EXCEPT !.data = Assign(@, s.dto.data)]
           n == s.count + 1
           state == [s EXCEPT !.wrote = TRUE, !.obj = NoRow, !.count = n]
           body == IF table = "academy" THEN NoBody ELSE MembershipShown(id, instance)
<1>1. /\ At(r, "save") /\ s \in Request /\ RequestOK(s) /\ s.todo # <<>>
      /\ Head(s.todo).do = "save" /\ table = TableOf(s.op) /\ ~Ended(r)
      /\ s.dto \in DtosOf(s.op) /\ table \in {"academy", "membership"}
  BY FirstStep DEF Save, At, TableOf
<1>2. CASE id \in Live(table)
  <2>1. body \in AnswerBodies
    <3>1. CASE table = "academy"
      BY <3>1, OtherBodies
    <3>2. CASE table # "academy"
      <4>1. /\ s.obj \in Membership /\ s.dto.data \in [status : Statuses]
            /\ id \in MembershipIds
        BY <1>1, <1>2, <3>2, DtoUses, RowOf DEF TableOf, RequestOK, Now
      <4> DEFINE data == Assign(s.obj.data, s.dto.data)
      <4>2. data \in [status : Statuses]
        BY <4>1, Assigned DEF Membership
      <4>3. instance = [s.obj EXCEPT !.data = data]
        BY <4>1 DEF Membership
      <4> HIDE DEF data, s, id
      <4>4. instance \in Membership
        BY <4>1, <4>2, <4>3 DEF Membership
      <4> HIDE DEF instance
      <4> QED BY <3>2, <4>1, <4>4, MembershipShownBody
    <3> QED BY <3>1, <3>2
  <2>2. Become(r, Proceed([s EXCEPT !.wrote = TRUE, !.obj = NoRow, !.count = @ + 1],
                          body))
    BY <1>2 DEF Save
  <2>3. state = [s EXCEPT !.wrote = TRUE, !.obj = NoRow, !.count = @ + 1] /\ n \in Nat
    BY <1>1 DEF Request
  <2>4. Become(r, Proceed(state, body))
    BY <2>2, <2>3
  <2> HIDE DEF body, n
  <2>5. /\ state \in Request /\ state.op = s.op /\ state.dto = s.dto
        /\ state.todo = s.todo
    BY <1>1, <2>3, WritingState
  <2>6. "save" \in Writes
    BY DEF Writes
  <2> HIDE DEF state
  <2> QED BY <1>1, <2>1, <2>4, <2>5, <2>6, BecomesProceeded
<1>3. CASE id \notin Live(table)
  <2>1. Fail(r, OtherError("NotUpdated"))
    BY <1>3 DEF Save
  <2>2. OtherError("NotUpdated") \in Raises /\ NotNamed(r, OtherError("NotUpdated"))
    BY DEF Raises, NotNamed, OtherError, AppError
  <2> QED BY <2>1, <2>2, BecomesRefused
<1> QED BY <1>2, <1>3

\* There are finitely many rows.
LEMMA FinitelyMany ==
    ASSUME Rows
    PROVE  /\ Live("academy") \subseteq AcademyIds /\ Live("membership") \subseteq MembershipIds
           /\ \A S \in (SUBSET AcademyIds) \union (SUBSET MembershipIds) :
                  IsFiniteSet(S) /\ Cardinality(S) \in Nat
           /\ AcademyIds \subseteq Nat /\ MembershipIds \subseteq Nat
<1>1. IsFiniteSet(AcademyIds) /\ IsFiniteSet(MembershipIds)
  BY BoundsAssumption, FS_Interval DEF AcademyIds, MembershipIds
<1>2. ASSUME NEW S \in (SUBSET AcademyIds) \union (SUBSET MembershipIds)
      PROVE  IsFiniteSet(S) /\ Cardinality(S) \in Nat
  BY <1>1, FS_Subset, FS_CardinalityType
<1>3. Live("academy") \subseteq AcademyIds /\ Live("membership") \subseteq MembershipIds
  BY DEF Rows, Live
<1> QED BY <1>2, <1>3 DEF AcademyIds, MembershipIds

\* The one UPDATE of bulk_patch(), for the requests.
LEMMA UpdateAllRequests ==
    ASSUME Rows, RequestsInv, NEW r \in Requests, UpdateAll(r)
    PROVE  RequestsInv' /\ OthersKept(r) /\ Outcome(r)
<1> DEFINE s == req[r]
           n == Cardinality(s.rows \intersect Live("academy"))
           state == [s EXCEPT !.wrote = TRUE, !.count = n]
<1>1. /\ s \in Request /\ RequestOK(s) /\ ~Ended(r) /\ Head(s.todo).do = "updateAll"
  BY FirstStep DEF UpdateAll, At
<1>2. n \in Nat
  BY FinitelyMany
<1>3. Become(r, Proceed(state, NoBody))
  BY DEF UpdateAll
<1> HIDE DEF n
<1>4. /\ state \in Request /\ state.op = s.op /\ state.dto = s.dto
      /\ state.todo = s.todo
  BY <1>1, <1>2, WritingState
<1>5. "updateAll" \in Writes
  BY DEF Writes
<1> HIDE DEF state
<1> QED BY <1>1, <1>3, <1>4, <1>5, OtherBodies, BecomesProceeded

\* What r's becoming something else leaves to the others when rows are lost.
OthersLose(r, lost) == \A q \in Requests \ {r} :
    /\ Other(req[q], req'[q])
    /\ req'[q].throughout = req[q].throughout \ lost
    /\ req'[q].disturbed = (req[q].dto.sports # Unset)

\* aset(): it is refused, or it gives the academy the sports of the request.
LEMMA SetSportsRequests ==
    ASSUME Rows, RequestsInv, NEW r \in Requests, SetSports(r)
    PROVE  /\ RequestsInv' /\ Outcome(r)
           /\ \/ OthersKept(r) /\ UNCHANGED dbVars /\ ~Continues(req[r], req'[r])
              \/ /\ OthersLose(r, {}) /\ UNCHANGED <<tables, sports, users, given>>
                 /\ sportsOf' = [sportsOf EXCEPT ![Target(r)] = req[r].dto.sports]
                 /\ req[r].dto.sports \subseteq sports
                 /\ req[r].dto.sports = {} \/ Target(r) \in Live("academy")
                 /\ Tail(req[r].todo) # <<>> => req'[r].todo = Tail(req[r].todo)
<1> DEFINE s == req[r]
           wanted == s.dto.sports
           found == wanted \subseteq sports /\ (wanted = {} \/ Target(r) \in Live("academy"))
           rest == Tail(s.todo)
<1>1. /\ At(r, "setSports") /\ s \in Request /\ RequestOK(s) /\ s.todo # <<>> /\ ~Ended(r)
      /\ s.todo \in Seq(StepsAhead) /\ Head(s.todo).do = "setSports"
  BY FirstStep DEF SetSports, At
<1>2. CASE found
  <2> DEFINE state == [s EXCEPT !.wrote = TRUE, !.disturbed = FALSE]
             p == Proceed(s, NoBody)
             t == [p EXCEPT !.wrote = TRUE, !.disturbed = FALSE]
  <2>1. /\ req' = [Outdate(req, {}) EXCEPT ![r] = t]
        /\ UNCHANGED <<tables, sports, users, given>>
        /\ sportsOf' = [sportsOf EXCEPT ![Target(r)] = wanted]
    BY <1>2 DEF SetSports
  <2>2. RequestOK(p) /\ GoneOn(s, s, p, NoBody)
    BY <1>1, OtherBodies, Proceeding
  <2>3. p \in Request
    BY <2>2 DEF RequestOK
  <2> HIDE DEF s, p
  <2>4. /\ t \in Request /\ t.op = p.op /\ t.dto = p.dto /\ t.todo = p.todo
        /\ t.answer = p.answer /\ t.obj = p.obj /\ t.rows = p.rows
    BY <2>3 DEF Request
  <2>5. /\ state \in Request /\ state.op = s.op /\ state.dto = s.dto
        /\ state.todo = s.todo /\ "setSports" \in Writes
    BY <1>1 DEF Request, Writes
  <2>6. RequestOK(t) /\ (Done(s, t) \/ Continues(s, t))
        /\ (rest # <<>> => t.todo = rest)
    <3>1. CASE rest = <<>>
      <4>1. Over(p) /\ p.answer = [status |-> SuccessStatus(s.op), body |-> NoBody]
        BY <2>2, <3>1 DEF GoneOn
      <4> HIDE DEF t
      <4>2. RequestOK(t)
        BY <2>2, <2>4, <4>1 DEF RequestOK, Now, Over
      <4>3. GoneOn(s, state, t, NoBody)
        BY <2>4, <3>1, <4>1 DEF GoneOn, Over
      <4> HIDE DEF state, rest
      <4> QED BY <1>1, <3>1, <4>2, <4>3, GoneOnOutcome
    <3>2. CASE rest # <<>>
      <4>1. p = [s EXCEPT !.todo = rest]
        BY <2>2, <3>2 DEF GoneOn
      <4>2. t = [state EXCEPT !.todo = rest]
        BY <1>1, <4>1 DEF Request
      <4>3. Proceed(state, NoBody) = t
        BY <2>5, <3>2, <4>2 DEF Proceed
      <4> HIDE DEF t, state
      <4>4. RequestOK(t) /\ GoneOn(s, state, t, NoBody)
        BY <1>1, <2>5, <4>3, OtherBodies, Proceeding
      <4> QED BY <1>1, <3>2, <4>4, GoneOnOutcome DEF GoneOn
    <3> QED BY <3>1, <3>2
  <2> HIDE DEF t
  <2>7. RequestsInv' /\ req'[r] = t /\ OthersLose(r, {})
    BY <2>1, <2>6, OutdatingBy DEF OthersLose
  <2> QED BY <1>2, <2>1, <2>6, <2>7 DEF Outcome, s
<1>3. CASE ~found
  <2>1. Fail(r, OtherError("ForeignKeyViolation"))
    BY <1>3 DEF SetSports
  <2>2. /\ OtherError("ForeignKeyViolation") \in Raises
        /\ NotNamed(r, OtherError("ForeignKeyViolation"))
    BY DEF Raises, NotNamed, OtherError, AppError
  <2>3. Refused(s, req'[r], OtherError("ForeignKeyViolation"))
    BY <2>1, <2>2, Failing
  <2>4. ~Continues(s, req'[r])
    BY <2>3 DEF Refused, Over, Continues
  <2> QED BY <2>1, <2>2, <2>4, BecomesRefused
<1> QED BY <1>2, <1>3

\* A step that deletes academies.
LEMMA DeletingRequests ==
    ASSUME RequestsInv, NEW r \in Requests, ~Ended(r),
           Head(req[r].todo).do \in {"delete", "deleteAll"}, NEW lost,
           NEW state \in Request,
           state.op = req[r].op, state.dto = req[r].dto, state.todo = req[r].todo,
           req' = [Outdate(req, lost) EXCEPT ![r] = Proceed(state, NoBody)]
    PROVE  RequestsInv' /\ OthersLose(r, lost) /\ Outcome(r)
<1> DEFINE s == req[r]
           t == Proceed(state, NoBody)
<1>1. s \in Request /\ RequestOK(s) /\ s.todo # <<>>
  BY FirstStep
<1>2. {"delete", "deleteAll"} \subseteq Writes
  BY DEF Writes
<1>3. RequestOK(t) /\ GoneOn(s, state, t, NoBody)
  BY <1>1, <1>2, OtherBodies, Proceeding
<1> HIDE DEF t
<1>4. req' = [Outdate(req, lost) EXCEPT ![r] = t]
  BY DEF t
<1>5. /\ RequestsInv' /\ req'[r] = t
      /\ \A q \in Requests \ {r} :
            /\ Other(req[q], req'[q])
            /\ req'[q].throughout = req[q].throughout \ lost
            /\ req'[q].disturbed = (req[q].dto.sports # Unset)
  BY ONLY RequestsInv, r \in Requests, <1>3, <1>4, OutdatingBy
<1>6. Done(s, req'[r]) \/ Continues(s, req'[r])
  BY <1>1, <1>3, <1>5, GoneOnOutcome
<1> QED BY <1>5, <1>6 DEF Outcome, OthersLose

\* adelete(), of one academy or of many.
LEMMA DeleteRequests ==
    ASSUME Rows, RequestsInv, NEW r \in Requests, Delete(r) \/ DeleteAll(r)
    PROVE  /\ RequestsInv' /\ Outcome(r)
           /\ \E ids : OthersLose(r, ids) /\ DeleteRows(ids)
<1>1. req[r] \in Request
  BY DEF RequestsInv
<1>2. CASE Delete(r)
  <2> DEFINE n == req[r].count + 1
             ids == {Target(r)}
  <2>1. n \in Nat
    BY <1>1 DEF Request
  <2>2. ~Ended(r) /\ Head(req[r].todo).do = "delete" /\ DeleteRows(ids)
    BY <1>2 DEF Delete, At
  <2>3. req' = [Outdate(req, ids) EXCEPT ![r] =
                   Proceed([req[r] EXCEPT !.wrote = TRUE, !.count = n], NoBody)]
    BY <1>1, <1>2 DEF Delete, Request
  <2> DEFINE state == [req[r] EXCEPT !.wrote = TRUE, !.count = n]
  <2> HIDE DEF n, ids
  <2>4. /\ state \in Request /\ state.op = req[r].op /\ state.dto = req[r].dto
        /\ state.todo = req[r].todo
    BY <1>1, <2>1, WritingState
  <2>5. req' = [Outdate(req, ids) EXCEPT ![r] = Proceed(state, NoBody)]
    BY <2>3
  <2> HIDE DEF state
  <2>6. RequestsInv' /\ OthersLose(r, ids) /\ Outcome(r)
    BY <2>2, <2>4, <2>5, DeletingRequests
  <2> QED BY <2>2, <2>6
<1>3. CASE DeleteAll(r)
  <2> DEFINE ids == req[r].rows \intersect Live("academy")
             related == {pair \in ids \X SportIds : pair[2] \in sportsOf[pair[1]]}
             n == Cardinality(ids) + Cardinality(MembershipsOf(ids)) + Cardinality(related)
  <2>1. /\ ~Ended(r) /\ Head(req[r].todo).do = "deleteAll" /\ DeleteRows(ids)
        /\ req' = [Outdate(req, ids) EXCEPT ![r] =
                      Proceed([req[r] EXCEPT !.wrote = TRUE, !.count = n], NoBody)]
    BY <1>3 DEF DeleteAll, At
  <2>2. ids \in SUBSET AcademyIds /\ MembershipsOf(ids) \in SUBSET MembershipIds
    BY FinitelyMany DEF MembershipsOf
  <2>3. related \in SUBSET (ids \X SportIds)
    OBVIOUS
  <2> HIDE DEF ids, related
  <2>4. IsFiniteSet(ids) /\ Cardinality(ids) \in Nat
        /\ Cardinality(MembershipsOf(ids)) \in Nat
    BY <2>2, FinitelyMany
  <2>5. Cardinality(related) \in Nat
    BY <2>3, <2>4, SportsAssumption, FS_Product, FS_Subset, FS_CardinalityType
  <2>6. n \in Nat
    BY <2>4, <2>5
  <2> DEFINE state == [req[r] EXCEPT !.wrote = TRUE, !.count = n]
  <2> HIDE DEF n
  <2>7. /\ state \in Request /\ state.op = req[r].op /\ state.dto = req[r].dto
        /\ state.todo = req[r].todo
    BY <1>1, <2>6, WritingState
  <2>8. req' = [Outdate(req, ids) EXCEPT ![r] = Proceed(state, NoBody)]
    BY <2>1
  <2> HIDE DEF state
  <2>9. RequestsInv' /\ OthersLose(r, ids) /\ Outcome(r)
    BY <2>1, <2>7, <2>8, DeletingRequests
  <2> QED BY <2>1, <2>9
<1> QED BY <1>2, <1>3

-----------------------------------------------------------------------------
(* Pages: the least and the greatest of a set of keys, and its first rows. *)

\* A set of numbers has a least one, if any.
LEMMA Least ==
    ASSUME NEW S \in SUBSET Nat, S # {}
    PROVE  \E m \in S : \A i \in S : m <= i
<1>1. PICK m \in S : \A y \in S : ~(<<y, m>> \in OpToRel(<, Nat))
  BY NatLessThanWellFounded, WFMin
<1>2. ASSUME NEW i \in S PROVE m <= i
  <2>1. m \in Nat /\ i \in Nat
    OBVIOUS
  <2>2. ~(<<i, m>> \in OpToRel(<, Nat))
    BY <1>1
  <2>3. ~(i < m)
    BY <2>1, <2>2 DEF OpToRel
  <2> QED BY <2>1, <2>3
<1> QED BY <1>2

\* A bounded set of numbers has a greatest one, if any.
LEMMA Greatest ==
    ASSUME NEW n \in Nat, NEW S \in SUBSET (0..n), S # {}
    PROVE  /\ Largest(S) \in S /\ Largest(S) \in Nat
           /\ \A i \in S : i <= Largest(S)
<1> DEFINE T == {n - i : i \in S}
<1>1. T \in SUBSET Nat
  OBVIOUS
<1>2. T # {}
  BY Zenon
<1>3. PICK t \in T : \A u \in T : t <= u
  <2> HIDE DEF T
  <2> QED BY <1>1, <1>2, Least
<1>4. PICK m \in S : t = n - m
  BY <1>3
<1>5. ASSUME NEW i \in S PROVE i <= m
  <2>1. n - i \in T
    OBVIOUS
  <2>2. t <= n - i
    BY <1>3, <2>1
  <2>3. i \in Nat /\ m \in Nat
    OBVIOUS
  <2> QED BY <1>4, <2>2, <2>3
<1>6. Largest(S) \in S /\ \A i \in S : i <= Largest(S)
  BY <1>5, Zenon DEF Largest
<1>7. S \subseteq Nat
  OBVIOUS
<1> QED BY <1>6, <1>7

\* Sets of primary keys are finite.
LEMMA FiniteKeys ==
    ASSUME NEW max \in Nat, NEW S \in SUBSET (1..max)
    PROVE  /\ IsFiniteSet(S) /\ Cardinality(S) \in Nat
           /\ S \in SUBSET Nat
<1>1. IsFiniteSet(1..max)
  BY FS_Interval
<1>2. IsFiniteSet(S) /\ Cardinality(S) \in Nat
  BY <1>1, FS_Subset, FS_CardinalityType
<1>3. 1..max \subseteq Nat
  OBVIOUS
<1> QED BY <1>2, <1>3

\* A page holds at most Limit rows: no two have as many newer ones.
LEMMA PageFits ==
    ASSUME NEW n \in Nat, NEW S \in SUBSET (1..n), NEW offset \in Nat
    PROVE  /\ PageAt(S, offset) \in SUBSET S
           /\ IsFiniteSet(PageAt(S, offset)) /\ Cardinality(PageAt(S, offset)) <= Limit
           /\ Cardinality(PageAt(S, offset)) \in Nat
<1> DEFINE newer(i) == {j \in S : j > i}
           P == PageAt(S, offset)
           T == offset..(offset + Limit - 1)
           f == [i \in P |-> Cardinality(newer(i))]
<1>1. IsFiniteSet(S) /\ S \in SUBSET Nat
  BY FiniteKeys
<1>2. P \in SUBSET S
  BY DEF PageAt
<1>3. ASSUME NEW i \in P
      PROVE  offset <= Cardinality(newer(i)) /\ Cardinality(newer(i)) < offset + Limit
  BY <1>3 DEF PageAt
<1>4. ASSUME NEW i \in S
      PROVE  IsFiniteSet(newer(i)) /\ Cardinality(newer(i)) \in Nat
  <2>1. newer(i) \in SUBSET S
    OBVIOUS
  <2> HIDE DEF newer
  <2> QED BY <1>1, <2>1, FS_Subset, FS_CardinalityType
<1>5. ASSUME NEW i \in S, NEW k \in S, i < k
      PROVE  Cardinality(newer(k)) < Cardinality(newer(i))
  <2>1. k \in newer(i) /\ k \notin newer(k)
    BY <1>1, <1>5
  <2>2. \A j \in S : j > k => j > i
    BY <1>1, <1>5
  <2>3. newer(k) \subseteq newer(i)
    BY <2>2
  <2> HIDE DEF newer
  <2>4. Cardinality(newer(k) \union {k}) = Cardinality(newer(k)) + 1
    BY <1>4, <2>1, FS_AddElement
  <2>5. newer(k) \union {k} \in SUBSET newer(i)
    BY <2>1, <2>3
  <2>6. Cardinality(newer(k) \union {k}) <= Cardinality(newer(i))
    BY <1>4, <2>5, FS_Subset
  <2> QED BY <1>4, <2>4, <2>6
<1> HIDE DEF newer, P
<1>6. ASSUME NEW i \in P PROVE i \in S /\ i \in Nat /\ Cardinality(newer(i)) \in T
  <2>1. i \in S /\ i \in Nat
    BY <1>1, <1>2
  <2> QED BY <1>3, <1>4, <2>1, BoundsAssumption
<1>7. f \in Injection(P, T)
  <2>1. f \in [P -> T]
    BY <1>6
  <2>2. ASSUME NEW i \in P, NEW k \in P, f[i] = f[k] PROVE i = k
    <3>1. i \in S /\ k \in S /\ i \in Nat /\ k \in Nat
      BY <1>6
    <3>2. Cardinality(newer(i)) = Cardinality(newer(k))
      BY <2>2
    <3>3. ~(i < k) /\ ~(k < i)
      BY <1>4, <1>5, <3>1, <3>2
    <3> QED BY <3>1, <3>3
  <2> QED BY <2>1, <2>2 DEF Injection, IsInjective
<1>8. IsFiniteSet(T) /\ Cardinality(T) = Limit
  BY FS_Interval, BoundsAssumption
<1> HIDE DEF f, T
<1>9. IsFiniteSet(P) /\ Cardinality(P) <= Limit /\ Cardinality(P) \in Nat
  BY <1>7, <1>8, FS_Injection, FS_CardinalityType
<1> QED BY <1>2, <1>9 DEF P

\* The first n of a set are all of it if they are enough, and else below the rest.
LEMMA FirstOnes ==
    ASSUME NEW max \in Nat, NEW S \in SUBSET (1..max), NEW n \in Nat
    PROVE  /\ Smallest(n, S) \in SUBSET S
           /\ \A i \in Smallest(n, S), j \in S : j <= i => j \in Smallest(n, S)
           /\ n > 0 /\ S # {} => Smallest(n, S) # {}
           /\ Cardinality(Smallest(n, S)) < n => Smallest(n, S) = S
<1> DEFINE K == Smallest(n, S)
           older(i) == {j \in S : j < i}
<1>1. IsFiniteSet(S) /\ S \in SUBSET Nat
  BY FiniteKeys
<1>2. ASSUME NEW i \in S
      PROVE  IsFiniteSet(older(i)) /\ Cardinality(older(i)) \in Nat
  <2>1. older(i) \in SUBSET S
    OBVIOUS
  <2> HIDE DEF older
  <2> QED BY <1>1, <2>1, FS_Subset, FS_CardinalityType
<1>3. K \in SUBSET S /\ \A i \in S : i \in K <=> Cardinality(older(i)) < n
  BY DEF Smallest
<1>4. ASSUME NEW i \in K, NEW j \in S, j <= i PROVE j \in K
  <2>1. i \in S /\ i \in Nat /\ j \in Nat
    BY <1>1, <1>3, <1>4
  <2>2. \A k \in S : k < j => k < i
    BY <1>1, <1>4, <2>1
  <2>3. older(j) \in SUBSET older(i)
    BY <2>2
  <2> HIDE DEF older, K
  <2>4. Cardinality(older(j)) <= Cardinality(older(i))
    BY <1>2, <2>1, <2>3, FS_Subset
  <2> QED BY <1>2, <1>3, <2>1, <2>4
<1>5. ASSUME n > 0, S # {} PROVE K # {}
  <2>1. PICK m \in S : \A i \in S : m <= i
    BY <1>1, <1>5, Least
  <2>2. \A i \in S : ~(i < m)
    BY <1>1, <2>1
  <2>3. older(m) = {}
    BY <2>2
  <2>4. Cardinality(older(m)) = 0
    BY <2>3, FS_EmptySet
  <2>5. m \in K
    BY <1>3, <1>5, <2>4
  <2> QED BY <2>5
<1>6. ASSUME Cardinality(K) < n PROVE K = S
  <2> SUFFICES ASSUME S \ K # {} PROVE FALSE
    BY <1>3
  <2>1. S \ K \in SUBSET Nat
    BY <1>1
  <2>2. PICK m \in S \ K : \A i \in S \ K : m <= i
    BY <2>1, Least
  <2>3. \A j \in S : j < m => j \in K
    BY <1>1, <2>2
  <2>4. older(m) \in SUBSET K /\ m \in S /\ m \notin K
    BY <2>3
  <2> HIDE DEF older, K
  <2>5. IsFiniteSet(K) /\ Cardinality(K) \in Nat
    BY <1>1, <1>3, FS_Subset, FS_CardinalityType
  <2>6. Cardinality(older(m)) <= Cardinality(K)
    BY <2>4, <2>5, FS_Subset
  <2> QED BY <1>2, <1>3, <1>6, <2>4, <2>5, <2>6
<1> HIDE DEF K, older
<1> QED BY <1>3, <1>4, <1>5, <1>6 DEF K

\* What list_cursor() keeps of the rows after the cursor: those up to the next cursor,
\* or all of them.
LEMMA CursorKeeps ==
    ASSUME NEW max \in Nat, NEW S \in SUBSET (1..max), NEW cursor \in Nat
    PROVE  LET later == {i \in S : i > cursor}
               items == Smallest(Limit + 1, later)
               kept == Smallest(Limit, items)
           IN  /\ kept \subseteq later
               /\ Cardinality(items) > Limit =>
                     /\ Largest(kept) \in kept /\ Largest(kept) \in Nat
                     /\ \A i \in kept : i <= Largest(kept)
                     /\ \A i \in later : i <= Largest(kept) => i \in kept
               /\ ~(Cardinality(items) > Limit) => kept = later
<1> DEFINE later == {i \in S : i > cursor}
           items == Smallest(Limit + 1, later)
           kept == Smallest(Limit, items)
<1>1. later \in SUBSET (1..max) /\ Limit \in Nat /\ Limit > 0 /\ Limit + 1 \in Nat
  <2>1. later \subseteq S
    OBVIOUS
  <2> HIDE DEF later
  <2> QED BY <2>1, BoundsAssumption
<1> HIDE DEF later
<1>2. /\ items \in SUBSET later
      /\ \A i \in items, j \in later : j <= i => j \in items
      /\ Cardinality(items) < Limit + 1 => items = later
  BY <1>1, FirstOnes
<1>3. items \in SUBSET (1..max)
  BY <1>1, <1>2
<1>4. IsFiniteSet(items) /\ Cardinality(items) \in Nat
  BY <1>3, FiniteKeys
<1> HIDE DEF items
<1>5. /\ kept \in SUBSET items
      /\ \A i \in kept, j \in items : j <= i => j \in kept
      /\ items # {} => kept # {}
      /\ Cardinality(kept) < Limit => kept = items
  BY <1>1, <1>3, FirstOnes
<1> HIDE DEF kept
<1>6. ASSUME Cardinality(items) > Limit
      PROVE  /\ Largest(kept) \in kept /\ Largest(kept) \in Nat
             /\ \A i \in kept : i <= Largest(kept)
             /\ \A i \in later : i <= Largest(kept) => i \in kept
  <2>1. items # {}
    BY <1>1, <1>6, FS_EmptySet
  <2>2. kept \in SUBSET (1..max)
    BY <1>3, <1>5
  <2>3. kept \in SUBSET (0..max)
    BY <2>2
  <2>4. /\ Largest(kept) \in kept /\ Largest(kept) \in Nat
        /\ \A i \in kept : i <= Largest(kept)
    BY <1>5, <2>1, <2>3, Greatest
  <2>5. \A i \in later : i <= Largest(kept) => i \in kept
    BY <1>2, <1>5, <2>4
  <2> QED BY <2>4, <2>5
<1>7. ASSUME ~(Cardinality(items) > Limit) PROVE kept = later
  <2>1. items = later
    BY <1>1, <1>2, <1>4, <1>7
  <2>2. Cardinality(kept) \in Nat /\ Cardinality(kept) <= Cardinality(items)
        /\ (Cardinality(kept) = Cardinality(items) => kept = items)
    BY <1>4, <1>5, FS_Subset, FS_CardinalityType
  <2>3. kept = items
    BY <1>1, <1>4, <1>5, <1>7, <2>2
  <2> QED BY <2>1, <2>3
<1> QED BY <1>2, <1>5, <1>6, <1>7 DEF later, items, kept

\* The query of a page, for the requests.
LEMMA PageRequests ==
    ASSUME Rows, RequestsInv, NEW r \in Requests, Page(r)
    PROVE  RequestsInv' /\ OthersKept(r) /\ Outcome(r) /\ UNCHANGED dbVars
<1> DEFINE s == req[r]
           p == Proceed(s, NoBody)
           shown == PageAt(Matching(r), s.cursor)
           t == [p EXCEPT !.rows = shown]
           rest == Tail(s.todo)
<1>1. /\ s \in Request /\ RequestOK(s) /\ s.todo # <<>> /\ ~Ended(r)
      /\ s.todo \in Seq(StepsAhead) /\ Head(s.todo).do = "page" /\ s.cursor \in Nat
      /\ Table(r) \in {"academy", "membership"}
  BY FirstStep DEF Page, At, Request, TableOf
<1>2. Become(r, t) /\ UNCHANGED dbVars
  BY DEF Page
<1>3. /\ Matching(r) \in (SUBSET AcademyIds) \union (SUBSET MembershipIds)
  BY FinitelyMany DEF Matching, MembershipsOf
<1>4. /\ shown \in SUBSET (AcademyIds \union MembershipIds)
      /\ IsFiniteSet(shown) /\ Cardinality(shown) <= Limit
  <2>1. CASE Matching(r) \in SUBSET (1..MaxAcademies)
    <3>1. shown \in SUBSET Matching(r) /\ IsFiniteSet(shown) /\ Cardinality(shown) <= Limit
      BY <1>1, <2>1, PageFits, BoundsAssumption
    <3> HIDE DEF shown
    <3> QED BY <2>1, <3>1 DEF AcademyIds
  <2>2. CASE Matching(r) \in SUBSET (1..MaxMemberships)
    <3>1. shown \in SUBSET Matching(r) /\ IsFiniteSet(shown) /\ Cardinality(shown) <= Limit
      BY <1>1, <2>2, PageFits, BoundsAssumption
    <3> HIDE DEF shown
    <3> QED BY <2>2, <3>1 DEF MembershipIds
  <2> QED BY <1>3, <2>1, <2>2 DEF AcademyIds, MembershipIds
<1> HIDE DEF s, shown
<1>5. CASE rest = <<>>
  <2>1. p = Answered(SuccessStatus(s.op), NoBody)
    BY <1>5 DEF Proceed
  <2>2. SuccessStatus(s.op) \in Nat
    BY DEF SuccessStatus
  <2>3. RequestOK(p) /\ p.todo = <<>> /\ p.op = "none"
        /\ p.answer = [status |-> SuccessStatus(s.op), body |-> NoBody]
    BY <2>1, <2>2, AnsweredRequest, OtherBodies
  <2>4. p \in Request
    BY <2>3 DEF RequestOK
  <2> HIDE DEF p
  <2>5. /\ t \in Request /\ t.op = p.op /\ t.dto = p.dto /\ t.todo = p.todo
        /\ t.answer = p.answer
    BY <1>4, <2>4 DEF Request
  <2> HIDE DEF t
  <2>6. RequestOK(t)
    BY <2>3, <2>5 DEF RequestOK, Now
  <2>7. GoneOn(s, s, t, NoBody)
    BY <1>5, <2>3, <2>5 DEF GoneOn, Over
  <2>8. Done(s, t) \/ Continues(s, t)
    BY <1>1, <2>7, GoneOnOutcome
  <2> QED BY <1>2, <2>6, <2>8, Becoming DEF OthersKept, Outcome, s
<1>6. CASE rest # <<>>
  <2> DEFINE state == [s EXCEPT !.rows = shown]
  <2>1. rest \in Seq(StepsAhead)
    BY <1>1, AheadRest DEF RequestOK
  <2> HIDE DEF rest
  <2>2. p = [s EXCEPT !.todo = rest]
    BY <1>6 DEF Proceed, rest
  <2>3. /\ p \in Request /\ p.op = s.op /\ p.dto = s.dto /\ p.todo = rest
        /\ p.wrote = s.wrote
    BY <1>1, <2>1, <2>2 DEF Request
  <2>4. t = [state EXCEPT !.todo = rest]
    BY <1>1, <2>2 DEF Request
  <2> HIDE DEF p, state
  <2>5. /\ t \in Request /\ t.op = s.op /\ t.dto = s.dto /\ t.todo = rest
        /\ t.wrote = s.wrote /\ t.rows = shown
    BY <1>4, <2>3 DEF Request
  <2> HIDE DEF t
  <2>6. RequestOK(t)
    BY <1>1, <1>4, <2>5, StepDone DEF rest
  <2>7. GoneOn(s, state, t, NoBody)
    BY <1>6, <2>4, <2>5 DEF GoneOn, rest
  <2>8. Done(s, t) \/ Continues(s, t)
    BY <1>1, <2>7, GoneOnOutcome
  <2> QED BY <1>2, <2>6, <2>8, Becoming DEF OthersKept, Outcome, s, t, p
<1> QED BY <1>5, <1>6

\* count(), for the requests: it follows the page that it is about.
LEMMA CountRequests ==
    ASSUME Rows, RequestsInv, NEW r \in Requests, Count(r)
    PROVE  RequestsInv' /\ OthersKept(r) /\ Outcome(r) /\ UNCHANGED dbVars
<1> DEFINE s == req[r]
           shown == Cardinality(s.rows)
           more == s.cursor + shown < Cardinality(Matching(r))
           body == [id |-> 0, returned |-> shown, hasMore |-> more]
<1>1. /\ s \in Request /\ ~Ended(r) /\ Head(s.todo).do = "count" /\ Now(s) /\ s.todo # <<>>
  BY FirstStep DEF Count, At, RequestOK
<1>2. shown \in 0..Limit /\ more \in BOOLEAN
  BY <1>1, BoundsAssumption, FS_CardinalityType DEF Now
<1>3. Become(r, Proceed(s, body)) /\ UNCHANGED dbVars
  BY DEF Count
<1> HIDE DEF shown, more
<1>4. body \in AnswerBodies
  BY <1>2, OtherBodies
<1> HIDE DEF body
<1> QED BY <1>1, <1>3, <1>4, BecomesProceeded

\* What a page adds to what a walk has shown.
LEMMA WalkGoesOn ==
    ASSUME Rows, NEW s \in Request, s.op = "walk", Walked(s)
    PROVE  LET items == Smallest(Limit + 1, {i \in Live("academy") : i > s.cursor})
               kept == Smallest(Limit, items)
               times == [a \in AcademyIds |-> s.times[a] + (IF a \in kept THEN 1 ELSE 0)]
           IN  /\ times \in [AcademyIds -> 0..1]
               /\ Cardinality(items) > Limit =>
                     /\ Largest(kept) \in Nat
                     /\ \A a \in AcademyIds :
                           /\ a > Largest(kept) => times[a] = 0
                           /\ a \in s.throughout /\ a <= Largest(kept) => times[a] = 1
               /\ ~(Cardinality(items) > Limit) =>
                     \A a \in AcademyIds : a \in s.throughout => times[a] = 1
<1> DEFINE later == {i \in Live("academy") : i > s.cursor}
           items == Smallest(Limit + 1, later)
           kept == Smallest(Limit, items)
           times == [a \in AcademyIds |-> s.times[a] + (IF a \in kept THEN 1 ELSE 0)]
<1>1. Live("academy") \in SUBSET (1..MaxAcademies) /\ MaxAcademies \in Nat
  BY FinitelyMany, BoundsAssumption DEF AcademyIds
<1>2. s.cursor \in Nat /\ s.times \in [AcademyIds -> Nat]
  BY DEF Request
<1>3. /\ kept \subseteq later
      /\ Cardinality(items) > Limit =>
            /\ Largest(kept) \in kept /\ Largest(kept) \in Nat
            /\ \A i \in kept : i <= Largest(kept)
            /\ \A i \in later : i <= Largest(kept) => i \in kept
      /\ ~(Cardinality(items) > Limit) => kept = later
  BY <1>1, <1>2, CursorKeeps
<1> HIDE DEF items, kept
<1>4. ASSUME NEW a \in AcademyIds
      PROVE  /\ a \in Nat /\ s.times[a] \in Nat /\ s.times[a] <= 1
             /\ a > s.cursor => s.times[a] = 0
             /\ a \in s.throughout /\ a <= s.cursor => s.times[a] = 1
             /\ a \in s.throughout /\ a > s.cursor => a \in later
             /\ a \in kept => a > s.cursor
  BY <1>2, <1>3, FinitelyMany DEF Walked
<1>5. ASSUME NEW a \in AcademyIds
      PROVE  /\ a \in kept => times[a] = 1
             /\ a \notin kept => times[a] = s.times[a]
  <2>1. times[a] = s.times[a] + (IF a \in kept THEN 1 ELSE 0)
    OBVIOUS
  <2> HIDE DEF times
  <2> QED BY <1>4, <2>1
<1>6. times \in [AcademyIds -> 0..1]
  <2>1. \A a \in AcademyIds : times[a] \in 0..1
    <3> HIDE DEF times
    <3> QED BY <1>4, <1>5
  <2> QED BY <2>1
<1> HIDE DEF times, later
<1>7. ASSUME Cardinality(items) > Limit, NEW a \in AcademyIds
      PROVE  /\ a > Largest(kept) => times[a] = 0
             /\ a \in s.throughout /\ a <= Largest(kept) => times[a] = 1
  <2>1. /\ Largest(kept) \in kept /\ Largest(kept) \in Nat /\ Largest(kept) > s.cursor
        /\ a \in kept => a <= Largest(kept)
        /\ a \in later /\ a <= Largest(kept) => a \in kept
    BY <1>3, <1>7 DEF later
  <2>2. a > Largest(kept) => times[a] = 0
    BY <1>2, <1>4, <1>5, <2>1
  <2>3. a \in s.throughout /\ a <= Largest(kept) => times[a] = 1
    BY <1>2, <1>4, <1>5, <2>1
  <2> QED BY <2>2, <2>3
<1>8. ASSUME ~(Cardinality(items) > Limit), NEW a \in s.throughout, a \in AcademyIds
      PROVE  times[a] = 1
  BY <1>2, <1>3, <1>4, <1>5, <1>8
<1> QED BY <1>3, <1>6, <1>7, <1>8 DEF times, later, items, kept

\* list_cursor(): the walk goes on, or it has shown all it must.
LEMMA CursorPageRequests ==
    ASSUME Rows, RequestsInv, NEW r \in Requests, Walked(req[r]), CursorPage(r)
    PROVE  /\ RequestsInv' /\ OthersKept(r) /\ Outcome(r) /\ UNCHANGED dbVars
           /\ \/ req'[r].op = "walk" /\ req'[r].throughout = req[r].throughout /\ Walked(req'[r])
              \/ /\ Over(req'[r])
                 /\ req'[r].answer.body.times \in [AcademyIds -> 0..1]
                 /\ \A a \in req[r].throughout : req'[r].answer.body.times[a] = 1
<1> DEFINE s == req[r]
           items == Smallest(Limit + 1, {i \in Live("academy") : i > s.cursor})
           kept == Smallest(Limit, items)
           times == [a \in AcademyIds |-> s.times[a] + (IF a \in kept THEN 1 ELSE 0)]
           last == Largest(kept)
           body == [id |-> 0, times |-> times]
           t == [s EXCEPT !.cursor = last, !.times = times]
<1>1. /\ s \in Request /\ RequestOK(s) /\ ~Ended(r) /\ s.todo # <<>>
      /\ Head(s.todo).do = "cursorPage" /\ AheadAt(s.op, s.dto, s.todo, 1)
      /\ Head(s.todo) = s.todo[1] /\ s.throughout \subseteq AcademyIds
  BY FirstStep DEF CursorPage, At, Request
<1>2. s.op = "walk"
  BY <1>1 DEF AheadAt
<1>3. /\ times \in [AcademyIds -> 0..1]
      /\ Cardinality(items) > Limit =>
            /\ last \in Nat
            /\ \A a \in AcademyIds :
                  /\ a > last => times[a] = 0
                  /\ a \in s.throughout /\ a <= last => times[a] = 1
      /\ ~(Cardinality(items) > Limit) =>
            \A a \in AcademyIds : a \in s.throughout => times[a] = 1
  BY <1>1, <1>2, WalkGoesOn
<1>4. /\ Become(r, IF Cardinality(items) > Limit THEN t ELSE Proceed(s, body))
      /\ UNCHANGED dbVars
  BY DEF CursorPage
<1> HIDE DEF items, times, last, s
<1>5. CASE Cardinality(items) > Limit
  <2>1. /\ t \in Request /\ t.op = s.op /\ t.dto = s.dto /\ t.todo = s.todo
        /\ t.obj = s.obj /\ t.rows = s.rows /\ t.wrote = s.wrote /\ t.cursor = last
        /\ t.times = times /\ t.throughout = s.throughout
    <3>1. times \in [AcademyIds -> Nat] /\ last \in Nat
      BY <1>3, <1>5
    <3> QED BY <1>1, <3>1 DEF Request
  <2> HIDE DEF t
  <2>2. RequestOK(t)
    BY <1>1, <2>1, SameRequest
  <2>3. RequestsInv' /\ OthersKept(r) /\ req'[r] = t
    BY <1>4, <1>5, <2>2, Becoming DEF OthersKept
  <2>4. Continues(s, t)
    BY <1>1, <1>2, <2>1 DEF Continues, SetsSports
  <2>5. Walked(t)
    BY <1>1, <1>2, <1>3, <1>5, <2>1 DEF Walked, s
  <2> QED BY <1>2, <1>4, <2>1, <2>3, <2>4, <2>5 DEF Outcome, s
<1>6. CASE ~(Cardinality(items) > Limit)
  <2>1. body \in AnswerBodies /\ body.times = times
    BY <1>3, OtherBodies
  <2> HIDE DEF body
  <2>2. Become(r, Proceed(s, body))
    BY <1>4, <1>6
  <2>3. RequestsInv' /\ OthersKept(r) /\ Outcome(r) /\ GoneOn(s, s, req'[r], body)
    BY <1>1, <2>1, <2>2, BecomesProceeded DEF s
  <2>4. Tail(s.todo) = <<>>
    <3>1. Len(s.todo) = 1 /\ s.todo \in Seq(StepsAhead)
      BY <1>1 DEF AheadAt, Request
    <3> DEFINE rest == Tail(s.todo)
    <3>2. rest \in Seq(StepsAhead) /\ Len(rest) = 0
      BY <1>1, <3>1, HeadTailProperties
    <3> HIDE DEF rest
    <3>3. rest = <<>>
      BY <3>2, EmptySeq
    <3> QED BY <3>3 DEF rest
  <2>5. Over(req'[r]) /\ req'[r].answer.body = body
    BY <2>3, <2>4 DEF GoneOn
  <2>6. \A a \in s.throughout : times[a] = 1
    BY <1>1, <1>3, <1>6
  <2> QED BY <1>3, <1>4, <2>1, <2>3, <2>5, <2>6 DEF s
<1> QED BY <1>5, <1>6

-----------------------------------------------------------------------------
(* The use cases, as lists of steps.                                       *)

\* What a step is made of.
LEMMA OneStep ==
    ASSUME NEW name \in StepNames, NEW table \in {"academy", "membership"}, NEW id \in Nat,
           NEW step, step = Step(name, table, id)
    PROVE  step \in StepsAhead /\ step.do = name /\ step.table = table /\ step.id = id
BY DEF Step, StepsAhead

\* A list of steps on one row, given by their names.
LEMMA StepsOf ==
    ASSUME NEW names \in Seq(StepNames), NEW table \in {"academy", "membership"},
           NEW id \in Nat, NEW todo, todo = Steps(names, table, id)
    PROVE  /\ todo \in Seq(StepsAhead) /\ Len(todo) = Len(names)
           /\ \A i \in 1..Len(names) :
                 todo[i].do = names[i] /\ todo[i].table = table /\ todo[i].id = id
<1> DEFINE n == Len(names)
<1>1. n \in Nat /\ names \in [1..n -> StepNames]
  BY LenProperties
<1>2. todo = [i \in 1..n |-> Step(names[i], table, id)]
  BY DEF Steps
<1> HIDE DEF n
<1>3. ASSUME NEW i \in 1..n
      PROVE  /\ todo[i] \in StepsAhead
             /\ todo[i].do = names[i] /\ todo[i].table = table /\ todo[i].id = id
  <2>1. todo[i] = Step(names[i], table, id) /\ names[i] \in StepNames
    BY <1>1, <1>2
  <2> QED BY <2>1, OneStep
<1>4. todo \in [1..n -> StepsAhead]
  <2>1. DOMAIN todo = 1..n /\ todo = [i \in 1..n |-> todo[i]]
    BY <1>2
  <2> QED BY <1>3, <2>1
<1>5. todo \in Seq(StepsAhead) /\ Len(todo) = n
  BY <1>1, <1>4, SeqDef, LenProperties
<1> QED BY <1>3, <1>5 DEF n

\* What Ahead asks of the names of the steps that a use case takes on one row.
PlannedAt(op, dto, names, i) ==
    /\ names[i] = "insert" => op \in {"create", "apply"}
    /\ names[i] = "updateAll" => op \notin OnMemberships
    /\ names[i] = "cursorPage" <=> op = "walk"
    /\ names[i] = "cursorPage" => i = Len(names)
    /\ names[i] = "load" => i < Len(names) /\ names[i + 1] = "save"
    /\ i > 1 => /\ names[i] = "save" => names[i - 1] = "load"
                /\ names[i] = "count" => names[i - 1] = "page"
                /\ names[i] = "reload" => names[i - 1] = "setSports"
    /\ SetsSports(op, dto) => /\ names[i] = "reload" <=> i = Len(names)
                              /\ names[i] = "setSports" => i < Len(names)
    /\ \/ names[i] = "validateSportIds"
       \/ names[i] = "getOrRaise" /\ op \in OnMemberships
       => \A j \in 1..i : names[j] \notin Writes

Planned(op, dto, names) ==
    /\ names \in Seq(StepNames) /\ Len(names) > 0
    /\ names[1] \notin {"save", "count", "reload"}
    /\ \A i \in 1..Len(names) : PlannedAt(op, dto, names, i)

\* A use case that is planned so has what Ahead asks.
LEMMA PlanAhead ==
    ASSUME NEW op, NEW dto \in DtosOf(op), NEW id \in Nat, NEW names,
           Planned(op, dto, names)
    PROVE  LET todo == Steps(names, TableOf(op), id) IN
           /\ todo \in Seq(StepsAhead) /\ todo # <<>> /\ Ahead(op, dto, todo)
           /\ Head(todo).do \notin {"save", "count", "reload"}
<1> DEFINE table == TableOf(op)
           todo == Steps(names, table, id)
<1>1. names \in Seq(StepNames) /\ Len(names) \in Nat /\ Len(names) > 0
  BY LenProperties DEF Planned
<1>2. table \in {"academy", "membership"} /\ (table = "membership" <=> op \in OnMemberships)
  BY DEF TableOf
<1> HIDE DEF table
<1>0. todo = Steps(names, table, id)
  OBVIOUS
<1> HIDE DEF todo
<1>3. /\ todo \in Seq(StepsAhead) /\ Len(todo) = Len(names)
      /\ \A i \in 1..Len(names) :
            todo[i].do = names[i] /\ todo[i].table = table /\ todo[i].id = id
  BY <1>0, <1>1, <1>2, StepsOf
<1>4. todo # <<>> /\ Head(todo) = todo[1] /\ 1 \in 1..Len(names)
  BY <1>1, <1>3, EmptySeq, HeadTailProperties
<1>5. Head(todo).do \notin {"save", "count", "reload"}
  BY <1>3, <1>4 DEF Planned
<1>6. ASSUME NEW i \in 1..Len(todo) PROVE AheadAt(op, dto, todo, i)
  <2>1. /\ i \in 1..Len(names) /\ (i > 1 => i - 1 \in 1..Len(names))
        /\ (i < Len(names) => i + 1 \in 1..Len(names)) /\ \A j \in 1..i : j \in 1..Len(names)
    BY <1>1, <1>3
  <2>2. PlannedAt(op, dto, names, i)
    BY <2>1 DEF Planned
  <2>3. Checks(todo[i]) => \A j \in 1..i : todo[j].do \notin Writes
    BY <1>2, <1>3, <2>1, <2>2 DEF Checks, PlannedAt
  <2>4. todo[i].do = "updateAll" => todo[i].table = "academy"
    BY <1>2, <1>3, <2>1, <2>2 DEF PlannedAt
  <2> QED BY <1>3, <2>1, <2>2, <2>3, <2>4 DEF AheadAt, PlannedAt, table
<1> QED BY <1>3, <1>4, <1>5, <1>6 DEF Ahead, todo, table

\* Each use case, whatever it is asked to change.
LEMMA UseCasesPlanned ==
    /\ \A dto \in AcademyCreateDTO : Planned("create", dto, UseCaseCreate(dto))
    /\ \A dto \in AcademyUpdateDTO : Planned("update", dto, UseCaseUpdate(dto))
    /\ \A dto \in AcademyPatchDTO : Planned("patch", dto, UseCasePartialUpdate(dto))
    /\ Planned("delete", NoDto, UseCaseDelete) /\ Planned("get", NoDto, UseCaseGet)
    /\ Planned("list", NoDto, UseCaseList)
    /\ \A dto : /\ Planned("listMembers", dto, UseCaseListForAcademy)
                /\ Planned("apply", dto, UseCaseApply)
                /\ Planned("approve", dto, UseCaseApprove)
                /\ Planned("reject", dto, UseCaseReject)
                /\ Planned("bulkDelete", dto, <<"deleteAll">>)
                /\ Planned("bulkPatch", dto, <<"updateAll">>)
                /\ Planned("walk", dto, <<"cursorPage">>)
<1> USE DEF Planned, PlannedAt, StepNames, Writes, OnMemberships
<1>1. ASSUME NEW dto \in AcademyCreateDTO PROVE Planned("create", dto, UseCaseCreate(dto))
  <2>1. CASE dto.sports = {}
    BY <2>1 DEF UseCaseCreate, ValidateSportIds, SetSportsSteps
  <2>2. CASE dto.sports # {}
    <3> DEFINE names == <<"validateSportIds">> \o <<"insert">> \o SetSportsSteps
    <3>1. /\ names \in Seq(StepNames) /\ Len(names) = 5
          /\ names[1] = "validateSportIds" /\ names[2] = "insert"
          /\ names[3] = "loadForSports" /\ names[4] = "setSports"
          /\ names[5] = "reload"
      BY DEF SetSportsSteps
    <3>2. UseCaseCreate(dto) = names
      BY <2>2, Zenon DEF UseCaseCreate, ValidateSportIds
    <3> HIDE DEF names
    <3>3. Planned("create", dto, names)
      BY <3>1
    <3> QED BY <3>2, <3>3
  <2> QED BY <2>1, <2>2
<1>2. ASSUME NEW dto \in AcademyUpdateDTO PROVE Planned("update", dto, UseCaseUpdate(dto))
  <2>1. CASE dto.sports = {}
    BY <2>1 DEF UseCaseUpdate, ValidateSportIds, UpdateSteps, SetSportsSteps
  <2>2. CASE dto.sports # {}
    <3> DEFINE names == <<"getOrRaise">> \o <<"validateSportIds">> \o UpdateSteps
                     \o SetSportsSteps
    <3>1. /\ names \in Seq(StepNames) /\ Len(names) = 7
          /\ names[1] = "getOrRaise" /\ names[2] = "validateSportIds"
          /\ names[3] = "load" /\ names[4] = "save"
          /\ names[5] = "loadForSports" /\ names[6] = "setSports"
          /\ names[7] = "reload"
      BY DEF UpdateSteps, SetSportsSteps
    <3>2. UseCaseUpdate(dto) = names
      BY <2>2, Zenon DEF UseCaseUpdate, ValidateSportIds
    <3> HIDE DEF names
    <3>3. Planned("update", dto, names)
      BY <3>1
    <3> QED BY <3>2, <3>3
  <2> QED BY <2>1, <2>2
<1>3. ASSUME NEW dto \in AcademyPatchDTO
      PROVE  Planned("patch", dto, UseCasePartialUpdate(dto))
  <2>1. CASE dto.sports = Unset
    <3>1. ~SetsSports("patch", dto)
      BY <2>1 DEF SetsSports
    <3>2. CASE DOMAIN dto.data = {}
      BY <2>1, <3>2, <3>1 DEF UseCasePartialUpdate
    <3>3. CASE DOMAIN dto.data # {}
      BY <2>1, <3>3, <3>1 DEF UseCasePartialUpdate, UpdateSteps
    <3> QED BY <3>2, <3>3
  <2>2. CASE dto.sports # Unset /\ dto.sports = {}
    <3>1. CASE DOMAIN dto.data = {}
      BY <2>2, <3>1 DEF UseCasePartialUpdate, ValidateSportIds, SetSportsSteps
    <3>2. CASE DOMAIN dto.data # {}
      BY <2>2, <3>2 DEF UseCasePartialUpdate, ValidateSportIds, UpdateSteps, SetSportsSteps
    <3> QED BY <3>1, <3>2
  <2>3. CASE dto.sports # Unset /\ dto.sports # {}
    <3>1. CASE DOMAIN dto.data = {}
      <4> DEFINE names == <<"getOrRaise">> \o <<"validateSportIds">> \o <<>> \o SetSportsSteps
      <4>1. /\ names \in Seq(StepNames) /\ Len(names) = 5
            /\ names[1] = "getOrRaise" /\ names[2] = "validateSportIds"
            /\ names[3] = "loadForSports" /\ names[4] = "setSports"
            /\ names[5] = "reload"
        BY DEF SetSportsSteps
      <4>2. UseCasePartialUpdate(dto) = names
        BY <2>3, <3>1, Zenon DEF UseCasePartialUpdate, ValidateSportIds
      <4> HIDE DEF names
      <4>3. Planned("patch", dto, names)
        BY <4>1
      <4> QED BY <4>2, <4>3
    <3>2. CASE DOMAIN dto.data # {}
      <4> DEFINE names == <<"getOrRaise">> \o <<"validateSportIds">> \o UpdateSteps
                       \o SetSportsSteps
      <4>1. /\ names \in Seq(StepNames) /\ Len(names) = 7
            /\ names[1] = "getOrRaise" /\ names[2] = "validateSportIds"
            /\ names[3] = "load" /\ names[4] = "save"
            /\ names[5] = "loadForSports" /\ names[6] = "setSports"
            /\ names[7] = "reload"
        BY DEF UpdateSteps, SetSportsSteps
      <4>2. UseCasePartialUpdate(dto) = names
        BY <2>3, <3>2, Zenon DEF UseCasePartialUpdate, ValidateSportIds
      <4> HIDE DEF names
      <4>3. Planned("patch", dto, names)
        BY <4>1
      <4> QED BY <4>2, <4>3
    <3> QED BY <3>1, <3>2
  <2> QED BY <2>1, <2>2, <2>3
<1>4. /\ Planned("delete", NoDto, UseCaseDelete) /\ Planned("get", NoDto, UseCaseGet)
      /\ Planned("list", NoDto, UseCaseList)
  <2>1. ASSUME NEW op \in {"delete", "get", "list"} PROVE ~SetsSports(op, NoDto)
    BY <2>1 DEF SetsSports
  <2> QED BY <2>1 DEF UseCaseDelete, UseCaseGet, UseCaseList
<1>5. ASSUME NEW dto
      PROVE  /\ Planned("listMembers", dto, UseCaseListForAcademy)
             /\ Planned("apply", dto, UseCaseApply)
             /\ Planned("approve", dto, UseCaseApprove)
             /\ Planned("reject", dto, UseCaseReject)
  <2>1. ASSUME NEW op \in OnMemberships PROVE ~SetsSports(op, dto)
    BY <2>1 DEF SetsSports
  <2>2. Planned("listMembers", dto, UseCaseListForAcademy)
    BY <2>1 DEF UseCaseListForAcademy
  <2>3. Planned("apply", dto, UseCaseApply)
    BY <2>1 DEF UseCaseApply
  <2>4. Planned("approve", dto, UseCaseApprove) /\ Planned("reject", dto, UseCaseReject)
    BY <2>1 DEF UseCaseApprove, UseCaseReject, UpdateSteps
  <2> QED BY <2>2, <2>3, <2>4
<1>6. ASSUME NEW dto
      PROVE  /\ Planned("bulkDelete", dto, <<"deleteAll">>)
             /\ Planned("bulkPatch", dto, <<"updateAll">>)
             /\ Planned("walk", dto, <<"cursorPage">>)
  <2>1. ASSUME NEW op \in {"bulkDelete", "bulkPatch", "walk"} PROVE ~SetsSports(op, dto)
    BY <2>1 DEF SetsSports
  <2> QED BY <2>1
<1> HIDE DEF Planned, PlannedAt, StepNames, Writes, OnMemberships
<1> QED BY <1>1, <1>2, <1>3, <1>4, <1>5, <1>6

\* The same of the operations on a list of keys.
LEMMA KeysOf ==
    ASSUME NEW ids \in Keys, NEW fast \in BOOLEAN
    PROVE  /\ Len(ids) \in Nat \ {0} /\ \A i \in 1..Len(ids) : ids[i] \in AcademyIds
           /\ PutTogether(ids, fast) \in SUBSET AcademyIds
<1>1. PICK n \in 1..MaxAcademies : ids \in [1..n -> AcademyIds]
  BY DEF Keys
<1>2. n \in Nat /\ n > 0
  BY BoundsAssumption
<1>3. ids \in Seq(AcademyIds)
  BY <1>1, <1>2, SeqDef
<1>4. Len(ids) = n
  BY <1>1, <1>2, <1>3, LenProperties
<1>5. PutTogether(ids, fast) \in SUBSET AcademyIds
  BY <1>1 DEF PutTogether
<1> QED BY <1>1, <1>2, <1>4, <1>5

\* The lists of bulk_delete() and bulk_patch(), row by row.
LEMMA BulkAhead ==
    ASSUME NEW ids \in Keys, NEW dto \in AcademyPatchDTO
    PROVE  /\ LET todo == BulkDelete(ids, FALSE) IN
              /\ todo \in Seq(StepsAhead) /\ todo # <<>> /\ Ahead("bulkDelete", dto, todo)
              /\ Head(todo).do \notin {"save", "count", "reload"}
           /\ LET todo == BulkPatch(ids, FALSE) IN
              /\ todo \in Seq(StepsAhead) /\ todo # <<>> /\ Ahead("bulkPatch", dto, todo)
              /\ Head(todo).do \notin {"save", "count", "reload"}
<1> DEFINE n == Len(ids)
<1>1. n \in Nat \ {0} /\ \A i \in 1..n : ids[i] \in AcademyIds
  BY KeysOf
<1>2. AcademyIds \subseteq Nat
  BY DEF AcademyIds
<1>3. ASSUME NEW op \in {"bulkDelete", "bulkPatch"}
      PROVE  ~SetsSports(op, dto) /\ TableOf(op) = "academy" /\ dto \in DtosOf(op)
  BY DEF SetsSports, TableOf, OnMemberships, DtosOf
<1> HIDE DEF n
<1>4. LET todo == BulkDelete(ids, FALSE) IN
      /\ todo \in Seq(StepsAhead) /\ todo # <<>> /\ Ahead("bulkDelete", dto, todo)
      /\ Head(todo).do \notin {"save", "count", "reload"}
  <2> DEFINE todo == BulkDelete(ids, FALSE)
             names == [i \in 1..n |-> "delete"]
             rows == [i \in 1..n |-> ids[i]]
  <2>1. names \in [1..n -> StepNames] /\ \A i \in 1..n : names[i] = "delete"
    BY DEF StepNames
  <2>2. rows \in [1..n -> Nat]
    BY <1>1, <1>2
  <2>3. todo = [i \in 1..n |-> Step(names[i], "academy", rows[i])]
    BY DEF BulkDelete, n
  <2> HIDE DEF todo, names, rows
  <2>4. /\ todo \in Seq(StepsAhead) /\ Len(todo) = n
        /\ \A i \in 1..n : todo[i].do = "delete" /\ todo[i].table = "academy"
    <3>1. ASSUME NEW i \in 1..n
          PROVE  /\ todo[i] \in StepsAhead
                 /\ todo[i].do = names[i] /\ todo[i].table = "academy"
      <4>1. /\ todo[i] = Step(names[i], "academy", rows[i])
            /\ names[i] \in StepNames /\ rows[i] \in Nat
        BY <2>1, <2>2, <2>3
      <4> QED BY <4>1, OneStep
    <3>2. todo \in [1..n -> StepsAhead]
      <4>1. DOMAIN todo = 1..n /\ todo = [i \in 1..n |-> todo[i]]
        BY <2>3
      <4> QED BY <3>1, <4>1
    <3>3. todo \in Seq(StepsAhead) /\ Len(todo) = n
      BY <1>1, <3>2, SeqDef, LenProperties
    <3> QED BY <2>1, <3>1, <3>3
  <2>5. todo # <<>> /\ Head(todo) = todo[1]
    BY <1>1, <2>4, EmptySeq, HeadTailProperties
  <2>6. \A i \in 1..n : AheadAt("bulkDelete", dto, todo, i)
    BY <1>3, <2>4 DEF AheadAt, Checks
  <2>7. Head(todo).do = "delete"
    BY <1>1, <2>4, <2>5
  <2> QED BY <1>3, <2>4, <2>5, <2>6, <2>7 DEF Ahead, todo
<1>5. LET todo == BulkPatch(ids, FALSE) IN
      /\ todo \in Seq(StepsAhead) /\ todo # <<>> /\ Ahead("bulkPatch", dto, todo)
      /\ Head(todo).do \notin {"save", "count", "reload"}
  <2> DEFINE todo == BulkPatch(ids, FALSE)
             m == 2 * n
             names == [i \in 1..m |-> IF i % 2 = 1 THEN "load" ELSE "save"]
             rows == [i \in 1..m |-> ids[(i + 1) \div 2]]
  <2>1. m \in Nat /\ m > 0
    BY <1>1
  <2>2. ASSUME NEW i \in 1..m
        PROVE  /\ (i + 1) \div 2 \in 1..n
               /\ i % 2 = 1 => i < m /\ (i + 1) % 2 # 1
               /\ i % 2 # 1 => (i - 1) % 2 = 1
    <3>1. i \in Nat /\ i > 0 /\ i <= 2 * n /\ n \in Nat
      BY <1>1
    <3> QED BY <3>1
  <2>3. todo = [i \in 1..m |-> Step(names[i], "academy", rows[i])]
    BY DEF BulkPatch, n
  <2> HIDE DEF m
  <2>4. names \in [1..m -> StepNames]
    BY DEF StepNames
  <2>5. rows \in [1..m -> Nat]
    BY <1>1, <1>2, <2>2
  <2>6. ASSUME NEW i \in 1..m
        PROVE  /\ names[i] \in {"load", "save"}
               /\ names[i] = "load" => i < m /\ i + 1 \in 1..m /\ names[i + 1] = "save"
               /\ i > 1 => i - 1 \in 1..m
               /\ i > 1 /\ names[i] = "save" => names[i - 1] = "load"
    BY <2>1, <2>2
  <2>7. names[1] = "load"
    BY <2>1
  <2> HIDE DEF todo, names, rows
  <2>8. /\ todo \in Seq(StepsAhead) /\ Len(todo) = m
        /\ \A i \in 1..m : todo[i].do = names[i] /\ todo[i].table = "academy"
    <3>1. ASSUME NEW i \in 1..m
          PROVE  /\ todo[i] \in StepsAhead
                 /\ todo[i].do = names[i] /\ todo[i].table = "academy"
      <4>1. /\ todo[i] = Step(names[i], "academy", rows[i])
            /\ names[i] \in StepNames /\ rows[i] \in Nat
        BY <2>3, <2>4, <2>5
      <4> QED BY <4>1, OneStep
    <3>2. todo \in [1..m -> StepsAhead]
      <4>1. DOMAIN todo = 1..m /\ todo = [i \in 1..m |-> todo[i]]
        BY <2>3
      <4> QED BY <3>1, <4>1
    <3>3. todo \in Seq(StepsAhead) /\ Len(todo) = m
      BY <2>1, <3>2, SeqDef, LenProperties
    <3> QED BY <3>1, <3>3
  <2>9. todo # <<>> /\ Head(todo) = todo[1]
    BY <2>1, <2>8, EmptySeq, HeadTailProperties
  <2>10. ASSUME NEW i \in 1..m PROVE AheadAt("bulkPatch", dto, todo, i)
    BY <1>3, <2>6, <2>8 DEF AheadAt, Checks
  <2>11. Head(todo).do = "load"
    BY <2>1, <2>7, <2>8, <2>9
  <2> QED BY <1>3, <2>8, <2>9, <2>10, <2>11 DEF Ahead, todo
<1> QED BY <1>4, <1>5

-----------------------------------------------------------------------------
(* The endpoints.                                                          *)

\* What an endpoint makes of its request and leaves to the others.
Starts(r) ==
    /\ Ended(r) /\ RequestsInv' /\ OthersKept(r) /\ UNCHANGED dbVars
    /\ req'[r].todo # <<>> => Head(req'[r].todo).do # "reload"
    /\ Walked(req'[r])

\* An endpoint that makes a well formed request of an idle one.
LEMMA Starting ==
    ASSUME RequestsInv, NEW r \in Requests, Ended(r), NEW s \in Request,
           Ahead(s.op, s.dto, s.todo), s.wrote = FALSE,
           s.todo # <<>> => Head(s.todo).do \notin {"save", "count", "reload"},
           s.times = NotShown,
           s.op = "walk" => s.cursor = 0 /\ s.throughout \subseteq Live("academy"),
           Become(r, s), UNCHANGED dbVars
    PROVE  Starts(r)
<1>1. RequestOK(s)
  BY DEF RequestOK, Now
<1>2. Walked(s)
  BY DEF Walked, NotShown, AcademyIds
<1>3. RequestsInv' /\ OthersKept(r) /\ req'[r] = s
  BY <1>1, Becoming DEF OthersKept
<1> QED BY <1>2, <1>3 DEF Starts

\* An endpoint that begins a planned use case.
LEMMA Beginning ==
    ASSUME RequestsInv, NEW r \in Requests,
           NEW op \in OnMemberships \union OnAcademies, op # "walk", NEW dto \in DtosOf(op),
           NEW names, NEW id \in Nat, Planned(op, dto, names), NEW offset \in Nat,
           NEW todo, todo = Steps(names, TableOf(op), id),
           Begin(r, op, dto, todo) \/ BeginList(r, op, dto, todo, offset)
    PROVE  Starts(r)
<1>1. /\ todo \in Seq(StepsAhead) /\ Ahead(op, dto, todo)
      /\ Head(todo).do \notin {"save", "count", "reload"}
  BY PlanAhead
<1>2. Ended(r) /\ UNCHANGED dbVars
  BY DEF Begin, BeginList
<1>3. dto \in Dtos
  BY DtoUses
<1>4. CASE Begin(r, op, dto, todo)
  <2> DEFINE s == [Idle EXCEPT !.op = op, !.dto = dto, !.todo = todo]
  <2>1. /\ s \in Request /\ s.op = op /\ s.dto = dto /\ s.todo = todo
        /\ s.wrote = Idle.wrote /\ s.times = Idle.times
    BY <1>1, <1>3, IdleRequest DEF Request
  <2>2. Become(r, s)
    BY <1>4 DEF Begin
  <2> HIDE DEF s
  <2> QED BY <1>1, <1>2, <2>1, <2>2, IdleRequest, Starting
<1>5. CASE BeginList(r, op, dto, todo, offset)
  <2> DEFINE s == [Idle EXCEPT !.op = op, !.dto = dto, !.cursor = offset, !.todo = todo]
  <2>1. /\ s \in Request /\ s.op = op /\ s.dto = dto /\ s.todo = todo
        /\ s.wrote = Idle.wrote /\ s.times = Idle.times
    BY <1>1, <1>3, IdleRequest DEF Request
  <2>2. Become(r, s)
    BY <1>5 DEF BeginList
  <2> HIDE DEF s
  <2> QED BY <1>1, <1>2, <2>1, <2>2, IdleRequest, Starting
<1> QED BY <1>4, <1>5

\* The tables of the operations.
LEMMA Tables ==
    /\ \A op \in {"create", "update", "patch", "delete", "get", "list"} :
           /\ TableOf(op) = "academy" /\ op # "walk"
           /\ op \in OnMemberships \union OnAcademies
    /\ \A op \in OnMemberships : TableOf(op) = "membership" /\ op # "walk"
    /\ AcademyIds \subseteq Nat /\ MembershipIds \subseteq Nat
    /\ 0 \in Nat /\ Limit \in Nat
<1>1. /\ \A op \in {"create", "update", "patch", "delete", "get", "list"} :
           /\ TableOf(op) = "academy" /\ op # "walk"
           /\ op \in OnMemberships \union OnAcademies
      /\ \A op \in OnMemberships : TableOf(op) = "membership" /\ op # "walk"
  BY DEF TableOf, OnMemberships, OnAcademies
<1>2. /\ AcademyIds \subseteq Nat /\ MembershipIds \subseteq Nat
      /\ 0 \in Nat /\ Limit \in Nat
  BY BoundsAssumption DEF AcademyIds, MembershipIds
<1> QED BY <1>1, <1>2

\* A body that is refused.
LEMMA RefusedBody ==
    ASSUME RequestsInv, NEW r \in Requests, Unprocessable(r)
    PROVE  Starts(r)
<1> DEFINE status == StatusOf(OtherError("RequestValidationError"))
           s == Answered(status, NoBody)
<1>1. status \in Nat /\ NoBody \in AnswerBodies
  BY RaisedStatus, OtherBodies
<1>2. Ended(r) /\ Become(r, s) /\ UNCHANGED dbVars
  BY DEF Unprocessable
<1> HIDE DEF status
<1>3. RequestOK(s) /\ s.todo = <<>> /\ s.op = "none"
  BY <1>1, AnsweredRequest
<1> HIDE DEF s
<1>4. RequestsInv' /\ OthersKept(r) /\ req'[r] = s
  BY <1>2, <1>3, Becoming DEF OthersKept
<1> QED BY <1>2, <1>3, <1>4 DEF Starts, Walked

\* An endpoint starts a use case with a well formed transfer object, or refuses.
LEMMA AcademyEndpoints ==
    ASSUME RequestsInv, NEW r \in Requests,
           \/ CreateAcademy(r) \/ UpdateAcademy(r) \/ PatchAcademy(r) \/ DeleteAcademy(r)
           \/ GetAcademy(r) \/ ListAcademies(r)
    PROVE  Starts(r)
<1>1. CASE CreateAcademy(r)
  <2>1. PICK body \in Bodies, caller \in Users :
            IF body \in AcademyCreateSchema THEN ControllerCreate(r, body, caller)
                                            ELSE Unprocessable(r)
    BY <1>1 DEF CreateAcademy
  <2>2. CASE body \in AcademyCreateSchema
    <3> DEFINE dto == SchemaToDto(body, caller)
               names == UseCaseCreate(dto)
               todo == Steps(names, "academy", 0)
    <3>1. dto \in AcademyCreateDTO
      BY <2>2, MappedDtos
    <3>2. Begin(r, "create", dto, todo)
      BY <2>1, <2>2 DEF ControllerCreate
    <3> HIDE DEF dto
    <3>3. Planned("create", dto, names)
      BY <3>1, UseCasesPlanned
    <3>4. dto \in DtosOf("create")
      BY <3>1 DEF DtosOf
    <3>5. todo = Steps(names, TableOf("create"), 0)
      BY Tables
    <3> HIDE DEF names, todo
    <3> QED BY <3>2, <3>3, <3>4, <3>5, Tables, Beginning
  <2> QED BY <2>1, <2>2, RefusedBody
<1>2. CASE UpdateAcademy(r)
  <2>1. PICK id \in AcademyIds, body \in Bodies :
            IF body \in AcademyUpdateSchema THEN ControllerUpdate(r, id, body)
                                            ELSE Unprocessable(r)
    BY <1>2 DEF UpdateAcademy
  <2>2. CASE body \in AcademyUpdateSchema
    <3> DEFINE dto == UpdateSchemaToDto(body)
               names == UseCaseUpdate(dto)
               todo == Steps(names, "academy", id)
    <3>1. dto \in AcademyUpdateDTO
      BY <2>2, MappedDtos
    <3>2. Begin(r, "update", dto, todo)
      BY <2>1, <2>2 DEF ControllerUpdate
    <3> HIDE DEF dto
    <3>3. Planned("update", dto, names)
      BY <3>1, UseCasesPlanned
    <3>4. dto \in DtosOf("update")
      BY <3>1 DEF DtosOf
    <3>5. todo = Steps(names, TableOf("update"), id)
      BY Tables
    <3> HIDE DEF names, todo
    <3> QED BY <3>2, <3>3, <3>4, <3>5, Tables, Beginning
  <2> QED BY <2>1, <2>2, RefusedBody
<1>3. CASE PatchAcademy(r)
  <2>1. PICK id \in AcademyIds, body \in Bodies :
            IF body \in AcademyPatchSchema THEN ControllerPartialUpdate(r, id, body)
                                           ELSE Unprocessable(r)
    BY <1>3 DEF PatchAcademy
  <2>2. CASE body \in AcademyPatchSchema
    <3> DEFINE dto == PatchSchemaToDto(body)
               names == UseCasePartialUpdate(dto)
               todo == Steps(names, "academy", id)
    <3>1. dto \in AcademyPatchDTO
      BY <2>2, MappedDtos
    <3>2. Begin(r, "patch", dto, todo)
      BY <2>1, <2>2 DEF ControllerPartialUpdate
    <3> HIDE DEF dto
    <3>3. Planned("patch", dto, names)
      BY <3>1, UseCasesPlanned
    <3>4. dto \in DtosOf("patch")
      BY <3>1 DEF DtosOf, OnMemberships
    <3>5. todo = Steps(names, TableOf("patch"), id)
      BY Tables
    <3> HIDE DEF names, todo
    <3> QED BY <3>2, <3>3, <3>4, <3>5, Tables, Beginning
  <2> QED BY <2>1, <2>2, RefusedBody
<1>4. CASE DeleteAcademy(r) \/ GetAcademy(r)
  <2>1. PICK op \in {"delete", "get"}, id \in AcademyIds :
            Begin(r, op, NoDto, Steps(IF op = "get" THEN UseCaseGet ELSE UseCaseDelete,
                                      "academy", id))
    <3>1. CASE DeleteAcademy(r)
      <4>1. PICK id \in AcademyIds :
                Begin(r, "delete", NoDto, Steps(UseCaseDelete, "academy", id))
        BY <3>1 DEF DeleteAcademy, ControllerDelete
      <4> QED BY <4>1
    <3>2. CASE GetAcademy(r)
      <4>1. PICK id \in AcademyIds :
                Begin(r, "get", NoDto, Steps(UseCaseGet, "academy", id))
        BY <3>2 DEF GetAcademy, ControllerGet
      <4> QED BY <4>1
    <3> QED BY <1>4, <3>1, <3>2
  <2> DEFINE names == IF op = "get" THEN UseCaseGet ELSE UseCaseDelete
             todo == Steps(names, "academy", id)
  <2>2. Planned(op, NoDto, names)
    BY UseCasesPlanned
  <2>3. NoDto \in DtosOf(op)
    BY OtherDtos DEF DtosOf, OnMemberships
  <2>4. todo = Steps(names, TableOf(op), id)
    BY Tables
  <2>5. Begin(r, op, NoDto, todo)
    BY <2>1
  <2> HIDE DEF names, todo
  <2> QED BY <2>2, <2>3, <2>4, <2>5, Tables, Beginning
<1>5. CASE ListAcademies(r)
  <2>1. PICK offset \in {0, Limit} :
            BeginList(r, "list", NoDto, Steps(UseCaseList, "academy", 0), offset)
    BY <1>5 DEF ListAcademies, ControllerList
  <2> DEFINE todo == Steps(UseCaseList, "academy", 0)
  <2>2. Planned("list", NoDto, UseCaseList)
    BY UseCasesPlanned
  <2>3. NoDto \in DtosOf("list") /\ offset \in Nat
    BY OtherDtos, Tables DEF DtosOf, OnMemberships
  <2>4. todo = Steps(UseCaseList, TableOf("list"), 0)
    BY Tables
  <2>5. BeginList(r, "list", NoDto, todo, offset)
    BY <2>1
  <2> HIDE DEF todo
  <2> QED BY <2>2, <2>3, <2>4, <2>5, Tables, Beginning
<1> QED BY <1>1, <1>2, <1>3, <1>4, <1>5

\* The same of the endpoints of memberships.
LEMMA MembershipEndpoints ==
    ASSUME RequestsInv, NEW r \in Requests,
           \/ ApplyMembership(r) \/ ApproveMembership(r) \/ RejectMembership(r)
           \/ ListMemberships(r)
    PROVE  Starts(r)
<1>1. CASE ApplyMembership(r)
  <2>1. PICK caller \in Users, academy \in AcademyIds :
            ControllerApply(r, caller, academy) \/ Unprocessable(r)
    BY <1>1 DEF ApplyMembership
  <2>2. CASE ControllerApply(r, caller, academy)
    <3> DEFINE dto == MembershipSchemaToDto(caller, academy)
               todo == Steps(UseCaseApply, "membership", 0)
    <3>1. dto \in MembershipCreateDTO
      BY OtherDtos
    <3>2. Begin(r, "apply", dto, todo)
      BY <2>2 DEF ControllerApply
    <3> HIDE DEF dto
    <3>3. Planned("apply", dto, UseCaseApply)
      BY UseCasesPlanned
    <3>4. dto \in DtosOf("apply") /\ "apply" \in OnMemberships
      BY <3>1 DEF DtosOf, OnMemberships
    <3>5. todo = Steps(UseCaseApply, TableOf("apply"), 0)
      BY <3>4, Tables
    <3> HIDE DEF todo
    <3> QED BY <3>2, <3>3, <3>4, <3>5, Tables, Beginning
  <2> QED BY <2>1, <2>2, RefusedBody
<1>2. CASE ApproveMembership(r) \/ RejectMembership(r)
  <2>1. \E id \in MembershipIds :
            \/ Begin(r, "approve", Deciding("approved"),
                     Steps(UseCaseApprove, "membership", id))
            \/ Begin(r, "reject", Deciding("rejected"),
                     Steps(UseCaseReject, "membership", id))
    BY <1>2 DEF ApproveMembership, RejectMembership, ControllerApprove, ControllerReject
  <2>2. PICK id \in MembershipIds :
            \/ Begin(r, "approve", Deciding("approved"),
                     Steps(UseCaseApprove, "membership", id))
            \/ Begin(r, "reject", Deciding("rejected"),
                     Steps(UseCaseReject, "membership", id))
    BY <2>1
  <2>3. CASE Begin(r, "approve", Deciding("approved"),
                   Steps(UseCaseApprove, "membership", id))
    <3> DEFINE dto == Deciding("approved")
               todo == Steps(UseCaseApprove, "membership", id)
    <3>1. dto \in StatusDTO
      BY OtherDtos
    <3> HIDE DEF dto
    <3>2. Planned("approve", dto, UseCaseApprove)
      BY UseCasesPlanned
    <3>3. dto \in DtosOf("approve") /\ "approve" \in OnMemberships
      BY <3>1 DEF DtosOf, OnMemberships
    <3>4. todo = Steps(UseCaseApprove, TableOf("approve"), id)
      BY <3>3, Tables
    <3>5. Begin(r, "approve", dto, todo)
      BY <2>3 DEF dto
    <3> HIDE DEF todo
    <3> QED BY <3>2, <3>3, <3>4, <3>5, Tables, Beginning
  <2>4. CASE Begin(r, "reject", Deciding("rejected"),
                   Steps(UseCaseReject, "membership", id))
    <3> DEFINE dto == Deciding("rejected")
               todo == Steps(UseCaseReject, "membership", id)
    <3>1. dto \in StatusDTO
      BY OtherDtos
    <3> HIDE DEF dto
    <3>2. Planned("reject", dto, UseCaseReject)
      BY UseCasesPlanned
    <3>3. dto \in DtosOf("reject") /\ "reject" \in OnMemberships
      BY <3>1 DEF DtosOf, OnMemberships
    <3>4. todo = Steps(UseCaseReject, TableOf("reject"), id)
      BY <3>3, Tables
    <3>5. Begin(r, "reject", dto, todo)
      BY <2>4 DEF dto
    <3> HIDE DEF todo
    <3> QED BY <3>2, <3>3, <3>4, <3>5, Tables, Beginning
  <2> QED BY <2>2, <2>3, <2>4
<1>3. CASE ListMemberships(r)
  <2>1. PICK offset \in {0, Limit}, academy \in AcademyIds :
            ControllerListMembers(r, academy, offset)
    BY <1>3 DEF ListMemberships
  <2> DEFINE dto == MembershipSchemaToDto(Unset, academy)
             todo == Steps(UseCaseListForAcademy, "membership", 0)
  <2>2. dto \in MembershipCreateDTO
    BY OtherDtos
  <2>3. BeginList(r, "listMembers", dto, todo, offset)
    BY <2>1 DEF ControllerListMembers
  <2> HIDE DEF dto
  <2>4. Planned("listMembers", dto, UseCaseListForAcademy)
    BY UseCasesPlanned
  <2>5. dto \in DtosOf("listMembers") /\ "listMembers" \in OnMemberships /\ offset \in Nat
    BY <2>2, Tables DEF DtosOf, OnMemberships
  <2>6. todo = Steps(UseCaseListForAcademy, TableOf("listMembers"), 0)
    BY <2>5, Tables
  <2> HIDE DEF todo
  <2> QED BY <2>3, <2>4, <2>5, <2>6, Tables, Beginning
<1> QED BY <1>1, <1>2, <1>3

\* The same of the operations of the base classes that no endpoint offers.
LEMMA BulkEndpoints ==
    ASSUME Rows, RequestsInv, NEW r \in Requests,
           BulkDeleteAcademies(r) \/ BulkPatchAcademies(r) \/ WalkAcademies(r)
    PROVE  Starts(r)
<1>1. CASE BulkDeleteAcademies(r)
  <2>1. PICK ids \in Keys, fast \in BOOLEAN :
            /\ Ended(r)
            /\ Become(r, [Idle EXCEPT !.op = "bulkDelete", !.rows = PutTogether(ids, fast),
                                      !.todo = BulkDelete(ids, fast)])
            /\ UNCHANGED dbVars
    BY <1>1 DEF BulkDeleteAcademies, ControllerBulkDelete
  <2> DEFINE op == "bulkDelete"
             rows == PutTogether(ids, fast)
             todo == BulkDelete(ids, fast)
             s == [Idle EXCEPT !.op = op, !.rows = rows, !.todo = todo]
  <2>2. rows \in SUBSET AcademyIds
    BY KeysOf
  <2>3. /\ todo \in Seq(StepsAhead) /\ Ahead(op, NoDto, todo)
        /\ Head(todo).do \notin {"save", "count", "reload"}
    <3>1. NoDto \in AcademyPatchDTO /\ NoDto \in DtosOf(op) /\ TableOf(op) = "academy"
      BY OtherDtos DEF DtosOf, OnMemberships, TableOf
    <3>2. CASE fast
      <4>1. todo = Steps(<<"deleteAll">>, TableOf(op), 0)
        BY <3>1, <3>2, Zenon DEF BulkDelete
      <4>2. Planned(op, NoDto, <<"deleteAll">>)
        BY UseCasesPlanned
      <4> HIDE DEF todo, op
      <4> QED BY <3>1, <4>1, <4>2, PlanAhead
    <3>3. CASE ~fast
      <4>1. fast = FALSE
        BY <3>3
      <4> QED BY <3>1, <4>1, BulkAhead
    <3> QED BY <3>2, <3>3
  <2>4. op \in OnAcademies /\ op # "walk"
    BY DEF OnAcademies
  <2>5. Become(r, s)
    BY <2>1
  <2> HIDE DEF op, rows, todo
  <2>6. /\ s \in Request /\ s.op = op /\ s.dto = Idle.dto /\ s.todo = todo
        /\ s.wrote = Idle.wrote /\ s.times = Idle.times
    BY <2>2, <2>3, <2>4, IdleRequest DEF Request
  <2>7. Idle.dto = NoDto
    BY DEF Idle
  <2> HIDE DEF s
  <2> QED BY <2>1, <2>3, <2>4, <2>5, <2>6, <2>7, IdleRequest, Starting
<1>2. CASE BulkPatchAcademies(r)
  <2>1. PICK ids \in Keys, fast \in BOOLEAN, body \in AcademyPatchSchema :
            /\ Ended(r)
            /\ Become(r, [Idle EXCEPT !.op = "bulkPatch", !.rows = PutTogether(ids, fast),
                                      !.dto = body, !.todo = BulkPatch(ids, fast)])
            /\ UNCHANGED dbVars
    BY <1>2 DEF BulkPatchAcademies, ControllerBulkPatch
  <2> DEFINE op == "bulkPatch"
             rows == PutTogether(ids, fast)
             todo == BulkPatch(ids, fast)
             s == [Idle EXCEPT !.op = op, !.rows = rows, !.dto = body, !.todo = todo]
  <2>2. rows \in SUBSET AcademyIds
    BY KeysOf
  <2>3. body \in AcademyPatchDTO
    BY MappedDtos DEF AcademyPatchSchema
  <2>4. /\ todo \in Seq(StepsAhead) /\ Ahead(op, body, todo)
        /\ Head(todo).do \notin {"save", "count", "reload"}
    <3>1. body \in DtosOf(op) /\ TableOf(op) = "academy"
      BY <2>3 DEF DtosOf, OnMemberships, TableOf
    <3>2. CASE fast
      <4>1. todo = Steps(<<"updateAll">>, TableOf(op), 0)
        BY <3>1, <3>2, Zenon DEF BulkPatch
      <4>2. Planned(op, body, <<"updateAll">>)
        BY UseCasesPlanned
      <4> HIDE DEF todo, op
      <4> QED BY <3>1, <4>1, <4>2, PlanAhead
    <3>3. CASE ~fast
      <4>1. fast = FALSE
        BY <3>3
      <4> QED BY <2>3, <3>1, <4>1, BulkAhead
    <3> QED BY <3>2, <3>3
  <2>5. op \in OnAcademies /\ op # "walk"
    BY DEF OnAcademies
  <2>6. Become(r, s)
    BY <2>1
  <2>7. body \in Dtos
    BY <2>3 DEF Dtos
  <2> HIDE DEF op, rows, todo
  <2>8. /\ s \in Request /\ s.op = op /\ s.dto = body /\ s.todo = todo
        /\ s.wrote = Idle.wrote /\ s.times = Idle.times
    BY <2>2, <2>4, <2>5, <2>7, IdleRequest DEF Request
  <2> HIDE DEF s
  <2> QED BY <2>1, <2>4, <2>5, <2>6, <2>8, IdleRequest, Starting
<1>3. CASE WalkAcademies(r)
  <2> DEFINE op == "walk"
             rows == Live("academy")
             todo == Steps(<<"cursorPage">>, "academy", 0)
             s == [Idle EXCEPT !.op = op, !.throughout = rows, !.todo = todo]
  <2>1. Ended(r) /\ Become(r, s) /\ UNCHANGED dbVars
    BY <1>3 DEF WalkAcademies, ControllerWalk
  <2>2. rows \in SUBSET AcademyIds /\ rows = Live("academy")
    BY FinitelyMany
  <2>3. /\ todo \in Seq(StepsAhead) /\ Ahead(op, NoDto, todo)
        /\ Head(todo).do \notin {"save", "count", "reload"}
    <3>1. NoDto \in DtosOf(op) /\ TableOf(op) = "academy"
      BY OtherDtos DEF DtosOf, OnMemberships, TableOf
    <3>2. todo = Steps(<<"cursorPage">>, TableOf(op), 0)
      BY <3>1
    <3>3. Planned(op, NoDto, <<"cursorPage">>)
      BY UseCasesPlanned
    <3> HIDE DEF todo, op
    <3> QED BY <3>1, <3>2, <3>3, Tables, PlanAhead
  <2>4. op \in OnAcademies
    BY DEF OnAcademies
  <2> HIDE DEF op, rows, todo
  <2>5. /\ s \in Request /\ s.op = op /\ s.dto = Idle.dto /\ s.todo = todo
        /\ s.wrote = Idle.wrote /\ s.times = Idle.times
        /\ s.cursor = Idle.cursor /\ s.throughout = rows
    BY <2>2, <2>3, <2>4, IdleRequest DEF Request
  <2>6. Idle.dto = NoDto
    BY DEF Idle
  <2> HIDE DEF s
  <2> QED BY <2>1, <2>2, <2>3, <2>4, <2>5, <2>6, IdleRequest, Starting
<1> QED BY <1>1, <1>2, <1>3

\* Every endpoint.
LEMMA EndpointRequests ==
    ASSUME Rows, RequestsInv, NEW r \in Requests, Endpoint(r)
    PROVE  Starts(r)
BY AcademyEndpoints, MembershipEndpoints, BulkEndpoints DEF Endpoint

-----------------------------------------------------------------------------
(* The tables.                                                             *)

TablesInv == Rows /\ KeysGiven /\ Integrity

\* What no step does: bring back a row, or change a column that no request names.
StaysGone == \A table \in {"academy", "membership"} :
    \A id \in 1..given[table] : tables[table][id] = NoRow => tables'[table][id] = NoRow
NamedOnly == \A a \in Live("academy"), f \in Fields :
    /\ tables'.academy[a] # NoRow
    /\ tables'.academy[a].data[f] # tables.academy[a].data[f]
    => \E r \in Running : f \in DOMAIN req[r].dto.data

\* The academies that stay, when those in `lost` go.
Stays(lost) == \A a \in Live("academy") : a \in Live("academy")' \/ a \in lost

\* No row is taken for one that is missing.
LEMMA NoRowApart == NoRow \notin Academy /\ NoRow \notin Membership
<1>1. DOMAIN NoRow = {"none"}
  BY DEF NoRow
<1>2. \A row \in Academy : "owner" \in DOMAIN row
  BY DEF Academy
<1>3. \A row \in Membership : "user" \in DOMAIN row
  BY DEF Membership
<1> QED BY <1>1, <1>2, <1>3

\* A new academy.
LEMMA AddedAcademy ==
    ASSUME TablesInv, NEW row \in Academy, row.owner \in users,
           given["academy"] + 1 \in DOMAIN tables["academy"],
           given' = [given EXCEPT !["academy"] = given["academy"] + 1],
           tables' = [tables EXCEPT !["academy"][given["academy"] + 1] = row],
           UNCHANGED <<sportsOf, sports, users>>
    PROVE  TablesInv' /\ StaysGone /\ NamedOnly /\ Stays({})
<1> DEFINE id == given.academy + 1
<1>1. /\ given.academy \in 0..MaxAcademies /\ given.membership \in 0..MaxMemberships
      /\ id \in AcademyIds /\ MaxAcademies \in Nat /\ MaxMemberships \in Nat
      /\ DOMAIN tables.academy = AcademyIds /\ DOMAIN tables.membership = MembershipIds
  BY BoundsAssumption DEF TablesInv, Rows
<1>2. /\ tables'.academy = [tables.academy EXCEPT ![id] = row]
      /\ tables'.membership = tables.membership
      /\ tables' = [academy |-> tables'.academy, membership |-> tables'.membership]
  BY <1>1 DEF TablesInv, Rows
<1>3. /\ given'.academy = id /\ given'.membership = given.membership
      /\ given' = [academy |-> id, membership |-> given.membership]
  BY DEF TablesInv, Rows
<1> HIDE DEF id
<1>4. row # NoRow /\ tables.academy[id] = NoRow
  <2>1. ~(id <= given.academy)
    BY <1>1 DEF id
  <2> QED BY <1>1, <2>1, NoRowApart DEF TablesInv, KeysGiven, Live
<1>5. /\ Live("academy")' = Live("academy") \union {id}
      /\ Live("membership")' = Live("membership")
  BY <1>1, <1>2, <1>4 DEF Live
<1>6. Rows'
  <2>1. tables'.academy \in [AcademyIds -> Academy \union {NoRow}]
    BY <1>2 DEF TablesInv, Rows
  <2>2. tables' \in [academy : [AcademyIds -> Academy \union {NoRow}],
                     membership : [MembershipIds -> Membership \union {NoRow}]]
    BY <1>2, <2>1 DEF TablesInv, Rows
  <2>3. id \in 0..MaxAcademies
    BY <1>1 DEF AcademyIds
  <2>4. given' \in [academy : 0..MaxAcademies, membership : 0..MaxMemberships]
    BY <1>1, <1>3, <2>3
  <2> QED BY <2>2, <2>4 DEF TablesInv, Rows
<1>7. KeysGiven'
  <2>1. \A a \in Live("academy")' : a <= id
    BY <1>1, <1>5 DEF TablesInv, KeysGiven, id, Live, AcademyIds
  <2> QED BY <1>3, <1>5, <2>1 DEF TablesInv, KeysGiven
<1>8. Integrity'
  <2>1. /\ \A a \in Live("academy")' : tables'.academy[a].owner \in users'
        /\ \A m \in Live("membership")' : /\ tables'.membership[m].user \in users'
                                          /\ tables'.membership[m].academy \in Live("academy")'
        /\ \A a \in AcademyIds : /\ sportsOf'[a] \subseteq sports'
                                 /\ sportsOf'[a] # {} => a \in Live("academy")'
    BY <1>1, <1>2, <1>5 DEF TablesInv, Integrity, References, Live
  <2> QED BY <1>2, <1>5, <2>1 DEF TablesInv, Integrity, References, OneMembership
<1>9. StaysGone
  <2>1. \A a \in 1..given.academy : a # id
    BY <1>1 DEF id
  <2> QED BY <1>2, <2>1 DEF StaysGone
<1>10. NamedOnly
  <2>1. \A a \in Live("academy") : a # id
    BY <1>4 DEF Live
  <2> QED BY <1>2, <2>1 DEF NamedOnly
<1>11. Stays({})
  BY <1>5 DEF Stays
<1> QED BY <1>6, <1>7, <1>8, <1>9, <1>10, <1>11 DEF TablesInv

\* A new membership, of a user and an academy that exist and share none.
LEMMA AddedMembership ==
    ASSUME TablesInv, NEW row \in Membership, row.user \in users,
           row.academy \in Live("academy"), UniqueTogether(row.user, row.academy),
           given["membership"] + 1 \in DOMAIN tables["membership"],
           given' = [given EXCEPT !["membership"] = given["membership"] + 1],
           tables' = [tables EXCEPT !["membership"][given["membership"] + 1] = row],
           UNCHANGED <<sportsOf, sports, users>>
    PROVE  TablesInv' /\ StaysGone /\ NamedOnly /\ Stays({})
<1> DEFINE id == given.membership + 1
<1>1. /\ given.academy \in 0..MaxAcademies /\ given.membership \in 0..MaxMemberships
      /\ id \in MembershipIds /\ MaxAcademies \in Nat /\ MaxMemberships \in Nat
      /\ DOMAIN tables.academy = AcademyIds /\ DOMAIN tables.membership = MembershipIds
  BY BoundsAssumption DEF TablesInv, Rows
<1>2. /\ tables'.membership = [tables.membership EXCEPT ![id] = row]
      /\ tables'.academy = tables.academy
      /\ tables' = [academy |-> tables'.academy, membership |-> tables'.membership]
  BY <1>1 DEF TablesInv, Rows
<1>3. /\ given'.membership = id /\ given'.academy = given.academy
      /\ given' = [academy |-> given.academy, membership |-> id]
  BY DEF TablesInv, Rows
<1> HIDE DEF id
<1>4. row # NoRow /\ tables.membership[id] = NoRow
  <2>1. ~(id <= given.membership)
    BY <1>1 DEF id
  <2> QED BY <1>1, <2>1, NoRowApart DEF TablesInv, KeysGiven, Live
<1>5. /\ Live("membership")' = Live("membership") \union {id}
      /\ Live("academy")' = Live("academy") /\ id \notin Live("membership")
  BY <1>1, <1>2, <1>4 DEF Live
<1>6. Rows'
  <2>1. tables'.membership \in [MembershipIds -> Membership \union {NoRow}]
    BY <1>2 DEF TablesInv, Rows
  <2>2. tables' \in [academy : [AcademyIds -> Academy \union {NoRow}],
                     membership : [MembershipIds -> Membership \union {NoRow}]]
    BY <1>2, <2>1 DEF TablesInv, Rows
  <2>3. id \in 0..MaxMemberships
    BY <1>1 DEF MembershipIds
  <2>4. given' \in [academy : 0..MaxAcademies, membership : 0..MaxMemberships]
    BY <1>1, <1>3, <2>3
  <2> QED BY <2>2, <2>4 DEF TablesInv, Rows
<1>7. KeysGiven'
  <2>1. \A m \in Live("membership")' : m <= id
    BY <1>1, <1>5 DEF TablesInv, KeysGiven, id, Live, MembershipIds
  <2> QED BY <1>3, <1>5, <2>1 DEF TablesInv, KeysGiven
<1>8. Integrity'
  <2>1. /\ tables'.membership[id] = row
        /\ \A m \in Live("membership") : tables'.membership[m] = tables.membership[m]
    BY <1>1, <1>2, <1>5 DEF Live
  <2>2. References'
    BY <1>2, <1>5, <2>1 DEF TablesInv, Integrity, References
  <2>3. \A m \in Live("membership") : ~ /\ tables'.membership[m].user = row.user
                                        /\ tables'.membership[m].academy = row.academy
    BY <2>1 DEF UniqueTogether
  <2>4. OneMembership'
    BY <1>5, <2>1, <2>3 DEF TablesInv, Integrity, OneMembership
  <2> QED BY <2>2, <2>4 DEF Integrity
<1>9. StaysGone
  <2>1. \A m \in 1..given.membership : m # id
    BY <1>1 DEF id
  <2> QED BY <1>2, <2>1 DEF StaysGone
<1>10. NamedOnly /\ Stays({})
  BY <1>2, <1>5 DEF NamedOnly, Stays
<1> QED BY <1>6, <1>7, <1>8, <1>9, <1>10 DEF TablesInv

\* Academies go, with their memberships and their sports.
LEMMA RowsDeleted ==
    ASSUME TablesInv, NEW ids, DeleteRows(ids)
    PROVE  TablesInv' /\ StaysGone /\ NamedOnly /\ Stays(ids)
<1>1. /\ DOMAIN tables.academy = AcademyIds /\ DOMAIN tables.membership = MembershipIds
      /\ tables.academy \in [AcademyIds -> Academy \union {NoRow}]
      /\ tables.membership \in [MembershipIds -> Membership \union {NoRow}]
  BY DEF TablesInv, Rows
<1>2. /\ tables'.academy = [a \in AcademyIds |-> IF a \in ids THEN NoRow
                                                 ELSE tables.academy[a]]
      /\ tables'.membership = [m \in MembershipIds |-> IF m \in MembershipsOf(ids) THEN NoRow
                                                       ELSE tables.membership[m]]
      /\ tables' = [academy |-> tables'.academy, membership |-> tables'.membership]
      /\ sportsOf' = [a \in AcademyIds |-> IF a \in ids THEN {} ELSE sportsOf[a]]
      /\ UNCHANGED <<sports, users, given>>
  BY DEF DeleteRows
<1>3. /\ Live("academy")' = Live("academy") \ ids
      /\ Live("membership")' = Live("membership") \ MembershipsOf(ids)
  BY <1>1, <1>2 DEF Live
<1>4. Rows'
  <2>1. /\ tables'.academy \in [AcademyIds -> Academy \union {NoRow}]
        /\ tables'.membership \in [MembershipIds -> Membership \union {NoRow}]
        /\ sportsOf' \in [AcademyIds -> SUBSET SportIds]
    BY <1>1, <1>2 DEF TablesInv, Rows
  <2> QED BY <1>2, <2>1 DEF TablesInv, Rows
<1>5. KeysGiven'
  BY <1>2, <1>3 DEF TablesInv, KeysGiven
<1>6. Integrity'
  <2>1. \A a \in Live("academy")' : /\ tables'.academy[a] = tables.academy[a]
                                    /\ a \in Live("academy") /\ a \notin ids
    BY <1>1, <1>2, <1>3 DEF Live
  <2>2. \A m \in Live("membership")' :
           /\ tables'.membership[m] = tables.membership[m] /\ m \in Live("membership")
           /\ tables.membership[m].academy \notin ids
    BY <1>1, <1>2, <1>3 DEF Live, MembershipsOf
  <2>3. \A a \in AcademyIds : /\ sportsOf'[a] \subseteq sports'
                              /\ sportsOf'[a] # {} => a \in Live("academy")'
    BY <1>2, <1>3 DEF TablesInv, Integrity, References
  <2>4. References'
    BY <1>2, <1>3, <2>1, <2>2, <2>3 DEF TablesInv, Integrity, References
  <2>5. OneMembership'
    BY <2>2 DEF TablesInv, Integrity, OneMembership
  <2> QED BY <2>4, <2>5 DEF Integrity
<1>7. StaysGone
  <2>1. given.academy <= MaxAcademies /\ given.membership <= MaxMemberships
    BY DEF TablesInv, Rows
  <2>2. 1..given.academy \subseteq AcademyIds /\ 1..given.membership \subseteq MembershipIds
    BY <2>1, BoundsAssumption DEF TablesInv, Rows, AcademyIds, MembershipIds
  <2> QED BY <1>2, <2>2 DEF StaysGone
<1>8. NamedOnly
  BY <1>1, <1>2 DEF NamedOnly, Live
<1>9. Stays(ids)
  BY <1>3 DEF Stays
<1> QED BY <1>4, <1>5, <1>6, <1>7, <1>8, <1>9 DEF TablesInv

\* A membership goes with its user; a user who owns an academy stays.
LEMMA UserDeleted ==
    ASSUME TablesInv, NEW u \in Users, AdminDeleteUser(u)
    PROVE  TablesInv' /\ StaysGone /\ NamedOnly /\ Stays({})
<1> DEFINE gone == {m \in Live("membership") : tables.membership[m].user = u}
<1>1. /\ DOMAIN tables.academy = AcademyIds /\ DOMAIN tables.membership = MembershipIds
      /\ tables.academy \in [AcademyIds -> Academy \union {NoRow}]
      /\ tables.membership \in [MembershipIds -> Membership \union {NoRow}]
  BY DEF TablesInv, Rows
<1>2. /\ tables'.academy = tables.academy
      /\ tables'.membership = [m \in MembershipIds |-> IF m \in gone THEN NoRow
                                                       ELSE tables.membership[m]]
      /\ tables' = [academy |-> tables'.academy, membership |-> tables'.membership]
  BY DEF AdminDeleteUser, TablesInv, Rows
<1>3. /\ users' = users \ {u} /\ UNCHANGED <<sportsOf, sports, given>>
      /\ \A a \in Live("academy") : tables.academy[a].owner # u
  BY DEF AdminDeleteUser
<1>4. Live("academy")' = Live("academy") /\ Live("membership")' = Live("membership") \ gone
  BY <1>1, <1>2 DEF Live
<1>5. Rows'
  <2>1. tables'.membership \in [MembershipIds -> Membership \union {NoRow}]
    BY <1>1, <1>2
  <2> QED BY <1>1, <1>2, <1>3, <2>1 DEF TablesInv, Rows
<1>6. KeysGiven'
  BY <1>3, <1>4 DEF TablesInv, KeysGiven
<1>7. Integrity'
  <2>1. \A m \in Live("membership")' :
           /\ tables'.membership[m] = tables.membership[m] /\ m \in Live("membership")
           /\ tables.membership[m].user # u
    BY <1>1, <1>2, <1>4 DEF Live
  <2>2. References'
    BY <1>2, <1>3, <1>4, <2>1 DEF TablesInv, Integrity, References
  <2>3. OneMembership'
    BY <2>1 DEF TablesInv, Integrity, OneMembership
  <2> QED BY <2>2, <2>3 DEF Integrity
<1>8. StaysGone
  <2>1. given.membership <= MaxMemberships
    BY DEF TablesInv, Rows
  <2>2. 1..given.membership \subseteq MembershipIds
    BY <2>1, BoundsAssumption DEF TablesInv, Rows, MembershipIds
  <2> QED BY <1>2, <2>2 DEF StaysGone
<1>9. NamedOnly /\ Stays({})
  BY <1>2, <1>4 DEF NamedOnly, Stays
<1> QED BY <1>5, <1>6, <1>7, <1>8, <1>9 DEF TablesInv

\* Sports are set, or one is deleted.
LEMMA SportsChanged ==
    ASSUME TablesInv, UNCHANGED <<tables, users, given>>,
           sportsOf' \in [AcademyIds -> SUBSET SportIds], sports' \subseteq SportIds,
           \A a \in AcademyIds : /\ sportsOf'[a] \subseteq sports'
                                 /\ sportsOf'[a] # {} => a \in Live("academy")
    PROVE  TablesInv' /\ StaysGone /\ NamedOnly /\ Stays({})
<1>1. Live("academy")' = Live("academy") /\ Live("membership")' = Live("membership")
  BY DEF Live
<1>2. Rows' /\ KeysGiven'
  BY <1>1 DEF TablesInv, Rows, KeysGiven
<1>3. References'
  BY <1>1 DEF TablesInv, Integrity, References
<1>4. OneMembership'
  BY <1>1 DEF TablesInv, Integrity, OneMembership
<1>5. StaysGone /\ NamedOnly /\ Stays({})
  BY <1>1 DEF StaysGone, NamedOnly, Stays
<1> QED BY <1>2, <1>3, <1>4, <1>5 DEF TablesInv, Integrity

\* Nothing is written.
LEMMA TablesUnchanged ==
    ASSUME TablesInv, UNCHANGED dbVars
    PROVE  TablesInv' /\ StaysGone /\ NamedOnly /\ Stays({})
<1>1. \A a \in AcademyIds : /\ sportsOf[a] \subseteq sports
                            /\ sportsOf[a] # {} => a \in Live("academy")
  BY DEF TablesInv, Integrity, References
<1>2. sportsOf \in [AcademyIds -> SUBSET SportIds] /\ sports \subseteq SportIds
  BY DEF TablesInv, Rows
<1>3. /\ UNCHANGED <<tables, users, given>>
      /\ sportsOf' \in [AcademyIds -> SUBSET SportIds] /\ sports' \subseteq SportIds
      /\ \A a \in AcademyIds : /\ sportsOf'[a] \subseteq sports'
                               /\ sportsOf'[a] # {} => a \in Live("academy")
  BY <1>1, <1>2 DEF dbVars
<1> QED BY <1>3, SportsChanged

\* Rows are rewritten, in columns that the request names.
LEMMA RowsRewritten ==
    ASSUME TablesInv, UNCHANGED <<sportsOf, sports, users, given>>, NEW r \in Running,
           tables' \in [academy : [AcademyIds -> Academy \union {NoRow}],
                        membership : [MembershipIds -> Membership \union {NoRow}]],
           \A a \in AcademyIds : \/ tables'.academy[a] = tables.academy[a]
                                 \/ /\ a \in Live("academy") /\ tables'.academy[a] \in Academy
                                    /\ tables'.academy[a].owner = tables.academy[a].owner
                                    /\ \A f \in Fields \ DOMAIN req[r].dto.data :
                                          tables'.academy[a].data[f] = tables.academy[a].data[f],
           \A m \in MembershipIds :
               \/ tables'.membership[m] = tables.membership[m]
               \/ /\ m \in Live("membership") /\ tables'.membership[m] \in Membership
                  /\ tables'.membership[m].user = tables.membership[m].user
                  /\ tables'.membership[m].academy = tables.membership[m].academy
    PROVE  TablesInv' /\ StaysGone /\ NamedOnly /\ Stays({})
<1>1. /\ DOMAIN tables.academy = AcademyIds /\ DOMAIN tables.membership = MembershipIds
      /\ DOMAIN tables'.academy = AcademyIds /\ DOMAIN tables'.membership = MembershipIds
  BY DEF TablesInv, Rows
<1>2. Live("academy")' = Live("academy") /\ Live("membership")' = Live("membership")
  BY <1>1, NoRowApart DEF Live
<1>3. Rows' /\ KeysGiven'
  BY <1>2 DEF TablesInv, Rows, KeysGiven
<1>4. /\ \A a \in Live("academy") : tables'.academy[a].owner = tables.academy[a].owner
      /\ \A m \in Live("membership") :
            /\ tables'.membership[m].user = tables.membership[m].user
            /\ tables'.membership[m].academy = tables.membership[m].academy
  BY <1>1 DEF Live
<1>5. References'
  BY <1>2, <1>4 DEF TablesInv, Integrity, References
<1>6. OneMembership'
  BY <1>2, <1>4 DEF TablesInv, Integrity, OneMembership
<1>7. StaysGone
  <2>1. 1..given.academy \subseteq AcademyIds /\ 1..given.membership \subseteq MembershipIds
    BY BoundsAssumption DEF TablesInv, Rows, AcademyIds, MembershipIds
  <2> QED BY <1>1, <2>1 DEF StaysGone, Live
<1>8. NamedOnly
  BY <1>1 DEF NamedOnly, Live
<1>9. Stays({})
  BY <1>2 DEF Stays
<1> QED BY <1>3, <1>5, <1>6, <1>7, <1>8, <1>9 DEF TablesInv, Integrity

\* What an update makes of a row.
Rewrite(row, changes) == [row EXCEPT !.data = Assign(row.data, changes)]

\* It keeps the row well formed, its references and the columns not named.
LEMMA RewrittenRow ==
    ASSUME NEW row, NEW changes, NEW new, new = Rewrite(row, changes)
    PROVE  /\ row \in Academy /\ changes \in Partial(Values) =>
                 /\ new \in Academy /\ new.owner = row.owner
                 /\ \A f \in Fields \ DOMAIN changes : new.data[f] = row.data[f]
           /\ row \in Membership /\ changes \in [status : Statuses] =>
                 new \in Membership /\ new.user = row.user /\ new.academy = row.academy
<1> DEFINE data == Assign(row.data, changes)
<1>1. ASSUME row \in Academy, changes \in Partial(Values)
      PROVE  /\ new \in Academy /\ new.owner = row.owner
             /\ \A f \in Fields \ DOMAIN changes : new.data[f] = row.data[f]
  <2>1. data \in [Fields -> Values]
    BY <1>1, Assigned DEF Academy
  <2>2. \A f \in Fields \ DOMAIN changes : data[f] = row.data[f]
    BY <1>1 DEF Academy, Assign
  <2> HIDE DEF data
  <2>3. new = [row EXCEPT !.data = data]
    BY DEF data, Rewrite
  <2> QED BY <1>1, <2>1, <2>2, <2>3 DEF Academy
<1>2. ASSUME row \in Membership, changes \in [status : Statuses]
      PROVE  new \in Membership /\ new.user = row.user /\ new.academy = row.academy
  <2>1. data \in [status : Statuses]
    BY <1>2, Assigned DEF Membership
  <2>2. new = [row EXCEPT !.data = data]
    BY DEF Rewrite
  <2> HIDE DEF data
  <2> QED BY <1>2, <2>1, <2>2 DEF Membership
<1> QED BY <1>1, <1>2

\* asave(update_fields=...) of one row.
LEMMA SavedRow ==
    ASSUME TablesInv, RequestsInv, NEW r \in Requests, Save(r)
    PROVE  TablesInv' /\ StaysGone /\ NamedOnly /\ Stays({})
<1> DEFINE table == Table(r)
           id == Target(r)
           changes == req[r].dto.data
           new == Rewrite(tables[table][id], changes)
<1>1. At(r, "save") /\ ~Ended(r)
  BY DEF Save, At
<1>2. CASE id \notin Live(table)
  <2>1. UNCHANGED dbVars
    BY <1>2 DEF Save, Fail
  <2> QED BY <2>1, TablesUnchanged
<1>3. CASE id \in Live(table)
  <2>1. /\ tables' = [tables EXCEPT ![table][id].data =
                          Assign(tables[table][id].data, changes)]
        /\ UNCHANGED <<sportsOf, sports, users, given>>
    BY <1>3 DEF Save
  <2>2. /\ table = TableOf(req[r].op) /\ req[r].dto \in DtosOf(req[r].op)
        /\ table \in {"academy", "membership"}
    BY <1>1, FirstStep DEF TableOf
  <2>3. /\ table = "academy" => changes \in Partial(Values)
        /\ table = "membership" => changes \in [status : Statuses]
    BY <2>2, DtoUses DEF TableOf
  <2>4. /\ table = "academy" => id \in AcademyIds /\ tables.academy[id] \in Academy
        /\ table = "membership" =>
              id \in MembershipIds /\ tables.membership[id] \in Membership
    BY <1>3, <2>2, RowOf DEF TablesInv
  <2>5. tables' = [tables EXCEPT ![table] = [tables[table] EXCEPT ![id] = new]]
    BY <2>1 DEF Rewrite
  <2>6. /\ tables[table][id] \in Academy /\ changes \in Partial(Values) =>
              /\ new \in Academy /\ new.owner = tables[table][id].owner
              /\ \A f \in Fields \ DOMAIN changes : new.data[f] = tables[table][id].data[f]
        /\ tables[table][id] \in Membership /\ changes \in [status : Statuses] =>
              /\ new \in Membership /\ new.user = tables[table][id].user
              /\ new.academy = tables[table][id].academy
    BY RewrittenRow
  <2> HIDE DEF new
  <2>7. r \in Running
    BY <1>1 DEF Running
  <2>8. CASE table = "academy"
    <3>1. /\ tables'.academy = [tables.academy EXCEPT ![id] = new]
          /\ tables'.membership = tables.membership
          /\ tables' = [academy |-> tables'.academy, membership |-> tables'.membership]
      BY <2>5, <2>8 DEF TablesInv, Rows
    <3>2. /\ new \in Academy /\ new.owner = tables.academy[id].owner
          /\ \A f \in Fields \ DOMAIN changes : new.data[f] = tables.academy[id].data[f]
      BY <2>3, <2>4, <2>6, <2>8
    <3>3. tables' \in [academy : [AcademyIds -> Academy \union {NoRow}],
                       membership : [MembershipIds -> Membership \union {NoRow}]]
      <4>1. tables'.academy \in [AcademyIds -> Academy \union {NoRow}]
        BY <3>1, <3>2 DEF TablesInv, Rows
      <4> QED BY <3>1, <4>1 DEF TablesInv, Rows
    <3>4. \A a \in AcademyIds : tables'.academy[a] = IF a = id THEN new ELSE tables.academy[a]
      BY <3>1 DEF TablesInv, Rows
    <3>5. id \in Live("academy")
      BY <1>3, <2>8
    <3>6. \A a \in AcademyIds : \/ tables'.academy[a] = tables.academy[a]
                                \/ /\ a \in Live("academy") /\ tables'.academy[a] \in Academy
                                   /\ tables'.academy[a].owner = tables.academy[a].owner
                                   /\ \A f \in Fields \ DOMAIN req[r].dto.data :
                                         tables'.academy[a].data[f] = tables.academy[a].data[f]
      BY <3>2, <3>4, <3>5
    <3> HIDE DEF table, id, changes
    <3> QED BY <2>1, <2>7, <3>1, <3>3, <3>6, RowsRewritten
  <2>9. CASE table = "membership"
    <3>1. /\ tables'.membership = [tables.membership EXCEPT ![id] = new]
          /\ tables'.academy = tables.academy
          /\ tables' = [academy |-> tables'.academy, membership |-> tables'.membership]
      BY <2>5, <2>9 DEF TablesInv, Rows
    <3>2. /\ new \in Membership /\ new.user = tables.membership[id].user
          /\ new.academy = tables.membership[id].academy
      BY <2>3, <2>4, <2>6, <2>9
    <3>3. tables' \in [academy : [AcademyIds -> Academy \union {NoRow}],
                       membership : [MembershipIds -> Membership \union {NoRow}]]
      <4>1. tables'.membership \in [MembershipIds -> Membership \union {NoRow}]
        BY <3>1, <3>2 DEF TablesInv, Rows
      <4> QED BY <3>1, <4>1 DEF TablesInv, Rows
    <3>4. \A m \in MembershipIds :
              tables'.membership[m] = IF m = id THEN new ELSE tables.membership[m]
      BY <3>1 DEF TablesInv, Rows
    <3>5. id \in Live("membership")
      BY <1>3, <2>9
    <3>6. \A m \in MembershipIds :
              \/ tables'.membership[m] = tables.membership[m]
              \/ /\ m \in Live("membership") /\ tables'.membership[m] \in Membership
                 /\ tables'.membership[m].user = tables.membership[m].user
                 /\ tables'.membership[m].academy = tables.membership[m].academy
      BY <3>2, <3>4, <3>5
    <3> HIDE DEF table, id, changes
    <3> QED BY <2>1, <2>7, <3>1, <3>3, <3>6, RowsRewritten
  <2> QED BY <2>2, <2>8, <2>9
<1> QED BY <1>2, <1>3

\* The one UPDATE of bulk_patch().
LEMMA UpdatedRows ==
    ASSUME TablesInv, RequestsInv, NEW r \in Requests, UpdateAll(r)
    PROVE  TablesInv' /\ StaysGone /\ NamedOnly /\ Stays({})
<1> DEFINE matched == req[r].rows \intersect Live("academy")
           changes == req[r].dto.data
           rewritten == [a \in AcademyIds |->
               IF a \in matched
               THEN Rewrite(tables.academy[a], changes)
               ELSE tables.academy[a]]
<1>1. At(r, "updateAll") /\ ~Ended(r) /\ r \in Running
  BY DEF UpdateAll, At, Running
<1>2. /\ tables' = [tables EXCEPT !.academy = rewritten]
      /\ UNCHANGED <<sportsOf, sports, users, given>>
  BY DEF UpdateAll, Rewrite
<1>3. req[r].op \notin OnMemberships
  <2>1. /\ AheadAt(req[r].op, req[r].dto, req[r].todo, 1)
        /\ Head(req[r].todo) = req[r].todo[1] /\ Head(req[r].todo).do = "updateAll"
    BY <1>1, FirstStep DEF At
  <2> QED BY <2>1 DEF AheadAt, TableOf
<1>4. changes \in Partial(Values)
  BY <1>1, <1>3, FirstStep, DtoUses
<1>5. ASSUME NEW a \in matched
      PROVE  LET new == Rewrite(tables.academy[a], changes) IN
             /\ new \in Academy /\ new.owner = tables.academy[a].owner
             /\ \A f \in Fields \ DOMAIN changes :
                   new.data[f] = tables.academy[a].data[f]
  <2>1. tables.academy[a] \in Academy
    BY RowOf DEF TablesInv
  <2> QED BY <1>4, <2>1, RewrittenRow
<1>6. ASSUME NEW a \in AcademyIds
      PROVE  \/ rewritten[a] = tables.academy[a]
             \/ /\ a \in Live("academy") /\ rewritten[a] \in Academy
                /\ rewritten[a].owner = tables.academy[a].owner
                /\ \A f \in Fields \ DOMAIN req[r].dto.data :
                      rewritten[a].data[f] = tables.academy[a].data[f]
  <2>1. CASE a \in matched
    <3> DEFINE new == Rewrite(tables.academy[a], changes)
    <3>1. rewritten[a] = new /\ a \in Live("academy")
      BY <2>1
    <3> QED BY <1>5, <2>1, <3>1
  <2>2. CASE a \notin matched
    <3>1. rewritten[a] = tables.academy[a]
      BY <2>2
    <3> QED BY <3>1
  <2> QED BY <2>1, <2>2
<1>7. DOMAIN rewritten = AcademyIds /\ rewritten = [a \in AcademyIds |-> rewritten[a]]
  OBVIOUS
<1> HIDE DEF rewritten, matched, changes
<1>8. /\ tables'.academy = rewritten /\ tables'.membership = tables.membership
      /\ tables' = [academy |-> rewritten, membership |-> tables.membership]
  BY <1>2 DEF TablesInv, Rows
<1>9. \A a \in AcademyIds : rewritten[a] \in Academy \union {NoRow}
  BY <1>6 DEF TablesInv, Rows
<1>10. rewritten \in [AcademyIds -> Academy \union {NoRow}]
  BY <1>7, <1>9
<1>11. tables' \in [academy : [AcademyIds -> Academy \union {NoRow}],
                    membership : [MembershipIds -> Membership \union {NoRow}]]
  BY <1>8, <1>10 DEF TablesInv, Rows
<1> QED BY <1>1, <1>2, <1>6, <1>8, <1>11, RowsRewritten

-----------------------------------------------------------------------------
(* The steps.                                                              *)

Inv == TablesInv /\ RequestsInv /\ SportsInv /\ WalkInv

\* A step of request r answers no other request.
OthersGoOn(r) == \A q \in Requests \ {r} : req'[q].todo = req[q].todo

\* What the other requests have learned of the sports and the rows stays true.
LEMMA OthersSports ==
    ASSUME SportsInv, NEW r,
           \/ OthersKept(r) /\ UNCHANGED sportsOf
           \/ \E lost : OthersLose(r, lost),
           NEW q \in Requests \ {r}
    PROVE  SportsKept(req[q])' /\ req'[q].todo = req[q].todo
<1>1. SportsKept(req[q])
  BY DEF SportsInv
<1>2. CASE OthersKept(r) /\ UNCHANGED sportsOf
  BY <1>1, <1>2 DEF OthersKept, Other, SportsKept
<1>3. CASE \E lost : OthersLose(r, lost)
  <2>1. /\ req'[q].dto = req[q].dto /\ req'[q].op = req[q].op
        /\ req'[q].disturbed = (req[q].dto.sports # Unset)
        /\ req'[q].todo = req[q].todo
    BY <1>3 DEF OthersLose, Other
  <2> QED BY <2>1 DEF SportsKept, SetsSports
<1> QED BY <1>2, <1>3

\* What the other walks have shown, and have to show, stays true.
LEMMA OthersWalk ==
    ASSUME WalkInv, NEW r, NEW lost, Stays(lost),
           (OthersKept(r) /\ lost = {}) \/ OthersLose(r, lost),
           NEW q \in Requests \ {r}
    PROVE  Walked(req[q])'
<1>1. Walked(req[q])
  BY DEF WalkInv
<1>2. /\ req'[q].op = req[q].op /\ req'[q].cursor = req[q].cursor
      /\ req'[q].times = req[q].times
      /\ req'[q].throughout = req[q].throughout \ lost
  BY DEF OthersKept, OthersLose, Other
<1> QED BY <1>1, <1>2 DEF Walked, Stays

\* What a step does to the request that takes it.
LEMMA ActorKept ==
    ASSUME RequestsInv, NEW r \in Requests, ~Ended(r), Outcome(r),
           Head(req[r].todo).do # "cursorPage"
    PROVE  /\ Walked(req[r])'
           /\ Head(req[r].todo).do # "setSports" => SportsKept(req[r])'
<1>1. req[r].op # "walk"
  <2>1. /\ AheadAt(req[r].op, req[r].dto, req[r].todo, 1)
        /\ Head(req[r].todo) = req[r].todo[1]
    BY FirstStep
  <2> QED BY <2>1 DEF AheadAt
<1>2. Over(req'[r]) \/ Continues(req[r], req'[r])
  BY DEF Outcome, Refused, Done
<1>3. req'[r].op # "walk"
  BY <1>1, <1>2 DEF Over, Continues
<1>4. Walked(req[r])'
  BY <1>3 DEF Walked
<1>5. Head(req[r].todo).do # "setSports" => SportsKept(req[r])'
  BY <1>2 DEF Over, Continues, SportsKept
<1> QED BY <1>4, <1>5

\* What all steps of a request establish.
Stepped(r) ==
    /\ Inv' /\ StaysGone /\ NamedOnly /\ OthersGoOn(r)
    /\ r \in Running => Outcome(r)

\* What a step of r does to the tables, to r and to the others, put together.
LEMMA Assembled ==
    ASSUME TablesInv', StaysGone, NamedOnly, RequestsInv', SportsInv, WalkInv,
           NEW r \in Requests, r \in Running => Outcome(r),
           SportsKept(req[r])', Walked(req[r])', NEW lost, Stays(lost),
           \/ OthersKept(r) /\ UNCHANGED sportsOf /\ lost = {}
           \/ OthersLose(r, lost)
    PROVE  Stepped(r)
<1>1. \A q \in Requests \ {r} : SportsKept(req[q])' /\ req'[q].todo = req[q].todo
  BY OthersSports
<1>2. \A q \in Requests \ {r} : Walked(req[q])'
  BY OthersWalk
<1> QED BY <1>1, <1>2 DEF Stepped, Inv, SportsInv, WalkInv, OthersGoOn

\* An endpoint.
LEMMA EndpointStep ==
    ASSUME Inv, NEW r \in Requests, Endpoint(r)
    PROVE  Stepped(r)
<1>1. Starts(r)
  BY EndpointRequests DEF Inv, TablesInv
<1>2. /\ Ended(r) /\ RequestsInv' /\ OthersKept(r) /\ UNCHANGED dbVars /\ Walked(req'[r])
      /\ req'[r].todo # <<>> => Head(req'[r].todo).do # "reload"
  BY <1>1 DEF Starts
<1>3. TablesInv' /\ StaysGone /\ NamedOnly /\ Stays({})
  BY <1>2, TablesUnchanged DEF Inv
<1>4. SportsKept(req[r])'
  BY <1>2 DEF SportsKept
<1>5. Walked(req[r])'
  BY <1>2 DEF Walked, Live, dbVars
<1>6. r \notin Running /\ UNCHANGED sportsOf
  BY <1>2 DEF Running, dbVars
<1> QED BY <1>2, <1>3, <1>4, <1>5, <1>6, Assembled DEF Inv

\* A query that leaves the tables alone or changes them without losing an academy.
LEMMA PlainStep ==
    ASSUME Inv, NEW r \in Requests, ~Ended(r), RequestsInv', OthersKept(r), Outcome(r),
           UNCHANGED sportsOf, TablesInv', StaysGone, NamedOnly, Stays({}),
           Head(req[r].todo).do \notin {"cursorPage", "setSports"}
    PROVE  Stepped(r)
<1>1. Walked(req[r])' /\ SportsKept(req[r])'
  BY ActorKept DEF Inv
<1> QED BY <1>1, Assembled DEF Inv

\* The queries that only read.
LEMMA ReadStep ==
    ASSUME Inv, NEW r \in Requests,
           \/ GetOrRaise(r) \/ ExistingSportIds(r) \/ LoadForSports(r) \/ Reload(r)
           \/ Load(r) \/ Page(r) \/ Count(r)
    PROVE  Stepped(r)
<1>1. RequestsInv' /\ OthersKept(r) /\ Outcome(r) /\ UNCHANGED dbVars
  BY ReadRequests, LoadRequests, PageRequests, CountRequests DEF Inv, TablesInv
<1>2. /\ ~Ended(r)
      /\ Head(req[r].todo).do \notin {"cursorPage", "setSports"}
  BY DEF GetOrRaise, ExistingSportIds, LoadForSports, Reload, Load, Page, Count, At
<1>3. TablesInv' /\ StaysGone /\ NamedOnly /\ Stays({})
  BY <1>1, TablesUnchanged DEF Inv
<1>4. UNCHANGED sportsOf
  BY <1>1 DEF dbVars
<1> QED BY <1>1, <1>2, <1>3, <1>4, PlainStep

\* The two inserts.
LEMMA InsertStep ==
    ASSUME Inv, NEW r \in Requests, InsertAcademy(r) \/ InsertMembership(r)
    PROVE  Stepped(r)
<1>1. RequestsInv' /\ OthersKept(r) /\ Outcome(r)
  BY InsertRequests DEF Inv, TablesInv
<1>2. ~Ended(r) /\ Head(req[r].todo).do \notin {"cursorPage", "setSports"}
  BY DEF InsertAcademy, InsertMembership, At
<1>3. TablesInv' /\ StaysGone /\ NamedOnly /\ Stays({}) /\ UNCHANGED sportsOf
  <2>1. CASE UNCHANGED dbVars
    BY <2>1, TablesUnchanged DEF Inv, dbVars
  <2>2. ASSUME NEW row \in Academy, Create(r, "academy", row), row.owner \in users
        PROVE  TablesInv' /\ StaysGone /\ NamedOnly /\ Stays({}) /\ UNCHANGED sportsOf
    <3>1. /\ given["academy"] + 1 \in DOMAIN tables["academy"]
          /\ given' = [given EXCEPT !["academy"] = given["academy"] + 1]
          /\ tables' = [tables EXCEPT !["academy"][given["academy"] + 1] = row]
          /\ UNCHANGED <<sportsOf, sports, users>>
      BY <2>2, Zenon DEF Create
    <3> QED BY <2>2, <3>1, AddedAcademy DEF Inv
  <2>3. ASSUME NEW row \in Membership, Create(r, "membership", row), row.user \in users,
               row.academy \in Live("academy"), UniqueTogether(row.user, row.academy)
        PROVE  TablesInv' /\ StaysGone /\ NamedOnly /\ Stays({}) /\ UNCHANGED sportsOf
    <3>1. /\ given["membership"] + 1 \in DOMAIN tables["membership"]
          /\ given' = [given EXCEPT !["membership"] = given["membership"] + 1]
          /\ tables' = [tables EXCEPT !["membership"][given["membership"] + 1] = row]
          /\ UNCHANGED <<sportsOf, sports, users>>
      BY <2>3, Zenon DEF Create
    <3> QED BY <2>3, <3>1, AddedMembership DEF Inv
  <2> QED BY <2>1, <2>2, <2>3, InsertedRow DEF Inv, TablesInv
<1> QED BY <1>1, <1>2, <1>3, PlainStep

\* The two updates.
LEMMA RewriteStep ==
    ASSUME Inv, NEW r \in Requests, Save(r) \/ UpdateAll(r)
    PROVE  Stepped(r)
<1>1. RequestsInv' /\ OthersKept(r) /\ Outcome(r)
  BY SaveRequests, UpdateAllRequests DEF Inv, TablesInv
<1>2. ~Ended(r) /\ Head(req[r].todo).do \notin {"cursorPage", "setSports"}
  BY DEF Save, UpdateAll, At
<1>3. TablesInv' /\ StaysGone /\ NamedOnly /\ Stays({})
  BY SavedRow, UpdatedRows DEF Inv
<1>4. UNCHANGED sportsOf
  BY DEF Save, UpdateAll, Fail, dbVars
<1> QED BY <1>1, <1>2, <1>3, <1>4, PlainStep

\* The two deletes.
LEMMA DeleteStep ==
    ASSUME Inv, NEW r \in Requests, Delete(r) \/ DeleteAll(r)
    PROVE  Stepped(r)
<1>1. PICK ids : RequestsInv' /\ Outcome(r) /\ OthersLose(r, ids) /\ DeleteRows(ids)
  BY DeleteRequests DEF Inv, TablesInv
<1>2. ~Ended(r) /\ Head(req[r].todo).do \notin {"cursorPage", "setSports"}
  BY DEF Delete, DeleteAll, At
<1>3. TablesInv' /\ StaysGone /\ NamedOnly /\ Stays(ids)
  BY <1>1, RowsDeleted DEF Inv
<1>4. Walked(req[r])' /\ SportsKept(req[r])'
  BY <1>1, <1>2, ActorKept DEF Inv
<1> QED BY <1>1, <1>3, <1>4, Assembled DEF Inv

\* set_sports(): from here on the request vouches for the sports of its academy.
LEMMA SetSportsStep ==
    ASSUME Inv, NEW r \in Requests, SetSports(r)
    PROVE  Stepped(r)
<1>1. RequestsInv' /\ Outcome(r)
  BY SetSportsRequests DEF Inv, TablesInv
<1>2. ~Ended(r) /\ Head(req[r].todo).do = "setSports"
  BY DEF SetSports, At
<1>3. Walked(req[r])'
  BY <1>1, <1>2, ActorKept DEF Inv
<1>4. CASE OthersKept(r) /\ UNCHANGED dbVars /\ ~Continues(req[r], req'[r])
  <2>1. TablesInv' /\ StaysGone /\ NamedOnly /\ Stays({}) /\ UNCHANGED sportsOf
    BY <1>4, TablesUnchanged DEF Inv, dbVars
  <2>2. SportsKept(req[r])'
    BY <1>1, <1>4 DEF Outcome, Refused, Done, Over, SportsKept
  <2> QED BY <1>1, <1>3, <1>4, <2>1, <2>2, Assembled DEF Inv
<1>5. CASE /\ OthersLose(r, {}) /\ UNCHANGED <<tables, sports, users, given>>
           /\ sportsOf' = [sportsOf EXCEPT ![Target(r)] = req[r].dto.sports]
           /\ req[r].dto.sports \subseteq sports
           /\ req[r].dto.sports = {} \/ Target(r) \in Live("academy")
           /\ Tail(req[r].todo) # <<>> => req'[r].todo = Tail(req[r].todo)
  <2>1. \A a \in AcademyIds :
            sportsOf'[a] = IF a = Target(r) THEN req[r].dto.sports ELSE sportsOf[a]
    BY <1>5 DEF Inv, TablesInv, Rows
  <2>2. \A a \in AcademyIds : /\ sportsOf'[a] \subseteq sports'
                              /\ sportsOf'[a] # {} => a \in Live("academy")
    BY <1>5, <2>1 DEF Inv, TablesInv, Integrity, References
  <2>3. DOMAIN sportsOf' = AcademyIds /\ sports' \subseteq SportIds
    BY <1>5 DEF Inv, TablesInv, Rows
  <2>4. sportsOf' = [a \in AcademyIds |-> sportsOf'[a]]
    BY <1>5 DEF Inv, TablesInv, Rows
  <2>5. sportsOf' \in [AcademyIds -> SUBSET SportIds]
    BY <2>2, <2>3, <2>4
  <2>6. TablesInv' /\ StaysGone /\ NamedOnly /\ Stays({})
    BY <1>5, <2>2, <2>3, <2>5, SportsChanged DEF Inv
  <2>7. SportsKept(req[r])'
    <3>1. SUFFICES ASSUME req'[r].todo # <<>>, SetsSports(req'[r].op, req'[r].dto),
                          Head(req'[r].todo).do = "reload",
                          Head(req'[r].todo).id \in AcademyIds
                   PROVE  sportsOf'[Head(req'[r].todo).id] = req'[r].dto.sports
      BY DEF SportsKept
    <3>2. /\ req'[r].op = req[r].op /\ req'[r].dto = req[r].dto
      BY <1>1, <3>1 DEF Outcome, Refused, Done, Over, Continues
    <3>3. /\ req[r].todo \in Seq(StepsAhead) /\ req[r].todo # <<>>
          /\ Ahead(req[r].op, req[r].dto, req[r].todo)
      BY <1>2, FirstStep DEF Inv
    <3>4. Tail(req[r].todo) # <<>>
      <4>1. Tail(req[r].todo) = <<>> => Len(req[r].todo) = 1
        BY <3>3, AheadRest
      <4>2. AheadAt(req[r].op, req[r].dto, req[r].todo, 1) /\ Head(req[r].todo) = req[r].todo[1]
        BY <1>2, FirstStep DEF Inv
      <4> QED BY <1>2, <3>1, <3>2, <4>1, <4>2 DEF AheadAt
    <3>5. /\ Head(req'[r].todo) = req[r].todo[2] /\ Len(req[r].todo) > 1
          /\ Head(req[r].todo) = req[r].todo[1]
      BY <1>5, <3>3, <3>4, AheadRest
    <3>6. AheadAt(req[r].op, req[r].dto, req[r].todo, 2)
      BY <1>2, <3>5, FirstStep DEF Ahead, Inv
    <3>7. req[r].todo[1].id = req[r].todo[2].id
      BY <3>1, <3>2, <3>5, <3>6 DEF AheadAt
    <3> QED BY <2>1, <3>1, <3>2, <3>5, <3>7 DEF Target
  <2> QED BY <1>1, <1>3, <1>5, <2>6, <2>7, Assembled DEF Inv
<1> QED BY <1>4, <1>5, SetSportsRequests DEF Inv, TablesInv

\* A page of a walk.
LEMMA CursorPageStep ==
    ASSUME Inv, NEW r \in Requests, CursorPage(r)
    PROVE  Stepped(r)
<1>1. /\ RequestsInv' /\ OthersKept(r) /\ Outcome(r) /\ UNCHANGED dbVars
      /\ Walked(req'[r]) \/ Over(req'[r])
  BY CursorPageRequests DEF Inv, TablesInv, WalkInv
<1>2. ~Ended(r) /\ Head(req[r].todo).do = "cursorPage"
  BY DEF CursorPage, At
<1>3. TablesInv' /\ StaysGone /\ NamedOnly /\ Stays({}) /\ UNCHANGED sportsOf
  BY <1>1, TablesUnchanged DEF Inv, dbVars
<1>4. SportsKept(req[r])'
  <2>1. /\ Over(req'[r]) \/ Continues(req[r], req'[r])
    BY <1>1 DEF Outcome, Refused, Done
  <2> QED BY <1>2, <2>1 DEF Over, Continues, SportsKept
<1>5. Walked(req[r])'
  BY <1>1 DEF Walked, Over, Live, dbVars
<1> QED BY <1>1, <1>3, <1>4, <1>5, Assembled DEF Inv

\* Every query.
LEMMA QueryStep ==
    ASSUME Inv, NEW r \in Requests, Query(r)
    PROVE  Stepped(r) /\ r \in Running
<1>1. Stepped(r)
  BY ReadStep, InsertStep, RewriteStep, DeleteStep, SetSportsStep, CursorPageStep DEF Query
<1>2. ~Ended(r)
  BY DEF Query, GetOrRaise, ExistingSportIds, InsertAcademy, InsertMembership, Load, Save,
         UpdateAll, LoadForSports, SetSports, Reload, Delete, DeleteAll, Page, Count,
         CursorPage, At
<1> QED BY <1>1, <1>2 DEF Running

\* The Django admin answers no request.
LEMMA SportDeleted ==
    ASSUME Inv, NEW s \in SportIds, AdminDeleteSport(s)
    PROVE  /\ Inv' /\ StaysGone /\ NamedOnly
           /\ \A r \in Requests : req'[r].todo = req[r].todo
<1>1. /\ sports' = sports \ {s} /\ sportsOf' = [a \in AcademyIds |-> sportsOf[a] \ {s}]
      /\ req' = Outdate(req, {}) /\ UNCHANGED <<tables, users, given>>
  BY DEF AdminDeleteSport
<1>2. TablesInv' /\ StaysGone /\ NamedOnly /\ Stays({})
  <2>1. \A a \in AcademyIds : /\ sportsOf'[a] \subseteq sports'
                              /\ sportsOf'[a] # {} => a \in Live("academy")
    BY <1>1 DEF Inv, TablesInv, Integrity, References
  <2>2. sportsOf' \in [AcademyIds -> SUBSET SportIds] /\ sports' \subseteq SportIds
    BY <1>1 DEF Inv, TablesInv, Rows
  <2> QED BY <1>1, <2>1, <2>2, SportsChanged DEF Inv
<1>3. ASSUME NEW q \in Requests
      PROVE  /\ RequestOK(req'[q]) /\ Other(req[q], req'[q])
             /\ req'[q].throughout = req[q].throughout \ {}
             /\ req'[q].disturbed = (req[q].dto.sports # Unset)
  BY <1>1, Outdating DEF Inv
<1>4. RequestsInv'
  <2>1. DOMAIN req' = Requests /\ req' = [q \in Requests |-> req'[q]]
    BY <1>1 DEF Outdate
  <2>2. \A q \in Requests : req'[q] \in Request
    BY <1>3 DEF Other
  <2>3. req' \in [Requests -> Request]
    BY <2>1, <2>2
  <2> QED BY <1>3, <2>3 DEF RequestsInv, RequestOK
<1>5. ASSUME NEW q \in Requests
      PROVE  SportsKept(req[q])' /\ req'[q].todo = req[q].todo
  <2>1. /\ req'[q].dto = req[q].dto /\ req'[q].op = req[q].op
        /\ req'[q].disturbed = (req[q].dto.sports # Unset)
        /\ req'[q].todo = req[q].todo
    BY <1>3 DEF Other
  <2> QED BY <2>1 DEF SportsKept, SetsSports
<1>6. ASSUME NEW q \in Requests PROVE Walked(req[q])'
  <2>1. Walked(req[q])
    BY DEF Inv, WalkInv
  <2> QED BY <1>1, <1>3, <2>1 DEF Walked, Other, Live
<1> QED BY <1>2, <1>4, <1>5, <1>6 DEF Inv, SportsInv, WalkInv

\* The same when the admin deletes a user.
LEMMA UserDeletedStep ==
    ASSUME Inv, NEW u \in Users, AdminDeleteUser(u)
    PROVE  /\ Inv' /\ StaysGone /\ NamedOnly
           /\ \A r \in Requests : req'[r].todo = req[r].todo
<1>1. TablesInv' /\ StaysGone /\ NamedOnly /\ Stays({})
  BY UserDeleted DEF Inv
<1>2. req' = Silent(req) /\ UNCHANGED sportsOf
  BY DEF AdminDeleteUser
<1>3. ASSUME NEW q \in Requests
      PROVE  /\ RequestOK(req'[q])
             /\ req'[q].op = req[q].op /\ req'[q].dto = req[q].dto
             /\ req'[q].todo = req[q].todo /\ req'[q].cursor = req[q].cursor
             /\ req'[q].times = req[q].times /\ req'[q].throughout = req[q].throughout
             /\ req'[q].disturbed = req[q].disturbed
  <2>1. RequestOK(Silent(req)[q])
    BY SilentRequests DEF Inv
  <2>2. /\ req[q] \in Request /\ Silent(req)[q] = [req[q] EXCEPT !.answer = NoAnswer]
    BY DEF Inv, RequestsInv, Silent
  <2> QED BY <1>2, <2>1, <2>2 DEF Request
<1>4. RequestsInv'
  <2>1. DOMAIN req' = Requests /\ req' = [q \in Requests |-> req'[q]]
    BY <1>2 DEF Silent
  <2>2. \A q \in Requests : req'[q] \in Request
    BY <1>3 DEF RequestOK
  <2>3. req' \in [Requests -> Request]
    BY <2>1, <2>2
  <2> QED BY <1>3, <2>3 DEF RequestsInv
<1>5. ASSUME NEW q \in Requests PROVE SportsKept(req[q])'
  <2>1. SportsKept(req[q])
    BY DEF Inv, SportsInv
  <2> QED BY <1>2, <1>3, <2>1 DEF SportsKept
<1>6. ASSUME NEW q \in Requests PROVE Walked(req[q])'
  <2>1. Walked(req[q])
    BY DEF Inv, WalkInv
  <2> QED BY <1>1, <1>3, <2>1 DEF Walked, Stays
<1> QED BY <1>1, <1>3, <1>4, <1>5, <1>6 DEF Inv, SportsInv, WalkInv

\* The empty tables.
LEMMA InitInv == Init => Inv
<1> SUFFICES ASSUME Init PROVE Inv
  OBVIOUS
<1>1. /\ tables = [academy |-> [a \in AcademyIds |-> NoRow],
                   membership |-> [m \in MembershipIds |-> NoRow]]
      /\ sportsOf = [a \in AcademyIds |-> {}]
      /\ sports = SportIds /\ users = Users
      /\ given = [academy |-> 0, membership |-> 0]
      /\ req = [r \in Requests |-> Idle]
  BY DEF Init
<1>2. Live("academy") = {} /\ Live("membership") = {}
  BY <1>1 DEF Live
<1>3. Rows
  BY <1>1, BoundsAssumption DEF Rows
<1>4. KeysGiven /\ Integrity
  BY <1>1, <1>2 DEF KeysGiven, Integrity, References, OneMembership
<1>5. \A r \in Requests : req[r] = Idle
  BY <1>1
<1>6. RequestsInv
  BY <1>1, <1>5, IdleRequest DEF RequestsInv
<1>7. SportsInv /\ WalkInv
  BY <1>5, IdleRequest DEF SportsInv, WalkInv, SportsKept, Walked
<1> QED BY <1>3, <1>4, <1>6, <1>7 DEF Inv, TablesInv

\* No step at all.
LEMMA StutterInv ==
    ASSUME Inv, UNCHANGED vars
    PROVE  Inv' /\ StaysGone /\ NamedOnly /\ \A r \in Requests : req'[r].todo = req[r].todo
<1>1. UNCHANGED dbVars /\ UNCHANGED req
  BY DEF vars, dbVars
<1>2. TablesInv' /\ StaysGone /\ NamedOnly
  BY <1>1, TablesUnchanged DEF Inv
<1>3. RequestsInv'
  BY <1>1 DEF Inv, RequestsInv
<1>4. SportsInv'
  BY <1>1 DEF Inv, SportsInv, SportsKept, dbVars
<1>5. WalkInv'
  BY <1>1 DEF Inv, WalkInv, Walked, Live, dbVars
<1> QED BY <1>1, <1>2, <1>3, <1>4, <1>5 DEF Inv

\* Every step.
LEMMA NextInv ==
    ASSUME Inv, [Next]_vars
    PROVE  Inv' /\ StaysGone /\ NamedOnly
<1>1. ASSUME NEW r \in Requests, Endpoint(r) \/ Query(r)
      PROVE  Inv' /\ StaysGone /\ NamedOnly
  BY <1>1, EndpointStep, QueryStep DEF Stepped
<1>2. CASE UNCHANGED vars
  BY <1>2, StutterInv
<1>3. CASE Next
  BY <1>1, <1>3, SportDeleted, UserDeletedStep DEF Next
<1> QED BY <1>2, <1>3

\* A request that a step answers took that step, by one of its queries.
LEMMA AnsweredByQuery ==
    ASSUME Inv, [Next]_vars, NEW r \in Running, Ended(r)'
    PROVE  Query(r) /\ Stepped(r)
<1>1. req[r].todo # <<>> /\ req'[r].todo = <<>> /\ r \in Requests
  BY DEF Running, Ended
<1>2. ASSUME NEW q \in Requests, Endpoint(q) \/ Query(q)
      PROVE  Query(r) /\ Stepped(r)
  <2>1. Stepped(q)
    BY <1>2, EndpointStep, QueryStep
  <2>2. q = r
    BY <1>1, <2>1 DEF Stepped, OthersGoOn
  <2>3. ~Endpoint(r)
    BY <1>1, EndpointRequests DEF Inv, TablesInv, Starts, Ended
  <2> QED BY <1>2, <2>1, <2>2, <2>3
<1>3. ~UNCHANGED vars
  BY <1>1, StutterInv
<1>4. /\ \A s \in SportIds : ~AdminDeleteSport(s)
      /\ \A u \in Users : ~AdminDeleteUser(u)
  BY <1>1, SportDeleted, UserDeletedStep
<1> QED BY <1>2, <1>3, <1>4 DEF Next

-----------------------------------------------------------------------------
(* The theorems.                                                           *)

\* All parts of the invariant hold throughout.
THEOREM Invariant == Spec => []Inv
<1>1. Init => Inv
  BY InitInv
<1>2. Inv /\ [Next]_vars => Inv'
  BY NextInv
<1> QED BY <1>1, <1>2, PTL DEF Spec

\* Only values that a validator has passed are stored, and the answers are what the
\* response schemas promise.
THEOREM TypeCorrect == Spec => []TypeOK
<1>1. Inv => TypeOK
  <2> SUFFICES ASSUME Inv PROVE TypeOK
    OBVIOUS
  <2>1. /\ tables.academy \in [AcademyIds -> Academy \union {NoRow}]
        /\ tables.membership \in [MembershipIds -> Membership \union {NoRow}]
        /\ sportsOf \in [AcademyIds -> SUBSET SportIds]
        /\ sports \subseteq SportIds /\ users \subseteq Users
        /\ given.academy \in 0..MaxAcademies /\ given.membership \in 0..MaxMemberships
    BY DEF Inv, TablesInv, Rows
  <2>2. DOMAIN req = Requests
    BY DEF Inv, RequestsInv
  <2>3. ASSUME NEW r \in Requests
        PROVE  req[r].dto \in Dtos /\ req[r].answer.body \in AnswerBodies
    BY DEF Inv, RequestsInv, Request
  <2> QED BY <2>1, <2>2, <2>3 DEF TypeOK, Dtos, AnswerBodies
<1> QED BY <1>1, Invariant, PTL

\* Whatever is deleted while requests run, references lead to rows that exist and
\* memberships are unique.
THEOREM IntegrityKept == Spec => []Integrity
<1>1. Inv => Integrity
  BY DEF Inv, TablesInv
<1> QED BY <1>1, Invariant, PTL

\* No request brings back a row that has been deleted since it loaded it.
THEOREM DeletedForGood == Spec => DeletedStaysGone
<1>1. Inv /\ [Next]_vars =>
          [\A table \in {"academy", "membership"} : \A id \in 1..given[table] :
               tables[table][id] = NoRow => tables'[table][id] = NoRow]_vars
  BY NextInv DEF StaysGone
<1> QED BY <1>1, Invariant, PTL DEF Spec, DeletedStaysGone

\* No request undoes what another has made of a column that it does not name.
THEOREM ColumnsKept == Spec => OnlyNamedColumns
<1>1. Inv /\ [Next]_vars =>
          [\A a \in Live("academy"), f \in Fields :
               /\ tables'.academy[a] # NoRow
               /\ tables'.academy[a].data[f] # tables.academy[a].data[f]
               => \E r \in Running : f \in DOMAIN req[r].dto.data]_vars
  BY NextInv DEF NamedOnly
<1> QED BY <1>1, Invariant, PTL DEF Spec, OnlyNamedColumns

\* A 404 has changed nothing, unless the academy went while it was being changed.
THEOREM RefusedUnchanged == Spec => RefusedChangesNothing
<1>1. ASSUME Inv, [Next]_vars, NEW r \in Running,
             Ended(r)', req'[r].answer.status = 404, req[r].wrote
      PROVE  Target(r) \notin Live("academy")
  <2>1. Query(r) /\ Stepped(r)
    BY <1>1, AnsweredByQuery
  <2>2. r \in Requests /\ ~Ended(r) /\ req'[r].todo = <<>>
    BY <1>1 DEF Running, Ended
  <2>3. /\ RequestOK(req[r]) /\ req[r].todo # <<>> /\ Head(req[r].todo) = req[r].todo[1]
        /\ 1 \in 1..Len(req[r].todo) /\ Head(req[r].todo) \in StepsAhead
    BY <1>1, <2>2, FirstStep DEF Inv
  <2>4. ~Checks(Head(req[r].todo))
    BY <1>1, <2>3 DEF RequestOK, Now
  <2>5. ~Success(404)
    BY DEF Success
  <2>6. PICK exception \in Raises : /\ Refused(req[r], req'[r], exception)
                                    /\ NotNamed(r, exception)
    BY <1>1, <2>1, <2>2, <2>5 DEF Stepped, Outcome, Done, Continues
  <2>7. \/ At(r, "getOrRaise") /\ Target(r) \notin Live(Table(r))
        \/ At(r, "validateSportIds")
    BY <1>1, <2>6 DEF Refused, NotNamed
  <2> QED BY <2>3, <2>4, <2>7 DEF Checks, At, Table, StepsAhead
<1>2. Inv /\ [Next]_vars =>
          [\A r \in Running : Ended(r)' /\ req[r]'.answer.status = 404 /\ req[r].wrote
               => Target(r) \notin Live("academy")]_vars
  BY <1>1
<1> QED BY <1>2, Invariant, PTL DEF Spec, RefusedChangesNothing

\* What a request that ends with a reload answers.
LEMMA ReloadAnswer ==
    ASSUME Rows, RequestsInv, NEW r \in Requests, Reload(r), Len(req[r].todo) = 1,
           Success(req'[r].answer.status)
    PROVE  /\ Target(r) \in Live("academy")
           /\ req'[r].answer.body.sports = sportsOf[Target(r)]
<1>1. ~Ended(r) /\ Head(req[r].todo).do = "reload"
  BY DEF Reload, At
<1>2. CASE Target(r) \notin Live("academy")
  <2>1. Fail(r, OtherError("DoesNotExist")) /\ OtherError("DoesNotExist") \in Raises
    BY <1>2 DEF Reload, Raises
  <2>2. ~Success(req'[r].answer.status)
    BY <2>1, Failing DEF Refused
  <2> QED BY <2>2
<1>3. CASE Target(r) \in Live("academy")
  <2> DEFINE body == Shown(Target(r))
  <2>1. body \in AnswerBodies /\ body.sports = sportsOf[Target(r)]
    BY <1>3, ShownBody
  <2>2. Become(r, Proceed(req[r], body))
    BY <1>3 DEF Reload
  <2> HIDE DEF body
  <2>3. /\ req[r] \in Request /\ RequestOK(req[r]) /\ req[r].todo # <<>>
        /\ req[r].todo \in Seq(StepsAhead) /\ Ahead(req[r].op, req[r].dto, req[r].todo)
    BY <1>1, FirstStep
  <2>4. GoneOn(req[r], req[r], req'[r], body)
    BY <1>1, <2>1, <2>2, <2>3, BecomesProceeded
  <2>5. Tail(req[r].todo) = <<>>
    <3>1. Len(Tail(req[r].todo)) = 0 /\ Tail(req[r].todo) \in Seq(StepsAhead)
      BY <2>3, AheadRest
    <3> QED BY <3>1, EmptySeq
  <2>6. req'[r].answer = [status |-> SuccessStatus(req[r].op), body |-> body]
    BY <2>4, <2>5 DEF GoneOn
  <2> QED BY <1>3, <2>1, <2>6
<1> QED BY <1>2, <1>3

\* The answer to a POST, PUT or PATCH shows the sports that it set, or those that
\* others have made of them since.
THEOREM OwnSportsShown == Spec => AnswersShowOwnSports
<1>1. ASSUME Inv, [Next]_vars, NEW r \in Running,
             Ended(r)', Success(req'[r].answer.status),
             req[r].op \in {"create", "update", "patch"}, req[r].dto.sports # Unset
      PROVE  req'[r].answer.body.sports = req[r].dto.sports \/ req[r].disturbed
  <2>1. Query(r) /\ Stepped(r)
    BY <1>1, AnsweredByQuery
  <2>2. r \in Requests /\ ~Ended(r) /\ req'[r].todo = <<>>
    BY <1>1 DEF Running, Ended
  <2>3. /\ req[r].todo # <<>> /\ Head(req[r].todo) = req[r].todo[1]
        /\ AheadAt(req[r].op, req[r].dto, req[r].todo, 1)
    BY <1>1, <2>2, FirstStep DEF Inv
  <2>4. SetsSports(req[r].op, req[r].dto)
    BY <1>1 DEF SetsSports
  <2>5. Len(req[r].todo) = 1
    BY <1>1, <2>1, <2>2, <2>4 DEF Stepped, Outcome, Refused, Done, Continues
  <2>6. Head(req[r].todo).do = "reload"
    BY <2>3, <2>4, <2>5 DEF AheadAt
  <2>7. Reload(r)
    BY <2>1, <2>6 DEF Query, GetOrRaise, ExistingSportIds, InsertAcademy, InsertMembership,
         Load, Save, UpdateAll, LoadForSports, SetSports, Delete, DeleteAll, Page, Count,
         CursorPage, At
  <2>8. /\ Target(r) \in Live("academy")
        /\ req'[r].answer.body.sports = sportsOf[Target(r)]
    BY <1>1, <2>2, <2>5, <2>7, ReloadAnswer DEF Inv, TablesInv
  <2>9. Target(r) \in AcademyIds
    BY <1>1, <2>8, FinitelyMany DEF Inv, TablesInv
  <2>10. SportsKept(req[r])
    BY <1>1, <2>2 DEF Inv, SportsInv
  <2> QED BY <2>3, <2>4, <2>6, <2>8, <2>9, <2>10 DEF SportsKept, Target
<1>2. Inv /\ [Next]_vars =>
          [\A r \in Running :
               /\ Ended(r)' /\ Success(req[r]'.answer.status)
               /\ req[r].op \in {"create", "update", "patch"} /\ req[r].dto.sports # Unset
               => req[r]'.answer.body.sports = req[r].dto.sports \/ req[r].disturbed]_vars
  BY <1>1
<1> QED BY <1>2, Invariant, PTL DEF Spec, AnswersShowOwnSports

\* A walk over the pages shows every academy that exists all along once, and none
\* twice.
THEOREM WalkComplete == Spec => WalkShowsAll
<1>1. ASSUME Inv, [Next]_vars, NEW r \in Running, Ended(r)', req[r].op = "walk",
             NEW a \in AcademyIds
      PROVE  LET times == req'[r].answer.body.times[a]
             IN  times <= 1 /\ (a \in req[r].throughout => times = 1)
  <2>1. Query(r) /\ Stepped(r)
    BY <1>1, AnsweredByQuery
  <2>2. r \in Requests /\ ~Ended(r) /\ req'[r].todo = <<>>
    BY <1>1 DEF Running, Ended
  <2>3. /\ Head(req[r].todo) = req[r].todo[1]
        /\ AheadAt(req[r].op, req[r].dto, req[r].todo, 1)
    BY <1>1, <2>2, FirstStep DEF Inv
  <2>4. Head(req[r].todo).do = "cursorPage"
    BY <1>1, <2>3 DEF AheadAt
  <2>5. CursorPage(r)
    BY <2>1, <2>4 DEF Query, GetOrRaise, ExistingSportIds, InsertAcademy, InsertMembership,
         Load, Save, UpdateAll, LoadForSports, SetSports, Reload, Delete, DeleteAll, Page,
         Count, At
  <2>6. req'[r].op # "walk"
    BY <1>1, <2>1, <2>2 DEF Stepped, Outcome, Refused, Done, Over, Continues
  <2>7. /\ req'[r].answer.body.times \in [AcademyIds -> 0..1]
        /\ \A b \in req[r].throughout : req'[r].answer.body.times[b] = 1
    BY <1>1, <2>2, <2>5, <2>6, CursorPageRequests DEF Inv, TablesInv, WalkInv
  <2> QED BY <2>7
<1>2. Inv /\ [Next]_vars =>
          [\A r \in Running : Ended(r)' /\ req[r].op = "walk" =>
               \A a \in AcademyIds :
                   LET times == req[r]'.answer.body.times[a]
                   IN  times <= 1 /\ (a \in req[r].throughout => times = 1)]_vars
  BY <1>1
<1> QED BY <1>2, Invariant, PTL DEF Spec, WalkShowsAll
=============================================================================
