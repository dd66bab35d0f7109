----------------------------- MODULE Academies -----------------------------
(***************************************************************************)
(* Academies and memberships, from the endpoints of academies/api/v1 down  *)
(* to the tables: controllers, mappers, use cases, and the queries of      *)
(* BaseRepository (common/api/base_repository.py) and of the two           *)
(* repositories built on it.                                               *)
(*                                                                         *)
(* A use case is a list of steps, each one awaited query; the requests     *)
(* interleave between the steps, for no transaction spans them.  A query,  *)
(* with the transaction that the ORM opens around a delete or around       *)
(* aset(), is atomic.  Callers have passed the gate of Sessions.           *)
(*                                                                         *)
(* The scalar columns are a set Fields of names that share one small set   *)
(* of values.  Keys are given out in the order of created_at.  Sports and  *)
(* users are deleted by the Django admin, also while requests run.         *)
(*                                                                         *)
(* A definition X_<mistake>, placed before X, is X with a plausible        *)
(* mistake, swapped in for X to confirm that some property notices.        *)
(***************************************************************************)
EXTENDS FiniteSets, Responses

CONSTANTS
    Requests,        \* concurrent requests
    Operations,      \* the operations they may ask for
    Users,
    SportIds,
    Fields,          \* the scalar columns of an academy
    RequiredFields,  \* those that a POST may not leave out: the name
    Values,          \* what a column may hold
    Blank,           \* the default of a column
    Invalid,         \* what a validator refuses
    Unset,           \* a field that is absent or None
    Bodies,          \* the bodies that clients send to academies
    Limit,           \* the page size
    MaxAcademies,    \* bound on the academies ever created
    MaxMemberships   \* bound on the memberships ever created

ASSUME ValuesAssumption == Blank \in Values /\ Invalid \notin Values
ASSUME FieldsAssumption == RequiredFields \subseteq Fields
ASSUME SportsAssumption == IsFiniteSet(SportIds)
ASSUME BoundsAssumption ==
    MaxAcademies \in Nat /\ MaxMemberships \in Nat /\ Limit \in Nat \ {0}

VARIABLES
    tables,    \* the rows of academies and memberships, by primary key
    sportsOf,  \* the relation between academies and sports
    sports,    \* the sports that exist
    users,     \* the users that exist
    given,     \* the last primary key given out in each table
    req        \* what each request is doing

vars == <<tables, sportsOf, sports, users, given, req>>
dbVars == <<tables, sportsOf, sports, users, given>>

AcademyIds == 1..MaxAcademies
MembershipIds == 1..MaxMemberships
NoRow == [none |-> TRUE]

\* TimeStampModel.updated_at is either the time of creation or later.
Stamps == {"atCreation", "later"}

Statuses == {"pending", "approved", "rejected"}

\* The two models.  `data` holds the columns that an update may name.
Academy == [owner : Users, stamp : Stamps, data : [Fields -> Values]]
Membership == [user : Users, academy : AcademyIds, stamp : Stamps,
               data : [status : Statuses]]

Live(table) == {id \in DOMAIN tables[table] : tables[table][id] # NoRow}

-----------------------------------------------------------------------------
(* The request body and the data transfer objects.                         *)

ASSUME BodiesAssumption ==
    Bodies \subseteq [data : UNION {[S -> Values \union {Invalid}] : S \in SUBSET Fields},
                      sports : (SUBSET SportIds) \union {Unset}]

Validated(body) == \A f \in DOMAIN body.data : body.data[f] # Invalid

AcademyCreateSchema ==
    {b \in Bodies : RequiredFields \subseteq DOMAIN b.data /\ Validated(b)}
AcademyUpdateSchema ==
    {b \in Bodies : DOMAIN b.data = Fields /\ b.sports # Unset /\ Validated(b)}
AcademyPatchSchema_NoValidators == Bodies
AcademyPatchSchema == {b \in Bodies : Validated(b)}

\* The data transfer objects of the use cases.
Partial(values) == UNION {[S -> values] : S \in SUBSET Fields}
AcademyCreateDTO ==
    [data : [Fields -> Values], sports : SUBSET SportIds, owner : Users]
AcademyUpdateDTO == [data : [Fields -> Values], sports : SUBSET SportIds]
AcademyPatchDTO == [data : Partial(Values), sports : (SUBSET SportIds) \union {Unset}]
MembershipCreateDTO == [data : [status : Statuses], sports : {Unset},
                        user : Users \union {Unset}, academy : AcademyIds]
StatusDTO == [data : [status : Statuses], sports : {Unset}]

\* POST: what is absent takes its default.
SchemaToDto(body, caller) ==
    [data |-> [f \in Fields |-> IF f \in DOMAIN body.data THEN body.data[f]
                                                          ELSE Blank],
     sports |-> IF body.sports = Unset THEN {} ELSE body.sports,
     owner |-> caller]

\* PUT: every field is there.
UpdateSchemaToDto(body) == [data |-> body.data, sports |-> body.sports]

\* PATCH: what is absent stays None, and the use case leaves it out.
PatchSchemaToDto(body) == [data |-> body.data, sports |-> body.sports]

NoDto == [data |-> <<>>, sports |-> Unset]

\* POST .../memberships: the body is a role, which nothing reads afterwards; Blank
\* stands for every role there is.
MembershipCreateSchema == {Blank}
MembershipSchemaToDto(caller, academy) ==
    [data |-> [status |-> "pending"], sports |-> Unset,
     user |-> caller, academy |-> academy]

\* The instance that a query returns becomes an entity, that a transfer object,
\* and that the answer's body: the sports are those that were prefetched.
AcademyEntity == [id : AcademyIds, data : [Fields -> Values], owner : Users,
                  sports : SUBSET SportIds, stamp : Stamps]
AcademyResponseDTO == AcademyEntity
AcademyResponseSchema == AcademyResponseDTO

OrmToEntity(id, instance, prefetched) ==
    [id |-> id, data |-> instance.data, owner |-> instance.owner,
     sports |-> prefetched, stamp |-> instance.stamp]
EntityToDto(entity) ==
    [id |-> entity.id, data |-> entity.data, owner |-> entity.owner,
     sports |-> entity.sports, stamp |-> entity.stamp]
Shown(id) ==
    EntityToDto(OrmToEntity(id, tables.academy[id], sportsOf[id]))

\* Likewise a membership; approve() and reject() show the instance they saved.
MembershipEntity == [id : MembershipIds, user : Users, academy : AcademyIds,
                     status : Statuses, stamp : Stamps]
MembershipResponseDTO == MembershipEntity
MembershipResponseSchema == MembershipResponseDTO

MembershipOrmToEntity(id, instance) ==
    [id |-> id, user |-> instance.user, academy |-> instance.academy,
     status |-> instance.data.status, stamp |-> instance.stamp]
MembershipEntityToDto(entity) ==
    [id |-> entity.id, user |-> entity.user, academy |-> entity.academy,
     status |-> entity.status, stamp |-> entity.stamp]
MembershipShown(id, instance) ==
    MembershipEntityToDto(MembershipOrmToEntity(id, instance))

-----------------------------------------------------------------------------
(* Requests.                                                               *)

NoBody == [id |-> 0]
NoAnswer == [status |-> 0, body |-> NoBody]

\* todo: the steps ahead; obj: the instance a step has loaded; rows, cursor: the
\* page read last; count: the rows a bulk operation has counted; answer: what was
\* answered, until the next step.  The fields after it are history, for the
\* properties.  wrote: the request has changed the database; disturbed: since it
\* set the sports of its academy, others changed them; throughout, times: for a
\* walk over the pages, the rows that existed all along, and how often each was
\* shown.
NotShown == [a \in AcademyIds |-> 0]
Idle == [op |-> "none", dto |-> NoDto, todo |-> <<>>, obj |-> NoRow,
         rows |-> {}, cursor |-> 0, count |-> 0, answer |-> NoAnswer,
         wrote |-> FALSE, disturbed |-> FALSE,
         throughout |-> {}, times |-> NotShown]

Ended(r) == req[r].todo = <<>>
Running == {r \in Requests : ~Ended(r)}

Step(name, table, id) == [do |-> name, table |-> table, id |-> id]
Steps(names, table, id) == [i \in 1..Len(names) |-> Step(names[i], table, id)]

Silent(requests) == [q \in Requests |-> [requests[q] EXCEPT !.answer = NoAnswer]]
Become(r, state) == req' = [Silent(req) EXCEPT ![r] = state]

Begin(r, op, dto, todo) ==
    /\ Ended(r)
    /\ Become(r, [Idle EXCEPT !.op = op, !.dto = dto, !.todo = todo])
    /\ UNCHANGED dbVars

At(r, name) == ~Ended(r) /\ Head(req[r].todo).do = name
Table(r) == Head(req[r].todo).table
Target(r) == Head(req[r].todo).id

SuccessStatus(op) == IF op \in {"create", "apply"} THEN 201 ELSE 200

Answered(status, body) ==
    [Idle EXCEPT !.answer = [status |-> status, body |-> body]]

\* The step is done; after the last one the request answers.
Proceed(state, body) ==
    IF Tail(state.todo) = <<>> THEN Answered(SuccessStatus(state.op), body)
                               ELSE [state EXCEPT !.todo = Tail(@)]

\* The step raises.  apply() turns whatever its insert raises into
\* DuplicateResourceError.
Raised(state, exception) ==
    Answered(StatusOf(IF state.op = "apply"
                      THEN AppError("DuplicateResourceError") ELSE exception), NoBody)

Fail(r, exception) ==
    /\ Become(r, Raised(req[r], exception))
    /\ UNCHANGED dbVars

-----------------------------------------------------------------------------
(* The use cases: what each asks of the repository, in order.              *)

\* _validate_sport_ids asks nothing when there is nothing to validate.
ValidateSportIds(wanted) == IF wanted = {} THEN <<>> ELSE <<"validateSportIds">>

\* BaseRepository.update and AcademyRepositoryImpl.set_sports.
UpdateSteps == <<"load", "save">>
SetSportsSteps == <<"loadForSports", "setSports", "reload">>

UseCaseCreate(dto) ==
    ValidateSportIds(dto.sports) \o <<"insert">> \o SetSportsSteps

UseCaseUpdate_LateCheck(dto) ==
    <<"getOrRaise">> \o UpdateSteps \o ValidateSportIds(dto.sports) \o SetSportsSteps
UseCaseUpdate(dto) ==
    <<"getOrRaise">> \o ValidateSportIds(dto.sports) \o UpdateSteps \o SetSportsSteps

UseCasePartialUpdate(dto) ==
    LET sportsGiven == dto.sports # Unset
    IN  <<"getOrRaise">>
          \o (IF sportsGiven THEN ValidateSportIds(dto.sports) ELSE <<>>)
          \o (IF DOMAIN dto.data # {} THEN UpdateSteps ELSE <<>>)
          \o (IF sportsGiven THEN SetSportsSteps ELSE <<"getOrRaise">>)

UseCaseDelete == <<"getOrRaise", "delete">>
UseCaseGet == <<"getOrRaise">>
UseCaseList == <<"page", "count">>
UseCaseApply == <<"insert">>
UseCaseApprove == <<"getOrRaise">> \o UpdateSteps
UseCaseReject == <<"getOrRaise">> \o UpdateSteps
UseCaseListForAcademy == <<"page", "count">>

\* bulk_delete and bulk_patch of a list of keys: row by row in its order, or in one
\* query when `fast`.
BulkDelete(ids, fast) ==
    IF fast THEN Steps(<<"deleteAll">>, "academy", 0)
    ELSE [i \in 1..Len(ids) |-> Step("delete", "academy", ids[i])]

BulkPatch(ids, fast) ==
    IF fast THEN Steps(<<"updateAll">>, "academy", 0)
    ELSE [i \in 1..(2 * Len(ids)) |->
            Step(IF i % 2 = 1 THEN "load" ELSE "save", "academy", ids[(i + 1) \div 2])]

-----------------------------------------------------------------------------
(* The endpoints and their controllers.                                    *)

Unprocessable(r) ==
    /\ Ended(r)
    /\ Become(r, Answered(StatusOf(OtherError("RequestValidationError")), NoBody))
    /\ UNCHANGED dbVars

\* Rows about to be inserted count, so that no request is stopped by the bound.
RoomFor(op, table, max) ==
    given[table] + Cardinality({q \in Running : req[q].op = op}) < max

ControllerCreate(r, body, caller) ==
    LET dto == SchemaToDto(body, caller)
    IN  Begin(r, "create", dto, Steps(UseCaseCreate(dto), "academy", 0))
CreateAcademy(r) == \E body \in Bodies, caller \in Users :
    /\ "create" \in Operations
    /\ RoomFor("create", "academy", MaxAcademies)
    /\ IF body \in AcademyCreateSchema THEN ControllerCreate(r, body, caller)
                                       ELSE Unprocessable(r)

ControllerUpdate(r, id, body) ==
    LET dto == UpdateSchemaToDto(body)
    IN  Begin(r, "update", dto, Steps(UseCaseUpdate(dto), "academy", id))
UpdateAcademy(r) == \E id \in AcademyIds, body \in Bodies :
    /\ "update" \in Operations
    /\ IF body \in AcademyUpdateSchema THEN ControllerUpdate(r, id, body)
                                       ELSE Unprocessable(r)

ControllerPartialUpdate(r, id, body) ==
    LET dto == PatchSchemaToDto(body)
    IN  Begin(r, "patch", dto, Steps(UseCasePartialUpdate(dto), "academy", id))
PatchAcademy(r) == \E id \in AcademyIds, body \in Bodies :
    /\ "patch" \in Operations
    /\ IF body \in AcademyPatchSchema THEN ControllerPartialUpdate(r, id, body)
                                      ELSE Unprocessable(r)

ControllerDelete(r, id) ==
    Begin(r, "delete", NoDto, Steps(UseCaseDelete, "academy", id))
DeleteAcademy(r) ==
    "delete" \in Operations /\ \E id \in AcademyIds : ControllerDelete(r, id)

ControllerGet(r, id) == Begin(r, "get", NoDto, Steps(UseCaseGet, "academy", id))
GetAcademy(r) ==
    "get" \in Operations /\ \E id \in AcademyIds : ControllerGet(r, id)

\* GET /academies?offset&limit, and the members of an academy likewise: `cursor`
\* keeps the offset.
BeginList(r, op, dto, todo, offset) ==
    /\ Ended(r)
    /\ Become(r, [Idle EXCEPT !.op = op, !.dto = dto, !.cursor = offset,
                              !.todo = todo])
    /\ UNCHANGED dbVars

ControllerList(r, offset) ==
    BeginList(r, "list", NoDto, Steps(UseCaseList, "academy", 0), offset)
ListAcademies(r) ==
    "list" \in Operations /\ \E offset \in {0, Limit} : ControllerList(r, offset)

ControllerApply(r, caller, academy) ==
    Begin(r, "apply", MembershipSchemaToDto(caller, academy),
          Steps(UseCaseApply, "membership", 0))
ApplyMembership(r) ==
    \E role \in {Blank, Invalid}, caller \in Users, academy \in AcademyIds :
        /\ "apply" \in Operations
        /\ RoomFor("apply", "membership", MaxMemberships)
        /\ IF role \in MembershipCreateSchema THEN ControllerApply(r, caller, academy)
                                              ELSE Unprocessable(r)

Deciding(status) == [NoDto EXCEPT !.data = [status |-> status]]
ControllerApprove(r, id) ==
    Begin(r, "approve", Deciding("approved"), Steps(UseCaseApprove, "membership", id))
ApproveMembership(r) ==
    "approve" \in Operations /\ \E id \in MembershipIds : ControllerApprove(r, id)

ControllerReject(r, id) ==
    Begin(r, "reject", Deciding("rejected"), Steps(UseCaseReject, "membership", id))
RejectMembership(r) ==
    "reject" \in Operations /\ \E id \in MembershipIds : ControllerReject(r, id)

ControllerListMembers(r, academy, offset) ==
    BeginList(r, "listMembers", MembershipSchemaToDto(Unset, academy),
              Steps(UseCaseListForAcademy, "membership", 0), offset)
ListMemberships(r) == \E offset \in {0, Limit}, academy \in AcademyIds :
    "listMembers" \in Operations /\ ControllerListMembers(r, academy, offset)

\* The operations of the base classes that no endpoint offers yet.  Bound: no more
\* keys in a list than there are academies.
Keys == UNION {[1..n -> AcademyIds] : n \in 1..MaxAcademies}
PutTogether(ids, fast) == IF fast THEN {ids[i] : i \in DOMAIN ids} ELSE {}

ControllerBulkDelete(r, ids, fast) ==
    /\ Ended(r)
    /\ Become(r, [Idle EXCEPT !.op = "bulkDelete", !.rows = PutTogether(ids, fast),
                              !.todo = BulkDelete(ids, fast)])
    /\ UNCHANGED dbVars
BulkDeleteAcademies(r) == \E ids \in Keys, fast \in BOOLEAN :
    "bulkDelete" \in Operations /\ ControllerBulkDelete(r, ids, fast)

ControllerBulkPatch(r, ids, fast, body) ==
    /\ Ended(r)
    /\ Become(r, [Idle EXCEPT !.op = "bulkPatch", !.rows = PutTogether(ids, fast),
                              !.dto = body, !.todo = BulkPatch(ids, fast)])
    /\ UNCHANGED dbVars
BulkPatchAcademies(r) ==
    \E ids \in Keys, fast \in BOOLEAN, body \in AcademyPatchSchema :
        "bulkPatch" \in Operations /\ ControllerBulkPatch(r, ids, fast, body)

ControllerWalk(r) ==
    /\ Ended(r)
    /\ Become(r, [Idle EXCEPT !.op = "walk", !.throughout = Live("academy"),
                              !.todo = Steps(<<"cursorPage">>, "academy", 0)])
    /\ UNCHANGED dbVars
WalkAcademies(r) == "walk" \in Operations /\ ControllerWalk(r)

-----------------------------------------------------------------------------
(* The repositories: one action per query.                                 *)

\* What the rows in `lost` leave behind in the other requests: no walk has to show
\* them any more, and what is being answered about their sports is outdated.
Outdate(requests, lost) ==
    [q \in Requests |-> [Silent(requests)[q] EXCEPT
        !.throughout = @ \ lost, !.disturbed = requests[q].dto.sports # Unset]]

\* get(): for an academy with its sports.
GetOrRaise(r) ==
    /\ At(r, "getOrRaise")
    /\ IF Target(r) \in Live(Table(r))
       THEN /\ Become(r, Proceed(req[r], IF Table(r) = "academy" THEN Shown(Target(r))
                                                                 ELSE NoBody))
            /\ UNCHANGED dbVars
       ELSE Fail(r, AppError("ResourceNotFoundError"))

ExistingSportIds(r) ==
    /\ At(r, "validateSportIds")
    /\ IF req[r].dto.sports \subseteq sports
       THEN Become(r, Proceed(req[r], NoBody)) /\ UNCHANGED dbVars
       ELSE Fail(r, AppError("ResourceNotFoundError"))

\* acreate(): the row gets the next key, and the steps ahead are about that row.
Create(r, table, row) ==
    LET id == given[table] + 1
        ahead == [i \in DOMAIN req[r].todo |-> [req[r].todo[i] EXCEPT !.id = id]]
        state == [req[r] EXCEPT !.todo = ahead, !.wrote = TRUE]
    IN  /\ id \in DOMAIN tables[table]
        /\ given' = [given EXCEPT ![table] = id]
        /\ tables' = [tables EXCEPT ![table][id] = row]
        /\ Become(r, Proceed(state, IF table = "academy" THEN NoBody
                                    ELSE MembershipShown(id, row)))
        /\ UNCHANGED <<sportsOf, sports, users>>

InsertAcademy(r) ==
    /\ At(r, "insert") /\ Table(r) = "academy"
    /\ IF req[r].dto.owner \in users
       THEN Create(r, "academy", [owner |-> req[r].dto.owner, stamp |-> "atCreation",
                                  data |-> req[r].dto.data])
       ELSE Fail(r, OtherError("ForeignKeyViolation"))

\* unique_together of Membership.
UniqueTogether(user, academy) == \A m \in Live("membership") :
    tables.membership[m].user # user \/ tables.membership[m].academy # academy

InsertMembership(r) ==
    LET dto == req[r].dto
    IN  /\ At(r, "insert") /\ Table(r) = "membership"
        /\ IF dto.user \notin users \/ dto.academy \notin Live("academy")
           THEN Fail(r, OtherError("ForeignKeyViolation"))
           ELSE IF ~UniqueTogether(dto.user, dto.academy)
           THEN Fail(r, OtherError("UniqueViolation"))
           ELSE Create(r, "membership",
                       [user |-> dto.user, academy |-> dto.academy,
                        stamp |-> "atCreation", data |-> dto.data])

\* update(): aget() of the instance.  bulk_patch passes over a row that is gone.
Load(r) ==
    /\ At(r, "load")
    /\ IF Target(r) \in Live(Table(r))
       THEN /\ Become(r, [Proceed(req[r], NoBody)
                            EXCEPT !.obj = tables[Table(r)][Target(r)]])
            /\ UNCHANGED dbVars
       ELSE IF req[r].op = "bulkPatch"
       THEN /\ Become(r, Proceed([req[r] EXCEPT !.todo = Tail(@)], NoBody))
            /\ UNCHANGED dbVars
       ELSE Fail(r, OtherError("DoesNotExist"))

\* setattr() of the fields that the update names.
Assign(data, changes) ==
    [f \in DOMAIN data |-> IF f \in DOMAIN changes THEN changes[f] ELSE data[f]]

\* update(): asave(update_fields=...) writes these columns and no other, not even
\* updated_at, and fails when the row is gone.
Save_WholeRow(r) ==
    LET table == Table(r)  id == Target(r)
        instance == [req[r].obj EXCEPT !.data = Assign(@, req[r].dto.data)]
    IN  /\ At(r, "save")
        /\ IF id \in Live(table)
           THEN /\ tables' = [tables EXCEPT ![table][id] = instance]
                /\ Become(r, Proceed([req[r] EXCEPT !.wrote = TRUE, !.obj = NoRow,
                                                !.count = @ + 1],
                                     IF table = "academy" THEN NoBody
                                     ELSE MembershipShown(id, instance)))
                /\ UNCHANGED <<sportsOf, sports, users, given>>
           ELSE Fail(r, OtherError("NotUpdated"))
Save_OrInsert(r) ==
    LET table == Table(r)  id == Target(r)
        instance == [req[r].obj EXCEPT !.data = Assign(@, req[r].dto.data)]
    IN  /\ At(r, "save")
        /\ tables' = [tables EXCEPT ![table][id] = instance]
        /\ Become(r, Proceed([req[r] EXCEPT !.wrote = TRUE, !.obj = NoRow,
                                                !.count = @ + 1],
                             IF table = "academy" THEN NoBody
                             ELSE MembershipShown(id, instance)))
        /\ UNCHANGED <<sportsOf, sports, users, given>>
Save(r) ==
    LET table == Table(r)  id == Target(r)
        instance == [req[r].obj EXCEPT !.data = Assign(@, req[r].dto.data)]
    IN  /\ At(r, "save")
        /\ IF id \in Live(table)
           THEN /\ tables' = [tables EXCEPT ![table][id].data =
                                                Assign(@, req[r].dto.data)]
                /\ Become(r, Proceed([req[r] EXCEPT !.wrote = TRUE, !.obj = NoRow,
                                                !.count = @ + 1],
                                     IF table = "academy" THEN NoBody
                                     ELSE MembershipShown(id, instance)))
                /\ UNCHANGED <<sportsOf, sports, users, given>>
           ELSE Fail(r, OtherError("NotUpdated"))

\* bulk_patch(fast=True): one UPDATE.
UpdateAll(r) ==
    LET matched == req[r].rows \intersect Live("academy")
    IN  /\ At(r, "updateAll")
        /\ tables' = [tables EXCEPT !.academy = [a \in AcademyIds |->
               IF a \in matched
               THEN [tables.academy[a] EXCEPT !.data = Assign(@, req[r].dto.data)]
               ELSE tables.academy[a]]]
        /\ Become(r, Proceed([req[r] EXCEPT !.wrote = TRUE,
                                            !.count = Cardinality(matched)], NoBody))
        /\ UNCHANGED <<sportsOf, sports, users, given>>

\* set_sports(): aget(), aset() and aget() with the sports.
LoadForSports(r) ==
    /\ At(r, "loadForSports")
    /\ IF Target(r) \in Live("academy")
       THEN Become(r, Proceed(req[r], NoBody)) /\ UNCHANGED dbVars
       ELSE Fail(r, OtherError("DoesNotExist"))

SetSports_AddsOnly(r) ==
    LET id == Target(r)  wanted == req[r].dto.sports
    IN  /\ At(r, "setSports")
        /\ IF wanted \subseteq sports /\ (wanted = {} \/ id \in Live("academy"))
           THEN /\ sportsOf' = [sportsOf EXCEPT ![id] = @ \union wanted]
                /\ req' = [Outdate(req, {}) EXCEPT ![r] =
                       [Proceed(req[r], NoBody) EXCEPT !.wrote = TRUE,
                                                       !.disturbed = FALSE]]
                /\ UNCHANGED <<tables, sports, users, given>>
           ELSE Fail(r, OtherError("ForeignKeyViolation"))
SetSports(r) ==
    LET id == Target(r)  wanted == req[r].dto.sports
    IN  /\ At(r, "setSports")
        /\ IF wanted \subseteq sports /\ (wanted = {} \/ id \in Live("academy"))
           THEN /\ sportsOf' = [sportsOf EXCEPT ![id] = wanted]
                /\ req' = [Outdate(req, {}) EXCEPT ![r] =
                       [Proceed(req[r], NoBody) EXCEPT !.wrote = TRUE,
                                                       !.disturbed = FALSE]]
                /\ UNCHANGED <<tables, sports, users, given>>
           ELSE Fail(r, OtherError("ForeignKeyViolation"))

Reload(r) ==
    /\ At(r, "reload")
    /\ IF Target(r) \in Live("academy")
       THEN Become(r, Proceed(req[r], Shown(Target(r)))) /\ UNCHANGED dbVars
       ELSE Fail(r, OtherError("DoesNotExist"))

\* adelete(): the memberships of the academies go with them, and their sports.
MembershipsOf(ids) == {m \in Live("membership") : tables.membership[m].academy \in ids}
DeleteRows_NoCascade(ids) ==
    /\ tables' = [academy |-> [a \in AcademyIds |->
                      IF a \in ids THEN NoRow ELSE tables.academy[a]],
                  membership |-> [m \in MembershipIds |->
                      tables.membership[m]]]
    /\ sportsOf' = [a \in AcademyIds |-> IF a \in ids THEN {} ELSE sportsOf[a]]
    /\ UNCHANGED <<sports, users, given>>
DeleteRows(ids) ==
    /\ tables' = [academy |-> [a \in AcademyIds |->
                      IF a \in ids THEN NoRow ELSE tables.academy[a]],
                  membership |-> [m \in MembershipIds |->
                      IF m \in MembershipsOf(ids) THEN NoRow
                      ELSE tables.membership[m]]]
    /\ sportsOf' = [a \in AcademyIds |-> IF a \in ids THEN {} ELSE sportsOf[a]]
    /\ UNCHANGED <<sports, users, given>>

\* delete() counts a row whether it was there or not.
Delete(r) ==
    /\ At(r, "delete")
    /\ DeleteRows({Target(r)})
    /\ req' = [Outdate(req, {Target(r)}) EXCEPT ![r] =
           Proceed([req[r] EXCEPT !.wrote = TRUE, !.count = @ + 1], NoBody)]

\* bulk_delete(fast=True): what adelete() counts includes the rows of the cascade.
DeleteAll(r) ==
    LET ids == req[r].rows \intersect Live("academy")
        related == {pair \in ids \X SportIds : pair[2] \in sportsOf[pair[1]]}
    IN  /\ At(r, "deleteAll")
        /\ DeleteRows(ids)
        /\ req' = [Outdate(req, ids) EXCEPT ![r] =
               Proceed([req[r] EXCEPT !.wrote = TRUE,
                            !.count = Cardinality(ids) + Cardinality(MembershipsOf(ids))
                                          + Cardinality(related)], NoBody)]

\* The rows a list is about, newest first from the offset, at most Limit.
Matching(r) ==
    IF Table(r) = "academy" THEN Live("academy")
    ELSE MembershipsOf({req[r].dto.academy})
PageAt(S, offset) == {i \in S : LET newer == Cardinality({j \in S : j > i})
                                IN  offset <= newer /\ newer < offset + Limit}
Page(r) ==
    /\ At(r, "page")
    /\ Become(r, [Proceed(req[r], NoBody) EXCEPT !.rows = PageAt(Matching(r),
                                                                 req[r].cursor)])
    /\ UNCHANGED dbVars

\* The pagination of a list.
OffsetPaginatedResponse == [id : {0}, returned : 0..Limit, hasMore : BOOLEAN]

\* count(), and the pagination that the controller makes of it.
Count(r) ==
    LET shown == req[r].rows  total == Cardinality(Matching(r))
    IN  /\ At(r, "count")
        /\ Become(r, Proceed(req[r],
               [id |-> 0, returned |-> Cardinality(shown),
                hasMore |-> req[r].cursor + Cardinality(shown) < total]))
        /\ UNCHANGED dbVars

\* list_cursor(): the page after the cursor, and the next cursor if there is more.
Smallest(n, S) == {i \in S : Cardinality({j \in S : j < i}) < n}
Largest(S) == CHOOSE i \in S : \A j \in S : j <= i

CursorPage_DropsLast(r) ==
    LET items == Smallest(Limit + 1, {i \in Live("academy") : i > req[r].cursor})
        kept == Smallest(Limit, items)
        times == [a \in AcademyIds |->
                     req[r].times[a] + (IF a \in kept THEN 1 ELSE 0)]
    IN  /\ At(r, "cursorPage")
        /\ Become(r, IF Cardinality(items) > Limit
                     THEN [req[r] EXCEPT !.cursor = Largest(items), !.times = times]
                     ELSE Proceed(req[r], [id |-> 0, times |-> times]))
        /\ UNCHANGED dbVars
CursorPage(r) ==
    LET items == Smallest(Limit + 1, {i \in Live("academy") : i > req[r].cursor})
        kept == Smallest(Limit, items)
        times == [a \in AcademyIds |->
                     req[r].times[a] + (IF a \in kept THEN 1 ELSE 0)]
    IN  /\ At(r, "cursorPage")
        /\ Become(r, IF Cardinality(items) > Limit
                     THEN [req[r] EXCEPT !.cursor = Largest(kept), !.times = times]
                     ELSE Proceed(req[r], [id |-> 0, times |-> times]))
        /\ UNCHANGED dbVars

-----------------------------------------------------------------------------
(* The Django admin.                                                       *)

AdminDeleteSport(s) ==
    /\ s \in sports
    /\ sports' = sports \ {s}
    /\ sportsOf' = [a \in AcademyIds |-> sportsOf[a] \ {s}]
    /\ req' = Outdate(req, {})
    /\ UNCHANGED <<tables, users, given>>

\* on_delete: PROTECT for the academies a user owns, CASCADE for the memberships.
AdminDeleteUser(u) ==
    /\ u \in users
    /\ \A a \in Live("academy") : tables.academy[a].owner # u
    /\ users' = users \ {u}
    /\ req' = Silent(req)
    /\ tables' = [tables EXCEPT !.membership = [m \in MembershipIds |->
           IF m \in Live("membership") /\ tables.membership[m].user = u THEN NoRow
           ELSE tables.membership[m]]]
    /\ UNCHANGED <<sportsOf, sports, given>>

-----------------------------------------------------------------------------
Init ==
    /\ tables = [academy |-> [a \in AcademyIds |-> NoRow],
                 membership |-> [m \in MembershipIds |-> NoRow]]
    /\ sportsOf = [a \in AcademyIds |-> {}]
    /\ sports = SportIds
    /\ users = Users
    /\ given = [academy |-> 0, membership |-> 0]
    /\ req = [r \in Requests |-> Idle]

Endpoint(r) ==
    \/ CreateAcademy(r) \/ UpdateAcademy(r) \/ PatchAcademy(r) \/ DeleteAcademy(r)
    \/ GetAcademy(r) \/ ListAcademies(r)
    \/ ApplyMembership(r) \/ ApproveMembership(r) \/ RejectMembership(r)
    \/ ListMemberships(r)
    \/ BulkDeleteAcademies(r) \/ BulkPatchAcademies(r) \/ WalkAcademies(r)

Query(r) ==
    \/ GetOrRaise(r) \/ ExistingSportIds(r) \/ InsertAcademy(r) \/ InsertMembership(r)
    \/ Load(r) \/ Save(r) \/ UpdateAll(r)
    \/ LoadForSports(r) \/ SetSports(r) \/ Reload(r)
    \/ Delete(r) \/ DeleteAll(r) \/ Page(r) \/ Count(r) \/ CursorPage(r)

Next ==
    \/ \E r \in Requests : Endpoint(r) \/ Query(r)
    \/ \E s \in SportIds : AdminDeleteSport(s)
    \/ \E u \in Users : AdminDeleteUser(u)

Spec == Init /\ [][Next]_vars

-----------------------------------------------------------------------------
(* Properties.                                                             *)

\* The rows are well formed: only values that a validator has passed are stored.
TypeOK ==
    /\ tables.academy \in [AcademyIds -> Academy \union {NoRow}]
    /\ tables.membership \in [MembershipIds -> Membership \union {NoRow}]
    /\ sportsOf \in [AcademyIds -> SUBSET SportIds]
    /\ sports \subseteq SportIds /\ users \subseteq Users
    /\ given.academy \in 0..MaxAcademies /\ given.membership \in 0..MaxMemberships
    /\ DOMAIN req = Requests
    /\ \A r \in Requests :
        /\ req[r].dto \in AcademyCreateDTO \union AcademyUpdateDTO
                          \union AcademyPatchDTO \union MembershipCreateDTO
                          \union StatusDTO
        /\ req[r].answer.body \in {NoBody} \union AcademyResponseSchema
                \union MembershipResponseSchema \union OffsetPaginatedResponse
                \union [id : {0}, times : [AcademyIds -> 0..1]]

References ==
    /\ \A a \in Live("academy") : tables.academy[a].owner \in users
    /\ \A m \in Live("membership") : /\ tables.membership[m].user \in users
                                     /\ tables.membership[m].academy \in Live("academy")
    /\ \A a \in AcademyIds : /\ sportsOf[a] \subseteq sports
                             /\ sportsOf[a] # {} => a \in Live("academy")

OneMembership == \A m, n \in Live("membership") :
    /\ tables.membership[m].user = tables.membership[n].user
    /\ tables.membership[m].academy = tables.membership[n].academy
    => m = n

\* Whatever is deleted while requests run, every row refers to rows that exist, and
\* a user has at most one membership of an academy (on_delete of the models,
\* set_sports, unique_together).
Integrity == References /\ OneMembership

\* A row that has been deleted never comes back, though a request that loaded it
\* before saves it afterwards (BaseRepository.update).
DeletedStaysGone == [][\A table \in {"academy", "membership"} :
    \A id \in 1..given[table] :
        tables[table][id] = NoRow => tables'[table][id] = NoRow]_vars

\* A request changes no column that it does not name: of two requests that patch
\* different columns of one academy at once neither undoes the other
\* (BaseRepository.update, partial_update).
OnlyNamedColumns == [][\A a \in Live("academy"), f \in Fields :
    /\ tables'.academy[a] # NoRow
    /\ tables'.academy[a].data[f] # tables.academy[a].data[f]
    => \E r \in Running : f \in DOMAIN req[r].dto.data]_vars

\* A request that is answered 404 has changed nothing, unless the academy it was
\* changing was deleted meanwhile (create, update, partial_update).
RefusedChangesNothing == [][\A r \in Running :
    Ended(r)' /\ req[r]'.answer.status = 404 /\ req[r].wrote
        => Target(r) \notin Live("academy")]_vars

\* What a POST, PUT or PATCH answers shows the sports it set, unless somebody set
\* or deleted them since (set_sports).
AnswersShowOwnSports == [][\A r \in Running :
    /\ Ended(r)' /\ Success(req[r]'.answer.status)
    /\ req[r].op \in {"create", "update", "patch"} /\ req[r].dto.sports # Unset
    => req[r]'.answer.body.sports = req[r].dto.sports \/ req[r].disturbed]_vars

\* A client that follows the cursors sees every row that existed all along, and
\* none twice, whatever is inserted or deleted meanwhile (list_cursor).
WalkShowsAll == [][\A r \in Running : Ended(r)' /\ req[r].op = "walk" =>
    \A a \in AcademyIds :
        LET times == req[r]'.answer.body.times[a]
        IN  times <= 1 /\ (a \in req[r].throughout => times = 1)]_vars
=============================================================================
