----------------------------- MODULE Responses -----------------------------
(***************************************************************************)
(* What a client is answered: the exception classes of                     *)
(* common/exceptions/exceptions.py, the status that                        *)
(* common/exceptions/exception_handler.py gives to each exception, and the *)
(* envelope of common/api/response.py.  Messages are left out.             *)
(***************************************************************************)
EXTENDS Integers, Sequences

\* The application's exceptions and the status each has by default.
DefaultStatus ==
    [AppBaseError           |-> 400, DeprecationError       |-> 410,
     RequirementNotMetError |-> 400, ResourceNotFoundError  |-> 404,
     ExternalServiceError   |-> 502, InternalServerError    |-> 500,
     PermissionDeniedError  |-> 403, RateLimitError         |-> 429,
     AuthenticationError    |-> 401, DuplicateResourceError |-> 409]

\* An exception as it reaches the handler: its class, and the status it carries
\* if it is one that does.
AppError(class) == [class |-> class, carries |-> DefaultStatus[class]]
HTTPException(code) == [class |-> "HTTPException", carries |-> code]
OtherError(class) == [class |-> class, carries |-> 500]

\* The classes an exception of another library is an instance of.  The two kinds
\* of IntegrityError are told apart by the text of the database's message.
Bases ==
    [HTTPException          |-> {}, RequestValidationError |-> {},
     ValidationError        |-> {"ValueError"},
     DjangoValidationError  |-> {},
     ForeignKeyViolation    |-> {"IntegrityError", "DatabaseError"},
     UniqueViolation        |-> {"IntegrityError", "DatabaseError"},
     NotUpdated             |-> {"DatabaseError"},
     DoesNotExist           |-> {},
     ValueError             |-> {}, TypeError |-> {}, KeyError |-> {},
     FileNotFoundError      |-> {"OSError"}, PermissionError |-> {"OSError"},
     TimeoutError           |-> {"OSError"}, ConnectionError |-> {"OSError"}]

IsInstance(e, class) ==
    \/ e.class = class
    \/ e.class \in DOMAIN DefaultStatus /\ class = "AppBaseError"
    \/ e.class \in DOMAIN Bases /\ class \in Bases[e.class]

\* _handle_app_base_exception and _handle_http_exception.
HandleCarried(e) == e.carries

\* The three handlers of invalid data, of FastAPI, of pydantic and of Django.
HandleInvalid == 422

\* _handle_integrity_error: the message names a foreign key, or it does not.
HandleIntegrityError(e) == IF IsInstance(e, "ForeignKeyViolation") THEN 400 ELSE 409

\* _handle_generic_exception: the classes it knows, in its order.
HandleGenericException(e) ==
    LET Known == {"ValueError", "TypeError", "KeyError", "FileNotFoundError",
                  "PermissionError", "TimeoutError", "ConnectionError"}
        status == [ValueError |-> 400, TypeError |-> 400, KeyError |-> 400,
                   FileNotFoundError |-> 404, PermissionError |-> 403,
                   TimeoutError |-> 408, ConnectionError |-> 503]
        found == {class \in Known : IsInstance(e, class)}
    IN  IF found = {} THEN 500 ELSE status[CHOOSE class \in found : TRUE]

\* handle_all_exceptions: the first family that the exception belongs to.
StatusOf(e) ==
    LET Family == << {"AppBaseError", "HTTPException"},
                     {"RequestValidationError", "ValidationError",
                      "DjangoValidationError"},
                     {"IntegrityError"}, {"DatabaseError"} >>
        In(i) == \E class \in Family[i] : IsInstance(e, class)
    IN  CASE In(1)                             -> HandleCarried(e)
          [] ~In(1) /\ In(2)                   -> HandleInvalid
          [] ~In(1) /\ ~In(2) /\ In(3)         -> HandleIntegrityError(e)
          [] ~In(1) /\ ~In(2) /\ ~In(3) /\ In(4) -> 500
          [] OTHER                             -> HandleGenericException(e)

\* APIResponse.set_default_data: the flag that tells success from failure.
Success(status) == 200 <= status /\ status < 300
=============================================================================
