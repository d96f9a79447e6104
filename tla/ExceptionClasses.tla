-------------------------- MODULE ExceptionClasses --------------------------
(* The exception classes of core/exceptions and accounts/exceptions.py, each with   *)
(* its base and the status_code it sets on the class, and what reads them: the       *)
(* handler's choice of a status, and isinstance as the retry policy uses it. 0       *)
(* stands for no status_code.                                                        *)
EXTENDS Naturals, Sequences

Class(base, status) == [base |-> base, status |-> status]

(* The kit's own hierarchy, as far as base/exception.py and settings name it.        *)
KitClasses ==
    [c \in {"ResilienceKitError", "resilience_kit.TransientError", "resilience_kit.ExternalTimeoutError"} |->
        Class(IF c = "ResilienceKitError" THEN "Exception" ELSE "ResilienceKitError", 0)]

BaseClass == [BaseCustomError |-> Class("ResilienceKitError", 0)]

InfrastructureClasses ==
    [InfrastructureError |-> Class("BaseCustomError", 0),
     ServiceUnavailableError |-> Class("InfrastructureError", 0),
     ExternalServiceError |-> Class("InfrastructureError", 0),
     TransientError |-> Class("ExternalServiceError", 0),
     ExternalTimeoutError |-> Class("ExternalServiceError", 0)]

ClientClasses ==
    [S3Exception |-> Class("ExternalServiceError", 0),
     S3NotFoundError |-> Class("S3Exception", 0),
     SESException |-> Class("ExternalServiceError", 0),
     OutboundURLNotAllowedError |-> Class("InfrastructureError", 0),
     PartnerPushError |-> Class("ExternalServiceError", 0)]

RepositoryClasses ==
    [RepositoryError |-> Class("BaseCustomError", 0),
     EntityNotFoundError |-> Class("RepositoryError", 0),
     InactiveParentError |-> Class("RepositoryError", 0),
     InvalidInputError |-> Class("RepositoryError", 0)]

AuthClasses ==
    [AuthenticationFailedError |-> Class("BaseCustomError", 401),
     APIKeyRevokedError |-> Class("AuthenticationFailedError", 0),
     PermissionDeniedError |-> Class("BaseCustomError", 403),
     TokenExpiredError |-> Class("AuthenticationFailedError", 0),
     TokenInvalidError |-> Class("AuthenticationFailedError", 0),
     TokenRevokedError |-> Class("AuthenticationFailedError", 0)]

ApiClass == [APIError |-> Class("BaseCustomError", 502)]
RateLimitClass == [RateLimitError |-> Class("BaseCustomError", 429)]
ValidationClass == [ValidationError |-> Class("BaseCustomError", 400)]

AccountClasses ==
    [APIKeyGenerationError |-> Class("InfrastructureError", 0),
     NoFieldsToUpdateError |-> Class("BaseCustomError", 0),
     InvalidTimezoneError |-> Class("BaseCustomError", 0)]

(* No two modules define the same name.                                              *)
ClassTables ==
    {KitClasses, BaseClass, InfrastructureClasses, ClientClasses, RepositoryClasses,
     AuthClasses, ApiClass, RateLimitClass, ValidationClass, AccountClasses}

ClassNames == UNION {DOMAIN table : table \in ClassTables}
ClassOfName == [c \in ClassNames |-> (CHOOSE table \in ClassTables : c \in DOMAIN table)[c]]

(* A class and its bases, nearest first: the chains are at most six long.            *)
Base(c) == IF c \in ClassNames THEN ClassOfName[c].base ELSE c
Mro(c) ==
    LET b1 == Base(c) b2 == Base(b1) b3 == Base(b2) b4 == Base(b3) b5 == Base(b4)
    IN  <<c, b1, b2, b3, b4, b5>>

IsInstance(c, d) == \E i \in DOMAIN Mro(c) : Mro(c)[i] = d

(* getattr(exc, "status_code"): what __init__ was given, else the nearest class's.   *)
StatusAttribute(c, given) ==
    LET own == {i \in DOMAIN Mro(c) : Mro(c)[i] \in ClassNames /\ ClassOfName[Mro(c)[i]].status # 0}
    IN  IF given # 0 THEN given
        ELSE IF own = {} THEN 0
        ELSE ClassOfName[Mro(c)[CHOOSE i \in own : \A j \in own : i <= j]].status

(* The calls of register_exception_mapping at the end of handler.py, in their order, *)
(* and those of AccountsConfig.ready.                                                *)
CoreMappings ==
    << <<"EntityNotFoundError", 404>>, <<"ServiceUnavailableError", 503>>,
       <<"ExternalTimeoutError", 502>>, <<"S3Exception", 502>>, <<"SESException", 502>>,
       <<"ExternalServiceError", 502>>, <<"OutboundURLNotAllowedError", 400>>,
       <<"InactiveParentError", 409>>, <<"InvalidInputError", 400>> >>

AccountMappings ==
    << <<"NoFieldsToUpdateError", 400>>, <<"InvalidTimezoneError", 400>>,
       <<"APIKeyGenerationError", 500>> >>

(* api_exception_handler, for a BaseCustomError: the attribute, else the first       *)
(* mapping in registration order that the class is an instance of, else 500.         *)
HandlerStatus(c, given, mappings) ==
    LET attribute == StatusAttribute(c, given)
        matching == {i \in DOMAIN mappings : IsInstance(c, mappings[i][1])}
    IN  IF attribute # 0 THEN attribute
        ELSE IF matching = {} THEN 500
        ELSE mappings[CHOOSE i \in matching : \A j \in matching : i <= j][2]
==============================================================================
