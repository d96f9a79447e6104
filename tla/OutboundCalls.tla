---------------------------- MODULE OutboundCalls ----------------------------
(* Calls of the AWS helpers core/utils/s3.py and core/utils/ses.py, each behind       *)
(* @resilient: a breaker per service around a retry loop around the function. The     *)
(* store holds one object and the mail service a list of deliveries; a request may    *)
(* be refused, may not arrive, or may be carried out with its response lost.          *)
EXTENDS Integers, FiniteSets, ExceptionClasses

CONSTANTS Calls,          \* calls of a helper, by name
          Mixes,          \* which helper each call is to, in every mix considered
          MaxAttempts,    \* retry.max_attempts
          FailMax,        \* circuit_breaker.fail_max
          MaxRewrites,    \* bound: changes other programs make to the object
          MaxResets       \* bound: expiries of reset_timeout

Services == {"s3", "ses"}
Uploads == {"upload_json_to_s3", "upload_file_to_s3"}
Reads == {"fetch_json_from_s3", "fetch_bytes_from_s3", "head_s3_object"}
Kinds == Uploads \cup Reads \cup {"send_email", "delete_s3_object", "generate_presigned_url"}
ServiceOf(k) == IF k = "send_email" THEN "ses" ELSE "s3"

ASSUME OutboundAssumption ==
    /\ Mixes \subseteq [Calls -> Kinds]
    /\ MaxAttempts \in Nat \ {0} /\ FailMax \in Nat \ {0} /\ MaxRewrites \in Nat /\ MaxResets \in Nat

VARIABLES
    kind,       \* per call, the helper
    object,     \* the stored object: absent, whole, short, not JSON, or over max_size
    mails,      \* deliveries: the call and the attempt whose Message-ID each carries
    breaker,    \* per service, closed, open or half_open
    failures,   \* per service, the breaker's failure count
    cpc, tries, error, stream,
                \* per call: next step, attempts made, the exception to be raised ("none"),
                \* and whether the file-like object has been read
    stored,     \* history, per call: what the last attempt that got through left in the store
    seen,       \* history, per call: the contents of the object at its attempts
    harm,       \* history, per service: failures since it last worked that are not "no such object"
    rewrites, resets

outboundVars == <<kind, object, mails, breaker, failures, cpc, tries, error, stream, stored, seen,
                  harm, rewrites, resets>>
worldVars == <<kind, object, mails, stored, seen, rewrites>>

Contents == {"absent", "whole", "short", "text", "big"}

OutboundInit ==
    /\ kind \in Mixes /\ object \in {"absent", "whole"} /\ mails = {}
    /\ breaker = [s \in Services |-> "closed"] /\ failures = [s \in Services |-> 0]
    /\ cpc = [c \in Calls |-> "start"] /\ tries = [c \in Calls |-> 0]
    /\ error = [c \in Calls |-> "none"] /\ stream = [c \in Calls |-> FALSE]
    /\ stored = [c \in Calls |-> "absent"] /\ seen = [c \in Calls |-> {}]
    /\ harm = [s \in Services |-> 0] /\ rewrites = 0 /\ resets = 0

(* ------------------------------------------------------------ policies and errors *)

(* Every failure of an external service is retried. *)
MutantRetryOn == {"ExternalServiceError"}

(* RESILIENCE["defaults"]["retry"]["retry_on"].                                       *)
RetryOn == {"resilience_kit.TransientError", "resilience_kit.ExternalTimeoutError"}
Retryable(e) == \E d \in RetryOn : IsInstance(e, d)

(* The service is registered without its exclusion. *)
MutantExcluded(s) == {}

(* _register_resilience_services: s3 has an entry, ses runs on the defaults.          *)
Excluded(s) == IF s = "s3" THEN {"S3NotFoundError"} ELSE {}
Counted(s, e) == ~ \E d \in Excluded(s) : IsInstance(e, d)

(* _s3_call: "no such object" keeps a class of its own, all else is S3Exception.      *)
S3Call(outcome) == IF outcome = "no_such_key" THEN "S3NotFoundError" ELSE "S3Exception"

(* _classify_client_error, and send_email's branch for BotoCoreError.                 *)
ClassifySes(outcome) == IF outcome = "rejected" THEN "SESException" ELSE "TransientError"

(* What the function makes of an attempt: the exception it raises, or "none". A       *)
(* request whose response is lost fails like one that never arrived.                  *)
SendEmail(outcome) == IF outcome = "done" THEN "none" ELSE ClassifySes(outcome)

FetchJson(outcome) ==
    IF outcome # "done" THEN S3Call(outcome)
    ELSE IF object \in {"text", "big"} THEN "S3Exception" ELSE "none"

FetchBytes(outcome) ==
    IF outcome # "done" THEN S3Call(outcome) ELSE IF object = "big" THEN "S3Exception" ELSE "none"

DeleteObject(outcome) == IF outcome \in {"done", "no_such_key"} THEN "none" ELSE S3Call(outcome)

Translate(c, outcome) ==
    CASE kind[c] = "send_email" -> SendEmail(outcome)
      [] kind[c] = "fetch_json_from_s3" -> FetchJson(outcome)
      [] kind[c] = "fetch_bytes_from_s3" -> FetchBytes(outcome)
      [] kind[c] = "delete_s3_object" -> DeleteObject(outcome)
      [] OTHER -> IF outcome = "done" THEN "none" ELSE S3Call(outcome)

(* What an upload stores: json.dumps runs again on a retry, a stream that was read     *)
(* has nothing left.                                                                  *)
UploadContent(c) == IF kind[c] = "upload_file_to_s3" /\ stream[c] THEN "short" ELSE "whole"

(* An attempt is carried out (and answered, or not), refused, or never arrives. A     *)
(* presigned URL is computed without a request.                                       *)
Outcomes(c) ==
    LET k == kind[c]
    IN  CASE k = "generate_presigned_url" -> {"done", "unreachable"}
          [] k \in Reads /\ object = "absent" -> {"no_such_key", "throttled", "rejected", "unreachable"}
          [] k = "delete_s3_object" /\ object = "absent" ->
                {"done", "no_such_key", "throttled", "rejected", "unreachable"}
          [] OTHER -> {"done", "lost", "throttled", "rejected", "unreachable"}

(* ------------------------------------------------------------------------ actions *)

(* The breaker answers first; then the function checks its input.                     *)
Begin(c) ==
    LET k == kind[c]
        refused == breaker[ServiceOf(k)] = "open"
    IN  \E wellFormed \in BOOLEAN :
            /\ cpc[c] = "start" /\ (k \in Uploads => wellFormed)
            /\ error' = [error EXCEPT ![c] = IF refused THEN "ServiceUnavailableError"
                                             ELSE IF wellFormed THEN "none"
                                             ELSE IF k = "send_email" THEN "SESException"
                                             ELSE "InvalidInputError"]
            /\ cpc' = [cpc EXCEPT ![c] = IF refused THEN "done" ELSE IF wellFormed THEN "attempt" ELSE "record"]
            /\ UNCHANGED <<worldVars, breaker, failures, tries, stream, harm, resets>>

(* One attempt. An upload reads its file from where it stands; the Message-ID of a     *)
(* mail is new each time.                                                             *)
Attempt(c) ==
    \E outcome \in Outcomes(c) :
        LET k == kind[c]
            carriedOut == outcome \in {"done", "lost"}
            raised == Translate(c, outcome)
        IN  /\ cpc[c] = "attempt"
            /\ tries' = [tries EXCEPT ![c] = @ + 1]
            /\ stream' = [stream EXCEPT ![c] = @ \/ k = "upload_file_to_s3"]
            /\ object' = IF ~carriedOut THEN object ELSE IF k \in Uploads THEN UploadContent(c)
                         ELSE IF k = "delete_s3_object" THEN "absent" ELSE object
            /\ stored' = IF carriedOut /\ k \in Uploads THEN [stored EXCEPT ![c] = UploadContent(c)] ELSE stored
            /\ seen' = [seen EXCEPT ![c] = @ \cup {object'}]
            /\ mails' = IF carriedOut /\ k = "send_email" THEN mails \cup {<<c, tries'[c]>>} ELSE mails
            /\ error' = [error EXCEPT ![c] = raised]
            /\ cpc' = [cpc EXCEPT ![c] =
                         IF raised # "none" /\ Retryable(raised) /\ tries'[c] < MaxAttempts
                         THEN "attempt" ELSE "record"]
            /\ UNCHANGED <<kind, breaker, failures, harm, rewrites, resets>>

(* The breaker sees the final outcome after all retries.                              *)
Record(c) ==
    LET s == ServiceOf(kind[c])
        e == error[c]
    IN  /\ cpc[c] = "record"
        /\ cpc' = [cpc EXCEPT ![c] = "done"]
        /\ failures' = [failures EXCEPT ![s] = IF e = "none" THEN 0 ELSE IF Counted(s, e) THEN @ + 1 ELSE @]
        /\ breaker' = [breaker EXCEPT ![s] =
                         IF e = "none" THEN IF @ = "open" THEN @ ELSE "closed"
                         ELSE IF Counted(s, e) /\ (@ = "half_open" \/ failures'[s] >= FailMax)
                         THEN "open" ELSE @]
        /\ harm' = [harm EXCEPT ![s] = IF e = "none" THEN IF breaker[s] = "open" THEN @ ELSE 0
                                       ELSE IF e = "S3NotFoundError" THEN @ ELSE @ + 1]
        /\ UNCHANGED <<worldVars, tries, error, stream, resets>>

(* reset_timeout has passed: the next call is let through.                            *)
HalfOpen(s) ==
    /\ breaker[s] = "open" /\ resets < MaxResets
    /\ resets' = resets + 1 /\ breaker' = [breaker EXCEPT ![s] = "half_open"]
    /\ UNCHANGED <<worldVars, failures, cpc, tries, error, stream, harm>>

(* Another program writes or removes the object.                                      *)
Rewrite ==
    /\ rewrites < MaxRewrites /\ rewrites' = rewrites + 1
    /\ object' \in Contents \ {object, "short"}
    /\ UNCHANGED <<kind, mails, breaker, failures, cpc, tries, error, stream, stored, seen, harm, resets>>

OutboundNext ==
    \/ \E c \in Calls : Begin(c) \/ Attempt(c) \/ Record(c)
    \/ \E s \in Services : HalfOpen(s)
    \/ Rewrite

OutboundSpec == OutboundInit /\ [][OutboundNext]_outboundVars

------------------------------------------------------------------------------
(* What must hold. *)

Returned(c) == cpc[c] = "done" /\ error[c] = "none"

(* A helper that returns tells the truth, whatever other calls and writers did and      *)
(* although responses get lost: an upload's last write left the whole content,          *)
(* send_email's Message-ID was delivered, a read or a head saw the object, and "no such *)
(* object" was so. It holds because no class the helpers raise is among those that      *)
(* retry_on names, so that each call makes one attempt: retrying ExternalServiceError,   *)
(* as the docstrings of the helpers say, would upload a stream that was already read.   *)
(* A failure of the service, "no such object" included, is answered 502.               *)
AnswersTruthful ==
    \A c \in Calls :
        /\ Returned(c) /\ kind[c] \in Uploads => stored[c] = "whole"
        /\ Returned(c) /\ kind[c] = "send_email" => <<c, tries[c]>> \in mails
        /\ Returned(c) /\ kind[c] \in Reads => seen[c] \ {"absent"} # {}
        /\ cpc[c] = "done" /\ error[c] = "S3NotFoundError" => "absent" \in seen[c]
        /\ cpc[c] = "done" /\ IsInstance(error[c], "ExternalServiceError")
              => HandlerStatus(error[c], 0, CoreMappings \o AccountMappings) = 502

(* A breaker opens only after FailMax failures of its service since it last worked that *)
(* were not "no such object", in whatever order concurrent calls report: probing for     *)
(* absent objects never turns the other calls away (_register_resilience_services).      *)
AbsentNeverBlocks ==
    \A s \in Services : breaker[s] = "open" => harm[s] >= FailMax
==============================================================================
