------------------------------ MODULE AuditText ------------------------------
(* What an audit row shows of a body: sanitize_for_log of core/utils/log_sanitization *)
(* on trees of dictionaries and lists, and serialize_body, summarise_body_for_audit    *)
(* and redact_headers of core/api_log/sanitizers. A text is "plain", "secret" or one   *)
(* that the code puts in its place; characters and lengths are left out, and what is   *)
(* made of a value is the set of its texts. SANITIZE_ENABLED is on. A raw body is the   *)
(* value that its JSON parses to, or else one text.                                   *)
EXTENDS Naturals, Sequences, FiniteSets

CONSTANTS Values,           \* all values that bodies are made of, with what they contain
          Bodies,           \* the values with secrets only under names that are masked or left out
          Forms,            \* multipart forms: sequences of <<field, text or file>>, a field's values together
          Headers,          \* header dictionaries; a name is <<name in lower case, how it is written>>
          API_LOG_SENSITIVE_HEADERS,
          EXCLUDED_FIELDS, SENSITIVE,     \* names left out, names the pattern finds
          MAX_DEPTH, MAX_DICT_KEYS, MAX_LIST_ITEMS

Node(kind, text, items) == [kind |-> kind, text |-> text, items |-> items]
Text(t) == Node("text", t, <<>>)
Bytes == Node("bytes", "", <<>>)
Dict(items) == Node("dict", "", items)
List(items) == Node("list", "", items)

Hidden == EXCLUDED_FIELDS \cup SENSITIVE
SensitiveHeaders == {name[1] : name \in API_LOG_SENSITIVE_HEADERS}

ASSUME AuditTextAssumption == MAX_DEPTH \in Nat \ {0} /\ MAX_DICT_KEYS \in Nat /\ MAX_LIST_ITEMS \in Nat

(* What a value contains is a value.                                                    *)
ASSUME ValuesAssumption ==
    \A v \in Values :
        /\ v.kind \in {"text", "bytes", "dict", "list"} /\ DOMAIN v.items = 1..Len(v.items) /\ Len(v.items) \in Nat
        /\ v.kind = "dict" => \A i \in DOMAIN v.items : v.items[i][2] \in Values
        /\ v.kind = "list" => \A i \in DOMAIN v.items : v.items[i] \in Values

(* What "secret" stands for: a text that is in its place under a hidden name only, at      *)
(* any depth, in a form or in the headers.                                               *)
ASSUME SecretsAssumption ==
    /\ Bodies \subseteq Values
    /\ \A v \in Bodies :
        /\ v.kind = "text" => v.text # "secret"
        /\ v.kind = "dict" => \A i \in DOMAIN v.items : v.items[i][1] \in Hidden \/ v.items[i][2] \in Bodies
        /\ v.kind = "list" => \A i \in DOMAIN v.items : v.items[i] \in Bodies
    /\ \A form \in Forms :
        /\ DOMAIN form = 1..Len(form) /\ Len(form) \in Nat
        /\ \A i \in DOMAIN form : /\ form[i][2] = Bytes \/ form[i][2] = Text(form[i][2].text)
                                  /\ form[i][2] = Text("secret") => form[i][1] \in Hidden
    /\ \A h \in Headers : \A i \in DOMAIN h.items :
        h.items[i][2].text = "secret" => h.items[i][1][1] \in SensitiveHeaders

VARIABLES body,     \* [route, tree]: how it comes, and the body, the form or the headers
          texts     \* the texts that reached the row; {"?"} before

auditVars == <<body, texts>>

(* ---------------------------------------------------------- core/utils/log_sanitization *)

(* The first n positions of a sequence.                                                  *)
Within(s, n) == {i \in DOMAIN s : i <= n}
Truncated(s, n, marker) == IF Len(s) > n THEN {marker} ELSE {}

(* The cap counts the names that are left out too.                                       *)
KeptKeys(items) == {i \in Within(items, MAX_DICT_KEYS) : items[i][1] \notin EXCLUDED_FIELDS}

(* Only a text is masked, a structure under a sensitive name is descended into. *)
MutantSanitizeEntry(item, inner) ==
    IF item[1] \in SENSITIVE /\ item[2].kind = "text" THEN {"***REDACTED***"} ELSE inner[item[2]]

(* A masked value is not descended into. inner is what becomes of values a level down.    *)
SanitizeEntry(item, inner) == IF item[1] \in SENSITIVE THEN {"***REDACTED***"} ELSE inner[item[2]]

SanitizeDict(items, inner) ==
    Truncated(items, MAX_DICT_KEYS, "more keys")
        \cup UNION {SanitizeEntry(items[i], inner) : i \in KeptKeys(items)}

SanitizeIterable(items, inner) ==
    Truncated(items, MAX_LIST_ITEMS, "more items")
        \cup UNION {inner[items[i]] : i \in Within(items, MAX_LIST_ITEMS)}

SanitizeValue(values, inner) ==
    [v \in values |-> CASE v.kind = "dict" -> SanitizeDict(v.items, inner)
                        [] v.kind = "list" -> SanitizeIterable(v.items, inner)
                        [] v.kind = "bytes" -> {"<bytes>"}
                        [] OTHER -> {v.text}]

(* The recursion of _sanitize_value, by the depth that is left: with depth = 0 that is      *)
(* MAX_DEPTH + 1 levels.                                                                  *)
SanitizeForLog(values, v) ==
    LET Left[n \in 0..(MAX_DEPTH + 1)] ==
            IF n = 0 THEN [w \in values |-> {"<max depth exceeded>"}] ELSE SanitizeValue(values, Left[n - 1])
    IN  Left[MAX_DEPTH + 1][v]

(* ---------------------------------------------------------------- core/api_log/sanitizers *)

(* scalar_view: the fields of a form that have a text, by name. Its keys are in the order   *)
(* in which they come first, a repeated one has its last value.                            *)
Scalars(form) == {i \in DOMAIN form : form[i][2].kind = "text"}
KeyPlace(form, name) ==
    LET before == {i \in Scalars(form) : \A j \in Scalars(form) : form[j][1] = name => i <= j}
    IN  Cardinality({form[i][1] : i \in before})
LastValue(form, name) ==
    form[CHOOSE i \in Scalars(form) :
            form[i][1] = name /\ \A j \in Scalars(form) : form[j][1] = name => j <= i][2]

(* redacted_scalars[name], where sanitize_for_log left something there; else the value stays. *)
RedactedValue(form, i) ==
    LET name == form[i][1]
    IN  IF name \in EXCLUDED_FIELDS \/ KeyPlace(form, name) > MAX_DICT_KEYS THEN form[i][2]
        ELSE IF name \in SENSITIVE THEN Text("***REDACTED***") ELSE LastValue(form, name)

(* summarise_body_for_audit, for a QueryDict: of a file, its name and size are kept.         *)
Entry(form, i) ==
    Dict(<< <<"name", Text("plain")>>,
            IF i \in Scalars(form) THEN <<"value", RedactedValue(form, i)>> ELSE <<"size_bytes", Text("plain")>> >>)
Fields(form) == List([i \in DOMAIN form |-> Entry(form, i)])
SummariseBodyForAudit(form) == Dict(<< <<"__multipart__", Text("plain")>>, <<"fields", Fields(form)>> >>)

(* The values a summary is made of.                                                      *)
SummaryValues(form) ==
    {SummariseBodyForAudit(form), Fields(form), Text("plain")}
        \cup {Entry(form, i) : i \in DOMAIN form} \cup {RedactedValue(form, i) : i \in Scalars(form)}

(* build_row of log_inbound and log_outbound: serialize_body, of a form its summary. A body   *)
(* that is not JSON is one text, and stays what it is.                                      *)
SerializeBody(b) ==
    IF b.route = "multipart" THEN SanitizeForLog(SummaryValues(b.tree), SummariseBodyForAudit(b.tree))
    ELSE SanitizeForLog(Values, b.tree)

(* redact_headers: names are compared in lower case, both as sent and as configured.        *)
RedactHeaders(h) ==
    {IF h.items[i][1][1] \in SensitiveHeaders THEN "[REDACTED]" ELSE h.items[i][2].text : i \in DOMAIN h.items}

(* --------------------------------------------------------------------------------- actions *)

AuditInit ==
    /\ texts = {"?"}
    /\ body \in [route : {"body"}, tree : Bodies] \cup [route : {"multipart"}, tree : Forms]
             \cup [route : {"headers"}, tree : Headers]

RenderBody ==
    /\ texts = {"?"} /\ body.route # "headers" /\ body' = body
    /\ texts' = SerializeBody(body)

RenderHeaders ==
    /\ texts = {"?"} /\ body.route = "headers" /\ body' = body
    /\ texts' = RedactHeaders(body.tree)

AuditNext == RenderBody \/ RenderHeaders

AuditSpec == AuditInit /\ [][AuditNext]_auditVars

--------------------------------------------------------------------------------
(* What must hold. *)

(* Fields of a form that the redaction does not reach: their names are left out of the       *)
(* dictionary it works on, or come after its last one.                                     *)
OutOfReach(form, name) == name \in EXCLUDED_FIELDS \/ KeyPlace(form, name) > MAX_DICT_KEYS

(* No value under a sensitive name reaches the row, at any depth of a body that is JSON or a  *)
(* dictionary, of a multipart form or among headers; of a form, only fields out of the       *)
(* redaction's reach show theirs. Any other body (application/x-www-form-urlencoded, say)     *)
(* is one text without names: serialize_body stores it as it came.                          *)
SecretsMasked ==
    "secret" \in texts =>
        /\ body.route = "multipart"
        /\ \E i \in DOMAIN body.tree : body.tree[i][2] = Text("secret") /\ OutOfReach(body.tree, body.tree[i][1])
================================================================================
