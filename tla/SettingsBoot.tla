---------------------------- MODULE SettingsBoot -----------------------------
(* Start of a process as config/settings/__init__.py runs it: DJANGO_ENV, the .env   *)
(* file, AWS Secrets Manager, the settings module of the environment with its checks, *)
(* and the merge. The supervisor starts a process again after it ended. A value is a  *)
(* pair <<text, layer it comes from>>; of a text only what the checks look at is kept: *)
(* empty, weak (the default password, a wildcard, not a number) or good.              *)
EXTENDS Naturals

CONSTANTS Environments,   \* values DJANGO_ENV may have, "" for none
          Machines,       \* configurations: [os, file, secret], each a text or "unset" per key
          MaxStarts       \* bound: starts of the process

Required == {"POSTGRES_DB", "POSTGRES_HOST", "ALLOWED_HOSTS", "JWT_SIGNING_KEY", "FIELD_ENCRYPTION_KEY"}
Keys == Required \cup {"SECRET_KEY", "AWS_SECRET_NAME", "POSTGRES_PASSWORD", "CORS_ALLOWED_ORIGINS",
                       "VALKEY_CACHE_URL", "CELERY_BROKER_URL", "CELERY_RESULT_BACKEND",
                       "CELERY_WORKER_CONCURRENCY", "DEBUG"}
Texts == {"", "weak", "good"}
Layer == [Keys -> Texts \cup {"unset"}]
Unset == <<"unset", "none">>
_VALID_ENVS == {"local", "dev", "uat", "prod", "test"}

ASSUME SettingsAssumption ==
    /\ Machines \subseteq [os : Layer, file : Layer, secret : Layer]
    /\ MaxStarts \in Nat /\ Environments \subseteq _VALID_ENVS \cup {"", "staging"}

VARIABLES env, machine,   \* DJANGO_ENV, and what the machine and the secret hold
          bpc,            \* next stage of the start, or booted, refused
          environ,        \* os.environ: a value per key
          fetched,        \* whether the secret was read in this start
          settings,       \* what django.conf.settings shows once booted
          starts

bootVars == <<env, machine, bpc, environ, fetched, settings, starts>>

NoSettings == [SIGNING_KEY |-> Unset]

BootInit ==
    /\ env \in Environments /\ machine \in Machines
    /\ bpc = "env" /\ environ = [k \in Keys |-> Unset] /\ fetched = FALSE
    /\ settings = NoSettings /\ starts = 1

(* ------------------------------------------------------------ reading the environment *)

Has(e, k) == e[k] # Unset
ValueText(e, k) == e[k][1]
Truthy(e, k) == Has(e, k) /\ ValueText(e, k) # ""
Getenv(e, k, default) == IF Has(e, k) THEN e[k] ELSE <<default, "default">>
Or(e, k, other) == IF Truthy(e, k) THEN e[k] ELSE e[other]

(* _env_int raises for a text that is not a number, the empty one included.            *)
EnvIntFails(e, k) == Has(e, k) /\ ValueText(e, k) # "good"

(* setdefault semantics: what is there stays.                                         *)
Overlay(e, layer, name) ==
    [k \in Keys |-> IF Has(e, k) \/ layer[k] = "unset" THEN e[k] ELSE <<layer[k], name>>]

(* ------------------------------------------------------------------ the settings modules *)

Databases(e) == [NAME |-> Getenv(e, "POSTGRES_DB", "app"), HOST |-> Getenv(e, "POSTGRES_HOST", "localhost"),
                 PASSWORD |-> Getenv(e, "POSTGRES_PASSWORD", "postgres")]
CorsAllowAll(e) == Has(e, "CORS_ALLOWED_ORIGINS") /\ ValueText(e, "CORS_ALLOWED_ORIGINS") = "weak"
CacheLocation(e) == Getenv(e, "VALKEY_CACHE_URL", "valkey://localhost:6379/2")
BrokerUrl(e) == Getenv(e, "CELERY_BROKER_URL", "")
FieldEncryptionKey(e) == Or(e, "FIELD_ENCRYPTION_KEY", "SECRET_KEY")
SigningKey(e) == Or(e, "JWT_SIGNING_KEY", "SECRET_KEY")
Hosts(e) == ValueText(e, "ALLOWED_HOSTS") = "good"     \* not only commas and blanks
Throttled == "UserTierThrottle, BurstThrottle"

(* config.settings.base: refuses without SECRET_KEY and on a number that is none.       *)
BaseRefuses(e) == ~Truthy(e, "SECRET_KEY") \/ EnvIntFails(e, "CELERY_WORKER_CONCURRENCY")
BaseModule(e) ==
    [SIGNING_KEY |-> SigningKey(e), field_encryption_key |-> FieldEncryptionKey(e),
     DATABASES |-> Databases(e), CORS_ALLOW_ALL_ORIGINS |-> CorsAllowAll(e),
     CACHES |-> CacheLocation(e), CELERY_BROKER_URL |-> BrokerUrl(e),
     ALLOWED_HOSTS |-> Hosts(e), DEBUG |-> ValueText(e, "DEBUG") = "good",
     THROTTLES |-> Throttled]

LocalModule(e) == [BaseModule(e) EXCEPT !.DEBUG = TRUE, !.ALLOWED_HOSTS = TRUE, !.THROTTLES = "none",
                                        !.CACHES = Getenv(e, "VALKEY_CACHE_URL", "valkey://valkey:6379/2")]

(* test.py seeds SECRET_KEY before it imports base, and replaces what leaves the process. *)
TestEnviron(e) == IF Has(e, "SECRET_KEY") THEN e
                  ELSE [e EXCEPT !["SECRET_KEY"] = <<"good", "default">>]
TestModule(e) == [BaseModule(e) EXCEPT !.DEBUG = FALSE, !.ALLOWED_HOSTS = TRUE, !.THROTTLES = "none",
                                       !.DATABASES.NAME = Getenv(e, "POSTGRES_DB", "test_app"),
                                       !.CORS_ALLOW_ALL_ORIGINS = TRUE, !.CACHES = <<"locmem", "default">>,
                                       !.CELERY_BROKER_URL = <<"memory", "default">>]

(* dev.py without its check of the two keys. *)
MutantDevRefuses(e) == ~Hosts(e) \/ \E k \in {"POSTGRES_DB", "POSTGRES_HOST"} : ~Truthy(e, k)

DevRefuses(e) == ~Hosts(e) \/ \E k \in Required : ~Truthy(e, k)

UatRefuses(e) ==
    \/ ~Hosts(e) \/ CorsAllowAll(e)
    \/ \E k \in Required \cup {"VALKEY_CACHE_URL", "CELERY_BROKER_URL", "CELERY_RESULT_BACKEND"} : ~Truthy(e, k)

(* prod.py makes the checks of uat.py and one of the password.                          *)
ProdRefuses(e) ==
    UatRefuses(e) \/ ~Truthy(e, "POSTGRES_PASSWORD") \/ ValueText(e, "POSTGRES_PASSWORD") = "weak"

(* Names a module uses that "from .base import *" must bring in: it leaves out names     *)
(* with an underscore, which uat.py imports one by one and prod.py does not.             *)
Uses(n) == CASE n \in {"local", "test"} -> {"REST_FRAMEWORK"} [] n \in {"uat", "prod"} -> {"_env_int"}
             [] OTHER -> {}
Imports(n) == {"REST_FRAMEWORK"} \cup (IF n = "uat" THEN {"_env_int"} ELSE {})
NameErrors(n) == Uses(n) \ Imports(n)

Refuses(n, e) ==
    \/ BaseRefuses(e) \/ NameErrors(n) # {}
    \/ n = "dev" /\ DevRefuses(e)
    \/ n = "uat" /\ UatRefuses(e)
    \/ n = "prod" /\ ProdRefuses(e)

Module(n, e) ==
    CASE n = "local" -> LocalModule(e)
      [] n = "test"  -> TestModule(e)
      [] n = "dev"   -> BaseModule(e)
      [] OTHER       -> [BaseModule(e) EXCEPT !.DEBUG = FALSE]

(* --------------------------------------------------------------------------- the stages *)

(* DJANGO_ENV has no default. Before that, os.environ is what the machine set.           *)
SelectEnv ==
    /\ bpc = "env"
    /\ environ' = Overlay(environ, machine.os, "os")
    /\ bpc' = IF env \in _VALID_ENVS THEN "dotenv" ELSE "refused"
    /\ UNCHANGED <<env, machine, fetched, settings, starts>>

LoadDotenv ==
    /\ bpc = "dotenv"
    /\ environ' = IF env = "test" THEN environ ELSE Overlay(environ, machine.file, "file")
    /\ bpc' = "secrets"
    /\ UNCHANGED <<env, machine, fetched, settings, starts>>

Asks == env \in {"dev", "prod"} /\ Truthy(environ, "AWS_SECRET_NAME")

SkipSecrets ==
    /\ bpc = "secrets" /\ ~Asks /\ bpc' = "module"
    /\ UNCHANGED <<env, machine, environ, fetched, settings, starts>>

LoadSecrets ==
    /\ bpc = "secrets" /\ Asks /\ bpc' = "module" /\ fetched' = TRUE
    /\ environ' = Overlay(environ, machine.secret, "secret")
    /\ UNCHANGED <<env, machine, settings, starts>>

(* Every environment goes on with the .env values. *)
MutantSecretsRefused ==
    /\ bpc = "secrets" /\ Asks /\ bpc' = "module"
    /\ UNCHANGED <<env, machine, environ, fetched, settings, starts>>

(* A ClientError becomes RuntimeError: prod refuses, dev warns and goes on.              *)
SecretsRefused ==
    /\ bpc = "secrets" /\ Asks
    /\ bpc' = IF env = "prod" THEN "refused" ELSE "module"
    /\ UNCHANGED <<env, machine, environ, fetched, settings, starts>>

(* No connection, no credentials, or text that is not JSON: neither is a ClientError, so  *)
(* the exception leaves the module in dev as well.                                       *)
SecretsUnreachable ==
    /\ bpc = "secrets" /\ Asks /\ bpc' = "refused"
    /\ UNCHANGED <<env, machine, environ, fetched, settings, starts>>

ImportModule ==
    /\ bpc = "module"
    /\ environ' = IF env = "test" THEN TestEnviron(environ) ELSE environ
    /\ IF Refuses(env, environ') THEN bpc' = "refused" /\ settings' = settings
       ELSE bpc' = "booted" /\ settings' = Module(env, environ')
    /\ UNCHANGED <<env, machine, fetched, starts>>

(* The process ends and the supervisor starts it again, on the same machine.             *)
Restart ==
    /\ bpc \in {"booted", "refused"} /\ starts < MaxStarts
    /\ starts' = starts + 1 /\ bpc' = "env" /\ fetched' = FALSE /\ settings' = NoSettings
    /\ environ' = [k \in Keys |-> Unset] /\ UNCHANGED <<env, machine>>

BootNext ==
    \/ SelectEnv \/ LoadDotenv \/ SkipSecrets \/ LoadSecrets \/ SecretsRefused
    \/ SecretsUnreachable \/ ImportModule \/ Restart

BootSpec == BootInit /\ [][BootNext]_bootVars

--------------------------------------------------------------------------------
(* What must hold. *)

Deployed == env \in {"dev", "uat", "prod"}
Strict == env \in {"uat", "prod"}

(* However the three layers are filled, a deployed process that came up uses no fallback  *)
(* meant for a developer's machine: its signing and encryption keys are not SECRET_KEY,   *)
(* its database is not the default one, and in uat and prod its cache and broker are set,  *)
(* DEBUG is off, every origin is not allowed, and requests are throttled.                *)
BootedIsConfigured ==
    bpc = "booted" /\ Deployed =>
        /\ settings.SIGNING_KEY = environ["JWT_SIGNING_KEY"]
        /\ settings.field_encryption_key = environ["FIELD_ENCRYPTION_KEY"]
        /\ settings.DATABASES.HOST[2] # "default" /\ settings.DATABASES.NAME[2] # "default"
        /\ settings.ALLOWED_HOSTS /\ settings.THROTTLES = Throttled
        /\ Strict => /\ settings.CACHES[2] # "default" /\ settings.CELERY_BROKER_URL[2] # "default"
                     /\ ~settings.DEBUG /\ ~settings.CORS_ALLOW_ALL_ORIGINS

(* What the operator sets in the OS environment is what the process sees; a secret reaches *)
(* only dev and prod, nothing but the OS environment reaches test, and prod gets past the  *)
(* loader on .env values only when no secret was named.                                  *)
LayersKept ==
    bpc \in {"module", "booted"} =>
        /\ \A k \in Keys : machine.os[k] # "unset" => environ[k] = <<machine.os[k], "os">>
        /\ \A k \in Keys : environ[k][2] = "secret" => env \in {"dev", "prod"} /\ fetched
        /\ \A k \in Keys : env = "test" => environ[k][2] \in {"os", "default", "none"}
        /\ env = "prod" => fetched \/ ~Truthy(environ, "AWS_SECRET_NAME")

WellConfigured ==
    \A k \in Keys : Has(environ, k) /\ ValueText(environ, k) = "good"

(* Against docs/configuration.md, which lists prod among the environments: a start in a    *)
(* valid environment with every variable set is refused only because of Secrets Manager.   *)
CompleteConfigurationBoots ==
    bpc = "refused" /\ env \in _VALID_ENVS /\ WellConfigured => Asks /\ ~fetched
================================================================================
