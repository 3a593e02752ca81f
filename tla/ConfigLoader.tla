--------------------------- MODULE ConfigLoader ---------------------------
(***************************************************************************)
(* LoadConfig of internal/utilities/config_loader.go: the process          *)
(* environment is completed from a .env file, or, in AWS, from the first   *)
(* of an S3 .env object and a Secrets Manager secret that can be read and  *)
(* injected as a whole.  A source may fail half way through the injection; *)
(* what it had set by then stays.                                          *)
(*                                                                         *)
(* A variable that is set to "" reads like one that is not set.  The .env  *)
(* file leaves it alone all the same, because godotenv.Load asks whether   *)
(* it is there; the other two sources ask whether it has a value.          *)
(***************************************************************************)
EXTENDS Naturals

CONSTANTS
  Keys,        \* environment variables
  Values,      \* what they can be set to, beside ""
  Placeholders,  \* values of the kind "xxx" or "multiple x"
  SystemEnvs,  \* what the process may be started with: functions on subsets of Keys
  Content      \* source -> what it defines, a function on a subset of Keys

Sources == {"dotenv", "s3", "secrets"}

\* A value of the secret that is not a JSON string.
NotAString == "(not a string)"

ASSUME ConfigAssumption ==
  /\ "" \notin Values
  /\ \A e \in SystemEnvs : DOMAIN e \subseteq Keys
  /\ DOMAIN Content = Sources
  /\ \A s \in Sources : DOMAIN Content[s] \subseteq Keys
  /\ \A m \in SystemEnvs \union {Content[s] : s \in Sources} :
       \A k \in DOMAIN m : m[k] \in Values \union {""}

VARIABLES
  env,        \* os.Environ: the value of a key and who set it
  loader,     \* where LoadConfig is
  source,     \* the source that is being injected, or was injected as a whole
  remaining   \* keys of it that are still to be visited

configVars == <<env, loader, source, remaining>>

Unset == [value |-> "", from |-> "nobody"]

ConfigTypeOK ==
  /\ env \in [Keys -> [value : Values \union {""}, from : {"nobody", "system"} \union Sources]]
  /\ \A k \in Keys : env[k].from = "nobody" => env[k].value = ""
  /\ loader \in {"start", "injecting", "loaded"} \union Sources
  /\ source \in {"system"} \union Sources
  /\ remaining \in SUBSET Keys

ConfigInit ==
  /\ \E e \in SystemEnvs :
       env = [k \in Keys |-> IF k \in DOMAIN e
                             THEN [value |-> e[k], from |-> "system"] ELSE Unset]
  /\ loader = "start"
  /\ source = "system"
  /\ remaining = {}

\* os.Getenv; a variable outside Keys is one nobody sets.
Getenv(k) == IF k \in Keys THEN env[k].value ELSE ""

Has(k) == Getenv(k) # ""

\* os.LookupEnv would find it.
IsPresent(k) == env[k].from # "nobody"

isInvalidAWSCredential(v) == v = "" \/ v \in Placeholders

IsRunInAWS ==
  \/ Has("AWS_LAMBDA_RUNTIME_API")
  \/ /\ Getenv("IS_AWS") = "true"
     /\ ~isInvalidAWSCredential(Getenv("AWS_ACCESS_KEY_ID"))
     /\ ~isInvalidAWSCredential(Getenv("AWS_SECRET_ACCESS_KEY"))

HasSecretName == Has("SECRET_ARN") \/ Has("SECRET_NAME")

\* Where LoadConfig goes when source s has failed; "start" stands for the
\* entry of loadAWSConfig.  getS3Key has a default, so the bucket decides.
NextSource(s) ==
  IF s = "start" /\ Has("S3_ENV_BUCKET") THEN "s3"
  ELSE IF s \in {"start", "s3"} /\ HasSecretName THEN "secrets"
  ELSE "loaded"

-----------------------------------------------------------------------------
\* Faulty variants of the actions below.

\* A source that fails makes the whole loading start again.
FetchStartingOver(s) ==
  /\ loader = s
  /\ \/ /\ loader' = "injecting"
        /\ source' = s
        /\ remaining' = DOMAIN Content[s]
     \/ /\ loader' = "start"
        /\ UNCHANGED <<source, remaining>>
  /\ UNCHANGED env

InjectFailureIgnored(k) ==
  /\ loader = "injecting"
  /\ source # "dotenv"
  /\ k \in remaining
  /\ ~Has(k)
  /\ Content[source][k] # NotAString
  /\ remaining' = remaining \ {k}
  /\ UNCHANGED <<env, loader, source>>

-----------------------------------------------------------------------------
StartLoading ==
  /\ loader = "start"
  /\ loader' = IF IsRunInAWS THEN NextSource("start") ELSE "dotenv"
  /\ UNCHANGED <<env, source, remaining>>

\* Reading and parsing the whole source, or failing to.
Fetch(s) ==
  /\ loader = s
  /\ \/ /\ loader' = "injecting"
        /\ source' = s
        /\ remaining' = DOMAIN Content[s]
     \/ /\ loader' = NextSource(s)
        /\ UNCHANGED <<source, remaining>>
  /\ UNCHANGED env

\* godotenv.Load skips what is present, the loops over an S3 object and over a
\* secret what has a value (config_loader.go:205 and 315).
Skipped(k) ==
  \/ Content[source][k] = NotAString
  \/ source = "dotenv" /\ IsPresent(k)
  \/ source # "dotenv" /\ Has(k)

\* One round of the loop over the parsed map, in the order of the map.
Inject(k) ==
  /\ loader = "injecting"
  /\ k \in remaining
  /\ remaining' = remaining \ {k}
  /\ IF Skipped(k)
     THEN UNCHANGED env
     ELSE env' = [env EXCEPT ![k] = [value |-> Content[source][k], from |-> source]]
  /\ UNCHANGED <<loader, source>>

\* os.Setenv refuses a malformed name or value, and the source counts as
\* failed.  The local .env file is taken to be well-formed: godotenv.Load, which
\* injects it, would leave the variable out and go on.
InjectFails(k) ==
  /\ loader = "injecting"
  /\ source # "dotenv"
  /\ k \in remaining
  /\ ~Skipped(k)
  /\ loader' = NextSource(source)
  /\ source' = "system"
  /\ remaining' = {}
  /\ UNCHANGED env

FinishSource ==
  /\ loader = "injecting"
  /\ remaining = {}
  /\ loader' = "loaded"
  /\ UNCHANGED <<env, source, remaining>>

ConfigNext ==
  \/ StartLoading \/ FinishSource
  \/ \E s \in Sources : Fetch(s)
  \/ \E k \in Keys : Inject(k) \/ InjectFails(k)

-----------------------------------------------------------------------------
InEffect(s, k) ==
  /\ IsPresent(k)
  /\ s = "dotenv" \/ Content[s][k] = "" \/ Has(k)

\* When LoadConfig settled on a source, every variable that source defines is
\* there, with a value if the source has one, its own or one that an earlier
\* source or the platform had set; only the .env file leaves a variable empty
\* that was there without a value.  And the order of the sources shows:
\* nothing of the secret is in effect beside a complete S3 file, although the
\* remains of a broken S3 file may be beside the secret.
LoadedSourceComplete ==
  loader = "loaded" =>
    /\ source # "system" =>
         \A k \in DOMAIN Content[source] :
           Content[source][k] # NotAString => InEffect(source, k)
    /\ \A k \in Keys :
         env[k].from = "secrets" => source \in {"secrets", "system"}
=============================================================================
