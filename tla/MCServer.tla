------------------------------ MODULE MCServer ------------------------------
(***************************************************************************)
(* An instance of Server for TLC.                                          *)
(***************************************************************************)
EXTENDS Server, TLC

CONSTANTS v1, v2, i1, i2, r1, r2, s1, s2, s3

\* Two clients, each with a request of its own.
DistinctIds == v1 :> i1 @@ v2 :> i2

-----------------------------------------------------------------------------
\* For r2, s3 is best: it has "notes" twice, and "deploy" as a part of a word.
\* s1 and s2 tie for the place that is left.  For r1, s3 misses the threshold.
Texts ==
  s1 :> <<"deploy", "cloud">> @@ s2 :> <<"deploy">>
  @@ s3 :> <<"deploys", "notes", "notes">>

AllTokens == {"deploy", "deploys", "cloud", "notes", "please", "now"}

Logarithms == <<1000, 1693, 2099, 2386>>

PartialTokens == {<<"deploy", "deploys">>}

\* Every skill, or what is left when s1 and s3 are missing from a listing.
TwoCatalogs == {{s1, s2, s3}, {s2}}

\* r1 names a skill, and another one in its header; r2 leaves the choice to the
\* words.
Messages ==
  r1 :> [id |-> i1, selected |-> s1, header |-> s2,
         words |-> <<"deploy", "please", "now">>]
  @@ r2 :> [id |-> i2, selected |-> NoSkill, header |-> NoSkill,
            words |-> <<"deploy", "notes">>]

\* A good and a bad user_chat frame, one that is not JSON, and one of a type
\* the server sends itself.
AllFrames ==
  {[parses |-> TRUE, type |-> "user_chat", complete |-> TRUE, stamped |-> TRUE],
   [parses |-> TRUE, type |-> "user_chat", complete |-> TRUE, stamped |-> FALSE],
   [parses |-> FALSE, type |-> "", complete |-> FALSE, stamped |-> FALSE],
   [parses |-> TRUE, type |-> "system_chat", complete |-> TRUE, stamped |-> TRUE]}

-----------------------------------------------------------------------------
AllKeys ==
  {"AWS_LAMBDA_RUNTIME_API", "IS_AWS", "AWS_ACCESS_KEY_ID", "S3_ENV_BUCKET",
   "SECRET_NAME", "WEBSOCKET_RUNTIME", "RUNTIME_MODE", "WSS_CERT_FILE",
   "WSS_KEY_FILE", "SKILLS_S3_BUCKET", "LLM_MOCK_MODE"}

\* A developer's machine, a Lambda with an S3 object and perhaps a secret, and
\* a machine with the placeholders of the sample file.  The developer emptied
\* a variable that the .env file defines, the Lambda one that its sources define.
Environments ==
  {"SKILLS_S3_BUCKET" :> "skills" @@ "RUNTIME_MODE" :> "",
   "AWS_LAMBDA_RUNTIME_API" :> "api" @@ "S3_ENV_BUCKET" :> "config"
   @@ "WEBSOCKET_RUNTIME" :> "",
   "IS_AWS" :> "true" @@ "AWS_ACCESS_KEY_ID" :> "xxx" @@ "RUNTIME_MODE" :> "production"}

SourceContent ==
  "dotenv" :> ("LLM_MOCK_MODE" :> "True" @@ "SKILLS_S3_BUCKET" :> "other"
               @@ "RUNTIME_MODE" :> "lambda")
  @@ "s3" :> ("SECRET_NAME" :> "secret" @@ "WEBSOCKET_RUNTIME" :> "server")
  @@ "secrets" :> ("WEBSOCKET_RUNTIME" :> "Server " @@ "WSS_CERT_FILE" :> "cert"
                   @@ "WSS_KEY_FILE" :> "key" @@ "LLM_MOCK_MODE" :> NotAString)

AllValues ==
  (UNION {{m[k] : k \in DOMAIN m} : m \in Environments}
   \union UNION {{SourceContent[s][k] : k \in DOMAIN SourceContent[s]} : s \in Sources}
   \union {"Server"}) \ {""}

SamplePlaceholders == {"xxx", "multiple x"}

TrimSpace == [v \in AllValues \union {""} |-> IF v = "Server " THEN "Server" ELSE v]

ToLower ==
  [v \in AllValues \union {""} |->
     IF v = "True" THEN "true" ELSE IF v = "Server" THEN "server" ELSE v]
=============================================================================
