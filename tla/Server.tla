------------------------------- MODULE Server -------------------------------
(***************************************************************************)
(* The process: main.go loads the configuration and calls Run, and         *)
(* internal/services/server.go resolves the runtime, checks TLS, builds    *)
(* the LLM service, loads the skills, listens, and shuts down on a signal. *)
(* ChatStream runs while the server does; the configuration it started     *)
(* with decides what it is given.                                          *)
(***************************************************************************)
EXTENDS ChatStream, ConfigLoader

CONSTANTS
  Trimmed,  \* strings.TrimSpace
  Lowered   \* strings.ToLower

ASSUME ServerAssumption ==
  /\ DOMAIN Trimmed = Values \union {""}
  /\ \A v \in DOMAIN Trimmed : Trimmed[v] \in DOMAIN Lowered

VARIABLE phase  \* how far the process is

vars == <<phase, configVars, chatVars>>

\* "aborting" is "loading" with a context that a signal has cancelled.
Starting == {"configuring", "initialising", "loading", "aborting"}
Running == {"serving", "stopping"}
Over == {"lambda", "exited"}  \* the Lambda handler has taken over, or no process

TypeOK ==
  /\ phase \in Starting \union Running \union Over
  /\ ConfigTypeOK
  /\ ChatTypeOK

Init ==
  /\ phase = "configuring"
  /\ ConfigInit
  /\ ChatInit

-----------------------------------------------------------------------------
Runtime(k) == Lowered[Trimmed[Getenv(k)]]

\* firstNonEmpty over the three variables, "auto" when all are blank.
RequestedRuntime ==
  IF Runtime("WEBSOCKET_RUNTIME") # "" THEN Runtime("WEBSOCKET_RUNTIME")
  ELSE IF Runtime("WSS_RUNTIME") # "" THEN Runtime("WSS_RUNTIME")
  ELSE IF Runtime("RUNTIME_MODE") # "" THEN Runtime("RUNTIME_MODE")
  ELSE "auto"

ResolveWebSocketRuntime ==
  IF RequestedRuntime # "auto" THEN RequestedRuntime
  ELSE IF Has("AWS_LAMBDA_RUNTIME_API") THEN "lambda" ELSE "server"

IsLocalMode == ~Has("AWS_LAMBDA_RUNTIME_API") /\ ~Has("FC_FUNCTION_NAME")

HasTLSConfig == Has("WSS_CERT_FILE") /\ Has("WSS_KEY_FILE")

\* NewS3SkillLoader returns nil without a bucket.
HasS3Loader == Has("SKILLS_S3_BUCKET") \/ Has("AWS_SKILLS_S3_BUCKET")

-----------------------------------------------------------------------------
LoadConfig ==
  /\ phase = "configuring"
  /\ ConfigNext
  /\ UNCHANGED <<phase, chatVars>>

\* Run and ServeWebSocket up to the TLS check: a runtime that is neither
\* lambda nor server, or a server outside local mode without certificates,
\* ends the process.
Run ==
  /\ phase = "configuring"
  /\ loader = "loaded"
  /\ phase' = CASE ResolveWebSocketRuntime = "lambda" -> "lambda"
                [] ResolveWebSocketRuntime = "server" /\ (IsLocalMode \/ HasTLSConfig)
                     -> "initialising"
                [] OTHER -> "exited"
  /\ UNCHANGED <<configVars, chatVars>>

\* NewLLMService; the AWS configuration may fail to load.
InitLLM ==
  /\ phase = "initialising"
  /\ IF Lowered[Getenv("LLM_MOCK_MODE")] = "true"
     THEN llm' = "mock" /\ phase' = "loading"
     ELSE \/ llm' = "bedrock" /\ phase' = "loading"
          \/ llm' = llm /\ phase' = "exited"
  /\ UNCHANGED <<configVars, connVars, registry, reloads, requestVars>>

\* Without a bucket, and when LoadAllSkills fails, the server starts with an
\* empty registry; after a signal it finds its context cancelled and shuts down
\* at once.
LoadSkills ==
  /\ \/ registry' = {}
     \/ HasS3Loader /\ registry' \in Catalogs
  /\ \/ phase = "loading" /\ phase' = "serving"
     \/ phase = "aborting" /\ phase' = "stopping"
  /\ UNCHANGED <<configVars, connVars, reloads, llm, requestVars>>

-----------------------------------------------------------------------------
Accept(v) ==
  /\ phase = "serving"
  /\ Connect(v)
  /\ UNCHANGED <<phase, configVars>>

Chat ==
  /\ phase \in Running
  /\ ConnStep
  /\ UNCHANGED <<phase, configVars>>

Process(r) ==
  /\ phase \in Running
  /\ RequestStep(r)
  /\ UNCHANGED <<phase, configVars>>

\* tryHandleCreateSkillCommand refuses without a loader.
ReloadSkills ==
  /\ phase \in Running
  /\ HasS3Loader
  /\ \E S \in Catalogs : Reload(S)
  /\ UNCHANGED <<phase, configVars>>

\* SIGINT or SIGTERM: the listener closes.  While the configuration is loaded
\* nobody handles signals yet.  Between that and the listener a signal cancels
\* the context of the calls; one that comes during "initialising" is taken to
\* come right after it, because NewLLMService makes no remote call.
Interrupt ==
  /\ \/ phase = "configuring" /\ phase' = "exited"
     \/ phase = "loading" /\ phase' = "aborting"
     \/ phase = "serving" /\ phase' = "stopping"
  /\ UNCHANGED <<configVars, chatVars>>

\* Shutdown does not wait for the upgraded connections, so the process ends
\* whatever they are doing.
Shutdown ==
  /\ phase = "stopping"
  /\ phase' = "exited"
  /\ UNCHANGED <<configVars, chatVars>>

\* ListenAndServe returns an error.
ListenFails ==
  /\ phase = "serving"
  /\ phase' = "exited"
  /\ UNCHANGED <<configVars, chatVars>>

\* Streamed messages, broadcasts, pongs and pings write to one socket from
\* goroutines of their own, or from the read loop, without a lock.
\* gorilla/websocket panics when two writes overlap, and a ping may be under way
\* whenever there is an open connection.  A panic ends the process, except in a
\* read loop: net/http recovers it, and only that connection ends.
WritesOverlap ==
  /\ phase \in Running
  /\ \E i \in Ids : connections[i] # NoConn
  /\ UNCHANGED configVars
  /\ \/ phase' = "exited" /\ UNCHANGED chatVars
     \/ UNCHANGED phase /\ \E v \in Conns : handler[v] = "reading" /\ Leave(v)

StartupStep == LoadConfig \/ Run \/ InitLLM \/ LoadSkills

Next ==
  \/ StartupStep \/ Chat \/ ReloadSkills
  \/ Interrupt \/ Shutdown \/ ListenFails \/ WritesOverlap
  \/ \E v \in Conns : Accept(v)
  \/ \E r \in Requests : Process(r)

Spec == Init /\ [][Next]_vars

\* LoadAllSkills lists and reads the bucket with the context of main, which has
\* no deadline, through a client that has no timeout for a whole request.
AwaitsS3 == phase = "loading" /\ HasS3Loader

\* LoadConfig gives its calls a timeout, and NewLLMService makes no remote call.
\* Every call of a request ends: LLM attempts have a timeout, writes have a
\* deadline, and no lock is held across a call without one.  Loading the skills
\* is owed only where there is no bucket, or a signal has cancelled its calls.
\* Clients, signals and reloads owe nothing.
Fairness ==
  /\ WF_vars(LoadConfig \/ Run \/ InitLLM)
  /\ WF_vars(~AwaitsS3 /\ LoadSkills)
  /\ \A r \in Requests : WF_vars(Process(r))

FairSpec == Spec /\ Fairness

-----------------------------------------------------------------------------
\* The startup ends, with a server, with the Lambda handler or with an exit,
\* whatever combination of configuration sources fails, or it comes to the one
\* place where it can hang, the first load of the skills; a signal gets it out
\* of there.
StartupEnds == phase \in Starting ~> (phase \notin Starting \/ AwaitsS3)

\* A request that was accepted is answered or refused, although its client may
\* leave or come back, skills may disappear and every LLM call may fail;
\* unless the process ends, because nothing waits for it.
RequestsAnswered ==
  \A r \in Requests :
    stage[r] # "unsent" ~> (stage[r] \in Finished \/ phase \in Over)
=============================================================================
