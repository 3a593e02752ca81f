--------------------------- MODULE ServerProofs ---------------------------
(***************************************************************************)
(* Theorems about Server, for any requests, connections, skills, catalogs, *)
(* configuration sources and environments.                                 *)
(*                                                                         *)
(* The inductive invariant has three parts:                                *)
(*   ConfigInv   what an injection under way has done so far, and that     *)
(*               nothing is taken from the secret before its turn;         *)
(*   Idle        while the server starts there are no requests, so that    *)
(*               loading skills and choosing the LLM disturbs none;        *)
(*   RequestInv  what a goroutine may rely on between two of its steps,    *)
(*               with the registry possibly replaced in between.           *)
(***************************************************************************)
EXTENDS Server, SkillRetrievalProofs

-----------------------------------------------------------------------------
\* The configuration.

Owners == {"nobody", "system"} \union Sources

Injected ==
  \A k \in DOMAIN Content[source] \ remaining :
    Content[source][k] # NotAString => InEffect(source, k)

SecretsLast ==
  \A k \in Keys : env[k].from = "secrets" =>
    \/ loader = "injecting" /\ source = "secrets"
    \/ loader = "loaded" /\ source \in {"secrets", "system"}

ConfigInv ==
  /\ loader = "injecting" =>
       source \in Sources /\ remaining \subseteq DOMAIN Content[source] /\ Injected
  /\ loader \in {"start"} \union Sources => source = "system"
  /\ loader = "loaded" /\ source # "system" =>
       \A k \in DOMAIN Content[source] :
         Content[source][k] # NotAString => InEffect(source, k)
  /\ SecretsLast

\* A source that fails is never followed by itself or by an earlier one.
LEMMA NextSourceIsLater ==
  \A s : /\ NextSource(s) \in {"s3", "secrets", "loaded"}
         /\ s = "secrets" => NextSource(s) = "loaded"
BY DEF NextSource

\* The keys that a source defines are keys.
LEMMA ContentKeys ==
  ASSUME NEW s \in Sources, NEW k \in DOMAIN Content[s]
  PROVE  k \in Keys /\ Content[s][k] \in Values \union {""}
BY ConfigAssumption

\* The loader starts in its types, with nothing injected.
LEMMA ConfigInitInv == ConfigInit => ConfigTypeOK /\ ConfigInv
<1> SUFFICES ASSUME ConfigInit PROVE ConfigTypeOK /\ ConfigInv
  OBVIOUS
<1>1. PICK e \in SystemEnvs :
        env = [k \in Keys |-> IF k \in DOMAIN e
                              THEN [value |-> e[k], from |-> "system"] ELSE Unset]
  BY DEF ConfigInit
<1>2. \A k \in DOMAIN e : e[k] \in Values \union {""}
  BY ConfigAssumption
<1>3. \A k \in Keys :
        /\ env[k] \in [value : Values \union {""}, from : Owners]
        /\ env[k].from # "secrets"
        /\ env[k].from = "nobody" => env[k].value = ""
  BY <1>1, <1>2 DEF Unset, Owners
<1>4. loader = "start" /\ source = "system" /\ remaining = {}
  BY DEF ConfigInit
<1>5. ConfigTypeOK
  BY <1>1, <1>3, <1>4 DEF ConfigTypeOK, Owners
<1>6. ConfigInv
  BY <1>3, <1>4 DEF ConfigInv, SecretsLast, Sources
<1>7. QED
  BY <1>5, <1>6

\* One round of an injection gives at most one variable, which had no value, what
\* the source has for it.
LEMMA InjectEffect ==
  ASSUME ConfigTypeOK, ConfigInv, NEW k \in Keys, Inject(k)
  PROVE  /\ env' \in [Keys -> [value : Values \union {""}, from : Owners]]
         /\ \A j \in Keys : j # k => env'[j] = env[j]
         /\ Skipped(k) => env' = env
         /\ ~Skipped(k) => /\ ~Has(k)
                           /\ env'[k].value = Content[source][k]
                           /\ env'[k].from = source
         /\ source \in Sources /\ k \in DOMAIN Content[source]
<1>1. source \in Sources /\ k \in DOMAIN Content[source]
  BY DEF Inject, ConfigInv
<1>2. Content[source][k] \in Values \union {""}
  BY <1>1, ContentKeys
<1>3. CASE Skipped(k)
  <2>1. env' = env
    BY <1>3 DEF Inject
  <2>2. QED
    BY <1>1, <1>3, <2>1 DEF ConfigTypeOK, Owners
<1>4. CASE ~Skipped(k)
  <2> DEFINE new == [value |-> Content[source][k], from |-> source]
  <2>1. env' = [env EXCEPT ![k] = new]
    BY <1>4 DEF Inject
  <2>2. /\ new \in [value : Values \union {""}, from : Owners]
        /\ new.value = Content[source][k] /\ new.from = source
    BY <1>1, <1>2 DEF Owners
  <2>3. ~Has(k)
    BY <1>4 DEF Skipped, IsPresent, Has, Getenv, ConfigTypeOK
  <2> HIDE DEF new
  <2>4. QED
    BY <1>1, <1>4, <2>1, <2>2, <2>3 DEF ConfigTypeOK, Owners
<1>5. QED
  BY <1>3, <1>4

\* No step of the loader leaves its types, and an injection under way has
\* injected what it has gone past.
LEMMA ConfigNextInv ==
  ASSUME ConfigTypeOK, ConfigInv, ConfigNext
  PROVE  ConfigTypeOK' /\ ConfigInv'
<1>1. CASE StartLoading
  <2>1. loader = "start" /\ loader' \in {"dotenv", "s3", "secrets", "loaded"}
    BY <1>1, NextSourceIsLater DEF StartLoading
  <2>2. UNCHANGED <<env, source, remaining>>
    BY <1>1 DEF StartLoading
  <2>3. \A k \in Keys : env[k].from # "secrets"
    BY <2>1 DEF ConfigInv, SecretsLast
  <2>4. source = "system"
    BY <2>1 DEF ConfigInv
  <2>5. QED
    BY <2>1, <2>2, <2>3, <2>4
       DEF ConfigTypeOK, ConfigInv, SecretsLast, Sources
<1>2. CASE FinishSource
  <2>1. /\ loader = "injecting" /\ remaining = {} /\ loader' = "loaded"
        /\ UNCHANGED <<env, source, remaining>>
    BY <1>2 DEF FinishSource
  <2>2. source \in Sources /\ Injected
    BY <2>1 DEF ConfigInv
  <2>3. \A k \in DOMAIN Content[source] :
          Content[source][k] # NotAString => InEffect(source, k)
    BY <2>1, <2>2 DEF Injected
  <2>4. (\A k \in DOMAIN Content[source] :
           Content[source][k] # NotAString => InEffect(source, k))'
    BY <2>1, <2>3 DEF InEffect, IsPresent, Has, Getenv
  <2>5. SecretsLast'
    BY <2>1 DEF ConfigInv, SecretsLast
  <2>6. QED
    BY <2>1, <2>4, <2>5 DEF ConfigTypeOK, ConfigInv, Sources
<1>3. ASSUME NEW s \in Sources, Fetch(s)
      PROVE  ConfigTypeOK' /\ ConfigInv'
  <2>1. loader = s /\ source = "system" /\ env' = env
    BY <1>3 DEF Fetch, ConfigInv
  <2>2. \A k \in Keys : env[k].from # "secrets"
    BY <2>1 DEF ConfigInv, SecretsLast, Sources
  <2>3. CASE /\ loader' = "injecting" /\ source' = s
             /\ remaining' = DOMAIN Content[s]
    <3>1. DOMAIN Content[s] \subseteq Keys
      BY ConfigAssumption
    <3>2. Injected' /\ remaining' \subseteq DOMAIN Content[source']
      BY <2>3 DEF Injected
    <3>3. SecretsLast'
      BY <2>1, <2>2 DEF SecretsLast
    <3>4. ConfigInv'
      BY <2>3, <3>2, <3>3 DEF ConfigInv, Sources
    <3>5. QED
      BY <2>1, <2>3, <3>1, <3>4 DEF ConfigTypeOK
  <2>4. CASE loader' = NextSource(s) /\ UNCHANGED <<source, remaining>>
    <3>1. loader' \in {"s3", "secrets", "loaded"}
      BY <2>4, NextSourceIsLater
    <3>2. SecretsLast'
      BY <2>1, <2>2 DEF SecretsLast
    <3>3. QED
      BY <2>1, <2>4, <3>1, <3>2 DEF ConfigTypeOK, ConfigInv, Sources
  <2>5. QED
    BY <1>3, <2>3, <2>4 DEF Fetch
<1>4. ASSUME NEW k \in Keys, Inject(k)
      PROVE  ConfigTypeOK' /\ ConfigInv'
  <2>1. /\ loader = "injecting" /\ k \in remaining /\ remaining' = remaining \ {k}
        /\ UNCHANGED <<loader, source>>
    BY <1>4 DEF Inject
  <2>2. source \in Sources /\ remaining \subseteq DOMAIN Content[source] /\ Injected
    BY <2>1 DEF ConfigInv
  <2>3. \A j \in Keys : InEffect(source, j) => InEffect(source, j)'
    <3> SUFFICES ASSUME NEW j \in Keys, InEffect(source, j)
                 PROVE  InEffect(source, j)'
      OBVIOUS
    <3>1. CASE env'[j] = env[j]
      BY <2>1, <3>1 DEF InEffect, IsPresent, Has, Getenv
    <3>2. CASE env'[j] # env[j]
      <4>1. /\ env'[j].value = Content[source][j] /\ env'[j].from = source
            /\ source \in Sources
        BY <1>4, <3>2, InjectEffect
      <4>2. QED
        BY <2>1, <4>1 DEF InEffect, IsPresent, Has, Getenv, Sources
    <3>3. QED
      BY <3>1, <3>2
  <2>4. Content[source][k] # NotAString => InEffect(source, k)'
    <3> HAVE Content[source][k] # NotAString
    <3>1. CASE Skipped(k)
      <4>1. InEffect(source, k)
        BY <3>1 DEF Skipped, InEffect, IsPresent, Has, Getenv, ConfigTypeOK
      <4>2. QED
        BY <2>3, <4>1
    <3>2. CASE ~Skipped(k)
      <4>1. /\ env'[k].value = Content[source][k] /\ env'[k].from = source
            /\ source \in Sources
        BY <1>4, <3>2, InjectEffect
      <4>2. QED
        BY <2>1, <4>1 DEF InEffect, IsPresent, Has, Getenv, Sources
    <3>3. QED
      BY <3>1, <3>2
  <2>5. Injected'
    <3> SUFFICES ASSUME NEW j \in DOMAIN Content[source], j \notin remaining',
                        Content[source][j] # NotAString
                 PROVE  InEffect(source, j)'
      BY <2>1 DEF Injected
    <3>1. j \in Keys
      BY <2>2, ContentKeys
    <3>2. CASE j = k
      BY <2>4, <3>2
    <3>3. CASE j # k
      BY <2>1, <2>2, <2>3, <3>1, <3>3 DEF Injected
    <3>4. QED
      BY <3>2, <3>3
  <2>6. SecretsLast'
    <3> SUFFICES ASSUME NEW j \in Keys, env'[j].from = "secrets"
                 PROVE  source = "secrets"
      BY <2>1 DEF SecretsLast
    <3>1. CASE env'[j] = env[j]
      BY <2>1, <3>1 DEF ConfigInv, SecretsLast
    <3>2. CASE env'[j] # env[j]
      BY <1>4, <3>2, InjectEffect
    <3>3. QED
      BY <3>1, <3>2
  <2>7. ConfigInv'
    BY <2>1, <2>2, <2>5, <2>6 DEF ConfigInv, Sources
  <2>8. \A j \in Keys : env'[j].from = "nobody" => env'[j].value = ""
    <3> TAKE j \in Keys
    <3>1. CASE env'[j] = env[j]
      BY <3>1 DEF ConfigTypeOK
    <3>2. CASE env'[j] # env[j]
      BY <1>4, <3>2, InjectEffect DEF Sources
    <3>3. QED
      BY <3>1, <3>2
  <2>9. ConfigTypeOK'
    BY <1>4, <2>1, <2>8, InjectEffect DEF ConfigTypeOK, Owners
  <2>10. QED
    BY <2>7, <2>9
<1>5. ASSUME NEW k \in Keys, InjectFails(k)
      PROVE  ConfigTypeOK' /\ ConfigInv'
  <2>1. /\ loader = "injecting" /\ loader' = NextSource(source)
        /\ source' = "system" /\ remaining' = {} /\ env' = env
    BY <1>5 DEF InjectFails
  <2>2. loader' \in {"s3", "secrets", "loaded"}
    BY <2>1, NextSourceIsLater
  <2>3. SecretsLast'
    <3> SUFFICES ASSUME NEW j \in Keys, env[j].from = "secrets"
                 PROVE  loader' = "loaded"
      BY <2>1 DEF SecretsLast
    <3>1. source = "secrets"
      BY <2>1 DEF ConfigInv, SecretsLast
    <3>2. QED
      BY <2>1, <3>1, NextSourceIsLater
  <2>4. QED
    BY <2>1, <2>2, <2>3 DEF ConfigTypeOK, ConfigInv, Sources
<1>6. QED
  BY <1>1, <1>2, <1>3, <1>4, <1>5 DEF ConfigNext

-----------------------------------------------------------------------------
\* The requests.

Idle == phase \in Starting => \A r \in Requests : stage[r] = "unsent"

\* Stages before the executor has looked for a skill.
Unexecuted ==
  {"unsent", "selecting", "fetching", "announcing", "looking_up", "retrieving",
   "fetching_best"}

Earned(r) ==
  \/ attempts[r] = MaxAttempts /\ llm = "bedrock"
  \/ attempts[r] = 0 /\ chosen[r] # NoSkill /\ given[r] = NoSkill /\ reloads > 0

\* What a goroutine has found out so far, and what it can still rely on.
RequestInv(r) ==
  /\ stage[r] \in {"unsent", "selecting", "fetching", "retrieving", "fetching_best"}
       => chosen[r] = NoSkill
  /\ stage[r] = "looking_up" => chosen[r] # NoSkill
  /\ stage[r] \in Unexecuted => given[r] = NoSkill /\ attempts[r] = 0
  /\ stage[r] = "generating" => attempts[r] < MaxAttempts
  /\ stage[r] = "answering" => attempts[r] > 0
  /\ /\ stage[r] \notin Unexecuted
     /\ stage[r] \in {"generating", "answering", "answered"} \/ attempts[r] > 0
     /\ chosen[r] # NoSkill
     => given[r] = chosen[r]
  /\ Named(r) # NoSkill => chosen[r] \in {NoSkill, Named(r)} /\ stage[r] # "fetching"
  /\ reloads = 0 /\ chosen[r] # NoSkill => chosen[r] \in registry
  /\ reloads = 0 /\ Named(r) \in registry /\ stage[r] \notin {"unsent", "selecting"}
       => chosen[r] = Named(r)
  /\ stage[r] \in {"failing", "failed"} => Earned(r)

Inv == TypeOK /\ ConfigInv /\ Idle /\ \A r \in Requests : RequestInv(r)

\* What a client names is a skill or nothing.
LEMMA NamedType == \A r \in Requests : Named(r) \in Skills \union {NoSkill}
BY ChatAssumption DEF Named

\* GetSkill never returns another skill than the one it is asked for.
LEMMA GetSkillFinds ==
  \A s : /\ s \in registry => GetSkill(s) = s
         /\ s \notin registry => GetSkill(s) = NoSkill
BY DEF GetSkill

\* What one goroutine does changes nothing another one has.
LEMMA OtherRequest ==
  ASSUME ChatTypeOK, NEW q \in Requests, RequestStep(q)
  PROVE  /\ \A r \in Requests \ {q} :
              /\ stage'[r] = stage[r] /\ chosen'[r] = chosen[r]
              /\ given'[r] = given[r] /\ attempts'[r] = attempts[r]
         /\ UNCHANGED <<connVars, registry, reloads, llm, via>>
<1> USE DEF ChatTypeOK, Goto
<1>1. CASE SelectNamed(q)
  BY <1>1 DEF SelectNamed
<1>2. CASE SelectByWords(q)
  BY <1>2 DEF SelectByWords
<1>3. CASE FetchTop(q)
  BY <1>3 DEF FetchTop
<1>4. CASE Announce(q)
  BY <1>4 DEF Announce
<1>5. CASE LookUp(q)
  BY <1>5 DEF LookUp
<1>6. CASE Retrieve(q)
  BY <1>6 DEF Retrieve
<1>7. CASE FetchBest(q)
  BY <1>7 DEF FetchBest
<1>8. CASE Generate(q)
  BY <1>8 DEF Generate
<1>9. CASE GenerateFails(q)
  BY <1>9 DEF GenerateFails
<1>10. CASE Respond(q)
  BY <1>10 DEF Respond
<1>11. CASE ReportError(q)
  BY <1>11 DEF ReportError
<1>12. QED
  BY <1>1, <1>2, <1>3, <1>4, <1>5, <1>6, <1>7, <1>8, <1>9, <1>10, <1>11
     DEF RequestStep

\* A goroutine's own step keeps its variables in their types.
LEMMA RequestType ==
  ASSUME ChatTypeOK, NEW q \in Requests, RequestInv(q), RequestStep(q)
  PROVE  ChatTypeOK'
<1> USE DEF ChatTypeOK, Stages, Finished, Goto
<1>g. \A s : GetSkill(s) \in Skills \union {NoSkill}
  BY DEF GetSkill
<1>m. RetrieveSkills(q) \subseteq {a.results : a \in AllRetrievals}
  BY DEF RetrieveSkills
<1>1. CASE SelectNamed(q)
  BY <1>1, <1>g DEF SelectNamed, connVars
<1>2. CASE SelectByWords(q)
  BY <1>2, <1>m DEF SelectByWords, connVars
<1>3. CASE FetchTop(q)
  BY <1>3, <1>g DEF FetchTop, connVars
<1>4. CASE Announce(q)
  BY <1>4 DEF Announce, connVars
<1>5. CASE LookUp(q)
  BY <1>5, <1>g DEF LookUp, connVars
<1>6. CASE Retrieve(q)
  BY <1>6, <1>m DEF Retrieve, connVars
<1>7. CASE FetchBest(q)
  BY <1>7, <1>g DEF FetchBest, connVars
<1>8. CASE Generate(q)
  <2>1. attempts[q] + 1 \in 0..MaxAttempts
    BY <1>8, ChatAssumption DEF Generate, RequestInv
  <2>2. QED
    BY <1>8, <2>1 DEF Generate, connVars
<1>9. CASE GenerateFails(q)
  <2>1. attempts[q] + 1 \in 0..MaxAttempts
    BY <1>9, ChatAssumption DEF GenerateFails, RequestInv
  <2>2. QED
    BY <1>9, <2>1 DEF GenerateFails, connVars
<1>10. CASE Respond(q)
  BY <1>10 DEF Respond, connVars
<1>11. CASE ReportError(q)
  BY <1>11 DEF ReportError, connVars
<1>12. QED
  BY <1>1, <1>2, <1>3, <1>4, <1>5, <1>6, <1>7, <1>8, <1>9, <1>10, <1>11
     DEF RequestStep

\* A goroutine's own step keeps what it relies on.
LEMMA RequestKeepsInv ==
  ASSUME ChatTypeOK, NEW q \in Requests, RequestInv(q), RequestStep(q)
  PROVE  RequestInv(q)'
<1> USE ChatAssumption, GetSkillFinds, NamedType
        DEF ChatTypeOK, RequestInv, Unexecuted, Goto
<1>n. Named(q)' = Named(q)
  BY DEF Named
<1>1. CASE SelectNamed(q)
  BY <1>1, <1>n DEF SelectNamed
<1>2. CASE SelectByWords(q)
  BY <1>2, <1>n DEF SelectByWords
<1>3. CASE FetchTop(q)
  BY <1>3, <1>n DEF FetchTop
<1>4. CASE Announce(q)
  BY <1>4, <1>n DEF Announce
<1>5. CASE LookUp(q)
  BY <1>5, <1>n DEF LookUp, Earned
<1>6. CASE Retrieve(q)
  BY <1>6, <1>n DEF Retrieve
<1>7. CASE FetchBest(q)
  BY <1>7, <1>n DEF FetchBest
<1>8. CASE Generate(q)
  BY <1>8, <1>n DEF Generate
<1>9. CASE GenerateFails(q)
  BY <1>9, <1>n DEF GenerateFails, Earned
<1>10. CASE Respond(q)
  BY <1>10, <1>n DEF Respond
<1>11. CASE ReportError(q)
  BY <1>11, <1>n DEF ReportError, Earned
<1>12. QED
  BY <1>1, <1>2, <1>3, <1>4, <1>5, <1>6, <1>7, <1>8, <1>9, <1>10, <1>11
     DEF RequestStep

\* A step that leaves the variables of r alone, and the registry unless it is a
\* reload, keeps what r relies on.
LEMMA BystanderKeepsInv ==
  ASSUME ChatTypeOK, NEW r \in Requests, RequestInv(r),
         stage'[r] = stage[r], chosen'[r] = chosen[r],
         given'[r] = given[r], attempts'[r] = attempts[r],
         llm' = llm,
         \/ UNCHANGED <<registry, reloads>>
         \/ reloads' = reloads + 1
  PROVE  RequestInv(r)'
<1>1. Named(r)' = Named(r)
  BY DEF Named
<1>2. reloads' = 0 => UNCHANGED <<registry, reloads>>
  BY DEF ChatTypeOK
<1>3. reloads > 0 => reloads' > 0
  BY DEF ChatTypeOK
<1>4. Earned(r) => Earned(r)'
  BY <1>3 DEF Earned
<1>5. QED
  BY <1>1, <1>2, <1>4 DEF RequestInv

\* A request that has not been sent relies on nothing.
LEMMA UnsentInv ==
  ASSUME ChatTypeOK, NEW r \in Requests, RequestInv(r),
         stage[r] = "unsent", stage'[r] \in {"unsent", "selecting"},
         UNCHANGED <<chosen, given, attempts>>
  PROVE  RequestInv(r)'
<1>1. chosen[r] = NoSkill /\ given[r] = NoSkill /\ attempts[r] = 0
  BY DEF RequestInv, Unexecuted
<1>2. QED
  BY <1>1 DEF RequestInv, Unexecuted, Named

\* The process starts in the inductive invariant: no requests, nothing injected.
LEMMA InitInv == Init => Inv
<1> SUFFICES ASSUME Init PROVE Inv
  OBVIOUS
<1>1. ChatTypeOK
  BY ChatAssumption DEF Init, ChatInit, ChatTypeOK, Stages, Finished
<1>2. \A r \in Requests : RequestInv(r)
  BY ChatAssumption DEF Init, ChatInit, RequestInv, Unexecuted, Named
<1>3. QED
  BY <1>1, <1>2, ConfigInitInv
     DEF Init, ChatInit, Inv, TypeOK, Idle, Starting

\* Closing entries keeps the map and the handlers in their types.
LEMMA DropType ==
  ASSUME ChatTypeOK, NEW I \in SUBSET Ids, DropEntries(I)
  PROVE  /\ connections' \in [Ids -> Conns \union {NoConn}]
         /\ handler' \in [Conns -> {"new", "reading", "closed", "ended"}]
BY DEF ChatTypeOK, DropEntries

\* Whatever clients and timeouts do, a request is only ever started.
LEMMA ConnStepEffect ==
  ASSUME ChatTypeOK, ConnStep
  PROVE  /\ ChatTypeOK'
         /\ UNCHANGED <<registry, reloads, llm, chosen, given, attempts>>
         /\ \/ UNCHANGED stage
            \/ \E r \in Requests : /\ stage[r] = "unsent"
                                  /\ stage' = [stage EXCEPT ![r] = "selecting"]
<1> USE DEF ChatTypeOK, connVars, requestVars
<1>1. ASSUME NEW v \in Conns, Leave(v)
      PROVE  /\ ChatTypeOK'
             /\ UNCHANGED <<registry, reloads, llm, chosen, given, attempts, stage>>
  BY <1>1, ChatAssumption DEF Leave
<1>2. ASSUME NEW v \in Conns, NEW f \in Frames, ReceiveOther(v, f)
      PROVE  /\ ChatTypeOK'
             /\ UNCHANGED <<registry, reloads, llm, chosen, given, attempts, stage>>
  <2>1. PICK I \in SUBSET Ids : DropEntries(I)
    BY <1>2 DEF ReceiveOther
  <2>2. QED
    BY <1>2, <2>1, DropType DEF ReceiveOther
<1>3. ASSUME NEW i \in Ids, TimeOut(i)
      PROVE  /\ ChatTypeOK'
             /\ UNCHANGED <<registry, reloads, llm, chosen, given, attempts, stage>>
  <2>1. DropEntries({i}) /\ {i} \in SUBSET Ids
    BY <1>3 DEF TimeOut
  <2>2. QED
    BY <1>3, <2>1, DropType DEF TimeOut
<1>4. ASSUME NEW v \in Conns, NEW f \in Frames, ReceiveChat(v, f)
      PROVE  /\ ChatTypeOK'
             /\ UNCHANGED <<registry, reloads, llm, chosen, given, attempts>>
             /\ \/ UNCHANGED stage
                \/ \E r \in Requests : /\ stage[r] = "unsent"
                                      /\ stage' = [stage EXCEPT ![r] = "selecting"]
  <2>1. CASE ValidateWSMessage(f)
    <3>1. PICK r \in Requests :
            /\ stage[r] = "unsent"
            /\ stage' = [stage EXCEPT ![r] = "selecting"]
            /\ via' = [via EXCEPT ![r] = v]
            /\ UNCHANGED <<matches, chosen, given, attempts>>
      BY <1>4, <2>1 DEF ReceiveChat, Goto
    <3>2. UNCHANGED <<connections, handler, registry, reloads, llm>>
      BY <1>4 DEF ReceiveChat
    <3>3. QED
      BY <3>1, <3>2 DEF Stages
  <2>2. CASE ~ValidateWSMessage(f)
    BY <1>4, <2>2 DEF ReceiveChat
  <2>3. QED
    BY <2>1, <2>2
<1>5. QED
  BY <1>1, <1>2, <1>3, <1>4 DEF ConnStep

\* A panic under way ends the process or, in a read loop, one connection.
Crash ==
  /\ phase \in Running
  /\ phase' = "exited"
  /\ UNCHANGED <<configVars, chatVars>>

LEMMA OverlapEnds == WritesOverlap => Crash \/ Chat
BY DEF WritesOverlap, Crash, Chat, ConnStep

\* No step of the loader, the startup, a client, a goroutine of a request, a
\* reload or the shutdown leaves the inductive invariant.
LEMMA NextInv == Inv /\ [Next]_vars => Inv'
<1> SUFFICES ASSUME Inv, [Next]_vars PROVE Inv'
  OBVIOUS
<1> USE DEF Inv, TypeOK
<1>0. \A r \in Requests : Named(r)' = Named(r)
  BY DEF Named
<1>1. CASE LoadConfig
  <2>1. ConfigTypeOK' /\ ConfigInv'
    BY <1>1, ConfigNextInv DEF LoadConfig
  <2>2. UNCHANGED <<phase, chatVars>>
    BY <1>1 DEF LoadConfig
  <2>3. ChatTypeOK' /\ Idle' /\ phase' = phase
    BY <2>2 DEF ChatTypeOK, Idle, chatVars, connVars, requestVars
  <2>4. \A r \in Requests : RequestInv(r)'
    BY <2>2, BystanderKeepsInv DEF chatVars, connVars, requestVars
  <2>5. QED
    BY <2>1, <2>3, <2>4
\* From here on the configuration stays.
<1>c. ASSUME UNCHANGED configVars
      PROVE  ConfigTypeOK' /\ ConfigInv'
  BY <1>c DEF configVars, ConfigTypeOK, ConfigInv, Injected, InEffect, IsPresent,
             SecretsLast, Has, Getenv
<1>2. CASE Run \/ Interrupt \/ Shutdown \/ ListenFails \/ Crash
  <2>1. UNCHANGED <<configVars, chatVars>>
    BY <1>2 DEF Run, Interrupt, Shutdown, ListenFails, Crash
  <2>2. /\ phase' \in {"lambda", "initialising", "aborting", "exited", "stopping"}
        /\ phase' \in {"initialising", "aborting"} => phase \in Starting
    BY <1>2 DEF Run, Interrupt, Shutdown, ListenFails, Crash, Starting
  <2>3. ChatTypeOK' /\ Idle'
    BY <2>1, <2>2 DEF ChatTypeOK, Idle, chatVars, connVars, requestVars, Starting
  <2>4. \A r \in Requests : RequestInv(r)'
    BY <2>1, BystanderKeepsInv DEF chatVars, connVars, requestVars
  <2>5. QED
    BY <1>c, <2>1, <2>2, <2>3, <2>4 DEF Starting, Running, Over
<1>3. CASE InitLLM
  <2>1. /\ phase \in Starting /\ phase' \in {"loading", "exited"}
        /\ llm' \in {"none", "mock", "bedrock"}
        /\ UNCHANGED <<configVars, connVars, registry, reloads, requestVars>>
    BY <1>3 DEF InitLLM, Starting, ChatTypeOK
  <2>2. ChatTypeOK' /\ Idle'
    BY <2>1 DEF ChatTypeOK, Idle, connVars, requestVars, Starting
  <2>3. \A r \in Requests : RequestInv(r)'
    BY <2>1, UnsentInv DEF Idle, connVars, requestVars
  <2>4. QED
    BY <1>c, <2>1, <2>2, <2>3 DEF Starting, Over
<1>4. CASE LoadSkills
  <2>1. /\ phase \in Starting /\ phase' \in Running
        /\ UNCHANGED <<configVars, connVars, reloads, llm, requestVars>>
    BY <1>4 DEF LoadSkills, Starting, Running
  <2>2. registry' \in SUBSET Skills
    BY <1>4, ChatAssumption DEF LoadSkills
  <2>3. ChatTypeOK' /\ Idle'
    BY <2>1, <2>2 DEF ChatTypeOK, Idle, connVars, requestVars, Starting, Running
  <2>4. \A r \in Requests : RequestInv(r)'
    BY <2>1, UnsentInv DEF Idle, connVars, requestVars
  <2>5. QED
    BY <1>c, <2>1, <2>3, <2>4 DEF Running
<1>5. ASSUME NEW v \in Conns, Accept(v)
      PROVE  Inv'
  <2>1. /\ phase = "serving"
        /\ UNCHANGED <<phase, configVars, registry, reloads, llm, requestVars>>
    BY <1>5 DEF Accept, Connect
  <2>2. ChatTypeOK'
    BY <1>5, <2>1, ChatAssumption DEF Accept, Connect, ChatTypeOK, requestVars
  <2>3. \A r \in Requests : RequestInv(r)'
    BY <2>1, BystanderKeepsInv DEF requestVars
  <2>4. QED
    BY <1>c, <2>1, <2>2, <2>3 DEF Idle, Starting
<1>6. CASE Chat
  <2>1. ConnStep /\ phase \notin Starting /\ UNCHANGED <<phase, configVars>>
    BY <1>6 DEF Chat, Running, Starting
  <2>2. \A r \in Requests : RequestInv(r)'
    <3> TAKE r \in Requests
    <3>1. CASE stage'[r] = stage[r]
      BY <2>1, <3>1, ConnStepEffect, BystanderKeepsInv
    <3>2. CASE stage'[r] # stage[r]
      <4>1. stage[r] = "unsent" /\ stage'[r] = "selecting"
        BY <2>1, <3>2, ConnStepEffect DEF ChatTypeOK
      <4>2. QED
        BY <2>1, <4>1, ConnStepEffect, UnsentInv
    <3>3. QED
      BY <3>1, <3>2
  <2>3. QED
    BY <1>c, <2>1, <2>2, ConnStepEffect DEF Idle
<1>7. ASSUME NEW q \in Requests, Process(q)
      PROVE  Inv'
  <2>1. RequestStep(q) /\ phase \notin Starting /\ UNCHANGED <<phase, configVars>>
    BY <1>7 DEF Process, Running, Starting
  <2>2. ChatTypeOK' /\ RequestInv(q)'
    BY <2>1, RequestType, RequestKeepsInv
  <2>3. \A r \in Requests \ {q} : RequestInv(r)'
    BY <2>1, OtherRequest, BystanderKeepsInv
  <2>4. QED
    BY <1>c, <2>1, <2>2, <2>3 DEF Idle
<1>8. CASE ReloadSkills
  <2>1. /\ phase \notin Starting
        /\ UNCHANGED <<phase, configVars, connVars, llm, requestVars>>
        /\ reloads < MaxReloads /\ reloads' = reloads + 1
        /\ registry' \in Catalogs
    BY <1>8 DEF ReloadSkills, Reload, Running, Starting
  <2>2. ChatTypeOK'
    BY <2>1, ChatAssumption DEF ChatTypeOK, connVars, requestVars
  <2>3. \A r \in Requests : RequestInv(r)'
    BY <2>1, BystanderKeepsInv DEF requestVars
  <2>4. QED
    BY <1>c, <2>1, <2>2, <2>3 DEF Idle
<1>9. CASE UNCHANGED vars
  <2>1. UNCHANGED <<phase, configVars, chatVars>>
    BY <1>9 DEF vars
  <2>2. \A r \in Requests : RequestInv(r)'
    BY <2>1, BystanderKeepsInv DEF chatVars, connVars, requestVars
  <2>3. ChatTypeOK' /\ Idle'
    BY <2>1 DEF ChatTypeOK, Idle, chatVars, connVars, requestVars
  <2>4. QED
    BY <1>c, <2>1, <2>2, <2>3
<1>10. QED
  BY <1>1, <1>2, <1>3, <1>4, <1>5, <1>6, <1>7, <1>8, <1>9, OverlapEnds
     DEF Next, StartupStep

-----------------------------------------------------------------------------
\* What follows from the invariant.

\* The inductive invariant holds in every behaviour: a goroutine of a request can
\* rely between two of its steps on what RequestInv says, and a configuration
\* source has injected what it has gone past.
THEOREM Invariance == Spec => []Inv
<1>1. QED
  BY InitInv, NextInv, PTL DEF Spec

\* Every variable of the process keeps its type; in particular no request makes
\* more than MaxAttempts attempts.
THEOREM TypeCorrect == Spec => []TypeOK
<1>1. Inv => TypeOK
  BY DEF Inv
<1>2. QED
  BY <1>1, Invariance, PTL

\* A source that LoadConfig settled on is in effect as a whole, except where a
\* variable emptied on purpose keeps the .env file out, whatever failed
\* before it and however far it had got.
THEOREM LoadedIsComplete == Spec => []LoadedSourceComplete
<1>1. Inv => LoadedSourceComplete
  BY DEF Inv, ConfigInv, SecretsLast, LoadedSourceComplete
<1>2. QED
  BY <1>1, Invariance, PTL

\* A request is answered with the skill it was announced with, and a client
\* that names a skill the registry has gets it, through any interleaving of
\* requests and reloads.
THEOREM SkillsHonoured == Spec => []SkillHonoured
<1>1. Inv => SkillHonoured
  <2> SUFFICES ASSUME Inv, NEW r \in Requests
               PROVE  /\ /\ stage[r] \in {"generating", "answering", "answered"}
                         /\ chosen[r] # NoSkill
                         => given[r] = chosen[r]
                      /\ Named(r) # NoSkill => chosen[r] \in {NoSkill, Named(r)}
                      /\ stage[r] \in Finished /\ reloads = 0 /\ Named(r) \in registry
                           => given[r] = Named(r)
    BY DEF SkillHonoured
  <2>1. RequestInv(r)
    BY DEF Inv
  <2>2. Named(r) \in registry => Named(r) # NoSkill
    BY ChatAssumption DEF Inv, TypeOK, ChatTypeOK
  <2>3. ASSUME stage[r] = "failed", reloads = 0
        PROVE  attempts[r] > 0
    BY <2>1, <2>3, ChatAssumption DEF RequestInv, Earned
  <2>4. QED
    BY <2>1, <2>2, <2>3 DEF RequestInv, Unexecuted, Finished
<1>2. QED
  BY <1>1, Invariance, PTL

\* No request fails before its last attempt, except one whose announced skill a
\* reload took away.
THEOREM ErrorsEarned == Spec => []ErrorsAreEarned
<1>1. Inv => ErrorsAreEarned
  BY DEF Inv, RequestInv, Earned, ErrorsAreEarned
<1>2. QED
  BY <1>1, Invariance, PTL

\* What RetrieveSkills finds is a retrieval over the registry of the moment.
LEMMA RetrieveSkillsReads ==
  ASSUME NEW r \in Requests, NEW m \in RetrieveSkills(r)
  PROVE  m \in Retrievals(MessageOf[r].words, registry)
<1>1. PICK a \in AllRetrievals : a.request = r /\ a.skills = registry /\ a.results = m
  BY DEF RetrieveSkills
<1>2. PICK q \in Requests, S \in SUBSET Skills :
        a \in {[request |-> q, skills |-> S, results |-> x] :
                x \in Retrievals(MessageOf[q].words, S)}
  BY DEF AllRetrievals
<1>3. PICK x \in Retrievals(MessageOf[q].words, S) :
        a = [request |-> q, skills |-> S, results |-> x]
  BY <1>2
<1> QED BY <1>1, <1>3

\* Every retrieval a request makes, its own or the executor's, gives it the best
\* matches of the registry of that moment, for any texts and queries and
\* whatever order the index is in.
THEOREM RetrievalsAreBest == Spec => RetrievedAreBest
<1> DEFINE Retrieving(r) == \/ stage[r] = "selecting" /\ Named(r) = NoSkill
                            \/ stage[r] = "retrieving"
           Best(r) == IsBestMatches(matches'[r], MessageOf[r].words, registry)
<1>1. ASSUME Inv, [Next]_vars, NEW r \in Requests, Retrieving(r), stage'[r] # stage[r]
      PROVE  Best(r)
  <2>1. MessageOf[r].words \in Seq(Tokens) /\ registry \in SUBSET Skills
    BY <1>1, ChatAssumption DEF Inv, TypeOK, ChatTypeOK
  <2>2. PICK q \in Requests : Process(q)
    <3>1. ~ ConnStep
      BY <1>1, ConnStepEffect DEF Inv, TypeOK, ChatTypeOK
    <3>2. ~ UNCHANGED requestVars
      BY <1>1 DEF requestVars
    <3> QED BY <1>1, <3>1, <3>2, OverlapEnds
            DEF Next, StartupStep, LoadConfig, Run, InitLLM, LoadSkills, Chat, Accept,
                Connect, ReloadSkills, Reload, Interrupt, Shutdown, ListenFails,
                Crash, vars, chatVars
  <2>3. RequestStep(r)
    <3>1. RequestStep(q)
      BY <2>2 DEF Process
    <3> QED BY <1>1, <3>1, OtherRequest DEF Inv, TypeOK
  <2>4. SelectByWords(r) \/ Retrieve(r)
    BY <1>1, <2>3 DEF RequestStep, SelectNamed, FetchTop, Announce, LookUp, FetchBest,
                      Generate, GenerateFails, Respond, ReportError
  <2>5. PICK m \in RetrieveSkills(r) : matches' = [matches EXCEPT ![r] = m]
    BY <2>4 DEF SelectByWords, Retrieve
  <2>6. matches'[r] = m
    BY <1>1, <2>5 DEF Inv, TypeOK, ChatTypeOK
  <2> QED BY <2>1, <2>5, <2>6, RetrieveSkillsReads, RetrievalIsBest
<1>2. Inv /\ [Next]_vars
        => [\A r \in Requests :
              /\ \/ stage[r] = "selecting" /\ Named(r) = NoSkill
                 \/ stage[r] = "retrieving"
              /\ stage'[r] # stage[r]
              => IsBestMatches(matches'[r], MessageOf[r].words, registry)]_chatVars
  BY <1>1
<1> QED
  BY <1>2, Invariance, PTL DEF Spec, RetrievedAreBest

-----------------------------------------------------------------------------
\* The server implements RequestReply.

StatusOf(r) ==
  IF stage[r] = "unsent" THEN "unsent"
  ELSE IF stage[r] \notin Announced THEN "accepted"
  ELSE IF stage[r] = "answered" THEN "answered"
  ELSE IF stage[r] = "failed" THEN "refused"
  ELSE "announced"

AnnouncedTo(r) == IF stage[r] \in Announced THEN chosen[r] ELSE NoSkill

GivenTo(r) == IF stage[r] = "answered" THEN given[r] ELSE NoSkill

\* The state functions that the refinement mapping puts for the variables of
\* RequestReply.
Statuses == [r \in Requests |-> StatusOf(r)]
Announcements == [r \in Requests |-> AnnouncedTo(r)]
Gifts == [r \in Requests |-> GivenTo(r)]

\* One goroutine's step changes what the abstraction sees of its own request.
LEMMA RequestSimulates ==
  ASSUME ChatTypeOK, NEW q \in Requests, RequestInv(q), RequestStep(q)
  PROVE  \/ /\ StatusOf(q)' = StatusOf(q)
            /\ AnnouncedTo(q)' = AnnouncedTo(q)
            /\ GivenTo(q)' = GivenTo(q)
         \/ /\ StatusOf(q) = "accepted" /\ StatusOf(q)' = "announced"
            /\ AnnouncedTo(q)' \in Skills \union {NoSkill}
            /\ GivenTo(q)' = GivenTo(q)
         \/ /\ StatusOf(q) = "announced" /\ StatusOf(q)' = "answered"
            /\ AnnouncedTo(q)' = AnnouncedTo(q)
            /\ GivenTo(q)' \in Skills \union {NoSkill}
            /\ AnnouncedTo(q) \in {NoSkill, GivenTo(q)'}
         \/ /\ StatusOf(q) = "announced" /\ StatusOf(q)' = "refused"
            /\ AnnouncedTo(q)' = AnnouncedTo(q)
            /\ GivenTo(q)' = GivenTo(q)
<1> USE DEF ChatTypeOK, Goto, StatusOf, AnnouncedTo, GivenTo, Announced, Finished
<1>1. CASE SelectNamed(q)
  BY <1>1 DEF SelectNamed
<1>2. CASE SelectByWords(q)
  BY <1>2 DEF SelectByWords
<1>3. CASE FetchTop(q)
  BY <1>3 DEF FetchTop
<1>4. CASE Announce(q)
  BY <1>4 DEF Announce
<1>5. CASE LookUp(q)
  BY <1>5 DEF LookUp
<1>6. CASE Retrieve(q)
  BY <1>6 DEF Retrieve
<1>7. CASE FetchBest(q)
  BY <1>7 DEF FetchBest
<1>8. CASE Generate(q)
  BY <1>8 DEF Generate
<1>9. CASE GenerateFails(q)
  BY <1>9 DEF GenerateFails
<1>10. CASE Respond(q)
  BY <1>10 DEF Respond, RequestInv, Unexecuted
<1>11. CASE ReportError(q)
  BY <1>11 DEF ReportError
<1>12. QED
  BY <1>1, <1>2, <1>3, <1>4, <1>5, <1>6, <1>7, <1>8, <1>9, <1>10, <1>11
     DEF RequestStep

\* A step that changes what the abstraction sees of one request, the way an
\* action of RequestReply does, is that action.
LEMMA PromiseStep ==
  ASSUME NEW q \in Requests,
         \A r \in Requests \ {q} :
           /\ StatusOf(r)' = StatusOf(r)
           /\ AnnouncedTo(r)' = AnnouncedTo(r)
           /\ GivenTo(r)' = GivenTo(r),
         \/ /\ StatusOf(q)' = StatusOf(q)
            /\ AnnouncedTo(q)' = AnnouncedTo(q)
            /\ GivenTo(q)' = GivenTo(q)
         \/ /\ StatusOf(q) = "unsent" /\ StatusOf(q)' = "accepted"
            /\ AnnouncedTo(q)' = AnnouncedTo(q)
            /\ GivenTo(q)' = GivenTo(q)
         \/ /\ StatusOf(q) = "accepted" /\ StatusOf(q)' = "announced"
            /\ AnnouncedTo(q)' \in Skills \union {NoSkill}
            /\ GivenTo(q)' = GivenTo(q)
         \/ /\ StatusOf(q) = "announced" /\ StatusOf(q)' = "answered"
            /\ AnnouncedTo(q)' = AnnouncedTo(q)
            /\ GivenTo(q)' \in Skills \union {NoSkill}
            /\ AnnouncedTo(q) \in {NoSkill, GivenTo(q)'}
         \/ /\ StatusOf(q) = "announced" /\ StatusOf(q)' = "refused"
            /\ AnnouncedTo(q)' = AnnouncedTo(q)
            /\ GivenTo(q)' = GivenTo(q)
  PROVE  [Promise!Next]_(Promise!vars)
<1> USE DEF Statuses, Announcements, Gifts
<1>m. /\ Statuses' = [Statuses EXCEPT ![q] = StatusOf(q)']
      /\ Announcements' = [Announcements EXCEPT ![q] = AnnouncedTo(q)']
      /\ Gifts' = [Gifts EXCEPT ![q] = GivenTo(q)']
  OBVIOUS
<1>e. /\ Statuses[q] = StatusOf(q) /\ Announcements[q] = AnnouncedTo(q)
      /\ Gifts[q] = GivenTo(q)
  OBVIOUS
<1>1. CASE /\ StatusOf(q)' = StatusOf(q)
           /\ AnnouncedTo(q)' = AnnouncedTo(q) /\ GivenTo(q)' = GivenTo(q)
  <2>1. UNCHANGED <<Statuses, Announcements, Gifts>>
    BY <1>1
  <2>2. QED
    BY <2>1 DEF Promise!vars, StatusOf, AnnouncedTo, GivenTo
<1>2. CASE /\ StatusOf(q) = "unsent" /\ StatusOf(q)' = "accepted"
           /\ AnnouncedTo(q)' = AnnouncedTo(q) /\ GivenTo(q)' = GivenTo(q)
  <2>1. /\ Statuses[q] = "unsent" /\ Statuses' = [Statuses EXCEPT ![q] = "accepted"]
        /\ UNCHANGED <<Announcements, Gifts>>
    BY <1>2, <1>m
  <2>2. Promise!Accept(q)
    BY <2>1 DEF Promise!Accept, StatusOf, AnnouncedTo, GivenTo
  <2>3. QED
    BY <2>2 DEF Promise!Next
<1>3. CASE /\ StatusOf(q) = "accepted" /\ StatusOf(q)' = "announced"
           /\ AnnouncedTo(q)' \in Skills \union {NoSkill} /\ GivenTo(q)' = GivenTo(q)
  <2>1. /\ Statuses[q] = "accepted" /\ Statuses' = [Statuses EXCEPT ![q] = "announced"]
        /\ Announcements' = [Announcements EXCEPT ![q] = AnnouncedTo(q)']
        /\ UNCHANGED Gifts
    BY <1>3, <1>m
  <2>2. PICK s \in Skills \union {NoSkill} : s = AnnouncedTo(q)'
    BY <1>3
  <2>3. Promise!Announce(q, s)
    BY <2>1, <2>2 DEF Promise!Announce, StatusOf, AnnouncedTo, GivenTo
  <2>4. QED
    BY <2>3 DEF Promise!Next
<1>4. CASE /\ StatusOf(q) = "announced" /\ StatusOf(q)' = "answered"
           /\ AnnouncedTo(q)' = AnnouncedTo(q)
           /\ GivenTo(q)' \in Skills \union {NoSkill}
           /\ AnnouncedTo(q) \in {NoSkill, GivenTo(q)'}
  <2>1. /\ Statuses[q] = "announced" /\ Statuses' = [Statuses EXCEPT ![q] = "answered"]
        /\ Gifts' = [Gifts EXCEPT ![q] = GivenTo(q)']
        /\ UNCHANGED Announcements
    BY <1>4, <1>m
  <2>2. PICK s \in Skills \union {NoSkill} : s = GivenTo(q)'
    BY <1>4
  <2>3. Announcements[q] \in {NoSkill, s}
    BY <1>4, <1>e, <2>2
  <2>4. Promise!Answer(q, s)
    BY <2>1, <2>2, <2>3 DEF Promise!Answer, StatusOf, AnnouncedTo, GivenTo
  <2>5. QED
    BY <2>4 DEF Promise!Next
<1>5. CASE /\ StatusOf(q) = "announced" /\ StatusOf(q)' = "refused"
           /\ AnnouncedTo(q)' = AnnouncedTo(q) /\ GivenTo(q)' = GivenTo(q)
  <2>1. /\ Statuses[q] = "announced" /\ Statuses' = [Statuses EXCEPT ![q] = "refused"]
        /\ UNCHANGED <<Announcements, Gifts>>
    BY <1>5, <1>m
  <2>2. Promise!Refuse(q)
    BY <2>1 DEF Promise!Refuse, StatusOf, AnnouncedTo, GivenTo
  <2>3. QED
    BY <2>2 DEF Promise!Next
<1>6. QED
  BY <1>1, <1>2, <1>3, <1>4, <1>5

\* A step that changes neither stages nor skills is a stutter.
LEMMA PromiseStutter ==
  ASSUME UNCHANGED <<stage, chosen, given>>
  PROVE  [Promise!Next]_(Promise!vars)
BY DEF Promise!vars

\* Every step of the process is, seen from the requests, a step of RequestReply or
\* invisible to it.
LEMMA NextSimulates == Inv /\ [Next]_vars => [Promise!Next]_(Promise!vars)
<1> SUFFICES ASSUME Inv, [Next]_vars
             PROVE  [Promise!Next]_(Promise!vars)
  OBVIOUS
<1> USE DEF Inv, TypeOK
<1>1. CASE \/ StartupStep \/ ReloadSkills \/ UNCHANGED vars
           \/ Interrupt \/ Shutdown \/ ListenFails \/ Crash
           \/ \E v \in Conns : Accept(v)
  <2>1. UNCHANGED <<stage, chosen, given>>
    BY <1>1 DEF StartupStep, LoadConfig, Run, InitLLM, LoadSkills, ReloadSkills,
                Reload, Interrupt, Shutdown, ListenFails, Crash, Accept,
                Connect, vars, chatVars, requestVars
  <2>2. QED
    BY <2>1, PromiseStutter
<1>2. CASE Chat
  <2>1. /\ UNCHANGED <<chosen, given>>
        /\ \/ UNCHANGED stage
           \/ \E r \in Requests : /\ stage[r] = "unsent"
                                 /\ stage' = [stage EXCEPT ![r] = "selecting"]
    BY <1>2, ConnStepEffect DEF Chat
  <2>2. CASE UNCHANGED stage
    BY <2>1, <2>2, PromiseStutter
  <2>3. ASSUME NEW q \in Requests, stage[q] = "unsent",
               stage' = [stage EXCEPT ![q] = "selecting"]
        PROVE  [Promise!Next]_(Promise!vars)
    <3>1. \A r \in Requests \ {q} : /\ StatusOf(r)' = StatusOf(r)
                                    /\ AnnouncedTo(r)' = AnnouncedTo(r)
                                    /\ GivenTo(r)' = GivenTo(r)
      BY <2>1, <2>3 DEF ChatTypeOK, StatusOf, AnnouncedTo, GivenTo
    <3>2. /\ StatusOf(q) = "unsent" /\ StatusOf(q)' = "accepted"
          /\ AnnouncedTo(q)' = AnnouncedTo(q) /\ GivenTo(q)' = GivenTo(q)
      BY <2>1, <2>3
         DEF ChatTypeOK, StatusOf, AnnouncedTo, GivenTo, Announced, Finished
    <3>3. QED
      BY <3>1, <3>2, PromiseStep
  <2>4. QED
    BY <2>1, <2>2, <2>3
<1>3. ASSUME NEW q \in Requests, Process(q)
      PROVE  [Promise!Next]_(Promise!vars)
  <2>1. RequestStep(q)
    BY <1>3 DEF Process
  <2>2. \A r \in Requests \ {q} : /\ StatusOf(r)' = StatusOf(r)
                                  /\ AnnouncedTo(r)' = AnnouncedTo(r)
                                  /\ GivenTo(r)' = GivenTo(r)
    BY <2>1, OtherRequest DEF StatusOf, AnnouncedTo, GivenTo
  <2>3. QED
    BY <2>1, <2>2, RequestSimulates, PromiseStep
<1>4. QED
  BY <1>1, <1>2, <1>3, OverlapEnds DEF Next

\* The whole server, with its connections, reloads, retries and shutdowns, only
\* ever accepts a request, announces its skill once, and then answers it, with
\* the announced skill if there is one, or refuses it, and never both.
THEOREM RequestsImplemented == Spec => ImplementsRequestReply
<1>1. Init => Promise!Init
  BY DEF Init, ChatInit, Promise!Init, Announced, Finished
<1>2. QED
  BY <1>1, Invariance, NextSimulates, PTL DEF Spec, ImplementsRequestReply, Promise!Spec
=============================================================================
