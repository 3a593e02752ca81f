---------------------------- MODULE ChatStream ----------------------------
(***************************************************************************)
(* How a user_chat message is answered: the read loop hands the frame to   *)
(* HandleUserChatWithStreaming (internal/services/chat_handler.go), which  *)
(* starts a goroutine per message; the goroutine selects a skill in the    *)
(* registry, announces it, asks the executor (skill_executor.go) for an    *)
(* answer and sends it to whatever connection the identifier leads to by   *)
(* then.  Other frames are handled in the read loop and broadcast.         *)
(*                                                                         *)
(* One action is one critical section of the registry or of the connection *)
(* manager, one LLM call, or one send.  Sends are only logged when they    *)
(* fail, so whether one arrives changes nothing here.  Connections are     *)
(* those of ConnectionManager without heartbeats and slots: what is left   *)
(* is which handler goroutines run, whose contexts the requests use, and   *)
(* which sockets the manager holds.  #create_skill messages are those of   *)
(* SkillCreation; here they are seen as reloads of the registry.           *)
(***************************************************************************)
EXTENDS SkillRetrieval

CONSTANTS
  Conns,        \* upgraded connections
  Ids,          \* connection identifiers
  IdOf,         \* connection -> identifier
  Requests,     \* the user_chat messages of a behaviour
  MessageOf,    \* request -> [id, selected, header, words]: the identifier its
                \* sender has, selected_skill, skills_id, tokens of the text
  Frames,       \* what else a client may send, see FrameShape
  Catalogs,     \* the sets of skills S3 can be found to hold
  MaxAttempts,  \* attempts of RetryWithBackoff
  MaxReloads,   \* bound: reloads of the registry in a behaviour
  NoConn, NoSkill

UserChat == "user_chat"
Heartbeat == "heartbeat_chat"

ValidTypes ==
  {UserChat, "system_chat", "system_thinking", "system_response", Heartbeat}

\* A frame as far as the handlers tell frames apart: does it parse as a
\* WSMessage, has it a timestamp, and has its data the structure and the
\* required fields of its type.
FrameShape == [parses : BOOLEAN, type : STRING, complete : BOOLEAN, stamped : BOOLEAN]

ASSUME ChatAssumption ==
  /\ IdOf \in [Conns -> Ids]
  /\ \A r \in Requests : /\ MessageOf[r].id \in Ids
                         /\ MessageOf[r].selected \in Skills \union {NoSkill}
                         /\ MessageOf[r].header \in Skills \union {NoSkill}
                         /\ MessageOf[r].words \in Seq(Tokens)
  /\ Frames \subseteq FrameShape
  /\ Catalogs \subseteq SUBSET Skills
  /\ MaxAttempts \in Nat \ {0}
  /\ MaxReloads \in Nat
  /\ NoConn \notin Conns
  /\ NoSkill \notin Skills

VARIABLES
  connections,  \* manager.connections
  handler,      \* the HTTP handler goroutine of each connection
  registry,     \* the skills of SkillRegistry
  reloads,      \* reloads so far
  llm,          \* which LLMService was built: "none" yet, "mock" or "bedrock"
  stage,        \* program counter of processUserChatStream
  via,          \* the connection whose handler started it
  matches,      \* matchedResults, while they are used
  chosen,       \* selectedSkill
  given,        \* the skill in the LLM request
  attempts      \* attempts of generateResponse

connVars == <<connections, handler>>
requestVars == <<stage, via, matches, chosen, given, attempts>>
chatVars == <<connections, handler, registry, reloads, llm, requestVars>>

Stages ==
  {"unsent", "selecting", "fetching", "announcing", "looking_up", "retrieving",
   "fetching_best", "generating", "answering", "failing", "answered", "failed"}

Finished == {"answered", "failed"}

\* Stages in which the goroutine has announced its skill.
Announced ==
  {"looking_up", "retrieving", "fetching_best", "generating", "answering",
   "failing"} \union Finished

\* Every retrieval there can be for the messages: a set, so that TLC computes
\* the retrievals once.
AllRetrievals ==
  UNION {{[request |-> r, skills |-> S, results |-> m] :
            m \in Retrievals(MessageOf[r].words, S)} :
         r \in Requests, S \in SUBSET Skills}

ChatTypeOK ==
  /\ connections \in [Ids -> Conns \union {NoConn}]
  /\ handler \in [Conns -> {"new", "reading", "closed", "ended"}]
  /\ registry \in SUBSET Skills
  /\ reloads \in 0..MaxReloads
  /\ llm \in {"none", "mock", "bedrock"}
  /\ stage \in [Requests -> Stages]
  /\ via \in [Requests -> Conns \union {NoConn}]
  /\ matches \in [Requests -> {<<>>} \union {a.results : a \in AllRetrievals}]
  /\ chosen \in [Requests -> Skills \union {NoSkill}]
  /\ given \in [Requests -> Skills \union {NoSkill}]
  /\ attempts \in [Requests -> 0..MaxAttempts]

ChatInit ==
  /\ connections = [i \in Ids |-> NoConn]
  /\ handler = [v \in Conns |-> "new"]
  /\ registry = {}
  /\ reloads = 0
  /\ llm = "none"
  /\ stage = [r \in Requests |-> "unsent"]
  /\ via = [r \in Requests |-> NoConn]
  /\ matches = [r \in Requests |-> <<>>]
  /\ chosen = [r \in Requests |-> NoSkill]
  /\ given = [r \in Requests |-> NoSkill]
  /\ attempts = [r \in Requests |-> 0]

-----------------------------------------------------------------------------
\* The skill the client asks for by name, NoSkill when it leaves the choice to
\* the retrieval.  selected_skill goes before skills_id.
Named(r) ==
  IF MessageOf[r].selected # NoSkill THEN MessageOf[r].selected
  ELSE MessageOf[r].header

Goto(r, s) == stage' = [stage EXCEPT ![r] = s]

\* GetSkill(s), as the skill that is found or NoSkill.
GetSkill(s) == IF s \in registry THEN s ELSE NoSkill

\* What RetrieveSkills can return for the message of r.
RetrieveSkills(r) ==
  {a.results : a \in {b \in AllRetrievals : b.request = r /\ b.skills = registry}}

\* The request context is that of the HTTP request: cancelled when the
\* handler that started the goroutine returns.
Cancelled(r) == handler[via[r]] = "ended"

ValidateWSMessage(f) == f.type \in ValidTypes /\ f.complete /\ f.stamped

Streamed(f) == f.parses /\ f.type = UserChat

-----------------------------------------------------------------------------
\* Faulty variants of the actions below.

\* The skill has gone, and the request goes on without one.
LookUpOrSkip(r) ==
  /\ stage[r] = "looking_up"
  /\ given' = [given EXCEPT ![r] = GetSkill(chosen[r])]
  /\ Goto(r, "generating")
  /\ UNCHANGED <<connVars, registry, reloads, llm, via, matches, chosen, attempts>>

\* The announced skill is overwritten by what the executor found.
FetchBestAnnounced(r) ==
  /\ stage[r] = "fetching_best"
  /\ given' = [given EXCEPT ![r] = GetSkill(matches[r][1].skill)]
  /\ chosen' = given'
  /\ matches' = [matches EXCEPT ![r] = <<>>]
  /\ Goto(r, "generating")
  /\ UNCHANGED <<connVars, registry, reloads, llm, via, attempts>>

GenerateFailsUncounted(r) ==
  /\ stage[r] = "generating"
  /\ llm = "bedrock"
  /\ UNCHANGED chatVars

GenerateFailsOneShort(r) ==
  /\ stage[r] = "generating"
  /\ llm = "bedrock"
  /\ attempts' = [attempts EXCEPT ![r] = @ + 1]
  /\ Goto(r, IF attempts[r] + 1 >= MaxAttempts - 1 THEN "failing" ELSE "generating")
  /\ UNCHANGED <<connVars, registry, reloads, llm, via, matches, chosen, given>>

GenerateFailsOneMore(r) ==
  /\ stage[r] = "generating"
  /\ llm = "bedrock"
  /\ attempts' = [attempts EXCEPT ![r] = @ + 1]
  /\ Goto(r, IF attempts[r] = MaxAttempts THEN "failing" ELSE "generating")
  /\ UNCHANGED <<connVars, registry, reloads, llm, via, matches, chosen, given>>

-----------------------------------------------------------------------------
\* Connections

\* The upgrade and AddConnection: the entry is written whatever it held.
Connect(v) ==
  /\ handler[v] = "new"
  /\ handler' = [handler EXCEPT ![v] = "reading"]
  /\ connections' = [connections EXCEPT ![IdOf[v]] = v]
  /\ UNCHANGED <<registry, reloads, llm, requestVars>>

\* ReadMessage fails; the deferred RemoveConnection deletes the entry of the
\* identifier, whichever connection it holds, and the context is cancelled.
Leave(v) ==
  /\ handler[v] \in {"reading", "closed"}
  /\ handler' = [handler EXCEPT ![v] = "ended"]
  /\ connections' = [connections EXCEPT ![IdOf[v]] = NoConn]
  /\ UNCHANGED <<registry, reloads, llm, requestVars>>

\* The manager takes the entries of I out of its map and closes their
\* sockets; the handlers have yet to notice.
DropEntries(I) ==
  /\ handler' = [v \in Conns |-> IF \E i \in I : connections[i] = v
                                 THEN "closed" ELSE handler[v]]
  /\ connections' = [i \in Ids |-> IF i \in I THEN NoConn ELSE connections[i]]

\* handleHeartbeatTimeout
TimeOut(i) ==
  /\ connections[i] # NoConn
  /\ DropEntries({i})
  /\ UNCHANGED <<registry, reloads, llm, requestVars>>

-----------------------------------------------------------------------------
\* Frames in the read loop

\* A well-formed user_chat frame starts the goroutine of a request, any other
\* user_chat frame gets an error, and the loop reads on.
ReceiveChat(v, f) ==
  /\ handler[v] = "reading"
  /\ Streamed(f)
  /\ IF ValidateWSMessage(f)
     THEN \E r \in Requests :
            /\ stage[r] = "unsent"
            /\ MessageOf[r].id = IdOf[v]
            /\ Goto(r, "selecting")
            /\ via' = [via EXCEPT ![r] = v]
            /\ UNCHANGED <<matches, chosen, given, attempts>>
     ELSE UNCHANGED requestVars
  /\ UNCHANGED <<connVars, registry, reloads, llm>>

\* Heartbeats stay with the connection manager.  For the rest
\* HandleIncomingMessage always has something to say, an acknowledgement, an
\* echo or an error, and it is broadcast.  The entries of I are those whose
\* write fails.
ReceiveOther(v, f) ==
  /\ handler[v] = "reading"
  /\ ~Streamed(f)
  /\ ~(f.parses /\ f.type = Heartbeat)
  /\ \E I \in SUBSET {i \in Ids : connections[i] # NoConn} : DropEntries(I)
  /\ UNCHANGED <<registry, reloads, llm, requestVars>>

-----------------------------------------------------------------------------
\* processUserChatStream

SelectNamed(r) ==
  /\ stage[r] = "selecting"
  /\ Named(r) # NoSkill
  /\ chosen' = [chosen EXCEPT ![r] = GetSkill(Named(r))]
  /\ Goto(r, "announcing")
  /\ UNCHANGED <<connVars, registry, reloads, llm, via, matches, given, attempts>>

SelectByWords(r) ==
  /\ stage[r] = "selecting"
  /\ Named(r) = NoSkill
  /\ \E m \in RetrieveSkills(r) :
       /\ matches' = [matches EXCEPT ![r] = m]
       /\ Goto(r, IF m = <<>> THEN "announcing" ELSE "fetching")
  /\ UNCHANGED <<connVars, registry, reloads, llm, via, chosen, given, attempts>>

\* The best match is fetched in a second critical section.
FetchTop(r) ==
  /\ stage[r] = "fetching"
  /\ chosen' = [chosen EXCEPT ![r] = GetSkill(matches[r][1].skill)]
  /\ matches' = [matches EXCEPT ![r] = <<>>]
  /\ Goto(r, "announcing")
  /\ UNCHANGED <<connVars, registry, reloads, llm, via, given, attempts>>

\* The two thinking messages, and the choice between ExecuteWithSkill and
\* Execute.
Announce(r) ==
  /\ stage[r] = "announcing"
  /\ Goto(r, IF chosen[r] = NoSkill THEN "retrieving" ELSE "looking_up")
  /\ UNCHANGED <<connVars, registry, reloads, llm, via, matches, chosen, given,
                 attempts>>

\* ExecuteWithSkill looks the skill up again.
LookUp(r) ==
  /\ stage[r] = "looking_up"
  /\ given' = [given EXCEPT ![r] = GetSkill(chosen[r])]
  /\ Goto(r, IF chosen[r] \in registry THEN "generating" ELSE "failing")
  /\ UNCHANGED <<connVars, registry, reloads, llm, via, matches, chosen, attempts>>

\* Execute retrieves a skill of its own, even for a client that named one.
Retrieve(r) ==
  /\ stage[r] = "retrieving"
  /\ \E m \in RetrieveSkills(r) :
       /\ matches' = [matches EXCEPT ![r] = m]
       /\ Goto(r, IF m = <<>> THEN "generating" ELSE "fetching_best")
  /\ UNCHANGED <<connVars, registry, reloads, llm, via, chosen, given, attempts>>

FetchBest(r) ==
  /\ stage[r] = "fetching_best"
  /\ given' = [given EXCEPT ![r] = GetSkill(matches[r][1].skill)]
  /\ matches' = [matches EXCEPT ![r] = <<>>]
  /\ Goto(r, "generating")
  /\ UNCHANGED <<connVars, registry, reloads, llm, via, chosen, attempts>>

\* One attempt of generateResponse.  The mock knows neither failures nor
\* contexts; a Bedrock call fails when its context is cancelled.
Generate(r) ==
  /\ stage[r] = "generating"
  /\ llm = "mock" \/ ~Cancelled(r)
  /\ attempts' = [attempts EXCEPT ![r] = @ + 1]
  /\ Goto(r, "answering")
  /\ UNCHANGED <<connVars, registry, reloads, llm, via, matches, chosen, given>>

\* A call that fails or runs into its timeout is repeated after the backoff,
\* whether or not the client is still there.
GenerateFails(r) ==
  /\ stage[r] = "generating"
  /\ llm = "bedrock"
  /\ attempts' = [attempts EXCEPT ![r] = @ + 1]
  /\ Goto(r, IF attempts[r] + 1 >= MaxAttempts THEN "failing" ELSE "generating")
  /\ UNCHANGED <<connVars, registry, reloads, llm, via, matches, chosen, given>>

\* sendResponse and sendError
Respond(r) ==
  /\ stage[r] = "answering"
  /\ Goto(r, "answered")
  /\ UNCHANGED <<connVars, registry, reloads, llm, via, matches, chosen, given,
                 attempts>>

ReportError(r) ==
  /\ stage[r] = "failing"
  /\ Goto(r, "failed")
  /\ UNCHANGED <<connVars, registry, reloads, llm, via, matches, chosen, given,
                 attempts>>

-----------------------------------------------------------------------------
\* Registry.Reload at the end of a #create_skill pipeline.
Reload(S) ==
  /\ reloads < MaxReloads
  /\ reloads' = reloads + 1
  /\ registry' = S
  /\ UNCHANGED <<connVars, llm, requestVars>>

RequestStep(r) ==
  \/ SelectNamed(r) \/ SelectByWords(r) \/ FetchTop(r) \/ Announce(r)
  \/ LookUp(r) \/ Retrieve(r) \/ FetchBest(r)
  \/ Generate(r) \/ GenerateFails(r) \/ Respond(r) \/ ReportError(r)

\* What clients and the manager do to connections the server already has.
ConnStep ==
  \/ \E v \in Conns :
       \/ Leave(v)
       \/ \E f \in Frames : ReceiveChat(v, f) \/ ReceiveOther(v, f)
  \/ \E i \in Ids : TimeOut(i)

-----------------------------------------------------------------------------
\* The skill a client is told about is the skill the LLM worked with.  A
\* request is never announced with another skill than the one it named, and
\* is never answered without the announced skill's instructions; as long as
\* nothing is reloaded, naming a skill the registry has means getting it.
\* (The converse fails: a request announced without a skill may be given one.)
SkillHonoured ==
  \A r \in Requests :
    /\ stage[r] \in {"generating", "answering", "answered"} /\ chosen[r] # NoSkill
         => given[r] = chosen[r]
    /\ Named(r) # NoSkill => chosen[r] \in {NoSkill, Named(r)}
    /\ stage[r] \in Finished /\ reloads = 0 /\ Named(r) \in registry
         => given[r] = Named(r)

\* An error is reported only when there was nothing left to try: after the
\* last attempt, or because the announced skill went away in a reload between
\* the selection and the executor's own lookup.  The mock never fails.
ErrorsAreEarned ==
  \A r \in Requests :
    stage[r] \in {"failing", "failed"} =>
      \/ attempts[r] = MaxAttempts /\ llm = "bedrock"
      \/ attempts[r] = 0 /\ chosen[r] # NoSkill /\ given[r] = NoSkill /\ reloads > 0

\* Whenever a request retrieves, by itself or through the executor, what it
\* gets are the best matches of the registry of that moment.
RetrievedAreBest ==
  [][\A r \in Requests :
       /\ \/ stage[r] = "selecting" /\ Named(r) = NoSkill
          \/ stage[r] = "retrieving"
       /\ stage'[r] # stage[r]
       => IsBestMatches(matches'[r], MessageOf[r].words, registry)]_chatVars

\* Every accepted request is a request of RequestReply.
Promise == INSTANCE RequestReply WITH
  status <- [r \in Requests |->
               IF stage[r] = "unsent" THEN "unsent"
               ELSE IF stage[r] \notin Announced THEN "accepted"
               ELSE IF stage[r] = "answered" THEN "answered"
               ELSE IF stage[r] = "failed" THEN "refused"
               ELSE "announced"],
  announced <- [r \in Requests |-> IF stage[r] \in Announced THEN chosen[r] ELSE NoSkill],
  given <- [r \in Requests |-> IF stage[r] = "answered" THEN given[r] ELSE NoSkill]

ImplementsRequestReply == Promise!Spec
=============================================================================
