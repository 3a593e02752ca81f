--------------------------- MODULE RequestReply ---------------------------
(***************************************************************************)
(* What the chat service promises of a user_chat message, whatever happens *)
(* to connections, the registry and the LLM meanwhile: an accepted request *)
(* ends at most once, either with an answer or with an error, and never    *)
(* changes afterwards; while it runs, the skill it was announced with      *)
(* stays as announced, and an answer that names a skill was given that     *)
(* skill's instructions.                                                   *)
(***************************************************************************)
CONSTANTS Requests, Skills, NoSkill

VARIABLES
  status,     \* "unsent", "accepted", "announced", "answered" or "refused"
  announced,  \* the skill shown to the client, NoSkill when none was
  given       \* the skill whose instructions the LLM answered with

vars == <<status, announced, given>>

Init ==
  /\ status = [r \in Requests |-> "unsent"]
  /\ announced = [r \in Requests |-> NoSkill]
  /\ given = [r \in Requests |-> NoSkill]

Accept(r) ==
  /\ status[r] = "unsent"
  /\ status' = [status EXCEPT ![r] = "accepted"]
  /\ UNCHANGED <<announced, given>>

Announce(r, s) ==
  /\ status[r] = "accepted"
  /\ status' = [status EXCEPT ![r] = "announced"]
  /\ announced' = [announced EXCEPT ![r] = s]
  /\ UNCHANGED given

\* Without an announcement the LLM may still be given a skill.
Answer(r, s) ==
  /\ status[r] = "announced"
  /\ announced[r] \in {NoSkill, s}
  /\ status' = [status EXCEPT ![r] = "answered"]
  /\ given' = [given EXCEPT ![r] = s]
  /\ UNCHANGED announced

Refuse(r) ==
  /\ status[r] = "announced"
  /\ status' = [status EXCEPT ![r] = "refused"]
  /\ UNCHANGED <<announced, given>>

Next ==
  \E r \in Requests :
    \/ Accept(r) \/ Refuse(r)
    \/ \E s \in Skills \union {NoSkill} : Announce(r, s) \/ Answer(r, s)

Spec == Init /\ [][Next]_vars
=============================================================================
