--------------------------- MODULE SkillCreation ---------------------------
(***************************************************************************)
(* The #create_skill pipeline of internal/services/skill_creator.go with   *)
(* the S3 calls it makes (s3_skill_loader.go) and the in-memory registry   *)
(* it refreshes (skill_registry.go).  A pipeline is one call of            *)
(* tryHandleCreateSkillCommand: a goroutine of its own, with the request   *)
(* context of the WebSocket handler, which is cancelled when that returns. *)
(*                                                                         *)
(* One action is one S3 or LLM call with the outcome its caller sees, or   *)
(* one critical section of the registry.  A write that fails for its       *)
(* caller may have been carried out: the reply can be lost.                *)
(*                                                                         *)
(* A content is the name of what wrote it: Original for an object that was *)
(* there before, Placeholder for the empty reservation, and a pipeline for *)
(* the Markdown it generated.                                              *)
(***************************************************************************)
EXTENDS Naturals

CONSTANTS
  Pipelines,      \* the #create_skill commands of a behaviour
  Names,          \* skill names, numbered in the order S3 lists their keys
  NameOf,         \* pipeline -> the name it asks for
  InitialSkills,  \* names that may have a skill at the start
  SerialNames,    \* names whose creators wait for one pipeline to end before
                  \* they start the next
  Faults,         \* may an S3 call fail while its client is connected?
  Absent, Placeholder, Original

ASSUME PipelinesAssumption ==
  /\ Names \subseteq Nat
  /\ NameOf \in [Pipelines -> Names]
  /\ InitialSkills \subseteq Names
  /\ SerialNames \subseteq Names
  /\ Faults \in BOOLEAN
  /\ Absent # Placeholder /\ Absent # Original /\ Placeholder # Original
  /\ {Absent, Placeholder, Original} \intersect Pipelines = {}

VARIABLES
  phase,     \* how far each pipeline is
  gone,      \* pipelines whose context is cancelled
  bucket,    \* the skill objects in S3
  toLoad,    \* names of LoadAllSkills' listing that are still to be loaded
  loaded,    \* what LoadAllSkills has loaded so far
  registry   \* SkillRegistry.skills

vars == <<phase, gone, bucket, toLoad, loaded, registry>>

Contents == {Absent, Placeholder, Original} \union Pipelines

Ended == {"refused", "failed", "succeeded", "lost"}

InProgress ==
  {"checking", "reserving", "generating", "cleaning", "uploading", "listing",
   "loading"}

NothingLoaded == [n \in Names |-> Absent]

TypeOK ==
  /\ phase \in [Pipelines -> {"sent"} \union InProgress \union Ended]
  /\ gone \in SUBSET Pipelines
  /\ bucket \in [Names -> Contents]
  /\ registry \in [Names -> Contents]
  /\ toLoad \in [Pipelines -> SUBSET Names]
  /\ loaded \in [Pipelines -> [Names -> Contents]]
  /\ \A p \in Pipelines :
       phase[p] # "loading" => toLoad[p] = {} /\ loaded[p] = NothingLoaded

\* A listing of b of which some objects could not be read.
Readings(b) == {r \in [Names -> Contents] : \A n \in Names : r[n] \in {b[n], Absent}}

\* The server has loaded what it could before it accepts connections.
Init ==
  /\ phase = [p \in Pipelines |-> "sent"]
  /\ gone = {}
  /\ \E S \in SUBSET InitialSkills :
       bucket = [n \in Names |-> IF n \in S THEN Original ELSE Absent]
  /\ toLoad = [p \in Pipelines |-> {}]
  /\ loaded = [p \in Pipelines |-> NothingLoaded]
  /\ registry \in Readings(bucket)

-----------------------------------------------------------------------------
\* Helpers

Goto(p, q) == phase' = [phase EXCEPT ![p] = q]

\* An S3 call of p may fail: by itself, or since its context is cancelled,
\* and then it always fails.
MayFail(p) == Faults \/ p \in gone
MaySucceed(p) == p \notin gone

\* PutObject or DeleteObject of the name of p: the bucket holds `content`
\* after it succeeds, and may do so after it fails.
Write(p, content, next, nextOnError) ==
  LET written == [bucket EXCEPT ![NameOf[p]] = content] IN
    \/ MaySucceed(p) /\ bucket' = written /\ Goto(p, next)
    \/ MayFail(p) /\ bucket' \in {bucket, written} /\ Goto(p, nextOnError)

Unserialised(p) ==
  NameOf[p] \in SerialNames =>
    \A q \in Pipelines : NameOf[q] = NameOf[p] => phase[q] \notin InProgress

-----------------------------------------------------------------------------
\* Faulty variants, each a slip this code could contain.

\* SkillExists returns false with its error, and the error is not looked at.
SkillExistsUnsure(p) ==
  /\ phase[p] = "checking"
  /\ Goto(p, IF bucket[NameOf[p]] # Absent /\ MaySucceed(p) THEN "refused"
             ELSE "reserving")
  /\ UNCHANGED <<gone, bucket, toLoad, loaded, registry>>

\* The error of the second upload is logged only.
UploadUnchecked(p) ==
  /\ phase[p] = "uploading"
  /\ Write(p, p, "listing", "listing")
  /\ UNCHANGED <<gone, toLoad, loaded, registry>>

\* The generated content is validated after it has been uploaded.
UploadUnvalidated(p) ==
  /\ phase[p] = "uploading"
  /\ \E next \in {"listing", "cleaning"} : Write(p, p, next, "failed")
  /\ UNCHANGED <<gone, toLoad, loaded, registry>>

\* Reload before everything listed has been loaded.
ReloadEarly(p) ==
  /\ phase[p] = "loading"
  /\ registry' = loaded[p]
  /\ Goto(p, "succeeded")
  /\ UNCHANGED <<gone, bucket, toLoad, loaded>>

-----------------------------------------------------------------------------
\* The pipeline

\* Name, description, injection patterns, permission and a configured bucket:
\* a command is refused before it has touched anything, or goes on.
Validate(p) ==
  /\ phase[p] = "sent"
  /\ Unserialised(p)
  /\ \E q \in {"checking", "refused"} : Goto(p, q)
  /\ UNCHANGED <<gone, bucket, toLoad, loaded, registry>>

\* HeadObject.  Any error but 404 ends the pipeline.
SkillExists(p) ==
  /\ phase[p] = "checking"
  /\ \/ MaySucceed(p) /\ bucket[NameOf[p]] = Absent /\ Goto(p, "reserving")
     \/ MaySucceed(p) /\ bucket[NameOf[p]] # Absent /\ Goto(p, "refused")
     \/ MayFail(p) /\ Goto(p, "refused")
  /\ UNCHANGED <<gone, bucket, toLoad, loaded, registry>>

\* The reservation is a plain PutObject: it does not fail when the name has
\* been taken since SkillExists.
Reserve(p) ==
  /\ phase[p] = "reserving"
  /\ Write(p, Placeholder, "generating", "failed")
  /\ UNCHANGED <<gone, toLoad, loaded, registry>>

\* GenerateSkillContent and validateGeneratedSkillContent.
Generate(p) ==
  /\ phase[p] = "generating"
  /\ \/ MaySucceed(p) /\ Goto(p, "uploading")
     \/ Goto(p, "cleaning")
  /\ UNCHANGED <<gone, bucket, toLoad, loaded, registry>>

\* DeleteSkill, with the context of the request; its failure is logged.
Clean(p) ==
  /\ phase[p] = "cleaning"
  /\ Write(p, Absent, "failed", "failed")
  /\ UNCHANGED <<gone, toLoad, loaded, registry>>

Upload(p) ==
  /\ phase[p] = "uploading"
  /\ Write(p, p, "listing", "failed")
  /\ UNCHANGED <<gone, toLoad, loaded, registry>>

\* LoadAllSkills: without a listing nothing is reloaded, and the command has
\* succeeded all the same.
List(p) ==
  /\ phase[p] = "listing"
  /\ \/ /\ MaySucceed(p)
        /\ toLoad' = [toLoad EXCEPT ![p] = {n \in Names : bucket[n] # Absent}]
        /\ Goto(p, "loading")
     \/ MayFail(p) /\ Goto(p, "succeeded") /\ UNCHANGED toLoad
  /\ UNCHANGED <<gone, bucket, loaded, registry>>

\* LoadSkill of the next listed name.  What cannot be read, or is no longer there,
\* is left out; an empty object parses to a skill.
LoadSkill(p) ==
  /\ phase[p] = "loading"
  /\ \E n \in toLoad[p] :
       /\ \A m \in toLoad[p] : n <= m
       /\ toLoad' = [toLoad EXCEPT ![p] = @ \ {n}]
       /\ \/ MaySucceed(p) /\ loaded' = [loaded EXCEPT ![p][n] = bucket[n]]
          \/ MayFail(p) /\ UNCHANGED loaded
  /\ UNCHANGED <<phase, gone, bucket, registry>>

\* Reload replaces the whole map, and the success is answered.
Reload(p) ==
  /\ phase[p] = "loading"
  /\ toLoad[p] = {}
  /\ registry' = loaded[p]
  /\ loaded' = [loaded EXCEPT ![p] = NothingLoaded]
  /\ Goto(p, "succeeded")
  /\ UNCHANGED <<gone, bucket, toLoad>>

-----------------------------------------------------------------------------
\* The environment

\* The client of p disconnects: its handler returns, the context is cancelled.
ClientLeaves(p) ==
  /\ phase[p] \in InProgress
  /\ p \notin gone
  /\ gone' = gone \union {p}
  /\ UNCHANGED <<phase, bucket, toLoad, loaded, registry>>

\* The server dies with its pipelines and starts again.
Restart ==
  /\ \E p \in Pipelines : phase[p] \in InProgress
  /\ phase' = [p \in Pipelines |-> IF phase[p] \in InProgress THEN "lost" ELSE phase[p]]
  /\ registry' \in Readings(bucket)
  /\ toLoad' = [p \in Pipelines |-> {}]
  /\ loaded' = [p \in Pipelines |-> NothingLoaded]
  /\ UNCHANGED <<gone, bucket>>

-----------------------------------------------------------------------------
Step(p) ==
  \/ Validate(p) \/ SkillExists(p) \/ Reserve(p) \/ Generate(p) \/ Clean(p)
  \/ Upload(p) \/ List(p) \/ LoadSkill(p) \/ Reload(p)

Next ==
  \/ \E p \in Pipelines : Step(p) \/ ClientLeaves(p)
  \/ Restart

Spec == Init /\ [][Next]_vars

-----------------------------------------------------------------------------
\* Properties

\* A skill that was there is never overwritten or deleted, whatever fails and
\* however many commands ask for its name at once: no pipeline gets past the
\* existence check unless it has read a 404.
ExistingKept ==
  [][\A n \in Names : bucket[n] = Original => bucket'[n] = Original]_vars

\* A success that was answered is true: the content generated for that command
\* is in the bucket, after later commands for the name, lost replies, clients
\* that left and restarts.
SuccessIsStored ==
  \A p \in Pipelines :
    NameOf[p] \in SerialNames /\ phase[p] = "succeeded" => bucket[NameOf[p]] = p

\* The registry is refreshed from a listing and from reads that are not one
\* snapshot, and replaced by whichever pipeline reloads last; still it never
\* serves a body the bucket does not hold.  The one exception is an empty
\* skill: a reservation that was listed as one.
RegistryServesStored ==
  \A n \in Names : n \in SerialNames \/ registry[n] = Original =>
    registry[n] \in {Absent, Placeholder, bucket[n]}

\* Reservations, uploads, cleanups and whatever becomes of their replies add
\* up to atomic creations: a name is given away once and keeps its content.
SerialBucket ==
  [n \in SerialNames |-> IF bucket[n] = Placeholder THEN Absent ELSE bucket[n]]

Catalog == INSTANCE SkillCatalog WITH
  Names <- SerialNames,
  Creations <- {p \in Pipelines : NameOf[p] \in SerialNames},
  Earlier <- Original,
  Free <- Absent,
  content <- SerialBucket

ImplementsCatalog == Catalog!Spec

-----------------------------------------------------------------------------
\* Statements of the documentation that the code does not keep

\* "Whatever step fails, the reservation is rolled back": a pipeline that has
\* failed on its own name does not leave its placeholder behind.
RollbackOnFailure ==
  \A p \in Pipelines :
    phase[p] = "failed" /\ (\A q \in Pipelines : NameOf[q] = NameOf[p] => q = p)
      => bucket[NameOf[p]] # Placeholder

\* "Only the first creates the placeholder, the second finds it and fails."
OneReservation ==
  \A p, q \in Pipelines :
    /\ NameOf[p] = NameOf[q]
    /\ {phase[p], phase[q]} \subseteq {"generating", "uploading", "listing",
                                       "loading", "succeeded"}
    => p = q

\* "The registry is refreshed without a restart": when all commands have ended
\* and no client left, every skill whose creation was answered is registered.
SuccessIsRegistered ==
  (gone = {} /\ \A p \in Pipelines : phase[p] \in Ended \ {"lost"}) =>
    \A p \in Pipelines : phase[p] = "succeeded" => registry[NameOf[p]] = p
=============================================================================
