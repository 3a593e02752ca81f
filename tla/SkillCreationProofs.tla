------------------------ MODULE SkillCreationProofs ------------------------
(***************************************************************************)
(* Theorems about SkillCreation, for any number of pipelines and names.    *)
(*                                                                         *)
(* The inductive invariant says what a pipeline may rely on between two of *)
(* its calls:                                                              *)
(*   Unguarded    past the existence check, its name is not an old skill;  *)
(*   OneAtATime   pipelines of a serial name do not overlap;               *)
(*   OwnContent   the object of a serial name is what its pipeline wrote   *)
(*                last, and stays so once the pipeline has uploaded;       *)
(*   AllServing   no listing under way holds what the bucket does not.     *)
(***************************************************************************)
EXTENDS SkillCreation, TLAPS

Writing == {"reserving", "generating", "cleaning", "uploading"}
Committed == {"listing", "loading", "succeeded"}

Unguarded == \A p \in Pipelines : phase[p] \in Writing => bucket[NameOf[p]] # Original

OneAtATime ==
  \A p, q \in Pipelines :
    /\ NameOf[p] = NameOf[q] /\ NameOf[p] \in SerialNames
    /\ phase[p] \in InProgress /\ phase[q] \in InProgress
    => p = q

OwnContent ==
  \A p \in Pipelines : NameOf[p] \in SerialNames =>
    /\ phase[p] = "reserving" => bucket[NameOf[p]] = Absent
    /\ phase[p] \in Writing \ {"reserving"} => bucket[NameOf[p]] = Placeholder
    /\ phase[p] \in Committed => bucket[NameOf[p]] = p

Serves(r, b) ==
  \A n \in Names : n \in SerialNames \/ r[n] = Original =>
    r[n] \in {Absent, Placeholder, b[n]}

AllServing ==
  /\ Serves(registry, bucket)
  /\ \A p \in Pipelines : Serves(loaded[p], bucket)

-----------------------------------------------------------------------------
\* Type correctness.

\* Bucket, registry and pipelines start in their types.
LEMMA InitType == Init => TypeOK
<1> USE PipelinesAssumption
<1>1. Init => bucket \in [Names -> Contents]
  BY DEF Init, Contents
<1>2. QED
  BY <1>1 DEF Init, TypeOK, Readings, NothingLoaded, Contents

\* A write of p, with whatever outcome, moves p and touches its name only.
LEMMA WriteEffect ==
  ASSUME TypeOK, NEW p \in Pipelines, NEW content \in Contents,
         NEW next, NEW nextOnError, Write(p, content, next, nextOnError)
  PROVE  /\ bucket' \in [Names -> Contents]
         /\ bucket' \in {bucket, [bucket EXCEPT ![NameOf[p]] = content]}
         /\ \/ phase' = [phase EXCEPT ![p] = next]
               /\ bucket' = [bucket EXCEPT ![NameOf[p]] = content]
            \/ phase' = [phase EXCEPT ![p] = nextOnError]
BY PipelinesAssumption DEF Write, Goto, TypeOK

\* A step of a pipeline keeps every variable in its type.
LEMMA StepType ==
  ASSUME TypeOK, NEW p \in Pipelines, Step(p)
  PROVE  TypeOK'
<1> USE PipelinesAssumption
<1>2. CASE Validate(p)
  BY <1>2 DEF Validate, TypeOK, Goto, InProgress, Ended
<1>3. CASE SkillExists(p)
  BY <1>3 DEF SkillExists, TypeOK, Goto, InProgress, Ended
<1>4. CASE Reserve(p)
  <2>1. Placeholder \in Contents
    BY DEF Contents
  <2>2. QED
    BY <1>4, <2>1, WriteEffect DEF Reserve, TypeOK, InProgress, Ended
<1>5. CASE Generate(p)
  BY <1>5 DEF Generate, TypeOK, Goto, InProgress, Ended
<1>6. CASE Clean(p)
  <2>1. Absent \in Contents
    BY DEF Contents
  <2>2. QED
    BY <1>6, <2>1, WriteEffect DEF Clean, TypeOK, InProgress, Ended
<1>7. CASE Upload(p)
  <2>1. p \in Contents
    BY DEF Contents
  <2>2. QED
    BY <1>7, <2>1, WriteEffect DEF Upload, TypeOK, InProgress, Ended
<1>8. CASE List(p)
  <2> DEFINE listing == {n \in Names : bucket[n] # Absent}
  <2>1. \/ /\ toLoad' = [toLoad EXCEPT ![p] = listing]
           /\ phase' = [phase EXCEPT ![p] = "loading"]
        \/ toLoad' = toLoad /\ phase' = [phase EXCEPT ![p] = "succeeded"]
    BY <1>8 DEF List, Goto
  <2>2. listing \in SUBSET Names
    OBVIOUS
  <2>3. toLoad' \in [Pipelines -> SUBSET Names]
    <3> HIDE DEF listing
    <3>1. QED
      BY <2>1, <2>2 DEF TypeOK
  <2>4. \A q \in Pipelines : q # p => toLoad'[q] = toLoad[q] /\ phase'[q] = phase[q]
    <3> HIDE DEF listing
    <3>1. QED
      BY <2>1 DEF TypeOK
  <2>5. phase'[p] # "loading" => toLoad' = toLoad
    BY <2>1 DEF TypeOK
  <2>6. phase' \in [Pipelines -> {"sent"} \union InProgress \union Ended]
    BY <2>1 DEF TypeOK, InProgress, Ended
  <2>7. phase[p] = "listing" /\ UNCHANGED <<gone, bucket, loaded, registry>>
    BY <1>8 DEF List
  <2>8. QED
    BY <2>3, <2>4, <2>5, <2>6, <2>7 DEF TypeOK
<1>9. CASE LoadSkill(p)
  <2>1. PICK n \in toLoad[p] :
          /\ toLoad' = [toLoad EXCEPT ![p] = @ \ {n}]
          /\ loaded' = [loaded EXCEPT ![p][n] = bucket[n]] \/ UNCHANGED loaded
    BY <1>9 DEF LoadSkill
  <2>2. n \in Names /\ bucket[n] \in Contents
    BY <2>1 DEF TypeOK
  <2>3. loaded' \in [Pipelines -> [Names -> Contents]]
    BY <2>1, <2>2 DEF TypeOK
  <2>4. toLoad' \in [Pipelines -> SUBSET Names]
    BY <2>1 DEF TypeOK
  <2>5. \A q \in Pipelines : q # p => toLoad'[q] = toLoad[q] /\ loaded'[q] = loaded[q]
    BY <2>1 DEF TypeOK
  <2>6. QED
    BY <1>9, <2>3, <2>4, <2>5 DEF LoadSkill, TypeOK
<1>10. CASE Reload(p)
  BY <1>10 DEF Reload, TypeOK, Goto, InProgress, Ended, NothingLoaded, Contents
<1>11. QED
  BY <1>2, <1>3, <1>4, <1>5, <1>6, <1>7, <1>8, <1>9, <1>10 DEF Step

\* A restart of the process keeps every variable in its type.
LEMMA RestartType == TypeOK /\ Restart => TypeOK'
BY DEF TypeOK, Restart, Readings, NothingLoaded, Contents, InProgress, Ended

\* No step of a pipeline, a client or the process leaves the types.
LEMMA NextType == TypeOK /\ [Next]_vars => TypeOK'
<1> SUFFICES ASSUME TypeOK, [Next]_vars PROVE TypeOK'
  OBVIOUS
<1>1. CASE UNCHANGED vars
  BY <1>1 DEF TypeOK, vars
<1>2. ASSUME NEW p \in Pipelines, ClientLeaves(p) PROVE TypeOK'
  BY <1>2 DEF ClientLeaves, TypeOK
<1>3. QED
  BY <1>1, <1>2, StepType, RestartType DEF Next

\* Type correctness: what a pipeline has loaded, and what it still has to, is
\* gone whenever it is not loading, after a restart in the middle too.
THEOREM TypeCorrect == Spec => []TypeOK
<1>1. QED
  BY InitType, NextType, PTL DEF Spec

-----------------------------------------------------------------------------
\* Existing skills.

\* What a step does to the bucket: nothing, or it writes a reservation, its own
\* content or nothing under the name of a pipeline past its existence check.
LEMMA StepBucket ==
  ASSUME TypeOK, NEW p \in Pipelines, Step(p)
  PROVE  \/ UNCHANGED bucket
         \/ /\ phase[p] \in Writing
            /\ \E content \in {Absent, Placeholder, p} :
                 bucket' = [bucket EXCEPT ![NameOf[p]] = content]
<1>1. CASE Reserve(p)
  <2>1. Placeholder \in Contents
    BY DEF Contents
  <2>2. QED
    BY <1>1, <2>1, WriteEffect DEF Reserve, Writing
<1>2. CASE Clean(p)
  <2>1. Absent \in Contents
    BY DEF Contents
  <2>2. QED
    BY <1>2, <2>1, WriteEffect DEF Clean, Writing
<1>3. CASE Upload(p)
  <2>1. p \in Contents
    BY DEF Contents
  <2>2. QED
    BY <1>3, <2>1, WriteEffect DEF Upload, Writing
<1>4. CASE \/ Validate(p) \/ SkillExists(p) \/ Generate(p) \/ List(p)
           \/ LoadSkill(p) \/ Reload(p)
  BY <1>4 DEF Validate, SkillExists, Generate, List, LoadSkill, Reload
<1>5. QED
  BY <1>1, <1>2, <1>3, <1>4 DEF Step

\* Only a pipeline past its existence check writes to the bucket, and only under
\* its own name.
LEMMA NextBucket ==
  ASSUME TypeOK, [Next]_vars
  PROVE  \/ UNCHANGED bucket
         \/ \E p \in Pipelines :
              /\ phase[p] \in Writing
              /\ \E content \in {Absent, Placeholder, p} :
                   bucket' = [bucket EXCEPT ![NameOf[p]] = content]
BY StepBucket DEF Next, ClientLeaves, Restart, vars

\* Who gets past the existence check has just read a 404; who is past it was.
LEMMA StepWriting ==
  ASSUME TypeOK, NEW p \in Pipelines, Step(p)
  PROVE  /\ \A q \in Pipelines \ {p} : phase'[q] = phase[q]
         /\ phase'[p] \in Writing =>
              phase[p] \in Writing \/ bucket[NameOf[p]] = Absent
<1> USE PipelinesAssumption DEF TypeOK, Goto
<1>1. CASE Validate(p)
  BY <1>1 DEF Validate, Writing
<1>2. CASE SkillExists(p)
  BY <1>2 DEF SkillExists, Writing
<1>3. CASE Reserve(p) \/ Clean(p) \/ Upload(p)
  <2>1. phase[p] \in Writing
    BY <1>3 DEF Reserve, Clean, Upload, Writing
  <2>2. \E next : phase' = [phase EXCEPT ![p] = next]
    BY <1>3 DEF Reserve, Clean, Upload, Write
  <2>3. QED
    BY <2>1, <2>2
<1>4. CASE Generate(p)
  BY <1>4 DEF Generate, Writing
<1>5. CASE List(p) \/ LoadSkill(p) \/ Reload(p)
  BY <1>5 DEF List, LoadSkill, Reload, Writing
<1>6. QED
  BY <1>1, <1>2, <1>3, <1>4, <1>5 DEF Step

\* At the start no pipeline is past its existence check.
LEMMA InitUnguarded == Init => Unguarded
BY DEF Init, Unguarded, Writing

\* A pipeline gets past the existence check only when its name has no skill, and
\* nobody puts an old skill back while it works.
LEMMA NextUnguarded == TypeOK /\ Unguarded /\ [Next]_vars => Unguarded'
<1> SUFFICES ASSUME TypeOK, Unguarded, [Next]_vars,
                    NEW q \in Pipelines, phase'[q] \in Writing
             PROVE  bucket'[NameOf[q]] # Original
  BY DEF Unguarded
<1> USE PipelinesAssumption
<1>1. phase[q] \in Writing \/ bucket[NameOf[q]] = Absent
  <2>1. ASSUME NEW p \in Pipelines, Step(p)
        PROVE  phase[q] \in Writing \/ bucket[NameOf[q]] = Absent
    BY <2>1, StepWriting
  <2>2. CASE Restart
    BY <2>2 DEF Restart, Writing, InProgress, TypeOK
  <2>3. ASSUME NEW p \in Pipelines, ClientLeaves(p)
        PROVE  phase[q] \in Writing
    BY <2>3 DEF ClientLeaves
  <2>4. QED
    BY <2>1, <2>2, <2>3 DEF Next, vars
<1>2. bucket[NameOf[q]] # Original
  BY <1>1 DEF Unguarded
<1>3. CASE UNCHANGED bucket
  BY <1>2, <1>3
<1>4. ASSUME NEW p \in Pipelines, NEW content \in {Absent, Placeholder, p},
             bucket' = [bucket EXCEPT ![NameOf[p]] = content]
      PROVE  bucket'[NameOf[q]] # Original
  BY <1>2, <1>4 DEF TypeOK
<1>5. QED
  BY <1>3, <1>4, NextBucket

\* No step replaces or deletes a skill that was there before the pipelines.
LEMMA StepKeeps ==
  TypeOK /\ Unguarded /\ [Next]_vars =>
    [\A n \in Names : bucket[n] = Original => bucket'[n] = Original]_vars
<1> SUFFICES ASSUME TypeOK, Unguarded, [Next]_vars,
                    NEW n \in Names, bucket[n] = Original
             PROVE  bucket'[n] = Original
  OBVIOUS
<1>1. ASSUME NEW p \in Pipelines, phase[p] \in Writing,
             NEW content \in {Absent, Placeholder, p},
             bucket' = [bucket EXCEPT ![NameOf[p]] = content]
      PROVE  bucket'[n] = Original
  BY <1>1, PipelinesAssumption DEF Unguarded, TypeOK
<1>2. QED
  BY <1>1, NextBucket

\* However many commands ask for the name of an existing skill at once, and
\* whatever fails, none of them overwrites or deletes it.
THEOREM ExistingIsKept == Spec => ExistingKept
<1>1. Spec => []Unguarded
  BY InitUnguarded, NextUnguarded, TypeCorrect, PTL DEF Spec
<1>2. QED
  BY <1>1, StepKeeps, TypeCorrect, PTL DEF Spec, ExistingKept

-----------------------------------------------------------------------------
\* Serial names.

\* A pipeline only starts when no other one of its serial name is under way.
LEMMA StepInProgress ==
  ASSUME TypeOK, NEW p \in Pipelines, Step(p)
  PROVE  phase'[p] \in InProgress => phase[p] \in InProgress \/ Unserialised(p)
BY DEF Step, Validate, SkillExists, Reserve, Generate, Clean, Upload, List,
       LoadSkill, Reload, InProgress

\* Two pipelines of a serial name never run at the same time.
LEMMA NextOneAtATime == TypeOK /\ OneAtATime /\ [Next]_vars => OneAtATime'
<1> SUFFICES ASSUME TypeOK, OneAtATime, [Next]_vars,
                    NEW q \in Pipelines, NEW r \in Pipelines,
                    NameOf[q] = NameOf[r], NameOf[q] \in SerialNames,
                    phase'[q] \in InProgress, phase'[r] \in InProgress
             PROVE  q = r
  BY DEF OneAtATime
<1>1. ASSUME NEW p \in Pipelines, Step(p) PROVE q = r
  <2>1. \A x \in Pipelines \ {p} : phase'[x] = phase[x]
    BY <1>1, StepWriting
  <2>2. phase'[p] \in InProgress => phase[p] \in InProgress \/ Unserialised(p)
    BY <1>1, StepInProgress
  <2>3. QED
    BY <2>1, <2>2 DEF OneAtATime, Unserialised
<1>2. CASE Restart
  BY <1>2 DEF Restart, TypeOK, InProgress, Ended
<1>3. CASE UNCHANGED phase
  BY <1>3 DEF OneAtATime
<1>4. QED
  BY <1>1, <1>2, <1>3 DEF Next, ClientLeaves, vars

\* What its own pipeline finds and leaves in the bucket.
LEMMA StepOwnContent ==
  ASSUME TypeOK, OwnContent, NEW p \in Pipelines, Step(p), NameOf[p] \in SerialNames
  PROVE  /\ phase'[p] = "reserving" => bucket'[NameOf[p]] = Absent
         /\ phase'[p] \in Writing \ {"reserving"} => bucket'[NameOf[p]] = Placeholder
         /\ phase'[p] \in Committed => bucket'[NameOf[p]] = p
<1> USE PipelinesAssumption DEF TypeOK, OwnContent, Writing, Committed
<1>1. CASE Validate(p)
  BY <1>1 DEF Validate, Goto
<1>2. CASE SkillExists(p)
  BY <1>2 DEF SkillExists, Goto
<1>3. CASE Reserve(p)
  BY <1>3 DEF Reserve, Write, Goto
<1>4. CASE Generate(p)
  BY <1>4 DEF Generate, Goto
<1>5. CASE Clean(p)
  BY <1>5 DEF Clean, Write, Goto
<1>6. CASE Upload(p)
  BY <1>6 DEF Upload, Write, Goto
<1>7. CASE List(p)
  BY <1>7 DEF List, Goto
<1>8. CASE LoadSkill(p)
  BY <1>8 DEF LoadSkill
<1>9. CASE Reload(p)
  BY <1>9 DEF Reload, Goto
<1>10. QED
  BY <1>1, <1>2, <1>3, <1>4, <1>5, <1>6, <1>7, <1>8, <1>9 DEF Step

\* Who may write under a serial name finds it free or reserved.
LEMMA WritersFindItFree ==
  ASSUME OwnContent, NEW p \in Pipelines, phase[p] \in Writing,
         NameOf[p] \in SerialNames
  PROVE  bucket[NameOf[p]] \in {Absent, Placeholder}
BY DEF OwnContent, Writing

\* The object of a serial name is what its one pipeline wrote last.
LEMMA NextOwnContent == TypeOK /\ OneAtATime /\ OwnContent /\ [Next]_vars => OwnContent'
<1> SUFFICES ASSUME TypeOK, OneAtATime, OwnContent, [Next]_vars,
                    NEW q \in Pipelines, NameOf[q] \in SerialNames
             PROVE  /\ phase'[q] = "reserving" => bucket'[NameOf[q]] = Absent
                    /\ phase'[q] \in Writing \ {"reserving"} =>
                         bucket'[NameOf[q]] = Placeholder
                    /\ phase'[q] \in Committed => bucket'[NameOf[q]] = q
  BY DEF OwnContent
<1> USE PipelinesAssumption
<1>1. CASE UNCHANGED <<phase, bucket>>
  BY <1>1 DEF OwnContent
<1>2. CASE Restart
  <2>1. bucket' = bucket /\ phase'[q] \in {phase[q], "lost"}
    BY <1>2 DEF Restart, TypeOK
  <2>2. QED
    BY <2>1 DEF OwnContent, Writing, Committed
<1>3. ASSUME Step(q)
      PROVE  /\ phase'[q] = "reserving" => bucket'[NameOf[q]] = Absent
             /\ phase'[q] \in Writing \ {"reserving"} =>
                  bucket'[NameOf[q]] = Placeholder
             /\ phase'[q] \in Committed => bucket'[NameOf[q]] = q
  BY <1>3, StepOwnContent
<1>4. ASSUME NEW p \in Pipelines, p # q, Step(p),
             phase[q] \in Writing \union Committed
      PROVE  phase'[q] = phase[q] /\ bucket'[NameOf[q]] = bucket[NameOf[q]]
  <2>1. phase'[q] = phase[q]
    BY <1>4, StepWriting
  <2>2. ASSUME phase[p] \in Writing PROVE NameOf[p] # NameOf[q]
    <3> SUFFICES ASSUME NameOf[p] = NameOf[q] PROVE FALSE
      OBVIOUS
    <3>1. bucket[NameOf[q]] \in {Absent, Placeholder}
      BY <2>2, WritersFindItFree
    <3>2. phase[p] \in InProgress
      BY <2>2 DEF Writing, InProgress
    <3>3. phase[q] \notin InProgress
      BY <3>2, <1>4 DEF OneAtATime
    <3>4. phase[q] \in Committed
      BY <3>3, <1>4 DEF Writing, InProgress
    <3>5. QED
      BY <3>1, <3>4 DEF OwnContent
  <2>3. QED
    BY <1>4, <2>1, <2>2, StepBucket DEF TypeOK
<1>5. ASSUME NEW p \in Pipelines, p # q, Step(p)
      PROVE  phase'[q] = phase[q]
  BY <1>5, StepWriting
<1>6. QED
  <2>1. ASSUME NEW p \in Pipelines, p # q, Step(p)
        PROVE  /\ phase'[q] = "reserving" => bucket'[NameOf[q]] = Absent
               /\ phase'[q] \in Writing \ {"reserving"} =>
                    bucket'[NameOf[q]] = Placeholder
               /\ phase'[q] \in Committed => bucket'[NameOf[q]] = q
    BY <2>1, <1>4, <1>5 DEF OwnContent, Writing, Committed
  <2>2. QED
    BY <1>1, <1>2, <1>3, <2>1 DEF Next, ClientLeaves, vars

\* At the start no pipeline runs and none has written.
LEMMA InitSerial == Init => OneAtATime /\ OwnContent
BY DEF Init, OneAtATime, OwnContent, InProgress, Writing, Committed

\* A pipeline of a serial name can always rely on having the name to itself and
\* on finding there what it wrote.
LEMMA SerialInvariant == Spec => [](OneAtATime /\ OwnContent)
<1>1. QED
  BY InitSerial, NextOneAtATime, NextOwnContent, TypeCorrect, PTL DEF Spec

\* A success that was answered is true for good, for any number of commands
\* for the name, one after the other.
THEOREM SuccessStays == Spec => []SuccessIsStored
<1>1. OwnContent => SuccessIsStored
  BY DEF OwnContent, SuccessIsStored, Committed
<1>2. QED
  BY <1>1, SerialInvariant, PTL

-----------------------------------------------------------------------------
\* The registry.

\* No write can make a listing that was right wrong: it finds no skill that the
\* listing could hold.
LEMMA ServingSurvives ==
  ASSUME TypeOK, Unguarded, OwnContent, [Next]_vars,
         NEW r \in [Names -> Contents], Serves(r, bucket)
  PROVE  Serves(r, bucket')
<1> USE PipelinesAssumption
<1>1. CASE UNCHANGED bucket
  BY <1>1 DEF Serves
<1>2. ASSUME NEW p \in Pipelines, phase[p] \in Writing,
             NEW content \in {Absent, Placeholder, p},
             bucket' = [bucket EXCEPT ![NameOf[p]] = content],
             NEW n \in Names, n \in SerialNames \/ r[n] = Original
      PROVE  r[n] \in {Absent, Placeholder, bucket'[n]}
  <2>1. r[n] \in {Absent, Placeholder, bucket[n]}
    BY <1>2 DEF Serves
  <2>2. CASE n # NameOf[p]
    BY <1>2, <2>1, <2>2 DEF TypeOK
  <2>3. CASE n = NameOf[p] /\ n \in SerialNames
    BY <1>2, <2>1, <2>3, WritersFindItFree
  <2>4. CASE n = NameOf[p] /\ r[n] = Original
    BY <1>2, <2>1, <2>4 DEF Unguarded
  <2>5. QED
    BY <1>2, <2>2, <2>3, <2>4
<1>3. QED
  BY <1>1, <1>2, NextBucket DEF Serves

\* A listing that is read from the bucket holds nothing the bucket does not.
LEMMA ReadingsServe == \A r \in Readings(bucket) : Serves(r, bucket)
BY DEF Readings, Serves

\* An empty listing holds nothing the bucket does not.
LEMMA NothingServes == \A b : Serves(NothingLoaded, b)
BY PipelinesAssumption DEF Serves, NothingLoaded

\* What loads and reloads make of listings, bucket aside.
LEMMA StepListings ==
  ASSUME TypeOK, NEW p \in Pipelines, Step(p)
  PROVE  /\ registry' = registry \/ registry' = loaded[p]
         /\ \A q \in Pipelines \ {p} : loaded'[q] = loaded[q]
         /\ \/ loaded'[p] = loaded[p] \/ loaded'[p] = NothingLoaded
            \/ /\ UNCHANGED bucket
               /\ \E n \in Names : loaded'[p] = [loaded[p] EXCEPT ![n] = bucket[n]]
<1>1. CASE LoadSkill(p)
  BY <1>1 DEF LoadSkill, TypeOK
<1>2. CASE Reload(p)
  BY <1>2 DEF Reload, TypeOK
<1>3. CASE \/ Validate(p) \/ SkillExists(p) \/ Reserve(p) \/ Generate(p)
           \/ Clean(p) \/ Upload(p) \/ List(p)
  BY <1>3 DEF Validate, SkillExists, Reserve, Generate, Clean, Upload, List
<1>4. QED
  BY <1>1, <1>2, <1>3 DEF Step

\* At the start the registry is a reading of the bucket.
LEMMA InitServing == Init => AllServing
<1> SUFFICES ASSUME Init PROVE AllServing
  OBVIOUS
<1>1. \A p \in Pipelines : loaded[p] = NothingLoaded
  BY DEF Init
<1>2. registry \in Readings(bucket)
  BY DEF Init
<1>3. QED
  BY <1>1, <1>2, ReadingsServe, NothingServes DEF AllServing

\* Whatever the pipelines write or load, no listing under way and no registry
\* holds a skill the bucket has lost.
LEMMA NextServing ==
  TypeOK /\ Unguarded /\ OwnContent /\ AllServing /\ [Next]_vars => AllServing'
<1> SUFFICES ASSUME TypeOK, Unguarded, OwnContent, AllServing, [Next]_vars
             PROVE  AllServing'
  OBVIOUS
<1> USE PipelinesAssumption
<1>1. /\ Serves(registry, bucket')
      /\ \A q \in Pipelines : Serves(loaded[q], bucket')
  BY ServingSurvives DEF TypeOK, AllServing
<1>2. ASSUME NEW p \in Pipelines, Step(p)
      PROVE  AllServing'
  <2>1. Serves(registry', bucket')
    BY <1>1, <1>2, StepListings
  <2>2. \A q \in Pipelines \ {p} : Serves(loaded'[q], bucket')
    BY <1>1, <1>2, StepListings
  <2>3. CASE loaded'[p] = loaded[p] \/ loaded'[p] = NothingLoaded
    BY <1>1, <2>1, <2>2, <2>3, NothingServes DEF AllServing
  <2>4. ASSUME UNCHANGED bucket, NEW n \in Names,
               loaded'[p] = [loaded[p] EXCEPT ![n] = bucket[n]]
        PROVE  Serves(loaded'[p], bucket')
    BY <1>1, <2>4 DEF TypeOK, Serves
  <2>5. QED
    BY <1>2, <2>1, <2>2, <2>3, <2>4, StepListings DEF AllServing
<1>3. CASE Restart
  <2>1. Serves(registry', bucket')
    BY <1>3 DEF Restart, Readings, Serves
  <2>2. \A q \in Pipelines : loaded'[q] = NothingLoaded
    BY <1>3 DEF Restart
  <2>3. QED
    BY <2>1, <2>2, NothingServes DEF AllServing
<1>4. CASE UNCHANGED <<registry, loaded>>
  BY <1>1, <1>4 DEF AllServing
<1>5. QED
  BY <1>2, <1>3, <1>4 DEF Next, ClientLeaves, vars

\* Whichever pipeline reloads last, with however old a listing, the registry
\* serves no body the bucket does not hold.
THEOREM RegistryIsRight == Spec => []RegistryServesStored
<1>1. AllServing => RegistryServesStored
  BY DEF AllServing, Serves, RegistryServesStored
<1>2. QED
  BY <1>1, InitServing, NextServing, InitUnguarded, NextUnguarded,
     SerialInvariant, TypeCorrect, PTL DEF Spec

-----------------------------------------------------------------------------
\* Refinement.

\* The initial bucket is an initial catalog.
LEMMA InitCatalog == Init => Catalog!Init
BY PipelinesAssumption DEF Init, Catalog!Init, SerialBucket

\* Reservations and cleanups are invisible, an upload is a creation.
LEMMA NextCatalog ==
  TypeOK /\ OwnContent /\ [Next]_vars => [Catalog!Next]_SerialBucket
<1> SUFFICES ASSUME TypeOK, OwnContent, [Next]_vars
             PROVE  Catalog!Next \/ SerialBucket' = SerialBucket
  OBVIOUS
<1> USE PipelinesAssumption
<1>1. CASE UNCHANGED bucket
  BY <1>1 DEF SerialBucket
<1>2. ASSUME NEW p \in Pipelines, phase[p] \in Writing,
             NEW content \in {Absent, Placeholder, p},
             bucket' = [bucket EXCEPT ![NameOf[p]] = content]
      PROVE  Catalog!Next \/ SerialBucket' = SerialBucket
  <2>1. CASE NameOf[p] \notin SerialNames
    <3>1. \A n \in SerialNames : bucket'[n] = bucket[n]
      BY <1>2, <2>1 DEF TypeOK
    <3>2. QED
      BY <3>1 DEF SerialBucket
  <2>2. CASE NameOf[p] \in SerialNames
    <3>1. SerialBucket[NameOf[p]] = Absent
      BY <1>2, <2>2, WritersFindItFree DEF SerialBucket
    <3>2. SerialBucket' = [SerialBucket EXCEPT ![NameOf[p]] =
                             IF content = Placeholder THEN Absent ELSE content]
      BY <1>2, <2>2 DEF SerialBucket, TypeOK
    <3>3. CASE content \in {Absent, Placeholder}
      <4>1. SerialBucket' = [SerialBucket EXCEPT ![NameOf[p]] = Absent]
        BY <3>2, <3>3
      <4>2. QED
        BY <3>1, <4>1 DEF SerialBucket
    <3>4. CASE content = p
      <4>1. SerialBucket' = [SerialBucket EXCEPT ![NameOf[p]] = p]
        BY <3>2, <3>4
      <4>2. QED
        BY <2>2, <3>1, <4>1 DEF Catalog!Next, Catalog!Create
    <3>5. QED
      BY <1>2, <3>3, <3>4
  <2>3. QED
    BY <2>1, <2>2
<1>3. QED
  BY <1>1, <1>2, NextBucket

\* For callers that wait for each other, the pipelines implement atomic
\* creations, whatever becomes of replies, clients and the server.
THEOREM CatalogImplemented == Spec => ImplementsCatalog
<1>1. QED
  BY InitCatalog, NextCatalog, SerialInvariant, TypeCorrect, PTL
     DEF Spec, ImplementsCatalog, Catalog!Spec
=============================================================================
