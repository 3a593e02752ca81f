---------------------------- MODULE SkillCatalog ----------------------------
(***************************************************************************)
(* What creating skills promises, without a bucket, placeholders, replies  *)
(* or clients: a free name may be given to one creation, and a name that   *)
(* is taken keeps its content for good.                                    *)
(***************************************************************************)
CONSTANTS
  Names,      \* skill names
  Creations,  \* the creations that may take a name
  NameOf,     \* creation -> the name it asks for
  Earlier,    \* the content of a name that was taken before
  Free        \* "no content"

VARIABLE content

Init == content \in [Names -> {Free, Earlier}]

Create(p) ==
  /\ content[NameOf[p]] = Free
  /\ content' = [content EXCEPT ![NameOf[p]] = p]

Next == \E p \in Creations : Create(p)

Spec == Init /\ [][Next]_content
=============================================================================
