------------------------------ MODULE Catalogue ------------------------------
(***************************************************************************)
(* The records behind the chat: skills and who may use them, buckets and   *)
(* folders, what is made for a user on first need, lists of sessions.      *)
(* They share Firestore and the evaluator of Access, and no record.        *)
(***************************************************************************)
EXTENDS Skills, Sharing, SessionPages

vars == <<load, skillsVars, sharingVars, pagesVars>>

Init == load \in Loads /\ SkillsInit /\ SharingInit /\ PagesInit

Next ==
    \/ SkillsNext /\ UNCHANGED <<sharingVars, pagesVars>>
    \/ SharingNext /\ UNCHANGED <<skillsVars, pagesVars>>
    \/ PagesNext /\ UNCHANGED <<skillsVars, sharingVars>>

Spec == Init /\ [][Next]_vars

-----------------------------------------------------------------------------

TypeOK == SkillsTypeOK /\ SharingTypeOK /\ PagesTypeOK

\* Nothing that there should be one of is there twice unless two requests were making it
\* at once: a slug of an owner, a platform skill, a default folder, a corpus in use.
NoDuplicates == SlugsUnique /\ MadeOnce
=============================================================================
