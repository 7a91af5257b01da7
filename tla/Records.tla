------------------------------- MODULE Records -------------------------------
(***************************************************************************)
(* The catalogue, and the store that stands in for Firestore where it runs *)
(* on one machine.  To the catalogue's handlers a call of Firestore is one *)
(* step; LocalStore is what the stand-in does in such a step, thread by    *)
(* thread.  The two share the workload and nothing else.                   *)
(***************************************************************************)
EXTENDS Catalogue, LocalStore

RecordsInit == Init /\ StoreInit

RecordsNext ==
    \/ Next /\ UNCHANGED storeVars
    \/ StoreNext /\ UNCHANGED <<skillsVars, sharingVars, pagesVars>>

RecordsSpec == RecordsInit /\ [][RecordsNext]_<<vars, storeVars>>
=============================================================================
