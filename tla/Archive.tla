------------------------------- MODULE Archive -------------------------------
(***************************************************************************)
(* What the map history promises: a store that is written once.  A map is  *)
(* in the archive from the moment on at which all that was saved of it can *)
(* be loaded, and what is in the archive never changes.                    *)
(***************************************************************************)
CONSTANTS Ids, Maps

VARIABLE archive    \* the maps saved, a function on a subset of Ids

\* What an earlier server left is there from the start.
Init ==
  /\ DOMAIN archive \subseteq Ids
  /\ archive \in [DOMAIN archive -> Maps]

Next ==
  \E id \in (Ids \cap DOMAIN archive') \ DOMAIN archive :
    /\ archive' \in [DOMAIN archive \cup {id} -> Maps]
    /\ \A old \in DOMAIN archive : archive'[old] = archive[old]

Spec == Init /\ [][Next]_archive

=============================================================================
