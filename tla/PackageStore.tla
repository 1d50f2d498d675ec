---------------------------- MODULE PackageStore ----------------------------
(***************************************************************************)
(* What the archive root and the archives table promise about one episode, *)
(* whoever builds, recovers or damages packages: a package appears at once *)
(* and whole under an id that no package has, nothing but damage ever      *)
(* makes it fail verification, and at most one package is ever registered. *)
(***************************************************************************)
CONSTANT NoRow

VARIABLES taken,    \* ids that name a published package
          intact,   \* those whose package verifies
          row       \* the id the archives row names

storeVars == <<taken, intact, row>>

StoreInit == taken = {} /\ intact = {} /\ row = NoRow

Publish(i) ==
    /\ i \notin taken
    /\ taken' = taken \cup {i}
    /\ intact' = intact \cup {i}
    /\ UNCHANGED row

Damage(i) ==
    /\ intact' = intact \ {i}
    /\ UNCHANGED <<taken, row>>

Register(i) ==
    /\ row = NoRow
    /\ i \in taken
    /\ row' = i
    /\ UNCHANGED <<taken, intact>>

\* An id is never enumerated: the one a step concerns is in taken' or intact.
StoreNext ==
    \/ \E i \in taken' : Publish(i) \/ Register(i)
    \/ \E i \in intact : Damage(i)

StoreSpec == StoreInit /\ [][StoreNext]_storeVars

=============================================================================
