----------------------------- MODULE WriteAhead -----------------------------
(***************************************************************************)
(* What the restore journal promises of one attempt: a mutation of the     *)
(* live system is announced before it is made and confirmed after it, and  *)
(* the next one is announced only when all earlier ones are confirmed.  So *)
(* whoever reads the journal after an interruption knows the live system   *)
(* up to one mutation.  An attempt may stop at any point; the next one     *)
(* starts a journal of its own.                                            *)
(***************************************************************************)
CONSTANT Mutations

VARIABLES intended,    \* mutations the journal announces
          done,        \* mutations made
          confirmed    \* mutations the journal confirms

journalVars == <<intended, done, confirmed>>

WriteAheadInit == intended = {} /\ done = {} /\ confirmed = {}

\* A new attempt, with an empty journal.
Start == intended' = {} /\ done' = {} /\ confirmed' = {}

Intend(m) ==
    /\ intended = confirmed
    /\ m \notin intended
    /\ intended' = intended \cup {m}
    /\ UNCHANGED <<done, confirmed>>

Mutate(m) ==
    /\ m \in intended \ done
    /\ done' = done \cup {m}
    /\ UNCHANGED <<intended, confirmed>>

Confirm(m) ==
    /\ m \in done \ confirmed
    /\ confirmed' = confirmed \cup {m}
    /\ UNCHANGED <<intended, done>>

WriteAheadNext == Start \/ \E m \in Mutations : Intend(m) \/ Mutate(m) \/ Confirm(m)

WriteAheadSpec == WriteAheadInit /\ [][WriteAheadNext]_journalVars

=============================================================================
