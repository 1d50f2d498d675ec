--------------------------- MODULE RestoreJournal ---------------------------
(***************************************************************************)
(* The journal of one restore or recovery attempt (restore/journal.py).    *)
(* A transition is published by two renames, the JSON file and then its    *)
(* hash; an entry without its hash is not sealed.  A reader trusts the     *)
(* sealed entries before the first gap and nothing after it.               *)
(***************************************************************************)
EXTENDS Naturals, Sequences

CONSTANT SidecarSuffixes   \* "-journal", "-wal", "-shm", in disposition order

VARIABLE journal           \* the transitions of the current attempt

Suffixes == {SidecarSuffixes[i] : i \in DOMAIN SidecarSuffixes}

\* The live paths an attempt may touch.
Targets == {"database", "config"} \cup Suffixes

\* The renames that change a live path, each with the path it changes.
Mutations ==
    {<<"DB_REPLACE", "database">>, <<"CONFIG_RENAME_ASIDE", "config">>, <<"CONFIG_INSTALL", "config">>}
        \cup ({"DISPOSITION"} \X Targets)

\* The states recorded before and after a mutation.
IntentState ==
    [DB_REPLACE |-> "DB_REPLACE_INTENT", CONFIG_RENAME_ASIDE |-> "CONFIG_RENAME_ASIDE_INTENT",
     CONFIG_INSTALL |-> "CONFIG_INSTALL_INTENT", DISPOSITION |-> "DISPOSITION_INTENT"]
CompletionState ==
    [DB_REPLACE |-> "DB_REPLACED", CONFIG_RENAME_ASIDE |-> "CONFIG_RENAMED_ASIDE",
     CONFIG_INSTALL |-> "CONFIG_REPLACED", DISPOSITION |-> "DISPOSITION_COMPLETE"]

\* record(): one more transition.  Only dispositions name their target.
Publish(state, of, sealed) ==
    journal' = Append(journal, [state |-> state, of |-> of, sealed |-> sealed])

\* discover_journal_chain(): the gap-free prefix of sealed transitions.
Trusted(j) == {i \in DOMAIN j : \A k \in 1 .. i : j[k].sealed}

\* An entry speaks of a mutation in a given role (IntentState, CompletionState).
Names(entry, role, m) ==
    /\ entry.state = role[m[1]]
    /\ m[1] = "DISPOSITION" => entry.of = m[2]

Intended(j) == {m \in Mutations : \E i \in Trusted(j) : Names(j[i], IntentState, m)}
Confirmed(j) == {m \in Mutations : \E i \in Trusted(j) : Names(j[i], CompletionState, m)}

=============================================================================
