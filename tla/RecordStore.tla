------------------------------ MODULE RecordStore ------------------------------
(***************************************************************************)
(* What the vault promises its user, with no keys, envelopes, anchors,     *)
(* counters or caches: records that only the requests on them change, seen *)
(* while the store is open and at no other time; a password that is        *)
(* replaced without touching a record; and a backup that brings back       *)
(* exactly what was saved, into the store it was saved from.               *)
(* Module VaultRefinement shows that module Vault implements it.           *)
(***************************************************************************)
EXTENDS Integers

CONSTANTS Passwords, RecordIDs, Payloads, ClientIDs, NoStore, NoPassword

VARIABLES
    store,      \* which vault it is, or NoStore
    password,
    records,    \* id -> [revision, payload]
    clients,    \* id -> "approved" or "revoked"
    open,
    shown,      \* the records as a user of the open store sees them
    saved       \* the last backup

vars == <<store, password, records, clients, open, shown, saved>>

Nothing == [x \in {} |-> x]

With(table, k, row) == [i \in DOMAIN table \cup {k} |-> IF i = k THEN row ELSE table[i]]

Without(table, k) == [i \in DOMAIN table \ {k} |-> table[i]]

NoBackup == [store |-> NoStore, password |-> NoPassword, records |-> Nothing, clients |-> Nothing]

Init ==
    /\ \/ store = NoStore /\ password = NoPassword
       \/ store # NoStore /\ password \in Passwords
    /\ records = Nothing /\ clients = Nothing
    /\ open = FALSE /\ shown = Nothing
    /\ saved = NoBackup

\* A closed store shows nothing.
Shut == open' = FALSE /\ shown' = Nothing

\* A store that never was before.
Found ==
    /\ store = NoStore
    /\ store' \notin {NoStore, saved.store}
    /\ password' \in Passwords
    /\ UNCHANGED <<records, clients, open, shown, saved>>

Open ==
    /\ store # NoStore
    /\ open' = TRUE /\ shown' = records
    /\ UNCHANGED <<store, password, records, clients, saved>>

\* Asked for, after idling, at the end of the process, or when an integrity
\* check fails.
Close ==
    /\ Shut
    /\ UNCHANGED <<store, password, records, clients, saved>>

\* A record is new, or replaces the revision that is there.
Write(id, x) ==
    LET row == [revision |-> IF id \in DOMAIN records THEN records[id].revision + 1 ELSE 1,
                payload |-> x]
    IN  /\ open
        /\ records' = With(records, id, row)
        /\ shown' = records'
        /\ UNCHANGED <<store, password, clients, open, saved>>

Erase(id) ==
    /\ open
    /\ id \in DOMAIN records
    /\ records' = Without(records, id)
    /\ shown' = records'
    /\ UNCHANGED <<store, password, clients, open, saved>>

Admit(c, status) ==
    /\ open
    /\ status = "revoked" => c \in DOMAIN clients
    /\ clients' = With(clients, c, status)
    /\ UNCHANGED <<store, password, records, open, shown, saved>>

Rekey ==
    /\ store # NoStore
    /\ password' \in Passwords
    /\ Shut
    /\ UNCHANGED <<store, records, clients, saved>>

Save ==
    /\ open
    /\ saved' = [store |-> store, password |-> password, records |-> records, clients |-> clients]
    /\ UNCHANGED <<store, password, records, clients, open, shown>>

Restore ==
    /\ open
    /\ saved.store = store
    /\ password' = saved.password
    /\ records' = saved.records
    /\ clients' = saved.clients
    /\ Shut
    /\ UNCHANGED <<store, saved>>

Destroy ==
    /\ store # NoStore
    /\ store' = NoStore /\ password' = NoPassword
    /\ records' = Nothing /\ clients' = Nothing
    /\ Shut
    /\ UNCHANGED saved

Next ==
    \/ Found \/ Open \/ Close \/ Rekey \/ Save \/ Restore \/ Destroy
    \/ \E id \in RecordIDs : Erase(id) \/ \E x \in Payloads : Write(id, x)
    \/ \E c \in ClientIDs, status \in {"approved", "revoked"} : Admit(c, status)

Spec == Init /\ [][Next]_vars
===============================================================================
