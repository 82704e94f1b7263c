------------------------------- MODULE Database -------------------------------
(***************************************************************************)
(* The vault database of albear as a value: the tables of the SQLite file  *)
(* (internal/infrastructure/sqlite) and the statements that change them,   *)
(* the AEAD that protects every payload (internal/infrastructure/crypto),  *)
(* and the authenticated state anchor over the tables (internal/catalog).  *)
(*                                                                         *)
(* A table is a function from the primary keys it holds to its rows.  A    *)
(* root key is named by the vault it was generated for: the five subkeys   *)
(* that HKDF derives from it are used for disjoint purposes and are not    *)
(* told apart.  The two ciphertexts of a record are always written and     *)
(* opened under the same key and associated data, and are one value here.  *)
(***************************************************************************)
EXTENDS Integers

NoVault == 0        \* no row in table vault
NoKey   == 0        \* s.keyring = nil
ZeroKey == -1       \* what Keyring.wipe leaves, or has begun to write, in place of a key

\* No row in table vault_state (catalog.ErrNoState): the first stamp writes 1.
NoState == [counter |-> 0]

-------------------------------------------------------------------------------
(* Authenticated encryption.                                               *)

\* What RecordAAD binds a record's payload to.
RecordAAD(vault, id, revision, keyVersion) ==
    [vault |-> vault, id |-> id, revision |-> revision, keyVersion |-> keyVersion]

Seal(key, payload, aad) == [key |-> key, aad |-> aad, payload |-> payload]

\* Open succeeds exactly for the key and the associated data of Seal.
Opens(key, ciphertext, aad) == ciphertext.key = key /\ ciphertext.aad = aad

\* A key envelope: the root key wrapped under the master password, bound to the
\* vault and to the envelope version.
buildEnvelope(vault, version, rootKey, password) ==
    [vault |-> vault, version |-> version, rootKey |-> rootKey, password |-> password]

\* Unwrapping the root key and checking the canary under the password.
EnvelopeOpens(env, vault, version, password) ==
    env.password = password /\ env.vault = vault /\ env.version = version

-------------------------------------------------------------------------------
(* Tables and statements.                                                  *)

EmptyTable == [x \in {} |-> x]

\* A freshly migrated file.
EmptyDB == [vault |-> NoVault, active |-> 0, envelopes |-> EmptyTable,
            records |-> EmptyTable, clients |-> EmptyTable, state |-> NoState]

Put(table, k, row) ==
    [i \in DOMAIN table \cup {k} |-> IF i = k THEN row ELSE table[i]]

Remove(table, k) == [i \in DOMAIN table \ {k} |-> table[i]]

InsertVault(d, vault, version) == [d EXCEPT !.vault = vault, !.active = version]

InsertKeyEnvelope(d, version, env) == [d EXCEPT !.envelopes = Put(@, version, env)]

\* Mutation of SetActiveEnvelope: the vault row keeps the old version.
SetActiveEnvelopeForgotten(d, version) == d

SetActiveEnvelope(d, version) == [d EXCEPT !.active = version]

\* Mutation of DeleteKeyEnvelope: the retired envelope stays.
DeleteKeyEnvelopeForgotten(d, version) == d

DeleteKeyEnvelope(d, version) == [d EXCEPT !.envelopes = Remove(@, version)]

InsertRecord(d, id, keyVersion, revision, sealed) ==
    [d EXCEPT !.records =
        Put(@, id, [keyVersion |-> keyVersion, revision |-> revision, sealed |-> sealed])]

\* Mutation of MatchesRevision: the WHERE clause names the record only.
MatchesRecord(d, id, expected) == id \in DOMAIN d.records

\* The rows that UpdateRecord's WHERE clause selects.
MatchesRevision(d, id, expected) ==
    id \in DOMAIN d.records /\ d.records[id].revision = expected

\* UpdateRecord replaces the revision and the ciphertexts and leaves key_version.
UpdateRecord(d, id, revision, sealed) ==
    [d EXCEPT !.records =
        Put(@, id, [keyVersion |-> @[id].keyVersion, revision |-> revision, sealed |-> sealed])]

DeleteRecord(d, id) == [d EXCEPT !.records = Remove(@, id)]

InsertClient(d, id) == [d EXCEPT !.clients = Put(@, id, "approved")]

UpdateClientStatus(d, id, status) == [d EXCEPT !.clients = Put(@, id, status)]

-------------------------------------------------------------------------------
(* The catalog: an HMAC over everything that may change, and a counter.    *)

\* GetActiveEnvelopeDigest fails when the version has no row.
HasEnvelope(d, version) == version \in DOMAIN d.envelopes

\* The HMAC is injective in what it covers and in its key, so the root is the
\* tuple of its inputs.
Root(d, key, vault, version, counter) ==
    [key |-> key, vault |-> vault, version |-> version, counter |-> counter,
     records |-> d.records, clients |-> d.clients, envelope |-> d.envelopes[version]]

Counter(d) == d.state.counter

\* Mutation of Stamp: the root covers the counter that was read.
StampStaleCounter(d, key, vault, version) ==
    [d EXCEPT !.state = [counter |-> Counter(d) + 1,
                         root |-> Root(d, key, vault, version, Counter(d))]]

\* Advance the counter and rewrite the root: the last statement of every
\* mutating transaction.
Stamp(d, key, vault, version) ==
    [d EXCEPT !.state = [counter |-> Counter(d) + 1,
                         root |-> Root(d, key, vault, version, Counter(d) + 1)]]

\* The stored root is the one recomputed from the tables at the stored counter.
Verify(d, key, vault, version) ==
    /\ HasEnvelope(d, version)
    /\ d.state.root = Root(d, key, vault, version, d.state.counter)
===============================================================================
