---------------------------- MODULE VaultRefinement ----------------------------
(***************************************************************************)
(* Module Vault implements module RecordStore.  The store is what the      *)
(* database file holds, read without its keys: the payload of every sealed *)
(* row, and the password of the active envelope.                           *)
(***************************************************************************)
EXTENDS Vault

NoPassword == "none"

\* The password that opens a file.
PasswordOf(d) == IF d.vault = NoVault THEN NoPassword ELSE d.envelopes[d.active].password

\* A backup container as what it would bring back.
SavedBy(c) ==
    [store |-> c.vault, password |-> PasswordOf(c.snapshot),
     records |-> LoadIndex(c.snapshot), clients |-> c.snapshot.clients]

Store == INSTANCE RecordStore WITH
    NoStore  <- NoVault,
    store    <- db.vault,
    password <- PasswordOf(db),
    records  <- LoadIndex(db),
    clients  <- db.clients,
    open     <- HasKeys(svc),
    shown    <- index,
    saved    <- SavedBy(container)

\* The daemon keeps the promise of RecordStore through every order of unlocks,
\* failed integrity checks, writes, password changes, backups, restores,
\* destructions and restarts: no record changes but by a request on it, one
\* revision at a time; none is shown by a locked vault; a password change keeps
\* them all; a restore brings back what was saved and nothing else.
ImplementsRecordStore == Store!Spec
===============================================================================
