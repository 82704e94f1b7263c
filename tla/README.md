# albear: a TLA+ model of the vault and its clients

albear is a local password manager: a daemon (`vaultd`) that owns an encrypted
SQLite vault, and clients (command line, desktop application, browser extension
through a native-messaging relay) that talk to it over a Unix socket. These
modules model the vault and its state anchor, the record commands and the index,
sessions, locks, pairing, the replacement of the database file, the encrypted
channel, and how the three clients edit records. `PROJECT.json` lists components,
runs, mutants, the map from definitions to source lines, findings, hazards and
theorems.

## 1. Inventory

| Component | State | Operations | Interacts with |
|---|---|---|---|
| vault service `internal/vault` | cached vault row, lock state, epoch, keyring, failed unlocks and their delay, catalog high-water mark | init, unlock, lock, status, change and verify password, check catalog, reset | database; lock hooks empty index and sessions |
| state anchor `internal/catalog` | table `vault_state`: counter and HMAC root | stamp (last statement of every mutating transaction), verify | every writer; unlock |
| database `internal/infrastructure/sqlite` | vault, envelopes, records, clients, events; the handle | statements, one connection, close, swap, migrate | all services |
| record service `internal/records` | in-memory index with maps by domain and by project | create, update (optimistic revision), delete, reveal, load index, match | keyring, database |
| access `internal/access` | pending pairings, sessions | pair, approve, claim, cancel, revoke; issue, validate, drop | database, epoch, idle lock |
| backup `internal/backup`, `daemon/server.go` | container, `.recovery` and `.restore.tmp` files | create, verify, restore, destroy | database file, `Reset` |
| request dispatch `internal/daemon` | one session per connection | authorize, dispatch, idle-lock loop | everything above |
| transport, relay `internal/infrastructure/transport`, `internal/native` | ciphers, frames under way | handshake, send, receive, rekey | daemon, clients |
| clients `cmd/vault`, `desktop/`, `extension/` | pending calls, stored identity and pairing | connect, call, time out; pair; edit | daemon |

What is hard: one goroutine per connection and a ticker share a mutex, the only
database connection, an index with its own lock and a keyring that is handed out
by pointer and wiped in place; the vault row is cached while password changes,
restores and destructions replace it; counters are noted after their transaction
has committed; sessions are checked at an epoch that was read earlier; a restore
is several file operations with requests in flight; a pairing outlives worker and
daemon in parts; ciphers advance before frames are written; an edit is several
requests. `PROJECT.json` ("hazards") names the lines.

What makes it correct: the anchor describes the tables it was committed with,
and a daemon that nobody interfered with never reports an integrity failure; an
older file is noticed; every row opens; the index is the table, and offers a page
what a scan would find; one envelope exists; no session survives a lock or a
revocation; an unattended vault locks and a used one does not; every request is
answered; a credential is handed out once and to its owner; a vault is not lost
by a restore and is gone after a destruction; both ends of a channel stay in
step; an edit undoes nobody else's.

## 2. Modules

| Module | Models | State and actions |
|---|---|---|
| `Database` | tables, statements, AEAD, anchor | no variables: a database is a record of tables (functions from primary keys to rows), a statement a function on it |
| `Vault` | the daemon, one request at a time | `svc` is `vaultapp.Service`, `index` the record index, `container` the last backup; one action per handler |
| `RecordStore` | what the vault promises, without keys, anchors, counters or caches | records, password, clients, open or not, what is shown, what was saved |
| `VaultRefinement` | `Vault` implements `RecordStore` | `INSTANCE … WITH`: the store is what the file holds, `shown` the index |
| `Rollback` | `Vault` with an earlier copy of the file put in place | extends `Vault`; `CopyFile` and `SwapFile` are the file system |
| `Daemon` | the same requests as goroutines | `mu`, `conn`, `rings` (every keyring allocated), `th` (locals of each goroutine); a step is what happens between two points where a goroutine may wait or be overtaken |
| `Sessions` | connections, authorize, unlock, revoke, restore, interleaved | `conn` (locals), `sess` (session per connection), `vault` (state and epoch), `status` (client rows) |
| `IdleLock` | session ages and the idle-lock loop | ages and remaining lifetimes instead of a clock, so time is unbounded |
| `Pairing` | the extension's pairing state machine and the daemon's pending table | `ext` (worker memory, storage, identity), `call` (two calls in flight per extension), `pending`, `clients`, `backup`; faults reap the worker, cut the connection, restart the daemon |
| `RestoreFiles` | `restoreVault`, `destroyVault` and `backup.Restore`, one file operation per step | `files` names inodes, `disk` is their content, `handle` is `Store.db`, `admin` the replacement under `Server.mu`, `writer` a write in flight, `waiting` a verified restore, `confirmed` the destructions whose password is verified and that have not yet taken `Server.mu` |
| `Channel` | one client's connection: CLI, desktop, or extension through the relay | cipher positions of both ends, the frames in four queues, the relay's two loops, what became of each call |
| `Matching` | origins, metadata encoding, the index's maps, match and reveal for an origin | `rows` (metadata column), `entries`, `byHost`, `byProject` |
| `RecordEdits` | how the clients read, merge and write back a record | `store`, and what each client has read (`cl`) |
| `MC…` | symmetry sets and small instances for TLC | |
| `VaultProofs`, `DaemonProofs`, `SessionsProofs`, `IdleLockProofs`, `PairingProofs`, `RestoreFilesProofs`, `ChannelProofs`, `RecordsProofs` | theorems | each extends the modules it is about; `VaultProofs` covers `Vault`, `VaultRefinement` and `Rollback`, `RecordsProofs` covers `Matching` and `RecordEdits` |

`Vault`, `Rollback` and `Daemon` share `Database`. `RestoreFiles` refines the
request `BackupRestore` of `Vault` into its file operations and keeps of the rest
what decides them; `Channel` carries what the other modules take as requests.

Abstractions. A root key is named by its vault and HKDF is injective. A
ciphertext opens exactly under the key and associated data it was sealed with,
and the HMAC root is the tuple of what it covers. A record's two ciphertexts are
one, always written together under the same key and data. Identifiers and
payloads are model values; validation is left out except where a property is
about it. A refused request that changes nothing is a stuttering step. `ZeroKey`
stands for anything a wipe may leave or be in the middle of writing. Security
events and last-seen times are not modelled: no decision reads them and the
anchor does not cover them.

- `Sessions` keeps the table per connection, because a session that no
  connection names cannot be presented; `IdleLock` keeps such sessions, because
  `LastActivity` counts them.
- `RestoreFiles` keeps of a database the vault in it, whether it has tables and
  the anchor's counter, once for the main file and once with its log. What
  happens to a connection whose log is unlinked is SQLite's: the model allows
  every outcome from the log lost to all of it copied back, the vault row with
  it when only the log had that. A log is removed when it is there: an `os.Remove`
  that fails on an existing `-wal` or `-shm` (backup.go:164-165 ignores it) is not
  modelled, since SQLite decides whether it replays another file's log. An
  `os.Stat` that fails on an existing database is modelled (`MoveAside`). `hist` is
  history: only properties read it.
- `Pairing` numbers a request, its static key and its phrase alike. Two
  extensions do not interact except through the table, so one is enough. A claim
  whose pairing is replaced while it is in flight is marked `overtaken` by the
  step that replaces it; nothing but properties reads the mark.
- `Channel` keeps the current connection only: a client that left one never reads
  from it again. Sizes are three: fits, above the frame limit, above the native
  message limit. The property `InStep` covers the positions and keys of ciphers
  over all frames under way, from a queue to the end that reads it; the handshake
  is its order of messages, the pin and the client's row.
- `Matching` takes lower-casing and IDNA as a constant function and a host as its
  labels. The public suffix list is a constant, any set of suffixes, with the
  default rule; a wildcard rule is the suffixes it stands for. An absent list of
  `urlEntries` and an empty one are told apart, as `fieldsToDomain` does.
- `RecordEdits` takes fields in groups that are carried or dropped together.

## 3. Runs

- `VaultLifecycle`: two passwords, two envelopes, two records with two revisions,
  one client, two new vaults or a legacy one, backup, restore, destruction,
  restart. The bounds let a password change, an update on either side of it, a
  backup before it and a restore after it happen in one behaviour. It also checks
  `ImplementsRecordStore`, the refinement.
- `VaultBackoff`: no records, but failures past the last step of the delay
  schedule, with `Tick`. Fairness: time passes.
- `VaultRekeyed` (violation): create a record, change the password, update the
  record, lock, unlock: integrity failure. `UpdateRecord` leaves `key_version`
  behind. One request at a time, this is the only way: theorems
  `OnlyResealedRowsFail` and `NoCatalogFalseAlarm` show that every other row opens
  and that the anchor is accepted.
- `Rollback`: one copy of the file, taken and put back at any time, counters up
  to 3.
- `Daemon`: three goroutines, three requests of all eight kinds, two record
  identifiers of which one exists. Three requests are enough for a writer, a
  lock and an unlock, or two writers and a password change, to overlap. Fairness
  of every goroutine: the Go scheduler is fair, `sync.Mutex` hands a starving
  waiter the lock and `database/sql` serves waiters in order. `CHECK_DEADLOCK
  FALSE` because of the circular wait below.
- `Sessions`: two connections, one client beside the command line, two locks or
  resets, epochs up to 3. It may stop when the bounds are used up.
- `IdleLock`: two connections, window 2, interval 1, lifetime 3.
- `Pairing`: one extension with two calls in flight, two pairings, two clients,
  one fault at any point. Two pairings let a claim be overtaken by the next
  request; one fault separates every pair of steps. Fairness: the daemon serves
  its connections, the worker resumes when an answer is there, Chrome stops an
  idle worker, and the user selects Finish pairing again (`PairingCompletes` says
  what that user gets). The operator, and faults, owe nothing.
- `RestoreFiles`: two restores or destructions, two writes, two faults, two
  vaults: a restore cut by a crash, then a second one; a destruction with a
  verified restore waiting; a failed rename whose roll-back fails too.
- `Channel`: three requests, a rekey after every second message, one fault. Each
  direction crosses a rekey and a message after it. Fairness: event loops, the
  relay's loops (each by itself) and the connection's goroutine run when they
  have something to do; nobody promises another request, a fault, a timeout or a
  restart.
- `Matching`: three records, eleven submissions (duplicate domains, upper case,
  policies, an empty list of `urlEntries`, project tags, refused hosts) and pages around `example.com`,
  the public suffixes `github.io` and `s3.example.com` (one that lies below
  another registrable domain, as the private ones of the list do), `localhost` and
  an address, with and without a project.
- `RecordEdits`: two records whose names may collide, one client of each kind,
  three edits or deletions: a reader, an editor in between, and a rename that
  makes a reference ambiguous.

Where another configuration says `CHECK_DEADLOCK FALSE`, the bounds on requests, edits and faults
are used up and nothing is left to do.

### Exceptions

A property that the code keeps but for a named case says so in its formula: the
case is recorded by the model where it arises, and everything outside it is
checked. Each is a finding.

| Property | Exception |
|---|---|
| `RequestsAnswered` | a writer in its transaction waits in `VaultInfo` for the mutex that a status poll, an unlock or a password change holds while waiting for the connection |
| `AnchorCoversTables` | the anchor is right under the key it was made with, which a lock during the write may have wiped |
| `IndexSettles` | index updates run after commit, outside every lock: late ones undo newer ones, or publish to a locked vault; it lasts until the next lock that nobody with keys overlaps |
| `RevokedHaveNoSession` | `opUnlock`, `authorize` and `buildConnState` may issue after `DropClient` |
| `SessionsDieAtLock` | the epoch restarts at `Reset` |
| `RollbackDetected` | a file without a counter is anchored anew whatever the mark |
| `UnattendedLocks` | issuing a session, which every connection and every poll after an expiry does, counts as activity |
| `NotLockedInUse` | an expired session's activity does not count |
| `NotLeftPending` | Cancel clears the storage before it looks there for the request to cancel |
| `PreviousKept` | the log is removed under an open transaction; a second restore moves an empty database over `.recovery`; a database that `os.Stat` could not see is overwritten |
| `ServesTheVault` | a restore that stopped between its renames: an empty database is served; a replacement that failed before `Reset` leaves the cached row of the vault it replaced |
| `StoreOpenBetween` | the handle is nil during a replacement, and after an error return of restore or destroy until the next one that succeeds |
| `AlarmIsRollback` | a counter noted after `Reset`, a restore that failed before it, a log that was lost, an older `.recovery` put back over the database |
| `DestroyComplete` | `.restore.tmp` is not removed; a restore verified earlier runs later |
| `MatchIsComplete` | the subdomain opt-in on a public suffix, a single label, or a domain with a public suffix below it |
| `EditsAreMerged` | fields a client's update does not carry |
| `InStep` | an oversized request has advanced the desktop's cipher |
| `CallsEnd` | a relay whose daemon has closed, or that refused a frame, does not tell the extension |

## 4. Proofs

All theorems hold for every value of the constants under the named assumptions of
the modules, which TLC evaluates in the runs: bounds are natural numbers
(`MaxVaults` and `RekeyInterval` at least one); the idle loop's interval is at most
the window and the window shorter than a session's lifetime, as the constants of
the code are (15 seconds, 5 minutes, 12 hours: `IdleAssumption`); the command line
is no paired client, goroutines and requests are numbered, operations are those the
code has; record identifiers are finitely many and a client is of one kind
(`RecordEditsAssumption`); hosts and suffixes are sequences of labels, no suffix is
empty, and submissions and pages have the form that clients send
(`MatchingAssumption`). None of them limits what the program does.
Every module states its invariant at the top, as a conjunction of
named parts, and then proves one lemma for each action.

**VaultProofs** proves all eight invariants of `VaultLifecycle` and the action
property `FailuresRemembered`. None is inductive alone. `IInv` adds: every
database, the snapshot in the container included, is sound (`DBOK`: one envelope
around the vault's key, every row sealed at its own revision under a version
between its column and the active one, the anchor verifies); the cached row, the
keyring and the mark agree with the file (`SvcAgrees`). `StampSound` shows that
stamping sound tables yields a sound database; `Commit` lifts that to any
transaction, and the steps of the writers follow from it.
- `Refinement` (`Spec => ImplementsRecordStore`): from the same invariant, every
  action of `Vault` is an action of `RecordStore` or a stutter under the mapping.
  A password change maps to one although it rewrites envelopes, anchor and mark;
  an unlock shows the store because every row that opens has the payload it was
  given (`CommitMaps`, then one lemma per action).
- `OlderFilesNoticed` (`RollbackSpec => RollbackDetected`): when files are swapped
  under the daemon, `IInv` does not survive. What does is `MarkCovers`: the mark
  is at least every counter the process has committed or verified, because each
  step that does either notes it; comparison at unlock does the rest.

**DaemonProofs** proves, for any number of goroutines and requests, who holds which
lock (`TypeOK`), `AnchorCoversTables`, `HighWaterNotAhead`, `IndexSettles` and
`RevisionsAdvance`. `IInv` says of a goroutine between two of its waiting points
what it may still rely on: its locals fit the request it serves (`LocalOK`,
`LocksOK`); the row its transaction is about to write is the one its WHERE clause
selected (`RowsHeld`), because the connection is held; two creations never meet
(`CreatesFresh`); a counter still to be noted is not above the file's (`NotesOK`);
the file is of the cached vault and version (`FileOK`). The index is the hardest
part: unless one of the recorded overlaps has happened, whoever has keys finds the
vault unlocked, what is committed and not yet published is what the table has, and
every record the index shows wrongly is about to be published or rebuilt
(`Settling`). When nobody is under way nothing is left to excuse it. The overlaps are
not excused for ever: a lock that nobody with keys overlaps empties the index, and
from there the invariant holds again (`LockedSettles`).

**SessionsProofs** proves `SessionsDieAtLock`. `IInv` says that every epoch that
is carried, by a session or in the locals of a goroutine that has not yet issued
one, is fresh: since the last reset, one read in this period is not ahead of the
vault's epoch, and one read in an earlier period is behind it. It also proves
`RevokedHaveNoSession`: `RInv` adds that a session a revoked client had before its
revocation is in the table only while some goroutine stands before `DropClient`
with that client as its target, which only that goroutine's step ends.

**IdleLockProofs** proves `UnattendedLocks` and `NotLockedInUse`. `IInv` says
that every session in the table is at least as old as the last use or the last
issue, as far as the window reaches (`Tracked`); that a check is due in time
(`InTime`); and that the session of the last use is in the table with its age
and lifetime until it expires (`LastUseKept`).

**PairingProofs** proves `HandedOutOnce`, `OneClientPerPairing`,
`IdentityMatchesRow`, `CredentialKept` and `NotLeftPending`, for any number of
extensions, calls in flight, pairings, clients and faults. A client is in at most
one place, the pending table, a call or an identity (`Once`), and an answer with
a client means that the daemon has forgotten the request (`CallsOK`). A table may
come back from a backup, so that what is said of rows is said of both tables
together (`Pinned`, `RowsOK`): one row per key, one key per client, and no row for a
request that is not approved. `ClaimsCurrent` says what overtaking is: a claim that
nothing overtook is one of the current pairing or of one another claim has ended.
Most actions only forget, and one lemma (`FadeStep`) serves them all.

**RestoreFilesProofs** proves all five properties of the run: `StoreOpenBetween`,
`PreviousKept`, `ServesTheVault`, `DestroyComplete` and `AlarmIsRollback`. `IInv`
lists, for every phase of a replacement and every point where a crash or a failed
step may leave it, which name has which vault (`PhaseOK`, `FilesOK`), where the
vault is when it is not under the database's name (`Kept`), that nothing has or can
bring back a destroyed one (`Destroyed`), and what the write in flight may still
put where: a detached write brings back no vault row but its file's, unless that file
was overwritten (`WriterOK`). `MarkOK` ties the mark to the counter of the current file
wherever nothing has parted them (`Comparable`). Proving it showed that a vault
whose first commit is still in the log goes with the log, which the model then had
to allow.

**ChannelProofs** proves `InStep` for any number of requests, any rekey interval and
any number of faults. A cipher's key follows from its counter (`Regular`), so that
counters are enough; that is where division enters. A connection is one numbered
stream to the daemon, hello, message 1, message 3, requests (`Up`), that starts
where the daemon stands (`Expected`), whether its frames are at the client, in the
relay or on the socket and whether its end was cut off; answers are another
(`Down`). The relay's steps leave both streams as they are. `AwaitedOK` says that
every answer has a caller of its own, which is what lets it be given to one.

**RecordsProofs** proves `IndexMirrorsRows` and `MatchIsComplete`, for any records,
hosts, suffix list, submissions and pages, and `EditsAreMerged`, for any number of
records, names, clients of every kind, and edits.
- `IndexMirrors`: the maps are changed in loops over a record's URLs, and a URL may
  share its domain with another of the same record. What is invariant is a count:
  a record is in a bucket as often as its URLs have that domain, and in a
  project's once (`IndexOK`). Appending adds one to the count of one key,
  `RemoveFirst` takes one away (`KeyAdded`, `KeyRemoved`); `KeysAdded` and
  `KeysRemoved` follow the loops step by step, by induction on the number of steps
  (`Induction`, from the least member of a set of numbers). `Put` and `Remove` keep
  `IndexOK`, whatever the order in which an unlock loads the rows (`LoadOK`). That
  the entries are the rows needs that a record decodes to what was submitted, since
  both times the URLs are parsed from the raw text (`RoundTrip`).
- `MatchComplete`: two hosts of which one ends in the other, where that one is longer
  than the other's suffix, have the same suffix and so the same registrable
  domain (`SameSuffix`, `SameDomain`); a page under such an apex looks in the bucket
  the record is in (`FoundByDomain`). The proof showed an exception that a list
  without private suffixes hides: `b.s3.example.com` is under `example.com`, but
  its registrable domain is its own.
- `EditsMerge`: the revision a client has read is all the protection there is. While
  the record still has it, what the client has read, in however many requests, is
  what the record holds (`Agrees`; `SaveBar` for the extension, which reads one
  thing and writes another).

Only model-checked: liveness (`BackoffEnds`, `RequestsAnswered`,
`PairingCompletes`, `CallsEnd`), which the prover does not reach. Every invariant
and every action property of the runs is a theorem. `RollbackDetected` compares
counters, as the code does: a copy with a counter not below the mark is a state this
process has itself committed or verified.

## 5. Not modelled

User interface (popup, content scripts, renderer); installer, updater, packaging
and version checks, which write files once at the user's command; the security
event log, which no decision reads; operating-system calls (peer credentials,
directories, the static key file); the password policy and generator, which count
and choose characters without any state; the cryptographic primitives themselves;
search and listing, which read the index and change nothing. The commands of the
CLI other than `edit` and `remove` are one request each, which the daemon's
modules take as inputs.

## 6. Plan

What every run checks as safety is a theorem. Worth adding, if the daemon's
concurrency changes: `Daemon` against an abstract record table, as `Vault` has in
`RecordStore`, for the behaviours without a recorded overlap.
