-------------------------------- MODULE Rollback -------------------------------
(***************************************************************************)
(* Module Vault with a database file that does not always stay where the   *)
(* daemon left it: an earlier copy of the file may take its place while    *)
(* the daemon runs (a restored disk snapshot, a synchronised folder).  The *)
(* service keeps what it has cached and must notice at the next unlock     *)
(* (VerifyCatalog).                                                        *)
(***************************************************************************)
EXTENDS Vault

VARIABLES
    copy,   \* an earlier state of the file
    seen    \* history: the highest counter this process has committed or verified

rvars == <<vars, copy, seen>>

RollbackInit == Init /\ copy = EmptyDB /\ seen = 0

CopyFile ==
    /\ db.vault # NoVault
    /\ copy' = db
    /\ UNCHANGED <<vars, seen>>

SwapFile ==
    /\ copy # EmptyDB /\ copy.vault = db.vault
    /\ db' = copy
    /\ UNCHANGED <<svc, index, container, born, outcome, copy, seen>>

\* The step is an unlock that succeeds.
Unlocks == HasKeys(svc') /\ svc'.epoch # svc.epoch

\* A step of the daemon.  The process sees a counter when it commits one and when
\* an unlock verifies one, and forgets it with Reset and at its end.
DaemonStep ==
    /\ Next \/ UnlockWithoutEnvelope
    /\ copy' = copy
    /\ seen' = IF ~Cached(svc') THEN 0
               ELSE IF (Unlocks \/ db' # db) /\ Counter(db') > seen THEN Counter(db')
               ELSE seen

RollbackNext == DaemonStep \/ CopyFile \/ SwapFile

RollbackSpec == RollbackInit /\ [][RollbackNext]_rvars

-------------------------------------------------------------------------------
(* Properties.                                                             *)

\* An unlock that succeeds has found a counter no lower than any this process has
\* committed or verified since it started or was reset, unless the file holds no
\* counter at all and is anchored anew: every mutating request notes its counter,
\* and no lock, password change or failed unlock forgets it (VerifyCatalog,
\* NoteCatalogCounter).
RollbackDetected ==
    [][Unlocks => Counter(db') >= seen \/ db.state = NoState]_rvars
===============================================================================
