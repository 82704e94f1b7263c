------------------------------ MODULE RecordEdits ------------------------------
(***************************************************************************)
(* How the three clients edit a record.  records.update replaces the whole *)
(* record, so each of them reads it first, in one or more requests, and    *)
(* sends back what it means to keep; only the expected revision tells the  *)
(* daemon that the record has changed in between.                          *)
(*                                                                         *)
(* A field's value is a number, 0 for an empty one; a name is one of a few *)
(* so that a reference typed by a user may match several records or none.  *)
(* The daemon's part is the committed table: what may go wrong between a   *)
(* commit and the index is in module Daemon.                               *)
(***************************************************************************)
EXTENDS Naturals, FiniteSets

CONSTANTS
    Records,
    Names,          \* names of records, and the references users type
    HostName,       \* the name the extension gives a record: the page's host
    CLIs, Desktops, Extensions,     \* clients of each kind
    MaxEdits        \* bound: edits begun

ASSUME RecordEditsAssumption ==
    /\ HostName \in Names /\ MaxEdits \in Nat
    /\ IsFiniteSet(Records)
    /\ CLIs \cap Desktops = {} /\ CLIs \cap Extensions = {} /\ Desktops \cap Extensions = {}

VARIABLES
    store,      \* the records, NoRecord once deleted
    cl,         \* what each client has read and means to change
    edits       \* edits begun; also the source of new values

editVars == <<store, cl, edits>>

Clients == CLIs \cup Desktops \cup Extensions

\* urls stands for the addresses with their policies, tags for service and
\* environment too, notes for notes and API keys, custom for the user's own fields.
Metadata == {"name", "username", "urls", "tags", "project"}
Secrets == {"password", "notes", "custom"}
Fields == Metadata \cup Secrets

NoRecord == [revision |-> 0]
Idle == [pc |-> "idle"]
Exists(id) == store[id] # NoRecord
Record(revision, fields) == [revision |-> revision, fields |-> fields]

EditInit ==
    /\ \E names \in [Records -> Names] :
          store = [id \in Records |->
                      Record(1, [f \in Fields |-> IF f = "name" THEN names[id] ELSE 1])]
    /\ cl = [c \in Clients |-> Idle]
    /\ edits = 0

-------------------------------------------------------------------------------
(* The daemon.                                                             *)

\* Resolve: the one record that matches the reference.
Resolved(ref) ==
    LET matches == {id \in Records : Exists(id) /\ store[id].fields["name"] = ref}
    IN  IF Cardinality(matches) = 1 THEN matches ELSE {}

\* Mutant: the revision is not compared.
UpdateBlind(id, expected, fields) ==
    IF Exists(id)
    THEN [store EXCEPT ![id] = Record(store[id].revision + 1, fields)] ELSE store

\* opUpdate and records Update: the row is replaced if its revision is still the
\* expected one, else the request fails and nothing changes.
Update(id, expected, fields) ==
    IF Exists(id) /\ store[id].revision = expected
    THEN [store EXCEPT ![id] = Record(expected + 1, fields)] ELSE store

\* records.reveal.
WithSecrets(read, id) == [f \in Fields |-> IF f \in Secrets THEN store[id].fields[f] ELSE read[f]]

-------------------------------------------------------------------------------
(* The clients.                                                            *)

\* A client sets out to give one field a new value.
Change(f) == IF f = "name" THEN Names ELSE {edits + 2}
Begin(c, local) ==
    /\ cl[c] = Idle /\ edits < MaxEdits
    /\ edits' = edits + 1
    /\ cl' = [cl EXCEPT ![c] = local]
    /\ UNCHANGED store

Intent(pc, id, field, value, ref) ==
    [pc |-> pc, id |-> id, field |-> field, value |-> value, ref |-> ref,
     revision |-> store[id].revision, read |-> store[id].fields]

\* vault edit, records.show: the reference is resolved and the metadata read.
\* There is no flag for the project or for custom fields.
CLIShow(c) ==
    \E ref \in Names, f \in Fields \ {"project", "custom"} :
        \E id \in Resolved(ref), v \in Change(f) :
            Begin(c, Intent("reveal", id, f, v, ref))

\* vault edit, records.reveal: the reference is resolved again, and the secrets
\* of whatever it names now are read.
CLIReveal(c) ==
    /\ cl[c] # Idle /\ cl[c].pc = "reveal"
    /\ IF Resolved(cl[c].ref) = {}
       THEN cl' = [cl EXCEPT ![c] = Idle]
       ELSE \E id \in Resolved(cl[c].ref) :
               cl' = [cl EXCEPT ![c].pc = "update",
                                ![c].read = WithSecrets(@, id)]
    /\ UNCHANGED <<store, edits>>

\* The desktop's list is read long before the editor opens on one of its records.
DesktopList(c) ==
    \E id \in {i \in Records : Exists(i)}, f \in Fields :
        \E v \in Change(f) : Begin(c, Intent("open", id, f, v, HostName))

\* edit(): the secrets are revealed by identifier, or the editor does not open.
DesktopReveal(c) ==
    /\ cl[c] # Idle /\ cl[c].pc = "open"
    /\ IF Exists(cl[c].id)
       THEN cl' = [cl EXCEPT ![c].pc = "update",
                             ![c].read = WithSecrets(@, cl[c].id)]
       ELSE cl' = [cl EXCEPT ![c] = Idle]
    /\ UNCHANGED <<store, edits>>

\* The save bar: a submitted login is matched against the page, and the user may
\* update the record found.
ExtensionMatch(c) ==
    \E id \in {i \in Records : Exists(i)} :
        Begin(c, Intent("update", id, "password", edits + 2, HostName))

\* What each client sends.  vault edit merges the flags into what it read, without
\* project and custom; the desktop sends everything; the save bar sends the
\* username and password typed, the page's origin, exact, and the project.
Payload(c) ==
    LET s == cl[c]
        merged == [s.read EXCEPT ![s.field] = s.value]
    IN  CASE c \in CLIs -> [merged EXCEPT !["project"] = 0, !["custom"] = 0]
          [] c \in Desktops -> merged
          [] c \in Extensions ->
               [f \in Fields |-> CASE f \in {"password", "username", "urls"} -> s.value
                                   [] f = "project" -> s.read[f]
                                   [] f = "name" -> HostName
                                   [] OTHER -> 0]

\* records.update, or records.updateLogin from the browser.
Submit(c) ==
    /\ cl[c] # Idle /\ cl[c].pc = "update"
    /\ store' = Update(cl[c].id, cl[c].revision, Payload(c))
    /\ cl' = [cl EXCEPT ![c] = Idle]
    /\ UNCHANGED edits

\* vault remove, and the desktop's delete, by identifier.
DeleteRecord ==
    \E id \in {i \in Records : Exists(i)} :
        /\ edits < MaxEdits /\ edits' = edits + 1
        /\ store' = [store EXCEPT ![id] = NoRecord]
        /\ UNCHANGED cl

EditNext ==
    \/ \E c \in CLIs : CLIShow(c) \/ CLIReveal(c)
    \/ \E c \in Desktops : DesktopList(c) \/ DesktopReveal(c)
    \/ \E c \in Extensions : ExtensionMatch(c)
    \/ \E c \in Clients : Submit(c)
    \/ DeleteRecord

EditSpec == EditInit /\ [][EditNext]_editVars

-------------------------------------------------------------------------------
(* Properties.                                                             *)

\* The fields a client's update does not carry over.
NotCarried(c) ==
    CASE c \in CLIs -> {"project", "custom"}
      [] c \in Desktops -> {}
      [] c \in Extensions -> {"name", "username", "urls", "tags", "notes", "custom"}

\* An edit changes what its user meant to change and nothing else (cmdEdit:
\* "explicit flags override, everything else is preserved"): whatever other
\* clients did between its reads, an accepted update keeps, of the record it
\* replaces, every field but the edited one and those its client does not carry
\* over.  No other client's edit is undone, and no secret is written to a record
\* it was not read from.
EditsAreMerged ==
    [][\A id \in Records :
          store[id] # store'[id] /\ store'[id] # NoRecord =>
              \E c \in Clients :
                  /\ cl[c] # Idle /\ cl'[c] = Idle /\ cl[c].id = id
                  /\ store'[id].revision = store[id].revision + 1
                  /\ \A f \in Fields \ NotCarried(c) :
                        store'[id].fields[f] =
                            IF f = cl[c].field THEN cl[c].value ELSE store[id].fields[f]]_editVars
===============================================================================
