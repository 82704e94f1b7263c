-------------------------------- MODULE Matching --------------------------------
(***************************************************************************)
(* Which records the daemon offers a page, and which it reveals to it: the *)
(* canonical origins of records/domain, the metadata as it is submitted,   *)
(* encoded, stored and decoded again, and the in-memory index with its two *)
(* secondary maps.                                                         *)
(*                                                                         *)
(* A host is the sequence of its labels.  Of a record only what matching   *)
(* uses is kept: its URLs, each with its policy, and its project.          *)
(***************************************************************************)
EXTENDS Naturals, Sequences, SequencesExt, FiniteSetsExt, FiniteSets

CONSTANTS
    RecordIDs,
    RawHosts,       \* hosts as they are typed
    ToASCII,        \* [RawHosts -> hosts]: lower case and IDNA; <<>> is a refusal
    PublicSuffixes, \* the suffix list, without its default rule
    LoopbackHosts,  \* localhost and the loopback addresses
    Submissions,    \* the record fields clients send
    Pages,          \* the raw URLs pages have
    Projects        \* the projects they name, "" for none

\* A URL as it is typed, and the fields of a submission.  A list of urlEntries may be
\* absent (nil in Go) or present and empty, which is not the same.
RawURLs == [scheme : STRING, host : RawHosts, port : STRING]
Forms == [urls : Seq(RawURLs),
          present : BOOLEAN, urlEntries : Seq([raw : RawURLs, sub : BOOLEAN]),
          project : STRING, credential : BOOLEAN]

ASSUME MatchingAssumption ==
    /\ IsFiniteSet(RecordIDs)
    /\ ToASCII \in [RawHosts -> Seq(STRING)]
    /\ PublicSuffixes \subseteq Seq(STRING) \ {<<>>}
    /\ Submissions \subseteq Forms /\ Pages \subseteq RawURLs /\ Projects \subseteq STRING

VARIABLES
    rows,       \* the metadata column, by record
    unlocked,
    entries,    \* Index.entries
    byHost,     \* Index.byHost: registrable domain -> sequence of records
    byProject   \* Index.byProjectID

vars == <<rows, unlocked, entries, byHost, byProject>>
index == <<entries, byHost, byProject>>

NoMap == [x \in {} |-> <<>>]
Lookup(m, k) == IF k \in DOMAIN m THEN m[k] ELSE <<>>

-------------------------------------------------------------------------------
(* Origins.                                                                *)

Invalid == [scheme |-> "none", host |-> <<>>, port |-> ""]

\* ParseOrigin: http or https, a host that is not empty once mapped, and the
\* effective port.
ParseOrigin(raw) ==
    LET host == ToASCII[raw.host]
        scheme == IF raw.scheme = "HTTPS" THEN "https" ELSE raw.scheme
        default == IF scheme = "https" THEN "443" ELSE "80"
    IN  IF scheme \notin {"http", "https"} \/ host = <<>> THEN Invalid
        ELSE [scheme |-> scheme, host |-> host,
              port |-> IF raw.port = "" THEN default ELSE raw.port]

IsLoopback(o) == o.host \in LoopbackHosts
IsSecure(o) == o.scheme = "https"

\* publicsuffix: the longest listed suffix of the host, else its last label.
Suffix(host) ==
    LET listed == {s \in PublicSuffixes : IsSuffix(s, host)}
    IN  IF listed = {} THEN <<Last(host)>>
        ELSE CHOOSE s \in listed : \A t \in listed : Len(t) <= Len(s)

\* One label more than the suffix; a host that is a suffix stands for itself.
RegistrableDomain(o) ==
    LET n == Len(Suffix(o.host)) + 1
    IN  IF Len(o.host) < n THEN o.host
        ELSE SubSeq(o.host, Len(o.host) - n + 1, Len(o.host))

isUnder(host, apex) == IsSuffix(apex, host)

\* LoginURL.Matches with MatchesWithPolicy.
Matches(u, page) ==
    /\ u.origin.scheme = page.scheme /\ u.origin.port = page.port
    /\ IF u.sub THEN isUnder(page.host, u.origin.host) ELSE u.origin.host = page.host

MatchesOrigin(e, page) == \E i \in DOMAIN e.urls : Matches(e.urls[i], page)
MatchesProjectID(e, page, project) ==
    project # "" /\ IsLoopback(page) /\ e.project = project

-------------------------------------------------------------------------------
(* Metadata: what is submitted, stored and decoded.                        *)

\* A list of URLs without policies, where every one is exact.
Exact(raws) == [i \in DOMAIN raws |-> [raw |-> raws[i], sub |-> FALSE]]

\* urlEntries supersede urls when they are present, even if there are none.
Entries(dto) == IF dto.present THEN dto.urlEntries ELSE Exact(dto.urls)

LoginURLs(es) == [i \in DOMAIN es |->
    [raw |-> es[i].raw, origin |-> ParseOrigin(es[i].raw), sub |-> es[i].sub]]

Trim(p) == IF p = " " THEN "" ELSE p

\* fieldsToDomain.
fieldsToDomain(f) == [urls |-> LoginURLs(Entries(f)), project |-> Trim(f.project)]

\* Parsing the URLs, and Record.Validate: a login has a URL or a credential.
Accepted(f) ==
    LET m == fieldsToDomain(f)
    IN  /\ \A i \in DOMAIN m.urls : m.urls[i].origin # Invalid
        /\ f.credential \/ m.urls # <<>>

\* Mutant: the policy is not written.
encodeExact(m) ==
    [urls |-> [i \in DOMAIN m.urls |-> m.urls[i].raw], present |-> FALSE, urlEntries |-> <<>>,
     project |-> m.project]
\* encodeMetadata writes the raw URLs with their policies, but no empty list
\* (omitempty); decodeMetadata reads them, or the urls of an older daemon, and
\* parses them again.
encodeMetadata(m) ==
    [urls |-> <<>>, present |-> m.urls # <<>>,
     urlEntries |-> [i \in DOMAIN m.urls |-> [raw |-> m.urls[i].raw, sub |-> m.urls[i].sub]],
     project |-> m.project]

decodeMetadata(dto) == [urls |-> LoginURLs(Entries(dto)), project |-> dto.project]

-------------------------------------------------------------------------------
(* The index.                                                              *)

\* removeFromMultimap: one occurrence, and the key with the last one.
RemoveKey(m, k, id) ==
    LET left == RemoveFirst(Lookup(m, k), id)
    IN  IF left = <<>> THEN [x \in DOMAIN m \ {k} |-> m[x]] ELSE [m EXCEPT ![k] = left]
AddKey(m, k, id) == [x \in DOMAIN m \cup {k} |-> IF x = k THEN Append(Lookup(m, k), id) ELSE m[x]]

\* The loops over the URLs of a record.
RemoveKeys(m, ks, id) ==
    LET after[n \in 0..Len(ks)] == IF n = 0 THEN m ELSE RemoveKey(after[n - 1], ks[n], id)
    IN  after[Len(ks)]
AddKeys(m, ks, id) ==
    LET after[n \in 0..Len(ks)] == IF n = 0 THEN m ELSE AddKey(after[n - 1], ks[n], id)
    IN  after[Len(ks)]

\* Mutant: the maps are keyed by host.
DomainsByHost(e) == [i \in DOMAIN e.urls |-> e.urls[i].origin.host]
\* The keys of byHost a record is under, one for each URL.
Domains(e) == [i \in DOMAIN e.urls |-> RegistrableDomain(e.urls[i].origin)]

\* The maps ix holds, as one value.
Maps(es, h, p) == [entries |-> es, byHost |-> h, byProject |-> p]

\* Mutant: a domain the record has twice is removed once.
removeOnce(ix, id) ==
    LET e == ix.entries[id]
    IN  Maps(ix.entries,
             RemoveKeys(ix.byHost, SetToSeq(ToSet(Domains(e))), id),
             IF e.project = "" THEN ix.byProject ELSE RemoveKey(ix.byProject, e.project, id))
\* removeIndexesLocked: the record's key for every URL, and its project.
removeIndexes(ix, id) ==
    LET e == ix.entries[id]
    IN  Maps(ix.entries,
             RemoveKeys(ix.byHost, Domains(e), id),
             IF e.project = "" THEN ix.byProject ELSE RemoveKey(ix.byProject, e.project, id))

\* Put: what an older entry added goes first.
PutEntry(ix, id, e) ==
    LET old == IF id \in DOMAIN ix.entries THEN removeIndexes(ix, id) ELSE ix
    IN  Maps([x \in DOMAIN ix.entries \cup {id} |-> IF x = id THEN e ELSE ix.entries[x]],
             AddKeys(old.byHost, Domains(e), id),
             IF e.project = "" THEN old.byProject ELSE AddKey(old.byProject, e.project, id))

RemoveEntry(ix, id) ==
    IF id \notin DOMAIN ix.entries THEN ix
    ELSE LET old == removeIndexes(ix, id)
         IN  Maps([x \in DOMAIN ix.entries \ {id} |-> ix.entries[x]], old.byHost, old.byProject)

Empty == Maps(NoMap, NoMap, NoMap)
Current == Maps(entries, byHost, byProject)
SetIndex(ix) == entries' = ix.entries /\ byHost' = ix.byHost /\ byProject' = ix.byProject

\* Index.Match: by the page's registrable domain, then by project; a record is
\* returned once.
ByOrigin(page) ==
    {id \in ToSet(Lookup(byHost, RegistrableDomain(page))) :
        id \in DOMAIN entries /\ MatchesOrigin(entries[id], page)}
ByProject(page, project) ==
    {id \in ToSet(Lookup(byProject, project)) :
        id \in DOMAIN entries /\ MatchesProjectID(entries[id], page, project)}
Match(page, project) ==
    {[id |-> id, reason |-> "origin"] : id \in ByOrigin(page)}
    \cup {[id |-> id, reason |-> "project"] : id \in ByProject(page, project) \ ByOrigin(page)}

\* RevealForOrigin decides from the record alone.
RevealForOrigin(id, page, project) ==
    /\ IsSecure(page) \/ IsLoopback(page)
    /\ id \in DOMAIN entries
    /\ MatchesOrigin(entries[id], page) \/ MatchesProjectID(entries[id], page, project)

-------------------------------------------------------------------------------
(* Requests.                                                               *)

\* Records an older daemon wrote have urls and no policies.
Legacy(f) == [urls |-> f.urls, present |-> FALSE, urlEntries |-> <<>>, project |-> ""]

Init ==
    /\ unlocked = FALSE
    /\ \E ids \in SUBSET RecordIDs :
          \E fs \in [ids -> {f \in Submissions : Accepted(f) /\ ~f.present}] :
              rows = [id \in ids |-> Legacy(fs[id])]
    /\ entries = NoMap /\ byHost = NoMap /\ byProject = NoMap

\* LoadIndex: every row is decoded and put, in the order of the table.
LoadIndex(order) ==
    LET after[n \in 0..Len(order)] ==
            IF n = 0 THEN Empty
            ELSE PutEntry(after[n - 1], order[n], decodeMetadata(rows[order[n]]))
    IN  after[Len(order)]

\* opUnlock.
Unlock ==
    /\ ~unlocked /\ unlocked' = TRUE
    /\ \E order \in SetToSeqs(DOMAIN rows) : SetIndex(LoadIndex(order))
    /\ UNCHANGED rows

\* The lock hook: Index.Clear.
Lock ==
    /\ unlocked /\ unlocked' = FALSE
    /\ SetIndex(Empty)
    /\ UNCHANGED rows

\* opCreate and opUpdate: the row is written, then the entry is put.
Save ==
    \E id \in RecordIDs, f \in Submissions :
        /\ unlocked /\ Accepted(f)
        /\ LET m == fieldsToDomain(f)
           IN  /\ rows' = [x \in DOMAIN rows \cup {id} |-> IF x = id THEN encodeMetadata(m) ELSE rows[x]]
               /\ SetIndex(PutEntry(Current, id, m))
        /\ UNCHANGED unlocked

\* opDelete
Delete ==
    \E id \in DOMAIN rows :
        /\ unlocked
        /\ rows' = [x \in DOMAIN rows \ {id} |-> rows[x]]
        /\ SetIndex(RemoveEntry(Current, id))
        /\ UNCHANGED unlocked

Next == Unlock \/ Lock \/ Save \/ Delete

Spec == Init /\ [][Next]_vars

-------------------------------------------------------------------------------
(* Properties.                                                             *)

Occurrences(s, x) == Cardinality({i \in DOMAIN s : s[i] = x})

\* While unlocked the index is what decoding the stored rows would give, so that
\* a lock and an unlock change no match; and the secondary maps are exactly those
\* of the entries (Put, Remove and removeFromMultimap keep no record under a key
\* it has lost, lose none it shares between two URLs and leave no empty bucket).
IndexMirrorsRows ==
    IF ~unlocked THEN Current = Empty
    ELSE /\ DOMAIN entries = DOMAIN rows
         /\ \A id \in DOMAIN rows : entries[id] = decodeMetadata(rows[id])
         /\ \A d \in DOMAIN byHost : byHost[d] # <<>> /\ ToSet(byHost[d]) \subseteq DOMAIN entries
         /\ \A id \in DOMAIN entries :
              LET e == entries[id]
                  keys == [i \in DOMAIN e.urls |-> RegistrableDomain(e.urls[i].origin)]
              IN  \A d \in ToSet(keys) \cup DOMAIN byHost :
                     Occurrences(Lookup(byHost, d), id) = Occurrences(keys, d)
         /\ \A p \in DOMAIN byProject :
              /\ byProject[p] # <<>> /\ IsInjective(byProject[p])
              /\ ToSet(byProject[p]) = {id \in DOMAIN entries : entries[id].project = p}
         /\ \A id \in DOMAIN entries : entries[id].project \in {""} \cup DOMAIN byProject

\* A URL that opts in to the subdomains of a host at or above the page's public suffix.
OverSuffix(u, page) ==
    u.sub /\ page.host # u.origin.host /\ isUnder(Suffix(page.host), u.origin.host)

\* What Match offers a page through the maps is what a scan of all records would
\* find, and so, over https or on loopback, what RevealForOrigin reveals to it.
\* The exception is a URL that opts in to the subdomains of a public suffix, of a
\* single label such as localhost, or of a domain that has a public suffix below it:
\* RevealForOrigin honours it, Match looks under the page's own registrable domain,
\* which is not the URL's, and does not find the record.
MatchIsComplete ==
    \A raw \in Pages, p \in Projects :
        LET page == ParseOrigin(raw)
            offered == {m.id : m \in Match(page, p)}
            found == {id \in DOMAIN entries :
                        \/ MatchesProjectID(entries[id], page, p)
                        \/ \E i \in DOMAIN entries[id].urls :
                              Matches(entries[id].urls[i], page) /\ ~OverSuffix(entries[id].urls[i], page)}
        IN  page # Invalid =>
                /\ found \subseteq offered
                /\ \A id \in offered :
                      \/ RevealForOrigin(id, page, p)
                      \/ ~IsSecure(page) /\ ~IsLoopback(page) /\ MatchesOrigin(entries[id], page)
                /\ \A id \in DOMAIN entries \ offered : RevealForOrigin(id, page, p) =>
                      \E i \in DOMAIN entries[id].urls : OverSuffix(entries[id].urls[i], page)
===============================================================================
