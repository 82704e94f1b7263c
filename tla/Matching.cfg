SPECIFICATION Spec
CONSTANTS
    RecordIDs = {r1, r2, r3}
    RawHosts <- MCRawHosts
    ToASCII <- MCToASCII
    PublicSuffixes <- MCPublicSuffixes
    LoopbackHosts <- MCLoopbackHosts
    Submissions <- MCSubmissions
    Pages <- MCPages
    Projects = {"", "p"}
INVARIANTS
    IndexMirrorsRows
    MatchIsComplete
