\* Two connections to two servers, each in several entries with other settings.
CONSTANTS
    Certificates <- MCCertificates
    Allowed = {"untraced"}
    Problems = {"untraced", "expired"}
    NoCertificate = NoCertificate
    NoPin = ""
    CacheSeconds = 1
    Connections = {c1, c2}
    Entries <- MCEntries
    Presents <- MCPresents
    Messages <- MCMessages
    NoSession = NoSession
SYMMETRY Symmetry
SPECIFICATION Spec
INVARIANTS TypeOK CacheIsFresh VerifiedUnlessWaived NoPartialReply PaddingRemoved
PROPERTY AcceptedByRules
