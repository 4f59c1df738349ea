\* A server that is in one entry with `-i' and in one without.
CONSTANTS
    Certificates <- MCCertificates
    Allowed = {"untraced"}
    Problems = {"untraced", "expired"}
    NoCertificate = NoCertificate
    NoPin = ""
    CacheSeconds = 1
    Connections = {c1, c2}
    Entries <- MCEntries
    Presents <- MCPresents
    Messages <- MCMessages
    NoSession = NoSession
SPECIFICATION Spec
INVARIANT OpenIsVerified
