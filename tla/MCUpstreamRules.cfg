\* One entry with both a pin and a host name.
CONSTANTS
    Certificates <- MCCertificates
    Allowed = {"untraced"}
    Problems = {"untraced", "expired"}
    NoCertificate = NoCertificate
    NoPin = ""
    CacheSeconds = 1
    Connections = {c1, c2}
    Entries <- MCBoth
    Presents <- MCOther
    Messages <- MCMessages
    NoSession = NoSession
SPECIFICATION Spec
PROPERTY AcceptedAsDocumented
