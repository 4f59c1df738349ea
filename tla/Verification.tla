---------------------------- MODULE Verification ---------------------------
(***************************************************************************)
(* How a forwarder's certificate is judged: the pin and host name verifier *)
(* (src/src/openssl/spki_verifier.cpp), the callback that OpenSSL calls    *)
(* for a chain (src/src/openssl/context.cpp) and the cache in front of     *)
(* OpenSSL (src/src/verify_cache.cpp).                                     *)
(*                                                                         *)
(* A certificate has a key, whose hash is what a pin is compared with, and *)
(* names.  What OpenSSL finds wrong with a chain is a set of problems;     *)
(* Allowed are those a pin makes up for.                                   *)
(***************************************************************************)
EXTENDS HostnameVerifier

CONSTANTS
    Certificates,   \* of the forwarders
    Allowed,        \* ALLOWED_ERRORS
    Problems,       \* all that may be wrong with a chain
    NoCertificate,
    NoPin,
    CacheSeconds    \* Dote::CACHE_SECONDS

ASSUME VerificationAssumption ==
    /\ Allowed \subseteq Problems
    /\ NoCertificate \notin Certificates
    /\ CacheSeconds \in Nat

VARIABLES
    cache,          \* VerifyCache::m_cache
    cacheLeft       \* seconds until m_expiry, -1 when it is over

cacheVars == <<cache, cacheLeft>>

-----------------------------------------------------------------------------

VerifyHash(f, certificate) == f.pin # NoPin /\ certificate.key = f.pin

VerifyHostname(f, certificate) == f.host # NoHost /\ IsValid(certificate, f.host)

\* Mutant: a host name makes up for a wrong pin.
SpkiVerifyEither(f, certificate) ==
    CASE VerifyHostname(f, certificate) -> 1
      [] ~VerifyHostname(f, certificate) /\ VerifyHash(f, certificate) -> 2
      [] OTHER -> 0

\* SpkiVerifier::verify()
SpkiVerify(f, certificate) ==
    LET pinned == VerifyHash(f, certificate)
        named  == VerifyHostname(f, certificate)
    IN  CASE named /\ (pinned \/ f.pin = NoPin) -> 1
          [] ~named /\ pinned -> 2
          [] OTHER -> 0

\* SslConnection::verify(), with what configureVerifier() has set.
ConnectionVerify(f, certificate) ==
    IF f.host # NoHost \/ f.pin # NoPin THEN SpkiVerify(f, certificate) ELSE 1

\* verifyTrampoline(): for a problem, or for a certificate without one.
VerifyTrampoline(f, certificate, found) ==
    LET preverify == found = {}
        verdict   == ConnectionVerify(f, certificate)
    IN  IF preverify \/ found \subseteq Allowed
        THEN verdict = 2 \/ (preverify /\ verdict # 0)
        ELSE FALSE

\* X509_verify_cert(): the callback has the last word on each problem, and is
\* asked for the certificate itself.  With disablePki there is no verifier (and
\* OpenSSL goes on whatever the result).
ForwardVerify(f, certificate, problems) ==
    IF f.disablePki THEN problems = {}
    ELSE /\ \A problem \in problems : VerifyTrampoline(f, certificate, {problem})
         /\ VerifyTrampoline(f, certificate, {})

\* The cache, when it has been looked whether it has expired.
Cached == IF cacheLeft < 0 THEN NoCertificate ELSE cache

\* Mutant: a failure is cached, too.
VerifyCachesAll(f, certificate, problems) ==
    /\ cache' = certificate
    /\ cacheLeft' = IF certificate = Cached THEN cacheLeft ELSE CacheSeconds

\* Mutant: a hit keeps the certificate for longer.
VerifyRenews(f, certificate, problems) ==
    IF certificate = Cached \/ ForwardVerify(f, certificate, problems)
    THEN cache' = certificate /\ cacheLeft' = CacheSeconds
    ELSE cache' = Cached /\ UNCHANGED cacheLeft

\* VerifyCache::verify(), by way of chainVerifyTrampoline().
Verify(f, certificate, problems) ==
    IF certificate # Cached /\ ForwardVerify(f, certificate, problems)
    THEN cache' = certificate /\ cacheLeft' = CacheSeconds
    ELSE cache' = Cached /\ UNCHANGED cacheLeft

\* Its result.
Verified(f, certificate, problems) ==
    certificate = Cached \/ ForwardVerify(f, certificate, problems)

SecondPasses == cacheLeft' = (IF cacheLeft < 0 THEN cacheLeft ELSE cacheLeft - 1)

CacheInit == cache = NoCertificate /\ cacheLeft = -1

=============================================================================
