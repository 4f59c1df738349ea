--------------------------- MODULE Upstream_proof ---------------------------
(***************************************************************************)
(* Theorems about module Upstream: what the cache and the session that all *)
(* connections share stand for, which certificates are accepted, that a    *)
(* part of a response is recognised, and that a whole one loses its        *)
(* padding and nothing else, for every set of forwarders, certificates,    *)
(* names, problems, responses and connections, and however long the cache  *)
(* lasts.                                                                  *)
(***************************************************************************)
EXTENDS Upstream, SequenceTheorems, FiniteSetTheorems, WellFoundedInduction, TLAPS

-----------------------------------------------------------------------------

Sessions == [remote : Remotes, certificate : Certificates]

Links ==
    {NoLink}
        \cup [state : {"connecting"}, entry : Entries, offers : Sessions \cup {NoSession}]
        \cup [state : {"open"}, entry : Entries, certificate : Certificates]

Typed ==
    /\ cache \in Certificates \cup {NoCertificate}
    /\ cacheLeft \in -1..CacheSeconds
    /\ link \in [Connections -> Links]
    /\ session \in Sessions \cup {NoSession}
    /\ accepted \subseteq Certificates /\ waived \subseteq Sessions
    /\ latest \in [certificate : Certificates \cup {NoCertificate}, age : 0..LongAgo]

\* The cache was filled by the last certificate that OpenSSL accepted, and
\* the two clocks run together.
CacheIsLatest ==
    /\ cache # NoCertificate => cache \in accepted
    /\ cacheLeft >= 0 /\ cache # NoCertificate =>
            latest.certificate = cache /\ latest.age + cacheLeft = CacheSeconds

\* What may be used as a session: somebody has decided to trust it.
Vouched(made) == made.certificate \in accepted \/ made \in waived

\* The session that an open connection has left behind.
LeftBehind(c) == [remote |-> link[c].entry.remote, certificate |-> link[c].certificate]

LinksAreVerified ==
    \A c \in Connections :
        /\ link[c].state = "open" => Vouched(LeftBehind(c))
        /\ link[c].state = "connecting" /\ link[c].offers # NoSession =>
                Vouched(link[c].offers)

SessionIsVerified == session # NoSession => Vouched(session)

IInv == Typed /\ CacheIsLatest /\ LinksAreVerified /\ SessionIsVerified

-----------------------------------------------------------------------------

(***************************************************************************)
(* A connection is made, and offers the session there is.                  *)
(***************************************************************************)
LEMMA ConstructKeeps ==
    ASSUME NEW c \in Connections, NEW f \in Entries, IInv, Construct(c, f)
    PROVE  IInv'
<1> DEFINE new == [state |-> "connecting", entry |-> f, offers |-> session]
<1>1. link' = [link EXCEPT ![c] = new]
      /\ UNCHANGED <<cache, cacheLeft, session, accepted, waived, latest>>
  BY DEF Construct, cacheVars, history
<1>2. Typed'
  BY <1>1 DEF IInv, Typed, Links
<1>3. CacheIsLatest' /\ SessionIsVerified'
  BY <1>1 DEF IInv, CacheIsLatest, SessionIsVerified, Vouched
<1>4. LinksAreVerified'
  <2>1. link'[c] = new /\ \A d \in Connections \ {c} : link'[d] = link[d]
    BY <1>1 DEF IInv, Typed
  <2> QED
    BY <1>1, <2>1 DEF IInv, LinksAreVerified, SessionIsVerified, Vouched, LeftBehind
<1> QED
  BY <1>2, <1>3, <1>4 DEF IInv

(***************************************************************************)
(* A connection opens with a certificate that may be vouched for, and      *)
(* leaves its session behind.                                              *)
(***************************************************************************)
LEMMA OpenedKeeps ==
    ASSUME NEW c \in Connections, NEW certificate \in Certificates, IInv,
           link[c].entry \in Entries, Opened(c, certificate),
           accepted \subseteq accepted', waived \subseteq waived',
           certificate \in accepted' \/ session' \in waived'
    PROVE  /\ link' \in [Connections -> Links] /\ session' \in Sessions
           /\ LinksAreVerified' /\ SessionIsVerified'
<1> DEFINE f == link[c].entry
           new == [state |-> "open", entry |-> f, certificate |-> certificate]
<1>1. link' = [link EXCEPT ![c] = new]
      /\ session' = [remote |-> f.remote, certificate |-> certificate]
  BY DEF Opened
<1>2. link' \in [Connections -> Links] /\ session' \in Sessions
  BY <1>1 DEF IInv, Typed, Links, Sessions, Remotes
<1>3. link'[c] = new /\ \A d \in Connections \ {c} : link'[d] = link[d]
  BY <1>1 DEF IInv, Typed
<1>4. SessionIsVerified' /\ Vouched(session)'
  BY <1>1 DEF SessionIsVerified, Vouched
<1>5. LinksAreVerified'
  <2>1. ASSUME NEW d \in Connections, d # c
        PROVE  /\ link'[d].state = "open" => Vouched(LeftBehind(d))'
               /\ link'[d].state = "connecting" /\ link'[d].offers # NoSession =>
                    Vouched(link[d].offers)'
    BY <1>3, <2>1 DEF IInv, LinksAreVerified, Vouched, LeftBehind
  <2>2. LeftBehind(c)' = session'
    BY <1>1, <1>3 DEF LeftBehind
  <2>3. Vouched(LeftBehind(c))'
    BY <1>4, <2>2 DEF Vouched
  <2>4. link'[c].state = "open"
    BY <1>3
  <2> QED
    BY <2>1, <2>3, <2>4 DEF LinksAreVerified
<1> QED
  BY <1>2, <1>4, <1>5

(***************************************************************************)
(* A connection is given up, and perhaps the session with it.              *)
(***************************************************************************)
LEMMA ClosedKeeps ==
    ASSUME NEW c \in Connections, IInv, link' = [link EXCEPT ![c] = NoLink],
           session' \in {session, NoSession}, accepted \subseteq accepted',
           waived \subseteq waived'
    PROVE  /\ link' \in [Connections -> Links]
           /\ session' \in Sessions \cup {NoSession}
           /\ LinksAreVerified' /\ SessionIsVerified'
<1>1. link' \in [Connections -> Links] /\ session' \in Sessions \cup {NoSession}
  BY DEF IInv, Typed, Links
<1>2. link'[c] = NoLink /\ \A d \in Connections \ {c} : link'[d] = link[d]
  BY DEF IInv, Typed
<1>3. NoLink.state = "none"
  BY DEF NoLink
<1>4. LinksAreVerified'
  BY <1>2, <1>3 DEF IInv, LinksAreVerified, Vouched, LeftBehind
<1>5. SessionIsVerified'
  BY DEF IInv, SessionIsVerified, Vouched
<1> QED
  BY <1>1, <1>4, <1>5

(***************************************************************************)
(* VerifyCache::verify(): a hit leaves everything as it is, a miss that    *)
(* OpenSSL accepts starts the time anew, and any other empties at most     *)
(* what had expired.                                                       *)
(***************************************************************************)
LEMMA VerifyKeeps ==
    ASSUME NEW c \in Connections, NEW certificate \in Certificates, NEW problems,
           IInv, Verify(link[c].entry, certificate, problems),
           IF Verified(link[c].entry, certificate, problems) /\ certificate # Cached
           THEN /\ accepted' = accepted \cup {certificate}
                /\ latest' = [certificate |-> certificate, age |-> 0]
           ELSE UNCHANGED <<accepted, latest>>
    PROVE  /\ cache' \in Certificates \cup {NoCertificate}
           /\ cacheLeft' \in -1..CacheSeconds
           /\ accepted' \subseteq Certificates /\ accepted \subseteq accepted'
           /\ latest' \in [certificate : Certificates \cup {NoCertificate}, age : 0..LongAgo]
           /\ CacheIsLatest'
           /\ Verified(link[c].entry, certificate, problems)
                => certificate \in accepted'
<1> USE VerificationAssumption
<1> DEFINE passed == ForwardVerify(link[c].entry, certificate, problems)
<1>1. CASE certificate # Cached /\ passed
  <2>1. /\ cache' = certificate /\ cacheLeft' = CacheSeconds
        /\ accepted' = accepted \cup {certificate}
        /\ latest' = [certificate |-> certificate, age |-> 0]
    BY <1>1 DEF Verify, Verified
  <2> QED
    BY <2>1 DEF IInv, Typed, CacheIsLatest, LongAgo
<1>2. CASE certificate = Cached \/ ~passed
  <2>1. /\ cache' = Cached /\ cacheLeft' = cacheLeft
        /\ accepted' = accepted /\ latest' = latest
    BY <1>2 DEF Verify, Verified
  <2>2. Cached \in Certificates \cup {NoCertificate}
    BY DEF Cached, IInv, Typed
  <2>3. Cached # NoCertificate => Cached = cache /\ cacheLeft >= 0 /\ cache \in accepted
    BY DEF Cached, IInv, Typed, CacheIsLatest
  <2>4. CacheIsLatest'
    BY <2>1, <2>3 DEF IInv, CacheIsLatest
  <2>5. Verified(link[c].entry, certificate, problems) => certificate \in accepted'
    BY <1>2, <2>1, <2>3 DEF Verified
  <2> QED
    BY <2>1, <2>2, <2>4, <2>5 DEF IInv, Typed
<1> QED
  BY <1>1, <1>2

\* A handshake, whatever the forwarder presents and whatever is wrong with it.
LEMMA HandshakeKeeps ==
    ASSUME NEW c \in Connections, NEW certificate \in Certificates,
           NEW problems \in SUBSET Problems, IInv,
           Handshake(c, certificate, problems)
    PROVE  IInv'
<1> DEFINE f == link[c].entry
           verified == Verified(f, certificate, problems)
<1>1. /\ Verify(f, certificate, problems)
      /\ IF verified /\ certificate # Cached
         THEN /\ accepted' = accepted \cup {certificate}
              /\ latest' = [certificate |-> certificate, age |-> 0]
         ELSE UNCHANGED <<accepted, latest>>
      /\ waived' = IF f.disablePki THEN waived \cup {session'} ELSE waived
  BY DEF Handshake
<1> HIDE DEF verified
<1>2. /\ cache' \in Certificates \cup {NoCertificate}
      /\ cacheLeft' \in -1..CacheSeconds
      /\ accepted' \subseteq Certificates /\ accepted \subseteq accepted'
      /\ latest' \in [certificate : Certificates \cup {NoCertificate}, age : 0..LongAgo]
      /\ CacheIsLatest'
      /\ verified => certificate \in accepted'
  BY <1>1, VerifyKeeps DEF verified
<1>3. link' \in [Connections -> Links] /\ session' \in Sessions \cup {NoSession}
      /\ LinksAreVerified' /\ SessionIsVerified' /\ waived' \subseteq Sessions
  <2>1. CASE f.disablePki \/ verified
    <3>1. Opened(c, certificate) /\ link[c].entry \in Entries
      BY <2>1 DEF Handshake, verified, IInv, Typed, Links, NoLink
    <3>2. waived \subseteq waived' /\ (certificate \in accepted' \/ session' \in waived')
      BY <1>1, <1>2, <2>1
    <3>3. /\ link' \in [Connections -> Links] /\ session' \in Sessions
          /\ LinksAreVerified' /\ SessionIsVerified'
      BY <3>1, <3>2, <1>2, OpenedKeeps
    <3> QED
      BY <1>1, <3>3 DEF IInv, Typed
  <2>2. CASE ~(f.disablePki \/ verified)
    <3>1. Refused(c) /\ waived' = waived
      BY <1>1, <2>2 DEF Handshake, verified
    <3> QED
      BY <3>1, <1>2, ClosedKeeps DEF Refused, IInv, Typed
  <2> QED
    BY <2>1, <2>2
<1> QED
  BY <1>2, <1>3 DEF IInv, Typed

(***************************************************************************)
(* A session that is taken up: the one that was offered was this server's, *)
(* and vouched for when it was made.                                       *)
(***************************************************************************)
LEMMA ResumeKeeps ==
    ASSUME NEW c \in Connections, IInv, Resume(c)
    PROVE  IInv'
<1> DEFINE certificate == link[c].offers.certificate
<1>1. /\ link[c].entry \in Entries /\ certificate \in Certificates
      /\ link[c].state = "connecting" /\ link[c].offers # NoSession
  BY DEF Resume, IInv, Typed, Links, NoLink, Sessions
<1>2. /\ Opened(c, certificate)
      /\ UNCHANGED <<cache, cacheLeft, accepted, waived, latest>>
  BY DEF Resume, cacheVars, history
<1>3. certificate \in accepted' \/ session' \in waived'
  <2>1. link[c].offers = [remote |-> link[c].entry.remote, certificate |-> certificate]
    <3>1. link[c].offers \in Sessions
      BY <1>1 DEF IInv, Typed, Links, NoLink
    <3> QED
      BY <3>1 DEF Sessions, Resume
  <2>2. session' = link[c].offers
    BY <1>2, <2>1 DEF Opened
  <2>3. Vouched(link[c].offers)
    BY <1>1 DEF IInv, LinksAreVerified
  <2> QED
    BY <1>2, <2>2, <2>3 DEF Vouched
<1>4. link' \in [Connections -> Links] /\ session' \in Sessions
      /\ LinksAreVerified' /\ SessionIsVerified'
  BY <1>1, <1>2, <1>3, OpenedKeeps
<1>5. CacheIsLatest'
  BY <1>2 DEF IInv, CacheIsLatest
<1> QED
  BY <1>2, <1>4, <1>5 DEF IInv, Typed

\* The end of a connection: it failed, or a response arrived.
LEMMA EndKeeps ==
    ASSUME NEW c \in Connections, IInv, link' = [link EXCEPT ![c] = NoLink],
           session' \in {session, NoSession}, UNCHANGED <<cacheVars, history>>
    PROVE  IInv'
<1>1. link' \in [Connections -> Links] /\ session' \in Sessions \cup {NoSession}
      /\ LinksAreVerified' /\ SessionIsVerified'
  BY ClosedKeeps DEF history
<1>2. CacheIsLatest'
  BY DEF IInv, CacheIsLatest, cacheVars, history
<1> QED
  BY <1>1, <1>2 DEF IInv, Typed, cacheVars, history

\* Both clocks move together while the cache is valid.
LEMMA TickKeeps ==
    ASSUME IInv, Tick
    PROVE  IInv'
<1> USE VerificationAssumption
<1> DEFINE age == latest.age
<1>1. /\ UNCHANGED <<cache, link, session, accepted, waived>>
      /\ cacheLeft' = (IF cacheLeft < 0 THEN cacheLeft ELSE cacheLeft - 1)
      /\ latest' = [latest EXCEPT !.age = IF age < LongAgo THEN age + 1 ELSE age]
  BY DEF Tick, SecondPasses
<1>2. age \in 0..LongAgo /\ cacheLeft \in -1..CacheSeconds /\ LongAgo = CacheSeconds + 1
  BY DEF IInv, Typed, LongAgo
<1>3. /\ latest'.certificate = latest.certificate
      /\ latest'.age = (IF age < LongAgo THEN age + 1 ELSE age)
      /\ latest' \in [certificate : Certificates \cup {NoCertificate}, age : 0..LongAgo]
  BY <1>1, <1>2 DEF IInv, Typed
<1>4. cacheLeft' \in -1..CacheSeconds
  BY <1>1, <1>2
<1>5. CacheIsLatest'
  BY <1>1, <1>2, <1>3 DEF IInv, CacheIsLatest
<1>6. LinksAreVerified' /\ SessionIsVerified'
  BY <1>1 DEF IInv, LinksAreVerified, SessionIsVerified, Vouched, LeftBehind
<1> QED
  BY <1>1, <1>3, <1>4, <1>5, <1>6 DEF IInv, Typed

-----------------------------------------------------------------------------

\* The inductive invariant holds in the beginning.
LEMMA InitHolds == Init => IInv
<1> SUFFICES ASSUME Init
             PROVE  IInv
  OBVIOUS
<1> USE VerificationAssumption DEF Init, CacheInit
<1>1. Typed
  BY DEF Typed, Links, LongAgo
<1>2. CacheIsLatest
  BY DEF CacheIsLatest
<1>3. LinksAreVerified
  BY DEF LinksAreVerified, NoLink
<1>4. SessionIsVerified
  BY DEF SessionIsVerified
<1> QED
  BY <1>1, <1>2, <1>3, <1>4 DEF IInv

\* Every step of every connection keeps it, and so does time.
LEMMA StepKeeps == IInv /\ [Next]_vars => IInv'
<1> SUFFICES ASSUME IInv, [Next]_vars
             PROVE  IInv'
  OBVIOUS
<1>1. CASE UNCHANGED vars
  BY <1>1 DEF vars, cacheVars, history, IInv, Typed, CacheIsLatest,
              LinksAreVerified, SessionIsVerified, Vouched, LeftBehind
<1>2. CASE Tick
  BY <1>2, TickKeeps
<1>3. ASSUME NEW c \in Connections, NEW f \in Entries, Construct(c, f)
      PROVE  IInv'
  BY <1>3, ConstructKeeps
<1>4. ASSUME NEW c \in Connections, NEW certificate \in Certificates,
             NEW problems \in SUBSET Problems, Handshake(c, certificate, problems)
      PROVE  IInv'
  BY <1>4, HandshakeKeeps
<1>5. ASSUME NEW c \in Connections, Resume(c)
      PROVE  IInv'
  BY <1>5, ResumeKeeps
<1>6. ASSUME NEW c \in Connections, Fail(c)
      PROVE  IInv'
  BY <1>6, EndKeeps DEF Fail, Refused
<1>7. ASSUME NEW c \in Connections, NEW message, NEW received,
             Incoming(c, message, received)
      PROVE  IInv'
  BY <1>7, EndKeeps DEF Incoming
<1> QED
  BY <1>1, <1>2, <1>3, <1>4, <1>5, <1>6, <1>7 DEF Next

(***************************************************************************)
(* What the cache, the session and the connections are, in every reachable *)
(* state.                                                                  *)
(***************************************************************************)
THEOREM Invariant == Spec => []IInv
  BY InitHolds, StepKeeps, PTL DEF Spec

\* The state of the connections and of what they share keeps its type.
THEOREM TypeCorrect == Spec => []TypeOK
<1>1. IInv => TypeOK
  BY DEF IInv, Typed, CacheIsLatest, Links, NoLink, Sessions, States, TypeOK
<1> QED
  BY <1>1, Invariant, PTL

(***************************************************************************)
(* VerifyCache: it stands in for OpenSSL only with the certificate that    *)
(* OpenSSL accepted last, and for CACHE_SECONDS.                           *)
(***************************************************************************)
THEOREM CacheStaysFresh == Spec => []CacheIsFresh
<1>1. IInv => CacheIsFresh
  BY VerificationAssumption
     DEF IInv, Typed, CacheIsLatest, CacheIsFresh, Cached, LongAgo
<1> QED
  BY <1>1, Invariant, PTL

(***************************************************************************)
(* SslConnection and Context: the cache and the sessions pass on only      *)
(* certificates that OpenSSL accepted, or that the same server presented   *)
(* where verification is disabled.                                         *)
(***************************************************************************)
THEOREM VerifiedOrWaived == Spec => []VerifiedUnlessWaived
<1>1. IInv => VerifiedUnlessWaived
  BY DEF IInv, LinksAreVerified, SessionIsVerified, Vouched, LeftBehind, VerifiedUnlessWaived
<1> QED
  BY <1>1, Invariant, PTL

-----------------------------------------------------------------------------
(* Host names and pins. *)

\* A set of numbers that has a bound has a greatest member.
LEMMA GreatestMember ==
    ASSUME NEW n \in Nat, NEW S \in SUBSET (0..n), S # {}
    PROVE  \E m \in S : \A k \in S : k <= m
<1> DEFINE T == {k..n : k \in S}
           R == StrictSubsetOrdering(Nat)
<1>1. IsWellFoundedOn(R, FiniteSubsetsOf(Nat))
  BY FS_StrictSubsetOrderingWellFounded
<1>2. T \subseteq FiniteSubsetsOf(Nat) /\ T # {}
  <2>1. ASSUME NEW k \in S PROVE k..n \in FiniteSubsetsOf(Nat)
    <3>1. IsFiniteSet(k..n) /\ k..n \subseteq Nat
      BY FS_Interval
    <3> QED
      BY <3>1 DEF FiniteSubsetsOf
  <2> QED
    BY <2>1
<1> HIDE DEF R
<1>3. PICK I \in T : \A J \in T : ~(<<J, I>> \in R)
  BY <1>1, <1>2, WFMin
<1>4. PICK m \in S : I = m..n
  BY <1>3
<1>5. ASSUME NEW k \in S PROVE k <= m
  <2>1. CASE m < k
    <3>1. k..n \subseteq m..n /\ m \in m..n /\ m \notin k..n
      BY <2>1
    <3>2. k..n \subseteq Nat /\ m..n \subseteq Nat
      OBVIOUS
    <3>3. <<k..n, m..n>> \in R
      BY <3>1, <3>2 DEF R, StrictSubsetOrdering
    <3> QED
      BY <1>3, <1>4, <3>3
  <2> QED
    BY <2>1
<1> QED
  BY <1>5

\* The last k labels of both agree.
AgreeOn(host, name, k) ==
    \A i \in 0..(k - 1) : MatchLabel(host[Len(host) - i], name[Len(name) - i])

(***************************************************************************)
(* What the code makes of names, pins and chains, exactly: two names match *)
(* as lower() sees them, and one that is not a wildcard may differ in its  *)
(* first character.                                                        *)
(***************************************************************************)
MatchName(a, b) ==
    Len(a) = Len(b) /\ \A i \in DOMAIN a : MatchLabel(a[i], b[i])

NearlyMatches(a, b) ==
    /\ Len(a) = Len(b) /\ a # <<>>
    /\ MatchRest(a[1], b[1]) /\ MatchName(Tail(a), Tail(b))

MatchWildcard(name, host) ==
    \E i \in DOMAIN name :
        /\ name[i] = Star
        /\ LET after == SubSeq(name, i + 1, Len(name))
               ends  == SubSeq(host, Len(host) - Len(after) + 1, Len(host))
           IN  Len(after) >= 2 /\ Len(host) > Len(after) /\ MatchName(after, ends)

Serves(certificate, f) ==
    \/ f.host = NoHost
    \/ \E name \in Names(certificate) :
            NearlyMatches(name, f.host) \/ MatchWildcard(name, f.host)

\* A right pin makes up for a wrong name; for a chain, only with a wrong name.
Rules(f, certificate, problems) ==
    \/ f.disablePki
    \/ f.pin = NoPin /\ Serves(certificate, f) /\ problems = {}
    \/ f.pin = certificate.key /\ problems = {}
    \/ /\ f.pin = certificate.key /\ problems \subseteq Allowed
       /\ f.host = NoHost \/ ~Serves(certificate, f)

(***************************************************************************)
(* The two iterators of checkHostname() stop behind as many labels as      *)
(* agree, and no others.                                                   *)
(***************************************************************************)
LEMMA MatchingCounts ==
    ASSUME NEW host, NEW name, Len(host) \in Nat, Len(name) \in Nat
    PROVE  /\ Matching(host, name) \in 0..Len(host)
           /\ Matching(host, name) \in 0..Len(name)
           /\ \A k \in Nat : k <= Len(host) /\ k <= Len(name) =>
                (AgreeOn(host, name, k) <=> k <= Matching(host, name))
<1> DEFINE both == IF Len(host) < Len(name) THEN Len(host) ELSE Len(name)
           Agree(k) == AgreeOn(host, name, k)
           S == {k \in 0..both : Agree(k)}
           m == Matching(host, name)
<1>1. both \in Nat
  OBVIOUS
<1>2. m = CHOOSE k \in 0..both : Agree(k) /\ (k < both => ~Agree(k + 1))
  BY DEF Matching, AgreeOn
<1>3. \A k, j \in Nat : j <= k /\ Agree(k) => Agree(j)
  BY DEF AgreeOn
<1>4. 0 \in S
  BY <1>1 DEF AgreeOn
<1> HIDE DEF both, Agree
<1>5. PICK g \in S : \A k \in S : k <= g
  BY <1>1, <1>4, GreatestMember
<1>6. g < both => ~Agree(g + 1)
  BY <1>1, <1>5
<1>7. m \in 0..both /\ Agree(m) /\ (m < both => ~Agree(m + 1))
  BY <1>2, <1>5, <1>6
<1>8. ASSUME NEW k \in Nat, k <= both PROVE Agree(k) <=> k <= m
  <2>1. CASE k <= m
    BY <1>3, <1>7, <2>1
  <2>2. CASE m < k
    <3>1. m < both /\ m + 1 <= k /\ m + 1 \in Nat
      BY <1>1, <1>7, <1>8, <2>2
    <3> QED
      BY <1>3, <1>7, <1>8, <2>2, <3>1
  <2> QED
    BY <1>1, <1>7, <2>1, <2>2
<1>9. both <= Len(host) /\ both <= Len(name)
      /\ \A k \in Nat : k <= Len(host) /\ k <= Len(name) => k <= both
  BY DEF both
<1> QED
  BY <1>1, <1>7, <1>8, <1>9 DEF Agree

\* The part of a name after position i.
LEMMA NamePart ==
    ASSUME NEW name, IsName(name), NEW i \in 1..(Len(name) + 1)
    PROVE  LET part == SubSeq(name, i, Len(name))
           IN  /\ Len(part) = Len(name) - i + 1
               /\ \A j \in 1..(Len(name) - i + 1) : part[j] = name[i + j - 1]
               /\ DOMAIN part = 1..(Len(name) - i + 1)
<1> DEFINE S == {name[j] : j \in 1..Len(name)}
           part == SubSeq(name, i, Len(name))
<1>1. Len(name) \in Nat
  BY DEF IsName
<1>2. \A j \in i..Len(name) : name[j] \in S
  BY <1>1
<1>3. /\ part \in Seq(S)
      /\ Len(part) = IF i <= Len(name) THEN Len(name) - i + 1 ELSE 0
      /\ \A j \in 1..(Len(name) - i + 1) : part[j] = name[i + j - 1]
  <2> HIDE DEF S
  <2> QED
    BY <1>1, <1>2, SubSeqProperties
<1>4. DOMAIN part = 1..Len(part)
  <2> HIDE DEF part, S
  <2> QED
    BY <1>3
<1> QED
  BY <1>1, <1>3, <1>4

\* The last k labels of a name.
LEMMA LastLabels ==
    ASSUME NEW name, IsName(name), NEW k \in Nat, k <= Len(name)
    PROVE  LET part == SubSeq(name, Len(name) - k + 1, Len(name))
           IN  /\ Len(part) = k
               /\ DOMAIN part = 1..k
               /\ \A j \in 1..k : part[j] = name[Len(name) - k + j]
<1> DEFINE n == Len(name)
           i == n - k + 1
<1>1. i \in 1..(n + 1) /\ n - i + 1 = k /\ \A j \in 1..k : i + j - 1 = n - k + j
  BY DEF IsName
<1> HIDE DEF i
<1>2. LET part == SubSeq(name, i, Len(name))
      IN  /\ Len(part) = n - i + 1
          /\ \A j \in 1..(n - i + 1) : part[j] = name[i + j - 1]
          /\ DOMAIN part = 1..(n - i + 1)
  BY <1>1, NamePart
<1> QED
  BY <1>1, <1>2 DEF i

\* The last k labels of a name and of a host, compared from the left.
LEMMA PartsAgree ==
    ASSUME NEW host, NEW name, IsName(host), IsName(name),
           NEW k \in Nat, k <= Len(host), k <= Len(name)
    PROVE  MatchName(SubSeq(name, Len(name) - k + 1, Len(name)),
                    SubSeq(host, Len(host) - k + 1, Len(host)))
             <=> AgreeOn(host, name, k)
<1> DEFINE n == Len(name)
           h == Len(host)
           a == SubSeq(name, n - k + 1, n)
           b == SubSeq(host, h - k + 1, h)
<1>1. n \in Nat /\ h \in Nat
  BY DEF IsName
<1>2. Len(a) = k /\ DOMAIN a = 1..k /\ \A j \in 1..k : a[j] = name[n - k + j]
  BY LastLabels
<1>3. Len(b) = k /\ \A j \in 1..k : b[j] = host[h - k + j]
  BY LastLabels
<1> HIDE DEF a, b
<1>4. MatchName(a, b) <=> \A j \in 1..k : MatchLabel(name[n - k + j], host[h - k + j])
  BY <1>2, <1>3 DEF MatchName
<1>5. \A j \in 1..k : MatchLabel(name[n - k + j], host[h - k + j])
                        <=> MatchLabel(host[h - (k - j)], name[n - (k - j)])
  <2>1. \A j \in 1..k : n - k + j = n - (k - j) /\ h - k + j = h - (k - j)
    BY <1>1
  <2> QED
    BY <2>1 DEF MatchLabel
<1>6. (\A j \in 1..k : MatchLabel(host[h - (k - j)], name[n - (k - j)]))
        <=> \A i \in 0..(k - 1) : MatchLabel(host[h - i], name[n - i])
  <2>1. ASSUME \A j \in 1..k : MatchLabel(host[h - (k - j)], name[n - (k - j)]),
               NEW i \in 0..(k - 1)
        PROVE  MatchLabel(host[h - i], name[n - i])
    <3>1. k - i \in 1..k /\ k - (k - i) = i
      OBVIOUS
    <3> QED
      BY <2>1, <3>1
  <2>2. ASSUME \A i \in 0..(k - 1) : MatchLabel(host[h - i], name[n - i]),
               NEW j \in 1..k
        PROVE  MatchLabel(host[h - (k - j)], name[n - (k - j)])
    <3>1. k - j \in 0..(k - 1)
      OBVIOUS
    <3> QED
      BY <2>2, <3>1
  <2> QED
    BY <2>1, <2>2
<1> QED
  BY <1>4, <1>5, <1>6 DEF AgreeOn, a, b

\* The labels of a name but the first.
LEMMA TailOfName ==
    ASSUME NEW name, IsName(name), Len(name) # 0
    PROVE  Tail(name) = SubSeq(name, 2, Len(name))
<1> DEFINE S == {name[j] : j \in 1..Len(name)}
<1>1. name \in Seq(S) /\ name # <<>>
  <2>1. Len(name) \in Nat /\ name = [i \in 1..Len(name) |-> name[i]]
    BY DEF IsName
  <2>2. name \in [1..Len(name) -> S]
    BY <2>1
  <2> QED
    BY <2>1, <2>2
<1> HIDE DEF S
<1> QED
  BY <1>1, TailIsSubSeq

\* Only what is a `*' agrees with one.
LEMMA StarAlone ==
    ASSUME NEW label, IsLabel(label), MatchLabel(label, Star)
    PROVE  label.first = "*"
<1>1. Lower(label).first = label.first
  BY DEF Lower, IsLabel
<1>2. Lower(Star).first = "*"
  BY DEF Lower, Star
<1> QED
  BY <1>1, <1>2 DEF MatchLabel

\* Whether the rests of two labels agree does not depend on which is first.
LEMMA RestsAgree ==
    ASSUME NEW a, NEW b, IsLabel(a), IsLabel(b)
    PROVE  MatchRest(a, b) <=> MatchRest(b, a)
<1> DEFINE Caps(l) == IF l.caps = "inner" THEN "none" ELSE l.caps
<1>1. ASSUME NEW l, NEW m, IsLabel(l), IsLabel(m)
      PROVE  MatchRest(l, m) <=> l.rest = m.rest /\ Caps(l) = Caps(m)
  <2>1. Lower(l) = [first |-> l.first, rest |-> l.rest, caps |-> Caps(l)]
    BY <1>1 DEF Lower, IsLabel
  <2>2. [m EXCEPT !.first = l.first] = [first |-> l.first, rest |-> m.rest, caps |-> m.caps]
    BY <1>1 DEF IsLabel
  <2>3. Lower([m EXCEPT !.first = l.first])
          = [first |-> l.first, rest |-> m.rest, caps |-> Caps(m)]
    BY <2>2 DEF Lower
  <2> HIDE DEF Caps
  <2> QED
    BY <2>1, <2>3 DEF MatchRest, MatchLabel
<1> QED
  BY <1>1

(***************************************************************************)
(* checkHostname() finds just the names that are the host's but for the    *)
(* first character, and the wildcards that stand for one label or more     *)
(* before two or more that are the host's, for names of any length.        *)
(***************************************************************************)
LEMMA CheckHostnameFinds ==
    ASSUME NEW host, NEW name, IsName(host), IsName(name),
           \A i \in 1..Len(host) : host[i].first # "*"
    PROVE  CheckHostname(host, name)
             <=> NearlyMatches(name, host) \/ MatchWildcard(name, host)
<1> DEFINE k == Matching(host, name)
           n == Len(name)
           h == Len(host)
<1>1. n \in Nat /\ h \in Nat /\ DOMAIN name = 1..n
  BY DEF IsName
<1>2. k \in 0..h /\ k \in 0..n
      /\ \A j \in Nat : j <= h /\ j <= n => (AgreeOn(host, name, j) <=> j <= k)
  BY <1>1, MatchingCounts
<1> HIDE DEF k
<1>3. name # <<>> <=> n # 0
  <2>1. name = <<>> => n = 0
    OBVIOUS
  <2>2. n = 0 => name = <<>>
    BY DEF IsName
  <2> QED
    BY <2>1, <2>2
<1>4. NearlyMatches(name, host)
        <=> h = n /\ name # <<>> /\ k >= n - 1 /\ MatchRest(host[1], name[1])
  <2>1. SUFFICES ASSUME h = n, n # 0
                 PROVE  MatchRest(name[1], host[1]) /\ MatchName(Tail(name), Tail(host))
                          <=> k >= n - 1 /\ MatchRest(host[1], name[1])
    BY <1>3 DEF NearlyMatches
  <2>2. IsLabel(name[1]) /\ IsLabel(host[1])
    <3>1. 1 \in 1..n
      BY <1>1, <2>1
    <3> QED
      BY <2>1, <3>1 DEF IsName
  <2>3. MatchRest(name[1], host[1]) <=> MatchRest(host[1], name[1])
    BY <2>2, RestsAgree
  <2>4. Tail(name) = SubSeq(name, 2, n) /\ Tail(host) = SubSeq(host, 2, h)
    BY <1>1, <2>1, TailOfName
  <2>5. MatchName(SubSeq(name, n - (n - 1) + 1, n), SubSeq(host, h - (n - 1) + 1, h))
          <=> AgreeOn(host, name, n - 1)
    <3>1. n - 1 \in Nat /\ n - 1 <= n /\ n - 1 <= h
      BY <1>1, <2>1
    <3> QED
      BY <3>1, PartsAgree
  <2>6. n - (n - 1) + 1 = 2 /\ h - (n - 1) + 1 = 2
    BY <1>1, <2>1
  <2>7. AgreeOn(host, name, n - 1) <=> n - 1 <= k
    BY <1>1, <1>2, <2>1
  <2>8. MatchName(Tail(name), Tail(host)) <=> k >= n - 1
    BY <1>1, <1>2, <2>4, <2>5, <2>6, <2>7
  <2> QED
    BY <2>3, <2>8
<1>5. MatchWildcard(name, host) <=> k < h /\ k < n /\ name[n - k] = Star /\ k >= 2
  <2>1. ASSUME NEW i \in 1..n
        PROVE  LET after == SubSeq(name, i + 1, n)
                   ends == SubSeq(host, h - Len(after) + 1, h)
               IN  Len(after) >= 2 /\ h > Len(after) /\ MatchName(after, ends)
                     <=> n - i >= 2 /\ h > n - i /\ n - i <= k
    <3> DEFINE after == SubSeq(name, i + 1, n)
    <3>1. Len(after) = n - i
      <4>1. i + 1 \in 1..(n + 1) /\ n - (i + 1) + 1 = n - i
        BY <1>1
      <4> QED
        BY <4>1, NamePart
    <3>2. ASSUME h > n - i
          PROVE  MatchName(after, SubSeq(host, h - (n - i) + 1, h)) <=> n - i <= k
      <4>1. n - i \in Nat /\ n - i <= n /\ n - i <= h /\ n - (n - i) + 1 = i + 1
        BY <1>1, <3>2
      <4>2. MatchName(SubSeq(name, n - (n - i) + 1, n), SubSeq(host, h - (n - i) + 1, h))
              <=> AgreeOn(host, name, n - i)
        BY <4>1, PartsAgree
      <4> QED
        BY <1>2, <4>1, <4>2
    <3> HIDE DEF after
    <3>3. Len(after) >= 2 /\ h > Len(after)
              /\ MatchName(after, SubSeq(host, h - Len(after) + 1, h))
            <=> n - i >= 2 /\ h > n - i /\ n - i <= k
      BY <3>1, <3>2
    <3> QED
      BY <3>3 DEF after
  <2>2. MatchWildcard(name, host)
          <=> \E i \in 1..n : name[i] = Star /\ n - i >= 2 /\ h > n - i /\ n - i <= k
    BY <1>1, <2>1 DEF MatchWildcard
  <2>3. ASSUME NEW i \in 1..n, name[i] = Star, h > n - i, n - i <= k PROVE n - i = k
    <3>1. CASE n - i < k
      <4> DEFINE j == n - i
      <4>1. j + 1 \in Nat /\ j + 1 <= k /\ j + 1 <= h /\ j + 1 <= n /\ j \in 0..((j + 1) - 1)
        BY <1>1, <1>2, <3>1
      <4>2. AgreeOn(host, name, j + 1)
        BY <1>2, <4>1
      <4>3. MatchLabel(host[h - j], name[n - j])
        BY <4>1, <4>2 DEF AgreeOn
      <4>4. n - j = i /\ h - j \in 1..h
        BY <1>1, <2>3
      <4>5. IsLabel(host[h - j])
        BY <4>4 DEF IsName
      <4> QED
        BY <2>3, <4>3, <4>4, <4>5, StarAlone
    <3>2. k \in Int /\ n - i \in Int
      BY <1>1, <1>2
    <3> QED
      BY <2>3, <3>1, <3>2
  <2>4. ASSUME k < h, k < n, name[n - k] = Star, k >= 2 PROVE MatchWildcard(name, host)
    <3>1. n - k \in 1..n /\ n - (n - k) = k
      BY <1>1, <1>2, <2>4
    <3> QED
      BY <1>1, <1>2, <2>2, <2>4, <3>1
  <2>5. ASSUME MatchWildcard(name, host)
        PROVE  k < h /\ k < n /\ name[n - k] = Star /\ k >= 2
    <3>1. PICK i \in 1..n : name[i] = Star /\ n - i >= 2 /\ h > n - i /\ n - i <= k
      BY <2>2, <2>5
    <3>2. n - i = k
      BY <2>3, <3>1
    <3>3. n - k = i /\ k < n
      BY <1>1, <3>2
    <3> QED
      BY <3>1, <3>2, <3>3
  <2> QED
    BY <2>4, <2>5
<1>6. CheckHostname(host, name)
        <=> \/ h = n /\ name # <<>> /\ k >= n - 1 /\ MatchRest(host[1], name[1])
            \/ k < h /\ k < n /\ name[n - k] = Star /\ k >= 2
  BY DEF CheckHostname, k
<1> QED
  BY <1>4, <1>5, <1>6

(***************************************************************************)
(* No forwarder is configured with a wildcard for its host name, nor with  *)
(* a name that has a `*' further on.                                       *)
(***************************************************************************)
PlainHosts == \A f \in Entries : \A i \in 1..Len(f.host) : f.host[i].first # "*"

(***************************************************************************)
(* A certificate passes isValid() when it is for the host in the sense of  *)
(* Serves, by its alternative names if it lists any, else by its common    *)
(* name.                                                                   *)
(***************************************************************************)
LEMMA ValidServes ==
    ASSUME PlainHosts, NEW f \in Entries, NEW certificate \in Certificates
    PROVE  Serves(certificate, f) <=> f.host = NoHost \/ VerifyHostname(f, certificate)
<1>1. IsName(f.host) /\ \A i \in 1..Len(f.host) : f.host[i].first # "*"
  BY NamesAssumption DEF PlainHosts
<1>2. IsName(certificate.common) /\ \A name \in certificate.alternative : IsName(name)
  BY NamesAssumption
<1>3. \A name \in Names(certificate) :
        CheckHostname(f.host, name)
          <=> NearlyMatches(name, f.host) \/ MatchWildcard(name, f.host)
  <2>1. \A name \in Names(certificate) : IsName(name)
    BY <1>2 DEF Names
  <2> QED
    BY <1>1, <2>1, CheckHostnameFinds
<1>4. IsValid(certificate, f.host)
        <=> f.host = NoHost \/ \E name \in Names(certificate) : CheckHostname(f.host, name)
  BY DEF IsValid, Names
<1> QED
  BY <1>3, <1>4 DEF Serves, VerifyHostname

(***************************************************************************)
(* X509_verify_cert() with DoTe's callback and verifier accepts just what  *)
(* the rules say: a pin makes up for some problems, a host name for none.  *)
(***************************************************************************)
LEMMA VerifiedByRules ==
    ASSUME PlainHosts, NEW f \in Entries, NEW certificate \in Certificates,
           NEW problems \in SUBSET Problems, ~f.disablePki
    PROVE  ForwardVerify(f, certificate, problems) <=> Rules(f, certificate, problems)
<1> DEFINE verdict == ConnectionVerify(f, certificate)
           named == VerifyHostname(f, certificate)
           pinned == f.pin = certificate.key
<1>1. certificate.key # NoPin
  BY NamesAssumption
<1>2. VerifyHash(f, certificate) <=> pinned
  BY <1>1 DEF VerifyHash
<1>3. /\ VerifyTrampoline(f, certificate, {}) <=> verdict # 0
      /\ \A problem \in problems : VerifyTrampoline(f, certificate, {problem})
            <=> problem \in Allowed /\ verdict = 2
  <2> HIDE DEF verdict
  <2> QED
    BY DEF VerifyTrampoline, verdict
<1>4. ForwardVerify(f, certificate, problems)
        <=> verdict # 0 /\ \A problem \in problems : problem \in Allowed /\ verdict = 2
  <2> HIDE DEF verdict
  <2> QED
    BY <1>3 DEF ForwardVerify
<1>5. verdict \in {0, 1, 2}
      /\ (verdict = 2 <=> pinned /\ ~named)
      /\ (verdict = 1 <=> IF f.pin = NoPin THEN f.host = NoHost \/ named
                                           ELSE pinned /\ named)
  <2>1. CASE f.host # NoHost \/ f.pin # NoPin
    <3>1. verdict = SpkiVerify(f, certificate)
      BY <2>1 DEF ConnectionVerify
    <3>2. verdict = CASE named /\ (pinned \/ f.pin = NoPin) -> 1
                      [] ~named /\ pinned -> 2
                      [] OTHER -> 0
      BY <1>2, <3>1 DEF SpkiVerify
    <3>3. f.pin = NoPin => ~pinned
      BY <1>1
    <3> HIDE DEF verdict, named, pinned
    <3>4. CASE named /\ (pinned \/ f.pin = NoPin)
      BY <2>1, <3>2, <3>3, <3>4
    <3>5. CASE ~named /\ pinned
      BY <2>1, <3>2, <3>3, <3>5
    <3>6. CASE ~(named /\ (pinned \/ f.pin = NoPin)) /\ ~(~named /\ pinned)
      BY <2>1, <3>2, <3>3, <3>6
    <3> QED
      BY <3>4, <3>5, <3>6
  <2>2. CASE f.host = NoHost /\ f.pin = NoPin
    BY <1>1, <2>2 DEF ConnectionVerify, VerifyHostname
  <2> QED
    BY <2>1, <2>2
<1>6. named => f.host # NoHost
  BY DEF VerifyHostname
<1>7. Rules(f, certificate, problems)
        <=> \/ f.pin = NoPin /\ (f.host = NoHost \/ named) /\ problems = {}
            \/ pinned /\ problems = {}
            \/ pinned /\ problems \subseteq Allowed /\ ~named
  BY <1>6, ValidServes DEF Rules
<1> HIDE DEF verdict, named, pinned
<1>8. CASE problems = {}
  <2>1. f.pin = NoPin => ~pinned
    BY <1>1 DEF pinned
  <2> QED
    BY <1>4, <1>5, <1>7, <1>8, <2>1
<1>9. CASE problems # {}
  BY <1>4, <1>5, <1>7, <1>9
<1> QED
  BY <1>8, <1>9

(***************************************************************************)
(* A handshake with a certificate that the cache does not know opens the   *)
(* connection just when the rules accept the certificate, whatever names   *)
(* it has and whatever is wrong with its chain.                            *)
(***************************************************************************)
LEMMA HandshakeByRules ==
    ASSUME PlainHosts, IInv, NEW c \in Connections, NEW certificate \in Certificates,
           NEW problems \in SUBSET Problems,
           Handshake(c, certificate, problems), certificate # Cached
    PROVE  link'[c].state = "open" <=> Rules(link[c].entry, certificate, problems)
<1> DEFINE f == link[c].entry
           accepts == f.disablePki \/ Verified(f, certificate, problems)
<1>1. link \in [Connections -> Links] /\ link[c].state = "connecting"
  BY DEF Handshake, IInv, Typed
<1>2. f \in Entries
  BY <1>1 DEF Links, NoLink
<1>3. IF accepts THEN Opened(c, certificate) ELSE Refused(c)
  BY DEF Handshake
<1>4. link'[c].state = "open" <=> accepts
  <2> HIDE DEF accepts
  <2> QED
    BY <1>1, <1>3 DEF Opened, Refused, NoLink
<1>5. accepts <=> Rules(f, certificate, problems)
  <2>1. CASE f.disablePki
    BY <2>1 DEF Rules
  <2>2. CASE ~f.disablePki
    BY <1>2, <2>2, VerifiedByRules DEF Verified
  <2> QED
    BY <2>1, <2>2
<1> QED
  BY <1>4, <1>5

\* How lower() compares two labels, and how they ought to be compared.
LEMMA LabelsCompare ==
    ASSUME NEW a, NEW b, IsLabel(a), IsLabel(b)
    PROVE  /\ MatchLabel(a, b) => a.first = b.first /\ a.rest = b.rest
           /\ MatchRest(a, b) => a.rest = b.rest
           /\ /\ SameLetter(a.first, b.first) /\ a.rest = b.rest
              /\ a.first \notin {"A", "Z"} /\ b.first \notin {"A", "Z"}
              /\ a.caps \in {"none", "inner"} /\ b.caps \in {"none", "inner"}
              => MatchLabel(a, b)
<1> DEFINE Caps(l) == IF l.caps = "inner" THEN "none" ELSE l.caps
<1>1. ASSUME NEW l, IsLabel(l)
      PROVE  Lower(l) = [first |-> l.first, rest |-> l.rest, caps |-> Caps(l)]
  BY <1>1 DEF Lower, IsLabel
<1>2. IsLabel([b EXCEPT !.first = a.first]) /\ [b EXCEPT !.first = a.first].rest = b.rest
  BY DEF IsLabel
<1>3. MatchLabel(a, b) => a.first = b.first /\ a.rest = b.rest
  <2> HIDE DEF Caps
  <2> QED
    BY <1>1 DEF MatchLabel
<1>4. MatchRest(a, b) => a.rest = b.rest
  <2> DEFINE c == [b EXCEPT !.first = a.first]
  <2>1. IsLabel(c) /\ c.rest = b.rest
    BY <1>2
  <2> HIDE DEF Caps, c
  <2>2. /\ Lower(a) = [first |-> a.first, rest |-> a.rest, caps |-> Caps(a)]
        /\ Lower(c) = [first |-> c.first, rest |-> c.rest, caps |-> Caps(c)]
    BY <1>1, <2>1
  <2>3. MatchLabel(a, c) => a.rest = c.rest
    BY <2>2 DEF MatchLabel
  <2> QED
    BY <2>1, <2>3 DEF MatchRest, c
<1>5. ASSUME SameLetter(a.first, b.first), a.rest = b.rest,
             a.first \notin {"A", "Z"}, b.first \notin {"A", "Z"},
             a.caps \in {"none", "inner"}, b.caps \in {"none", "inner"}
      PROVE  MatchLabel(a, b)
  <2>1. a.first = b.first
    BY <1>5 DEF SameLetter
  <2>2. Caps(a) = "none" /\ Caps(b) = "none"
    BY <1>5
  <2> HIDE DEF Caps
  <2> QED
    BY <1>1, <1>5, <2>1, <2>2 DEF MatchLabel
<1> QED
  BY <1>3, <1>4, <1>5

\* The same of sequences of labels.
LEMMA NamesCompare ==
    ASSUME NEW a, NEW b, \A i \in DOMAIN a : IsLabel(a[i]) /\ IsLabel(b[i])
    PROVE  /\ MatchName(a, b) => SameName(a, b)
           /\ /\ SameName(a, b)
              /\ \A i \in DOMAIN a :
                    /\ a[i].first \notin {"A", "Z"} /\ b[i].first \notin {"A", "Z"}
                    /\ a[i].caps \in {"none", "inner"} /\ b[i].caps \in {"none", "inner"}
              => MatchName(a, b)
  BY LabelsCompare DEF MatchName, SameName, SameLetter

\* The labels of a name after position i, and as many of a host.
After(name, i) == SubSeq(name, i + 1, Len(name))
Ends(name, host, i) == SubSeq(host, Len(host) - Len(After(name, i)) + 1, Len(host))

\* They are labels of the name and of the host.
LEMMA EndsOfNames ==
    ASSUME NEW name, NEW host, IsName(name), IsName(host), NEW i \in 1..Len(name),
           Len(host) > Len(After(name, i))
    PROVE  \A j \in DOMAIN After(name, i) :
                /\ \E k \in 1..Len(name) : After(name, i)[j] = name[k]
                /\ \E k \in 1..Len(host) : Ends(name, host, i)[j] = host[k]
<1> DEFINE n == Len(name)
           h == Len(host)
           k == n - i
           after == After(name, i)
           ends == Ends(name, host, i)
<1>1. n \in Nat /\ h \in Nat /\ k \in Nat /\ k <= n /\ n - k + 1 = i + 1
  BY DEF IsName
<1> HIDE DEF k
<1>2. Len(after) = k /\ DOMAIN after = 1..k /\ \A j \in 1..k : after[j] = name[n - k + j]
  <2>1. LET part == SubSeq(name, n - k + 1, n)
        IN  /\ Len(part) = k
            /\ DOMAIN part = 1..k
            /\ \A j \in 1..k : part[j] = name[n - k + j]
    BY <1>1, LastLabels
  <2> QED
    BY <1>1, <2>1 DEF After
<1> HIDE DEF after
<1>3. k <= h
  BY <1>1, <1>2 DEF after
<1>4. ends = SubSeq(host, h - k + 1, h)
  BY <1>2 DEF Ends, after
<1> HIDE DEF ends
<1>5. \A j \in 1..k : ends[j] = host[h - k + j]
  BY <1>1, <1>3, <1>4, LastLabels
<1>6. \A j \in 1..k : n - k + j \in 1..n /\ h - k + j \in 1..h
  BY <1>1, <1>3
<1> QED
  BY <1>2, <1>5, <1>6 DEF after, ends

\* Wildcards, as they are compared and as they ought to be.
LEMMA WildcardsCompare ==
    ASSUME NEW name, NEW host, IsName(name), IsName(host)
    PROVE  /\ MatchWildcard(name, host) => ByWildcard(name, host)
           /\ ByWildcard(name, host) /\ Legible(name) /\ Legible(host)
                => MatchWildcard(name, host)
<1>1. DOMAIN name = 1..Len(name) /\ DOMAIN host = 1..Len(host)
  BY DEF IsName
<1>2. ASSUME NEW i \in 1..Len(name), Len(host) > Len(After(name, i))
      PROVE  /\ MatchName(After(name, i), Ends(name, host, i))
                    => SameName(After(name, i), Ends(name, host, i))
             /\ /\ SameName(After(name, i), Ends(name, host, i))
                /\ Legible(name) /\ Legible(host)
                => MatchName(After(name, i), Ends(name, host, i))
  <2> DEFINE after == After(name, i)
             ends == Ends(name, host, i)
  <2>1. \A j \in DOMAIN after : /\ \E k \in 1..Len(name) : after[j] = name[k]
                               /\ \E k \in 1..Len(host) : ends[j] = host[k]
    BY <1>2, EndsOfNames
  <2> HIDE DEF after, ends
  <2>2. \A j \in DOMAIN after : IsLabel(after[j]) /\ IsLabel(ends[j])
    BY <2>1 DEF IsName
  <2>3. Legible(name) /\ Legible(host) =>
            \A j \in DOMAIN after :
                /\ after[j].first \notin {"A", "Z"} /\ ends[j].first \notin {"A", "Z"}
                /\ after[j].caps \in {"none", "inner"} /\ ends[j].caps \in {"none", "inner"}
    BY <1>1, <2>1 DEF Legible
  <2>4. /\ MatchName(after, ends) => SameName(after, ends)
        /\ SameName(after, ends) /\ Legible(name) /\ Legible(host) => MatchName(after, ends)
    BY <2>2, <2>3, NamesCompare
  <2> QED
    BY <2>4 DEF after, ends
<1>3. /\ MatchWildcard(name, host) <=>
            \E i \in 1..Len(name) :
                /\ name[i] = Star /\ Len(After(name, i)) >= 2
                /\ Len(host) > Len(After(name, i))
                /\ MatchName(After(name, i), Ends(name, host, i))
      /\ ByWildcard(name, host) <=>
            \E i \in 1..Len(name) :
                /\ name[i] = Star /\ Len(After(name, i)) >= 2
                /\ Len(host) > Len(After(name, i))
                /\ SameName(After(name, i), Ends(name, host, i))
  BY <1>1 DEF MatchWildcard, ByWildcard, After, Ends
<1> QED
  BY <1>2, <1>3

(***************************************************************************)
(* A name that the code finds to be the host's is of its domain, and one   *)
(* that ought to be found, is, unless letters are capital A or Z.          *)
(***************************************************************************)
LEMMA HostsCompare ==
    ASSUME NEW name, NEW host, IsName(name), IsName(host)
    PROVE  /\ NearlyMatches(name, host) => InDomain(name, host)
           /\ /\ SameName(name, host) /\ name # <<>>
              /\ Legible(name) /\ Legible(host)
              => NearlyMatches(name, host)
<1>1. DOMAIN name = 1..Len(name) /\ DOMAIN host = 1..Len(host) /\ Len(host) \in Nat
      /\ Len(name) \in Nat
  BY DEF IsName
<1> SUFFICES ASSUME Len(name) = Len(host), name # <<>>
             PROVE  /\ MatchName(Tail(name), Tail(host)) => SameName(Tail(name), Tail(host))
                    /\ SameName(name, host) /\ Legible(name) /\ Legible(host)
                         => NearlyMatches(name, host)
  BY DEF NearlyMatches, InDomain, SameName
<1> DEFINE n == Len(name)
           a == Tail(name)
           b == Tail(host)
<1>2. n # 0 /\ 1 \in 1..n
  <2>1. n = 0 => name = <<>>
    BY DEF IsName
  <2> QED
    BY <1>1, <2>1
<1>3. a = SubSeq(name, 2, n) /\ b = SubSeq(host, 2, n)
  BY <1>1, <1>2, TailOfName
<1>4. /\ Len(a) = n - 1 /\ Len(b) = n - 1 /\ DOMAIN a = 1..(n - 1)
      /\ \A j \in 1..(n - 1) : a[j] = name[j + 1] /\ b[j] = host[j + 1]
  <2>1. 2 \in 1..(n + 1) /\ n - 2 + 1 = n - 1 /\ \A j \in 1..(n - 1) : 2 + j - 1 = j + 1
    BY <1>1, <1>2
  <2> QED
    BY <1>3, <2>1, NamePart
<1> HIDE DEF a, b
<1>5. \A j \in 1..(n - 1) : j + 1 \in 1..n
  BY <1>1
<1>6. \A j \in DOMAIN a : IsLabel(a[j]) /\ IsLabel(b[j])
  BY <1>4, <1>5 DEF IsName
<1>7. MatchName(a, b) => SameName(a, b)
  BY <1>6, NamesCompare
<1>8. ASSUME SameName(name, host), Legible(name), Legible(host)
      PROVE  NearlyMatches(name, host)
  <2>1. \A i \in DOMAIN name : IsLabel(name[i]) /\ IsLabel(host[i])
    BY <1>1 DEF IsName
  <2>2. MatchName(name, host)
    BY <1>1, <1>8, <2>1, NamesCompare DEF Legible
  <2>3. \A i \in 1..n : MatchLabel(name[i], host[i])
    BY <1>1, <2>2 DEF MatchName
  <2>4. MatchName(a, b)
    BY <1>4, <1>5, <2>3 DEF MatchName
  <2>5. MatchRest(name[1], host[1])
    <3>1. IsLabel(name[1]) /\ IsLabel(host[1]) /\ MatchLabel(name[1], host[1])
      BY <1>1, <1>2, <2>1, <2>3
    <3>2. name[1].first = host[1].first
      BY <3>1, LabelsCompare
    <3>3. [host[1] EXCEPT !.first = name[1].first] = host[1]
      BY <3>1, <3>2 DEF IsLabel
    <3> QED
      BY <3>1, <3>3 DEF MatchRest
  <2> QED
    BY <2>4, <2>5 DEF NearlyMatches, a, b
<1> QED
  BY <1>7, <1>8 DEF a, b

(***************************************************************************)
(* The rules of the code lie between what must be accepted and what may be *)
(* tolerated.                                                              *)
(***************************************************************************)
LEMMA RulesBetween ==
    ASSUME NEW f \in Entries, NEW certificate \in Certificates,
           NEW problems \in SUBSET Problems
    PROVE  /\ /\ problems = {} /\ Documented(f, certificate, problems)
              /\ LegibleNames(f, certificate)
              => Rules(f, certificate, problems)
           /\ Rules(f, certificate, problems) => Tolerable(f, certificate, problems)
<1>1. certificate.key # NoPin /\ IsName(f.host)
      /\ \A name \in Names(certificate) : IsName(name)
  BY NamesAssumption DEF Names
<1>2. ASSUME f.host # NoHost, NEW name \in Names(certificate)
      PROVE  /\ NearlyMatches(name, f.host) => InDomain(name, f.host)
             /\ MatchWildcard(name, f.host) => ByWildcard(name, f.host)
             /\ /\ SameName(name, f.host) \/ ByWildcard(name, f.host)
                /\ Legible(name) /\ Legible(f.host)
                => NearlyMatches(name, f.host) \/ MatchWildcard(name, f.host)
  <2>1. IsName(name)
    BY <1>1
  <2>2. name = <<>> => ~SameName(name, f.host)
    <3>1. Len(f.host) # 0
      BY <1>1, <1>2 DEF IsName, NoHost
    <3> QED
      BY <3>1 DEF SameName
  <2> QED
    BY <1>1, <2>1, <2>2, HostsCompare, WildcardsCompare
<1>3. Serves(certificate, f) =>
        \/ f.host = NoHost
        \/ \E name \in Names(certificate) :
                InDomain(name, f.host) \/ ByWildcard(name, f.host)
  BY <1>2 DEF Serves
<1>4. (f.host = NoHost \/ IsFor(certificate, f.host)) /\ LegibleNames(f, certificate)
        => Serves(certificate, f)
  BY <1>2 DEF Serves, IsFor, LegibleNames
<1>5. problems = {} /\ Documented(f, certificate, problems) /\ LegibleNames(f, certificate)
        => Rules(f, certificate, problems)
  BY <1>4 DEF Documented, Rules
<1>6. Rules(f, certificate, problems) => Tolerable(f, certificate, problems)
  BY <1>1, <1>3 DEF Rules, Tolerable, ChainIsGood
<1> QED
  BY <1>5, <1>6

(***************************************************************************)
(* What SslConnection, SpkiVerifier, HostnameVerifier and the callback of  *)
(* Context make of a certificate together: nothing that is in order is     *)
(* refused, and neither a wrong pin, nor a bad chain without a pin, nor    *)
(* another domain without a pin is accepted, where no host name has a `*'. *)
(***************************************************************************)
THEOREM RulesDecide ==
    ASSUME PlainHosts
    PROVE  Spec => AcceptedByRules
<1>1. IInv => JudgedByRules
  <2> SUFFICES ASSUME IInv, NEW c \in Connections, link[c].state = "connecting",
                      NEW certificate \in Presents[link[c].entry.remote],
                      NEW problems \in SUBSET Problems,
                      Fresh(c, certificate, problems)
               PROVE  /\ /\ problems = {}
                         /\ Documented(link[c].entry, certificate, problems)
                         /\ LegibleNames(link[c].entry, certificate)
                         => link'[c].state = "open"
                      /\ link'[c].state = "open"
                         => Tolerable(link[c].entry, certificate, problems)
    BY DEF JudgedByRules
  <2>1. link[c].entry \in Entries
    BY DEF IInv, Typed, Links, NoLink
  <2>2. certificate \in Certificates
    BY <2>1, UpstreamAssumption DEF Remotes
  <2>3. link'[c].state = "open" <=> Rules(link[c].entry, certificate, problems)
    BY <2>2, HandshakeByRules DEF Fresh
  <2> QED
    BY <2>1, <2>2, <2>3, RulesBetween
<1> QED
  BY <1>1, Invariant, PTL DEF AcceptedByRules

-----------------------------------------------------------------------------
(* Responses. *)

\* Two bytes hold the length of a response.
LEMMA ShortRead ==
    ASSUME NEW n \in Nat, n < 65536
    PROVE  /\ ShortBytes(n) \in Seq(Nat) /\ Len(ShortBytes(n)) = 2
           /\ ShortBytes(n)[1] * 256 + ShortBytes(n)[2] = n
<1> DEFINE high == (n \div 256) % 256
           low == n % 256
<1>1. high \in Nat /\ low \in Nat
  OBVIOUS
<1>2. high * 256 + low = n
  OBVIOUS
<1>3. ShortBytes(n) = <<high, low>>
  BY DEF ShortBytes
<1> HIDE DEF high, low
<1> QED
  BY <1>1, <1>2, <1>3

\* A response is its length and its body.
LEMMA WireFacts ==
    ASSUME NEW message \in Messages
    PROVE  /\ Wire[message] \in Seq(Nat)
           /\ HeaderSize <= Len(Wire[message])
           /\ Short(Wire[message], 1) = Len(Wire[message]) - 2
<1> DEFINE body == Body(message)
           head == ShortBytes(Len(body))
<1>1. body \in Seq(Nat) /\ 12 <= Len(body) /\ Len(body) < 65536
  BY MessagesAssumption
<1>2. Wire[message] = head \o body
  BY DEF Wire, Encode
<1>3. head \in Seq(Nat) /\ Len(head) = 2 /\ head[1] * 256 + head[2] = Len(body)
  <2>1. Len(body) \in Nat
    BY <1>1
  <2> HIDE DEF body
  <2> QED
    BY <1>1, <2>1, ShortRead
<1> HIDE DEF body, head
<1>4. /\ head \o body \in Seq(Nat)
      /\ Len(head \o body) = Len(head) + Len(body)
      /\ (head \o body)[1] = head[1] /\ (head \o body)[2] = head[2]
  <2>1. /\ head \o body \in Seq(Nat)
        /\ Len(head \o body) = Len(head) + Len(body)
        /\ \A i \in 1..(Len(head) + Len(body)) :
              (head \o body)[i] = IF i <= Len(head) THEN head[i] ELSE body[i - Len(head)]
    <3>1. body \in Seq(Nat) /\ head \in Seq(Nat)
      BY <1>1, <1>3
    <3> QED
      BY <3>1, ConcatProperties
  <2>2. Len(body) \in Nat
    BY <1>1
  <2>3. 1 \in 1..(Len(head) + Len(body)) /\ 2 \in 1..(Len(head) + Len(body))
        /\ 1 <= Len(head) /\ 2 <= Len(head)
    BY <1>3, <2>2
  <2> QED
    BY <2>1, <2>3
<1> DEFINE wire == head \o body
<1>5. Short(wire, 1) = head[1] * 256 + head[2]
  <2>1. Short(wire, 1) = wire[1] * 256 + wire[1 + 1]
    BY DEF Short
  <2>2. 1 + 1 = 2 /\ wire[1] = head[1] /\ wire[2] = head[2]
    BY <1>4
  <2> HIDE DEF wire
  <2> QED
    BY <2>1, <2>2
<1>6. Len(body) \in Nat /\ HeaderSize = 14
  <2>1. body \in Seq(Nat)
    BY <1>1
  <2> QED
    BY <2>1 DEF HeaderSize
<1>7. HeaderSize <= Len(head \o body) /\ Short(head \o body, 1) = Len(head \o body) - 2
  BY <1>1, <1>3, <1>4, <1>5, <1>6
<1> QED
  BY <1>2, <1>4, <1>7

(***************************************************************************)
(* DnsPacket: the first two bytes of a response give away that it is not   *)
(* all there, however little or much of it is.                             *)
(***************************************************************************)
LEMMA PartIsInvalid ==
    ASSUME NEW message \in Messages, NEW length \in Nat, length <= Len(Wire[message]),
           Valid(SubSeq(Wire[message], 1, length))
    PROVE  SubSeq(Wire[message], 1, length) = Wire[message]
<1> DEFINE bytes == Wire[message]
           part == SubSeq(bytes, 1, length)
<1>1. bytes \in Seq(Nat) /\ Short(bytes, 1) = Len(bytes) - 2
  BY WireFacts
<1> HIDE DEF bytes
<1>2. Len(part) = length /\ \A i \in 1..length : part[i] = bytes[i]
  <2>1. \A i \in 1..length : bytes[i] \in Nat
    BY <1>1 DEF bytes
  <2>2. /\ Len(part) = IF 1 <= length THEN length - 1 + 1 ELSE 0
        /\ \A i \in 1..(length - 1 + 1) : part[i] = bytes[1 + i - 1]
    BY <2>1, SubSeqProperties
  <2> HIDE DEF part
  <2> QED
    BY <2>2
<1>3. Len(part) >= HeaderSize /\ Short(part, 1) = Len(part) - 2
  BY DEF Valid, bytes
<1> HIDE DEF part
<1>4. 1 \in 1..length /\ 2 \in 1..length
  BY <1>2, <1>3 DEF HeaderSize
<1>5. length = Len(bytes)
  BY <1>1, <1>2, <1>3, <1>4 DEF Short
<1> QED
  BY <1>1, <1>5, SubSeqFull DEF part, bytes

(***************************************************************************)
(* ClientForwarders::handleIncoming() passes on no part of a response,     *)
(* although incoming() takes for the response what one read() has given.   *)
(***************************************************************************)
THEOREM NothingPartial == Spec => []NoPartialReply
<1>1. Init => NoPartialReply
  BY DEF Init, None, NoPartialReply
<1>2. NoPartialReply /\ [Next]_vars => NoPartialReply'
  <2> SUFFICES ASSUME NoPartialReply, [Next]_vars
               PROVE  NoPartialReply'
    OBVIOUS
  <2> DEFINE Lengths(message) ==
                {HeaderSize, Len(Wire[message]) - 1, Len(Wire[message])}
             Received(c, message, length) ==
                Incoming(c, message, SubSeq(Wire[message], 1, length))
  <2>1. CASE answered' = None
    BY <2>1 DEF None, NoPartialReply
  <2>2. CASE answered' = answered
    BY <2>2 DEF NoPartialReply
  <2>3. ASSUME NEW c \in Connections, NEW message \in Messages,
               NEW length \in Lengths(message), Received(c, message, length)
        PROVE  NoPartialReply'
    <3> DEFINE received == SubSeq(Wire[message], 1, length)
    <3>1. answered' = [is |-> TRUE, message |-> message, received |-> received,
                       reply |-> Reply(received)]
      BY <2>3 DEF Incoming
    <3>2. length \in Nat /\ length <= Len(Wire[message])
      BY WireFacts DEF HeaderSize
    <3>3. received # Wire[message] => ~Valid(received)
      BY <3>2, PartIsInvalid
    <3> HIDE DEF received
    <3> QED
      BY <3>1, <3>3 DEF NoPartialReply, Reply
  <2>4. \/ answered' = None \/ answered' = answered
        \/ \E c \in Connections, message \in Messages :
              \E length \in Lengths(message) : Received(c, message, length)
    BY DEF Next, Construct, Handshake, Resume, Fail, Tick, vars
  <2> HIDE DEF Lengths, Received
  <2> QED
    BY <2>1, <2>2, <2>3, <2>4
<1> QED
  BY <1>1, <1>2, PTL DEF Spec

-----------------------------------------------------------------------------

(* Loops *)

\* Induction on the natural numbers, for a set.
LEMMA Induction ==
    ASSUME NEW S, 0 \in S, \A n \in Nat : n \in S => n + 1 \in S
    PROVE  Nat \subseteq S
<1>. DEFINE T == Nat \ S
            R == OpToRel(<, Nat)
<1>. SUFFICES ASSUME T # {}
              PROVE  FALSE
  OBVIOUS
<1>1. PICK n \in T : \A m \in T : <<m, n>> \notin R
  <2>. HIDE DEF T
  <2>1. T \subseteq Nat
    BY DEF T
  <2>2. IsWellFoundedOn(R, Nat)
    BY NatLessThanWellFounded
  <2>. HIDE DEF R
  <2>. QED  BY <2>1, <2>2, WFMin
<1>2. n \in Nat /\ n # 0 /\ n - 1 \in Nat /\ (n - 1) + 1 = n
  OBVIOUS
<1>3. n - 1 \in T
  BY <1>2
<1>4. <<n - 1, n>> \in R
  BY <1>2 DEF OpToRel
<1>. QED  BY <1>1, <1>3, <1>4

\* The greatest of the positions up to n + 1.
LEMMA MaxOf ==
    ASSUME NEW n \in Nat, NEW s \in SUBSET (1..(n + 1)), n + 1 \in s
    PROVE  Max(s) = n + 1
<1>1. n + 1 \in s /\ \A y \in s : n + 1 >= y
  OBVIOUS
<1>2. \A x \in s : (\A y \in s : x >= y) => x = n + 1
  OBVIOUS
<1>. QED  BY <1>1, <1>2 DEF Max

\* One pass of a loop: of skipQueries(), skipResponses(), removePaddingOption()
\* or WithoutPadding.
Pass(loop, bytes, x, y) ==
    CASE loop = "queries"   -> IF x = End(bytes) THEN x ELSE SkipQuery(bytes, x)
      [] loop = "responses" -> IF x = End(bytes) THEN x ELSE SkipResponse(bytes, x)
      [] loop = "options"   -> OptionStep(x)
      [] OTHER              -> IF IsPadding(y) THEN x ELSE Append(x, y)

\* The function FoldLeft chooses, of the positions that are done.
Folds(loop, bytes, start, line, S, g) ==
    g = [s \in SUBSET S |->
            IF s = {} THEN start
            ELSE Pass(loop, bytes, g[s \ {Max(s)}], line[Max(s)])]

\* The values of a loop, from its first to that after n passes.
Runs(loop, bytes, start, line, n, run) ==
    /\ run[0] = start
    /\ \A k \in 0..(n - 1) : run[k + 1] = Pass(loop, bytes, run[k], line[k + 1])

\* There is the function FoldLeft chooses, whatever the loop does.
LEMMA FoldsExist ==
    ASSUME NEW loop, NEW bytes, NEW start, NEW line, NEW n \in Nat
    PROVE  \E g : Folds(loop, bytes, start, line, 1..n, g)
<1>. DEFINE step(x, y) == Pass(loop, bytes, x, y)
            S == {m \in Nat : \E g : Folds(loop, bytes, start, line, 1..m, g)}
<1>1. 0 \in S
  <2>. DEFINE g == [s \in SUBSET (1..0) |-> start]
  <2>1. 1..0 = {} /\ SUBSET (1..0) = {{}}
    OBVIOUS
  <2>2. Folds(loop, bytes, start, line, 1..0, g)
    BY <2>1 DEF Folds
  <2>. QED  BY <2>2
<1>2. ASSUME NEW m \in Nat, m \in S
      PROVE  m + 1 \in S
  <2>1. PICK g : Folds(loop, bytes, start, line, 1..m, g)
    BY <1>2
  <2>. DEFINE big(s) == IF m + 1 \in s THEN step(g[s \ {m + 1}], line[m + 1]) ELSE g[s]
              h == [s \in SUBSET (1..(m + 1)) |-> big(s)]
  <2>. HIDE DEF step
  <2>2. ASSUME NEW s \in SUBSET (1..(m + 1))
        PROVE  h[s] = IF s = {} THEN start ELSE step(h[s \ {Max(s)}], line[Max(s)])
    <3>1. CASE m + 1 \in s
      <4>1. Max(s) = m + 1
        BY <3>1, MaxOf
      <4>2. s \ {m + 1} \in SUBSET (1..(m + 1)) /\ m + 1 \notin s \ {m + 1}
        OBVIOUS
      <4>3. h[s \ {m + 1}] = g[s \ {m + 1}]
        BY <4>2
      <4>. QED  BY <3>1, <4>1, <4>3
    <3>2. CASE m + 1 \notin s
      <4>1. s \in SUBSET (1..m)
        BY <3>2
      <4>2. h[s] = g[s]
        BY <3>2
      <4>3. g[s] = IF s = {} THEN start ELSE step(g[s \ {Max(s)}], line[Max(s)])
        BY <2>1, <4>1 DEF Folds, step
      <4>4. s \ {Max(s)} \in SUBSET (1..(m + 1)) /\ m + 1 \notin s \ {Max(s)}
        BY <3>2
      <4>5. h[s \ {Max(s)}] = g[s \ {Max(s)}]
        BY <4>4
      <4>. QED  BY <4>2, <4>3, <4>5
    <3>. QED  BY <3>1, <3>2
  <2>3. Folds(loop, bytes, start, line, 1..(m + 1), h)
    <3>1. h = [s \in SUBSET (1..(m + 1)) |-> h[s]]
      OBVIOUS
    <3>. HIDE DEF h
    <3>. QED  BY <2>2, <3>1 DEF Folds, step
  <2>. QED  BY <2>3
<1>. HIDE DEF S
<1>3. Nat \subseteq S
  BY <1>1, <1>2, Induction
<1>. QED  BY <1>3 DEF S

\* A fold is the last value of a run.
LEMMA FoldRuns ==
    ASSUME NEW loop, NEW bytes, NEW start, NEW line, NEW n \in Nat,
           NEW g, Folds(loop, bytes, start, line, 1..n, g)
    PROVE  \E run : Runs(loop, bytes, start, line, n, run) /\ run[n] = g[1..n]
<1>. DEFINE run == [k \in 0..n |-> g[1..k]]
<1>3. run[0] = start
  <2>1. 1..0 = {} /\ {} \in SUBSET (1..n)
    OBVIOUS
  <2>2. g[{}] = start
    BY <2>1 DEF Folds
  <2>. QED  BY <2>1, <2>2
<1>4. ASSUME NEW k \in 0..(n - 1)
      PROVE  run[k + 1] = Pass(loop, bytes, run[k], line[k + 1])
  <2>. HIDE DEF run
  <2>6. k \in Nat
    OBVIOUS
  <2>7. k + 1 \in 1..(k + 1)
    BY <2>6
  <2>1. k \in Nat /\ k + 1 \in 1..(k + 1) /\ 1..(k + 1) # {}
    BY <2>6, <2>7
  <2>5. \A i \in 1..(k + 1) : i \in 1..n
    BY <2>6
  <2>2. Max(1..(k + 1)) = k + 1
    BY <2>1, MaxOf
  <2>3. (1..(k + 1)) \ {k + 1} = 1..k
    BY <2>1
  <2>4. g[1..(k + 1)] = Pass(loop, bytes, g[1..k], line[k + 1])
    BY <2>1, <2>5, <2>2, <2>3 DEF Folds
  <2>. QED  BY <2>4 DEF run
<1>5. run[n] = g[1..n]
  OBVIOUS
<1>. HIDE DEF run
<1>. QED  BY <1>3, <1>4, <1>5 DEF Runs

\* The passes of a loop that looks at no list.
Numbers(n) == [k \in 1..n |-> k]

\* The loops of skipQueries() and skipResponses() are runs.
LEMMA RepeatRuns ==
    ASSUME NEW bytes, NEW start, NEW n \in Nat
    PROVE  /\ \E run : /\ Runs("queries", bytes, start, Numbers(n), n, run)
                       /\ Repeat(SkipQuery, bytes, n, start) = run[n]
           /\ \E run : /\ Runs("responses", bytes, start, Numbers(n), n, run)
                       /\ Repeat(SkipResponse, bytes, n, start) = run[n]
<1>1. \E run : /\ Runs("queries", bytes, start, Numbers(n), n, run)
               /\ Repeat(SkipQuery, bytes, n, start) = run[n]
  <2>. DEFINE F(g) == g = [s \in SUBSET (1..n) |->
                              IF s = {} THEN start
                              ELSE IF g[s \ {Max(s)}] = End(bytes) THEN g[s \ {Max(s)}]
                                   ELSE SkipQuery(bytes, g[s \ {Max(s)}])]
              iter == CHOOSE g : F(g)
  <2>1. Repeat(SkipQuery, bytes, n, start) = iter[1..n]
    BY DEF Repeat, FoldLeft, MapThenFoldSet
  <2>2. \A g : F(g) <=> Folds("queries", bytes, start, Numbers(n), 1..n, g)
    BY DEF Folds, Pass
  <2>3. \E g : F(g)
    BY <2>2, FoldsExist
  <2>4. Folds("queries", bytes, start, Numbers(n), 1..n, iter)
    BY <2>2, <2>3
  <2>. HIDE DEF iter
  <2>. QED  BY <2>1, <2>4, FoldRuns
<1>2. \E run : /\ Runs("responses", bytes, start, Numbers(n), n, run)
               /\ Repeat(SkipResponse, bytes, n, start) = run[n]
  <2>. DEFINE F(g) == g = [s \in SUBSET (1..n) |->
                              IF s = {} THEN start
                              ELSE IF g[s \ {Max(s)}] = End(bytes) THEN g[s \ {Max(s)}]
                                   ELSE SkipResponse(bytes, g[s \ {Max(s)}])]
              iter == CHOOSE g : F(g)
  <2>1. Repeat(SkipResponse, bytes, n, start) = iter[1..n]
    BY DEF Repeat, FoldLeft, MapThenFoldSet
  <2>2. \A g : F(g) <=> Folds("responses", bytes, start, Numbers(n), 1..n, g)
    BY DEF Folds, Pass
  <2>3. \E g : F(g)
    BY <2>2, FoldsExist
  <2>4. Folds("responses", bytes, start, Numbers(n), 1..n, iter)
    BY <2>2, <2>3
  <2>. HIDE DEF iter
  <2>. QED  BY <2>1, <2>4, FoldRuns
<1>. QED  BY <1>1, <1>2

-----------------------------------------------------------------------------

\* At p of the packet are the bytes of s.
Has(bytes, p, s) ==
    /\ p + Len(s) <= End(bytes)
    /\ \A j \in 1..Len(s) : bytes[p + j - 1] = s[j]

\* Bytes behind bytes are in a packet when both are.
LEMMA HasBoth ==
    ASSUME NEW bytes \in Seq(Nat), NEW p \in Nat \ {0},
           NEW s \in Seq(Nat), NEW t \in Seq(Nat)
    PROVE  Has(bytes, p, s \o t) <=> Has(bytes, p, s) /\ Has(bytes, p + Len(s), t)
<1>. DEFINE both == s \o t
<1>1. /\ Len(both) = Len(s) + Len(t) /\ Len(s) \in Nat /\ Len(t) \in Nat
      /\ Len(bytes) \in Nat
      /\ \A i \in 1..(Len(s) + Len(t)) :
            both[i] = IF i <= Len(s) THEN s[i] ELSE t[i - Len(s)]
  BY ConcatProperties
<1>. HIDE DEF both
<1>2. ASSUME Has(bytes, p, both)
      PROVE  Has(bytes, p, s) /\ Has(bytes, p + Len(s), t)
  <2>1. p + Len(s) + Len(t) <= End(bytes)
    BY <1>1, <1>2 DEF Has, End
  <2>2. ASSUME NEW j \in 1..Len(s) PROVE bytes[p + j - 1] = s[j]
    <3>1. j \in 1..Len(both) /\ both[j] = s[j]
      BY <1>1
    <3>. QED  BY <1>2, <3>1 DEF Has
  <2>3. ASSUME NEW j \in 1..Len(t) PROVE bytes[p + Len(s) + j - 1] = t[j]
    <3>1. Len(s) + j \in 1..Len(both) /\ both[Len(s) + j] = t[j]
      BY <1>1
    <3>2. bytes[p + (Len(s) + j) - 1] = both[Len(s) + j]
      BY <1>2, <3>1 DEF Has
    <3>3. p + (Len(s) + j) - 1 = p + Len(s) + j - 1
      BY <1>1
    <3>. QED  BY <3>1, <3>2, <3>3
  <2>4. p + Len(s) <= End(bytes)
    BY <1>1, <2>1 DEF End
  <2>5. Has(bytes, p, s)
    BY <2>2, <2>4 DEF Has
  <2>. QED  BY <2>1, <2>3, <2>5 DEF Has
<1>3. ASSUME Has(bytes, p, s), Has(bytes, p + Len(s), t)
      PROVE  Has(bytes, p, both)
  <2>1. ASSUME NEW i \in 1..Len(both) PROVE bytes[p + i - 1] = both[i]
    <3>1. CASE i <= Len(s)
      BY <1>1, <1>3, <3>1 DEF Has
    <3>2. CASE ~(i <= Len(s))
      <4>1. i - Len(s) \in 1..Len(t) /\ both[i] = t[i - Len(s)]
        BY <1>1, <3>2
      <4>2. bytes[p + Len(s) + (i - Len(s)) - 1] = t[i - Len(s)]
        BY <1>3, <4>1 DEF Has
      <4>3. p + Len(s) + (i - Len(s)) - 1 = p + i - 1
        BY <1>1
      <4>. QED  BY <4>1, <4>2, <4>3
    <3>. QED  BY <3>1, <3>2
  <2>. QED  BY <1>1, <1>3, <2>1 DEF Has, End
<1>. QED  BY <1>2, <1>3 DEF both

\* A packet has itself.
LEMMA HasAll ==
    ASSUME NEW bytes \in Seq(Nat)
    PROVE  Has(bytes, 1, bytes)
<1>1. Len(bytes) \in Nat
  OBVIOUS
<1>. QED  BY <1>1 DEF Has, End

\* Bytes behind bytes.
LEMMA Joined ==
    ASSUME NEW s \in Seq(Nat), NEW t \in Seq(Nat)
    PROVE  s \o t \in Seq(Nat) /\ Len(s \o t) = Len(s) + Len(t)
BY ConcatProperties

-----------------------------------------------------------------------------

(* FlattenSeq *)

\* Sequences of bytes, one after the other.
AreBytes(ss, n) == DOMAIN ss = 1..n /\ \A i \in 1..n : ss[i] \in Seq(Nat)

\* The function FlattenSeq chooses.
Flattens(ss, n, f) ==
    f = [i \in 1..n |-> IF i = 1 THEN ss[i] ELSE f[i - 1] \o ss[i]]

\* The first k of them.
Flat(ss, k) == FlattenSeq([i \in 1..k |-> ss[i]])

\* One value of such a function.
LEMMA FlattensAt ==
    ASSUME NEW ss, NEW n \in Nat, NEW f, Flattens(ss, n, f), NEW i \in 1..n
    PROVE  f[i] = IF i = 1 THEN ss[i] ELSE f[i - 1] \o ss[i]
BY DEF Flattens

\* There is the function FlattenSeq chooses.
LEMMA FlattensExist ==
    ASSUME NEW ss, NEW n \in Nat
    PROVE  \E f : Flattens(ss, n, f)
<1>. DEFINE S == {k \in Nat : \E f : Flattens(ss, k, f)}
<1>1. 0 \in S
  <2>1. Flattens(ss, 0, [i \in 1..0 |-> 0])
    BY DEF Flattens
  <2>. QED  BY <2>1
<1>2. ASSUME NEW k \in Nat, k \in S
      PROVE  k + 1 \in S
  <2>1. PICK f : Flattens(ss, k, f)
    BY <1>2
  <2>. DEFINE last == IF k + 1 = 1 THEN ss[k + 1] ELSE f[k] \o ss[k + 1]
              g == [i \in 1..(k + 1) |-> IF i = k + 1 THEN last ELSE f[i]]
  <2>2. ASSUME NEW i \in 1..(k + 1)
        PROVE  g[i] = IF i = 1 THEN ss[i] ELSE g[i - 1] \o ss[i]
    <3>1. CASE i = k + 1
      <4>1. CASE i = 1
        BY <3>1, <4>1
      <4>2. CASE i # 1
        <5>1. i - 1 = k /\ k # k + 1 /\ k \in 1..(k + 1)
          BY <3>1, <4>2
        <5>2. g[i] = last /\ last = f[k] \o ss[i]
          BY <3>1, <4>2
        <5>3. g[k] = f[k]
          BY <5>1
        <5>. QED  BY <4>2, <5>1, <5>2, <5>3
      <4>. QED  BY <4>1, <4>2
    <3>2. CASE i # k + 1
      <4>1. i \in 1..k /\ g[i] = f[i] /\ (i # 1 => g[i - 1] = f[i - 1])
        BY <3>2
      <4>2. f[i] = IF i = 1 THEN ss[i] ELSE f[i - 1] \o ss[i]
        BY <2>1, <4>1 DEF Flattens
      <4>. QED  BY <4>1, <4>2
    <3>. QED  BY <3>1, <3>2
  <2>3. g = [i \in 1..(k + 1) |-> g[i]]
    OBVIOUS
  <2>. HIDE DEF g
  <2>4. Flattens(ss, k + 1, g)
    BY <2>2, <2>3 DEF Flattens
  <2>. QED  BY <2>4
<1>. HIDE DEF S
<1>3. n \in S
  BY <1>1, <1>2, Induction
<1>. QED  BY <1>3 DEF S

\* Their first n are the same.
Agree(ss, tt, n) == \A i \in 1..n : ss[i] = tt[i]

\* It depends on no sequences but those up to there.
LEMMA FlattensAgree ==
    ASSUME NEW ss, NEW tt, NEW n \in Nat, NEW m \in Nat, n <= m,
           Agree(ss, tt, n),
           NEW f, Flattens(ss, n, f), NEW g, Flattens(tt, m, g)
    PROVE  Agree(f, g, n)
<1>. DEFINE S == {k \in Nat : k \in 1..n => f[k] = g[k]}
<1>1. 0 \in S
  OBVIOUS
<1>2. ASSUME NEW k \in Nat, k \in S
      PROVE  k + 1 \in S
  <2>. SUFFICES ASSUME k + 1 \in 1..n
                PROVE  f[k + 1] = g[k + 1]
    OBVIOUS
  <2>1. f[k + 1] = IF k + 1 = 1 THEN ss[k + 1] ELSE f[k + 1 - 1] \o ss[k + 1]
    BY FlattensAt
  <2>2. g[k + 1] = IF k + 1 = 1 THEN tt[k + 1] ELSE g[k + 1 - 1] \o tt[k + 1]
    <3>1. k + 1 \in 1..m
      OBVIOUS
    <3>. QED  BY <3>1, FlattensAt
  <2>3. k + 1 # 1 => k + 1 - 1 = k /\ f[k] = g[k]
    BY <1>2
  <2>4. ss[k + 1] = tt[k + 1]
    BY DEF Agree
  <2>. QED  BY <2>1, <2>2, <2>3, <2>4
<1>. HIDE DEF S
<1>3. Nat \subseteq S
  BY <1>1, <1>2, Induction
<1>. QED  BY <1>3 DEF S, Agree

\* None of them.
LEMMA FlatEmpty == ASSUME NEW ss PROVE Flat(ss, 0) = <<>>
BY DEF Flat, FlattenSeq

\* One more of them.
LEMMA FlatNext ==
    ASSUME NEW ss, NEW n \in Nat, AreBytes(ss, n + 1), Flat(ss, n) \in Seq(Nat)
    PROVE  Flat(ss, n + 1) = Flat(ss, n) \o ss[n + 1]
<1>. DEFINE all == [i \in 1..(n + 1) |-> ss[i]]
            most == [i \in 1..n |-> ss[i]]
            f == CHOOSE f : Flattens(most, n, f)
            g == CHOOSE g : Flattens(all, n + 1, g)
<1>1. Flattens(most, n, f) /\ Flattens(all, n + 1, g)
  <2>. HIDE DEF all, most
  <2>1. \E h : Flattens(most, n, h)
    BY FlattensExist
  <2>2. n + 1 \in Nat
    OBVIOUS
  <2>3. \E h : Flattens(all, n + 1, h)
    BY <2>2, FlattensExist
  <2>. QED  BY <2>1, <2>3
<1>2. Len(all) = n + 1 /\ Len(most) = n
  OBVIOUS
<1>3. Flat(ss, n + 1) = g[n + 1]
  <2>1. Flat(ss, n + 1) = FlattenSeq(all)
    BY DEF Flat
  <2>2. FlattenSeq(all) = g[n + 1]
    <3>. HIDE DEF all, most
    <3>1. Len(all) # 0
      BY <1>2
    <3>. QED  BY <1>2, <3>1 DEF FlattenSeq, Flattens
  <2>. QED  BY <2>1, <2>2
<1>4. n # 0 => Flat(ss, n) = f[n]
  <2>1. Flat(ss, n) = FlattenSeq(most)
    BY DEF Flat
  <2>2. n # 0 => FlattenSeq(most) = f[n]
    <3>. HIDE DEF all, most
    <3>. QED  BY <1>2 DEF FlattenSeq, Flattens
  <2>. QED  BY <2>1, <2>2
<1>5. n # 0 => f[n] = g[n]
  <2>. HIDE DEF f, g
  <2>1. \A i \in 1..n : most[i] = all[i]
    OBVIOUS
  <2>. HIDE DEF all, most
  <2>2. n <= n + 1 /\ n + 1 \in Nat
    OBVIOUS
  <2>. DEFINE m == n + 1
  <2>4. Flattens(all, m, g) /\ n <= m /\ m \in Nat
    BY <1>1, <2>2
  <2>. HIDE DEF m
  <2>5. Flattens(most, n, f)
    BY <1>1
  <2>6. Flattens(all, m, g)
    BY <2>4
  <2>7. n <= m /\ m \in Nat
    BY <2>4
  <2>8. Agree(most, all, n)
    BY <2>1 DEF Agree
  <2>3. Agree(f, g, n)
    BY <2>5, <2>6, <2>7, <2>8, FlattensAgree
  <2>. QED  BY <2>3 DEF Agree
<1>6. g[n + 1] = IF n + 1 = 1 THEN ss[n + 1] ELSE g[n] \o ss[n + 1]
  <2>. HIDE DEF g
  <2>1. n + 1 \in 1..(n + 1) /\ n + 1 - 1 = n /\ all[n + 1] = ss[n + 1]
    OBVIOUS
  <2>. HIDE DEF all
  <2>. DEFINE m == n + 1
  <2>2. Flattens(all, m, g) /\ m \in Nat /\ m \in 1..m /\ m - 1 = n /\ all[m] = ss[m]
    BY <1>1, <2>1
  <2>. HIDE DEF m
  <2>3. g[m] = IF m = 1 THEN ss[m] ELSE g[n] \o ss[m]
    BY <2>2, FlattensAt
  <2>. QED  BY <2>3 DEF m
<1>. HIDE DEF f, g
<1>7. CASE n = 0
  <2>1. ss[n + 1] \in Seq(Nat)
    BY <1>7 DEF AreBytes
  <2>2. Flat(ss, n) = <<>>
    BY <1>7, FlatEmpty
  <2>3. <<>> \o ss[n + 1] = ss[n + 1]
    BY <2>1, ConcatEmptySeq
  <2>4. n + 1 = 1
    BY <1>7
  <2>. QED  BY <1>3, <1>6, <2>2, <2>3, <2>4
<1>8. CASE n # 0
  <2>1. n + 1 # 1
    BY <1>8
  <2>. QED  BY <1>3, <1>4, <1>5, <1>6, <1>8, <2>1
<1>. QED  BY <1>7, <1>8

\* They are bytes.
LEMMA FlatBytes ==
    ASSUME NEW ss, NEW n \in Nat, AreBytes(ss, n)
    PROVE  \A k \in 0..n : Flat(ss, k) \in Seq(Nat)
<1>. DEFINE S == {k \in Nat : k <= n => Flat(ss, k) \in Seq(Nat)}
<1>1. 0 \in S
  <2>1. Flat(ss, 0) = <<>>
    BY FlatEmpty
  <2>2. <<>> \in Seq(Nat)
    OBVIOUS
  <2>. QED  BY <2>1, <2>2
<1>2. ASSUME NEW k \in Nat, k \in S
      PROVE  k + 1 \in S
  <2>. SUFFICES ASSUME k + 1 <= n
                PROVE  Flat(ss, k + 1) \in Seq(Nat)
    OBVIOUS
  <2>. DEFINE tt == [i \in 1..(k + 1) |-> ss[i]]
  <2>1. AreBytes(tt, k + 1) /\ tt[k + 1] = ss[k + 1]
    BY DEF AreBytes
  <2>2. Flat(tt, k) = Flat(ss, k) /\ Flat(tt, k + 1) = Flat(ss, k + 1)
    <3>1. [i \in 1..k |-> tt[i]] = [i \in 1..k |-> ss[i]]
      OBVIOUS
    <3>. QED  BY <3>1 DEF Flat
  <2>3. Flat(ss, k) \in Seq(Nat) /\ ss[k + 1] \in Seq(Nat)
    BY <1>2 DEF AreBytes
  <2>. HIDE DEF tt
  <2>4. Flat(ss, k + 1) = Flat(ss, k) \o ss[k + 1]
    BY <2>1, <2>2, <2>3, FlatNext
  <2>. QED  BY <2>3, <2>4, Joined
<1>. HIDE DEF S
<1>3. Nat \subseteq S
  BY <1>1, <1>2, Induction
<1>. QED  BY <1>3 DEF S

\* \o is associative on bytes.
LEMMA JoinedTwice ==
    ASSUME NEW s \in Seq(Nat), NEW t \in Seq(Nat), NEW u \in Seq(Nat)
    PROVE  (s \o t) \o u = s \o (t \o u)
BY SMTT(30)

\* Equal sequences give equal bytes.
LEMMA FlatAgree ==
    ASSUME NEW ss, NEW tt, NEW n \in Nat, Agree(ss, tt, n)
    PROVE  Flat(ss, n) = Flat(tt, n)
<1>1. [i \in 1..n |-> ss[i]] = [i \in 1..n |-> tt[i]]
  BY DEF Agree
<1>. QED  BY <1>1 DEF Flat

\* The first k + 1 of n of them.
LEMMA FlatStep ==
    ASSUME NEW ss, NEW n \in Nat, AreBytes(ss, n), NEW k \in 0..(n - 1)
    PROVE  /\ Flat(ss, k) \in Seq(Nat) /\ ss[k + 1] \in Seq(Nat)
           /\ Flat(ss, k + 1) = Flat(ss, k) \o ss[k + 1]
<1>. DEFINE tt == [i \in 1..(k + 1) |-> ss[i]]
<1>1. AreBytes(tt, k + 1) /\ tt[k + 1] = ss[k + 1] /\ k \in Nat /\ k + 1 \in Nat
  BY DEF AreBytes
<1>2. Agree(tt, ss, k) /\ Agree(tt, ss, k + 1)
  BY DEF Agree
<1>3. Flat(ss, k) \in Seq(Nat)
  BY FlatBytes
<1>4. ss[k + 1] \in Seq(Nat)
  BY DEF AreBytes
<1>. HIDE DEF tt
<1>5. Flat(tt, k) = Flat(ss, k) /\ Flat(tt, k + 1) = Flat(ss, k + 1)
  BY <1>1, <1>2, FlatAgree
<1>6. Flat(tt, k + 1) = Flat(tt, k) \o tt[k + 1]
  BY <1>1, <1>3, <1>5, FlatNext
<1>. QED  BY <1>1, <1>3, <1>4, <1>5, <1>6

\* Where none of them is empty, there are n bytes or more.
LEMMA FlatLong ==
    ASSUME NEW ss, NEW n \in Nat, AreBytes(ss, n), \A i \in 1..n : Len(ss[i]) >= 1
    PROVE  Len(Flat(ss, n)) >= n
<1>. DEFINE S == {k \in Nat : k <= n => Len(Flat(ss, k)) >= k}
<1>1. 0 \in S
  <2>1. Flat(ss, 0) = <<>>
    BY FlatEmpty
  <2>2. Len(Flat(ss, 0)) = 0
    BY <2>1
  <2>. QED  BY <2>2
<1>2. ASSUME NEW k \in Nat, k \in S
      PROVE  k + 1 \in S
  <2>. SUFFICES ASSUME k + 1 <= n
                PROVE  Len(Flat(ss, k + 1)) >= k + 1
    OBVIOUS
  <2>1. k \in 0..(n - 1) /\ k + 1 \in 1..n
    OBVIOUS
  <2>2. /\ Flat(ss, k) \in Seq(Nat) /\ ss[k + 1] \in Seq(Nat)
        /\ Flat(ss, k + 1) = Flat(ss, k) \o ss[k + 1]
    BY <2>1, FlatStep
  <2>3. Len(Flat(ss, k + 1)) = Len(Flat(ss, k)) + Len(ss[k + 1])
    BY <2>2, Joined
  <2>4. Len(Flat(ss, k)) >= k
    BY <1>2
  <2>5. Len(ss[k + 1]) >= 1
    BY <2>1
  <2>6. Len(Flat(ss, k)) \in Nat /\ Len(ss[k + 1]) \in Nat
    BY <2>2
  <2>. QED  BY <2>3, <2>4, <2>5, <2>6
<1>. HIDE DEF S
<1>3. n \in S
  BY <1>1, <1>2, Induction
<1>. QED  BY <1>3 DEF S

\* What is behind the first m.
Follow(tt, n, ss, m) == \A i \in 1..n : tt[i] = ss[m + i]

\* The first m, and the n after them.
LEMMA FlatSplit ==
    ASSUME NEW ss, NEW m \in Nat, NEW n \in Nat, AreBytes(ss, m + n),
           NEW tt, AreBytes(tt, n), Follow(tt, n, ss, m)
    PROVE  Flat(ss, m + n) = Flat(ss, m) \o Flat(tt, n)
<1>. DEFINE S == {k \in Nat : k <= n => Flat(ss, m + k) = Flat(ss, m) \o Flat(tt, k)}
<1>0. Flat(ss, m) \in Seq(Nat)
  <2>1. m \in 0..(m + n) /\ m + n \in Nat
    OBVIOUS
  <2>. QED  BY <2>1, FlatBytes
<1>1. 0 \in S
  <2>1. Flat(tt, 0) = <<>>
    BY FlatEmpty
  <2>2. Flat(ss, m) \o <<>> = Flat(ss, m)
    BY <1>0, ConcatEmptySeq
  <2>3. m + 0 = m
    OBVIOUS
  <2>. QED  BY <2>1, <2>2, <2>3
<1>2. ASSUME NEW k \in Nat, k \in S
      PROVE  k + 1 \in S
  <2>. SUFFICES ASSUME k + 1 <= n
                PROVE  Flat(ss, m + (k + 1)) = Flat(ss, m) \o Flat(tt, k + 1)
    OBVIOUS
  <2>1. m + k \in 0..(m + n - 1) /\ k \in 0..(n - 1) /\ m + n \in Nat
    OBVIOUS
  <2>. DEFINE l == m + k
  <2>2. Flat(ss, l + 1) = Flat(ss, l) \o ss[l + 1]
    <3>1. l \in 0..(m + n - 1)
      BY <2>1
    <3>. HIDE DEF l
    <3>. QED  BY <2>1, <3>1, FlatStep
  <2>3. /\ Flat(tt, k) \in Seq(Nat) /\ tt[k + 1] \in Seq(Nat)
        /\ Flat(tt, k + 1) = Flat(tt, k) \o tt[k + 1]
    BY <2>1, FlatStep
  <2>4. Flat(ss, l) = Flat(ss, m) \o Flat(tt, k)
    BY <1>2
  <2>5. tt[k + 1] = ss[l + 1] /\ m + (k + 1) = l + 1
    <3>1. k + 1 \in 1..n /\ m + (k + 1) = l + 1
      OBVIOUS
    <3>. HIDE DEF l
    <3>. QED  BY <3>1 DEF Follow
  <2>6. (Flat(ss, m) \o Flat(tt, k)) \o tt[k + 1] = Flat(ss, m) \o (Flat(tt, k) \o tt[k + 1])
    BY <1>0, <2>3, JoinedTwice
  <2>. HIDE DEF l
  <2>. QED  BY <2>2, <2>3, <2>4, <2>5, <2>6
<1>. HIDE DEF S
<1>3. n \in S
  BY <1>1, <1>2, Induction
<1>. QED  BY <1>3 DEF S

\* A packet that has all of them has each in its place.
LEMMA HasEach ==
    ASSUME NEW bytes \in Seq(Nat), NEW p \in Nat \ {0}, NEW ss, NEW n \in Nat,
           AreBytes(ss, n), Has(bytes, p, Flat(ss, n))
    PROVE  \A k \in 0..(n - 1) : /\ Len(Flat(ss, k)) \in Nat
                                 /\ Has(bytes, p + Len(Flat(ss, k)), ss[k + 1])
<1>. DEFINE S == {k \in Nat : k <= n => Has(bytes, p, Flat(ss, n - k))}
<1>1. 0 \in S
  <2>1. n - 0 = n
    OBVIOUS
  <2>. QED  BY <2>1
<1>2. ASSUME NEW k \in Nat, k \in S
      PROVE  k + 1 \in S
  <2>. SUFFICES ASSUME k + 1 <= n
                PROVE  Has(bytes, p, Flat(ss, n - (k + 1)))
    OBVIOUS
  <2>. DEFINE l == n - (k + 1)
  <2>1. l \in 0..(n - 1) /\ l + 1 = n - k
    OBVIOUS
  <2>. HIDE DEF l
  <2>2. /\ Flat(ss, l) \in Seq(Nat) /\ ss[l + 1] \in Seq(Nat)
        /\ Flat(ss, l + 1) = Flat(ss, l) \o ss[l + 1]
    BY <2>1, FlatStep
  <2>5. Has(bytes, p, Flat(ss, l + 1))
    BY <1>2, <2>1
  <2>3. Has(bytes, p, Flat(ss, l) \o ss[l + 1])
    BY <2>2, <2>5
  <2>4. Has(bytes, p, Flat(ss, l))
    BY <2>2, <2>3, HasBoth
  <2>. QED  BY <2>4 DEF l
<1>. HIDE DEF S
<1>3. Nat \subseteq S
  BY <1>1, <1>2, Induction
<1>4. ASSUME NEW k \in 0..(n - 1)
      PROVE  /\ Len(Flat(ss, k)) \in Nat
             /\ Has(bytes, p + Len(Flat(ss, k)), ss[k + 1])
  <2>1. /\ Flat(ss, k) \in Seq(Nat) /\ ss[k + 1] \in Seq(Nat)
        /\ Flat(ss, k + 1) = Flat(ss, k) \o ss[k + 1]
    BY FlatStep
  <2>2. n - (k + 1) \in S /\ n - (k + 1) <= n /\ n - (n - (k + 1)) = k + 1
    BY <1>3
  <2>5. Has(bytes, p, Flat(ss, k + 1))
    BY <2>2 DEF S
  <2>3. Has(bytes, p, Flat(ss, k) \o ss[k + 1])
    BY <2>1, <2>5
  <2>4. Has(bytes, p + Len(Flat(ss, k)), ss[k + 1])
    BY <2>1, <2>3, HasBoth
  <2>. QED  BY <2>1, <2>4
<1>. QED  BY <1>4

-----------------------------------------------------------------------------

(* Names *)

\* Where the name at i ends, if sk says where those behind it do.
Skipped(bytes, sk, i) ==
    CASE i = End(bytes)                      -> i
      [] i < End(bytes) /\ bytes[i] = 0      -> i + 1
      [] i < End(bytes) /\ bytes[i] >= 192   -> i + 2
      [] OTHER -> IF End(bytes) - i > bytes[i] + 1
                  THEN sk[i + bytes[i] + 1]
                  ELSE End(bytes)

\* The function that is meant in SkipName().
Skips(bytes, sk) == sk = [i \in 1..End(bytes) |-> Skipped(bytes, sk, i)]

\* There is the function that is meant in SkipName().
LEMMA SkipsExist ==
    ASSUME NEW bytes \in Seq(Nat)
    PROVE  \E sk : Skips(bytes, sk)
<1>. DEFINE e == End(bytes)
            Upto(m, g) == \A i \in 1..e : e - i <= m => g[i] = Skipped(bytes, g, i)
            S == {m \in Nat : \E g : Upto(m, g)}
<1>0. e \in Nat /\ Len(bytes) \in Nat /\ e = Len(bytes) + 1
      /\ \A i \in 1..Len(bytes) : bytes[i] \in Nat
  BY DEF End
<1>1. 0 \in S
  <2>1. Upto(0, [i \in 1..e |-> i])
    BY <1>0 DEF Skipped
  <2>. QED  BY <2>1
<1>2. ASSUME NEW m \in Nat, m \in S
      PROVE  m + 1 \in S
  <2>1. PICK g : Upto(m, g)
    BY <1>2
  <2>. DEFINE j == e - (m + 1)
              h == [i \in 1..e |-> IF i = j THEN Skipped(bytes, g, j) ELSE g[i]]
  <2>2. ASSUME NEW i \in 1..e, e - i <= m + 1
        PROVE  Skipped(bytes, h, i) = Skipped(bytes, g, i)
    <3>1. i \in 1..Len(bytes) \/ i = e
      BY <1>0
    <3>2. CASE i = e
      BY <3>2 DEF Skipped
    <3>3. CASE i # e
      <4>1. bytes[i] \in Nat
        BY <1>0, <3>1, <3>3
      <4>2. e - i > bytes[i] + 1 => h[i + bytes[i] + 1] = g[i + bytes[i] + 1]
        <5>1. j \in Int /\ j <= i
          BY <1>0, <2>2
        <5>. DEFINE b == bytes[i]
                    next == i + b + 1
        <5>2. e - i > bytes[i] + 1 => next \in 1..e /\ next # j
          <6>1. b \in Nat /\ i \in Nat /\ i >= 1 /\ e \in Nat
            BY <1>0, <4>1
          <6>. HIDE DEF b, e, j
          <6>. QED  BY <5>1, <6>1 DEF b
        <5>. HIDE DEF next, j
        <5>. QED  BY <5>2 DEF next
      <4>. HIDE DEF h
      <4>. QED  BY <4>2 DEF Skipped
    <3>. QED  BY <3>2, <3>3
  <2>3. ASSUME NEW i \in 1..e, e - i <= m + 1
        PROVE  h[i] = Skipped(bytes, g, i)
    <3>1. CASE i = j
      BY <3>1
    <3>2. CASE i # j
      <4>1. e - i <= m
        <5>1. e \in Nat /\ i \in Nat
          BY <1>0
        <5>. HIDE DEF e, h
        <5>. QED  BY <2>3, <3>2, <5>1
      <4>2. h[i] = g[i]
        BY <3>2
      <4>. QED  BY <2>1, <4>1, <4>2
    <3>. QED  BY <3>1, <3>2
  <2>. HIDE DEF h
  <2>4. Upto(m + 1, h)
    BY <2>2, <2>3
  <2>. QED  BY <2>4
<1>. HIDE DEF S
<1>3. e \in S
  BY <1>0, <1>1, <1>2, Induction
<1>4. PICK g : Upto(e, g)
  BY <1>3 DEF S
<1>. DEFINE sk == [i \in 1..e |-> g[i]]
<1>5. ASSUME NEW i \in 1..e
      PROVE  sk[i] = Skipped(bytes, sk, i)
  <2>1. e - i <= e
    BY <1>0
  <2>2. g[i] = Skipped(bytes, g, i)
    BY <1>4, <2>1
  <2>3. Skipped(bytes, sk, i) = Skipped(bytes, g, i)
    <3>1. CASE i = e
      BY <3>1 DEF Skipped
    <3>2. CASE i # e
      <4>1. bytes[i] \in Nat
        BY <1>0, <3>2
      <4>2. e - i > bytes[i] + 1 => i + bytes[i] + 1 \in 1..e
        <5>. HIDE DEF e
        <5>. QED  BY <1>0, <4>1
      <4>. QED  BY <4>2 DEF Skipped
    <3>. QED  BY <3>1, <3>2
  <2>. QED  BY <2>2, <2>3
<1>6. sk = [i \in 1..e |-> sk[i]]
  OBVIOUS
<1>. HIDE DEF sk
<1>7. Skips(bytes, sk)
  BY <1>5, <1>6 DEF Skips
<1>. QED  BY <1>7

\* SkipName() finds the end of a name.
LEMMA NameSkipped ==
    ASSUME NEW bytes \in Seq(Nat), NEW p \in Nat \ {0}, NEW name,
           IsDomainName(name), Has(bytes, p, name)
    PROVE  SkipName(bytes, p) = p + Len(name)
<1>. DEFINE sk == CHOOSE f : Skips(bytes, f)
            e == End(bytes)
            n == Len(name)
<1>1. Skips(bytes, sk)
  BY SkipsExist
<1>2. SkipName(bytes, p) = sk[p]
  BY DEF SkipName, Skips, Skipped
<1>. HIDE DEF sk
<1>3. \A i \in 1..e : sk[i] = Skipped(bytes, sk, i)
  BY <1>1 DEF Skips
<1>4. PICK starts \in SUBSET DOMAIN name :
        /\ 1 \in starts
        /\ \A i \in starts :
            \/ name[i] = 0 /\ i = n
            \/ name[i] >= 192 /\ i + 1 = n
            \/ 0 < name[i] /\ name[i] < 192 /\ i + name[i] + 1 \in starts
  BY DEF IsDomainName
<1>5. n \in Nat /\ DOMAIN name = 1..n /\ \A i \in 1..n : name[i] \in Nat
  BY DEF IsDomainName
<1>6. e \in Nat /\ p + n <= e /\ \A i \in 1..n : bytes[p + i - 1] = name[i]
  BY DEF Has, End
<1>. DEFINE S == {m \in Nat : \A i \in starts : n - i <= m => sk[p + i - 1] = p + n}
<1>7. ASSUME NEW m \in Nat, \A i \in starts : n - i < m => sk[p + i - 1] = p + n
      PROVE  m \in S
  <2>1. ASSUME NEW i \in starts, n - i <= m
        PROVE  sk[p + i - 1] = p + n
    <3>. DEFINE q == p + i - 1
    <3>1. i \in 1..n /\ q \in 1..e /\ q # e /\ q < e /\ q \in Nat
      BY <1>4, <1>5, <1>6
    <3>2. bytes[q] = name[i] /\ name[i] \in Nat
      BY <1>5, <1>6, <3>1
    <3>3. q + 1 = p + i
      BY <3>1
    <3>. HIDE DEF q
    <3>4. sk[q] = Skipped(bytes, sk, q)
      BY <1>3, <3>1
    <3>5. CASE name[i] = 0 /\ i = n
      <4>1. sk[q] = q + 1
        BY <3>1, <3>2, <3>4, <3>5 DEF Skipped
      <4>. QED  BY <3>3, <3>5, <4>1 DEF q
    <3>6. CASE name[i] >= 192 /\ i + 1 = n
      <4>1. sk[q] = q + 2
        BY <3>1, <3>2, <3>4, <3>6 DEF Skipped
      <4>2. q + 2 = p + n
        <5>1. i \in Nat /\ i + 1 = n /\ q = p + i - 1
          BY <1>5, <3>1, <3>6 DEF q
        <5>. HIDE DEF e, n
        <5>. QED  BY <5>1
      <4>. QED  BY <4>1, <4>2 DEF q
    <3>7. CASE 0 < name[i] /\ name[i] < 192 /\ i + name[i] + 1 \in starts
      <4>. DEFINE j == i + name[i] + 1
      <4>1. j \in 1..n /\ j > i
        BY <1>4, <1>5, <3>1, <3>2, <3>7
      <4>. DEFINE b == name[i]
      <4>6. b \in Nat /\ i \in Nat /\ n \in Nat /\ p + n <= e /\ e \in Nat
        BY <1>5, <1>6, <3>1, <3>2
      <4>2. p + j - 1 = q + b + 1 /\ e - q > b + 1
        <5>1. j <= n /\ q = p + i - 1 /\ j = i + b + 1
          BY <4>1 DEF q
        <5>. HIDE DEF b, e, n, j, q
        <5>. QED  BY <4>6, <5>1
      <4>7. b = bytes[q] /\ ~(q = e) /\ ~(b = 0) /\ ~(b >= 192)
        <5>1. b = bytes[q] /\ 0 < b /\ b < 192 /\ b \in Nat
          BY <3>2, <3>7
        <5>. HIDE DEF b, e
        <5>. QED  BY <3>1, <5>1
      <4>3. sk[q] = sk[q + b + 1]
        <5>. HIDE DEF b
        <5>. QED  BY <3>4, <4>2, <4>7 DEF Skipped
      <4>4. j \in starts /\ n - j < m
        BY <1>5, <2>1, <3>1, <3>7, <4>1
      <4>. HIDE DEF j
      <4>5. sk[p + j - 1] = p + n
        BY <1>7, <4>4
      <4>. QED  BY <4>2, <4>3, <4>5 DEF q
    <3>. QED  BY <1>4, <3>5, <3>6, <3>7
  <2>. QED  BY <2>1
<1>8. 0 \in S
  <2>1. \A i \in starts : ~(n - i < 0)
    BY <1>4, <1>5
  <2>. HIDE DEF S
  <2>. QED  BY <1>7, <2>1
<1>9. ASSUME NEW m \in Nat, m \in S
      PROVE  m + 1 \in S
  <2>1. ASSUME NEW i \in starts, n - i < m + 1
        PROVE  sk[p + i - 1] = p + n
    <3>1. n - i <= m
      BY <1>4, <1>5, <2>1
    <3>. QED  BY <1>9, <3>1
  <2>2. m + 1 \in Nat
    OBVIOUS
  <2>. HIDE DEF S
  <2>. QED  BY <1>7, <2>1, <2>2
<1>. HIDE DEF S
<1>10. n \in S
  BY <1>5, <1>8, <1>9, Induction
<1>11. n - 1 <= n /\ p + 1 - 1 = p
  BY <1>5
<1>. QED  BY <1>2, <1>4, <1>10, <1>11 DEF S

-----------------------------------------------------------------------------

(* Records *)

\* The name of a record, its data, and what is between its name and its length.
Owner(record) == IF record.type = OPT THEN <<0>> ELSE record.name

Data(record) == IF record.type = OPT THEN OptionsBytes(record.options) ELSE record.data

Fixed(record) ==
    ShortBytes(record.type) \o (IF record.type = OPT THEN <<16, 0, 0, 0, 0, 0>>
                                                     ELSE <<0, 1, 0, 0, 0, 60>>)

\* A number in two bytes.
LEMMA ShortIsBytes ==
    ASSUME NEW n \in Nat
    PROVE  ShortBytes(n) \in Seq(Nat) /\ Len(ShortBytes(n)) = 2
<1>1. (n \div 256) % 256 \in Nat /\ n % 256 \in Nat
  OBVIOUS
<1>. QED  BY <1>1 DEF ShortBytes

\* What Short() reads where a number was written.
LEMMA HasShort ==
    ASSUME NEW bytes, NEW p \in Nat \ {0}, NEW n \in Nat, n < 65536,
           Has(bytes, p, ShortBytes(n))
    PROVE  Short(bytes, p) = n
<1>1. Len(ShortBytes(n)) = 2 /\ ShortBytes(n)[1] * 256 + ShortBytes(n)[2] = n
  BY ShortRead
<1>2. \A j \in 1..Len(ShortBytes(n)) : bytes[p + j - 1] = ShortBytes(n)[j]
  BY DEF Has
<1>3. 1 \in 1..2 /\ 2 \in 1..2 /\ p + 1 - 1 = p /\ p + 2 - 1 = p + 1
  OBVIOUS
<1>4. bytes[p] = ShortBytes(n)[1] /\ bytes[p + 1] = ShortBytes(n)[2]
  BY <1>1, <1>2, <1>3
<1>. QED  BY <1>1, <1>4 DEF Short

\* The bytes of an option.
LEMMA OptionIsBytes ==
    ASSUME NEW option, option.code \in Nat, option.data \in Seq(Nat)
    PROVE  /\ OptionBytes(option) \in Seq(Nat)
           /\ Len(OptionBytes(option)) = 4 + Len(option.data)
           /\ OptionBytes(option) = (ShortBytes(option.code)
                                     \o ShortBytes(Len(option.data))) \o option.data
<1>. DEFINE a == ShortBytes(option.code)
            b == ShortBytes(Len(option.data))
            c == option.data
<1>1. Len(c) \in Nat
  OBVIOUS
<1>2. /\ a \in Seq(Nat) /\ b \in Seq(Nat) /\ c \in Seq(Nat)
      /\ Len(a) = 2 /\ Len(b) = 2
  BY <1>1, ShortIsBytes
<1>3. OptionBytes(option) = (a \o b) \o c
  BY DEF OptionBytes
<1>. HIDE DEF a, b, c
<1>4. a \o b \in Seq(Nat) /\ Len(a \o b) = 4
  <2>1. a \o b \in Seq(Nat) /\ Len(a \o b) = Len(a) + Len(b)
    BY <1>2, Joined
  <2>. QED  BY <1>2, <2>1
<1>5. (a \o b) \o c \in Seq(Nat) /\ Len((a \o b) \o c) = 4 + Len(c)
  <2>1. (a \o b) \o c \in Seq(Nat) /\ Len((a \o b) \o c) = Len(a \o b) + Len(c)
    BY <1>2, <1>4, Joined
  <2>. QED  BY <1>4, <2>1
<1>. QED  BY <1>3, <1>5 DEF a, b, c

AreOptions(options) ==
    IsSequence(options) /\ \A i \in DOMAIN options : IsOption(options[i])

\* The bytes of each option.
Split(options) == [i \in DOMAIN options |-> OptionBytes(options[i])]

\* The bytes of a list of options are those of each, one after the other.
LEMMA OptionsAreBytes ==
    ASSUME NEW options, AreOptions(options)
    PROVE  /\ Len(options) \in Nat
           /\ AreBytes(Split(options), Len(options))
           /\ OptionsBytes(options) = Flat(Split(options), Len(options))
           /\ OptionsBytes(options) \in Seq(Nat)
           /\ \A i \in 1..Len(options) : Len(Split(options)[i]) >= 4
<1>. DEFINE n == Len(options)
            ss == Split(options)
<1>1. n \in Nat /\ DOMAIN options = 1..n
  BY DEF AreOptions, IsSequence
<1>2. ASSUME NEW i \in 1..n
      PROVE  ss[i] \in Seq(Nat) /\ Len(ss[i]) >= 4
  <2>1. ss[i] = OptionBytes(options[i])
    BY <1>1 DEF Split
  <2>2. options[i].code \in Nat /\ options[i].data \in Seq(Nat)
    BY <1>1 DEF AreOptions, IsOption
  <2>3. Len(options[i].data) \in Nat
    BY <2>2
  <2>4. OptionBytes(options[i]) \in Seq(Nat)
        /\ Len(OptionBytes(options[i])) = 4 + Len(options[i].data)
    BY <2>2, OptionIsBytes
  <2>. QED  BY <2>1, <2>3, <2>4
<1>3. DOMAIN ss = 1..n /\ ss = [i \in 1..n |-> ss[i]]
  BY <1>1 DEF Split
<1>4. OptionsBytes(options) = FlattenSeq(ss)
  BY DEF OptionsBytes, Split
<1>. HIDE DEF ss, n
<1>5. AreBytes(ss, n)
  BY <1>2, <1>3 DEF AreBytes
<1>6. FlattenSeq(ss) = Flat(ss, n)
  BY <1>3 DEF Flat
<1>7. n \in 0..n
  BY <1>1
<1>8. Flat(ss, n) \in Seq(Nat)
  BY <1>1, <1>5, <1>7, FlatBytes
<1>. QED  BY <1>1, <1>2, <1>4, <1>5, <1>6, <1>8 DEF ss, n

\* The bytes of a record are its name, type, class and time, length and data.
LEMMA RecordParts ==
    ASSUME NEW record, IsRecord(record)
    PROVE  /\ IsDomainName(Owner(record)) /\ Owner(record) \in Seq(Nat)
           /\ Fixed(record) \in Seq(Nat) /\ Len(Fixed(record)) = 8
           /\ Data(record) \in Seq(Nat) /\ Len(Data(record)) \in Nat
           /\ RecordBytes(record) = ((Owner(record) \o Fixed(record))
                                \o ShortBytes(Len(Data(record)))) \o Data(record)
           /\ RecordBytes(record) \in Seq(Nat)
           /\ Len(RecordBytes(record)) = Len(Owner(record)) + 10 + Len(Data(record))
<1>. DEFINE o == Owner(record)
            type == ShortBytes(record.type)
            rest == IF record.type = OPT THEN <<16, 0, 0, 0, 0, 0>> ELSE <<0, 1, 0, 0, 0, 60>>
            d == Data(record)
            len == ShortBytes(Len(d))
<1>1. record.type \in Nat
  BY DEF IsRecord, OPT
<1>2. IsDomainName(o) /\ d \in Seq(Nat)
  <2>1. CASE record.type = OPT
    <3>1. AreOptions(record.options)
      BY <2>1 DEF IsRecord, AreOptions
    <3>2. o = <<0>> /\ d = OptionsBytes(record.options)
      BY <2>1 DEF Owner, Data
    <3>3. IsDomainName(<<0>>)
      <4>1. <<0>> \in Seq(Nat) /\ Len(<<0>>) = 1 /\ <<0>>[1] = 0 /\ {1} \subseteq DOMAIN <<0>>
        OBVIOUS
      <4>. QED  BY <4>1 DEF IsDomainName
    <3>. QED  BY <3>1, <3>2, <3>3, OptionsAreBytes
  <2>2. CASE record.type # OPT
    BY <2>2 DEF IsRecord, Owner, Data
  <2>. QED  BY <2>1, <2>2
<1>3. o \in Seq(Nat) /\ Len(o) \in Nat /\ Len(d) \in Nat
  <2>1. o \in Seq(Nat)
    BY <1>2 DEF IsDomainName
  <2>. HIDE DEF o, d
  <2>. QED  BY <1>2, <2>1
<1>4. rest \in Seq(Nat) /\ Len(rest) = 6
  OBVIOUS
<1>5. /\ type \in Seq(Nat) /\ Len(type) = 2
      /\ len \in Seq(Nat) /\ Len(len) = 2
  <2>. HIDE DEF d
  <2>. QED  BY <1>1, <1>3, ShortIsBytes
<1>6. Fixed(record) = type \o rest
  BY DEF Fixed
<1>7. RecordBytes(record) = (((o \o type) \o rest) \o len) \o d
  <2>1. CASE record.type = OPT
    BY <2>1 DEF RecordBytes, Owner, Data
  <2>2. CASE record.type # OPT
    BY <2>2 DEF RecordBytes, Owner, Data
  <2>. QED  BY <2>1, <2>2
<1>. HIDE DEF o, type, rest, len, d
<1>8. type \o rest \in Seq(Nat) /\ Len(type \o rest) = 8
  <2>1. type \o rest \in Seq(Nat) /\ Len(type \o rest) = Len(type) + Len(rest)
    BY <1>4, <1>5, Joined
  <2>. QED  BY <1>4, <1>5, <2>1
<1>9. (o \o type) \o rest = o \o (type \o rest)
  BY <1>3, <1>4, <1>5, JoinedTwice
<1>. DEFINE f == type \o rest
<1>. HIDE DEF f
<1>10. f \in Seq(Nat) /\ Len(f) = 8 /\ RecordBytes(record) = ((o \o f) \o len) \o d
  BY <1>7, <1>8, <1>9 DEF f
<1>11. o \o f \in Seq(Nat) /\ Len(o \o f) = Len(o) + 8
  BY <1>3, <1>10, Joined
<1>12. (o \o f) \o len \in Seq(Nat) /\ Len((o \o f) \o len) = Len(o) + 8 + 2
  BY <1>5, <1>11, Joined
<1>13. /\ ((o \o f) \o len) \o d \in Seq(Nat)
       /\ Len(((o \o f) \o len) \o d) = Len(o) + 8 + 2 + Len(d)
  BY <1>2, <1>12, Joined
<1>14. Len(o) + 8 + 2 + Len(d) = Len(o) + 10 + Len(d)
  BY <1>3
<1>. QED  BY <1>2, <1>3, <1>6, <1>10, <1>13, <1>14 DEF o, d, len, f

\* Where the parts of a record are.
LEMMA HasRecord ==
    ASSUME NEW bytes \in Seq(Nat), NEW p \in Nat \ {0}, NEW record, IsRecord(record),
           Has(bytes, p, RecordBytes(record))
    PROVE  LET q == p + Len(Owner(record))
           IN  /\ q \in Nat \ {0}
               /\ Has(bytes, p, Owner(record))
               /\ Has(bytes, q, Fixed(record))
               /\ Has(bytes, q + 8, ShortBytes(Len(Data(record))))
               /\ Has(bytes, q + 10, Data(record))
<1>. DEFINE o == Owner(record)
            f == Fixed(record)
            d == Data(record)
            len == ShortBytes(Len(d))
            q == p + Len(o)
<1>1. /\ o \in Seq(Nat) /\ Len(o) \in Nat
      /\ f \in Seq(Nat) /\ Len(f) = 8
      /\ d \in Seq(Nat) /\ Len(d) \in Nat
      /\ RecordBytes(record) = ((o \o f) \o len) \o d
  <2>1. /\ o \in Seq(Nat) /\ f \in Seq(Nat) /\ d \in Seq(Nat)
        /\ Len(f) = 8 /\ Len(d) \in Nat
        /\ RecordBytes(record) = ((o \o f) \o len) \o d
    BY RecordParts
  <2>. HIDE DEF o, f, d, len
  <2>. QED  BY <2>1
<1>2. len \in Seq(Nat) /\ Len(len) = 2
  BY <1>1, ShortIsBytes
<1>. HIDE DEF o, f, d, len
<1>3. o \o f \in Seq(Nat) /\ Len(o \o f) = Len(o) + 8
  BY <1>1, Joined
<1>4. (o \o f) \o len \in Seq(Nat) /\ Len((o \o f) \o len) = Len(o) + 10
  <2>1. (o \o f) \o len \in Seq(Nat) /\ Len((o \o f) \o len) = Len(o) + 8 + 2
    BY <1>2, <1>3, Joined
  <2>. QED  BY <1>1, <2>1
<1>5. Has(bytes, p, (o \o f) \o len) /\ Has(bytes, p + (Len(o) + 10), d)
  <2>. DEFINE front == (o \o f) \o len
  <2>1. Has(bytes, p, front \o d) /\ front \in Seq(Nat) /\ Len(front) = Len(o) + 10
    BY <1>1, <1>4
  <2>. HIDE DEF front
  <2>2. Has(bytes, p, front) /\ Has(bytes, p + Len(front), d)
    BY <1>1, <2>1, HasBoth
  <2>. QED  BY <2>1, <2>2 DEF front
<1>6. Has(bytes, p, o \o f) /\ Has(bytes, p + (Len(o) + 8), len)
  <2>. DEFINE front == o \o f
  <2>1. Has(bytes, p, front \o len) /\ front \in Seq(Nat) /\ Len(front) = Len(o) + 8
    BY <1>3, <1>5
  <2>. HIDE DEF front
  <2>2. Has(bytes, p, front) /\ Has(bytes, p + Len(front), len)
    BY <1>2, <2>1, HasBoth
  <2>. QED  BY <2>1, <2>2 DEF front
<1>7. Has(bytes, p, o) /\ Has(bytes, q, f)
  BY <1>1, <1>6, HasBoth
<1>8. q \in Nat \ {0} /\ p + (Len(o) + 8) = q + 8 /\ p + (Len(o) + 10) = q + 10
  BY <1>1
<1>. QED  BY <1>5, <1>6, <1>7, <1>8 DEF o, f, d, len

\* SkipResponse() finds the end of a record.
LEMMA RecordSkipped ==
    ASSUME NEW bytes \in Seq(Nat), NEW p \in Nat \ {0}, NEW record, IsRecord(record),
           Has(bytes, p, RecordBytes(record)), Len(bytes) < 65540
    PROVE  SkipResponse(bytes, p) = p + Len(RecordBytes(record))
<1>. DEFINE o == Owner(record)
            d == Data(record)
            q == p + Len(o)
            e == End(bytes)
            n == Len(d)
<1>1. /\ IsDomainName(o) /\ Len(o) \in Nat /\ n \in Nat
      /\ Len(RecordBytes(record)) = Len(o) + 10 + n
  <2>1. o \in Seq(Nat)
    BY RecordParts
  <2>. QED  BY <2>1, RecordParts
<1>2. /\ q \in Nat \ {0} /\ Has(bytes, p, o)
      /\ Has(bytes, q + 8, ShortBytes(n)) /\ Has(bytes, q + 10, d)
  BY HasRecord
<1>3. Len(bytes) \in Nat /\ n < 65536
  <2>1. q + 10 + n <= Len(bytes) + 1 /\ Len(bytes) \in Nat
    BY <1>2 DEF Has, End
  <2>. HIDE DEF n, q
  <2>. QED  BY <1>1, <1>2, <2>1
<1>. HIDE DEF o, d
<1>4. SkipName(bytes, p) = q
  BY <1>1, <1>2, NameSkipped
<1>. HIDE DEF n
<1>5. Short(bytes, q + 8) = n
  <2>1. q + 8 \in Nat \ {0}
    BY <1>2
  <2>. HIDE DEF q
  <2>. QED  BY <1>1, <1>2, <1>3, <2>1, HasShort
<1>6. e \in Nat /\ q + 10 + n <= e
  <2>1. q + 10 + Len(d) <= e
    BY <1>2 DEF Has
  <2>. QED  BY <2>1 DEF End, n
<1>7. p + Len(RecordBytes(record)) = q + 10 + n
  BY <1>1
<1>. HIDE DEF q, e
<1>8. SkipFixed(bytes, q, 8) = q + 8
  BY <1>1, <1>2, <1>6 DEF SkipFixed, e
<1>9. e - (q + 8) >= 2 /\ e - (q + 8 + 2) >= n /\ q + 8 + 2 + n = q + 10 + n
  BY <1>1, <1>2, <1>6
<1>10. SkipResponse(bytes, p) = q + 8 + 2 + n
  BY <1>4, <1>5, <1>8, <1>9 DEF SkipResponse, e
<1>. QED  BY <1>7, <1>9, <1>10

\* removeEdnsPadding() takes for an OPT record what is one.
LEMMA OptFound ==
    ASSUME NEW bytes \in Seq(Nat), NEW p \in Nat \ {0}, NEW record, IsRecord(record),
           Has(bytes, p, RecordBytes(record))
    PROVE  /\ IsOpt(bytes, p) <=> record.type = OPT
           /\ p # End(bytes) /\ p + Len(RecordBytes(record)) <= End(bytes)
<1>. DEFINE o == Owner(record)
            f == Fixed(record)
            type == record.type
            rest == IF type = OPT THEN <<16, 0, 0, 0, 0, 0>> ELSE <<0, 1, 0, 0, 0, 60>>
            q == p + Len(o)
<1>1. /\ IsDomainName(o) /\ o \in Seq(Nat) /\ Len(Data(record)) \in Nat
      /\ Len(RecordBytes(record)) = Len(o) + 10 + Len(Data(record))
  BY RecordParts
<1>2. type \in Nat /\ type < 65536 /\ OPT < 65536
  BY DEF IsRecord, OPT
<1>3. q \in Nat \ {0} /\ Has(bytes, p, o) /\ Has(bytes, q, f)
  BY HasRecord
<1>4. f = ShortBytes(type) \o rest /\ rest \in Seq(Nat)
  BY DEF Fixed
<1>5. ShortBytes(type) \in Seq(Nat)
  BY <1>2, ShortIsBytes
<1>6. p + Len(RecordBytes(record)) <= End(bytes) /\ End(bytes) \in Nat
  BY DEF Has, End
<1>7. type = OPT => o = <<0>>
  BY DEF Owner
<1>. HIDE DEF o, f, rest, q
<1>8. Short(bytes, q) = type
  <2>1. Has(bytes, q, ShortBytes(type))
    BY <1>3, <1>4, <1>5, HasBoth
  <2>. HIDE DEF type
  <2>. QED  BY <1>2, <1>3, <2>1, HasShort
<1>9. Len(o) \in Nat /\ \A i \in 1..Len(o) : bytes[p + i - 1] = o[i]
  BY <1>1, <1>3 DEF Has
<1>10. Len(o) >= 1 /\ (o[1] = 0 => Len(o) = 1)
  <2>1. PICK starts \in SUBSET DOMAIN o :
        /\ 1 \in starts
        /\ \A i \in starts :
            \/ o[i] = 0 /\ i = Len(o)
            \/ o[i] >= 192 /\ i + 1 = Len(o)
            \/ 0 < o[i] /\ o[i] < 192 /\ i + o[i] + 1 \in starts
    BY <1>1 DEF IsDomainName
  <2>2. 1 \in DOMAIN o /\ DOMAIN o = 1..Len(o) /\ o[1] \in Nat
    BY <1>1, <2>1
  <2>. QED  BY <2>1, <2>2
<1>11. bytes[p] = o[1]
  <2>1. 1 \in 1..Len(o) /\ p + 1 - 1 = p
    BY <1>9, <1>10
  <2>. QED  BY <1>9, <2>1
<1>12. p # End(bytes)
  BY <1>1, <1>6, <1>9
<1>13. ASSUME type = OPT
       PROVE  IsOpt(bytes, p)
  <2>1. Len(o) = 1 /\ o[1] = 0
    BY <1>7, <1>13
  <2>2. q = p + 1
    BY <2>1 DEF q
  <2>3. End(bytes) - p >= 11
    BY <1>1, <1>6, <2>1
  <2>. QED  BY <1>8, <1>11, <1>13, <2>1, <2>2, <2>3 DEF IsOpt
<1>14. ASSUME IsOpt(bytes, p)
       PROVE  type = OPT
  <2>1. bytes[p] = 0 /\ Short(bytes, p + 1) = OPT
    BY <1>14 DEF IsOpt
  <2>2. q = p + 1
    BY <1>10, <1>11, <2>1 DEF q
  <2>. QED  BY <1>8, <2>1, <2>2
<1>. QED  BY <1>6, <1>12, <1>13, <1>14

-----------------------------------------------------------------------------

(* Sections *)

\* The bytes of each record.
Parts(records) == [i \in DOMAIN records |-> RecordBytes(records[i])]

\* The bytes of a section are those of each record, one after the other.
LEMMA SectionIsBytes ==
    ASSUME NEW records, AreRecords(records)
    PROVE  /\ Len(records) \in Nat
           /\ AreBytes(Parts(records), Len(records))
           /\ SectionBytes(records) = Flat(Parts(records), Len(records))
           /\ SectionBytes(records) \in Seq(Nat)
           /\ Len(SectionBytes(records)) >= Len(records)
           /\ \A i \in 1..Len(records) : /\ IsRecord(records[i])
                                         /\ Parts(records)[i] = RecordBytes(records[i])
                                         /\ Len(Parts(records)[i]) >= 10
<1>. DEFINE n == Len(records)
            ss == Parts(records)
<1>1. n \in Nat /\ DOMAIN records = 1..n
  BY DEF AreRecords, IsSequence
<1>2. ASSUME NEW i \in 1..n
      PROVE  /\ IsRecord(records[i]) /\ ss[i] = RecordBytes(records[i])
             /\ ss[i] \in Seq(Nat) /\ Len(ss[i]) >= 10
  <2>1. ss[i] = RecordBytes(records[i]) /\ IsRecord(records[i])
    BY <1>1 DEF Parts, AreRecords
  <2>. DEFINE record == records[i]
  <2>. HIDE DEF record
  <2>2. /\ RecordBytes(record) \in Seq(Nat)
        /\ Owner(record) \in Seq(Nat) /\ Len(Data(record)) \in Nat
        /\ Len(RecordBytes(record)) = Len(Owner(record)) + 10 + Len(Data(record))
    BY <2>1, RecordParts DEF record
  <2>3. Len(Owner(record)) \in Nat
    BY <2>2
  <2>4. Len(RecordBytes(record)) >= 10
    BY <2>2, <2>3
  <2>. QED  BY <2>1, <2>2, <2>4 DEF record
<1>3. DOMAIN ss = 1..n /\ ss = [i \in 1..n |-> ss[i]]
  BY <1>1 DEF Parts
<1>4. SectionBytes(records) = FlattenSeq(ss)
  BY DEF SectionBytes, Parts
<1>. HIDE DEF ss, n
<1>5. AreBytes(ss, n)
  BY <1>2, <1>3 DEF AreBytes
<1>6. FlattenSeq(ss) = Flat(ss, n)
  BY <1>3 DEF Flat
<1>7. n \in 0..n
  BY <1>1
<1>8. Flat(ss, n) \in Seq(Nat)
  BY <1>1, <1>5, <1>7, FlatBytes
<1>9. Len(Flat(ss, n)) >= n
  <2>1. \A i \in 1..n : Len(ss[i]) >= 1
    <3>1. \A i \in 1..n : Len(ss[i]) \in Nat /\ Len(ss[i]) >= 10
      BY <1>2
    <3>. QED  BY <3>1
  <2>. QED  BY <1>1, <1>5, <2>1, FlatLong
<1>. QED  BY <1>1, <1>2, <1>4, <1>5, <1>6, <1>8, <1>9 DEF ss, n

\* skipResponses() gets from record to record.
LEMMA SectionSkipped ==
    ASSUME NEW bytes \in Seq(Nat), Len(bytes) < 65540, NEW p \in Nat \ {0},
           NEW records, AreRecords(records), Has(bytes, p, SectionBytes(records)),
           NEW k \in 0..Len(records)
    PROVE  Repeat(SkipResponse, bytes, k, p) = p + Len(Flat(Parts(records), k))
<1>. DEFINE n == Len(records)
            ss == Parts(records)
            at(j) == p + Len(Flat(ss, j))
<1>1. /\ n \in Nat /\ AreBytes(ss, n) /\ Has(bytes, p, Flat(ss, n))
      /\ \A i \in 1..n : IsRecord(records[i]) /\ ss[i] = RecordBytes(records[i])
  BY SectionIsBytes
<1>. HIDE DEF n, ss
<1>2. k \in Nat /\ k <= n
  BY <1>1 DEF n
<1>3. PICK run : /\ Runs("responses", bytes, p, Numbers(k), k, run)
                 /\ Repeat(SkipResponse, bytes, k, p) = run[k]
  BY <1>2, RepeatRuns
<1>. DEFINE S == {j \in Nat : j <= k => run[j] = at(j)}
<1>4. 0 \in S
  <2>1. Flat(ss, 0) = <<>>
    BY FlatEmpty
  <2>2. Len(Flat(ss, 0)) = 0
    BY <2>1
  <2>3. at(0) = p
    BY <2>2
  <2>4. run[0] = p
    BY <1>3 DEF Runs
  <2>. HIDE DEF at
  <2>. QED  BY <2>3, <2>4
<1>5. ASSUME NEW j \in Nat, j \in S
      PROVE  j + 1 \in S
  <2>. SUFFICES ASSUME j + 1 <= k
                PROVE  run[j + 1] = at(j + 1)
    OBVIOUS
  <2>1. j \in 0..(k - 1) /\ j \in 0..(n - 1) /\ j + 1 \in 1..n
    BY <1>1, <1>2
  <2>2. run[j + 1] = Pass("responses", bytes, run[j], Numbers(k)[j + 1])
    BY <1>3, <2>1 DEF Runs
  <2>3. run[j] = at(j)
    BY <1>2, <1>5
  <2>4. IsRecord(records[j + 1]) /\ ss[j + 1] = RecordBytes(records[j + 1])
    BY <1>1, <2>1
  <2>5. Len(Flat(ss, j)) \in Nat /\ Has(bytes, at(j), ss[j + 1])
    BY <1>1, <2>1, HasEach
  <2>6. /\ Flat(ss, j) \in Seq(Nat) /\ ss[j + 1] \in Seq(Nat)
        /\ Flat(ss, j + 1) = Flat(ss, j) \o ss[j + 1]
    BY <1>1, <2>1, FlatStep
  <2>7. Len(Flat(ss, j + 1)) = Len(Flat(ss, j)) + Len(ss[j + 1]) /\ Len(ss[j + 1]) \in Nat
    BY <2>6, Joined
  <2>8. at(j) \in Nat \ {0} /\ at(j + 1) = at(j) + Len(ss[j + 1])
    <3>. DEFINE a == Len(Flat(ss, j))
                b == Len(ss[j + 1])
                c == Len(Flat(ss, j + 1))
    <3>1. a \in Nat /\ b \in Nat /\ c = a + b /\ at(j) = p + a /\ at(j + 1) = p + c
      BY <2>5, <2>7
    <3>. HIDE DEF a, b, c, at
    <3>2. at(j) \in Nat \ {0} /\ at(j + 1) = at(j) + b
      BY <3>1
    <3>. QED  BY <3>2 DEF b
  <2>. HIDE DEF at
  <2>. DEFINE record == records[j + 1]
              here == at(j)
  <2>9. IsRecord(record) /\ Has(bytes, here, RecordBytes(record)) /\ here \in Nat \ {0}
    BY <2>4, <2>5, <2>8
  <2>. HIDE DEF record, here
  <2>10. here # End(bytes)
    BY <2>9, OptFound
  <2>11. SkipResponse(bytes, here) = here + Len(RecordBytes(record))
    BY <2>9, RecordSkipped
  <2>12. run[j + 1] = SkipResponse(bytes, here)
    BY <2>2, <2>3, <2>10 DEF Pass, here
  <2>. QED  BY <2>4, <2>8, <2>11, <2>12 DEF record, here
<1>. HIDE DEF S
<1>6. k \in S
  BY <1>2, <1>4, <1>5, Induction
<1>7. run[k] = at(k)
  BY <1>2, <1>6 DEF S
<1>. QED  BY <1>3, <1>7 DEF ss

-----------------------------------------------------------------------------

(* Responses *)

\* A header and the question.
FrontOf(message) ==
    ((((<<1, 2, 128, 0, 0, 1>> \o Count(message.answers))
        \o Count(message.authorities)) \o Count(message.additional)) \o Question)

HasSections(message) ==
    /\ AreRecords(message.answers) /\ AreRecords(message.authorities)
    /\ AreRecords(message.additional)

IsResponse(message) == HasSections(message) /\ Len(Body(message)) < 65536

\* The bytes of a response are a header, a question and three sections.
LEMMA BodyParts ==
    ASSUME NEW message, HasSections(message)
    PROVE  LET a == SectionBytes(message.answers)
               b == SectionBytes(message.authorities)
               c == SectionBytes(message.additional)
           IN  /\ FrontOf(message) \in Seq(Nat) /\ Len(FrontOf(message)) = 19
               /\ a \in Seq(Nat) /\ b \in Seq(Nat) /\ c \in Seq(Nat)
               /\ Body(message) = ((FrontOf(message) \o a) \o b) \o c
               /\ Body(message) \in Seq(Nat)
               /\ Len(Body(message)) = 19 + Len(a) + Len(b) + Len(c)
<1>. DEFINE a == SectionBytes(message.answers)
            b == SectionBytes(message.authorities)
            c == SectionBytes(message.additional)
            ids == <<1, 2, 128, 0, 0, 1>>
            ca == Count(message.answers)
            cb == Count(message.authorities)
            cc == Count(message.additional)
            f == FrontOf(message)
<1>1. a \in Seq(Nat) /\ b \in Seq(Nat) /\ c \in Seq(Nat)
  BY SectionIsBytes DEF HasSections
<1>2. /\ Len(message.answers) \in Nat /\ Len(message.authorities) \in Nat
      /\ Len(message.additional) \in Nat
  BY SectionIsBytes DEF HasSections
<1>3. /\ ca \in Seq(Nat) /\ Len(ca) = 2 /\ cb \in Seq(Nat) /\ Len(cb) = 2
      /\ cc \in Seq(Nat) /\ Len(cc) = 2
  BY <1>2, ShortIsBytes DEF Count
<1>4. ids \in Seq(Nat) /\ Len(ids) = 6 /\ Question \in Seq(Nat) /\ Len(Question) = 7
  BY DEF Question
<1>5. f = (((ids \o ca) \o cb) \o cc) \o Question
  BY DEF FrontOf
<1>6. Body(message) = ((f \o a) \o b) \o c
  BY DEF Body, FrontOf
<1>. HIDE DEF a, b, c, ids, ca, cb, cc, f
<1>7. ids \o ca \in Seq(Nat) /\ Len(ids \o ca) = Len(ids) + Len(ca)
  BY <1>3, <1>4, Joined
<1>8. /\ (ids \o ca) \o cb \in Seq(Nat)
      /\ Len((ids \o ca) \o cb) = Len(ids \o ca) + Len(cb)
  BY <1>3, <1>7, Joined
<1>9. /\ ((ids \o ca) \o cb) \o cc \in Seq(Nat)
      /\ Len(((ids \o ca) \o cb) \o cc) = Len((ids \o ca) \o cb) + Len(cc)
  BY <1>3, <1>8, Joined
<1>10. f \in Seq(Nat) /\ Len(f) = Len(((ids \o ca) \o cb) \o cc) + Len(Question)
  BY <1>4, <1>5, <1>9, Joined
<1>11. Len(f) = 19
  <2>. DEFINE x == Len(ids \o ca)
              y == Len((ids \o ca) \o cb)
              z == Len(((ids \o ca) \o cb) \o cc)
  <2>1. x = 8 /\ y = x + 2 /\ z = y + 2 /\ Len(f) = z + 7
    BY <1>3, <1>4, <1>7, <1>8, <1>9, <1>10
  <2>. HIDE DEF x, y, z
  <2>. QED  BY <2>1
<1>12. f \o a \in Seq(Nat) /\ Len(f \o a) = Len(f) + Len(a)
  BY <1>1, <1>10, Joined
<1>13. (f \o a) \o b \in Seq(Nat) /\ Len((f \o a) \o b) = Len(f \o a) + Len(b)
  BY <1>1, <1>12, Joined
<1>14. /\ ((f \o a) \o b) \o c \in Seq(Nat)
       /\ Len(((f \o a) \o b) \o c) = Len((f \o a) \o b) + Len(c)
  BY <1>1, <1>13, Joined
<1>15. Len(((f \o a) \o b) \o c) = 19 + Len(a) + Len(b) + Len(c)
  BY <1>11, <1>12, <1>13, <1>14
<1>. QED  BY <1>1, <1>6, <1>10, <1>11, <1>14, <1>15 DEF a, b, c, f

\* Where the parts of a response are.
LEMMA HasResponse ==
    ASSUME NEW message, IsResponse(message)
    PROVE  LET bytes == Encode(message)
               p == 22 + Len(SectionBytes(message.answers))
               q == p + Len(SectionBytes(message.authorities))
           IN  /\ bytes \in Seq(Nat) /\ Len(bytes) = Len(Body(message)) + 2
               /\ Has(bytes, 1, ShortBytes(Len(Body(message))))
               /\ Has(bytes, 3, <<1, 2, 128, 0, 0, 1>>)
               /\ Has(bytes, 9, Count(message.answers))
               /\ Has(bytes, 11, Count(message.authorities))
               /\ Has(bytes, 13, Count(message.additional))
               /\ Has(bytes, 15, Question)
               /\ Has(bytes, 22, SectionBytes(message.answers))
               /\ p \in Nat \ {0} /\ q \in Nat \ {0}
               /\ Has(bytes, p, SectionBytes(message.authorities))
               /\ Has(bytes, q, SectionBytes(message.additional))
<1>. DEFINE bytes == Encode(message)
            a == SectionBytes(message.answers)
            b == SectionBytes(message.authorities)
            c == SectionBytes(message.additional)
            f == FrontOf(message)
            body == Body(message)
            size == ShortBytes(Len(body))
            ids == <<1, 2, 128, 0, 0, 1>>
            ca == Count(message.answers)
            cb == Count(message.authorities)
            cc == Count(message.additional)
<1>0. HasSections(message)
  BY DEF IsResponse
<1>1. /\ f \in Seq(Nat) /\ Len(f) = 19
      /\ a \in Seq(Nat) /\ b \in Seq(Nat) /\ c \in Seq(Nat)
      /\ body = ((f \o a) \o b) \o c /\ body \in Seq(Nat)
  BY <1>0, BodyParts
<1>2. /\ ca \in Seq(Nat) /\ Len(ca) = 2 /\ cb \in Seq(Nat) /\ Len(cb) = 2
      /\ cc \in Seq(Nat) /\ Len(cc) = 2
  <2>1. /\ Len(message.answers) \in Nat /\ Len(message.authorities) \in Nat
        /\ Len(message.additional) \in Nat
    BY SectionIsBytes DEF IsResponse, HasSections
  <2>. QED  BY <2>1, ShortIsBytes DEF Count
<1>3. ids \in Seq(Nat) /\ Len(ids) = 6 /\ Question \in Seq(Nat)
  BY DEF Question
<1>4. f = (((ids \o ca) \o cb) \o cc) \o Question
  BY DEF FrontOf
<1>5. bytes = size \o body /\ Len(body) \in Nat
  <2>1. bytes = size \o body
    BY DEF Encode
  <2>. HIDE DEF body
  <2>. QED  BY <1>1, <2>1
<1>. HIDE DEF body
<1>6. size \in Seq(Nat) /\ Len(size) = 2
  BY <1>5, ShortIsBytes
<1>. HIDE DEF bytes, a, b, c, f, size, ids, ca, cb, cc
<1>7. bytes \in Seq(Nat) /\ Len(bytes) = Len(body) + 2
  <2>1. size \o body \in Seq(Nat) /\ Len(size \o body) = Len(size) + Len(body)
    BY <1>1, <1>6, Joined
  <2>. QED  BY <1>5, <1>6, <2>1
<1>8. Has(bytes, 1, size) /\ Has(bytes, 3, body)
  <2>3. Has(bytes, 1, bytes)
    BY <1>7, HasAll
  <2>1. Has(bytes, 1, size \o body) /\ 1 \in Nat \ {0}
    BY <1>5, <2>3
  <2>2. Has(bytes, 1, size) /\ Has(bytes, 1 + Len(size), body)
    BY <1>1, <1>6, <1>7, <2>1, HasBoth
  <2>. QED  BY <1>6, <2>2
<1>9. /\ f \o a \in Seq(Nat) /\ Len(f \o a) = Len(f) + Len(a)
      /\ (f \o a) \o b \in Seq(Nat)
      /\ Len((f \o a) \o b) = Len(f \o a) + Len(b)
  <2>1. f \o a \in Seq(Nat) /\ Len(f \o a) = Len(f) + Len(a)
    BY <1>1, Joined
  <2>. QED  BY <1>1, <2>1, Joined
<1>10. Has(bytes, 3, (f \o a) \o b) /\ Has(bytes, 3 + Len((f \o a) \o b), c)
  <2>. DEFINE front == (f \o a) \o b
  <2>1. Has(bytes, 3, front \o c) /\ front \in Seq(Nat) /\ 3 \in Nat \ {0}
    BY <1>1, <1>8, <1>9
  <2>. HIDE DEF front
  <2>2. Has(bytes, 3, front) /\ Has(bytes, 3 + Len(front), c)
    BY <1>1, <1>7, <2>1, HasBoth
  <2>. QED  BY <2>2 DEF front
<1>11. Has(bytes, 3, f \o a) /\ Has(bytes, 3 + Len(f \o a), b)
  <2>. DEFINE front == f \o a
  <2>1. Has(bytes, 3, front \o b) /\ front \in Seq(Nat) /\ 3 \in Nat \ {0}
    BY <1>9, <1>10
  <2>. HIDE DEF front
  <2>2. Has(bytes, 3, front) /\ Has(bytes, 3 + Len(front), b)
    BY <1>1, <1>7, <2>1, HasBoth
  <2>. QED  BY <2>2 DEF front
<1>12. Has(bytes, 3, f) /\ Has(bytes, 3 + Len(f), a)
  <2>1. 3 \in Nat \ {0}
    OBVIOUS
  <2>. QED  BY <1>1, <1>7, <1>11, <2>1, HasBoth
<1>. DEFINE p == 22 + Len(a)
            q == p + Len(b)
<1>13. Len(a) \in Nat /\ Len(b) \in Nat
  BY <1>1
<1>14. /\ 3 + Len(f) = 22 /\ 3 + Len(f \o a) = p /\ 3 + Len((f \o a) \o b) = q
       /\ p \in Nat \ {0} /\ q \in Nat \ {0}
  BY <1>1, <1>9, <1>13
<1>15. /\ ids \o ca \in Seq(Nat) /\ Len(ids \o ca) = 8
       /\ (ids \o ca) \o cb \in Seq(Nat) /\ Len((ids \o ca) \o cb) = 10
       /\ ((ids \o ca) \o cb) \o cc \in Seq(Nat) /\ Len(((ids \o ca) \o cb) \o cc) = 12
  <2>1. ids \o ca \in Seq(Nat) /\ Len(ids \o ca) = Len(ids) + Len(ca)
    BY <1>2, <1>3, Joined
  <2>2. Len(ids \o ca) = 8
    BY <1>2, <1>3, <2>1
  <2>3. (ids \o ca) \o cb \in Seq(Nat) /\ Len((ids \o ca) \o cb) = Len(ids \o ca) + Len(cb)
    BY <1>2, <2>1, Joined
  <2>4. Len((ids \o ca) \o cb) = 10
    BY <1>2, <2>2, <2>3
  <2>5. /\ ((ids \o ca) \o cb) \o cc \in Seq(Nat)
        /\ Len(((ids \o ca) \o cb) \o cc) = Len((ids \o ca) \o cb) + Len(cc)
    BY <1>2, <2>3, Joined
  <2>6. Len(((ids \o ca) \o cb) \o cc) = 12
    BY <1>2, <2>4, <2>5
  <2>. QED  BY <2>1, <2>2, <2>3, <2>4, <2>5, <2>6
<1>16. Has(bytes, 3, ((ids \o ca) \o cb) \o cc) /\ Has(bytes, 15, Question)
  <2>. DEFINE front == ((ids \o ca) \o cb) \o cc
  <2>1. /\ Has(bytes, 3, front \o Question) /\ front \in Seq(Nat) /\ Len(front) = 12
        /\ 3 \in Nat \ {0} /\ 3 + 12 = 15
    BY <1>4, <1>12, <1>15
  <2>. HIDE DEF front
  <2>2. Has(bytes, 3, front) /\ Has(bytes, 3 + Len(front), Question)
    BY <1>3, <1>7, <2>1, HasBoth
  <2>. QED  BY <2>1, <2>2 DEF front
<1>17. Has(bytes, 3, (ids \o ca) \o cb) /\ Has(bytes, 13, cc)
  <2>. DEFINE front == (ids \o ca) \o cb
  <2>1. /\ Has(bytes, 3, front \o cc) /\ front \in Seq(Nat) /\ Len(front) = 10
        /\ 3 \in Nat \ {0} /\ 3 + 10 = 13
    BY <1>15, <1>16
  <2>. HIDE DEF front
  <2>2. Has(bytes, 3, front) /\ Has(bytes, 3 + Len(front), cc)
    BY <1>2, <1>7, <2>1, HasBoth
  <2>. QED  BY <2>1, <2>2 DEF front
<1>18. Has(bytes, 3, ids \o ca) /\ Has(bytes, 11, cb)
  <2>. DEFINE front == ids \o ca
  <2>1. /\ Has(bytes, 3, front \o cb) /\ front \in Seq(Nat) /\ Len(front) = 8
        /\ 3 \in Nat \ {0} /\ 3 + 8 = 11
    BY <1>15, <1>17
  <2>. HIDE DEF front
  <2>2. Has(bytes, 3, front) /\ Has(bytes, 3 + Len(front), cb)
    BY <1>2, <1>7, <2>1, HasBoth
  <2>. QED  BY <2>1, <2>2 DEF front
<1>19. Has(bytes, 3, ids) /\ Has(bytes, 9, ca)
  <2>1. 3 \in Nat \ {0} /\ 3 + 6 = 9
    OBVIOUS
  <2>2. Has(bytes, 3, ids) /\ Has(bytes, 3 + Len(ids), ca)
    BY <1>2, <1>3, <1>7, <1>18, <2>1, HasBoth
  <2>. QED  BY <1>3, <2>1, <2>2
<1>20. Has(bytes, 22, a) /\ Has(bytes, p, b) /\ Has(bytes, q, c)
  BY <1>10, <1>11, <1>12, <1>14
<1>. HIDE DEF p, q
<1>. QED
  BY <1>7, <1>8, <1>14, <1>16, <1>17, <1>18, <1>19, <1>20
  DEF bytes, a, b, c, size, ids, ca, cb, cc, p, q, body

\* skipQueries() gets over the question.
LEMMA QuestionSkipped ==
    ASSUME NEW bytes \in Seq(Nat), Has(bytes, 15, Question)
    PROVE  Repeat(SkipQuery, bytes, 1, 15) = 22
<1>. DEFINE name == <<1, 97, 0>>
<1>1. /\ 22 <= End(bytes) /\ End(bytes) \in Nat
      /\ bytes[15] = 1 /\ bytes[16] = 97 /\ bytes[17] = 0
  <2>1. Len(Question) = 7 /\ Question[1] = 1 /\ Question[2] = 97 /\ Question[3] = 0
    BY DEF Question
  <2>2. 15 + 7 <= End(bytes) /\ \A j \in 1..7 : bytes[15 + j - 1] = Question[j]
    BY <2>1 DEF Has
  <2>3. bytes[15 + 1 - 1] = 1 /\ bytes[15 + 2 - 1] = 97 /\ bytes[15 + 3 - 1] = 0
    BY <2>1, <2>2
  <2>. QED  BY <2>2, <2>3 DEF End
<1>2. name \in Seq(Nat) /\ Len(name) = 3 /\ name[1] = 1 /\ name[2] = 97 /\ name[3] = 0
      /\ DOMAIN name = 1..3
  OBVIOUS
<1>. HIDE DEF name
<1>3. Has(bytes, 15, name)
  <2>1. ASSUME NEW j \in 1..3
        PROVE  bytes[15 + j - 1] = name[j]
    <3>1. j = 1 \/ j = 2 \/ j = 3
      OBVIOUS
    <3>2. 15 + 1 - 1 = 15 /\ 15 + 2 - 1 = 16 /\ 15 + 3 - 1 = 17
      OBVIOUS
    <3>3. CASE j = 1
      BY <1>1, <1>2, <3>2, <3>3
    <3>4. CASE j = 2
      BY <1>1, <1>2, <3>2, <3>4
    <3>5. CASE j = 3
      BY <1>1, <1>2, <3>2, <3>5
    <3>. QED  BY <3>1, <3>3, <3>4, <3>5
  <2>2. 15 + 3 <= End(bytes)
    BY <1>1
  <2>. QED  BY <1>2, <2>1, <2>2 DEF Has
<1>4. IsDomainName(name)
  <2>1. {1, 3} \in SUBSET DOMAIN name /\ 1 \in {1, 3}
    BY <1>2
  <2>2. \A i \in {1, 3} :
            \/ name[i] = 0 /\ i = Len(name)
            \/ name[i] >= 192 /\ i + 1 = Len(name)
            \/ 0 < name[i] /\ name[i] < 192 /\ i + name[i] + 1 \in {1, 3}
    BY <1>2
  <2>. QED  BY <1>2, <2>1, <2>2 DEF IsDomainName
<1>5. SkipName(bytes, 15) = 18
  <2>1. 15 \in Nat \ {0} /\ 15 + Len(name) = 18
    BY <1>2
  <2>. QED  BY <1>3, <1>4, <2>1, NameSkipped
<1>6. SkipQuery(bytes, 15) = 22
  <2>1. SkipQuery(bytes, 15) = SkipFixed(bytes, 18, 4)
    BY <1>5 DEF SkipQuery
  <2>. DEFINE e == End(bytes)
  <2>2. e \in Nat /\ 22 <= e
    BY <1>1
  <2>3. SkipFixed(bytes, 18, 4) = IF e - 18 > 4 THEN 18 + 4 ELSE e
    BY DEF SkipFixed
  <2>. HIDE DEF e
  <2>. QED  BY <2>1, <2>2, <2>3
<1>7. PICK run : /\ Runs("queries", bytes, 15, Numbers(1), 1, run)
                 /\ Repeat(SkipQuery, bytes, 1, 15) = run[1]
  <2>. DEFINE n == 1
              start == 15
  <2>1. n \in Nat
    OBVIOUS
  <2>. HIDE DEF n, start
  <2>2. \E run : /\ Runs("queries", bytes, start, Numbers(n), n, run)
                 /\ Repeat(SkipQuery, bytes, n, start) = run[n]
    BY <2>1, RepeatRuns
  <2>. QED  BY <2>2 DEF n, start
<1>8. run[0] = 15 /\ run[0 + 1] = Pass("queries", bytes, run[0], Numbers(1)[0 + 1])
  BY <1>7 DEF Runs
<1>9. 0 + 1 = 1 /\ 15 # End(bytes)
  BY <1>1
<1>10. run[1] = SkipQuery(bytes, 15)
  BY <1>8, <1>9 DEF Pass
<1>. QED  BY <1>6, <1>7, <1>10

\* A number that two bytes hold, and a packet whose length they hold.
Fits(n) == n \in Nat /\ n < 65536

IsPacket(bytes) == bytes \in Seq(Nat) /\ Len(bytes) < 65540

\* HasShort, for such a number.
LEMMA HasFit ==
    ASSUME NEW bytes, NEW p \in Nat \ {0}, NEW n, Fits(n), Has(bytes, p, ShortBytes(n))
    PROVE  Short(bytes, p) = n
BY HasShort DEF Fits

\* SectionSkipped, for such a packet.
LEMMA SectionWalked ==
    ASSUME NEW bytes, IsPacket(bytes), NEW p \in Nat \ {0}, NEW records,
           AreRecords(records), Has(bytes, p, SectionBytes(records)),
           NEW k \in 0..Len(records)
    PROVE  Repeat(SkipResponse, bytes, k, p) = p + Len(Flat(Parts(records), k))
BY SectionSkipped DEF IsPacket

\* Where the records of the additional section begin.
Additionals(message) ==
    22 + Len(SectionBytes(message.answers)) + Len(SectionBytes(message.authorities))

RecordAt(message, i) ==
    Additionals(message) + Len(Flat(Parts(message.additional), i - 1))

\* A response is valid, and its counts are those of its records.
LEMMA Sizes ==
    ASSUME NEW message, IsResponse(message)
    PROVE  LET bytes == Encode(message)
           IN  /\ IsPacket(bytes)
               /\ Valid(bytes)
               /\ Queries(bytes) = 1
               /\ Answers(bytes) = Len(message.answers)
               /\ Authorities(bytes) = Len(message.authorities)
               /\ Additional(bytes) = Len(message.additional)
<1>. DEFINE bytes == Encode(message)
            a == SectionBytes(message.answers)
            b == SectionBytes(message.authorities)
            c == SectionBytes(message.additional)
            size == Len(Body(message))
            l == Len(message.answers)
            m == Len(message.authorities)
            n == Len(message.additional)
<1>1. /\ bytes \in Seq(Nat) /\ Len(bytes) = size + 2
      /\ Has(bytes, 1, ShortBytes(size))
      /\ Has(bytes, 3, <<1, 2, 128, 0, 0, 1>>)
      /\ Has(bytes, 9, ShortBytes(l))
      /\ Has(bytes, 11, ShortBytes(m))
      /\ Has(bytes, 13, ShortBytes(n))
  BY HasResponse DEF Count
<1>0. HasSections(message)
  BY DEF IsResponse
<1>2. /\ a \in Seq(Nat) /\ b \in Seq(Nat) /\ c \in Seq(Nat)
      /\ size = 19 + Len(a) + Len(b) + Len(c)
  BY <1>0, BodyParts
<1>3. /\ l \in Nat /\ m \in Nat /\ n \in Nat
      /\ Len(a) >= l /\ Len(b) >= m /\ Len(c) >= n
  BY SectionIsBytes DEF IsResponse, HasSections
<1>4. size < 65536
  BY DEF IsResponse, HasSections
<1>5. Len(a) \in Nat /\ Len(b) \in Nat /\ Len(c) \in Nat
  BY <1>2
<1>. HIDE DEF bytes, a, b, c, size, l, m, n
<1>6. Fits(size) /\ Fits(l) /\ Fits(m) /\ Fits(n) /\ size + 2 < 65540 /\ size + 2 >= 14
  <2>. DEFINE x == Len(a)
              y == Len(b)
              z == Len(c)
  <2>1. x \in Nat /\ y \in Nat /\ z \in Nat
    BY <1>5
  <2>3. x >= l /\ y >= m /\ z >= n
    BY <1>3
  <2>4. size = 19 + x + y + z
    BY <1>2
  <2>. HIDE DEF x, y, z
  <2>. QED  BY <1>3, <1>4, <2>1, <2>3, <2>4 DEF Fits
<1>7. Short(bytes, 1) = size
  <2>1. 1 \in Nat \ {0}
    OBVIOUS
  <2>. QED  BY <1>1, <1>6, <2>1, HasFit
<1>8. Short(bytes, 7) = 1
  <2>1. \A j \in 1..6 : bytes[3 + j - 1] = <<1, 2, 128, 0, 0, 1>>[j]
    BY <1>1 DEF Has
  <2>2. bytes[3 + 5 - 1] = 0 /\ bytes[3 + 6 - 1] = 1
    BY <2>1
  <2>3. 3 + 5 - 1 = 7 /\ 3 + 6 - 1 = 7 + 1
    OBVIOUS
  <2>4. bytes[7] = 0 /\ bytes[7 + 1] = 1
    BY <2>2, <2>3
  <2>. QED  BY <2>4 DEF Short
<1>9. Short(bytes, 9) = l /\ Short(bytes, 11) = m /\ Short(bytes, 13) = n
  <2>1. 9 \in Nat \ {0} /\ 11 \in Nat \ {0} /\ 13 \in Nat \ {0}
    OBVIOUS
  <2>2. Short(bytes, 9) = l
    BY <1>1, <1>6, <2>1, HasFit
  <2>3. Short(bytes, 11) = m
    BY <1>1, <1>6, <2>1, HasFit
  <2>4. Short(bytes, 13) = n
    BY <1>1, <1>6, <2>1, HasFit
  <2>. QED  BY <2>2, <2>3, <2>4
<1>10. IsPacket(bytes)
  BY <1>1, <1>6 DEF IsPacket
<1>11. Valid(bytes)
  <2>. DEFINE k == Len(bytes)
  <2>1. k = size + 2 /\ size \in Nat
    BY <1>1, <1>6 DEF Fits
  <2>. HIDE DEF k
  <2>2. k >= 14 /\ size = k - 2
    BY <1>6, <2>1
  <2>. QED  BY <1>7, <2>2 DEF Valid, HeaderSize, k
<1>. QED
  BY <1>8, <1>9, <1>10, <1>11 DEF bytes, l, m, n, Queries, Answers, Authorities, Additional

\* The walk of removeEdnsPadding() over a response.
LEMMA Walked ==
    ASSUME NEW message, IsResponse(message)
    PROVE  LET bytes == Encode(message)
               answers == Repeat(SkipResponse, bytes, Answers(bytes), 22)
               additional == Repeat(SkipResponse, bytes, Authorities(bytes), answers)
           IN  /\ Repeat(SkipQuery, bytes, Queries(bytes), HeaderSize + 1) = 22
               /\ additional = Additionals(message)
               /\ \A k \in 0..(Len(message.additional) - 1) :
                    LET here == RecordAt(message, k + 1)
                        record == message.additional[k + 1]
                    IN  /\ Repeat(SkipResponse, bytes, k, additional) = here
                        /\ here \in Nat \ {0}
                        /\ IsRecord(record) /\ Has(bytes, here, RecordBytes(record))
<1>. DEFINE bytes == Encode(message)
            as == message.answers
            bs == message.authorities
            cs == message.additional
            start == 22
            answers == Repeat(SkipResponse, bytes, Answers(bytes), start)
            additional == Repeat(SkipResponse, bytes, Authorities(bytes), answers)
            p == start + Len(SectionBytes(as))
            q == p + Len(SectionBytes(bs))
<1>1. /\ bytes \in Seq(Nat)
      /\ Has(bytes, 15, Question)
      /\ Has(bytes, start, SectionBytes(as))
      /\ p \in Nat \ {0} /\ q \in Nat \ {0}
      /\ Has(bytes, p, SectionBytes(bs))
      /\ Has(bytes, q, SectionBytes(cs))
  BY HasResponse
<1>2. /\ IsPacket(bytes) /\ Queries(bytes) = 1 /\ Answers(bytes) = Len(as)
      /\ Authorities(bytes) = Len(bs)
  BY Sizes
<1>10. AreRecords(as) /\ AreRecords(bs) /\ AreRecords(cs)
  BY DEF IsResponse, HasSections
<1>4. q = Additionals(message)
  BY DEF Additionals
<1>5. \A i : RecordAt(message, i) = q + Len(Flat(Parts(cs), i - 1))
  BY DEF RecordAt, Additionals
<1>3. start \in Nat \ {0}
  OBVIOUS
<1>. HIDE DEF bytes, as, bs, cs
<1>11. Len(as) \in Nat /\ SectionBytes(as) = Flat(Parts(as), Len(as))
  BY <1>10, SectionIsBytes
<1>12. Len(bs) \in Nat /\ SectionBytes(bs) = Flat(Parts(bs), Len(bs))
  BY <1>10, SectionIsBytes
<1>13. /\ Len(cs) \in Nat /\ AreBytes(Parts(cs), Len(cs))
       /\ SectionBytes(cs) = Flat(Parts(cs), Len(cs))
  BY <1>10, SectionIsBytes
<1>14. \A i \in 1..Len(cs) : IsRecord(cs[i]) /\ Parts(cs)[i] = RecordBytes(cs[i])
  BY <1>10, SectionIsBytes
<1>. DEFINE na == Len(as)
            nb == Len(bs)
<1>6. Repeat(SkipQuery, bytes, Queries(bytes), HeaderSize + 1) = 22
  <2>1. HeaderSize + 1 = 15
    BY DEF HeaderSize
  <2>. QED  BY <1>1, <1>2, <2>1, QuestionSkipped
<1>7. answers = p
  <2>5. na \in Nat /\ Len(as) = na
    BY <1>11
  <2>2. answers = Repeat(SkipResponse, bytes, na, start) /\ p = start + Len(Flat(Parts(as), na))
    BY <1>2, <1>11
  <2>. HIDE DEF na, p, answers
  <2>1. na \in 0..Len(as)
    BY <2>5
  <2>6. IsPacket(bytes)
    BY <1>2
  <2>7. Has(bytes, start, SectionBytes(as))
    BY <1>1
  <2>9. AreRecords(as)
    BY <1>10
  <2>. HIDE DEF start
  <2>8. Repeat(SkipResponse, bytes, na, start) = start + Len(Flat(Parts(as), na))
    BY <1>3, <2>9, <2>1, <2>6, <2>7, SectionWalked
  <2>. QED  BY <2>2, <2>8
<1>8. additional = q
  <2>. HIDE DEF p, answers
  <2>5. nb \in Nat /\ Len(bs) = nb
    BY <1>12
  <2>2. additional = Repeat(SkipResponse, bytes, nb, p) /\ q = p + Len(Flat(Parts(bs), nb))
    BY <1>2, <1>7, <1>12
  <2>. HIDE DEF nb, additional, q
  <2>1. nb \in 0..Len(bs)
    BY <2>5
  <2>6. /\ Has(bytes, p, SectionBytes(bs)) /\ p \in Nat \ {0}
        /\ IsPacket(bytes)
    BY <1>1, <1>2
  <2>3. Repeat(SkipResponse, bytes, nb, p) = p + Len(Flat(Parts(bs), nb))
    BY <1>10, <2>1, <2>6, SectionWalked
  <2>. QED  BY <2>2, <2>3
<1>. HIDE DEF additional, q, p, answers
<1>9. ASSUME NEW k \in 0..(Len(cs) - 1)
      PROVE  /\ Repeat(SkipResponse, bytes, k, additional) = RecordAt(message, k + 1)
             /\ RecordAt(message, k + 1) \in Nat \ {0}
             /\ IsRecord(cs[k + 1])
             /\ Has(bytes, RecordAt(message, k + 1), RecordBytes(cs[k + 1]))
  <2>1. k \in 0..Len(cs) /\ k + 1 \in 1..Len(cs) /\ k + 1 - 1 = k
    BY <1>13
  <2>2. Repeat(SkipResponse, bytes, k, q) = q + Len(Flat(Parts(cs), k))
    BY <1>1, <1>2, <1>10, <2>1, SectionWalked
  <2>3. RecordAt(message, k + 1) = q + Len(Flat(Parts(cs), k))
    BY <1>5, <2>1
  <2>4. /\ Len(Flat(Parts(cs), k)) \in Nat
        /\ Has(bytes, q + Len(Flat(Parts(cs), k)), Parts(cs)[k + 1])
    <3>. DEFINE ss == Parts(cs)
                n == Len(cs)
    <3>1. Has(bytes, q, Flat(ss, n)) /\ AreBytes(ss, n) /\ n \in Nat /\ k \in 0..(n - 1)
      BY <1>1, <1>13
    <3>. HIDE DEF ss, n
    <3>2. Len(Flat(ss, k)) \in Nat /\ Has(bytes, q + Len(Flat(ss, k)), ss[k + 1])
      BY <1>1, <3>1, HasEach
    <3>. QED  BY <3>2 DEF ss
  <2>5. IsRecord(cs[k + 1]) /\ Parts(cs)[k + 1] = RecordBytes(cs[k + 1])
    BY <1>14, <2>1
  <2>6. q + Len(Flat(Parts(cs), k)) \in Nat \ {0}
    BY <1>1, <2>4
  <2>. QED  BY <1>8, <2>2, <2>3, <2>4, <2>5, <2>6
<1>. QED  BY <1>4, <1>6, <1>8, <1>9 DEF bytes, additional, answers, cs

\* removeEdnsPadding() finds the OPT record.
LEMMA Found ==
    ASSUME NEW message, IsResponse(message), \A i, j \in OptRecords(message) : i = j
    PROVE  LET bytes == Encode(message)
           IN  /\ OptRecords(message) = {} => RemoveEdnsPadding(bytes) = bytes
               /\ \A i \in OptRecords(message) :
                    RemoveEdnsPadding(bytes) = Shrink(bytes, RecordAt(message, i))
<1>. DEFINE bytes == Encode(message)
            cs == message.additional
            questions  == Repeat(SkipQuery, bytes, Queries(bytes), HeaderSize + 1)
            answers    == Repeat(SkipResponse, bytes, Answers(bytes), questions)
            additional == Repeat(SkipResponse, bytes, Authorities(bytes), answers)
            At(k)      == Repeat(SkipResponse, bytes, k, additional)
            opts       == {k \in 0..(Additional(bytes) - 1) :
                              At(k) # End(bytes) /\ IsOpt(bytes, At(k))}
            first      == At(CHOOSE k \in opts : \A j \in opts : k <= j)
<1>1. RemoveEdnsPadding(bytes) =
        IF Valid(bytes) /\ opts # {} /\ End(bytes) - first >= Short(bytes, first + 9) + 11
        THEN Shrink(bytes, first)
        ELSE bytes
  BY DEF RemoveEdnsPadding
<1>2. Valid(bytes) /\ Additional(bytes) = Len(cs) /\ IsPacket(bytes)
  BY Sizes
<1>3. Len(cs) \in Nat /\ DOMAIN cs = 1..Len(cs)
  BY DEF IsResponse, HasSections, AreRecords, IsSequence
<1>4. bytes \in Seq(Nat)
  BY HasResponse
<1>5. ASSUME NEW k \in 0..(Len(cs) - 1)
      PROVE  /\ At(k) = RecordAt(message, k + 1) /\ At(k) \in Nat \ {0}
             /\ IsRecord(cs[k + 1]) /\ Has(bytes, At(k), RecordBytes(cs[k + 1]))
  BY Walked
<1>. HIDE DEF bytes, cs, At
<1>6. \A k \in 0..(Len(cs) - 1) : k \in opts <=> cs[k + 1].type = OPT
  <2>1. ASSUME NEW k \in 0..(Len(cs) - 1)
        PROVE  k \in opts <=> cs[k + 1].type = OPT
    <3>1. (IsOpt(bytes, At(k)) <=> cs[k + 1].type = OPT) /\ At(k) # End(bytes)
      BY <1>4, <1>5, OptFound
    <3>. QED  BY <1>2, <3>1
  <2>. QED  BY <2>1
<1>7. opts \subseteq 0..(Len(cs) - 1)
  BY <1>2
<1>. HIDE DEF opts
<1>8. \A i \in OptRecords(message) : i \in 1..Len(cs) /\ cs[i].type = OPT
  BY <1>3 DEF OptRecords, cs
<1>9. \A k \in opts : k + 1 \in OptRecords(message)
  <2>1. ASSUME NEW k \in opts PROVE k + 1 \in OptRecords(message)
    <3>1. k \in 0..(Len(cs) - 1) /\ k + 1 \in 1..Len(cs) /\ cs[k + 1].type = OPT
      BY <1>3, <1>6, <1>7
    <3>. QED  BY <1>3, <3>1 DEF OptRecords, cs
  <2>. QED  BY <2>1
<1>10. ASSUME OptRecords(message) = {}
       PROVE  RemoveEdnsPadding(bytes) = bytes
  <2>1. opts = {}
    BY <1>9, <1>10
  <2>. QED  BY <1>1, <2>1
<1>11. ASSUME NEW i \in OptRecords(message)
       PROVE  RemoveEdnsPadding(bytes) = Shrink(bytes, RecordAt(message, i))
  <2>. DEFINE l == i - 1
  <2>1. l \in 0..(Len(cs) - 1) /\ l + 1 = i /\ cs[i].type = OPT
    BY <1>3, <1>8
  <2>. HIDE DEF l
  <2>2. l \in opts
    BY <1>6, <2>1
  <2>3. \A k \in opts : k = l
    <3>1. ASSUME NEW k \in opts PROVE k = l
      <4>1. k + 1 = i
        BY <1>9
      <4>2. k \in Int
        BY <1>7
      <4>. QED  BY <2>1, <4>1, <4>2
    <3>. QED  BY <3>1
  <2>4. (CHOOSE k \in opts : \A j \in opts : k <= j) = l
    <3>1. l <= l
      BY <2>1
    <3>2. \E k \in opts : \A j \in opts : k <= j
      BY <2>2, <2>3, <3>1
    <3>. QED  BY <2>3, <3>2
  <2>5. first = RecordAt(message, i) /\ first = At(l)
    BY <1>5, <2>1, <2>4
  <2>. HIDE DEF first
  <2>6. End(bytes) - first >= Short(bytes, first + 9) + 11
    <3>. DEFINE record == cs[i]
    <3>1. IsRecord(record) /\ Has(bytes, first, RecordBytes(record)) /\ first \in Nat \ {0}
          /\ record.type = OPT
      BY <1>5, <2>1, <2>5
    <3>. HIDE DEF record
    <3>2. /\ Has(bytes, first + Len(Owner(record)) + 8, ShortBytes(Len(Data(record))))
          /\ Has(bytes, first + Len(Owner(record)) + 10, Data(record))
      BY <1>4, <3>1, HasRecord
    <3>3. Len(Owner(record)) = 1 /\ Len(Data(record)) \in Nat
      <4>1. Owner(record) = <<0>>
        BY <3>1 DEF Owner
      <4>2. Len(Data(record)) \in Nat
        BY <3>1, RecordParts
      <4>. QED  BY <4>1, <4>2
    <3>. DEFINE n == Len(Data(record))
    <3>4. Has(bytes, first + 9, ShortBytes(n)) /\ first + 11 + n <= End(bytes)
      <4>1. first + 1 + 8 = first + 9 /\ first + 1 + 10 = first + 11
        BY <3>1
      <4>. QED  BY <3>2, <3>3, <4>1 DEF Has
    <3>5. n \in Nat
      BY <3>3
    <3>. DEFINE here == first + 9
                e == End(bytes)
    <3>8. first \in Nat \ {0} /\ first + 11 + n <= e
      BY <3>1, <3>4
    <3>9. e \in Nat /\ e < 65541
      BY <1>2 DEF End, IsPacket
    <3>10. Has(bytes, here, ShortBytes(n))
      BY <3>4
    <3>. HIDE DEF n, e
    <3>6. n < 65536 /\ here \in Nat \ {0}
      BY <3>5, <3>8, <3>9
    <3>11. e - first >= n + 11
      BY <3>5, <3>8, <3>9
    <3>. HIDE DEF here
    <3>7. Short(bytes, here) = n
      BY <3>5, <3>6, <3>10, HasShort
    <3>. QED  BY <3>7, <3>11 DEF here, e
  <2>. QED  BY <1>1, <1>2, <2>2, <2>5, <2>6
<1>. QED  BY <1>10, <1>11 DEF bytes

-----------------------------------------------------------------------------

(* Sequences *)

\* What is a sequence over some set is one over its own elements.
LEMMA OwnRange ==
    ASSUME NEW S, NEW s \in Seq(S)
    PROVE  IsSequence(s)
<1>. DEFINE R == Range(s)
<1>1. \A i \in 1..Len(s) : s[i] \in R
  BY DEF Range
<1>. HIDE DEF R
<1>. QED  BY <1>1 DEF IsSequence, R

\* A sequence and one element more.
LEMMA Appended ==
    ASSUME NEW S, NEW s \in Seq(S), NEW x \in S
    PROVE  /\ Append(s, x) \in Seq(S) /\ Len(Append(s, x)) = Len(s) + 1
           /\ Append(s, x)[Len(s) + 1] = x
           /\ \A i \in 1..Len(s) : Append(s, x)[i] = s[i]
OBVIOUS

\* What is behind the element i.
LEMMA Behind ==
    ASSUME NEW S, NEW s \in Seq(S), NEW i \in 1..Len(s)
    PROVE  LET t == SubSeq(s, i + 1, Len(s))
           IN  /\ t \in Seq(S) /\ Len(t) = Len(s) - i
               /\ \A j \in 1..(Len(s) - i) : t[j] = s[i + j]
OBVIOUS

\* A sequence of n numbers.
LEMMA Made ==
    ASSUME NEW n \in Nat, NEW f \in [1..n -> Nat]
    PROVE  f \in Seq(Nat) /\ Len(f) = n
OBVIOUS

\* A sequence with another number at i.
LEMMA Changed ==
    ASSUME NEW s \in Seq(Nat), NEW i \in 1..Len(s), NEW x \in Nat
    PROVE  LET t == [s EXCEPT ![i] = x]
           IN  /\ t \in Seq(Nat) /\ Len(t) = Len(s) /\ t[i] = x
               /\ \A j \in 1..Len(s) : j # i => t[j] = s[j]
OBVIOUS

\* A sequence without its first number.
LEMMA TailOf ==
    ASSUME NEW s \in Seq(Nat), Len(s) >= 1
    PROVE  /\ Tail(s) \in Seq(Nat) /\ Len(Tail(s)) = Len(s) - 1
           /\ \A j \in 1..(Len(s) - 1) : Tail(s)[j] = s[j + 1]
OBVIOUS

\* A packet without its length.
LEMMA TailTwice ==
    ASSUME NEW s \in Seq(Nat), Len(s) >= 2
    PROVE  /\ Len(Tail(Tail(s))) = Len(s) - 2
           /\ \A j \in 1..(Len(s) - 2) : Tail(Tail(s))[j] = s[j + 2]
<1>. DEFINE t == Tail(s)
            n == Len(s)
<1>1. t \in Seq(Nat) /\ Len(t) = n - 1 /\ \A j \in 1..(n - 1) : t[j] = s[j + 1]
  BY TailOf
<1>2. n \in Nat /\ n >= 2
  OBVIOUS
<1>. HIDE DEF t, n
<1>3. Len(t) >= 1
  BY <1>1, <1>2
<1>4. Len(Tail(t)) = n - 2 /\ \A j \in 1..(n - 2) : Tail(t)[j] = t[j + 1]
  <2>1. Len(Tail(t)) = Len(t) - 1 /\ \A j \in 1..(Len(t) - 1) : Tail(t)[j] = t[j + 1]
    BY <1>1, <1>3, TailOf
  <2>2. Len(t) - 1 = n - 2
    BY <1>1, <1>2
  <2>. QED  BY <2>1, <2>2
<1>5. ASSUME NEW j \in 1..(n - 2) PROVE Tail(t)[j] = s[j + 2]
  <2>1. j + 1 \in 1..(n - 1) /\ (j + 1) + 1 = j + 2
    BY <1>2
  <2>. QED  BY <1>1, <1>4, <2>1
<1>. QED  BY <1>4, <1>5 DEF t, n

\* A packet of which d bytes from i on are left out.
LEMMA CutOut ==
    ASSUME NEW s \in Seq(Nat), NEW i \in 1..(Len(s) + 1), NEW d \in 0..(Len(s) - i + 1)
    PROVE  LET t == SubSeq(s, 1, i - 1) \o SubSeq(s, i + d, Len(s))
           IN  /\ t \in Seq(Nat) /\ Len(t) = Len(s) - d
               /\ \A j \in 1..(i - 1) : t[j] = s[j]
               /\ \A j \in i..(Len(s) - d) : t[j] = s[j + d]
<1>. DEFINE u == SubSeq(s, 1, i - 1)
            v == SubSeq(s, i + d, Len(s))
            n == Len(s)
<1>1. n \in Nat
  OBVIOUS
<1>2. u \in Seq(Nat) /\ Len(u) = i - 1 /\ \A j \in 1..(i - 1) : u[j] = s[j]
  OBVIOUS
<1>3. v \in Seq(Nat) /\ Len(v) = n - i - d + 1
      /\ \A j \in 1..(n - i - d + 1) : v[j] = s[i + d + j - 1]
  OBVIOUS
<1>. HIDE DEF u, v
<1>4. /\ u \o v \in Seq(Nat) /\ Len(u \o v) = Len(u) + Len(v)
      /\ \A j \in 1..(Len(u) + Len(v)) :
            (u \o v)[j] = IF j <= Len(u) THEN u[j] ELSE v[j - Len(u)]
  BY <1>2, <1>3, ConcatProperties
<1>. DEFINE t == u \o v
<1>. HIDE DEF t, n
<1>5. /\ Len(t) = n - d
      /\ \A j \in 1..(n - d) : t[j] = IF j <= i - 1 THEN u[j] ELSE v[j - (i - 1)]
  <2>1. Len(u) + Len(v) = n - d
    BY <1>1, <1>2, <1>3
  <2>. QED  BY <1>2, <1>4, <2>1 DEF t
<1>6. ASSUME NEW j \in 1..(i - 1) PROVE t[j] = s[j]
  <2>1. j \in 1..(n - d) /\ j <= i - 1
    BY <1>1 DEF n
  <2>. QED  BY <1>2, <1>5, <2>1
<1>7. ASSUME NEW j \in i..(n - d) PROVE t[j] = s[j + d]
  <2>1. j \in 1..(n - d) /\ ~(j <= i - 1) /\ j - (i - 1) \in 1..(n - i - d + 1)
        /\ i + d + (j - (i - 1)) - 1 = j + d
    BY <1>1
  <2>2. t[j] = v[j - (i - 1)]
    BY <1>5, <2>1
  <2>3. v[j - (i - 1)] = s[i + d + (j - (i - 1)) - 1]
    BY <1>3, <2>1
  <2>. QED  BY <2>1, <2>2, <2>3
<1>. QED  BY <1>4, <1>5, <1>6, <1>7 DEF t, u, v, n

-----------------------------------------------------------------------------

(* The loops over options *)

\* Before the first pass of removePaddingOption().
Begin(bytes, start, length) == [bytes |-> bytes, it |-> start, end |-> start + length]

\* The loop of removePaddingOption() is a run.
LEMMA RemovalRuns ==
    ASSUME NEW bytes, NEW start, NEW n \in Nat
    PROVE  \E run : /\ Runs("options", bytes, Begin(bytes, start, n), Numbers(n), n, run)
                    /\ RemovePaddingOption(bytes, start, n) = run[n]
<1>. DEFINE begin == Begin(bytes, start, n)
            F(g) == g = [s \in SUBSET (1..n) |->
                            IF s = {} THEN begin ELSE OptionStep(g[s \ {Max(s)}])]
            iter == CHOOSE g : F(g)
<1>1. RemovePaddingOption(bytes, start, n) = iter[1..n]
  BY DEF RemovePaddingOption, FoldLeft, MapThenFoldSet, Begin
<1>. HIDE DEF begin
<1>2. \A g : F(g) <=> Folds("options", bytes, begin, Numbers(n), 1..n, g)
  BY DEF Folds, Pass
<1>3. \E g : F(g)
  BY <1>2, FoldsExist
<1>4. Folds("options", bytes, begin, Numbers(n), 1..n, iter)
  BY <1>2, <1>3
<1>. HIDE DEF iter
<1>. QED  BY <1>1, <1>4, FoldRuns DEF begin

\* WithoutPadding is a run.
LEMMA KeptRuns ==
    ASSUME NEW options, NEW n \in Nat, DOMAIN options = 1..n
    PROVE  \E run : /\ Runs("keep", <<>>, <<>>, options, n, run)
                    /\ WithoutPadding(options) = run[n]
<1>. DEFINE F(g) == g = [s \in SUBSET (1..n) |->
                            IF s = {} THEN <<>>
                            ELSE IF IsPadding(options[Max(s)]) THEN g[s \ {Max(s)}]
                                 ELSE Append(g[s \ {Max(s)}], options[Max(s)])]
            iter == CHOOSE g : F(g)
<1>1. WithoutPadding(options) = iter[1..n]
  BY DEF WithoutPadding, FoldLeft, MapThenFoldSet
<1>2. \A g : F(g) <=> Folds("keep", <<>>, <<>>, options, 1..n, g)
  BY DEF Folds, Pass
<1>3. \E g : F(g)
  BY <1>2, FoldsExist
<1>4. Folds("keep", <<>>, <<>>, options, 1..n, iter)
  BY <1>2, <1>3
<1>. HIDE DEF iter
<1>. QED  BY <1>1, <1>4, FoldRuns

\* The bytes of one option more.
LEMMA OptionAdded ==
    ASSUME NEW S, NEW options \in Seq(S), AreOptions(options),
           NEW option \in S, IsOption(option)
    PROVE  /\ AreOptions(Append(options, option))
           /\ OptionsBytes(Append(options, option)) = OptionsBytes(options) \o OptionBytes(option)
<1>. DEFINE more == Append(options, option)
            n == Len(options)
            ss == Split(options)
            tt == Split(more)
<1>1. /\ n \in Nat /\ DOMAIN options = 1..n
      /\ more \in Seq(S) /\ Len(more) = n + 1 /\ DOMAIN more = 1..(n + 1)
      /\ more[n + 1] = option /\ \A i \in 1..n : more[i] = options[i]
  <2>1. n \in Nat /\ DOMAIN options = 1..n
    OBVIOUS
  <2>2. /\ more \in Seq(S) /\ Len(more) = n + 1
        /\ more[n + 1] = option /\ \A i \in 1..n : more[i] = options[i]
    BY Appended
  <2>3. DOMAIN more = 1..(n + 1)
    BY <2>2
  <2>. QED  BY <2>1, <2>2, <2>3
<1>. HIDE DEF more, n
<1>2. AreOptions(more)
  <2>1. IsSequence(more)
    BY <1>1, OwnRange
  <2>2. ASSUME NEW i \in 1..(n + 1) PROVE IsOption(more[i])
    <3>1. CASE i = n + 1
      BY <1>1, <3>1
    <3>2. CASE i # n + 1
      <4>1. i \in 1..n
        BY <1>1, <3>2
      <4>. QED  BY <1>1, <4>1 DEF AreOptions
    <3>. QED  BY <3>1, <3>2
  <2>. QED  BY <1>1, <2>1, <2>2 DEF AreOptions
<1>3. OptionsBytes(options) = Flat(ss, n) /\ Flat(ss, n) \in Seq(Nat)
  BY OptionsAreBytes DEF n
<1>4. OptionsBytes(more) = Flat(tt, n + 1) /\ AreBytes(tt, n + 1)
  BY <1>1, <1>2, OptionsAreBytes
<1>5. tt[n + 1] = OptionBytes(option) /\ Agree(ss, tt, n)
  <2>1. n + 1 \in 1..(n + 1) /\ \A i \in 1..n : i \in 1..(n + 1)
    BY <1>1
  <2>. QED  BY <1>1, <2>1 DEF Split, Agree
<1>. HIDE DEF ss, tt
<1>6. Flat(ss, n) = Flat(tt, n)
  BY <1>1, <1>5, FlatAgree
<1>7. Flat(tt, n + 1) = Flat(tt, n) \o tt[n + 1]
  <2>. DEFINE m == n + 1
  <2>1. n \in 0..(m - 1) /\ m \in Nat
    BY <1>1
  <2>2. AreBytes(tt, m)
    BY <1>4
  <2>. HIDE DEF m
  <2>. QED  BY <2>1, <2>2, FlatStep
<1>. QED  BY <1>2, <1>3, <1>4, <1>5, <1>6, <1>7 DEF more

\* What WithoutPadding keeps of the first k options.
Keeps(options, k, kept) ==
    /\ kept \in Seq(Range(options))
    /\ AreOptions(kept)
    /\ (\A j \in 1..k : IsPadding(options[j])) => kept = <<>>
    /\ (\A j \in 1..k : ~IsPadding(options[j]))
            => Len(kept) = k /\ \A j \in 1..k : kept[j] = options[j]

\* What is kept after one option more.
NextKept(options, k, kept, next) ==
    next = IF IsPadding(options[k + 1]) THEN kept ELSE Append(kept, options[k + 1])

\* The options that are kept, after one option more.
LEMMA KeepsNext ==
    ASSUME NEW options, AreOptions(options), NEW k \in 0..(Len(options) - 1),
           NEW kept, Keeps(options, k, kept),
           NEW next, NextKept(options, k, kept, next)
    PROVE  /\ Keeps(options, k + 1, next)
           /\ IsPadding(options[k + 1]) => OptionsBytes(next) = OptionsBytes(kept)
           /\ ~IsPadding(options[k + 1])
                => Len(OptionsBytes(next))
                    = Len(OptionsBytes(kept)) + Len(OptionBytes(options[k + 1]))
<1>. DEFINE option == options[k + 1]
            R == Range(options)
<1>1. /\ k \in Nat /\ k + 1 \in 1..Len(options) /\ DOMAIN options = 1..Len(options)
      /\ k + 1 \in 1..(k + 1) /\ \A j \in 1..k : j \in 1..(k + 1)
  BY DEF AreOptions, IsSequence
<1>2. option \in R /\ IsOption(option)
  <2>1. option \in R
    BY <1>1 DEF Range
  <2>2. IsOption(option)
    BY <1>1 DEF AreOptions
  <2>. QED  BY <2>1, <2>2
<1>3. CASE IsPadding(option)
  <2>1. next = kept
    BY <1>3 DEF NextKept
  <2>2. (\A j \in 1..(k + 1) : IsPadding(options[j])) => kept = <<>>
    BY <1>1 DEF Keeps
  <2>3. ~ \A j \in 1..(k + 1) : ~IsPadding(options[j])
    BY <1>1, <1>3
  <2>4. Keeps(options, k + 1, next)
    BY <2>1, <2>2, <2>3 DEF Keeps
  <2>. QED  BY <1>3, <2>1, <2>4
<1>4. CASE ~IsPadding(option)
  <2>1. next = Append(kept, option)
    BY <1>4 DEF NextKept
  <2>2. kept \in Seq(R) /\ AreOptions(kept)
    BY DEF Keeps
  <2>. HIDE DEF R, option
  <2>3. /\ next \in Seq(R) /\ Len(next) = Len(kept) + 1 /\ next[Len(kept) + 1] = option
        /\ \A i \in 1..Len(kept) : next[i] = kept[i]
    BY <1>2, <2>1, <2>2, Appended
  <2>4. AreOptions(next) /\ OptionsBytes(next) = OptionsBytes(kept) \o OptionBytes(option)
    BY <1>2, <2>1, <2>2, OptionAdded
  <2>8. Len(OptionsBytes(next)) = Len(OptionsBytes(kept)) + Len(OptionBytes(option))
    <3>1. OptionsBytes(kept) \in Seq(Nat)
      BY <2>2, OptionsAreBytes
    <3>2. option.code \in Nat /\ option.data \in Seq(Nat)
      BY <1>2 DEF IsOption
    <3>3. OptionBytes(option) \in Seq(Nat)
      BY <3>2, OptionIsBytes
    <3>. QED  BY <2>4, <3>1, <3>3, Joined
  <2>5. ~ \A j \in 1..(k + 1) : IsPadding(options[j])
    BY <1>1, <1>4 DEF option
  <2>6. ASSUME \A j \in 1..(k + 1) : ~IsPadding(options[j])
        PROVE  Len(next) = k + 1 /\ \A j \in 1..(k + 1) : next[j] = options[j]
    <3>1. Len(kept) = k /\ \A j \in 1..k : kept[j] = options[j]
      BY <1>1, <2>6 DEF Keeps
    <3>2. Len(next) = k + 1 /\ next[k + 1] = option /\ \A i \in 1..k : next[i] = options[i]
      BY <2>3, <3>1
    <3>3. ASSUME NEW j \in 1..(k + 1) PROVE next[j] = options[j]
      <4>1. j = k + 1 \/ j \in 1..k
        BY <1>1
      <4>. QED  BY <3>2, <4>1 DEF option
    <3>. QED  BY <3>2, <3>3
  <2>7. Keeps(options, k + 1, next)
    BY <2>3, <2>4, <2>5, <2>6 DEF Keeps, R
  <2>. QED  BY <1>4, <2>7, <2>8 DEF option
<1>. QED  BY <1>3, <1>4

\* Before the first option nothing is kept.
LEMMA KeepsNone ==
    ASSUME NEW options
    PROVE  Keeps(options, 0, <<>>) /\ OptionsBytes(<<>>) = <<>>
<1>. DEFINE none == <<>>
            R == Range(options)
            ss == Split(none)
<1>1. none \in Seq(R) /\ Len(none) = 0 /\ DOMAIN none = 1..0
  OBVIOUS
<1>2. IsSequence(none)
  <2>. HIDE DEF none, R
  <2>. QED  BY <1>1, OwnRange
<1>. HIDE DEF none, R
<1>3. AreOptions(none)
  BY <1>1, <1>2 DEF AreOptions
<1>4. OptionsBytes(none) = Flat(ss, 0)
  BY <1>1, <1>3, OptionsAreBytes
<1>. HIDE DEF ss
<1>5. OptionsBytes(none) = <<>>
  BY <1>4, FlatEmpty
<1>6. Keeps(options, 0, none)
  BY <1>1, <1>3 DEF Keeps, R, none
<1>. QED  BY <1>5, <1>6 DEF none

-----------------------------------------------------------------------------

\* removePaddingOption() after k options: `kept' of them are where they
\* belong, as far as their length goes, and the others follow.
Removes(bytes, start, options, k, kept, region) ==
    LET data  == OptionsBytes(options)
        read  == Len(Flat(Split(options), k))
        left  == Len(data) - read
        wrote == Len(OptionsBytes(kept))
    IN  /\ region \in [bytes : Seq(Nat), it : Nat, end : Nat]
        /\ Len(region.bytes) = Len(bytes)
        /\ region.it = start + wrote /\ region.end = region.it + left
        /\ wrote <= read
        /\ \A j \in 1..left : region.bytes[region.it + j - 1] = data[read + j]
        /\ \A j \in 1..Len(bytes) :
              j < start \/ j >= start + Len(data) => region.bytes[j] = bytes[j]
        /\ (\A j \in 1..k : ~IsPadding(options[j])) => region.bytes = bytes

\* Before its first pass the loop of removePaddingOption() has changed nothing.
LEMMA RemovesNone ==
    ASSUME NEW bytes \in Seq(Nat), NEW start \in Nat \ {0}, NEW options, AreOptions(options),
           Has(bytes, start, OptionsBytes(options))
    PROVE  Removes(bytes, start, options, 0, <<>>,
                   Begin(bytes, start, Len(OptionsBytes(options))))
<1>. DEFINE data == OptionsBytes(options)
            n == Len(data)
            region == Begin(bytes, start, n)
            read == Len(Flat(Split(options), 0))
            wrote == Len(OptionsBytes(<<>>))
<1>1. data \in Seq(Nat)
  BY OptionsAreBytes
<1>2. n \in Nat
  BY <1>1
<1>3. read = 0 /\ wrote = 0
  BY FlatEmpty, KeepsNone
<1>4. \A j \in 1..n : bytes[start + j - 1] = data[j]
  BY DEF Has
<1>. HIDE DEF data, n, read, wrote
<1>5. /\ region \in [bytes : Seq(Nat), it : Nat, end : Nat]
      /\ region.bytes = bytes /\ region.it = start /\ region.end = start + n
  BY <1>2 DEF Begin
<1>. HIDE DEF region
<1>6. /\ region.it = start + wrote /\ region.end = region.it + (n - read) /\ wrote <= read
      /\ n - read = n
  BY <1>2, <1>3, <1>5
<1>7. ASSUME NEW j \in 1..(n - read)
      PROVE  region.bytes[region.it + j - 1] = data[read + j]
  <2>1. j \in 1..n /\ read + j = j
    BY <1>3, <1>6
  <2>. QED  BY <1>4, <1>5, <2>1
<1>. QED  BY <1>5, <1>6, <1>7 DEF Removes, data, n, read, wrote, region

\* The next option, as removePaddingOption() reads it.
LEMMA OptionRead ==
    ASSUME NEW bytes, NEW start, NEW options, AreOptions(options),
           Fits(Len(OptionsBytes(options))),
           NEW k \in 0..(Len(options) - 1), NEW kept, NEW region,
           Removes(bytes, start, options, k, kept, region)
    PROVE  LET read == Len(Flat(Split(options), k))
               next == Len(Flat(Split(options), k + 1))
               full == Len(OptionBytes(options[k + 1]))
           IN  /\ read \in Nat /\ next = read + full /\ full \in Nat /\ full >= 4
               /\ next <= Len(OptionsBytes(options))
               /\ Len(OptionsBytes(options)) \in Nat
               /\ Short(region.bytes, region.it) = options[k + 1].code
               /\ 4 + Short(region.bytes, region.it + 2) = full
<1>. DEFINE data == OptionsBytes(options)
            ss == Split(options)
            n == Len(options)
            read == Len(Flat(ss, k))
            option == options[k + 1]
            full == Len(OptionBytes(option))
            size == Len(data)
            it == region.it
<1>1. /\ n \in Nat /\ AreBytes(ss, n) /\ data = Flat(ss, n) /\ data \in Seq(Nat)
  BY OptionsAreBytes
<1>2. k + 1 \in 1..n /\ DOMAIN options = 1..n
  BY <1>1 DEF AreOptions, IsSequence
<1>3. ss[k + 1] = OptionBytes(option) /\ IsOption(option)
  BY <1>2 DEF Split, AreOptions
<1>4. /\ OptionBytes(option) \in Seq(Nat) /\ full = 4 + Len(option.data)
      /\ OptionBytes(option) = (ShortBytes(option.code)
                                     \o ShortBytes(Len(option.data))) \o option.data
      /\ Len(option.data) \in Nat
  <2>1. option.code \in Nat /\ option.data \in Seq(Nat)
    BY <1>3 DEF IsOption
  <2>2. Len(option.data) \in Nat
    BY <2>1
  <2>. HIDE DEF option
  <2>. QED  BY <2>1, <2>2, OptionIsBytes
<1>5. /\ \A j \in 1..(size - read) : region.bytes[it + j - 1] = data[read + j]
      /\ it \in Nat
  BY DEF Removes
<1>. HIDE DEF data, ss, n, option
<1>6. /\ Flat(ss, k) \in Seq(Nat) /\ ss[k + 1] \in Seq(Nat)
      /\ Flat(ss, k + 1) = Flat(ss, k) \o ss[k + 1]
  <2>1. k \in 0..(n - 1)
    BY DEF n
  <2>. QED  BY <1>1, <2>1, FlatStep
<1>7. read \in Nat /\ Len(Flat(ss, k + 1)) = read + full /\ size \in Nat
  <2>1. Len(Flat(ss, k + 1)) = Len(Flat(ss, k)) + Len(ss[k + 1])
    BY <1>6, Joined
  <2>2. Len(Flat(ss, k)) \in Nat
    BY <1>6
  <2>3. Len(data) \in Nat
    BY <1>1
  <2>. QED  BY <1>3, <2>1, <2>2, <2>3
<1>8. Has(data, 1 + read, OptionBytes(option))
  <2>1. Has(data, 1, Flat(ss, n)) /\ 1 \in Nat \ {0}
    <3>1. Has(data, 1, data)
      BY <1>1, HasAll
    <3>. QED  BY <1>1, <3>1
  <2>2. k \in 0..(n - 1)
    BY DEF n
  <2>. HIDE DEF read
  <2>3. Has(data, 1 + Len(Flat(ss, k)), ss[k + 1])
    BY <1>1, <2>1, <2>2, HasEach
  <2>. QED  BY <1>3, <2>3 DEF read
<1>. DEFINE x == Len(option.data)
            sa == ShortBytes(option.code)
            sb == ShortBytes(x)
            p == 1 + read
<1>9. /\ x \in Nat /\ full = 4 + x
      /\ Has(data, p, (sa \o sb) \o option.data)
  BY <1>4, <1>8
<1>10. read + full <= size
  <2>1. p + full <= End(data)
    BY <1>8 DEF Has
  <2>2. End(data) = size + 1
    BY DEF End
  <2>3. read \in Nat /\ size \in Nat /\ full \in Nat
    BY <1>7, <1>9
  <2>. HIDE DEF read, full, size
  <2>. QED  BY <2>1, <2>2, <2>3
<1>11. Fits(size)
  BY DEF data
<1>. HIDE DEF read, full, size, it
<1>12. p \in Nat \ {0} /\ Fits(x) /\ Fits(option.code)
  BY <1>3, <1>7, <1>9, <1>10, <1>11 DEF Fits, IsOption
<1>13. sa \in Seq(Nat) /\ Len(sa) = 2 /\ sb \in Seq(Nat) /\ Len(sb) = 2
  <2>1. x \in Nat /\ option.code \in Nat
    BY <1>12 DEF Fits
  <2>. HIDE DEF x
  <2>. QED  BY <2>1, ShortIsBytes
<1>14. option.data \in Seq(Nat)
  BY <1>3 DEF IsOption
<1>. HIDE DEF p, sa, sb, x
<1>15. sa \o sb \in Seq(Nat)
  BY <1>13, Joined
<1>16. Has(data, p, sa \o sb)
  BY <1>1, <1>9, <1>12, <1>14, <1>15, HasBoth
<1>17. Has(data, p, sa) /\ Has(data, p + Len(sa), sb)
  BY <1>1, <1>12, <1>13, <1>16, HasBoth
<1>18. Short(data, p) = option.code
  BY <1>12, <1>17, HasFit DEF sa
<1>19. Short(data, p + 2) = x
  <2>1. p + 2 \in Nat \ {0} /\ Has(data, p + 2, sb)
    BY <1>12, <1>13, <1>17
  <2>. QED  BY <1>12, <2>1, HasFit DEF sb
<1>20. Short(region.bytes, it) = Short(data, p)
       /\ Short(region.bytes, it + 2) = Short(data, p + 2)
  <2>1. 1 \in 1..(size - read) /\ 2 \in 1..(size - read)
        /\ 3 \in 1..(size - read) /\ 4 \in 1..(size - read)
    BY <1>7, <1>9, <1>10
  <2>2. it + 1 - 1 = it /\ it + 2 - 1 = it + 1 /\ it + 3 - 1 = it + 2 /\ it + 4 - 1 = it + 2 + 1
    BY <1>5
  <2>3. read + 1 = p /\ read + 2 = p + 1 /\ read + 3 = p + 2 /\ read + 4 = p + 2 + 1
    BY <1>7 DEF p
  <2>4. region.bytes[it] = data[p] /\ region.bytes[it + 1] = data[p + 1]
    BY <1>5, <2>1, <2>2, <2>3
  <2>5. region.bytes[it + 2] = data[p + 2] /\ region.bytes[it + 2 + 1] = data[p + 2 + 1]
    BY <1>5, <2>1, <2>2, <2>3
  <2>. QED  BY <2>4, <2>5 DEF Short
<1>21. full \in Nat /\ full >= 4 /\ 4 + Short(region.bytes, it + 2) = full
  BY <1>9, <1>19, <1>20
<1>. QED
  BY <1>7, <1>10, <1>18, <1>20, <1>21 DEF data, ss, read, option, full, size, it

\* A padding option goes, and the others move over it.
MovedUp(region, full) ==
    [region EXCEPT
        !.bytes = [i \in DOMAIN @ |->
            IF region.it <= i /\ i < region.end - full
            THEN @[i + full] ELSE @[i]],
        !.end = @ - full]

\* What is where after that.
LEMMA MovesUp ==
    ASSUME NEW region \in [bytes : Seq(Nat), it : Nat, end : Nat], NEW full \in Nat,
           region.it >= 1, region.it + full <= region.end,
           region.end <= Len(region.bytes) + 1
    PROVE  LET new == MovedUp(region, full)
           IN  /\ new \in [bytes : Seq(Nat), it : Nat, end : Nat]
               /\ Len(new.bytes) = Len(region.bytes)
               /\ new.it = region.it /\ new.end = region.end - full
               /\ \A i \in 1..Len(region.bytes) :
                    new.bytes[i] = IF region.it <= i /\ i < region.end - full
                                   THEN region.bytes[i + full] ELSE region.bytes[i]
<1>. DEFINE old == region.bytes
            it == region.it
            end == region.end
            n == Len(old)
            bytes == [i \in 1..n |-> IF it <= i /\ i < end - full THEN old[i + full] ELSE old[i]]
            new == MovedUp(region, full)
<1>1. /\ old \in Seq(Nat) /\ it \in Nat /\ end \in Nat /\ n \in Nat /\ DOMAIN old = 1..n
      /\ \A i \in 1..n : old[i] \in Nat
  OBVIOUS
<1>2. new.bytes = bytes /\ new.it = it /\ new.end = end - full
      /\ new = [bytes |-> new.bytes, it |-> new.it, end |-> new.end]
  <2>1. region = [bytes |-> old, it |-> it, end |-> end]
    OBVIOUS
  <2>2. new = [bytes |-> [i \in DOMAIN old |-> IF it <= i /\ i < end - full
                                              THEN old[i + full] ELSE old[i]],
               it |-> it, end |-> end - full]
    <3>1. region.bytes = old /\ region.it = it /\ region.end = end
      OBVIOUS
    <3>. HIDE DEF old, it, end
    <3>2. new = [region EXCEPT !.bytes = [i \in DOMAIN old |-> IF it <= i /\ i < end - full
                                              THEN old[i + full] ELSE old[i]],
                               !.end = end - full]
      BY <3>1 DEF MovedUp
    <3>. HIDE DEF new
    <3>. QED  BY <2>1, <3>2
  <2>3. new = [bytes |-> bytes, it |-> it, end |-> end - full]
    BY <1>1, <2>2
  <2>. HIDE DEF new, bytes
  <2>. QED  BY <2>3
<1>3. it >= 1 /\ it + full <= end /\ end <= n + 1
  OBVIOUS
<1>. HIDE DEF old, it, end, n, new
<1>4. bytes \in [1..n -> Nat]
  <2>1. ASSUME NEW i \in 1..n
        PROVE  (IF it <= i /\ i < end - full THEN old[i + full] ELSE old[i]) \in Nat
    <3>1. CASE it <= i /\ i < end - full
      <4>1. i + full \in 1..n
        BY <1>1, <1>3, <3>1
      <4>. QED  BY <1>1, <3>1, <4>1
    <3>2. CASE ~(it <= i /\ i < end - full)
      BY <1>1, <3>2
    <3>. QED  BY <3>1, <3>2
  <2>. QED  BY <2>1
<1>5. \A i \in 1..n : bytes[i] = IF it <= i /\ i < end - full THEN old[i + full] ELSE old[i]
  OBVIOUS
<1>. HIDE DEF bytes
<1>6. bytes \in Seq(Nat) /\ Len(bytes) = n
  BY <1>1, <1>4, Made
<1>7. end - full \in Nat
  BY <1>1, <1>3
<1>8. new \in [bytes : Seq(Nat), it : Nat, end : Nat]
  BY <1>1, <1>2, <1>6, <1>7
<1>. QED  BY <1>2, <1>5, <1>6, <1>8 DEF old, it, end, n, new

\* One pass of the loop of removePaddingOption() deals with one option.
LEMMA RemovesNext ==
    ASSUME NEW bytes \in Seq(Nat), NEW start \in Nat \ {0}, NEW options, AreOptions(options),
           Fits(Len(OptionsBytes(options))),
           start + Len(OptionsBytes(options)) <= Len(bytes) + 1,
           NEW k \in 0..(Len(options) - 1),
           NEW kept, Keeps(options, k, kept),
           NEW region, Removes(bytes, start, options, k, kept, region),
           NEW next, NextKept(options, k, kept, next)
    PROVE  Removes(bytes, start, options, k + 1, next, OptionStep(region))
<1>. DEFINE data == OptionsBytes(options)
            size == Len(data)
            read == Len(Flat(Split(options), k))
            read2 == Len(Flat(Split(options), k + 1))
            wrote == Len(OptionsBytes(kept))
            wrote2 == Len(OptionsBytes(next))
            option == options[k + 1]
            full == Len(OptionBytes(option))
            new == OptionStep(region)
            it == region.it
            end == region.end
            old == region.bytes
            m == Len(bytes)
<1>1. /\ read \in Nat /\ read2 = read + full /\ full \in Nat /\ full >= 4
      /\ read2 <= size /\ size \in Nat
      /\ Short(old, it) = option.code
      /\ 4 + Short(old, it + 2) = full
  BY OptionRead
<1>2. /\ region \in [bytes : Seq(Nat), it : Nat, end : Nat]
      /\ Len(old) = m
      /\ it = start + wrote /\ end = it + (size - read)
      /\ wrote <= read
  BY DEF Removes
<1>3. \A j \in 1..(size - read) : old[it + j - 1] = data[read + j]
  BY DEF Removes
<1>4. \A j \in 1..m : j < start \/ j >= start + size => old[j] = bytes[j]
  BY DEF Removes
<1>5. (\A j \in 1..k : ~IsPadding(options[j])) => old = bytes
  BY DEF Removes
<1>6. m \in Nat /\ start + size <= m + 1
  OBVIOUS
<1>7. wrote \in Nat
  <2>1. OptionsBytes(kept) \in Seq(Nat)
    BY OptionsAreBytes DEF Keeps
  <2>. QED  BY <2>1
<1>14. /\ read \in Nat /\ read2 = read + full /\ full \in Nat /\ full >= 4
       /\ read2 <= size /\ size \in Nat
  BY <1>1
<1>15. it = start + wrote /\ end = it + (size - read) /\ wrote <= read
  BY <1>2
<1>8. /\ it \in Nat /\ end \in Nat /\ it >= start /\ it + full <= end
      /\ end <= start + size /\ end <= m + 1
  <2>. HIDE DEF size, read, read2, wrote, full, it, end, m
  <2>. QED  BY <1>6, <1>7, <1>14, <1>15
<1>9. option.code = PADDING <=> IsPadding(option)
  BY DEF IsPadding
<1>10. it # end
  <2>. HIDE DEF it, end, full
  <2>. QED  BY <1>1, <1>8
<1>11. k \in Nat /\ k + 1 \in 1..(k + 1) /\ \A j \in 1..k : j \in 1..(k + 1)
  OBVIOUS
<1>12. CASE IsPadding(option)
  <2>1. new = MovedUp(region, full)
    BY <1>1, <1>9, <1>10, <1>12 DEF OptionStep, MovedUp
  <2>2. wrote2 = wrote
    BY <1>12, KeepsNext
  <2>. DEFINE bytes2 == new.bytes
              it2 == new.it
              end2 == new.end
  <2>. HIDE DEF data, size, read, read2, wrote, wrote2, option, full, new, m
  <2>3. /\ new \in [bytes : Seq(Nat), it : Nat, end : Nat]
        /\ Len(bytes2) = m /\ it2 = it /\ end2 = end - full
        /\ \A i \in 1..m : bytes2[i] = IF it <= i /\ i < end - full
                                       THEN old[i + full] ELSE old[i]
    <3>1. it >= 1 /\ end <= Len(old) + 1 /\ it + full <= end
      BY <1>2, <1>8
    <3>2. region \in [bytes : Seq(Nat), it : Nat, end : Nat] /\ Len(old) = m
      BY <1>2
    <3>. QED  BY <1>14, <2>1, <3>1, <3>2, MovesUp
  <2>8. \A i \in 1..m : bytes2[i] = IF it <= i /\ i < end - full
                                    THEN old[i + full] ELSE old[i]
    BY <2>3
  <2>9. it2 = it /\ end2 = end - full
    BY <2>3
  <2>. HIDE DEF it, end, old, bytes2, it2, end2
  <2>4. it2 = start + wrote2 /\ end2 = it2 + (size - read2) /\ wrote2 <= read2
    BY <1>7, <1>8, <1>14, <1>15, <2>2, <2>9
  <2>5. ASSUME NEW j \in 1..(size - read2)
        PROVE  bytes2[it2 + j - 1] = data[read2 + j]
    <3>4. j \in Nat /\ j >= 1 /\ j <= size - read2 /\ it >= 1
      BY <1>8, <1>14
    <3>5. end - full = it + (size - read2) /\ size - read = (size - read2) + full
      BY <1>8, <1>14, <1>15
    <3>1. /\ it + j - 1 \in 1..m /\ it <= it + j - 1 /\ it + j - 1 < end - full
          /\ j + full \in 1..(size - read) /\ it + j - 1 + full = it + (j + full) - 1
          /\ read + (j + full) = read2 + j
      <4>1. it <= it + j - 1 /\ it + j - 1 < end - full
        BY <1>8, <1>14, <3>4, <3>5
      <4>2. it + j - 1 \in 1..m
        BY <1>6, <1>8, <1>14, <3>4, <4>1
      <4>3. j + full \in 1..(size - read)
        BY <1>14, <3>4, <3>5
      <4>4. it + j - 1 + full = it + (j + full) - 1 /\ read + (j + full) = read2 + j
        BY <1>8, <1>14, <3>4
      <4>. QED  BY <4>1, <4>2, <4>3, <4>4
    <3>2. bytes2[it + j - 1] = old[it + j - 1 + full]
      BY <2>8, <3>1
    <3>3. old[it + (j + full) - 1] = data[read + (j + full)]
      BY <1>3, <3>1
    <3>. QED  BY <2>9, <3>1, <3>2, <3>3
  <2>6. ASSUME NEW j \in 1..m, j < start \/ j >= start + size
        PROVE  bytes2[j] = bytes[j]
    <3>1. ~(it <= j /\ j < end - full)
      BY <1>6, <1>8, <1>14, <2>6
    <3>2. bytes2[j] = old[j]
      BY <2>8, <3>1
    <3>. QED  BY <1>4, <2>6, <3>2
  <2>7. ~ \A j \in 1..(k + 1) : ~IsPadding(options[j])
    BY <1>11, <1>12 DEF option
  <2>. QED
    BY <2>3, <2>4, <2>5, <2>6, <2>7
    DEF Removes, data, size, read2, wrote2, new, m, bytes2, it2, end2
<1>13. CASE ~IsPadding(option)
  <2>1. new = [region EXCEPT !.it = @ + full]
    BY <1>1, <1>9, <1>10, <1>13 DEF OptionStep
  <2>2. wrote2 = wrote + full
    <3>1. ~IsPadding(options[k + 1])
      BY <1>13
    <3>2. Len(OptionsBytes(next))
            = Len(OptionsBytes(kept)) + Len(OptionBytes(options[k + 1]))
      BY <3>1, KeepsNext
    <3>. QED  BY <3>2
  <2>. DEFINE it2 == new.it
              end2 == new.end
  <2>3. /\ new.bytes = old /\ it2 = it + full /\ end2 = end
        /\ new \in [bytes : Seq(Nat), it : Nat, end : Nat]
    <3>1. region = [bytes |-> old, it |-> it, end |-> end]
      BY <1>2
    <3>2. old \in Seq(Nat) /\ it \in Nat /\ end \in Nat
      BY <1>2
    <3>. HIDE DEF old, it, end, full, new
    <3>3. new = [bytes |-> old, it |-> it + full, end |-> end]
      BY <2>1, <3>1
    <3>4. it + full \in Nat
      BY <1>14, <3>2
    <3>. QED  BY <3>2, <3>3, <3>4
  <2>9. it2 = it + full /\ end2 = end
    BY <2>3
  <2>. HIDE DEF data, size, read, read2, wrote, wrote2, option, full, new, m, it, end, old, it2, end2
  <2>4. it2 = start + wrote2 /\ end2 = it2 + (size - read2) /\ wrote2 <= read2
    BY <1>7, <1>8, <1>14, <1>15, <2>2, <2>9
  <2>5. ASSUME NEW j \in 1..(size - read2)
        PROVE  old[it2 + j - 1] = data[read2 + j]
    <3>1. /\ j + full \in 1..(size - read) /\ it + full + j - 1 = it + (j + full) - 1
          /\ read + (j + full) = read2 + j
      BY <1>8, <1>14
    <3>2. old[it + (j + full) - 1] = data[read + (j + full)]
      BY <1>3, <3>1
    <3>. QED  BY <2>9, <3>1, <3>2
  <2>6. Len(old) = m
    BY <1>2
  <2>7. (\A j \in 1..(k + 1) : ~IsPadding(options[j])) => old = bytes
    BY <1>5, <1>11
  <2>8. new.bytes = old /\ new \in [bytes : Seq(Nat), it : Nat, end : Nat]
    BY <2>3
  <2>. QED
    BY <1>4, <2>4, <2>5, <2>6, <2>7, <2>8
    DEF Removes, data, size, read2, wrote2, new, m, it2, end2
<1>. QED  BY <1>12, <1>13

\* The options after the loop of removePaddingOption().
LEMMA Removal ==
    ASSUME NEW bytes \in Seq(Nat), NEW start \in Nat \ {0}, NEW options, AreOptions(options),
           Fits(Len(OptionsBytes(options))),
           Has(bytes, start, OptionsBytes(options))
    PROVE  LET kept == WithoutPadding(options)
               region == RemovePaddingOption(bytes, start, Len(OptionsBytes(options)))
           IN  /\ Keeps(options, Len(options), kept)
               /\ Removes(bytes, start, options, Len(options), kept, region)
<1>. DEFINE data == OptionsBytes(options)
            size == Len(data)
            n == Len(options)
            ss == Split(options)
            begin == Begin(bytes, start, size)
<1>1. /\ n \in Nat /\ AreBytes(ss, n) /\ data = Flat(ss, n) /\ data \in Seq(Nat)
      /\ \A j \in 1..n : Len(ss[j]) >= 4
  BY OptionsAreBytes
<1>2. DOMAIN options = 1..n
  BY DEF AreOptions, IsSequence
<1>3. size \in Nat
  BY <1>1
<1>4. start + size <= Len(bytes) + 1
  BY DEF Has, End
<1>5. n <= size
  <2>1. \A j \in 1..n : Len(ss[j]) >= 1
    <3>1. ASSUME NEW j \in 1..n PROVE Len(ss[j]) >= 1
      <4>1. Len(ss[j]) \in Nat
        BY <1>1 DEF AreBytes
      <4>2. Len(ss[j]) >= 4
        BY <1>1
      <4>. QED  BY <4>1, <4>2
    <3>. QED  BY <3>1
  <2>. HIDE DEF ss, n
  <2>2. Len(Flat(ss, n)) >= n
    BY <1>1, <2>1, FlatLong
  <2>3. Len(Flat(ss, n)) = size
    BY <1>1
  <2>. QED  BY <1>1, <1>3, <2>2, <2>3
<1>6. Removes(bytes, start, options, 0, <<>>, begin)
  BY RemovesNone
<1>. HIDE DEF begin
<1>7. PICK run : /\ Runs("options", bytes, begin, Numbers(size), size, run)
                 /\ RemovePaddingOption(bytes, start, size) = run[size]
  <2>. HIDE DEF size
  <2>. QED  BY <1>3, RemovalRuns DEF begin
<1>8. PICK keep : /\ Runs("keep", <<>>, <<>>, options, n, keep)
                  /\ WithoutPadding(options) = keep[n]
  <2>. HIDE DEF n
  <2>. QED  BY <1>1, <1>2, KeptRuns
<1>. DEFINE Good(k) == /\ Keeps(options, k, keep[k])
                       /\ Removes(bytes, start, options, k, keep[k], run[k])
            S == {k \in Nat : k <= n => Good(k)}
<1>9. 0 \in S
  <2>1. keep[0] = <<>>
    BY <1>8 DEF Runs
  <2>2. run[0] = begin
    BY <1>7 DEF Runs
  <2>. QED  BY <1>6, <2>1, <2>2, KeepsNone
<1>10. ASSUME NEW k \in Nat, k \in S
       PROVE  k + 1 \in S
  <2>. SUFFICES ASSUME k + 1 <= n
                PROVE  Good(k + 1)
    OBVIOUS
  <2>1. Keeps(options, k, keep[k]) /\ Removes(bytes, start, options, k, keep[k], run[k])
    BY <1>1, <1>10
  <2>2. k \in 0..(n - 1) /\ k \in 0..(size - 1)
    <3>. HIDE DEF n, size
    <3>. QED  BY <1>1, <1>3, <1>5
  <2>3. keep[k + 1] = Pass("keep", <<>>, keep[k], options[k + 1])
    <3>. HIDE DEF n
    <3>. QED  BY <1>8, <2>2 DEF Runs
  <2>4. run[k + 1] = OptionStep(run[k])
    <3>1. run[k + 1] = Pass("options", bytes, run[k], Numbers(size)[k + 1])
      <4>. HIDE DEF size
      <4>. QED  BY <1>7, <2>2 DEF Runs
    <3>. QED  BY <3>1 DEF Pass
  <2>. DEFINE next == keep[k + 1]
              kept == keep[k]
              region == run[k]
  <2>5. NextKept(options, k, kept, next)
    BY <2>3 DEF Pass, NextKept
  <2>. HIDE DEF next, kept, region
  <2>6. Keeps(options, k, kept) /\ Removes(bytes, start, options, k, kept, region)
    BY <2>1 DEF kept, region
  <2>7. Keeps(options, k + 1, next)
    BY <2>2, <2>5, <2>6, KeepsNext
  <2>8. Removes(bytes, start, options, k + 1, next, OptionStep(region))
    BY <1>4, <2>2, <2>5, <2>6, RemovesNext
  <2>. QED  BY <2>4, <2>7, <2>8 DEF next, region
<1>. HIDE DEF S
<1>11. n \in S
  <2>1. Nat \subseteq S
    BY <1>9, <1>10, Induction
  <2>. HIDE DEF n
  <2>. QED  BY <1>1, <2>1
<1>12. Good(n)
  <2>1. n <= n
    BY <1>1
  <2>. HIDE DEF n
  <2>. QED  BY <1>11, <2>1 DEF S
<1>13. OptionStep(run[n]) = run[n]
  <2>1. Len(Flat(ss, n)) = size
    BY <1>1
  <2>2. run[n].end = run[n].it + (size - size) /\ run[n].it \in Nat
    BY <1>12, <2>1 DEF Removes
  <2>. DEFINE region == run[n]
  <2>3. region.it = region.end
    <3>. HIDE DEF size, n
    <3>. QED  BY <1>3, <2>2
  <2>. HIDE DEF region
  <2>4. OptionStep(region) = region
    BY <2>3 DEF OptionStep
  <2>. QED  BY <2>4 DEF region
<1>. DEFINE T == {k \in Nat : n + k <= size => run[n + k] = run[n]}
<1>14. 0 \in T
  <2>1. n + 0 = n
    BY <1>1
  <2>. QED  BY <2>1
<1>15. ASSUME NEW k \in Nat, k \in T
       PROVE  k + 1 \in T
  <2>. SUFFICES ASSUME n + (k + 1) <= size
                PROVE  run[n + (k + 1)] = run[n]
    OBVIOUS
  <2>1. n + k <= size
    <3>. HIDE DEF n, size
    <3>. QED  BY <1>1, <1>3
  <2>2. run[n + k] = run[n]
    BY <1>15, <2>1
  <2>. DEFINE l == n + k
  <2>3. l \in 0..(size - 1) /\ n + (k + 1) = l + 1
    <3>. HIDE DEF n, size
    <3>. QED  BY <1>1, <1>3
  <2>. HIDE DEF l
  <2>4. run[l + 1] = Pass("options", bytes, run[l], Numbers(size)[l + 1])
    <3>. HIDE DEF size
    <3>. QED  BY <1>7, <2>3 DEF Runs
  <2>5. run[l + 1] = OptionStep(run[l])
    BY <2>4 DEF Pass
  <2>6. run[l] = run[n]
    BY <2>2 DEF l
  <2>. QED  BY <1>13, <2>3, <2>5, <2>6
<1>. HIDE DEF T
<1>16. size - n \in T
  <2>1. Nat \subseteq T
    BY <1>14, <1>15, Induction
  <2>2. size - n \in Nat
    <3>. HIDE DEF size, n
    <3>. QED  BY <1>1, <1>3, <1>5
  <2>. QED  BY <2>1, <2>2
<1>17. run[size] = run[n]
  <2>1. n + (size - n) = size /\ size <= size
    <3>. HIDE DEF size, n
    <3>. QED  BY <1>1, <1>3
  <2>. HIDE DEF size, n
  <2>. QED  BY <1>16, <2>1 DEF T
<1>18. /\ Keeps(options, n, WithoutPadding(options))
       /\ Removes(bytes, start, options, n, WithoutPadding(options),
                  RemovePaddingOption(bytes, start, size))
  <2>. HIDE DEF size, n
  <2>. QED  BY <1>7, <1>8, <1>12, <1>17
<1>. QED  BY <1>18

-----------------------------------------------------------------------------

(* Shrink *)

\* A packet in which a number was written.
LEMMA ShortSet ==
    ASSUME NEW bytes \in Seq(Nat), NEW i \in 1..(Len(bytes) - 1), NEW n \in Nat
    PROVE  LET new == SetShort(bytes, i, n)
           IN  /\ new \in Seq(Nat) /\ Len(new) = Len(bytes)
               /\ Has(new, i, ShortBytes(n))
               /\ \A j \in 1..Len(bytes) : j # i /\ j # i + 1 => new[j] = bytes[j]
<1>. DEFINE sb == ShortBytes(n)
            one == [bytes EXCEPT ![i] = sb[1]]
            new == [one EXCEPT ![i + 1] = sb[2]]
            l == Len(bytes)
<1>1. sb \in Seq(Nat) /\ Len(sb) = 2
  BY ShortIsBytes
<1>2. l \in Nat /\ i \in 1..l /\ i + 1 \in 1..l /\ i # i + 1
  OBVIOUS
<1>3. sb[1] \in Nat /\ sb[2] \in Nat
  <2>1. (n \div 256) % 256 \in Nat /\ n % 256 \in Nat
    OBVIOUS
  <2>2. sb[1] = (n \div 256) % 256 /\ sb[2] = n % 256
    BY DEF ShortBytes
  <2>. HIDE DEF sb
  <2>. QED  BY <2>1, <2>2
<1>4. SetShort(bytes, i, n) = new
  BY <1>2 DEF SetShort
<1>. HIDE DEF sb
<1>5. /\ one \in Seq(Nat) /\ Len(one) = l /\ one[i] = sb[1]
      /\ \A j \in 1..l : j # i => one[j] = bytes[j]
  BY <1>2, <1>3, Changed
<1>. HIDE DEF one, l
<1>6. /\ new \in Seq(Nat) /\ Len(new) = l /\ new[i + 1] = sb[2]
      /\ \A j \in 1..l : j # i + 1 => new[j] = one[j]
  BY <1>2, <1>3, <1>5, Changed
<1>. HIDE DEF new
<1>7. new[i] = sb[1]
  BY <1>2, <1>5, <1>6
<1>8. \A j \in 1..l : j # i /\ j # i + 1 => new[j] = bytes[j]
  BY <1>5, <1>6
<1>9. Has(new, i, sb)
  <2>1. ASSUME NEW j \in 1..2 PROVE new[i + j - 1] = sb[j]
    <3>1. j = 1 \/ j = 2
      OBVIOUS
    <3>2. i + 1 - 1 = i /\ i + 2 - 1 = i + 1
      BY <1>2
    <3>3. CASE j = 1
      BY <1>7, <3>2, <3>3
    <3>4. CASE j = 2
      BY <1>6, <3>2, <3>4
    <3>. QED  BY <3>1, <3>3, <3>4
  <2>2. i + 2 <= l + 1
    BY <1>2
  <2>3. i + Len(sb) <= End(new)
    BY <1>1, <1>6, <2>2 DEF End
  <2>. QED  BY <1>1, <2>1, <2>3 DEF Has
<1>. QED  BY <1>4, <1>6, <1>8, <1>9 DEF sb, l

\* What is left of a packet with an OPT record at i.
Shrunk(bytes, i, options, new) ==
    LET size == Len(OptionsBytes(options))
        d    == size - Len(OptionsBytes(WithoutPadding(options)))
    IN  /\ d \in 0..size
        /\ new \in Seq(Nat) /\ Len(new) = Len(bytes) - d
        /\ Has(new, 1, ShortBytes(Short(bytes, 1) - d))
        /\ \A j \in 3..(i + 8) : new[j] = bytes[j]
        /\ Has(new, i + 9, ShortBytes(size - d))
        /\ \A j \in (i + 11 + size - d)..(Len(bytes) - d) : new[j] = bytes[j + d]
        /\ (\A j \in 1..Len(options) : ~IsPadding(options[j]))
                => /\ OptionsBytes(WithoutPadding(options)) = OptionsBytes(options)
                   /\ \A j \in (i + 11)..(i + 10 + size) : new[j] = bytes[j]
        /\ (\A j \in 1..Len(options) : IsPadding(options[j])) => d = size

\* The code that removes the padding of the OPT record at i.
LEMMA Shrinks ==
    ASSUME NEW bytes, IsPacket(bytes), NEW i \in Nat, i >= 3, NEW options, AreOptions(options),
           Short(bytes, 1) = Len(bytes) - 2,
           Has(bytes, i + 9, ShortBytes(Len(OptionsBytes(options)))),
           Has(bytes, i + 11, OptionsBytes(options))
    PROVE  Shrunk(bytes, i, options, Shrink(bytes, i))
<1>. DEFINE data == OptionsBytes(options)
            size == Len(data)
            n == Len(options)
            start == i + 11
            place == i + 9
            kept == WithoutPadding(options)
            left == Len(OptionsBytes(kept))
            d == size - left
            region == RemovePaddingOption(bytes, start, size)
            old == region.bytes
            l == Len(bytes)
            one == SetShort(old, place, size - d)
            two == SetShort(one, 1, l - 2 - d)
            new == SubSeq(two, 1, start - 1) \o SubSeq(two, start + d, Len(two))
<1>1. bytes \in Seq(Nat) /\ l < 65540
  BY DEF IsPacket
<1>2. data \in Seq(Nat) /\ n \in Nat /\ data = Flat(Split(options), n)
  BY OptionsAreBytes
<1>3. start + size <= l + 1
  BY DEF Has, End
<1>4. l \in Nat /\ size \in Nat
  BY <1>1, <1>2
<1>5. Fits(size)
  <2>. HIDE DEF size, l
  <2>. QED  BY <1>1, <1>3, <1>4 DEF Fits
<1>6. Short(bytes, place) = size
  <2>1. Has(bytes, place, ShortBytes(size)) /\ place \in Nat \ {0}
    OBVIOUS
  <2>. HIDE DEF size, place
  <2>. QED  BY <1>5, <2>1, HasFit
<1>7. Keeps(options, n, kept) /\ Removes(bytes, start, options, n, kept, region)
  <2>1. Has(bytes, start, OptionsBytes(options)) /\ start \in Nat \ {0}
    OBVIOUS
  <2>2. Fits(Len(OptionsBytes(options)))
    BY <1>5
  <2>. HIDE DEF start
  <2>. QED  BY <1>1, <2>1, <2>2, Removal
<1>8. left \in Nat
  <2>1. OptionsBytes(kept) \in Seq(Nat)
    BY <1>7, OptionsAreBytes DEF Keeps
  <2>. QED  BY <2>1
<1>9. Len(Flat(Split(options), n)) = size
  BY <1>2
<1>10. /\ old \in Seq(Nat) /\ Len(old) = l
       /\ region.it = start + left /\ region.end = region.it + (size - size)
       /\ left <= size
  BY <1>7, <1>9 DEF Removes
<1>11. \A j \in 1..l : j < start \/ j >= start + size => old[j] = bytes[j]
  BY <1>7 DEF Removes
<1>12. (\A j \in 1..n : ~IsPadding(options[j])) => old = bytes
  BY <1>7 DEF Removes
<1>13. (\A j \in 1..n : ~IsPadding(options[j])) => OptionsBytes(kept) = data
  <2>. SUFFICES ASSUME \A j \in 1..n : ~IsPadding(options[j])
                PROVE  OptionsBytes(kept) = data
    OBVIOUS
  <2>1. Len(kept) = n /\ AreOptions(kept) /\ \A j \in 1..n : kept[j] = options[j]
    BY <1>7 DEF Keeps
  <2>2. DOMAIN kept = 1..n /\ DOMAIN options = 1..n
    BY <2>1 DEF AreOptions, IsSequence
  <2>3. Agree(Split(kept), Split(options), n)
    BY <2>1, <2>2 DEF Agree, Split
  <2>4. OptionsBytes(kept) = Flat(Split(kept), n)
    BY <2>1, OptionsAreBytes
  <2>5. Flat(Split(kept), n) = Flat(Split(options), n)
    BY <1>2, <2>3, FlatAgree
  <2>. QED  BY <1>2, <2>4, <2>5
<1>25. (\A j \in 1..n : IsPadding(options[j])) => left = 0
  <2>. SUFFICES ASSUME \A j \in 1..n : IsPadding(options[j])
                PROVE  left = 0
    OBVIOUS
  <2>1. kept = <<>>
    BY <1>7 DEF Keeps
  <2>2. OptionsBytes(kept) = <<>>
    BY <2>1, KeepsNone
  <2>. QED  BY <2>2
<1>14. Shrink(bytes, i) = new
  <2>1. size - (region.end - start) = d
    <3>. DEFINE it == region.it
                end == region.end
    <3>1. it = start + left /\ end = it + (size - size)
      BY <1>10
    <3>. HIDE DEF size, left, it, end
    <3>2. size - (end - start) = size - left
      BY <1>4, <1>8, <3>1
    <3>. QED  BY <3>2 DEF end
  <2>2. Short(bytes, 1) = l - 2
    OBVIOUS
  <2>. DEFINE Rest(length, less, first) ==
                LET patched == SetShort(SetShort(RemovePaddingOption(bytes, start, length).bytes,
                                                 place, length - less), 1, first - less)
                IN  SubSeq(patched, 1, start - 1) \o SubSeq(patched, start + less, Len(patched))
              length == Short(bytes, place)
  <2>3. Shrink(bytes, i)
          = Rest(length, length - (RemovePaddingOption(bytes, start, length).end - start),
                 Short(bytes, 1))
    BY DEF Shrink
  <2>4. new = Rest(size, d, l - 2)
    OBVIOUS
  <2>. HIDE DEF size, left, d, l, new, Rest, length
  <2>5. length = size
    BY <1>6 DEF length
  <2>. QED  BY <2>1, <2>2, <2>3, <2>4, <2>5
<1>26. (\A j \in 1..n : ~IsPadding(options[j])) => d = 0
  <2>1. OptionsBytes(kept) = data => left = size
    OBVIOUS
  <2>. HIDE DEF data, size, left, n, kept
  <2>. QED  BY <1>4, <1>13, <2>1
<1>27. (\A j \in 1..n : IsPadding(options[j])) => d = size
  <2>. HIDE DEF size, left, n
  <2>. QED  BY <1>4, <1>25
<1>. HIDE DEF data, size, n, kept, left, region, old, l
<1>15. /\ d \in 0..size /\ size - d \in Nat /\ l - 2 - d \in Nat
       /\ place \in 1..(l - 1) /\ 1 \in 1..(l - 1) /\ place >= 12
  BY <1>3, <1>4, <1>8, <1>10
<1>. HIDE DEF d
<1>16. /\ one \in Seq(Nat) /\ Len(one) = l
       /\ Has(one, place, ShortBytes(size - d))
       /\ \A j \in 1..l : j # place /\ j # place + 1 => one[j] = old[j]
  <2>. HIDE DEF place
  <2>. QED  BY <1>10, <1>15, ShortSet
<1>. HIDE DEF one
<1>17. /\ two \in Seq(Nat) /\ Len(two) = l
       /\ Has(two, 1, ShortBytes(l - 2 - d))
       /\ \A j \in 1..l : j # 1 /\ j # 1 + 1 => two[j] = one[j]
  BY <1>15, <1>16, ShortSet
<1>. HIDE DEF two
<1>18. /\ new \in Seq(Nat) /\ Len(new) = l - d
       /\ \A j \in 1..(start - 1) : new[j] = two[j]
       /\ \A j \in start..(l - d) : new[j] = two[j + d]
  <2>1. start \in 1..(Len(two) + 1) /\ d \in 0..(Len(two) - start + 1)
    <3>1. start \in 1..(l + 1) /\ d \in 0..(l - start + 1)
      BY <1>3, <1>4, <1>15
    <3>. QED  BY <1>17, <3>1
  <2>. HIDE DEF start
  <2>. QED  BY <1>17, <2>1, CutOut
<1>. HIDE DEF new
<1>19. ASSUME NEW j \in 3..(i + 8) PROVE new[j] = bytes[j]
  <2>1. /\ j \in 1..(start - 1) /\ j \in 1..l /\ j # 1 /\ j # 1 + 1
        /\ j # place /\ j # place + 1 /\ j < start
    BY <1>3, <1>4
  <2>. QED  BY <1>11, <1>16, <1>17, <1>18, <2>1
<1>20. ASSUME NEW j \in (start + size - d)..(l - d) PROVE new[j] = bytes[j + d]
  <2>1. /\ j \in start..(l - d) /\ j + d \in 1..l /\ j + d # 1 /\ j + d # 1 + 1
        /\ j + d # place /\ j + d # place + 1 /\ j + d >= start + size
    BY <1>3, <1>4, <1>15
  <2>. QED  BY <1>11, <1>16, <1>17, <1>18, <2>1
<1>21. Has(new, 1, ShortBytes(l - 2 - d))
  <2>. DEFINE sb == ShortBytes(l - 2 - d)
  <2>1. Len(sb) = 2
    BY <1>15, ShortIsBytes
  <2>. HIDE DEF sb
  <2>2. \A j \in 1..2 : two[1 + j - 1] = sb[j]
    BY <1>17, <2>1 DEF Has, sb
  <2>3. ASSUME NEW j \in 1..2 PROVE new[1 + j - 1] = sb[j]
    <3>1. 1 + j - 1 \in 1..(start - 1)
      OBVIOUS
    <3>. QED  BY <1>18, <2>2, <3>1
  <2>4. 1 + 2 <= End(new)
    <3>1. 1 + 2 <= l - d + 1
      BY <1>3, <1>4, <1>15
    <3>. QED  BY <1>18, <3>1 DEF End
  <2>. QED  BY <2>1, <2>3, <2>4 DEF Has, sb
<1>22. Has(new, place, ShortBytes(size - d))
  <2>. DEFINE sb == ShortBytes(size - d)
  <2>1. Len(sb) = 2
    BY <1>15, ShortIsBytes
  <2>. HIDE DEF sb
  <2>2. \A j \in 1..2 : one[place + j - 1] = sb[j]
    BY <1>16, <2>1 DEF Has, sb
  <2>3. ASSUME NEW j \in 1..2 PROVE new[place + j - 1] = sb[j]
    <3>1. /\ place + j - 1 \in 1..(start - 1) /\ place + j - 1 \in 1..l
          /\ place + j - 1 # 1 /\ place + j - 1 # 1 + 1
      BY <1>3, <1>4
    <3>. QED  BY <1>17, <1>18, <2>2, <3>1
  <2>4. place + 2 <= End(new)
    <3>1. place + 2 <= l - d + 1
      BY <1>3, <1>4, <1>15
    <3>. QED  BY <1>18, <3>1 DEF End
  <2>. QED  BY <2>1, <2>3, <2>4 DEF Has, sb
<1>23. ASSUME \A j \in 1..n : ~IsPadding(options[j])
       PROVE  /\ OptionsBytes(kept) = data
              /\ \A j \in start..(i + 10 + size) : new[j] = bytes[j]
  <2>1. d = 0
    BY <1>23, <1>26
  <2>2. old = bytes
    BY <1>12, <1>23
  <2>3. ASSUME NEW j \in start..(i + 10 + size) PROVE new[j] = bytes[j]
    <3>1. /\ j \in start..(l - d) /\ j + d = j /\ j \in 1..l /\ j # 1 /\ j # 1 + 1
          /\ j # place /\ j # place + 1
      BY <1>3, <1>4, <2>1
    <3>. QED  BY <1>16, <1>17, <1>18, <2>2, <3>1
  <2>. QED  BY <1>13, <1>23, <2>3
<1>24. Short(bytes, 1) - d = l - 2 - d
  BY DEF l
<1>. QED
  BY <1>14, <1>15, <1>18, <1>19, <1>20, <1>21, <1>22, <1>23, <1>24, <1>27
  DEF Shrunk, data, size, n, kept, left, d, l, start, place

-----------------------------------------------------------------------------

(* The response without its padding *)

\* What is before the record i of the additional section.
Before(message, i) ==
    ((FrontOf(message) \o SectionBytes(message.answers)) \o SectionBytes(message.authorities))
        \o Flat(Parts(message.additional), i - 1)

\* The records behind the one at i.
Remain(after, records, i) ==
    /\ Len(after) = Len(records) - i
    /\ \A j \in 1..Len(after) : after[j] = records[i + j]

\* The record i of the additional section, and what is around it.
Around(message, i, after) ==
    LET record == message.additional[i]
    IN  /\ Before(message, i) \in Seq(Nat)
        /\ RecordAt(message, i) = 3 + Len(Before(message, i))
        /\ RecordBytes(record) \in Seq(Nat) /\ SectionBytes(after) \in Seq(Nat)
        /\ Body(message)
             = (Before(message, i) \o RecordBytes(record)) \o SectionBytes(after)

\* The bytes of a response are those before a record, its own and those behind it.
LEMMA BodyAround ==
    ASSUME NEW message, HasSections(message), NEW i \in 1..Len(message.additional),
           NEW after, AreRecords(after), Remain(after, message.additional, i)
    PROVE  Around(message, i, after)
<1>. DEFINE f == FrontOf(message)
            a == SectionBytes(message.answers)
            b == SectionBytes(message.authorities)
            cs == message.additional
            c == SectionBytes(cs)
            n == Len(cs)
            m == Len(after)
            ss == Parts(cs)
            tt == Parts(after)
            l == i - 1
            pre == Flat(ss, l)
            r == RecordBytes(cs[i])
            rest == SectionBytes(after)
            front == (f \o a) \o b
<1>1. /\ f \in Seq(Nat) /\ Len(f) = 19
      /\ a \in Seq(Nat) /\ b \in Seq(Nat) /\ c \in Seq(Nat)
      /\ Body(message) = ((f \o a) \o b) \o c
  BY BodyParts
<1>2. /\ n \in Nat /\ AreBytes(ss, n) /\ c = Flat(ss, n)
      /\ \A j \in 1..n : ss[j] = RecordBytes(cs[j])
  BY SectionIsBytes DEF HasSections
<1>3. /\ m \in Nat /\ AreBytes(tt, m) /\ rest = Flat(tt, m) /\ rest \in Seq(Nat)
      /\ \A j \in 1..m : tt[j] = RecordBytes(after[j])
  BY SectionIsBytes
<1>4. m = n - i /\ i \in 1..n /\ \A j \in 1..m : after[j] = cs[i + j]
  BY DEF Remain
<1>5. RecordAt(message, i) = 22 + Len(a) + Len(b) + Len(pre)
  BY DEF RecordAt, Additionals
<1>6. Before(message, i) = front \o pre
  BY DEF Before
<1>. HIDE DEF f, a, b, cs, c, n, m, ss, tt, pre, r, rest
<1>7. /\ l \in 0..(n - 1) /\ l + 1 = i /\ i \in Nat /\ i + m = n
  BY <1>2, <1>3, <1>4
<1>. HIDE DEF l
<1>8. pre \in Seq(Nat) /\ ss[i] \in Seq(Nat) /\ Flat(ss, i) = pre \o ss[i]
  <2>1. /\ Flat(ss, l) \in Seq(Nat) /\ ss[l + 1] \in Seq(Nat)
        /\ Flat(ss, l + 1) = Flat(ss, l) \o ss[l + 1]
    BY <1>2, <1>7, FlatStep
  <2>. QED  BY <1>7, <2>1 DEF pre
<1>9. ss[i] = r
  BY <1>2, <1>4 DEF r
<1>10. c = Flat(ss, i) \o rest
  <2>1. \A j \in 1..m : tt[j] = ss[i + j]
    <3>1. ASSUME NEW j \in 1..m PROVE tt[j] = ss[i + j]
      <4>1. i + j \in 1..n
        BY <1>2, <1>3, <1>7
      <4>. QED  BY <1>2, <1>3, <1>4, <4>1
    <3>. QED  BY <3>1
  <2>2. AreBytes(ss, i + m)
    BY <1>2, <1>7
  <2>4. Follow(tt, m, ss, i)
    BY <2>1 DEF Follow
  <2>3. Flat(ss, i + m) = Flat(ss, i) \o Flat(tt, m)
    <3>1. i \in Nat /\ m \in Nat /\ AreBytes(tt, m)
      BY <1>3, <1>7
    <3>. QED  BY <2>2, <2>4, <3>1, FlatSplit
  <2>. QED  BY <1>2, <1>3, <1>7, <2>3
<1>11. f \o a \in Seq(Nat) /\ Len(f \o a) = 19 + Len(a)
  <2>1. f \o a \in Seq(Nat) /\ Len(f \o a) = Len(f) + Len(a)
    BY <1>1, Joined
  <2>. QED  BY <1>1, <2>1
<1>12. front \in Seq(Nat) /\ Len(front) = 19 + Len(a) + Len(b)
  <2>1. front \in Seq(Nat) /\ Len(front) = Len(f \o a) + Len(b)
    BY <1>1, <1>11, Joined
  <2>. QED  BY <1>11, <2>1
<1>13. Body(message) = front \o c
  BY <1>1
<1>. HIDE DEF front
<1>14. front \o pre \in Seq(Nat) /\ Len(front \o pre) = 19 + Len(a) + Len(b) + Len(pre)
  BY <1>8, <1>12, Joined
<1>15. front \o ((pre \o r) \o rest) = ((front \o pre) \o r) \o rest
  <2>. DEFINE x == pre \o r
  <2>1. x \in Seq(Nat) /\ r \in Seq(Nat)
    BY <1>8, <1>9, Joined
  <2>2. front \o x = (front \o pre) \o r
    BY <1>8, <1>12, <2>1, JoinedTwice
  <2>. HIDE DEF x
  <2>3. front \o (x \o rest) = (front \o x) \o rest
    BY <1>3, <1>12, <2>1, JoinedTwice
  <2>. QED  BY <2>2, <2>3 DEF x
<1>16. c = (pre \o r) \o rest
  BY <1>8, <1>9, <1>10
<1>17. Body(message) = ((front \o pre) \o r) \o rest
  BY <1>13, <1>15, <1>16
<1>18. RecordAt(message, i) = 3 + Len(front \o pre)
  <2>. DEFINE x == Len(a)
              y == Len(b)
              z == Len(pre)
              w == Len(front \o pre)
  <2>1. x \in Nat /\ y \in Nat /\ z \in Nat
    BY <1>1, <1>8
  <2>2. w = 19 + x + y + z /\ RecordAt(message, i) = 22 + x + y + z
    BY <1>5, <1>14
  <2>. HIDE DEF x, y, z, w
  <2>3. RecordAt(message, i) = 3 + w
    BY <2>1, <2>2
  <2>. QED  BY <2>3 DEF w
<1>. QED  BY <1>3, <1>6, <1>8, <1>9, <1>14, <1>17, <1>18 DEF Around, r, rest, cs

\* A length and a body.
Packet(body) == ShortBytes(Len(body)) \o body

\* A packet, and where the parts of its body are.
Laid(bytes, body, head, r, after) ==
    /\ body \in Seq(Nat) /\ Len(body) = Len(head) + Len(r) + Len(after)
    /\ Len(head) \in Nat /\ Len(r) \in Nat /\ Len(after) \in Nat
    /\ bytes \in Seq(Nat) /\ Len(bytes) = Len(body) + 2
    /\ Has(bytes, 1, ShortBytes(Len(body)))
    /\ Has(bytes, 3, head)
    /\ Has(bytes, 3 + Len(head), r)
    /\ Has(bytes, 3 + Len(head) + Len(r), after)

\* The packet of a body of three parts.
LEMMA HasBody ==
    ASSUME NEW head \in Seq(Nat), NEW r \in Seq(Nat), NEW after \in Seq(Nat)
    PROVE  LET body == (head \o r) \o after
           IN  Laid(Packet(body), body, head, r, after)
<1>. DEFINE body == (head \o r) \o after
            sb == ShortBytes(Len(body))
            bytes == sb \o body
            i == 3 + Len(head)
<1>1. Len(head) \in Nat /\ Len(r) \in Nat /\ Len(after) \in Nat
  OBVIOUS
<1>2. head \o r \in Seq(Nat) /\ Len(head \o r) = Len(head) + Len(r)
  BY Joined
<1>. DEFINE both == head \o r
<1>. HIDE DEF both
<1>3. /\ both \in Seq(Nat) /\ Len(both) = Len(head) + Len(r)
      /\ body = both \o after
  BY <1>2 DEF both
<1>. HIDE DEF body
<1>4. body \in Seq(Nat) /\ Len(body) = Len(both) + Len(after)
  BY <1>3, Joined
<1>5. Len(body) \in Nat /\ Len(body) = Len(head) + Len(r) + Len(after)
  BY <1>1, <1>3, <1>4
<1>6. sb \in Seq(Nat) /\ Len(sb) = 2
  <2>. DEFINE n == Len(body)
  <2>1. n \in Nat
    BY <1>5
  <2>. HIDE DEF n
  <2>2. ShortBytes(n) \in Seq(Nat) /\ Len(ShortBytes(n)) = 2
    BY <2>1, ShortIsBytes
  <2>. QED  BY <2>2 DEF n
<1>. HIDE DEF sb
<1>7. bytes \in Seq(Nat) /\ Len(bytes) = 2 + Len(body)
  <2>1. sb \o body \in Seq(Nat) /\ Len(sb \o body) = Len(sb) + Len(body)
    BY <1>4, <1>6, Joined
  <2>. QED  BY <1>6, <2>1
<1>8. Has(bytes, 1, sb) /\ Has(bytes, 3, body)
  <2>1. Has(bytes, 1, bytes)
    BY <1>7, HasAll
  <2>2. Has(bytes, 1, sb \o body) /\ 1 \in Nat \ {0}
    BY <2>1
  <2>. HIDE DEF bytes
  <2>3. Has(bytes, 1, sb) /\ Has(bytes, 1 + Len(sb), body)
    BY <1>4, <1>6, <1>7, <2>2, HasBoth
  <2>4. 1 + Len(sb) = 3
    BY <1>6
  <2>. QED  BY <2>3, <2>4
<1>. HIDE DEF bytes
<1>9. Has(bytes, 3, both) /\ Has(bytes, 3 + Len(both), after)
  <2>1. Has(bytes, 3, both \o after) /\ 3 \in Nat \ {0}
    BY <1>3, <1>8
  <2>. QED  BY <1>3, <1>7, <2>1, HasBoth
<1>10. Has(bytes, 3, head) /\ Has(bytes, i, r)
  <2>1. Has(bytes, 3, head \o r) /\ 3 \in Nat \ {0}
    BY <1>9 DEF both
  <2>. QED  BY <1>7, <2>1, HasBoth
<1>11. 3 + Len(both) = i + Len(r) /\ 2 + Len(body) = Len(body) + 2
  BY <1>1, <1>3, <1>5
<1>. QED
  BY <1>1, <1>4, <1>5, <1>7, <1>8, <1>9, <1>10, <1>11
  DEF Laid, Packet, bytes, sb, body

\* What WithoutPadding keeps.
LEMMA KeepsAll ==
    ASSUME NEW options, AreOptions(options)
    PROVE  Keeps(options, Len(options), WithoutPadding(options))
<1>. DEFINE n == Len(options)
<1>1. n \in Nat /\ DOMAIN options = 1..n
  BY DEF AreOptions, IsSequence
<1>2. PICK keep : /\ Runs("keep", <<>>, <<>>, options, n, keep)
                  /\ WithoutPadding(options) = keep[n]
  <2>. HIDE DEF n
  <2>. QED  BY <1>1, KeptRuns
<1>. DEFINE S == {k \in Nat : k <= n => Keeps(options, k, keep[k])}
<1>3. 0 \in S
  <2>1. keep[0] = <<>>
    BY <1>2 DEF Runs
  <2>. QED  BY <2>1, KeepsNone
<1>4. ASSUME NEW k \in Nat, k \in S
      PROVE  k + 1 \in S
  <2>. SUFFICES ASSUME k + 1 <= n
                PROVE  Keeps(options, k + 1, keep[k + 1])
    OBVIOUS
  <2>. DEFINE next == keep[k + 1]
              kept == keep[k]
  <2>1. Keeps(options, k, kept)
    BY <1>1, <1>4
  <2>2. k \in 0..(n - 1)
    <3>. HIDE DEF n
    <3>. QED  BY <1>1
  <2>3. next = Pass("keep", <<>>, kept, options[k + 1])
    <3>. HIDE DEF n
    <3>. QED  BY <1>2, <2>2 DEF Runs
  <2>. HIDE DEF next, kept
  <2>4. NextKept(options, k, kept, next)
    BY <2>3 DEF Pass, NextKept
  <2>5. Keeps(options, k + 1, next)
    BY <2>1, <2>2, <2>4, KeepsNext
  <2>. QED  BY <2>5 DEF next
<1>. HIDE DEF S
<1>5. n \in S
  <2>1. Nat \subseteq S
    BY <1>3, <1>4, Induction
  <2>. HIDE DEF n
  <2>. QED  BY <1>1, <2>1
<1>6. Keeps(options, n, keep[n])
  <2>1. n <= n
    BY <1>1
  <2>. HIDE DEF n
  <2>. QED  BY <1>5, <2>1 DEF S
<1>. QED  BY <1>2, <1>6

\* A record without its padding is a record.
LEMMA BareRecord ==
    ASSUME NEW record, IsRecord(record)
    PROVE  /\ IsRecord(Unpadded(record)) /\ Unpadded(record).type = record.type
           /\ record.type = OPT
                => /\ AreOptions(record.options)
                   /\ Unpadded(record).options = WithoutPadding(record.options)
           /\ record.type # OPT => Unpadded(record) = record
<1>1. CASE record.type = OPT
  <2>. DEFINE options == record.options
              kept == WithoutPadding(options)
              bare == Unpadded(record)
  <2>1. AreOptions(options) /\ record = [type |-> OPT, options |-> options]
    BY <1>1 DEF IsRecord, AreOptions
  <2>. HIDE DEF options
  <2>2. bare = [type |-> OPT, options |-> kept]
    <3>1. record.options = options
      BY DEF options
    <3>2. bare = [record EXCEPT !.options = kept]
      BY <1>1, <3>1 DEF Unpadded
    <3>. HIDE DEF kept, bare
    <3>. QED  BY <2>1, <3>2
  <2>3. AreOptions(kept)
    BY <2>1, KeepsAll DEF Keeps
  <2>. HIDE DEF kept, bare
  <2>4. bare.type = OPT /\ bare.options = kept
    BY <2>2
  <2>5. IsSequence(kept) /\ \A j \in DOMAIN kept : IsOption(kept[j])
    BY <2>3 DEF AreOptions
  <2>6. bare = [type |-> OPT, options |-> bare.options]
    BY <2>2, <2>4
  <2>7. IsSequence(bare.options) /\ \A j \in DOMAIN bare.options : IsOption(bare.options[j])
    BY <2>4, <2>5
  <2>8. IsRecord(bare)
    BY <2>4, <2>6, <2>7 DEF IsRecord
  <2>. QED  BY <1>1, <2>1, <2>4, <2>8 DEF bare, kept, options
<1>2. CASE record.type # OPT
  BY <1>2 DEF Unpadded
<1>. QED  BY <1>1, <1>2

\* A sequence of n elements.
LEMMA MadeOf ==
    ASSUME NEW S, NEW n \in Nat, NEW f \in [1..n -> S]
    PROVE  f \in Seq(S) /\ Len(f) = n /\ DOMAIN f = 1..n
OBVIOUS

\* A response has three sections and nothing else.
Whole(message) ==
    message = [answers |-> message.answers, authorities |-> message.authorities,
               additional |-> message.additional]

\* The response without its padding.
Bare(message) ==
    [message EXCEPT !.additional = [i \in DOMAIN @ |-> Unpadded(@[i])]]

\* The response without its padding, field by field.
LEMMA BareAt ==
    ASSUME NEW a, NEW b, NEW c, NEW message,
           message = [answers |-> a, authorities |-> b, additional |-> c]
    PROVE  Bare(message) = [answers |-> a, authorities |-> b,
                            additional |-> [i \in DOMAIN c |-> Unpadded(c[i])]]
<1>. DEFINE d == [i \in DOMAIN c |-> Unpadded(c[i])]
<1>1. message.additional = c
  OBVIOUS
<1>2. Bare(message) = [message EXCEPT !.additional = d]
  BY <1>1 DEF Bare
<1>. HIDE DEF d
<1>3. Bare(message) = [answers |-> a, authorities |-> b, additional |-> d]
  BY <1>2
<1>. QED  BY <1>3 DEF d

\* The response without its padding has records, one for each it had.
LEMMA BareMessage ==
    ASSUME NEW message, Whole(message), HasSections(message)
    PROVE  LET bare == Bare(message)
               n == Len(message.additional)
           IN  /\ HasSections(bare)
               /\ bare.answers = message.answers /\ bare.authorities = message.authorities
               /\ n \in Nat /\ Len(bare.additional) = n /\ DOMAIN message.additional = 1..n
               /\ \A i \in 1..n : /\ bare.additional[i] = Unpadded(message.additional[i])
                                  /\ IsRecord(message.additional[i])
               /\ (\A i \in 1..n : message.additional[i].type # OPT) => bare = message
<1>. DEFINE a == message.answers
            b == message.authorities
            c == message.additional
            n == Len(c)
            bare == Bare(message)
            d == [i \in 1..n |-> Unpadded(c[i])]
            S == {Unpadded(c[i]) : i \in 1..n}
<1>1. message = [answers |-> a, authorities |-> b, additional |-> c]
  BY DEF Whole
<1>2. AreRecords(a) /\ AreRecords(b) /\ AreRecords(c)
  BY DEF HasSections
<1>. HIDE DEF a, b, c, n, d, S
<1>3. n \in Nat /\ DOMAIN c = 1..n /\ c \in Seq(Range(c))
  BY <1>2 DEF AreRecords, IsSequence, n
<1>4. \A i \in 1..n : IsRecord(c[i])
  BY <1>2, <1>3 DEF AreRecords
<1>5. bare = [answers |-> a, authorities |-> b, additional |-> d]
  <2>. DEFINE e == [i \in DOMAIN c |-> Unpadded(c[i])]
  <2>1. bare = [answers |-> a, authorities |-> b, additional |-> e]
    BY <1>1, BareAt
  <2>2. e = d
    BY <1>3 DEF d
  <2>. HIDE DEF bare, e
  <2>. QED  BY <2>1, <2>2
<1>. HIDE DEF bare
<1>6. d \in Seq(S) /\ Len(d) = n /\ DOMAIN d = 1..n
  <2>1. d \in [1..n -> S]
    BY DEF d, S
  <2>. QED  BY <1>3, <2>1, MadeOf
<1>7. \A i \in 1..n : d[i] = Unpadded(c[i])
  BY DEF d
<1>8. AreRecords(d)
  <2>1. IsSequence(d)
    BY <1>6, OwnRange
  <2>2. ASSUME NEW i \in 1..n PROVE IsRecord(d[i])
    <3>1. IsRecord(c[i])
      BY <1>4
    <3>2. IsRecord(Unpadded(c[i]))
      BY <3>1, BareRecord
    <3>. QED  BY <1>7, <3>2
  <2>. QED  BY <1>6, <2>1, <2>2 DEF AreRecords
<1>9. bare.answers = a /\ bare.authorities = b /\ bare.additional = d
  BY <1>5
<1>10. HasSections(bare)
  BY <1>2, <1>8, <1>9 DEF HasSections
<1>11. ASSUME \A i \in 1..n : c[i].type # OPT
       PROVE  bare = message
  <2>1. \A i \in 1..n : d[i] = c[i]
    <3>1. ASSUME NEW i \in 1..n PROVE d[i] = c[i]
      <4>1. IsRecord(c[i]) /\ c[i].type # OPT
        BY <1>4, <1>11
      <4>. QED  BY <1>7, <4>1, BareRecord
    <3>. QED  BY <3>1
  <2>2. d = c
    BY <1>3, <1>6, <2>1
  <2>. QED  BY <1>1, <1>5, <2>2
<1>. QED
  BY <1>3, <1>4, <1>6, <1>7, <1>9, <1>10, <1>11 DEF a, b, c, n, bare

\* Where the parts of an OPT record are.
LEMMA HasOpt ==
    ASSUME NEW bytes \in Seq(Nat), NEW p \in Nat \ {0}, NEW record, IsRecord(record),
           record.type = OPT, Has(bytes, p, RecordBytes(record))
    PROVE  LET data == OptionsBytes(record.options)
           IN  /\ Len(data) \in Nat /\ Len(RecordBytes(record)) = 11 + Len(data)
               /\ Len(Fixed(record)) = 8
               /\ Has(bytes, p, <<0>>)
               /\ Has(bytes, p + 1, Fixed(record))
               /\ Has(bytes, p + 9, ShortBytes(Len(data)))
               /\ Has(bytes, p + 11, data)
<1>. DEFINE o == Owner(record)
            data == OptionsBytes(record.options)
            fixed == Fixed(record)
            r == RecordBytes(record)
<1>1. o = <<0>> /\ Data(record) = data
  BY DEF Owner, Data
<1>2. Len(o) = 1
  BY <1>1
<1>. HIDE DEF o, data, fixed, r
<1>3. /\ Len(data) \in Nat /\ Len(fixed) = 8
      /\ Len(r) = Len(o) + 10 + Len(data)
  BY <1>1, RecordParts DEF o, fixed, r
<1>4. Len(r) = 11 + Len(data)
  BY <1>2, <1>3
<1>5. /\ Has(bytes, p, o) /\ Has(bytes, p + Len(o), fixed)
      /\ Has(bytes, (p + Len(o)) + 8, ShortBytes(Len(data)))
      /\ Has(bytes, (p + Len(o)) + 10, data)
  BY <1>1, HasRecord DEF o, fixed, r
<1>6. p + Len(o) = p + 1 /\ (p + 1) + 8 = p + 9 /\ (p + 1) + 10 = p + 11
  BY <1>2
<1>. QED  BY <1>1, <1>3, <1>4, <1>5, <1>6 DEF data, fixed, r

\* What is in two packets, d bytes further on in the second.
LEMMA SameBytes ==
    ASSUME NEW x, NEW y, NEW p \in Nat, NEW d \in Nat, NEW q, q = p + d,
           NEW s, NEW n \in Nat, Len(s) = n, NEW last, last = p + n - 1,
           Has(x, p, s), Has(y, q, s)
    PROVE  \A j \in p..last : x[j] = y[j + d]
<1>1. /\ \A k \in 1..n : x[p + k - 1] = s[k]
      /\ \A k \in 1..n : y[(p + d) + k - 1] = s[k]
  BY DEF Has
<1>2. ASSUME NEW j \in p..last PROVE x[j] = y[j + d]
  <2>. DEFINE k == j - p + 1
  <2>1. k \in 1..n /\ p + k - 1 = j /\ (p + d) + k - 1 = j + d
    OBVIOUS
  <2>. HIDE DEF k
  <2>. QED  BY <1>1, <2>1
<1>. QED  BY <1>2

\* The same bytes from p to last.
Same(x, y, p, last) == \A j \in p..last : x[j] = y[j]

\* What is in the same place in two packets.
LEMMA SameHere ==
    ASSUME NEW x, NEW y, NEW p \in Nat, NEW s, NEW n \in Nat, Len(s) = n,
           NEW last, last = p + n - 1, Has(x, p, s), Has(y, p, s)
    PROVE  Same(x, y, p, last)
<1>1. /\ \A k \in 1..n : x[p + k - 1] = s[k]
      /\ \A k \in 1..n : y[p + k - 1] = s[k]
  BY DEF Has
<1>2. ASSUME NEW j \in p..last PROVE x[j] = y[j]
  <2>. DEFINE k == j - p + 1
  <2>1. k \in 1..n /\ p + k - 1 = j
    OBVIOUS
  <2>. HIDE DEF k
  <2>. QED  BY <1>1, <2>1
<1>. QED  BY <1>2 DEF Same

\* The one packet without d bytes of its options, and the packet that is
\* wanted, of which the last `behind' bytes are behind the options.
Alike(new, want, i, left, behind, options) ==
    /\ new \in Seq(Nat) /\ want \in Seq(Nat)
    /\ Len(new) = i + 10 + left + behind /\ Len(want) = i + 10 + left + behind
    /\ left \in Nat /\ behind \in Nat
    /\ \A j \in 1..(i + 10) : new[j] = want[j]
    /\ \A j \in (i + 11 + left)..(i + 10 + left + behind) : new[j] = want[j]
    /\ (\A j \in 1..Len(options) : ~IsPadding(options[j]))
            => \A j \in (i + 11)..(i + 10 + left) : new[j] = want[j]
    /\ (\A j \in 1..Len(options) : IsPadding(options[j])) => left = 0

\* removeEdnsPadding() at an OPT record gives the packet that is wanted.
LEMMA Replaced ==
    ASSUME NEW head \in Seq(Nat), NEW after \in Seq(Nat),
           NEW record, IsRecord(record), record.type = OPT,
           NEW body, body = (head \o RecordBytes(record)) \o after,
           NEW bare, bare = (head \o RecordBytes(Unpadded(record))) \o after,
           IsPacket(Packet(body)), Short(Packet(body), 1) = Len(Packet(body)) - 2
    PROVE  LET i == 3 + Len(head)
           IN  Alike(Shrink(Packet(body), i), Packet(bare), i,
                     Len(OptionsBytes(Unpadded(record).options)), Len(after), record.options)
<1>. DEFINE bytes == Packet(body)
            want == Packet(bare)
            i == 3 + Len(head)
            new == Shrink(bytes, i)
            other == Unpadded(record)
            options == record.options
            r == RecordBytes(record)
            q == RecordBytes(other)
            data == OptionsBytes(options)
            kept == OptionsBytes(other.options)
            size == Len(data)
            left == Len(kept)
            h == Len(head)
            a == Len(after)
            fixed == Fixed(record)
            l == Len(bytes)
<1>1. /\ IsRecord(other) /\ other.type = OPT /\ AreOptions(options)
      /\ other.options = WithoutPadding(options)
  BY BareRecord
<1>2. r \in Seq(Nat) /\ q \in Seq(Nat)
  BY <1>1, RecordParts
<1>3. Fixed(other) = fixed
  BY <1>1 DEF Fixed
<1>4. kept = OptionsBytes(WithoutPadding(options))
  BY <1>1
<1>5. body = (head \o r) \o after /\ bare = (head \o q) \o after
  OBVIOUS
<1>6. IsPacket(bytes) /\ Short(bytes, 1) = Len(bytes) - 2
  OBVIOUS
<1>. HIDE DEF r, q, other, options
<1>7. /\ h \in Nat /\ a \in Nat
      /\ Len(body) = h + Len(r) + a
      /\ bytes \in Seq(Nat) /\ l = Len(body) + 2
      /\ Has(bytes, 3, head) /\ Has(bytes, i, r) /\ Has(bytes, i + Len(r), after)
  <2>1. Laid(bytes, body, head, r, after)
    BY <1>2, <1>5, HasBody
  <2>. HIDE DEF bytes
  <2>. QED  BY <2>1 DEF Laid
<1>8. /\ Len(bare) = h + Len(q) + a
      /\ want \in Seq(Nat) /\ Len(want) = Len(bare) + 2
      /\ Has(want, 1, ShortBytes(Len(bare)))
      /\ Has(want, 3, head) /\ Has(want, i, q) /\ Has(want, i + Len(q), after)
  <2>1. Laid(want, bare, head, q, after)
    BY <1>2, <1>5, HasBody
  <2>. HIDE DEF want
  <2>. QED  BY <2>1 DEF Laid
<1>. HIDE DEF bytes, want
<1>. HIDE DEF h, a
<1>9. i \in Nat \ {0} /\ i >= 3 /\ i = 3 + h
  BY <1>7 DEF h
<1>. HIDE DEF i, fixed
<1>10. /\ size \in Nat /\ Len(r) = 11 + size /\ Len(fixed) = 8
       /\ Has(bytes, i, <<0>>) /\ Has(bytes, i + 1, fixed)
       /\ Has(bytes, i + 9, ShortBytes(size)) /\ Has(bytes, i + 11, data)
  BY <1>7, <1>9, HasOpt DEF r, options, fixed
<1>11. /\ left \in Nat /\ Len(q) = 11 + left
       /\ Has(want, i, <<0>>) /\ Has(want, i + 1, fixed)
       /\ Has(want, i + 9, ShortBytes(left)) /\ Has(want, i + 11, kept)
  BY <1>1, <1>3, <1>8, <1>9, HasOpt DEF q
<1>. HIDE DEF data, kept
<1>12. Shrunk(bytes, i, options, new)
  BY <1>1, <1>6, <1>9, <1>10, Shrinks DEF data
<1>. HIDE DEF new
<1>. DEFINE d == size - left
<1>13. /\ d \in 0..size
       /\ new \in Seq(Nat) /\ Len(new) = l - d
       /\ Has(new, 1, ShortBytes(Short(bytes, 1) - d))
       /\ \A j \in 3..(i + 8) : new[j] = bytes[j]
       /\ Has(new, i + 9, ShortBytes(size - d))
       /\ \A j \in (i + 11 + size - d)..(l - d) : new[j] = bytes[j + d]
  BY <1>4, <1>12 DEF Shrunk, data
<1>14. (\A j \in 1..Len(options) : ~IsPadding(options[j]))
            => kept = data /\ \A j \in (i + 11)..(i + 10 + size) : new[j] = bytes[j]
  BY <1>4, <1>12 DEF Shrunk, data
<1>15. (\A j \in 1..Len(options) : IsPadding(options[j])) => d = size
  BY <1>4, <1>12 DEF Shrunk, data
<1>16. Short(bytes, 1) = l - 2
  BY <1>6
<1>17. kept = data => left = size
  OBVIOUS
<1>. HIDE DEF size, left, l, d
<1>18. d = size - left
  BY DEF d
<1>19. /\ l = i + 10 + size + a /\ Len(bare) + 2 = i + 10 + left + a
       /\ l - d = i + 10 + left + a /\ l - 2 - d = Len(bare)
       /\ size - d = left /\ i + 11 + size - d = i + 11 + left /\ d \in Nat
  BY <1>7, <1>8, <1>9, <1>10, <1>11, <1>13, <1>18
<1>28. i \in Nat /\ size \in Nat /\ left \in Nat /\ a \in Nat /\ h \in Nat /\ d \in Nat /\ i = 3 + h
  BY <1>7, <1>9, <1>10, <1>11, <1>19
<1>20. Len(new) = i + 10 + left + a /\ Len(want) = i + 10 + left + a
  BY <1>8, <1>13, <1>19
<1>21. \A j \in 1..2 : new[j] = want[j]
  <2>. DEFINE sb == ShortBytes(Len(bare))
  <2>1. Has(new, 1, sb) /\ Has(want, 1, sb)
    BY <1>8, <1>13, <1>16, <1>19
  <2>2. Len(sb) = 2
    <3>1. Len(bare) \in Nat
      BY <1>7, <1>8, <1>11
    <3>. QED  BY <3>1, ShortIsBytes
  <2>. HIDE DEF sb
  <2>3. 1 \in Nat /\ 2 \in Nat /\ 2 = 1 + 2 - 1
    OBVIOUS
  <2>4. Same(new, want, 1, 2)
    BY <2>1, <2>2, <2>3, SameHere
  <2>. QED  BY <2>4 DEF Same
<1>22. ASSUME NEW j \in 3..(i + 8) PROVE new[j] = want[j]
  <2>1. new[j] = bytes[j]
    BY <1>13
  <2>2. CASE j < i
    <3>. DEFINE last == 3 + h - 1
    <3>1. 3 \in Nat /\ Len(head) = h
      BY DEF h
    <3>2. j \in 3..last
      BY <1>28, <1>9, <2>2
    <3>. HIDE DEF last
    <3>3. Same(bytes, want, 3, last)
      BY <1>7, <1>8, <3>1, SameHere DEF last
    <3>. QED  BY <2>1, <3>2, <3>3 DEF Same
  <2>3. CASE j = i
    <3>. DEFINE zero == <<0>>
    <3>1. Len(zero) = 1 /\ 1 \in Nat /\ i = i + 1 - 1 /\ i \in i..i
      BY <1>28
    <3>2. Has(bytes, i, zero) /\ Has(want, i, zero)
      BY <1>10, <1>11
    <3>. HIDE DEF zero
    <3>3. Same(bytes, want, i, i)
      BY <1>28, <3>1, <3>2, SameHere
    <3>. QED  BY <2>1, <2>3, <3>1, <3>3 DEF Same
  <2>4. CASE j > i
    <3>. DEFINE first == i + 1
                last == i + 8
    <3>1. first \in Nat /\ 8 \in Nat /\ last = first + 8 - 1 /\ j \in first..last
      BY <1>28, <2>4
    <3>2. Has(bytes, first, fixed) /\ Has(want, first, fixed)
      BY <1>10, <1>11
    <3>. HIDE DEF first, last
    <3>3. Same(bytes, want, first, last)
      BY <1>10, <3>1, <3>2, SameHere
    <3>. QED  BY <2>1, <3>1, <3>3 DEF Same
  <2>5. j < i \/ j = i \/ j > i
    BY <1>28
  <2>. QED  BY <2>2, <2>3, <2>4, <2>5
<1>23. \A j \in (i + 9)..(i + 10) : new[j] = want[j]
  <2>. DEFINE sb == ShortBytes(left)
              first == i + 9
              last == i + 10
  <2>1. Has(new, first, sb) /\ Has(want, first, sb)
    BY <1>11, <1>13, <1>19
  <2>2. Len(sb) = 2
    BY <1>11, ShortIsBytes
  <2>. HIDE DEF sb
  <2>3. first \in Nat /\ 2 \in Nat /\ last = first + 2 - 1
    BY <1>28
  <2>. HIDE DEF first, last
  <2>4. Same(new, want, first, last)
    BY <2>1, <2>2, <2>3, SameHere
  <2>. QED  BY <2>4 DEF Same, first, last
<1>24. \A j \in 1..(i + 10) : new[j] = want[j]
  <2>1. ASSUME NEW j \in 1..(i + 10) PROVE new[j] = want[j]
    <3>1. j \in 1..2 \/ j \in 3..(i + 8) \/ j \in (i + 9)..(i + 10)
      BY <1>28
    <3>. QED  BY <1>21, <1>22, <1>23, <3>1
  <2>. QED  BY <2>1
<1>25. ASSUME NEW j \in (i + 11 + left)..(i + 10 + left + a) PROVE new[j] = want[j]
  <2>. DEFINE first == i + 11 + left
              last == i + 10 + left + a
              lr == Len(r)
              lq == Len(q)
              ahead == i + lr
  <2>1. lr = 11 + size /\ lq = 11 + left
    BY <1>10, <1>11
  <2>2. Has(want, i + lq, after) /\ Has(bytes, i + lr, after)
    BY <1>7, <1>8
  <2>. HIDE DEF lr, lq
  <2>3. first \in Nat /\ last = first + a - 1 /\ ahead = first + d /\ i + lq = first
    BY <1>18, <1>28, <2>1
  <2>4. j \in first..last /\ j \in (i + 11 + size - d)..(l - d)
    BY <1>19
  <2>5. Has(want, first, after) /\ Has(bytes, ahead, after) /\ Len(after) = a
    BY <2>2, <2>3 DEF a
  <2>6. want[j] = bytes[j + d]
    <3>. HIDE DEF first, last, ahead
    <3>1. \A k \in first..last : want[k] = bytes[k + d]
      BY <1>28, <2>3, <2>5, SameBytes
    <3>. QED  BY <2>4, <3>1
  <2>. QED  BY <1>13, <2>4, <2>6
<1>26. ASSUME \A j \in 1..Len(options) : ~IsPadding(options[j])
       PROVE  \A j \in (i + 11)..(i + 10 + left) : new[j] = want[j]
  <2>1. left = size /\ kept = data /\ \A j \in (i + 11)..(i + 10 + size) : new[j] = bytes[j]
    BY <1>14, <1>17, <1>26
  <2>. DEFINE first == i + 11
              last == i + 10 + size
  <2>2. Has(want, first, data) /\ Has(bytes, first, data) /\ Len(data) = size
    BY <1>10, <1>11, <2>1 DEF size
  <2>3. first \in Nat /\ last = first + size - 1
    BY <1>28
  <2>4. i + 10 + left = last
    BY <2>1
  <2>5. \A j \in first..last : new[j] = bytes[j]
    BY <2>1
  <2>. HIDE DEF first, last
  <2>6. Same(want, bytes, first, last)
    BY <1>28, <2>2, <2>3, SameHere
  <2>7. \A j \in first..last : new[j] = want[j]
    BY <2>5, <2>6 DEF Same
  <2>. QED  BY <2>4, <2>7 DEF first
<1>27. (\A j \in 1..Len(options) : IsPadding(options[j])) => left = 0
  BY <1>10, <1>11, <1>15, <1>18
<1>. QED
  BY <1>7, <1>8, <1>11, <1>13, <1>20, <1>24, <1>25, <1>26, <1>27
  DEF Alike, i, new, bytes, want, left, kept, other, a, options

-----------------------------------------------------------------------------

(* removeEdnsPadding() of a response *)

\* The packet that is wanted, except for the options that were kept.
Right(message, new, want) ==
    /\ new \in Seq(Nat) /\ want \in Seq(Nat) /\ Len(new) = Len(want) /\ Len(want) >= 2
    /\ \A j \in 1..Len(want) :
        Uniform(message) \/ j \notin OptionPositions(message) => new[j] = want[j]

\* The places of the options that are kept are among OptionPositions.
LEMMA OptionPlaces ==
    ASSUME NEW message, NEW i \in OptRecords(message),
           NEW rest, rest = SectionBytes(SubSeq(message.additional, i + 1,
                                                Len(message.additional))),
           NEW data, data = OptionsBytes(Unpadded(message.additional[i]).options),
           NEW last, last = Len(Expected(message)) - Len(rest),
           NEW j \in (last - Len(data) + 1)..last
    PROVE  j \in OptionPositions(message)
BY DEF OptionPositions

\* The records before the one that has options are as they were.
LEMMA SameHead ==
    ASSUME NEW message, NEW bare, HasSections(message), HasSections(bare),
           bare.answers = message.answers, bare.authorities = message.authorities,
           NEW n \in Nat, Len(message.additional) = n, Len(bare.additional) = n,
           NEW i \in 1..n,
           \A j \in 1..(i - 1) : bare.additional[j] = message.additional[j]
    PROVE  Before(bare, i) = Before(message, i)
<1>. DEFINE b == bare.additional
            c == message.additional
            l == i - 1
<1>1. FrontOf(bare) = FrontOf(message)
  BY DEF FrontOf, Count
<1>2. /\ \A j \in 1..n : Parts(c)[j] = RecordBytes(c[j])
      /\ \A j \in 1..n : Parts(b)[j] = RecordBytes(b[j])
  <2>1. AreRecords(b) /\ AreRecords(c) /\ Len(b) = n /\ Len(c) = n
    BY DEF HasSections
  <2>. HIDE DEF b, c
  <2>. QED  BY <2>1, SectionIsBytes
<1>3. \A j \in 1..l : b[j] = c[j]
  OBVIOUS
<1>. HIDE DEF b, c
<1>4. Agree(Parts(b), Parts(c), l)
  <2>1. ASSUME NEW j \in 1..l PROVE Parts(b)[j] = Parts(c)[j]
    <3>1. j \in 1..n
      OBVIOUS
    <3>. QED  BY <1>2, <1>3, <3>1
  <2>. QED  BY <2>1 DEF Agree
<1>5. l \in Nat
  OBVIOUS
<1>. HIDE DEF l
<1>6. Flat(Parts(b), l) = Flat(Parts(c), l)
  BY <1>4, <1>5, FlatAgree
<1>. QED  BY <1>1, <1>6 DEF Before, b, c, l

\* removeEdnsPadding() of a response gives what is expected.
LEMMA Compared ==
    ASSUME NEW message, Whole(message), IsResponse(message),
           \A i, j \in OptRecords(message) : i = j
    PROVE  Right(message, RemoveEdnsPadding(Encode(message)), Expected(message))
<1>. DEFINE bytes == Encode(message)
            new == RemoveEdnsPadding(bytes)
            bare == Bare(message)
            want == Expected(message)
            c == message.additional
            n == Len(c)
<1>1. want = Encode(bare)
  BY DEF Expected, Bare
<1>2. HasSections(message)
  BY DEF IsResponse
<1>3. /\ HasSections(bare)
      /\ bare.answers = message.answers /\ bare.authorities = message.authorities
      /\ n \in Nat /\ Len(bare.additional) = n /\ DOMAIN c = 1..n
      /\ \A i \in 1..n : bare.additional[i] = Unpadded(c[i]) /\ IsRecord(c[i])
      /\ (\A i \in 1..n : c[i].type # OPT) => bare = message
  BY <1>2, BareMessage
<1>4. /\ OptRecords(message) = {} => new = bytes
      /\ \A i \in OptRecords(message) : new = Shrink(bytes, RecordAt(message, i))
  BY Found
<1>5. IsPacket(bytes) /\ Short(bytes, 1) = Len(bytes) - 2 /\ Len(bytes) >= 2
  <2>1. IsPacket(bytes) /\ Valid(bytes)
    BY Sizes
  <2>2. Short(bytes, 1) = Len(bytes) - 2 /\ Len(bytes) >= HeaderSize
    BY <2>1 DEF Valid
  <2>3. Len(bytes) \in Nat
    BY <2>1 DEF IsPacket
  <2>. DEFINE l == Len(bytes)
  <2>4. l \in Nat /\ l >= 12
    BY <2>2, <2>3 DEF HeaderSize
  <2>. HIDE DEF l
  <2>5. l >= 2
    BY <2>4
  <2>. QED  BY <2>1, <2>2, <2>5 DEF l
<1>. HIDE DEF bytes, new, bare, want
<1>6. OptRecords(message) = {i \in 1..n : c[i].type = OPT}
  BY <1>3 DEF OptRecords
<1>. HIDE DEF c, n
<1>7. CASE OptRecords(message) = {}
  <2>1. \A i \in 1..n : c[i].type # OPT
    BY <1>6, <1>7
  <2>2. want = bytes /\ new = bytes
    BY <1>1, <1>3, <1>4, <1>7, <2>1 DEF bytes
  <2>3. bytes \in Seq(Nat)
    BY <1>5 DEF IsPacket
  <2>. QED  BY <1>5, <2>2, <2>3 DEF Right, new, bytes, want
<1>8. ASSUME NEW i \in OptRecords(message)
      PROVE  Right(message, new, want)
  <2>. DEFINE record == c[i]
              options == record.options
              after == SubSeq(c, i + 1, n)
              rest == SectionBytes(after)
              head == Before(message, i)
              kept == Unpadded(record).options
              left == Len(OptionsBytes(kept))
              p == 3 + Len(head)
              a == Len(rest)
  <2>1. i \in 1..n /\ record.type = OPT /\ IsRecord(record)
    BY <1>3, <1>6
  <2>2. \A j \in 1..n : j # i => bare.additional[j] = c[j]
    <3>1. ASSUME NEW j \in 1..n, j # i PROVE bare.additional[j] = c[j]
      <4>1. c[j].type # OPT
        BY <1>6, <1>8, <3>1
      <4>. QED  BY <1>3, <4>1, BareRecord
    <3>. QED  BY <3>1
  <2>3. /\ Len(after) = n - i /\ IsSequence(after) /\ DOMAIN after = 1..(n - i)
        /\ \A j \in 1..(n - i) : after[j] = c[i + j]
    <3>1. c \in Seq(Range(c))
      BY <1>2 DEF HasSections, AreRecords, IsSequence, c
    <3>. DEFINE S == Range(c)
    <3>. HIDE DEF S
    <3>2. /\ after \in Seq(S) /\ Len(after) = n - i
          /\ \A j \in 1..(n - i) : after[j] = c[i + j]
      BY <2>1, <3>1, Behind DEF S, n
    <3>. HIDE DEF after
    <3>. QED  BY <3>2, OwnRange
  <2>. HIDE DEF after
  <2>4. \A j \in 1..(n - i) : i + j \in 1..n /\ i + j # i
    BY <1>3, <2>1
  <2>5. AreRecords(after)
    <3>1. ASSUME NEW j \in 1..(n - i) PROVE IsRecord(after[j])
      BY <1>3, <2>3, <2>4
    <3>. QED  BY <2>3, <3>1 DEF AreRecords
  <2>6. /\ head \in Seq(Nat) /\ RecordAt(message, i) = p /\ rest \in Seq(Nat)
        /\ Body(message) = (head \o RecordBytes(record)) \o rest
    <3>1. Remain(after, message.additional, i)
      BY <2>3 DEF Remain, c, n
    <3>2. i \in 1..Len(message.additional)
      BY <2>1 DEF c, n
    <3>3. Around(message, i, after)
      BY <1>2, <2>5, <3>1, <3>2, BodyAround
    <3>. QED  BY <3>3 DEF Around, c
  <2>7. Before(bare, i) = head
    <3>1. \A j \in 1..(i - 1) : bare.additional[j] = c[j]
      BY <1>3, <2>1, <2>2
    <3>2. Len(c) = n
      BY DEF n
    <3>. QED  BY <1>2, <1>3, <2>1, <3>1, <3>2, SameHead DEF c
  <2>8. Body(bare) = (head \o RecordBytes(Unpadded(record))) \o rest
    <3>1. \A j \in 1..(n - i) : after[j] = bare.additional[i + j]
      BY <2>2, <2>3, <2>4
    <3>2. bare.additional[i] = Unpadded(record)
      BY <1>3, <2>1
    <3>3. Remain(after, bare.additional, i)
      BY <1>3, <2>3, <3>1 DEF Remain
    <3>4. i \in 1..Len(bare.additional)
      BY <1>3, <2>1
    <3>5. Around(bare, i, after)
      BY <1>3, <2>5, <3>3, <3>4, BodyAround
    <3>6. Body(bare) = (Before(bare, i) \o RecordBytes(bare.additional[i])) \o rest
      BY <3>5 DEF Around
    <3>. QED  BY <2>7, <3>2, <3>6
  <2>9. bytes = Packet(Body(message)) /\ want = Packet(Body(bare))
    BY <1>1 DEF Encode, Packet, bytes
  <2>10. new = Shrink(bytes, p)
    BY <1>4, <1>8, <2>6
  <2>. HIDE DEF record, head, rest
  <2>11. Alike(new, want, p, left, a, options)
    <3>. DEFINE x == Body(message)
                y == Body(bare)
    <3>1. x = (head \o RecordBytes(record)) \o rest
      BY <2>6
    <3>2. y = (head \o RecordBytes(Unpadded(record))) \o rest
      BY <2>8
    <3>3. bytes = Packet(x) /\ want = Packet(y)
      BY <2>9
    <3>. HIDE DEF x, y
    <3>4. IsPacket(Packet(x)) /\ Short(Packet(x), 1) = Len(Packet(x)) - 2
      BY <1>5, <3>3
    <3>5. Alike(Shrink(Packet(x), p), Packet(y), p, left, a, options)
      BY <2>1, <2>6, <3>1, <3>2, <3>4, Replaced
    <3>. QED  BY <2>10, <3>3, <3>5
  <2>12. p \in Nat /\ p >= 3
    BY <2>6
  <2>. HIDE DEF p, left, a, options
  <2>13. /\ new \in Seq(Nat) /\ want \in Seq(Nat)
         /\ Len(new) = p + 10 + left + a /\ Len(want) = p + 10 + left + a
         /\ left \in Nat /\ a \in Nat
         /\ \A j \in 1..(p + 10) : new[j] = want[j]
         /\ \A j \in (p + 11 + left)..(p + 10 + left + a) : new[j] = want[j]
         /\ (\A j \in 1..Len(options) : ~IsPadding(options[j]))
                => \A j \in (p + 11)..(p + 10 + left) : new[j] = want[j]
         /\ (\A j \in 1..Len(options) : IsPadding(options[j])) => left = 0
    BY <2>11 DEF Alike
  <2>14. ASSUME NEW j \in 1..Len(want),
                Uniform(message) \/ j \notin OptionPositions(message)
         PROVE  new[j] = want[j]
    <3>1. \/ j \in 1..(p + 10) \/ j \in (p + 11)..(p + 10 + left)
          \/ j \in (p + 11 + left)..(p + 10 + left + a)
      <4>1. j \in 1..(p + 10 + left + a)
        BY <2>13
      <4>2. left \in Nat /\ a \in Nat
        BY <2>13
      <4>. QED  BY <2>12, <4>1, <4>2
    <3>2. CASE j \in (p + 11)..(p + 10 + left)
      <4>1. j \in OptionPositions(message)
        <5>. DEFINE data == OptionsBytes(kept)
                    last == Len(Expected(message)) - Len(rest)
        <5>1. last = p + 10 + left
          <6>1. Len(Expected(message)) = p + 10 + left + a /\ Len(rest) = a
            BY <2>13 DEF want, a
          <6>. QED  BY <2>12, <2>13, <6>1
        <5>2. Len(data) = left
          BY DEF left
        <5>. HIDE DEF data, last, kept
        <5>3. j \in (last - Len(data) + 1)..last
          <6>1. last - Len(data) + 1 = p + 11
            BY <2>12, <2>13, <5>1, <5>2
          <6>2. j \in (p + 11)..last
            BY <3>2, <5>1
          <6>. QED  BY <6>1, <6>2
        <5>4. rest = SectionBytes(SubSeq(message.additional, i + 1, Len(message.additional)))
          BY DEF rest, after, c, n
        <5>5. data = OptionsBytes(Unpadded(message.additional[i]).options)
          BY DEF data, kept, record, c
        <5>6. last = Len(Expected(message)) - Len(rest)
          BY DEF last
        <5>. QED  BY <1>8, <5>3, <5>4, <5>5, <5>6, OptionPlaces
      <4>2. \/ \A k \in DOMAIN options : IsPadding(options[k])
            \/ \A k \in DOMAIN options : ~IsPadding(options[k])
        BY <1>8, <2>14, <4>1 DEF Uniform, options, record, c
      <4>3. DOMAIN options = 1..Len(options)
        <5>1. AreOptions(options)
          BY <2>1, BareRecord DEF options
        <5>. QED  BY <5>1 DEF AreOptions, IsSequence
      <4>4. CASE \A k \in 1..Len(options) : IsPadding(options[k])
        <5>1. left = 0
          BY <2>13, <4>4
        <5>. QED  BY <2>12, <3>2, <5>1
      <4>5. CASE \A k \in 1..Len(options) : ~IsPadding(options[k])
        BY <2>13, <3>2, <4>5
      <4>. QED  BY <4>2, <4>3, <4>4, <4>5
    <3>. QED  BY <2>13, <3>1, <3>2
  <2>15. Len(want) >= 2
    BY <2>12, <2>13
  <2>. QED  BY <2>13, <2>14, <2>15 DEF Right
<1>. QED  BY <1>7, <1>8 DEF new, want, bytes

\* The same of the bytes behind the length.
Clean(message, reply, expected) ==
    /\ Len(reply) = Len(expected)
    /\ \A i \in DOMAIN expected :
        Uniform(message) \/ i + 2 \notin OptionPositions(message)
            => reply[i] = expected[i]

\* And so does what is sent to the client, without the length.
LEMMA Replied ==
    ASSUME NEW message, NEW new, NEW want, Right(message, new, want)
    PROVE  Clean(message, Tail(Tail(new)), Tail(Tail(want)))
<1>. DEFINE reply == Tail(Tail(new))
            expected == Tail(Tail(want))
            l == Len(want)
<1>1. new \in Seq(Nat) /\ want \in Seq(Nat) /\ Len(new) = l /\ l >= 2 /\ l \in Nat
  BY DEF Right
<1>2. \A j \in 1..l :
        Uniform(message) \/ j \notin OptionPositions(message) => new[j] = want[j]
  BY DEF Right
<1>3. Len(reply) = l - 2 /\ \A j \in 1..(l - 2) : reply[j] = new[j + 2]
  BY <1>1, TailTwice
<1>4. Len(expected) = l - 2 /\ \A j \in 1..(l - 2) : expected[j] = want[j + 2]
  BY <1>1, TailTwice
<1>5. DOMAIN expected = 1..(l - 2)
  <2>1. Tail(want) \in Seq(Nat) /\ Len(Tail(want)) >= 1
    BY <1>1, TailOf
  <2>2. expected \in Seq(Nat)
    BY <2>1, TailOf
  <2>. HIDE DEF expected, l
  <2>. QED  BY <1>4, <2>2
<1>. HIDE DEF reply, expected, l
<1>6. ASSUME NEW i \in 1..(l - 2),
             Uniform(message) \/ i + 2 \notin OptionPositions(message)
      PROVE  reply[i] = expected[i]
  <2>1. i + 2 \in 1..l
    BY <1>1
  <2>2. new[i + 2] = want[i + 2]
    BY <1>2, <1>6, <2>1
  <2>. QED  BY <1>3, <1>4, <2>2
<1>. QED  BY <1>3, <1>4, <1>5, <1>6 DEF Clean, reply, expected

\* The responses of forwarders are such responses.
LEMMA ResponsesAre ==
    ASSUME NEW message \in Messages
    PROVE  /\ Whole(message) /\ IsResponse(message)
           /\ \A i, j \in OptRecords(message) : i = j
<1>1. Len(Body(message)) < 65536
  BY MessagesAssumption
<1>2. /\ Whole(message) /\ HasSections(message)
      /\ \A i, j \in OptRecords(message) : i = j
  BY RecordsAssumption DEF Whole, HasSections
<1>. QED  BY <1>1, <1>2 DEF IsResponse

(***************************************************************************)
(* removeEdnsPadding(), as handleIncoming() uses it: the client's reply is *)
(* the response without its padding, with its counts and lengths in order  *)
(* and every other record where it belongs, however many records and       *)
(* options the response has.                                               *)
(***************************************************************************)
THEOREM PaddingGone == Spec => []PaddingRemoved
<1>1. Init => PaddingRemoved
  BY DEF Init, None, PaddingRemoved
<1>2. PaddingRemoved /\ [Next]_vars => PaddingRemoved'
  <2>. SUFFICES ASSUME PaddingRemoved, [Next]_vars
                PROVE  PaddingRemoved'
    OBVIOUS
  <2>. DEFINE Lengths(message) ==
                {HeaderSize, Len(Wire[message]) - 1, Len(Wire[message])}
              Received(c, message, length) ==
                Incoming(c, message, SubSeq(Wire[message], 1, length))
  <2>1. CASE answered' = None
    BY <2>1 DEF None, PaddingRemoved
  <2>2. CASE answered' = answered
    BY <2>2 DEF PaddingRemoved
  <2>3. ASSUME NEW c \in Connections, NEW message \in Messages,
               NEW length \in Lengths(message), Received(c, message, length)
        PROVE  PaddingRemoved'
    <3>. DEFINE received == SubSeq(Wire[message], 1, length)
                bytes == Encode(message)
                expected == Tail(Tail(Expected(message)))
    <3>1. answered' = [is |-> TRUE, message |-> message, received |-> received,
                       reply |-> Reply(received)]
      BY <2>3 DEF Incoming
    <3>2. Wire[message] = bytes
      BY DEF Wire
    <3>3. Valid(bytes) /\ Clean(message, Tail(Tail(RemoveEdnsPadding(bytes))), expected)
      <4>1. /\ Whole(message) /\ IsResponse(message)
            /\ \A i, j \in OptRecords(message) : i = j
        BY ResponsesAre
      <4>2. Valid(bytes)
        BY <4>1, Sizes
      <4>3. Right(message, RemoveEdnsPadding(bytes), Expected(message))
        BY <4>1, Compared
      <4>4. Clean(message, Tail(Tail(RemoveEdnsPadding(bytes))), expected)
        BY <4>3, Replied
      <4>. QED  BY <4>2, <4>4
    <3>. HIDE DEF received, bytes, expected
    <3>4. received = Wire[message] => Clean(message, Reply(received), expected)
      BY <3>2, <3>3 DEF Reply
    <3>5. PaddingRemoved' <=> (received = Wire[message] => Clean(message, Reply(received), expected))
      BY <3>1 DEF PaddingRemoved, Clean, expected
    <3>. QED  BY <3>4, <3>5
  <2>4. \/ answered' = None \/ answered' = answered
        \/ \E c \in Connections, message \in Messages :
              \E length \in Lengths(message) : Received(c, message, length)
    BY DEF Next, Construct, Handshake, Resume, Fail, Tick, vars
  <2>. HIDE DEF Lengths, Received
  <2>. QED  BY <2>1, <2>2, <2>3, <2>4
<1>. QED  BY <1>1, <1>2, PTL DEF Spec

=============================================================================
