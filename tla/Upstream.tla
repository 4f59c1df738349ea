------------------------------ MODULE Upstream -----------------------------
(***************************************************************************)
(* What passes between DoTe and its forwarders: TLS handshakes             *)
(* (src/src/openssl/ssl_connection.cpp) with the session that is kept for  *)
(* the next connection, the judgement of certificates (module              *)
(* Verification), and the response that is made into the client's reply    *)
(* (ClientForwarders::handleIncoming(), module DnsPacket).                 *)
(*                                                                         *)
(* A server may present any of its certificates, with anything wrong in    *)
(* the chain, and what is wrong may change; it may take up the session of  *)
(* an earlier connection with it, and then presents none.  An entry of the *)
(* list of forwarders names a server and how to verify it; the same server *)
(* may be in several, after a reload or in one list.  When handlers wait   *)
(* to read or to write nothing of this changes.                            *)
(***************************************************************************)
EXTENDS Verification, DnsPacket

CONSTANTS
    Connections,
    Entries,        \* of the lists of forwarders
    Presents,       \* the certificates of each server
    Messages,       \* the responses of forwarders
    NoSession

\* The servers; addresses at which one session is good count as one.
Remotes == {f.remote : f \in Entries}

ASSUME UpstreamAssumption == Presents \in [Remotes -> SUBSET Certificates]

\* A name is a sequence of labels.
IsLabel(label) ==
    label = [first |-> label.first, rest |-> label.rest, caps |-> label.caps]

IsName(name) ==
    /\ Len(name) \in Nat /\ name = [i \in 1..Len(name) |-> name[i]]
    /\ \A i \in 1..Len(name) : IsLabel(name[i])

\* The hash of a key is never empty, as the pin is that is not set.
ASSUME NamesAssumption ==
    /\ \A f \in Entries : IsName(f.host)
    /\ \A certificate \in Certificates :
        /\ certificate.key # NoPin
        /\ IsName(certificate.common)
        /\ \A name \in certificate.alternative : IsName(name)

VARIABLES
    link,           \* the SslConnection of each connection
    session,        \* Context::m_session
    accepted,       \* history: the certificates OpenSSL has accepted
    waived,         \* history: what was made with disablePki, as sessions
    latest,         \* history: the last of them, and how many seconds ago
    answered        \* history: the response that was just received

history == <<accepted, waived, latest>>
vars == <<cacheVars, link, session, history, answered>>

LongAgo == CacheSeconds + 1
NoLink == [state |-> "none"]
None == [is |-> FALSE]

-----------------------------------------------------------------------------

\* The constructors of SslConnection and ForwarderConnection.  The session is
\* offered to whichever forwarder.
Construct(c, f) ==
    /\ link[c] = NoLink
    /\ link' = [link EXCEPT ![c] =
                   [state |-> "connecting", entry |-> f, offers |-> session]]
    /\ UNCHANGED <<cacheVars, session, history>> /\ answered' = None

\* connect() gives SUCCESS.
Opened(c, certificate) ==
    /\ link' = [link EXCEPT ![c] = [state |-> "open", entry |-> link[c].entry,
                                    certificate |-> certificate]]
    /\ session' = [remote |-> link[c].entry.remote, certificate |-> certificate]

\* connect() gives FATAL.
Refused(c) ==
    /\ link' = [link EXCEPT ![c] = NoLink]
    /\ session' = NoSession

\* A handshake with a certificate.
Handshake(c, certificate, problems) ==
    LET f == link[c].entry
        verified == Verified(f, certificate, problems)
    IN  /\ link[c].state = "connecting"
        /\ certificate \in Presents[f.remote]
        /\ Verify(f, certificate, problems)
        /\ IF f.disablePki \/ verified THEN Opened(c, certificate) ELSE Refused(c)
        /\ IF verified /\ certificate # Cached
           THEN /\ accepted' = accepted \cup {certificate}
                /\ latest' = [certificate |-> certificate, age |-> 0]
           ELSE UNCHANGED <<accepted, latest>>
        /\ waived' = IF f.disablePki THEN waived \cup {session'} ELSE waived
        /\ answered' = None

\* The server takes up the session that was offered, if it knows it: if it is
\* the one the session was made with.  No verifier is asked.
Resume(c) ==
    /\ link[c].state = "connecting"
    /\ link[c].offers # NoSession
    /\ link[c].offers.remote = link[c].entry.remote
    /\ Opened(c, link[c].offers.certificate)
    /\ UNCHANGED <<cacheVars, history>> /\ answered' = None

\* The handshake fails for another reason; or the connection is closed, the
\* forwarder stays silent, or something fails later.
Fail(c) ==
    /\ link[c] # NoLink
    /\ \/ link[c].state = "connecting" /\ Refused(c)
       \/ link' = [link EXCEPT ![c] = NoLink] /\ UNCHANGED session
    /\ UNCHANGED <<cacheVars, history>> /\ answered' = None

Tick ==
    /\ SecondPasses
    /\ latest' = [latest EXCEPT !.age = IF @ < LongAgo THEN @ + 1 ELSE @]
    /\ UNCHANGED <<cache, link, session, accepted, waived>> /\ answered' = None

-----------------------------------------------------------------------------

\* handleIncoming(): what is sent to the client, <<>> if nothing is.
Reply(bytes) ==
    IF Valid(bytes) THEN Tail(Tail(RemoveEdnsPadding(bytes))) ELSE <<>>

\* incoming(): what one read() gives, all of the response or a part, is taken
\* for the response, and the connection is shut down.
Incoming(c, message, received) ==
    /\ link[c] # NoLink /\ link[c].state = "open"
    /\ link' = [link EXCEPT ![c] = NoLink]
    /\ answered' = [is |-> TRUE, message |-> message, received |-> received,
                    reply |-> Reply(received)]
    /\ UNCHANGED <<cacheVars, session, history>>

Init ==
    /\ CacheInit
    /\ link = [c \in Connections |-> NoLink]
    /\ session = NoSession
    /\ accepted = {}
    /\ waived = {}
    /\ latest = [certificate |-> NoCertificate, age |-> LongAgo]
    /\ answered = None

-----------------------------------------------------------------------------
(* How a forwarder writes a response: a question, records in sections, and *)
(* in the last of them perhaps an OPT record with options.                 *)

Count(records) == ShortBytes(Len(records))

OptionBytes(option) ==
    ShortBytes(option.code) \o ShortBytes(Len(option.data)) \o option.data

OptionsBytes(options) == FlattenSeq([i \in DOMAIN options |-> OptionBytes(options[i])])

RecordBytes(record) ==
    IF record.type = OPT
    THEN LET data == OptionsBytes(record.options)
         IN  <<0>> \o ShortBytes(OPT) \o <<16, 0, 0, 0, 0, 0>>
                \o ShortBytes(Len(data)) \o data
    ELSE record.name \o ShortBytes(record.type) \o <<0, 1, 0, 0, 0, 60>>
            \o ShortBytes(Len(record.data)) \o record.data

SectionBytes(records) == FlattenSeq([i \in DOMAIN records |-> RecordBytes(records[i])])

Question == <<1, 97, 0, 0, 1, 0, 1>>

Body(message) ==
    <<1, 2, 128, 0, 0, 1>>
        \o Count(message.answers) \o Count(message.authorities)
        \o Count(message.additional) \o Question
        \o SectionBytes(message.answers)
        \o SectionBytes(message.authorities)
        \o SectionBytes(message.additional)

\* A body has a header, and its length fits in two bytes.
ASSUME MessagesAssumption ==
    \A message \in Messages :
        /\ Body(message) \in Seq(Nat)
        /\ 12 <= Len(Body(message)) /\ Len(Body(message)) < 65536

IsSequence(s) == s \in Seq(Range(s))

\* Labels, and at the end an empty one or a pointer.
IsDomainName(name) ==
    /\ name \in Seq(Nat)
    /\ \E starts \in SUBSET DOMAIN name :
        /\ 1 \in starts
        /\ \A i \in starts :
            \/ name[i] = 0 /\ i = Len(name)
            \/ name[i] >= 192 /\ i + 1 = Len(name)
            \/ 0 < name[i] /\ name[i] < 192 /\ i + name[i] + 1 \in starts

IsOption(option) ==
    option.code \in Nat /\ option.code < 65536 /\ option.data \in Seq(Nat)

IsRecord(record) ==
    \/ /\ record.type = OPT
       /\ record = [type |-> OPT, options |-> record.options]
       /\ IsSequence(record.options)
       /\ \A i \in DOMAIN record.options : IsOption(record.options[i])
    \/ /\ record.type \in Nat /\ record.type < 65536 /\ record.type # OPT
       /\ IsDomainName(record.name)
       /\ record.data \in Seq(Nat)

AreRecords(records) ==
    IsSequence(records) /\ \A i \in DOMAIN records : IsRecord(records[i])

OptRecords(message) == {i \in DOMAIN message.additional : message.additional[i].type = OPT}

\* The sections hold records, and there is one OPT record or none.
ASSUME RecordsAssumption ==
    \A message \in Messages :
        /\ message = [answers |-> message.answers, authorities |-> message.authorities,
                      additional |-> message.additional]
        /\ AreRecords(message.answers) /\ AreRecords(message.authorities)
        /\ AreRecords(message.additional)
        /\ \A i, j \in OptRecords(message) : i = j

Encode(message) == ShortBytes(Len(Body(message))) \o Body(message)

\* The responses as they are sent.
Wire == [message \in Messages |-> Encode(message)]

Next ==
    \/ \E c \in Connections :
        \/ \E f \in Entries : Construct(c, f)
        \/ \E certificate \in Certificates, problems \in SUBSET Problems :
            Handshake(c, certificate, problems)
        \/ Resume(c)
        \/ Fail(c)
        \/ \E message \in Messages :
            LET bytes == Wire[message]
            IN  \E length \in {HeaderSize, Len(bytes) - 1, Len(bytes)} :
                    Incoming(c, message, SubSeq(bytes, 1, length))
    \/ Tick

Spec == Init /\ [][Next]_vars

-----------------------------------------------------------------------------

States == {"none", "connecting", "open"}

TypeOK ==
    /\ cache \in Certificates \cup {NoCertificate}
    /\ cacheLeft \in -1..CacheSeconds
    /\ \A c \in Connections : link[c].state \in States
    /\ session = NoSession \/ session.remote \in Remotes
    /\ accepted \subseteq Certificates /\ latest.age \in 0..LongAgo
    /\ cache # NoCertificate => cache \in accepted

(***************************************************************************)
(* What the settings of a forwarder ask of its certificate, without regard *)
(* to how the code finds it out.  Names are compared without regard to the *)
(* case of letters, a wildcard stands for one label or more, before two or *)
(* more, and a pin makes up for what Allowed lists.                        *)
(***************************************************************************)
SameLetter(x, y) == x = y \/ {x, y} \in {{"a", "A"}, {"z", "Z"}}

SameName(a, b) ==
    /\ Len(a) = Len(b)
    /\ \A i \in DOMAIN a : SameLetter(a[i].first, b[i].first) /\ a[i].rest = b[i].rest

ByWildcard(name, host) ==
    \E i \in DOMAIN name :
        /\ name[i] = Star
        /\ LET after == SubSeq(name, i + 1, Len(name))
               ends  == SubSeq(host, Len(host) - Len(after) + 1, Len(host))
           IN  Len(after) >= 2 /\ Len(host) > Len(after) /\ SameName(after, ends)

Names(certificate) ==
    IF certificate.lists THEN certificate.alternative ELSE {certificate.common}

IsFor(certificate, host) ==
    \E name \in Names(certificate) : SameName(name, host) \/ ByWildcard(name, host)

ChainIsGood(f, certificate, problems) ==
    problems = {} \/ (f.pin = certificate.key /\ problems \subseteq Allowed)

Documented(f, certificate, problems) ==
    \/ f.disablePki
    \/ /\ f.pin \in {NoPin, certificate.key}
       /\ f.host = NoHost \/ IsFor(certificate, f.host)
       /\ ChainIsGood(f, certificate, problems)

\* No letter is a capital A or Z, which lower() leaves alone.
Legible(name) ==
    \A i \in DOMAIN name :
        name[i].first \notin {"A", "Z"} /\ name[i].caps \in {"none", "inner"}

LegibleNames(f, certificate) ==
    Legible(f.host) /\ \A name \in Names(certificate) : Legible(name)

InDomain(name, host) ==
    Len(name) = Len(host) /\ name # <<>> /\ SameName(Tail(name), Tail(host))

\* At the least: the chain is good, the pin is right if there is one, and if
\* there is none, some name is of the domain of the host.
Tolerable(f, certificate, problems) ==
    \/ f.disablePki
    \/ /\ f.pin \in {NoPin, certificate.key}
       /\ ChainIsGood(f, certificate, problems)
       /\ \/ f.pin # NoPin \/ f.host = NoHost
          \/ \E name \in Names(certificate) :
                InDomain(name, f.host) \/ ByWildcard(name, f.host)

\* A step in which the server of c presents a certificate that is not cached.
Fresh(c, certificate, problems) ==
    certificate # Cached /\ Handshake(c, certificate, problems)

\* The verdict on a certificate that is not cached, between the two.
JudgedByRules ==
    \A c \in Connections : link[c].state = "connecting" /\ link'[c] # link[c] =>
        \A certificate \in Presents[link[c].entry.remote], problems \in SUBSET Problems :
            Fresh(c, certificate, problems) =>
                /\ /\ problems = {}
                   /\ Documented(link[c].entry, certificate, problems)
                   /\ LegibleNames(link[c].entry, certificate)
                   => link'[c].state = "open"
                /\ link'[c].state = "open"
                   => Tolerable(link[c].entry, certificate, problems)

(***************************************************************************)
(* A certificate that is not cached is accepted where nothing is wrong     *)
(* with it (and no name has a capital A or Z); and it is never accepted    *)
(* with a wrong pin, with a bad chain that no pin makes up for, or without *)
(* a pin, for a host of another domain.                                    *)
(***************************************************************************)
AcceptedByRules == [][JudgedByRules]_vars

(***************************************************************************)
(* "2 if pin and hostname pass, 1 if hostname only, 0 if not valid"        *)
(* (spki_verifier.h:26), and "The hostname matches if it completely        *)
(* matches" or by a wildcard (hostname_verifier.cpp:45): a certificate     *)
(* that is not cached is accepted just when it satisfies both the pin and  *)
(* the host name that are set, and its chain is good.                      *)
(***************************************************************************)
AcceptedAsDocumented ==
    [][\A c \in Connections : link[c].state = "connecting" /\ link'[c] # link[c] =>
        LET f == link[c].entry
        IN  \A certificate \in Presents[f.remote], problems \in SUBSET Problems :
                Fresh(c, certificate, problems) =>
                    (link'[c].state = "open" <=> Documented(f, certificate, problems))]_vars

(***************************************************************************)
(* The cache stands in for OpenSSL only for the certificate that OpenSSL   *)
(* accepted last, and only for CACHE_SECONDS after that, however often the *)
(* cache was asked meanwhile.                                              *)
(***************************************************************************)
CacheIsFresh ==
    Cached # NoCertificate =>
        latest.certificate = Cached /\ latest.age <= CacheSeconds

(***************************************************************************)
(* A certificate that OpenSSL has never accepted is used, by way of the    *)
(* cache or of a session or without either, only with a server that        *)
(* presented it in a handshake with disablePki.                            *)
(***************************************************************************)
VerifiedUnlessWaived ==
    /\ \A c \in Connections : link[c].state = "open" =>
        \/ link[c].certificate \in accepted
        \/ [remote |-> link[c].entry.remote, certificate |-> link[c].certificate] \in waived
    /\ session # NoSession => session.certificate \in accepted \/ session \in waived

(***************************************************************************)
(* "Disable certificate verification for the current forwarder"            *)
(* (config_parser.h:124): a connection for any other entry never opens     *)
(* with a certificate that OpenSSL has not accepted.                       *)
(***************************************************************************)
OpenIsVerified ==
    \A c \in Connections :
        link[c].state = "open" /\ ~link[c].entry.disablePki
            => link[c].certificate \in accepted

(***************************************************************************)
(* A part of a response is never sent to the client as if it were all.     *)
(***************************************************************************)
NoPartialReply ==
    answered.is /\ answered.received # Wire[answered.message]
        => answered.reply = <<>>

-----------------------------------------------------------------------------

IsPadding(option) == option.code = PADDING

WithoutPadding(options) ==
    FoldLeft(LAMBDA kept, o : IF IsPadding(o) THEN kept ELSE Append(kept, o),
             <<>>, options)

\* A record without its padding.
Unpadded(record) ==
    IF record.type = OPT
    THEN [record EXCEPT !.options = WithoutPadding(@)]
    ELSE record

\* The response without the padding of its OPT record, of which there is one.
Expected(message) ==
    Encode([message EXCEPT !.additional = [i \in DOMAIN @ |-> Unpadded(@[i])]])

\* Padding alone, or no padding at all.
Uniform(message) ==
    \A i \in OptRecords(message) :
        LET options == message.additional[i].options
        IN  \/ \A j \in DOMAIN options : IsPadding(options[j])
            \/ \A j \in DOMAIN options : ~IsPadding(options[j])

\* The positions that options have in a response without padding.
OptionPositions(message) ==
    UNION {LET after == SectionBytes(SubSeq(message.additional, i + 1,
                                            Len(message.additional)))
               data  == OptionsBytes(Unpadded(message.additional[i]).options)
               last  == Len(Expected(message)) - Len(after)
           IN  (last - Len(data) + 1)..last : i \in OptRecords(message)}

(***************************************************************************)
(* "Remove the EDNS padding from this packet" (dns_packet.h): the client's *)
(* reply is the response without the padding, with its counts and lengths  *)
(* in order and every other record where it belongs.  Where padding was    *)
(* removed from among other options nothing is claimed of the bytes of     *)
(* these: see Shrink in module DnsPacket.                                  *)
(***************************************************************************)
PaddingRemoved ==
    answered.is /\ answered.received = Wire[answered.message] =>
        LET expected == Tail(Tail(Expected(answered.message)))
        IN  /\ Len(answered.reply) = Len(expected)
            /\ \A i \in DOMAIN expected :
                Uniform(answered.message) \/ i + 2 \notin OptionPositions(answered.message)
                    => answered.reply[i] = expected[i]

=============================================================================
