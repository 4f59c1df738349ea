---------------------------- MODULE ConfigParser ---------------------------
(***************************************************************************)
(* The options of DoTe (src/src/config_parser.cpp), as functions from a    *)
(* parser to a parser.                                                     *)
(*                                                                         *)
(* An option is a record with its letter in field `flag' and its argument  *)
(* in `address', `text' or `number', where it has one.  An address as it   *)
(* is written has an ip, a port (NoPort if there is none, 0 if it is not a *)
(* number) and brackets around the ip, or not; `after' is the text after   *)
(* the closing bracket if it does not begin with a colon.  A number that   *)
(* is not one is 0, a text that is not there is NotSet.                    *)
(*                                                                         *)
(* What an invalid parser contains is never looked at: the functions here  *)
(* only make it invalid, where the code also leaves something in it.       *)
(***************************************************************************)
EXTENDS Integers, SequencesExt

CONSTANTS
    V4,             \* what inet_pton() takes for an IPv4 address
    V6,             \* what inet_pton() takes for an IPv6 address
    Pins            \* texts, not empty, that Base64::decode() can decode

ASSUME AddressAssumption == V4 \cap V6 = {}

NoPort == -1
NoAddress == <<>>       \* AF_UNSPEC
NotSet == ""            \* an empty std::string

NewForwarder ==
    [remote |-> NoAddress, disablePki |-> FALSE, host |-> NotSet, pin |-> NotSet]

NewParser ==
    [valid |-> TRUE, partial |-> NewForwarder, forwarders |-> <<>>,
     servers |-> <<>>, ipLookup |-> NoAddress, ciphers |-> NotSet,
     maxConnections |-> 5, pidFile |-> NotSet, daemonise |-> FALSE, timeout |-> 5]

Invalid(p) == [p EXCEPT !.valid = FALSE]

-----------------------------------------------------------------------------

\* parseServer(): the address and port, or NoAddress.  What follows a closing
\* bracket without a colon is not looked at.
ParseServer(written, defaultPort) ==
    LET port == IF written.port = NoPort \/ written.after # NotSet
                THEN defaultPort ELSE written.port
    IN  IF /\ written.brackets # "unclosed"
           /\ written.ip \in (IF written.brackets = "none" THEN V4 ELSE V6)
           /\ 1 <= port /\ port <= 65535
        THEN <<written.ip, port>>
        ELSE NoAddress

AddServer(p, written) ==
    IF ParseServer(written, 53) = NoAddress THEN Invalid(p)
    ELSE [p EXCEPT !.servers = Append(@, ParseServer(written, 53))]

\* Mutant: the pin stays for the next forwarder.
PushForwarderKeepsPin(p) ==
    IF p.partial.remote # NoAddress
    THEN [p EXCEPT !.forwarders = Append(@, p.partial),
                   !.partial = [NewForwarder EXCEPT !.pin = p.partial.pin]]
    ELSE [p EXCEPT !.valid = @ /\ p.partial.host = NotSet /\ p.partial.pin = NotSet,
                   !.partial = NewForwarder]

\* The forwarder that the options so far describe.
PushForwarder(p) ==
    IF p.partial.remote # NoAddress
    THEN [p EXCEPT !.forwarders = Append(@, p.partial),
                   !.partial = NewForwarder]
    ELSE [p EXCEPT !.valid = @ /\ p.partial.host = NotSet /\ p.partial.pin = NotSet,
                   !.partial = NewForwarder]

AddForwarder(p, written) ==
    IF ParseServer(written, 853) = NoAddress THEN Invalid(p)
    ELSE [p EXCEPT !.partial.remote = ParseServer(written, 853)]

DisableVerification(p) == [p EXCEPT !.partial.disablePki = TRUE]

AddHostname(p, hostname) ==
    IF p.partial.host # NotSet THEN Invalid(p)
    ELSE [p EXCEPT !.partial.host = hostname]

AddPin(p, pin) ==
    IF pin \in Pins \cup {NotSet} THEN [p EXCEPT !.partial.pin = pin]
    ELSE Invalid(p)

SetMaxConnections(p, number) ==
    IF 1 <= number /\ number <= 6000 THEN [p EXCEPT !.maxConnections = number]
    ELSE Invalid(p)

SetTimeout(p, number) ==
    IF 1 <= number /\ number <= 65535 THEN [p EXCEPT !.timeout = number]
    ELSE Invalid(p)

SetIpLookup(p, written) ==
    IF ParseServer(written, 853) = NoAddress THEN Invalid(p)
    ELSE [p EXCEPT !.ipLookup = ParseServer(written, 853)]

-----------------------------------------------------------------------------

\* The switch of parseConfig().
ParseOption(p, option) ==
    CASE option.flag = "s" -> AddServer(p, option.address)
      [] option.flag = "f" -> AddForwarder(PushForwarder(p), option.address)
      [] option.flag = "h" -> AddHostname(p, option.text)
      [] option.flag = "p" -> AddPin(p, option.text)
      [] option.flag = "i" -> DisableVerification(p)
      [] option.flag = "c" -> [p EXCEPT !.ciphers = option.text]
      [] option.flag = "m" -> SetMaxConnections(p, option.number)
      [] option.flag = "d" -> [p EXCEPT !.daemonise = TRUE]
      [] option.flag = "P" -> [p EXCEPT !.pidFile = option.text]
      [] option.flag = "l" -> SetIpLookup(p, option.address)
      [] option.flag = "t" -> SetTimeout(p, option.number)
      [] OTHER             -> Invalid(p)

\* parseConfig(): the options up to the first invalid one, and nothing may
\* be left over.
ParseConfig(p, options, leftOver) ==
    LET start  == [p EXCEPT !.partial.remote = NoAddress]
        parsed == FoldLeft(LAMBDA q, option :
                               IF q.valid THEN ParseOption(q, option) ELSE q,
                           start, options)
        pushed == PushForwarder(parsed)
    IN  IF leftOver THEN Invalid(pushed) ELSE pushed

DefaultForwarder(ip) ==
    [NewForwarder EXCEPT !.remote = <<ip, 853>>, !.host = "cloudflare-dns.com"]

DefaultForwarders ==
    <<DefaultForwarder("2606:4700:4700::1111"),
      DefaultForwarder("2606:4700:4700::1001"),
      DefaultForwarder("1.1.1.1"), DefaultForwarder("1.0.0.1")>>

DefaultServers == << <<"127.0.0.1", 53>>, <<"::1", 53>> >>

SetDefaults(p) ==
    [p EXCEPT !.forwarders = IF @ = <<>> THEN DefaultForwarders ELSE @,
              !.servers    = IF @ = <<>> THEN DefaultServers ELSE @,
              !.ciphers    = IF @ = NotSet THEN "DEFAULT" ELSE @]

=============================================================================
