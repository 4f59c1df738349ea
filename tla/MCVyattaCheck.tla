--------------------------- MODULE MCVyattaCheck ---------------------------
(* VyattaCheck on small instances. *)
EXTENDS VyattaCheck

IPv4(ip) == [brackets |-> "none", ip |-> ip, port |-> NoPort, after |-> NotSet]
IPv6(ip) == [IPv4(ip) EXCEPT !.brackets = "closed"]

WithAddress(flag, address) == [flag |-> flag, address |-> address]
WithText(flag, text) == [flag |-> flag, text |-> text]
WithNumber(flag, number) == [flag |-> flag, number |-> number]

\* What matters to how options attach to forwarders.
Alphabet ==
    {WithAddress("f", IPv4("a")), WithAddress("f", IPv6("b")),
     WithText("h", "host"), WithText("h", ""),
     WithText("p", "pin"), [flag |-> "i"]}

Others ==
    {WithText("p", ""), WithText("p", "%"),
     WithAddress("f", [IPv6("b") EXCEPT !.brackets = "unclosed"]),
     WithAddress("f", [IPv6("b") EXCEPT !.after = "8853"]),
     WithAddress("s", [IPv6("a") EXCEPT !.after = "8853"]),
     WithAddress("s", IPv6("b")), WithAddress("s", [IPv4("a") EXCEPT !.port = 65536]),
     WithNumber("t", 0), WithNumber("t", 65535), WithNumber("m", 6001),
     [flag |-> "?"]}

\* Lines that ask for a look-up are parsed and go no further, so that there
\* can be many.
LookUps ==
    {<<WithAddress("l", IPv4("a"))>> \o line :
        line \in UNION {[1..n -> Alphabet] : n \in 0..4}
                    \cup UNION {[1..n -> Alphabet \cup Others] : n \in 1..2}}

MCCommandLines ==
    LookUps \cup {<<>>, <<WithAddress("f", IPv4("a")), WithText("p", "pin")>>}

Entry(ip, pin, host) == [address |-> IPv4(ip), pin |-> pin, host |-> host]

\* No forwarder, three of them, other ones, and one that is not valid.
\* 1.1.1.1 is also a default forwarder, with another host name.
MCRouters ==
    {[servers |-> <<>>, forwarders |-> entries] : entries \in
        {<<>>,
         <<Entry("c", "", ""), Entry("d", "pin", ""), Entry("e", "", "host")>>,
         <<Entry("1.1.1.1", "", ""), Entry("c", "pin", "host")>>,
         <<Entry("c", "", ""), Entry("b", "", "")>>}}

MCParsers ==
    {WorkingConfig(ParseConfig(NewParser, line, FALSE), config) :
        line \in MCCommandLines \ LookUps, config \in MCRouters}

MCConfigs == {p.forwarders : p \in {q \in MCParsers : q.valid}}
MCForwarders == UNION {ToSet(list) : list \in MCConfigs}
MCRemote == [f \in MCForwarders |-> f.remote]

=============================================================================
