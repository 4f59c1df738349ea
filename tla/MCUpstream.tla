----------------------------- MODULE MCUpstream ----------------------------
(* Upstream on small instances. *)
EXTENDS Upstream, TLC

Symmetry == Permutations(Connections)

Label(first, rest) == [first |-> first, rest |-> rest, caps |-> "none"]
Loud(label) == [label EXCEPT !.caps = "inner"]

Example == Label("e", "xample")
Net == Label("n", "et")
Host == <<Label("d", "ns"), Example, Net>>

\* For the host by a wildcard; not for it, in spite of its common name; and
\* with a common name that differs in its first character.
Wild == [key |-> "k1", lists |-> TRUE, common |-> NoHost,
         alternative |-> {<<Net>>, <<Star, Loud(Example), Net>>}]
Other == [key |-> "k2", lists |-> TRUE, common |-> Host,
          alternative |-> {<<Star, Net>>, <<Example, Net>>}]
Common == [key |-> "k2", lists |-> FALSE,
           common |-> <<Label("m", "ns"), Example, Net>>, alternative |-> {}]

MCCertificates == {Wild, Other, Common}

Entry(remote, disablePki, host, pin) ==
    [remote |-> remote, disablePki |-> disablePki, host |-> host, pin |-> pin]

\* Two servers in several entries, one of them without verification.
Unchecked == Entry("s1", TRUE, Host, "k1")
Pinned == Entry("s1", FALSE, NoHost, "k2")
Exact == Entry("s1", FALSE, Host, "k2")
Named == Entry("s2", FALSE, Host, NoPin)
Both == Entry("s2", FALSE, Host, "k2")

MCEntries == {Unchecked, Pinned, Exact, Named, Both}
MCPresents == "s1" :> {Common} @@ "s2" :> {Wild, Other}

\* For the run about pin and host name: one entry, and a certificate that has
\* the pin and is for another host.
MCBoth == {Both}
MCOther == "s2" :> {Other}

Record(name) == [type |-> 1, name |-> name, data |-> <<10, 0, 0, 1>>]
Pad(n) == [code |-> PADDING, data |-> [i \in 1..n |-> 0]]
Cookie == [code |-> 10, data |-> <<7, 8>>]
Opt(options) == [type |-> OPT, options |-> options]

\* Names are a pointer to that of the question, or labels of their own.
Pointed == Record(<<192, 12>>)
Spelled == Record(<<1, 98, 192, 12>>)

Message(answers, additional) ==
    [answers |-> answers, authorities |-> <<>>, additional |-> additional]

MCMessages ==
    {Message(<<Pointed, Spelled>>, <<Spelled>>),
     Message(<<>>, <<Opt(<<Cookie>>)>>),
     Message(<<Pointed>>, <<Opt(<<Pad(3), Pad(0)>>), Spelled>>),
     Message(<<Spelled>>, <<Pointed, Opt(<<Pad(2), Cookie, Pad(0), Cookie>>), Spelled>>)}

=============================================================================
