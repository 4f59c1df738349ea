-------------------------- MODULE HostnameVerifier -------------------------
(***************************************************************************)
(* Whether a certificate is for a host (src/src/openssl/                   *)
(* hostname_verifier.cpp).  A name is the sequence of its labels, which    *)
(* are compared from the last on; the code compares characters, and counts *)
(* dots.  The two agree as a `*' stands in a label of its own, and no name *)
(* has an empty label.                                                     *)
(*                                                                         *)
(* A label is its first character, as lower() gives it, the rest, and how  *)
(* the rest is written: in small letters, in capitals, or in capitals with *)
(* an A or Z, which lower() leaves alone.                                  *)
(***************************************************************************)
EXTENDS Integers, SequencesExt

Star == [first |-> "*", rest |-> "", caps |-> "none"]
NoHost == <<>>

Lower(label) ==
    IF label.caps = "inner" THEN [label EXCEPT !.caps = "none"] ELSE label

MatchLabel(a, b) == Lower(a) = Lower(b)
MatchRest(a, b) == MatchLabel(a, [b EXCEPT !.first = a.first])

\* The number of labels at the end of both in which they agree.
Matching(host, name) ==
    LET both  == IF Len(host) < Len(name) THEN Len(host) ELSE Len(name)
        Agree(k) == \A i \in 0..(k - 1) :
                        MatchLabel(host[Len(host) - i], name[Len(name) - i])
    IN  CHOOSE k \in 0..both : Agree(k) /\ (k < both => ~Agree(k + 1))

\* Mutant: one label after the `*' is enough.
CheckHostnameShort(host, name) ==
    LET k == Matching(host, name)
    IN  \/ /\ Len(host) = Len(name) /\ name # <<>>
           /\ k >= Len(name) - 1 /\ MatchRest(host[1], name[1])
        \/ /\ k < Len(host) /\ k + 1 = Len(name)
           /\ name[1] = Star /\ k >= 1

\* checkHostname().  The labels after a `*' that agree are as many as the dots
\* before them.  A host that ends with them does not match.  The first
\* character of all is compared, but the positions are the same afterwards
\* whether it is equal or not.
CheckHostname(host, name) ==
    LET k == Matching(host, name)
    IN  \/ /\ Len(host) = Len(name) /\ name # <<>>
           /\ k >= Len(name) - 1 /\ MatchRest(host[1], name[1])
        \/ /\ k < Len(host) /\ k < Len(name)
           /\ name[Len(name) - k] = Star /\ k >= 2

\* isValid().  A certificate that lists alternative names is not looked at for
\* its common name, which is NoHost if there is none.
IsValid(certificate, host) ==
    \/ host = NoHost
    \/ certificate.lists
        /\ \E name \in certificate.alternative : CheckHostname(host, name)
    \/ ~certificate.lists
        /\ CheckHostname(host, certificate.common)

=============================================================================
