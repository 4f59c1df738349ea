-------------------------- MODULE ForwarderConfig --------------------------
(***************************************************************************)
(* The ordered list of upstream forwarders (src/src/forwarder_config.cpp). *)
(* get() always answers the head of the list; setBad() moves a failed      *)
(* forwarder to the end; a configuration reload (Dote::setForwarders)      *)
(* replaces the list while connections to the old entries go on.           *)
(***************************************************************************)
EXTENDS ForwarderList

VARIABLES
    forwarders,     \* ForwarderConfig::m_forwarders
    chosen,         \* history: entries that get() answered
    reported        \* history: entries reported bad since the last load

configVars == <<forwarders, chosen, reported>>

-----------------------------------------------------------------------------

ConfigInit ==
    /\ forwarders \in Configs
    /\ chosen = {}
    /\ reported = {}

\* A new connection asks which forwarder to use.
Get(f) ==
    /\ f \in Preferred(forwarders)
    /\ chosen' = chosen \cup {f}
    /\ UNCHANGED <<forwarders, reported>>

\* Mutant: whatever is in use now takes the blame.
SetBadBlamesCurrent(f) ==
    /\ f \in chosen \cup Preferred(forwarders)
    /\ chosen' = chosen \cup {f}
    /\ forwarders' = Demote(forwarders, Head(forwarders))
    /\ reported' = reported \cup {Head(forwarders)}

\* A connection failed, perhaps the one get() was just called for, and says
\* so.  Its forwarder f may come from an older configuration: then nothing
\* matches and nothing moves.
SetBad(f) ==
    /\ f \in chosen \cup Preferred(forwarders)
    /\ chosen' = chosen \cup {f}
    /\ forwarders' = Demote(forwarders, f)
    /\ reported' = reported \cup {f}

\* Dote::setForwarders(): clear(), then addForwarder() for each entry.
SetForwarders(config) ==
    /\ forwarders' = config
    /\ reported' = {}
    /\ UNCHANGED chosen

ConfigNext ==
    \/ \E f \in Forwarders : Get(f) \/ SetBad(f)
    \/ \E config \in Configs : SetForwarders(config)

ConfigSpec == ConfigInit /\ [][ConfigNext]_configVars

-----------------------------------------------------------------------------

ConfigTypeOK ==
    /\ forwarders \in Seq(Forwarders)
    /\ chosen \subseteq Forwarders
    /\ reported \subseteq chosen

\* No two entries of a configuration share an address.
DistinctRemotes ==
    \A config \in Configs : \A i, j \in 1..Len(config) :
        Remote[config[i]] = Remote[config[j]] => i = j

\* setBad() knows a forwarder by its address only.
Bad(f) == \E g \in reported : Remote[g] = Remote[f]

(***************************************************************************)
(* Fail-over: a forwarder that was reported bad is never preferred to one  *)
(* that was not.  So get() hands out a bad forwarder only when every       *)
(* forwarder of the configuration has been reported since it was loaded.   *)
(* A report that comes from a connection of an earlier configuration must  *)
(* not disturb this.                                                       *)
(***************************************************************************)
GoodBeforeBad ==
    \A i, j \in 1..Len(forwarders) :
        i < j /\ Bad(forwarders[i]) => Bad(forwarders[j])

(***************************************************************************)
(* Among the forwarders that were not reported the configured order is     *)
(* kept: a failure elsewhere never makes DoTe prefer a later good          *)
(* forwarder to an earlier good one.                                       *)
(***************************************************************************)
GoodOrderKept ==
    [][\A i, j \in 1..Len(forwarders) :
        /\ i < j
        /\ reported' # {}       \* not a reload
        /\ \A g \in reported' :
            Remote[g] \notin {Remote[forwarders[i]], Remote[forwarders[j]]}
        => \E k, l \in 1..Len(forwarders') :
            /\ k < l
            /\ forwarders'[k] = forwarders[i]
            /\ forwarders'[l] = forwarders[j]]_configVars

=============================================================================
