---------------------------- MODULE VyattaCheck ----------------------------
(***************************************************************************)
(* The configuration of a running DoTe: main() joins the command line with *)
(* that of the router, and src/src/vyatta_check.cpp loads both again when  *)
(* /config/config.boot was written.  The list of forwarders is that of     *)
(* module ForwarderConfig, an entry being what ConfigParser makes of it.   *)
(*                                                                         *)
(* A router is told to use a configuration (Commit), and writes its file   *)
(* (Save).  cstore may fail to answer, at each load.                       *)
(***************************************************************************)
EXTENDS ForwarderConfig, Vyatta, FiniteSets

CONSTANTS
    CommandLines,   \* sequences of options
    Routers         \* the configurations a router may have

\* What main() and VyattaCheck::workingConfig() make of a command line, or of
\* its options and whether something follows them, and of an answer of cstore.
Load(line, rest, config) == WorkingConfig(ParseConfig(NewParser, line, rest), config)

\* cstore may not answer.
Answers == Routers \cup {NoEntries}

\* Whether main() may go on to serve with a command line.
Starts(line, rest) ==
    \E config \in Answers :
        LET p == Load(line, rest, config)
        IN  p.valid /\ p.ipLookup = NoAddress

\* Configs is at least what the processes that serve may load.
ASSUME LoadsAssumption ==
    \A line \in CommandLines, rest \in BOOLEAN : Starts(line, rest) =>
        \A config \in Answers :
            LET p == Load(line, rest, config)
            IN  p.valid => p.forwarders \in Configs

\* An address is written with brackets around the ip or without, or with an
\* opening one only.  Only a closing bracket ends an ip where no colon does.
ASSUME CommandLinesAssumption ==
    \A line \in CommandLines :
        /\ Len(line) \in Nat /\ DOMAIN line = 1..Len(line)
        /\ \A i \in 1..Len(line) : line[i].flag \in {"f", "s", "l"} =>
            /\ line[i].address.brackets \in {"none", "closed", "unclosed"}
            /\ line[i].address.after # NotSet => line[i].address.brackets = "closed"

VARIABLES
    options,        \* the command line, but for what follows the options
    leftOver,       \* whether something does
    phase,          \* how far main() is, or why it returned
    router,         \* the router's configuration
    saved,          \* whether config.boot is as router says
    watched,        \* VyattaCheck::m_fd and its registration
    event,          \* the watch has something to read
    missed,         \* history: saved since the last load, but not watched
    unanswered      \* history: cstore did not answer the last load

mainVars == <<options, leftOver, phase>>
routerVars == <<router, saved, event, missed>>
watchVars == <<mainVars, routerVars, watched, unanswered>>

CommandLine == ParseConfig(NewParser, options, leftOver)

-----------------------------------------------------------------------------

\* main(): with an invalid configuration, or an address to look up, it goes
\* no further.
WatchInit ==
    /\ options \in CommandLines
    /\ leftOver \in BOOLEAN
    /\ router \in Routers
    /\ unanswered \in BOOLEAN
    /\ LET config == Load(options, leftOver, IF unanswered THEN NoEntries ELSE router)
       IN  /\ phase = CASE ~config.valid -> "usage"
                        [] config.valid /\ config.ipLookup # NoAddress -> "look-up"
                        [] OTHER -> "starting"
           /\ forwarders = IF phase = "starting" THEN config.forwarders ELSE <<>>
    /\ chosen = {}
    /\ reported = {}
    /\ saved = TRUE
    /\ watched = FALSE
    /\ event = FALSE
    /\ missed = FALSE

\* VyattaCheck::VyattaCheck() and configure(), before the loop is run.
Configure ==
    /\ phase = "starting"
    /\ phase' = "running"
    /\ watched' \in BOOLEAN
    /\ UNCHANGED <<configVars, options, leftOver, routerVars, unanswered>>

Commit(config) ==
    /\ phase \in {"starting", "running"}
    /\ router' = config
    /\ saved' = FALSE
    /\ UNCHANGED <<configVars, mainVars, watched, event, missed, unanswered>>

Save ==
    /\ ~saved
    /\ saved' = TRUE
    /\ event' = watched
    /\ missed' = (missed \/ ~watched)
    /\ UNCHANGED <<configVars, mainVars, router, watched, unanswered>>

\* Mutant: the list is not cleared before the new one is added.
ReloadConfigurationAppends(config) ==
    IF config.valid
    THEN SetForwarders(forwarders \o config.forwarders)
    ELSE UNCHANGED configVars

ReloadConfiguration(config) ==
    IF config.valid
    THEN SetForwarders(config.forwarders)
    ELSE UNCHANGED configVars

\* handleRead(): all that is there to read is read, and the configuration
\* loaded anew, on top of the command line.
HandleRead ==
    /\ phase = "running" /\ watched /\ event
    /\ unanswered' \in BOOLEAN
    /\ ReloadConfiguration(
          Load(options, leftOver, IF unanswered' THEN NoEntries ELSE router))
    /\ event' = FALSE
    /\ missed' = FALSE
    /\ UNCHANGED <<mainVars, router, saved, watched>>

\* Connections take and report forwarders.
Serve ==
    /\ phase = "running"
    /\ \E f \in ToSet(forwarders) \cup chosen : Get(f) \/ SetBad(f)
    /\ UNCHANGED watchVars

WatchNext ==
    \/ Configure
    \/ \E config \in Routers : Commit(config)
    \/ Save
    \/ HandleRead
    \/ Serve

WatchSpec == WatchInit /\ [][WatchNext]_<<configVars, watchVars>>

-----------------------------------------------------------------------------

WatchTypeOK ==
    /\ ConfigTypeOK
    /\ options \in CommandLines
    /\ router \in Routers
    /\ phase \in {"usage", "look-up", "starting", "running"}
    /\ {leftOver, saved, watched, event, missed, unanswered} \subseteq BOOLEAN

(***************************************************************************)
(* The command line as it is meant to be read (README.md:157-164, usage()):*)
(* `-h', `-p' and `-i' say something about the forwarder of the last `-f'  *)
(* before them, a pin may be given again, a host name may not.             *)
(***************************************************************************)
Written(flag) == {i \in DOMAIN options : options[i].flag = flag}

\* What follows the `-f' at i, up to the next one; 0 stands for the start.
About(i, flag) ==
    {j \in Written(flag) : j > i /\ ~\E k \in Written("f") : i < k /\ k < j}

LastText(S) ==
    IF S = {} THEN NotSet
    ELSE options[CHOOSE i \in S : \A j \in S : j <= i].text

IsAddress(written) ==
    /\ \/ written.brackets = "none" /\ written.ip \in V4
       \/ written.brackets = "closed" /\ written.ip \in V6 /\ written.after = NotSet
    /\ written.port = NoPort \/ (1 <= written.port /\ written.port <= 65535)

WellFormed ==
    /\ ~leftOver
    /\ \A i \in DOMAIN options :
        options[i].flag \in {"f", "s", "l", "h", "p", "i", "t", "m", "c", "P", "d"}
    /\ \A i \in Written("f") \cup Written("s") \cup Written("l") :
        IsAddress(options[i].address)
    /\ \A i \in Written("t") : 1 <= options[i].number /\ options[i].number <= 65535
    /\ \A i \in Written("m") : 1 <= options[i].number /\ options[i].number <= 6000
    /\ \A i \in Written("p") : options[i].text \in Pins \cup {NotSet}
    /\ \A i \in Written("f") \cup {0} : \A j, k \in About(i, "h") :
        j < k => options[j].text = NotSet
    /\ LastText(About(0, "h")) = NotSet /\ LastText(About(0, "p")) = NotSet

\* Where nothing stands between a closing bracket and a colon or the end.
EndsWithBracket ==
    \A i \in Written("f") \cup Written("s") \cup Written("l") :
        options[i].address.after = NotSet

(***************************************************************************)
(* Every command line is understood as it is meant: the well-formed ones   *)
(* are accepted, the others are refused, however far the parser got with   *)
(* them, unless what is wrong may be text after a closing bracket, which   *)
(* is ignored; and in those that are accepted each host name, pin and `-i' *)
(* is with its forwarder and the forwarders are in order.                  *)
(***************************************************************************)
ParsedAsWritten ==
    LET p == CommandLine
    IN  /\ WellFormed => p.valid
        /\ p.valid /\ EndsWithBracket => WellFormed
        /\ p.valid =>
            /\ Len(p.forwarders) = Cardinality(Written("f"))
            /\ \A i \in Written("f") :
                p.forwarders[Cardinality({k \in Written("f") : k <= i})] =
                    [remote |-> ParseServer(options[i].address, 853),
                     disablePki |-> About(i, "i") # {},
                     host |-> LastText(About(i, "h")),
                     pin |-> LastText(About(i, "p"))]

(***************************************************************************)
(* "If the dote-forwarder is changed the new values will take effect       *)
(* immediately" (README.md:108): once what was written has been noticed,   *)
(* the list holds the forwarders of the router's configuration and of the  *)
(* command line, each once, in whatever order failures have left them;     *)
(* unless that configuration is invalid, cstore did not answer, or it was  *)
(* written after main() had loaded it and before it was watched.           *)
(***************************************************************************)
FollowsRouter ==
    LET config == Load(options, leftOver, router)
    IN  phase = "running" /\ saved /\ ~event /\ ~missed /\ ~unanswered
            /\ config.valid
        => Len(forwarders) = Len(config.forwarders)
            /\ ToSet(forwarders) = ToSet(config.forwarders)

(***************************************************************************)
(* "similarly the hostname pin can be configured at                        *)
(* custom-attribute/dote-forwarderN-hostname" (README.md:104): a host name *)
(* or a pin of the router's configuration is that of the forwarder.        *)
(***************************************************************************)
RouterPinsApply ==
    LET config == LoadConfig(NewParser, router)
    IN  config.valid =>
        \A i \in DOMAIN config.forwarders :
            /\ config.forwarders[i].host = router.forwarders[i].host
            /\ config.forwarders[i].pin = router.forwarders[i].pin

=============================================================================
