--------------------------- MODULE ForwarderList ---------------------------
(***************************************************************************)
(* The list operations of src/src/forwarder_config.cpp, as functions.      *)
(*                                                                         *)
(* An entry of the list is a Forwarder; Remote[f] is the address that      *)
(* setBad() compares, so two entries may share one (the same server        *)
(* configured twice with different host names or pins).                    *)
(***************************************************************************)
EXTENDS Naturals, Sequences

CONSTANTS
    Forwarders,     \* the entries a configuration may contain
    Remote,         \* the address of each entry
    Configs         \* the lists a (re)load may install

ASSUME ConfigsAssumption == Configs \subseteq Seq(Forwarders)

(***************************************************************************)
(* std::rotate(it, it + 1, end) with it at position i: the entry moves to  *)
(* the end and what followed it moves up by one.                           *)
(***************************************************************************)
Rotate(list, i) ==
    [j \in 1..Len(list) |->
        CASE j < i                  -> list[j]
          [] i <= j /\ j < Len(list) -> list[j + 1]
          [] OTHER                  -> list[i]]

\* The position at which setBad()'s loop breaks: the first with f's address.
IsFirstMatch(list, f, i) ==
    /\ i \in 1..Len(list)
    /\ Remote[list[i]] = Remote[f]
    /\ \A j \in 1..(i - 1) : Remote[list[j]] # Remote[f]

\* Mutant: the entry is swapped with the last one.
DemoteSwaps(list, f) ==
    IF \E i \in 1..Len(list) : Remote[list[i]] = Remote[f]
    THEN LET i == CHOOSE i \in 1..Len(list) : IsFirstMatch(list, f, i)
         IN  [list EXCEPT ![i] = list[Len(list)], ![Len(list)] = list[i]]
    ELSE list

\* ForwarderConfig::setBad(), as a function of the list.
Demote(list, f) ==
    IF \E i \in 1..Len(list) : Remote[list[i]] = Remote[f]
    THEN Rotate(list, CHOOSE i \in 1..Len(list) : IsFirstMatch(list, f, i))
    ELSE list

\* ForwarderConfig::get(): the entries it may answer, none for an empty list.
Preferred(list) == IF list = <<>> THEN {} ELSE {Head(list)}

=============================================================================
