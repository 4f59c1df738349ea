------------------------------ MODULE DnsPacket ----------------------------
(***************************************************************************)
(* A response as it comes over TCP (src/src/dns_packet.cpp): a sequence of *)
(* bytes, the first two of which hold the length of the others.            *)
(*                                                                         *)
(* The code walks a packet with iterators; here they are positions, the    *)
(* first is 1 and the end is one past the last.  What the code does with a *)
(* packet whose records contradict each other is undefined in places, and  *)
(* is not modelled: the packets are well-formed, but may have arrived in   *)
(* part.                                                                   *)
(***************************************************************************)
EXTENDS Integers, SequencesExt

OPT == 41           \* the type of an EDNS record
PADDING == 12       \* the code of its padding option
HeaderSize == 14

Short(bytes, i) == bytes[i] * 256 + bytes[i + 1]
ShortBytes(n) == <<(n \div 256) % 256, n % 256>>
SetShort(bytes, i, n) ==
    [bytes EXCEPT ![i] = ShortBytes(n)[1], ![i + 1] = ShortBytes(n)[2]]

End(bytes) == Len(bytes) + 1

\* Mutant: whatever has a header is taken.
ValidWithHeader(bytes) == Len(bytes) >= HeaderSize

\* getHeader() finds a header, and the length is right.
Valid(bytes) ==
    /\ Len(bytes) >= HeaderSize
    /\ Short(bytes, 1) = Len(bytes) - 2

Queries(bytes) == Short(bytes, 7)
Answers(bytes) == Short(bytes, 9)
Authorities(bytes) == Short(bytes, 11)
Additional(bytes) == Short(bytes, 13)

-----------------------------------------------------------------------------

\* Labels up to an empty one, or a pointer (11 in the upper bits).
SkipName(bytes, start) ==
    LET skip[i \in 1..End(bytes)] ==
            CASE i = End(bytes)                      -> i
              [] i < End(bytes) /\ bytes[i] = 0      -> i + 1
              [] i < End(bytes) /\ bytes[i] >= 192   -> i + 2
              [] OTHER -> IF End(bytes) - i > bytes[i] + 1
                          THEN skip[i + bytes[i] + 1]
                          ELSE End(bytes)
    IN  skip[start]

SkipFixed(bytes, i, length) ==
    IF End(bytes) - i > length THEN i + length ELSE End(bytes)

\* One pass of the loops of skipQueries() and skipResponses().
SkipQuery(bytes, i) == SkipFixed(bytes, SkipName(bytes, i), 4)

SkipResponse(bytes, i) ==
    LET data == SkipFixed(bytes, SkipName(bytes, i), 8)
    IN  IF End(bytes) - data >= 2
        THEN IF End(bytes) - (data + 2) >= Short(bytes, data)
             THEN data + 2 + Short(bytes, data)
             ELSE End(bytes)
        ELSE End(bytes)

\* What is done `count' times, at most to the end of the packet.
Repeat(Skip(_, _), bytes, count, start) ==
    FoldLeft(LAMBDA i, k : IF i = End(bytes) THEN i ELSE Skip(bytes, i),
             start, [k \in 1..count |-> k])

-----------------------------------------------------------------------------

\* One pass of the loop of removePaddingOption(): the options after a padding
\* option move over it, and what is behind the last of them stays.
OptionStep(region) ==
    LET full == 4 + Short(region.bytes, region.it + 2)
    IN  CASE region.it = region.end -> region
          [] region.it # region.end /\ Short(region.bytes, region.it) = PADDING ->
                [region EXCEPT
                    !.bytes = [i \in DOMAIN @ |->
                        IF region.it <= i /\ i < region.end - full
                        THEN @[i + full] ELSE @[i]],
                    !.end = @ - full]
          [] OTHER -> [region EXCEPT !.it = @ + full]

\* The packet afterwards, and where the options end in it.
RemovePaddingOption(bytes, options, length) ==
    FoldLeft(LAMBDA region, k : OptionStep(region),
             [bytes |-> bytes, it |-> options, end |-> options + length],
             [k \in 1..length |-> k])

\* Mutant: the length of the record stays as it was.
ShrinkKeepsLength(bytes, i) ==
    LET length  == Short(bytes, i + 9)
        options == i + 11
        region  == RemovePaddingOption(bytes, options, length)
        diff    == length - (region.end - options)
        patched == SetShort(region.bytes, 1, Short(bytes, 1) - diff)
    IN  SubSeq(patched, 1, options - 1)
            \o SubSeq(patched, options + diff, Len(patched))

\* The OPT record at i loses its padding, and what follows moves up.  What
\* moves begins `diff' bytes after the start of the options, and so the
\* options that were kept are overwritten.
Shrink(bytes, i) ==
    LET length  == Short(bytes, i + 9)
        options == i + 11
        region  == RemovePaddingOption(bytes, options, length)
        diff    == length - (region.end - options)
        patched == SetShort(SetShort(region.bytes, i + 9, length - diff),
                            1, Short(bytes, 1) - diff)
    IN  SubSeq(patched, 1, options - 1)
            \o SubSeq(patched, options + diff, Len(patched))

IsOpt(bytes, i) ==
    bytes[i] = 0 /\ End(bytes) - i >= 11 /\ Short(bytes, i + 1) = OPT

\* removeEdnsPadding(): of the first OPT record of the additional section.
RemoveEdnsPadding(bytes) ==
    LET questions  == Repeat(SkipQuery, bytes, Queries(bytes), HeaderSize + 1)
        answers    == Repeat(SkipResponse, bytes, Answers(bytes), questions)
        additional == Repeat(SkipResponse, bytes, Authorities(bytes), answers)
        At(k)      == Repeat(SkipResponse, bytes, k, additional)
        opts       == {k \in 0..(Additional(bytes) - 1) :
                          At(k) # End(bytes) /\ IsOpt(bytes, At(k))}
        first      == At(CHOOSE k \in opts : \A j \in opts : k <= j)
    IN  IF Valid(bytes) /\ opts # {}
            /\ End(bytes) - first >= Short(bytes, first + 9) + 11
        THEN Shrink(bytes, first)
        ELSE bytes

=============================================================================
