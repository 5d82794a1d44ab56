------------------------------- MODULE MCLibrary --------------------------------
(* The parts of the library that do not depend on each other: a behaviour has    *)
(* one of them, the others do not begin.                                         *)
EXTENDS Memchk, Logger, Tlv, AesCbc, RsaText, ListSort, TLC

CONSTANTS t1, t2

VARIABLES
    which,                                                      \* the part that is used
    dns_sent, sz, info, shown,                                  \* Dns
    text, min_repeat, max_repeat, pin, out, exit, astray         \* Muniq

(* Blocks of two bytes: messages that fill one, that do not, and that end in     *)
(* zeros; a second message is chained to the first.                              *)
MCOctet == 0..2

(* Pieces of two characters, texts of up to two of them; the pair is replaced.   *)
MCChar == {1, 2}

(* Bytes of base 3: a word has two, a length of nine and more wraps around.      *)
MCOffered == (1 :> {"word", "str"}) @@ (2 :> {"byte", "dword", "buf", "null"})
MCValue == [null |-> {<<>>}, byte |-> {2}, word |-> {5}, dword |-> {7, 16},
           str |-> {<<>>, <<1>>, [i \in 1..10 |-> 1]}, buf |-> {<<0, 1>>, [i \in 1..4 |-> 1]}]

(* Names that fit the five bytes of room and names that do not, in capitals and  *)
(* not; an address, a record of another size, and one that ends a name itself.   *)
Names == {<<<<65>>>>, <<<<98, 66>>, <<98, 66>>>>, <<<<98, 66>>, <<65>>>>, <<>>}
Answers == {[name |-> <<<<65>>>>, compressed |-> TRUE, data |-> <<10, 0, 0, 1>>],
            [name |-> <<>>, compressed |-> TRUE, data |-> <<3, 98, 98>>],
            [name |-> <<<<98, 66>>, <<65>>>>, compressed |-> FALSE, data |-> <<0, 4, 192, 1>>]}
D == INSTANCE Dns WITH Name <- Names, Answer <- Answers, MaxCount <- 2, Room <- 5, Dot <- 46,
                       sent <- dns_sent

(* Three places in two chains, so that a chain has two descriptors.              *)
MCPlace == 1..3

(* Up to five nodes: three passes, with a last run that is short or missing.     *)
MCKey == 1..3

(* Texts of eight bytes: a group of two lines that is there twice.  Some of them *)
(* fill a page.                                                                  *)
Uniq == INSTANCE Muniq WITH Char <- {97, 98}, MaxLen <- 8, MaxRepeat <- 2, Page <- 6

(* A cut takes four bytes or a line of five; a max_line that is too small.       *)
MCThread == {t1, t2}
MCLens == {1, 5}
MCLevel == {4, 5}

ASSUME UserAssumption ==
    /\ AesAssumption /\ RsaAssumption /\ TlvAssumption /\ D!DnsAssumption
    /\ MemchkAssumption /\ ListSortAssumption /\ Uniq!MuniqAssumption
    /\ LoggerAssumption

dnsVars == <<dns_sent, sz, info, shown>>
muniqVars == <<text, min_repeat, max_repeat, pin, out, exit, astray>>
vars == <<which, aesVars, rsaVars, tlvVars, dnsVars, memchkVars, sortVars, muniqVars, loggerVars>>

Init ==
    /\ which \in {"aes", "rsa", "tlv", "dns", "memchk", "sort", "muniq", "logger"}
    /\ AesInit /\ RsaInit /\ TlvInit /\ D!Init /\ MemchkInit /\ SortInit /\ Uniq!Init /\ LoggerInit

Only(part) == which = part /\ UNCHANGED which
Rest(part, itsVars) == which # part => UNCHANGED itsVars

(* The parts that are not used stay as they are. *)
Others ==
    /\ Rest("aes", aesVars) /\ Rest("rsa", rsaVars) /\ Rest("tlv", tlvVars)
    /\ Rest("dns", dnsVars) /\ Rest("memchk", memchkVars) /\ Rest("sort", sortVars)
    /\ Rest("muniq", muniqVars) /\ Rest("logger", loggerVars)

Next ==
    \/ Only("aes") /\ Others /\ AesNext
    \/ Only("rsa") /\ Others /\ RsaNext
    \/ Only("tlv") /\ Others /\ TlvNext
    \/ Only("dns") /\ Others /\ D!Next
    \/ Only("memchk") /\ Others /\ MemchkNext
    \/ Only("sort") /\ Others /\ SortNext
    \/ Only("muniq") /\ Others /\ Uniq!Next
    \/ Only("logger") /\ Others /\ LoggerNext

Spec == Init /\ [][Next]_vars

(* Responses are read as meant, exactly when they are whole (dns.c).             *)
ParsedAsMeant == D!ParsedAsMeant
(* muniq leaves out repeated lines and no others, and tells so (muniq.c).        *)
DropsRepeats == Uniq!DropsRepeats
=================================================================================
