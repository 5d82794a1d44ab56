---------------------------------- MODULE Muniq ---------------------------------
(***************************************************************************)
(* tools/muniq/muniq.c: a text is copied and groups of lines that are      *)
(* repeated at once are left out, larger groups first.  A position is a    *)
(* number of bytes from the beginning of the text, `end` the length of it, *)
(* and Null is -1.  The text is mapped in whole pages: behind it are zeros *)
(* up to the end of the last one, and behind that nothing may be read.     *)
(***************************************************************************)
EXTENDS Integers, Sequences, SequencesExt

CONSTANTS
    Char,       \* the characters of lines
    MaxLen,     \* bound on the bytes of a text
    MaxRepeat,  \* bound on the options -n and -m
    Page        \* bytes of a page

NL == 10                    \* '\n'
Null == -1

(* What a user of the module owes it. *)
MuniqAssumption ==
    Char \subseteq 1..255 \ {NL} /\ MaxLen \in Nat /\ MaxRepeat \in Nat /\ Page \in Nat \ {0}

VARIABLES
    text,               \* the input, <<>> before it is mapped
    min_repeat, max_repeat,
    pin,                \* how far it was read
    out,                \* what was written
    exit,               \* the exit status, Null while the program runs
    astray              \* history: it has read behind the last page

vars == <<text, min_repeat, max_repeat, pin, out, exit, astray>>

Init ==
    /\ text = <<>> /\ min_repeat = 1 /\ max_repeat = 10
    /\ pin = 0 /\ out = <<>> /\ exit = Null /\ astray = FALSE

end == Len(text)

(* The bytes from position p on, n of them; behind the text is a zero yet. *)
Bytes(p, n) == [i \in 1..n |-> IF p + i <= end THEN text[p + i] ELSE 0]

(* main up to its loop; mapping an empty file fails. *)
Start(t, n, m) ==
    /\ text = <<>> /\ t # <<>>
    /\ text' = t /\ min_repeat' = n /\ max_repeat' = m
    /\ UNCHANGED <<pin, out, exit, astray>>

--------------------------------------------------------------------------------
(* strnchr(p, '\n', end - p) *)
strnchr(p) ==
    LET i == SelectInSeq(SubSeq(text, p + 1, end), LAMBDA c : c = NL)
    IN IF i = 0 THEN Null ELSE p + i - 1

(* lines_mark of scan_repeat_str: the ends of the lines from p on, Null behind  *)
(* the last one.                                                                *)
Mark(marks, i) ==
    IF marks # <<>> /\ Last(marks) = Null THEN Append(marks, Null)
    ELSE Append(marks, strnchr(IF marks = <<>> THEN pin ELSE Last(marks) + 1))
Marks == FoldLeft(Mark, <<>>, [i \in 1..2 * max_repeat + 1 |-> i])

(* Mutant: what follows need not be as long. *)
RepeatedPrefix(k) ==
    LET p2 == Marks[k]
    IN p2 # Null /\ Bytes(pin, p2 - pin) = Bytes(p2 + 1, p2 - pin)

(* The k lines from pin on are followed by the same bytes again: by k lines, or *)
(* by the end of the text.                                                      *)
SecondEnd(k) == IF Marks[2 * k] = Null THEN end ELSE Marks[2 * k]
Repeated(k) ==
    LET p2 == Marks[k]
    IN /\ p2 # Null
       /\ SecondEnd(k) - p2 = p2 - pin + 1
       /\ Bytes(pin, p2 - pin) = Bytes(p2 + 1, p2 - pin)

(* scan_repeat_str: the end of the largest group of max_repeat to min_repeat    *)
(* lines that is repeated, or Null; an empty line is no group.                  *)
Sizes == {k \in 1..max_repeat : k >= min_repeat}
Groups == {k \in Sizes : Repeated(k) /\ Marks[k] # pin}
Largest == CHOOSE k \in Groups : \A j \in Groups : j <= k
scan_repeat_str == IF Groups = {} THEN Null ELSE Marks[Largest]

(* Looking for a '\n' that is not there, strnchr reads the byte behind the text, *)
(* and strchr and memcpy do behind a last line without one.  When the text fills *)
(* its last page, nothing is known of that byte.                                 *)
ReadsBehind == Last(Marks) = Null /\ end % Page = 0

Strays ==
    /\ text # <<>> /\ pin < end /\ ~astray
    /\ ReadsBehind
    /\ astray' = TRUE
    /\ UNCHANGED <<text, min_repeat, max_repeat, pin, out, exit>>

(* One round of the loop of main. *)
Round ==
    /\ text # <<>> /\ pin < end /\ ~astray
    /\ ~ReadsBehind
    /\ LET group == scan_repeat_str
           tmp == IF group # Null THEN group ELSE IF strnchr(pin) # Null THEN strnchr(pin) ELSE end
           len == tmp - pin + 1
       IN /\ out' = out \o Bytes(pin, len)
          /\ pin' = pin + (IF group # Null THEN 2 * len ELSE len)
    /\ UNCHANGED <<text, min_repeat, max_repeat, exit, astray>>

(* main behind its loop. *)
Exit ==
    /\ text # <<>> /\ pin >= end /\ exit = Null
    /\ exit' = IF Len(out) < end THEN 1 ELSE 0
    /\ UNCHANGED <<text, min_repeat, max_repeat, pin, out, astray>>

Next ==
    \/ /\ text = <<>>
       /\ \E t \in BoundedSeq(Char \cup {NL}, MaxLen), n, m \in 0..MaxRepeat : Start(t, n, m)
    \/ Strays
    \/ Round
    \/ Exit

Spec == Init /\ [][Next]_vars

--------------------------------------------------------------------------------
(* The lines of a text, the last one with or without its '\n', and the text of   *)
(* lines that all have theirs.                                                  *)
LinesOf(t) ==
    LET ends == SetToSortSeq({i \in DOMAIN t : t[i] = NL \/ i = Len(t)}, <)
    IN [i \in DOMAIN ends |->
           SelectSeq(SubSeq(t, IF i = 1 THEN 1 ELSE ends[i - 1] + 1, ends[i]), LAMBDA c : c # NL)]
TextOf(ls) == FlattenSeq([i \in DOMAIN ls |-> Append(ls[i], NL)])

NoEmptyLine == \A i \in 1..end : text[i] = NL => i > 1 /\ text[i - 1] # NL

(* Which lines are left, from the i-th on: of the largest group, of a size that  *)
(* the options allow, which is there twice, the first copy, and otherwise one    *)
(* line.                                                                         *)
RepeatedLines(ls, i, k) ==
    i + 2 * k - 1 <= Len(ls) /\ SubSeq(ls, i, i + k - 1) = SubSeq(ls, i + k, i + 2 * k - 1)

Unrepeated(ls) ==
    LET left[i \in 1..Len(ls) + 1] ==
            LET ks == {k \in Sizes : RepeatedLines(ls, i, k)}
            IN IF i > Len(ls) THEN <<>>
               ELSE IF ks = {} THEN <<i>> \o left[i + 1]
               ELSE [j \in 1..Max(ks) |-> i + j - 1] \o left[i + 2 * Max(ks)]
    IN left[1]

(* Of a text without empty lines, the output is byte for byte the lines that do  *)
(* not repeat the ones before them, as far as the options allow, each once, in   *)
(* their order and with its '\n' (but a last line that has none is followed by a *)
(* zero when it is left); and the exit status, on which muniq.sh goes on or      *)
(* stops, tells whether any line was left out.  A text that fills its last page  *)
(* has no exit here.                                                             *)
DropsRepeats ==
    exit # Null /\ NoEmptyLine =>
        LET ls == LinesOf(text)
            left == Unrepeated(ls)
            written == TextOf([i \in DOMAIN left |-> ls[left[i]]])
        IN /\ out = IF text[end] # NL /\ Last(left) = Len(ls)
                    THEN [written EXCEPT ![Len(written)] = 0] ELSE written
           /\ exit = 1 <=> Len(left) < Len(ls)
================================================================================
