----------------------------------- MODULE Dns ----------------------------------
(***************************************************************************)
(* The reader of DNS responses in src/dns.c: names, questions and resource *)
(* records in the bytes that were received of a message, the message as a  *)
(* server meant it beside them.                                            *)
(***************************************************************************)
EXTENDS Integers, Sequences, SequencesExt

CONSTANTS
    Name,       \* names of the messages, as sequences of labels
    Answer,     \* resource records: name, compressed or not, and data
    MaxCount,   \* bound on the questions and on the answers of a message
    Room,       \* sizeof(q->name), 256 in the code
    Dot         \* the character between labels

(* What a user of the module owes it. *)
DnsAssumption ==
    /\ \A n \in Name : \A l \in Range(n) : Len(l) \in 1..63
    /\ \A a \in Answer : /\ \A l \in Range(a.name) : Len(l) \in 1..63
                         /\ a.compressed \in BOOLEAN /\ Len(a.data) < 256
    /\ MaxCount \in Nat /\ Room \in Nat /\ Dot \notin 65..90

VARIABLES
    sent,       \* the message of the server: questions, answers, flags
    sz,         \* how many of its bytes were received
    info,       \* what dns_resp_parse returned
    shown       \* what dump_dns_response_safe printed

vars == <<sent, sz, info, shown>>

Null == [ret |-> "NULL"]
NoResult == [ret |-> "none"]

--------------------------------------------------------------------------------
(* The bytes of a message behind its header.                                    *)
Labels(n) == FlattenSeq([i \in 1..Len(n) |-> <<Len(n[i])>> \o n[i]])
QuestionBytes(n) == Labels(n) \o <<0>> \o <<0, 1, 0, 1>>
AnswerBytes(a) ==
    Labels(a.name) \o (IF a.compressed THEN <<192, 12>> ELSE <<0>>)
        \o <<0, 1, 0, 1, 0, 0, 2, 88>> \o <<0, Len(a.data)>> \o a.data
Body(m) ==
    FlattenSeq([i \in 1..Len(m.questions) |-> QuestionBytes(m.questions[i])])
        \o FlattenSeq([i \in 1..Len(m.answers) |-> AnswerBytes(m.answers[i])])

HeaderLen == 12
Received == SubSeq(Body(sent), 1, sz - HeaderLen)

NoMessage == [questions |-> <<>>, answers |-> <<>>, qr |-> -1, rcode |-> 0]

Init ==
    /\ sent = NoMessage
    /\ sz = 0
    /\ info = NoResult
    /\ shown = NoResult

(* A message comes in, or its first n bytes. *)
Receive(m, n) ==
    /\ sent' = m
    /\ sz' = n
    /\ UNCHANGED <<info, shown>>

--------------------------------------------------------------------------------
(* What a function that reads at byte `at` returns: the byte behind, or -1.     *)
Failed == [at |-> -1]

br_to_lower(s) == [i \in DOMAIN s |-> IF s[i] \in 65..90 THEN s[i] + 32 ELSE s[i]]

(* parse_name, one round: a label, the zero or the pointer at the end of a name *)
(* (what it points at is not looked up), or an error.                           *)
RECURSIVE parse_name(_, _, _)
parse_name(buf, at, name) ==
    IF at > Len(buf) THEN Failed
    ELSE LET len == buf[at]
         IN CASE len = 0 -> [at |-> at + 1, name |-> br_to_lower(name)]
              [] len >= 192 ->
                     IF at + 1 > Len(buf) THEN Failed
                     ELSE [at |-> at + 2, name |-> br_to_lower(name)]
              [] OTHER ->
                     IF at + len > Len(buf) \/ Len(name) + len + 2 > Room THEN Failed
                     ELSE parse_name(buf, at + 1 + len,
                              name \o (IF name = <<>> THEN <<>> ELSE <<Dot>>)
                                   \o SubSeq(buf, at + 1, at + len))

parse_question(buf, at) ==
    LET n == parse_name(buf, at, <<>>)
    IN IF n = Failed \/ n.at + 3 > Len(buf) THEN Failed ELSE [n EXCEPT !.at = @ + 4]

(* Mutant: the two bytes of the length in the order of the machine. *)
parse_rr_swapped(buf, at) ==
    LET n == parse_name(buf, at, <<>>)
    IN IF n = Failed \/ n.at + 9 > Len(buf) THEN Failed
       ELSE LET len == buf[n.at + 8] + buf[n.at + 9] * 256
            IN IF n.at + 9 + len > Len(buf) THEN Failed
               ELSE [at |-> n.at + 10 + len, name |-> n.name,
                     data |-> SubSeq(buf, n.at + 10, n.at + 9 + len)]

parse_rr(buf, at) ==
    LET n == parse_name(buf, at, <<>>)
    IN IF n = Failed \/ n.at + 9 > Len(buf) THEN Failed
       ELSE LET len == buf[n.at + 8] * 256 + buf[n.at + 9]
            IN IF n.at + 9 + len > Len(buf) THEN Failed
               ELSE [at |-> n.at + 10 + len, name |-> n.name,
                     data |-> SubSeq(buf, n.at + 10, n.at + 9 + len)]

(* n questions, or n records, each read behind the one before. *)
ReadQuestions(buf, n) ==
    FoldLeft(LAMBDA r, i : IF r = Failed THEN Failed ELSE parse_question(buf, r.at),
             [at |-> 1], [i \in 1..n |-> i])
ReadAnswers(buf, at, n) ==
    FoldLeft(LAMBDA r, i : IF r = Failed THEN Failed ELSE parse_rr(buf, r.at),
             [at |-> at], [i \in 1..n |-> i])

(* Questions and answers are counted from 0.  *)
dns_get_question(q_index) ==
    IF q_index >= Len(sent.questions) \/ sz < HeaderLen THEN Failed
    ELSE ReadQuestions(Received, q_index + 1)

dns_get_answer(a_index) ==
    IF a_index >= Len(sent.answers) \/ sz < HeaderLen THEN Failed
    ELSE LET questions == ReadQuestions(Received, Len(sent.questions))
         IN IF questions = Failed THEN Failed
            ELSE ReadAnswers(Received, questions.at, a_index + 1)

is_vaild_dns_resp == sz >= HeaderLen /\ sent.qr = 1 /\ sent.rcode = 0

Questions == [i \in DOMAIN sent.questions |-> dns_get_question(i - 1)]
Answers == [i \in DOMAIN sent.answers |-> dns_get_answer(i - 1)]

(* The addresses of IPv4 among the answers, as arr_push puts them into info.    *)
IsIPv4(a) == Len(a.data) = 4
DataOf(as) == [i \in DOMAIN as |-> as[i].data]

dns_resp_parse ==
    /\ sent # NoMessage /\ info = NoResult
    /\ info' = IF \/ ~is_vaild_dns_resp
                  \/ dns_get_question(0) = Failed
                  \/ Failed \in Range(Answers)
               THEN Null
               ELSE [ret |-> "info", domain |-> dns_get_question(0).name,
                     ipv4 |-> DataOf(SelectSeq(Answers, IsIPv4))]
    /\ UNCHANGED <<sent, sz, shown>>

(* What is shown up to the first record that cannot be read. *)
UpToFailure(rs) ==
    LET i == SelectInSeq(rs, LAMBDA r : r = Failed) IN IF i = 0 THEN rs ELSE SubSeq(rs, 1, i - 1)
NamesOf(rs) == [i \in DOMAIN rs |-> rs[i].name]

dump_dns_response_safe ==
    /\ sent # NoMessage /\ shown = NoResult
    /\ shown' =
          IF ~is_vaild_dns_resp THEN Null
          ELSE [ret |-> "shown", questions |-> NamesOf(UpToFailure(Questions)),
                answers |-> IF Failed \in Range(Questions) THEN <<>>
                            ELSE DataOf(UpToFailure(Answers))]
    /\ UNCHANGED <<sent, sz, info>>

Next ==
    \/ /\ sent = NoMessage
       /\ \E q \in BoundedSeq(Name, MaxCount), a \in BoundedSeq(Answer, MaxCount),
             flags \in {[qr |-> 1, rcode |-> 0], [qr |-> 0, rcode |-> 0], [qr |-> 1, rcode |-> 3]} :
             LET m == [questions |-> q, answers |-> a, qr |-> flags.qr, rcode |-> flags.rcode]
             IN \E n \in 0..HeaderLen + Len(Body(m)) : Receive(m, n)
    \/ dns_resp_parse
    \/ dump_dns_response_safe

Spec == Init /\ [][Next]_vars

--------------------------------------------------------------------------------
(* The message as its server meant it.                                          *)
Text(n) ==
    br_to_lower(FlattenSeq([i \in 1..Len(n) |-> IF i = 1 THEN n[i] ELSE <<Dot>> \o n[i]]))

(* Whether a name fits: a name with two labels or more is not longer than       *)
(* Room - 1, and one with a single label not longer than Room - 2.              *)
FitsRoom(n) == Len(Text(n)) + (IF Len(n) = 1 THEN 2 ELSE 1) <= Room
Fitting(ns) == \A i \in DOMAIN ns : FitsRoom(ns[i])
NamesIn(as) == [i \in DOMAIN as |-> as[i].name]

(* The first q questions and a answers were received, and their names fit.      *)
Whole(q, a) ==
    LET part == [questions |-> SubSeq(sent.questions, 1, q), answers |-> SubSeq(sent.answers, 1, a)]
    IN /\ sz >= HeaderLen + Len(Body(part))
       /\ Fitting(part.questions) /\ Fitting(NamesIn(part.answers))

Asked == Len(sent.questions)
Answered == Len(sent.answers)

Parsed ==
    info # NoResult =>
        info = IF sent.qr = 1 /\ sent.rcode = 0 /\ Asked > 0 /\ Whole(1, 0)
                  /\ (Answered > 0 => Whole(Asked, Answered))
               THEN [ret |-> "info", domain |-> Text(sent.questions[1]),
                     ipv4 |-> SelectSeq([i \in 1..Answered |-> sent.answers[i].data],
                                        LAMBDA d : Len(d) = 4)]
               ELSE Null

ShownUpToCut ==
    shown \notin {NoResult, Null} =>
        /\ \A q \in 1..Asked : q <= Len(shown.questions) <=> Whole(q, 0)
        /\ \A a \in 1..Answered : a <= Len(shown.answers) <=> Whole(Asked, a)

(* A response to at least one question gives the name of the first one in lower *)
(* case and its IPv4 addresses in their order, past records of other sizes and  *)
(* names with pointers -- and does so exactly when all of it was received, down *)
(* to the last byte of the last record.  The dump of a response that was cut    *)
(* off shows all that precedes the cut, and nothing behind it.                  *)
ParsedAsMeant == Parsed /\ ShownUpToCut
================================================================================
