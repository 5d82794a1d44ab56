---------------------------------- MODULE Tlv -----------------------------------
(***************************************************************************)
(* The type-length-value coding of include/tlv.h: a sender and a receiver, *)
(* each with a table of the types registered for its ids, and the bytes    *)
(* between them.  A 16-bit number is two digits to the base Base, one of   *)
(* 32 bits four; ids and lengths are 16 bits wide.                         *)
(***************************************************************************)
EXTENDS Integers, Sequences, SequencesExt

CONSTANTS
    Id,         \* the ids in use
    Offered,    \* the types that may be registered for an id
    Value,      \* the values sent of each type
    Base,       \* how many values a byte has, 256 in the code
    MaxSent,    \* bound on the messages
    NoDesc      \* no descriptor

Types == {"null", "byte", "word", "dword", "str", "buf"}
Limit == Base * Base

(* What a user of the module owes it: values of the types' widths, and strings   *)
(* have no NUL inside.                                                          *)
TlvAssumption ==
    /\ Base \in Nat \ 0..2
    /\ Id \subseteq 0..Limit - 1 /\ NoDesc \notin Types
    /\ \A id \in Id : Offered[id] \subseteq Types
    /\ Value["byte"] \subseteq 0..Base - 1
    /\ Value["word"] \subseteq 0..Limit - 1
    /\ Value["dword"] \subseteq 0..Limit * Limit - 1
    /\ Value["str"] \cup Value["buf"] \subseteq Seq(0..Base - 1)
    /\ \A v \in Value["str"] : ~Contains(v, 0)

VARIABLES
    arr,        \* the tables of sender and receiver
    wire,       \* the bytes between p of the sender and p of the receiver
    sent,       \* history: what was coded and not yet decoded, with the type used
    got,        \* history: what was decoded
    lost        \* history: the receiver's table differed, or it gave up

tlvVars == <<arr, wire, sent, got, lost>>

TlvInit ==
    /\ arr = [side \in {"sender", "receiver"} |-> [id \in Id |-> NoDesc]]
    /\ wire = <<>>
    /\ sent = <<>>
    /\ got = <<>>
    /\ lost = FALSE

--------------------------------------------------------------------------------
(* htons, htonl and back. *)
Word(n) == <<n \div Base, n % Base>>
WordAt(p) == p[1] * Base + p[2]
Dword(n) == Word(n \div Limit) \o Word(n % Limit)
DwordAt(p) == WordAt(p) * Limit + WordAt(SubSeq(p, 3, 4))

(* tlv_X_init: the value and the length that a message has; str->len and        *)
(* buf->len hold what of the length fits 16 bits, and no more is copied.        *)
InitLen(type, val) ==
    CASE type = "null" -> 0
      [] type = "byte" -> 1
      [] type = "word" -> 2
      [] type = "dword" -> 4
      [] type \in {"str", "buf"} -> Len(val) % Limit

(* PAYLOAD_SET, PAYLOAD_SET_STR in tlv_X_pl_set. *)
Payload(type, len, val) ==
    CASE type = "null" -> <<>>
      [] type = "byte" -> <<val>>
      [] type = "word" -> Word(val)
      [] type = "dword" -> Dword(val)
      [] type \in {"str", "buf"} -> SubSeq(val, 1, len)

(* Mutant: a string takes its NUL along. *)
TakenWithNul(type, len) ==
    CASE type = "null" -> 0
      [] type = "byte" -> 1
      [] type = "word" -> 2
      [] type = "dword" -> 4
      [] type = "str" -> len + 1
      [] type = "buf" -> len

(* How many bytes tlv_X_pl_get takes: numbers do not ask for the length. *)
Taken(type, len) ==
    CASE type = "null" -> 0
      [] type = "byte" -> 1
      [] type = "word" -> 2
      [] type = "dword" -> 4
      [] type \in {"str", "buf"} -> len

(* The value it makes of them; strncpy stops at a NUL. *)
ValueAt(type, p) ==
    CASE type = "null" -> <<>>
      [] type = "byte" -> p[1]
      [] type = "word" -> WordAt(p)
      [] type = "dword" -> DwordAt(p)
      [] type = "str" -> LET i == SelectInSeq(p, LAMBDA c : c = 0)
                         IN IF i = 0 THEN p ELSE SubSeq(p, 1, i - 1)
      [] type = "buf" -> p

--------------------------------------------------------------------------------
(* tlv_type_desc_map: the descriptor there was gives way. *)
tlv_type_desc_map(side, id, type) ==
    /\ arr[side][id] # type
    /\ arr' = [arr EXCEPT ![side][id] = type]
    /\ UNCHANGED <<wire, sent, got, lost>>

(* A message: id, length and payload. *)
Coded(m) ==
    LET len == InitLen(m.type, m.val)
    IN Word(m.id) \o Word(len) \o Payload(m.type, len, m.val)

(* tlv_set: tlv_new by the sender's table, then tlv_pl_set. *)
tlv_set(id, val) ==
    LET m == [id |-> id, type |-> arr["sender"][id], val |-> val]
    IN /\ Len(sent) + Len(got) < MaxSent
       /\ wire' = wire \o Coded(m)
       /\ sent' = Append(sent, m)
       /\ UNCHANGED <<arr, got, lost>>

(* tlv_pl_get: NULL for an id without descriptor, behind which nothing is read. *)
(* The receiver reads memory of its caller's beyond the last byte that was      *)
(* sent: from there on nothing is claimed.                                      *)
tlv_pl_get ==
    /\ wire # <<>> /\ ~lost
    /\ LET id == WordAt(wire)
           len == WordAt(SubSeq(wire, 3, 4))
           type == IF id \in Id THEN arr["receiver"][id] ELSE NoDesc
           p == SubSeq(wire, 5, Len(wire))
       IN IF type = NoDesc \/ Len(p) < Taken(type, len)
          THEN lost' = TRUE /\ UNCHANGED <<wire, sent, got>>
          ELSE /\ got' = Append(got, [id |-> id, val |-> ValueAt(type, SubSeq(p, 1, Taken(type, len)))])
               /\ wire' = SubSeq(p, Taken(type, len) + 1, Len(p))
               /\ sent' = Tail(sent)
               /\ lost' = (type # Head(sent).type)
    /\ UNCHANGED arr

TlvNext ==
    \/ \E side \in {"sender", "receiver"}, id \in Id : \E type \in Offered[id] :
          tlv_type_desc_map(side, id, type)
    \/ \E id \in Id : /\ arr["sender"][id] # NoDesc
                      /\ \E val \in Value[arr["sender"][id]] : tlv_set(id, val)
    \/ tlv_pl_get

TlvSpec == TlvInit /\ [][TlvNext]_tlvVars

--------------------------------------------------------------------------------
(* What is to be read of a message: all of it, or of a string or buffer of      *)
(* 2^16 bytes and more what its length field still tells.                       *)
AsSent(m) ==
    IF m.type = "null" THEN <<>>
    ELSE IF m.type \in {"str", "buf"} THEN SubSeq(m.val, 1, Len(m.val) % Limit) ELSE m.val

(* As long as the two ends have agreed on the type of each message, the next    *)
(* one they agree on is read as it was sent, under its own id, whatever was     *)
(* registered in between and however long the messages before it were.          *)
StaysInStep ==
    [][ (sent # <<>> /\ (sent' = Tail(sent) \/ lost' # lost)
            /\ arr["receiver"][Head(sent).id] = Head(sent).type)
        => ~lost' /\ Last(got') = [id |-> Head(sent).id, val |-> AsSent(Head(sent))] ]_tlvVars

(* What explains it: the bytes between the two ends are those of the messages   *)
(* between them, cut at some places.                                            *)
Message == UNION {[id : Id, type : {type}, val : Value[type]] : type \in Types}

TlvTypeOK ==
    /\ arr \in [{"sender", "receiver"} -> [Id -> Types \cup {NoDesc}]]
    /\ wire \in Seq(0..Base - 1)
    /\ sent \in Seq(Message)
    /\ lost \in BOOLEAN

CutAt(cut, bytes, messages) ==
    /\ cut[0] = 0 /\ cut[Len(messages)] = Len(bytes)
    /\ \A i \in 1..Len(messages) : SubSeq(bytes, cut[i - 1] + 1, cut[i]) = Coded(messages[i])

WireIsSent == ~lost => \E cut \in [0..Len(sent) -> 0..Len(wire)] : CutAt(cut, wire, sent)

TlvInv == TlvTypeOK /\ WireIsSent
================================================================================
