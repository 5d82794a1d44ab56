-------------------------------- MODULE ComMsg --------------------------------
(***************************************************************************)
(* The message contexts of src/com_msg.c on the event loop of src/event.c. *)
(* A frame is a header (id, len) and a payload.  It travels through a pipe *)
(* (cmsg_inner), where reads cut the stream anywhere, or as one datagram   *)
(* (cmsg_server, cmsg_client), which a read into a smaller room truncates. *)
(* The receiver parses frames out of a cache of include/buf.h.             *)
(*                                                                         *)
(* A byte is the pair of its message's number and its place in the frame.  *)
(***************************************************************************)
EXTENDS Sequences, SequencesExt, FiniteSetsExt, Naturals

CONSTANTS
    Peer,           \* the addresses that send
    Payload,        \* payload lengths
    Header,         \* bytes of the header
    CacheSize,      \* buf_new(1024)
    PipeSize,       \* capacity of the pipe or of the socket's queue, in bytes
    MaxSent,        \* bound on the number of messages
    NoPeer

(* What a user of the module owes it. *)
ComMsgAssumption ==
    /\ Header \in Nat \ {0}
    /\ CacheSize \in Nat
    /\ Payload \subseteq Nat
    /\ \A n \in Payload : Header + n <= CacheSize   \* callers keep to the cache's size
    /\ NoPeer \notin Peer

VARIABLES
    type,       \* ctx->type: "inner" or "socket"
    wire,       \* what was written and not read: a sequence of chunks
    cache,      \* recv_cache from head to tail
    pos,        \* recv_cache->pos, from head
    peer,       \* ctx->peer
    pc,         \* "epoll", or where the loop is in cmsg_recv_and_deal
    sent,       \* history: the messages that were written
    dealt,      \* history: what was handed to a handler
    failed      \* history: a handler or the look-up of an id has failed

msgVars == <<type, wire, cache, pos, peer, pc, sent, dealt, failed>>

MsgInit ==
    /\ type \in {"inner", "socket"}
    /\ wire = <<>>
    /\ cache = <<>>
    /\ pos = 0
    /\ peer = NoPeer
    /\ pc = "epoll"
    /\ sent = <<>>
    /\ dealt = <<>>
    /\ failed = FALSE

FrameOf(i, n) == [k \in 1..Header + n |-> <<i, k>>]
Frame(i) == FrameOf(i, sent[i].len)

(* include/buf.h *)
raw == SubSeq(cache, pos + 1, Len(cache))
buf_room_len == CacheSize - Len(cache)

-----------------------------------------------------------------------------
(* cmsg_send: header and payload in one write, which is atomic as frames    *)
(* are below PIPE_BUF.                                                      *)
cmsg_send(n, from) ==
    LET i == Len(sent) + 1 IN
    /\ i <= MaxSent
    /\ Len(FlattenSeq(wire)) + Header + n <= PipeSize
    /\ sent' = Append(sent, [len |-> n, from |-> from])
    /\ wire' = IF type = "inner" /\ wire # <<>>
               THEN <<Head(wire) \o FrameOf(i, n)>>     \* a stream has no boundaries
               ELSE Append(wire, FrameOf(i, n))
    /\ UNCHANGED <<type, cache, pos, peer, pc, dealt, failed>>

(* event_loop: level-triggered, it sees the descriptor and not the cache. *)
event_loop ==
    /\ pc = "epoll"
    /\ wire # <<>>
    /\ pc' = "recv"
    /\ UNCHANGED <<type, wire, cache, pos, peer, sent, dealt, failed>>

(* Only recvfrom learns an address. *)
SenderOf(chunk) == IF type = "inner" THEN NoPeer ELSE sent[chunk[1][1]].from

(* Mutant: the bytes go over what the cache holds. *)
RecvAtHead ==
    LET cnt == Min({Len(Head(wire)), CacheSize})
        left == SubSeq(Head(wire), cnt + 1, Len(Head(wire)))
    IN /\ pc = "recv"
       /\ wire # <<>>
       /\ cache' = SubSeq(Head(wire), 1, cnt)
       /\ pos' = 0
       /\ wire' = IF type = "inner" /\ left # <<>> THEN <<left>> ELSE Tail(wire)
       /\ peer' = SenderOf(Head(wire))
       /\ pc' = "parse"
       /\ UNCHANGED <<type, sent, dealt, failed>>

(* cmsg_recv: as many bytes as there is room for.  What is left of a        *)
(* datagram is discarded.  With nothing to read the loop blocks.            *)
cmsg_recv ==
    LET cnt == Min({Len(Head(wire)), buf_room_len})
        left == SubSeq(Head(wire), cnt + 1, Len(Head(wire)))
    IN /\ pc = "recv"
       /\ wire # <<>>
       /\ cache' = cache \o SubSeq(Head(wire), 1, cnt)
       /\ wire' = IF type = "inner" /\ left # <<>> THEN <<left>> ELSE Tail(wire)
       /\ peer' = SenderOf(Head(wire))
       /\ pc' = "parse"
       /\ UNCHANGED <<type, pos, sent, dealt, failed>>

(* cmsg_data_get_from_buf, then cmsg_deal.  The handler or the look-up of   *)
(* the id may fail; then nothing more is parsed and the cache not moved.    *)
HeaderAt == cache[pos + 1][1]
HasHeader == Len(raw) >= Header /\ SubSeq(raw, 1, Header) = SubSeq(Frame(HeaderAt), 1, Header)
Complete == HasHeader /\ Len(raw) >= Len(Frame(HeaderAt))

cmsg_deal ==
    /\ pc = "parse"
    /\ Complete
    /\ dealt' = Append(dealt, [msg |-> HeaderAt,
                               data |-> SubSeq(raw, 1, Len(Frame(HeaderAt))),
                               peer |-> peer])
    /\ pos' = pos + Len(Frame(HeaderAt))
    /\ \E ok \in BOOLEAN :
          /\ pc' = IF ok THEN "parse" ELSE "epoll"
          /\ failed' = (failed \/ ~ok)
    /\ UNCHANGED <<type, wire, cache, peer, sent>>

(* Bytes that are no header are taken for one: the loop does anything. *)
TornHeader ==
    /\ pc = "parse"
    /\ Len(raw) >= Header
    /\ ~HasHeader
    /\ pc' = "undefined"
    /\ UNCHANGED <<type, wire, cache, pos, peer, sent, dealt, failed>>

(* Mutant: with part of a frame in the cache the loop reads on unmoved. *)
MoveOnlyWhenEmpty ==
    /\ pc = "parse"
    /\ ~Complete
    /\ Len(raw) >= Header => HasHeader
    /\ IF raw = <<>> THEN cache' = <<>> /\ pos' = 0 ELSE UNCHANGED <<cache, pos>>
    /\ pc' = IF raw = <<>> THEN "epoll" ELSE "recv"
    /\ UNCHANGED <<type, wire, peer, sent, dealt, failed>>

(* No complete frame: buf_move, and another (blocking) read when part of a *)
(* frame is there.                                                         *)
buf_move ==
    /\ pc = "parse"
    /\ ~Complete
    /\ Len(raw) >= Header => HasHeader
    /\ cache' = raw
    /\ pos' = 0
    /\ pc' = IF raw = <<>> THEN "epoll" ELSE "recv"
    /\ UNCHANGED <<type, wire, peer, sent, dealt, failed>>

-----------------------------------------------------------------------------
MsgLoop == event_loop \/ cmsg_recv \/ cmsg_deal \/ TornHeader \/ buf_move

MsgNext == MsgLoop \/ \E n \in Payload, from \in Peer : cmsg_send(n, from)

MsgSpec == MsgInit /\ [][MsgNext]_msgVars

(* The event loop runs; nobody has to send. *)
MsgFairSpec == MsgSpec /\ WF_msgVars(MsgLoop)

-----------------------------------------------------------------------------
DealtWhole ==
    type = "inner" \/ ~failed =>
        \A j \in 1..Len(dealt) : dealt[j].msg = j /\ dealt[j].data = Frame(j)

LastByte == <<Len(sent), Len(Frame(Len(sent)))>>
Follows(b, a) == b = IF a[2] < Len(Frame(a[1])) THEN <<a[1], a[2] + 1>> ELSE <<a[1] + 1, 1>>

PipeInOrder ==
    LET stream == raw \o (IF wire = <<>> THEN <<>> ELSE Head(wire)) IN
    type = "inner" =>
        /\ Len(wire) <= 1
        /\ stream = <<>> => Len(dealt) = Len(sent)
        /\ stream # <<>> => stream[1] = <<Len(dealt) + 1, 1>> /\ stream[Len(stream)] = LastByte
        /\ \A k \in 1..Len(stream) - 1 : Follows(stream[k + 1], stream[k])

DatagramsWhole ==
    type = "socket" /\ ~failed =>
        /\ raw = <<>> \/ raw = Frame(Len(dealt) + 1)
        /\ Len(dealt) + (IF raw = <<>> THEN 0 ELSE 1) + Len(wire) = Len(sent)
        /\ \A c \in 1..Len(wire) : wire[c] = Frame(Len(sent) - Len(wire) + c)

AnswerGoesToAsker ==
    type = "socket" /\ ~failed =>
        \A i \in 1..Len(dealt) : dealt[i].peer = sent[dealt[i].msg].from

(* However the reads cut it, what was sent is what was dealt with, what the *)
(* cache has not parsed and what the wire holds, in that order and nothing  *)
(* twice: the messages dealt with are the first ones, whole, and behind     *)
(* their last byte every byte follows the one sent before it, up to the     *)
(* last one sent.  With datagrams, which are whole frames, this stands      *)
(* until a handler fails: the failure leaves the cache unmoved, and the     *)
(* next datagram may be truncated.  And a handler of a server that answers  *)
(* with cmsg_send answers the one whose request it was called for.          *)
DealtAsSent == DealtWhole /\ PipeInOrder /\ DatagramsWhole /\ AnswerGoesToAsker

(* As long as no handler fails every message reaches its handler: no read  *)
(* blocks on a message that is already there or has no room to end in.     *)
EveryMessageDealt ==
    []<>(failed \/ \A i \in 1..Len(sent) : \E j \in 1..Len(dealt) : dealt[j].msg = i)

(* The inductive invariant: every byte is one of a message that was sent, the  *)
(* cache is empty whenever a server waits for a datagram, and what it has not  *)
(* dealt with came from `peer`.                                                *)
OfSent(s) ==
    \A k \in 1..Len(s) : \E i \in 1..Len(sent) : \E n \in 1..Len(Frame(i)) : s[k] = <<i, n>>

MsgTypeOK ==
    /\ type \in {"inner", "socket"}
    /\ wire \in Seq(Seq(Nat \X Nat))
    /\ \A c \in 1..Len(wire) : wire[c] # <<>> /\ OfSent(wire[c])
    /\ cache \in Seq(Nat \X Nat)
    /\ OfSent(cache)
    /\ Len(cache) <= CacheSize
    /\ pos \in 0..Len(cache)
    /\ peer \in Peer \cup {NoPeer}
    /\ pc \in {"epoll", "recv", "parse", "undefined"}
    /\ sent \in Seq([len : Payload, from : Peer])
    /\ dealt \in Seq([msg : Nat, data : Seq(Nat \X Nat), peer : Peer \cup {NoPeer}])
    /\ failed \in BOOLEAN

ReadsWhole ==
    type = "socket" /\ ~failed =>
        /\ pc # "parse" => cache = <<>>
        /\ raw # <<>> => peer = sent[Len(dealt) + 1].from

MsgInv == MsgTypeOK /\ ReadsWhole /\ DealtAsSent
===============================================================================
