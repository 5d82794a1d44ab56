--------------------------------- MODULE AesCbc ---------------------------------
(***************************************************************************)
(* The two AES-CBC codings of src/crypto.c, with PKCS#7 and with zero      *)
(* padding, between two ends that start from the same initialisation       *)
(* vector and keep the vector each call leaves behind.                     *)
(*                                                                         *)
(* A block of ciphertext is the plain block it stands for, a number of its *)
(* own and the number of the block it is chained to: what AES_cbc_encrypt  *)
(* of OpenSSL promises.  Decrypted behind any other block it is junk.      *)
(***************************************************************************)
EXTENDS Integers, Sequences, SequencesExt

CONSTANTS
    Octet,          \* the bytes of messages, zero among them
    BlockSize,      \* AES_BLOCK_SIZE
    MaxLen,         \* bound on the length of a message
    MaxMessages     \* bound on the messages

(* What a user of the module owes it. *)
AesAssumption ==
    /\ Octet \subseteq 0..255 /\ 0 \in Octet
    /\ BlockSize \in 1..255
    /\ MaxLen \in Nat /\ MaxMessages \in Nat

VARIABLES
    iv_enc, iv_dec,     \* the vectors of the two ends: the block last coded
    packets,            \* messages coded and not yet decoded
    coded,              \* blocks of ciphertext made so far
    deciphered          \* history: messages as they were sent and as they were read

aesVars == <<iv_enc, iv_dec, packets, coded, deciphered>>

AesInit ==
    /\ iv_enc = 0
    /\ iv_dec = 0
    /\ packets = <<>>
    /\ coded = 0
    /\ deciphered = <<>>

Zeros(n) == [i \in 1..n |-> 0]
Junk == [i \in 1..BlockSize |-> 255]

(* Zero bytes that were never encrypted, read as a block of ciphertext. *)
Raw == [id |-> -1, prev |-> -2, plain |-> Junk]

--------------------------------------------------------------------------------
(* AES_cbc_encrypt(data, out, length, key, iv, AES_ENCRYPT): a last block that is *)
(* not full is filled with zeros.                                               *)
BlocksIn(n) == (n + BlockSize - 1) \div BlockSize
Filled(data) == data \o Zeros(BlocksIn(Len(data)) * BlockSize - Len(data))
Encrypted(data) ==
    LET full == Filled(data)
    IN [i \in 1..BlocksIn(Len(data)) |->
           [id |-> coded + i,
            prev |-> IF i = 1 THEN iv_enc ELSE coded + i - 1,
            plain |-> SubSeq(full, (i - 1) * BlockSize + 1, i * BlockSize)]]

(* ... and AES_DECRYPT. *)
Decrypted(blocks) ==
    [i \in 1..Len(blocks) * BlockSize |->
        LET k == (i - 1) \div BlockSize + 1
            behind == IF k = 1 THEN iv_dec ELSE blocks[k - 1].id
            plain == IF blocks[k].prev = behind THEN blocks[k].plain ELSE Junk
        IN plain[((i - 1) % BlockSize) + 1]]

(* Mutant: a message that fills its blocks is not padded. *)
PadWhenNeeded(data) ==
    LET padding_length == BlockSize - (Len(data) % BlockSize)
    IN IF data # <<>> /\ padding_length = BlockSize THEN data
       ELSE data \o [i \in 1..padding_length |-> padding_length]

(* pkcs7_padding: as many bytes as are missing, each telling how many. *)
pkcs7_padding(data) ==
    LET padding_length == BlockSize - (Len(data) % BlockSize)
    IN data \o [i \in 1..padding_length |-> padding_length]

(* pkcs7_unpadding *)
pkcs7_unpadding(data) == SubSeq(data, 1, Len(data) - Last(data))

(* The end of a message padded with zeros is its last byte that is none. *)
StripZeros(data) ==
    SubSeq(data, 1, SelectLastInSeq(data, LAMBDA b : b # 0))

--------------------------------------------------------------------------------
Send(mode, data, blocks, n) ==
    /\ Len(packets) + Len(deciphered) < MaxMessages
    /\ packets' = Append(packets, [mode |-> mode, sent |-> data, blocks |-> blocks])
    /\ coded' = coded + n
    /\ iv_enc' = IF n = 0 THEN iv_enc ELSE coded + n
    /\ UNCHANGED <<iv_dec, deciphered>>

aes_cbc_pad_pkcs7_en(data) ==
    LET blocks == Encrypted(pkcs7_padding(data)) IN Send("pkcs7", data, blocks, Len(blocks))

(* The buffer is one block longer than a message that fills its blocks, and     *)
(* only data_len bytes of it are encrypted.                                     *)
aes_cbc_pad_zero_en(data) ==
    LET blocks == Encrypted(data)
        len == ((Len(data) + BlockSize) \div BlockSize) * BlockSize
    IN Send("zero", data,
            blocks \o [i \in 1..(len \div BlockSize) - Len(blocks) |-> Raw], Len(blocks))

(* aes_cbc_pad_pkcs7_de and aes_cbc_pad_zero_de on the next message. *)
Receive(mode) ==
    /\ packets # <<>> /\ Head(packets).mode = mode
    /\ LET data == Decrypted(Head(packets).blocks)
       IN deciphered' = Append(deciphered, [mode |-> mode, sent |-> Head(packets).sent,
                                            read |-> IF mode = "pkcs7" THEN pkcs7_unpadding(data)
                                                     ELSE StripZeros(data)])
    /\ iv_dec' = Last(Head(packets).blocks).id
    /\ packets' = Tail(packets)
    /\ UNCHANGED <<iv_enc, coded>>

aes_cbc_pad_pkcs7_de == Receive("pkcs7")
aes_cbc_pad_zero_de == Receive("zero")

AesNext ==
    \/ \E data \in BoundedSeq(Octet, MaxLen) :
          aes_cbc_pad_pkcs7_en(data) \/ aes_cbc_pad_zero_en(data)
    \/ aes_cbc_pad_pkcs7_de
    \/ aes_cbc_pad_zero_de

AesSpec == AesInit /\ [][AesNext]_aesVars

--------------------------------------------------------------------------------
FillsBlocks(m) == m.mode = "zero" /\ Len(m.sent) % BlockSize = 0

(* PKCS#7 padding gives back every message, whatever its length and its last    *)
(* bytes, and zero padding every message but for the zeros at its end -- as     *)
(* long as no message before it, or itself, filled its blocks and was padded    *)
(* with zeros: the block that is then sent unencrypted also leaves the two ends *)
(* with different vectors.                                                      *)
ReadsBack ==
    \A i \in DOMAIN deciphered :
        (\A j \in 1..i : ~FillsBlocks(deciphered[j]))
            => deciphered[i].read =
                  IF deciphered[i].mode = "pkcs7" THEN deciphered[i].sent
                  ELSE StripZeros(deciphered[i].sent)

(* What explains it: as long as no message filled its blocks and was padded     *)
(* with zeros, each packet is chained to the one before it, and the two ends    *)
(* to the last packet that was decoded and to the last one that was coded.      *)
Block == [id : Int, prev : Int, plain : [1..BlockSize -> 0..255]]
Packet == [mode : {"pkcs7", "zero"}, sent : Seq(Octet), blocks : Seq(Block) \ {<<>>}]

AesTypeOK ==
    /\ iv_enc \in Int /\ iv_dec \in Int /\ coded \in Nat
    /\ packets \in Seq(Packet)
    /\ deciphered \in Seq([mode : {"pkcs7", "zero"}, sent : Seq(Octet), read : Seq(0..255)])

(* What of a message is encrypted, and the blocks it is cut into. *)
Padded(m) == IF m.mode = "pkcs7" THEN pkcs7_padding(m.sent) ELSE m.sent
CodedWhole(m) ==
    /\ Len(m.blocks) = BlocksIn(Len(Padded(m))) /\ Len(m.blocks) > 0
    /\ \A i \in 1..Len(m.blocks) :
          /\ m.blocks[i].plain = SubSeq(Filled(Padded(m)), (i - 1) * BlockSize + 1, i * BlockSize)
          /\ i > 1 => m.blocks[i].prev = m.blocks[i - 1].id

Clean(n) ==
    /\ \A j \in 1..Len(deciphered) : ~FillsBlocks(deciphered[j])
    /\ \A j \in 1..n : ~FillsBlocks(packets[j])
VectorBehind(n) == IF n = 0 THEN iv_dec ELSE packets[n].blocks[Len(packets[n].blocks)].id

VectorsAgree ==
    /\ \A n \in 1..Len(packets) :
          Clean(n) => CodedWhole(packets[n]) /\ packets[n].blocks[1].prev = VectorBehind(n - 1)
    /\ Clean(Len(packets)) => iv_enc = VectorBehind(Len(packets))

AesInv == AesTypeOK /\ VectorsAgree /\ ReadsBack
================================================================================
