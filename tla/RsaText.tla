--------------------------------- MODULE RsaText --------------------------------
(***************************************************************************)
(* RSA in src/crypto.c: a key pair in two files, texts encrypted piece by  *)
(* piece with the key of one file and decrypted with that of the other.    *)
(*                                                                         *)
(* A key pair is a number, and a block of ciphertext the pair and the      *)
(* piece it stands for: RSA_private_decrypt of OpenSSL gives the piece     *)
(* back to the right key.  With another one it may fail, or find a padding *)
(* in what comes out and give any bytes that fit a piece.  A decryption    *)
(* goes piece by piece too, and the files may be replaced meanwhile.  All  *)
(* keys have one size.                                                     *)
(***************************************************************************)
EXTENDS Integers, Sequences, SequencesExt

CONSTANTS
    Char,       \* the characters of texts, without NUL
    KeyLen,     \* RSA_size of the keys
    Overhead,   \* what RSA_PKCS1_PADDING takes of a block, 11 in the code
    TextLen,    \* bound on the length of a text
    MaxKeys     \* bound on the pairs generated

(* What a user of the module owes it. *)
RsaAssumption ==
    /\ Char \subseteq Nat \ {0}
    /\ KeyLen \in Nat /\ Overhead \in 1..KeyLen - 1
    /\ TextLen \in Nat /\ MaxKeys \in Nat

VARIABLES
    pub, pri,   \* the pair whose key a file holds, 0 for a file that holds none
    made,       \* pairs generated so far
    ciper,      \* ciphertexts that callers hold: the last one
    de,         \* the locals of a rsa_private_de under way
    plain       \* what the last rsa_private_de returned

rsaVars == <<pub, pri, made, ciper, de, plain>>

(* `due`: the key that was read is that of the ciphertext. *)
NoCiper == [blocks |-> <<>>, size |-> 0, text |-> <<>>]
NoPlain == [ret |-> -1, text |-> <<>>, due |-> FALSE]
Idle == [key |-> 0, next |-> 0, buf |-> <<>>, out |-> 0]

RsaInit ==
    /\ pub = 0 /\ pri = 0 /\ made = 0
    /\ ciper = NoCiper
    /\ de = Idle
    /\ plain = NoPlain

--------------------------------------------------------------------------------
(* What a file holds when it was written and closed: nobody looks whether        *)
(* fclose, which writes what stdio still has of it, could write it.              *)
Closed(new) == {new, 0}

(* The ways in which generate_rsa_key_to_file leaves the two files: an open that *)
(* fails leaves a file alone, one that succeeds empties it, and writing may fail *)
(* behind it.  The private key is turned to after the public one.                *)
Outcomes(new) ==
    {[pub |-> pub, pri |-> pri],                        \* pub_file not opened
     [pub |-> 0, pri |-> pri]}                          \* PEM_write_RSAPublicKey failed
    \cup [pub : Closed(new), pri : {pri}]               \* pri_file not opened
    \cup [pub : Closed(new), pri : {0}]                 \* PEM_write_RSAPrivateKey failed
    \cup [pub : Closed(new), pri : Closed(new)]         \* returns 0

generate_rsa_key_to_file ==
    /\ made < MaxKeys
    /\ made' = made + 1
    /\ \E o \in Outcomes(made + 1) : pub' = o.pub /\ pri' = o.pri
    /\ UNCHANGED <<ciper, de, plain>>

(* The pieces of a text: round_max_len characters, the last one what is left. *)
Round == KeyLen - Overhead
Pieces(text) ==
    [i \in 1..(Len(text) + Round - 1) \div Round |->
        SubSeq(text, (i - 1) * Round + 1, IF i * Round < Len(text) THEN i * Round ELSE Len(text))]

(* The room for the ciphertext, before it is rounded up. *)
Size(text) == ((Len(text) \div Round) + (Len(text) % Round)) * KeyLen

(* rsa_public_en, with a readable pub_file: without one it returns -1. *)
rsa_public_en(text) ==
    /\ de = Idle /\ pub # 0
    /\ ciper' = [blocks |-> [i \in DOMAIN Pieces(text) |-> [key |-> pub, piece |-> Pieces(text)[i]]],
                 size |-> Size(text), text |-> text]
    /\ plain' = NoPlain
    /\ UNCHANGED <<pub, pri, made, de>>

(* The buffer with a piece written at `at` (from 0). *)
Written(buf, at, piece) ==
    [i \in DOMAIN buf |-> IF i - 1 \in at..at + Len(piece) - 1 THEN piece[i - at] ELSE buf[i]]

(* out += strlen(out): where the zeros behind `at` begin. *)
Advanced(buf, at) ==
    CHOOSE n \in at..Len(buf) : /\ \A i \in at + 1..n : buf[i] # 0
                                /\ n < Len(buf) => buf[n + 1] = 0

Return(ret, text, due) ==
    /\ de' = Idle
    /\ plain' = [ret |-> ret, text |-> text, due |-> due]
    /\ UNCHANGED <<pub, pri, made, ciper>>

(* rsa_private_de reads its key, or returns -1; its buffer is zero at first.    *)
rsa_private_de ==
    /\ ciper.blocks # <<>> /\ de = Idle
    /\ IF pri = 0 THEN Return(-1, <<>>, FALSE)
       ELSE /\ de' = [key |-> pri, next |-> 1, out |-> 0,
                      buf |-> [i \in 1..Len(ciper.blocks) * KeyLen |-> 0]]
            /\ UNCHANGED <<pub, pri, made, ciper, plain>>

(* The key that was read is that of the ciphertext's blocks. *)
Fits == de.key = ciper.blocks[1].key

(* Mutant: the next piece goes one key length on, as in the ciphertext. *)
PlacedAtKey(piece) ==
    LET buf == Written(de.buf, de.out, piece)
    IN /\ de' = [de EXCEPT !.next = @ + 1, !.buf = buf, !.out = @ + KeyLen]
       /\ UNCHANGED <<pub, pri, made, ciper, plain>>

(* A piece is written, and the next one goes where its zeros begin. *)
Placed(piece) ==
    LET buf == Written(de.buf, de.out, piece)
    IN /\ de' = [de EXCEPT !.next = @ + 1, !.buf = buf, !.out = Advanced(buf, de.out)]
       /\ UNCHANGED <<pub, pri, made, ciper, plain>>

(* One round of its loop. *)
Round_de ==
    /\ de # Idle /\ de.next <= Len(ciper.blocks)
    /\ IF ciper.blocks[de.next].key = de.key THEN Placed(ciper.blocks[de.next].piece)
       ELSE \/ Return(-1, <<>>, FALSE)
            \/ \E junk \in BoundedSeq(Char \cup {0}, Round) : Placed(junk)

(* The caller reads the result up to its first NUL.                             *)
Done_de ==
    /\ de # Idle /\ de.next > Len(ciper.blocks)
    /\ Return(0, SubSeq(de.buf, 1, Advanced(de.buf, 0)), Fits)

RsaNext ==
    \/ generate_rsa_key_to_file
    \/ \E text \in BoundedSeq(Char, TextLen) \ {<<>>} : rsa_public_en(text)
    \/ rsa_private_de
    \/ Round_de
    \/ Done_de

RsaSpec == RsaInit /\ [][RsaNext]_rsaVars

--------------------------------------------------------------------------------
(* A decryption with the private key of the pair that the text was encrypted    *)
(* with succeeds and gives the text as it was, whatever its length in pieces,    *)
(* also when the files are replaced while it goes on.  (With another key it may  *)
(* return 0, too, with some other text.)  The ciphertext keeps to its memory,    *)
(* and so do the pieces of the text, of any key, with a NUL behind them.         *)
TextReadsBack ==
    /\ plain.due => plain.ret = 0 /\ plain.text = ciper.text
    /\ Len(ciper.blocks) * KeyLen <= ciper.size
    /\ de # Idle => de.out < Len(de.buf)

(* What explains it: the blocks of a ciphertext stand for the pieces of its     *)
(* text, all under one key, and a decryption with that key has put together     *)
(* what the blocks behind it stand for.                                         *)
RsaTypeOK ==
    /\ made \in Nat /\ pub \in 0..made /\ pri \in 0..made
    /\ ciper \in [blocks : Seq([key : 1..made, piece : Seq(Char)]), size : Nat, text : Seq(Char)]
    /\ de \in [key : 0..made, next : Nat, buf : Seq(Char \cup {0}), out : Nat]
    /\ plain \in [ret : {0, -1}, text : Seq(Char), due : BOOLEAN]

CiperWhole ==
    ciper.blocks # <<>> =>
        /\ ciper.text # <<>>
        /\ Len(ciper.blocks) = Len(Pieces(ciper.text))
        /\ \A i \in 1..Len(ciper.blocks) :
              /\ ciper.blocks[i].piece = Pieces(ciper.text)[i]
              /\ ciper.blocks[i].key = ciper.blocks[1].key
        /\ ciper.size = Size(ciper.text)

(* How much of the text the first pieces have. *)
Behind(n) == IF n * Round < Len(ciper.text) THEN n * Round ELSE Len(ciper.text)

(* Of any key, nothing is behind the room of the pieces so far. *)
HalfRead ==
    de # Idle =>
        /\ ciper.blocks # <<>> /\ de.key # 0
        /\ de.next \in 1..Len(ciper.blocks) + 1
        /\ Len(de.buf) = Len(ciper.blocks) * KeyLen
        /\ de.out <= (de.next - 1) * Round
        /\ \A i \in 1..Len(de.buf) : i > (de.next - 1) * Round => de.buf[i] = 0
        /\ Fits =>
              /\ de.out = Behind(de.next - 1)
              /\ \A i \in 1..Len(de.buf) : de.buf[i] = IF i <= de.out THEN ciper.text[i] ELSE 0

RsaInv == RsaTypeOK /\ CiperWhole /\ HalfRead /\ TextReadsBack
================================================================================
