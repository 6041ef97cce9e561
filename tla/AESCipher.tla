------------------------------ MODULE AESCipher ------------------------------
(***************************************************************************)
(* crypto/aes.go: texts encrypted block by block with a key of any length. *)
(* A text is a sequence of bytes; the blocks of the cipher are kept with   *)
(* the folded key they were made with, and open with that key alone.       *)
(*                                                                         *)
(* The CBC mode is never set and is left out, as is the Base64 around the  *)
(* blocks: what decodes of a string that was cut is cut as well.           *)
(***************************************************************************)
EXTENDS Integers, Sequences, SequencesExt

CONSTANTS
  BlockSize,   \* bytes in a block, and in a key of the cipher: 16
  MaxByte      \* 255

Bytes == 0 .. MaxByte

(* XOR of two keys; of a key only single bits are told apart.              *)
Xor(a, b) == (a + b) % 2

(* The byte of the cipher's key that byte i of a configured key belongs to.*)
Place(i) == ((i - 1) % BlockSize) + 1

(* Each further piece of 16 bytes is folded onto the first.                *)
generateKey(key) ==
  LET folded[i \in 0 .. Len(key)] ==
        IF i = 0 THEN [j \in 1 .. BlockSize |-> 0]
        ELSE [folded[i - 1] EXCEPT ![Place(i)] = Xor(@, key[i])]
  IN  folded[Len(key)]

(* What is stored of plain: whole blocks, and the key they were made with. *)
Blocks(plain, key) == [key |-> generateKey(key), bytes |-> plain]

(* A bug: a text that fills its last block gets no further one.            *)
ZeroPaddedTight(text) ==
  [i \in 1 .. ((Len(text) + BlockSize - 1) \div BlockSize) * BlockSize |->
     IF i <= Len(text) THEN text[i] ELSE 0]

(* Zero bytes up to the end of a block, at least one.                      *)
ZeroPadded(text) ==
  [i \in 1 .. ((Len(text) + BlockSize) \div BlockSize) * BlockSize |->
     IF i <= Len(text) THEN text[i] ELSE 0]

encryptECB(text, key) == Blocks(ZeroPadded(text), key)

WithoutZeros(s) ==
  LET kept == {i \in 1 .. Len(s) : s[i] # 0}
  IN  IF kept = {} THEN <<>> ELSE SubSeq(s, 1, Max(kept))

(* The last byte counts the bytes to drop, be they padding or not; zeros   *)
(* go as well.  More bytes than there are: the slice panics.               *)
Unpadded(s) ==
  IF s = <<>> THEN [panic |-> FALSE, text |-> <<>>]
  ELSE IF Last(s) > Len(s) THEN [panic |-> TRUE, text |-> <<>>]
  ELSE [panic |-> FALSE, text |-> WithoutZeros(SubSeq(s, 1, Len(s) - Last(s)))]

(* What decryptECB may return for stored blocks, followed by an incomplete *)
(* one or not; with another key the blocks open to bytes that nothing is   *)
(* known of, the last one included.                                        *)
decryptECB(blocks, incomplete, key) ==
  IF incomplete THEN {[panic |-> TRUE, text |-> <<>>]}
  ELSE IF blocks.key = generateKey(key) THEN {Unpadded(blocks.bytes)}
  ELSE {Unpadded([i \in 1 .. Len(blocks.bytes) |-> b]) : b \in Bytes}
=============================================================================
