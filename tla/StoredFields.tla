---------------------------- MODULE StoredFields ----------------------------
(***************************************************************************)
(* The life of two fields that a service stores with this library: tags    *)
(* that are saved, loaded and saved again, and a text that is encrypted,   *)
(* by this library or by another program, and decrypted, perhaps after the *)
(* key was changed or the column cut off.                                  *)
(***************************************************************************)
EXTENDS Tags, AESCipher

CONSTANTS
  TagLists,   \* lists of tags that users enter
  Texts,      \* texts to encrypt
  CipherKeys, \* keys as configured, of any length
  MaxLoads    \* bound: loads of the tags

ASSUME StoredFieldsAssumption ==
  /\ BlockSize \in Nat \ {0} /\ MaxByte \in Nat /\ MaxLoads \in Nat
  /\ \A l \in TagLists : l \in Seq(Seq(Nat))
  /\ \A t \in Texts : t \in Seq(Bytes)
  /\ \A k \in CipherKeys : k \in Seq({0, 1})

VARIABLES
  tags,     \* the tags that the service holds
  saved,    \* history: the tags as they were given to the last save
  column,   \* the stored string of the tags
  loads,    \* how often they were loaded
  step,     \* "edited", "saved" or "loaded"; "off": the field is a secret
  text,     \* history: the text that was encrypted
  made,     \* history: the key it was encrypted with
  key,      \* the key that the service is configured with
  blocks,   \* the stored blocks, with the key they were made with
  writer,   \* history: "none", "library", "pkcs5" or "unpadded"
  cut,      \* where the column was cut off: "no", "between" blocks or "within" one
  got       \* what Decrypt returned, or <<>>

tagField == <<tags, saved, column, loads, step>>
secretField == <<text, made, key, blocks, writer, cut, got>>
fieldsVars == <<tagField, secretField>>

FieldsInit ==
  /\ \/ step = "edited" /\ tags \in TagLists /\ key = <<>>
     \/ step = "off" /\ tags = <<>> /\ key \in CipherKeys
  /\ saved = <<>> /\ column = <<>> /\ loads = 0
  /\ text = <<>> /\ made = <<>> /\ blocks = [key |-> <<>>, bytes |-> <<>>] /\ writer = "none" /\ cut = "no" /\ got = <<>>

----------------------------------------------------------------------------
(* Tags *)

(* The service saves what it holds, cleaned or not.                        *)
SaveTags ==
  /\ step \in {"edited", "loaded"}
  /\ \E s \in {tags, TagSliceTransform(tags)} :
       saved' = s /\ column' = TagSlice2TagString(s)
  /\ step' = "saved"
  /\ UNCHANGED <<tags, loads, secretField>>

LoadTags ==
  /\ step = "saved" /\ loads < MaxLoads
  /\ tags' = TagString2TagSlice(column)
  /\ loads' = loads + 1
  /\ step' = "loaded"
  /\ UNCHANGED <<saved, column, secretField>>

----------------------------------------------------------------------------
(* A secret *)

(* By w, as bs.                                                            *)
Write(t, w, bs) ==
  /\ step = "off" /\ writer = "none"
  /\ text' = t /\ made' = key /\ writer' = w /\ blocks' = bs
  /\ UNCHANGED <<tagField, key, cut, got>>

Encrypt(t) == Write(t, "library", encryptECB(t, key))

(* Another program that pads as PKCS #5 does or, with a text that fills    *)
(* its blocks, not at all.                                                 *)
WritePkcs5(t) ==
  LET n == BlockSize - (Len(t) % BlockSize)
  IN  Write(t, "pkcs5", Blocks(t \o [i \in 1 .. n |-> n], key))

WriteUnpadded(t) ==
  /\ Len(t) % BlockSize = 0
  /\ Write(t, "unpadded", Blocks(t, key))

ChangeKey(k) ==
  /\ step = "off" /\ writer # "none" /\ got = <<>> /\ k # key
  /\ key' = k
  /\ UNCHANGED <<tagField, text, made, blocks, writer, cut, got>>

(* The first n blocks are left, and perhaps a piece of the next.           *)
CutOff(n, where) ==
  /\ step = "off" /\ n < Len(blocks.bytes) \div BlockSize /\ cut = "no" /\ got = <<>>
  /\ blocks' = [blocks EXCEPT !.bytes = SubSeq(@, 1, n * BlockSize)]
  /\ cut' = where
  /\ UNCHANGED <<tagField, text, made, key, writer, got>>

Decrypt ==
  /\ step = "off" /\ writer # "none" /\ got = <<>>
  /\ \E r \in decryptECB(blocks, cut = "within", key) : got' = <<r>>
  /\ UNCHANGED <<tagField, text, made, key, blocks, writer, cut>>

FieldsNext ==
  \/ SaveTags
  \/ LoadTags
  \/ \E t \in Texts : Encrypt(t) \/ WritePkcs5(t) \/ WriteUnpadded(t)
  \/ \E k \in CipherKeys : ChangeKey(k)
  \/ \E n \in 0 .. Len(blocks.bytes), where \in {"between", "within"} : CutOff(n, where)
  \/ Decrypt

FieldsSpec == FieldsInit /\ [][FieldsNext]_fieldsVars

----------------------------------------------------------------------------
(* Properties *)

Plain(tag) == Comma \notin ToSet(tag) /\ Trim(tag, Quote) = tag

(* Tags without a comma, and without a quote at either end, come back as   *)
(* they were saved; others are split or shortened: nothing comes back that *)
(* is not a piece of a tag that was saved, and what comes back once would  *)
(* come back for ever.                                                     *)
TagsComeBack ==
  step = "loaded" =>
    /\ (\A i \in 1 .. Len(saved) : Plain(saved[i])) => tags = saved
    /\ \A i \in 1 .. Len(tags) : Plain(tags[i])
    /\ \A i \in 1 .. Len(tags) : \E j \in 1 .. Len(saved) : tags[i] \in SubSeqs(saved[j])

(* Keys that agree, in each of the 16 places, in the number of bits set    *)
(* there and a multiple of 16 bytes further on, up to evenness.            *)
Alike(a, b) ==
  LET ones(k, j) == Cardinality({i \in 1 .. Len(k) : (i - j) % BlockSize = 0 /\ k[i] = 1})
  IN  \A j \in 1 .. BlockSize : ones(a, j) % 2 = ones(b, j) % 2

(* A text encrypted here, whatever its length, and one that another        *)
(* program padded as PKCS #5 does comes back, but for zeros at its end,    *)
(* under every key that is alike; Decrypt panics only on blocks that were  *)
(* cut off, on another key, or on a text without padding whose last byte   *)
(* counts more bytes than there are.                                       *)
SecretComesBack ==
  \A r \in ToSet(got) :
    /\ cut = "no" /\ Alike(made, key) /\ writer \in {"library", "pkcs5"} =>
         r = [panic |-> FALSE, text |-> WithoutZeros(text)]
    /\ r.panic =>
         \/ cut # "no"
         \/ ~Alike(made, key)
         \/ (writer = "unpadded" /\ Last(text) > Len(text))
=============================================================================
