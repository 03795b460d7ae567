----------------------------- MODULE BlobCodec -----------------------------
(***************************************************************************)
(* How the Linux backend frames a wrapped key in a file and reads it back  *)
(* (writeBlob, readBlob and readChunk of key_linux.go):                    *)
(*                                                                         *)
(*    magic, version | length, public blob | length, private blob          *)
(*                                                                         *)
(* A length is an unsigned word, and a blob is what the file has at an     *)
(* offset, so the bytes themselves do not matter: a file is the lengths of *)
(* the blobs it was written with, its size, and whether its bytes are      *)
(* still the written ones.  It may have been cut, as a torn write does, or *)
(* extended; in one that was corrupted any word can be anywhere.           *)
(***************************************************************************)
EXTENDS Integers

CONSTANTS
  PubLens, PrivLens,  \* the lengths that marshalled blobs have
  MagicLen, WordLen,  \* the bytes of the magic and of a length
  WordLimit,          \* the number of values of a word
  MaxExtra            \* bound on the bytes a file is extended by

ASSUME BlobCodecAssumption ==
  /\ MagicLen \in Nat /\ WordLen \in Nat \ {0}
  /\ WordLimit \in Nat \ {0} /\ MaxExtra \in Nat
  /\ PubLens \subseteq 0..(WordLimit - 1)  \* a TPM2B has at most 2^16 + 1 bytes
  /\ PrivLens \subseteq 0..(WordLimit - 1)

VARIABLES
  pubLen, privLen,  \* the lengths of the blobs the file was written with
  size,             \* the size of the file
  intact,           \* whether its bytes are the written ones
  step,             \* what readBlob reads next, or its result
  pos,              \* the bytes its bytes.Reader has consumed
  chunk             \* chunk["pub"], chunk["priv"]: the offset and the length of
                    \* what it has read, or NoChunk

file == <<pubLen, privLen, size, intact>>
vars == <<file, step, pos, chunk>>

Words   == 0..(WordLimit - 1)
Chunks  == [at : Nat, len : Words]
NoChunk == [at |-> 0, len |-> 0]

\* Where writeBlob puts the lengths and the blobs.
PubField    == MagicLen + 1
PubOffset   == PubField + WordLen
PrivField   == PubOffset + pubLen
PrivOffset  == PrivField + WordLen
WrittenSize == PrivOffset + privLen

Init ==
  /\ pubLen \in PubLens
  /\ privLen \in PrivLens
  /\ size \in 0..(WrittenSize + MaxExtra)
  /\ intact \in BOOLEAN
  /\ step = "magic"
  /\ pos = 0
  /\ chunk = [l \in {"pub", "priv"} |-> NoChunk]

Remaining == size - pos

MutWordsAtSigned(p) ==
  {w \in -(WordLimit \div 2) .. (WordLimit \div 2 - 1) :
      /\ intact /\ p = PubField  => w = pubLen
      /\ intact /\ p = PrivField => w = privLen}

\* The words that WordLen bytes at offset p can be.
WordsAt(p) ==
  {w \in Words : /\ intact /\ p = PubField  => w = pubLen
                 /\ intact /\ p = PrivField => w = privLen}

Invalid ==
  /\ step' = "invalid"
  /\ UNCHANGED <<file, pos, chunk>>

\* Every check of bytes other than a length: it fails on a corrupted file only.
Check(l, n, next) ==
  /\ step = l
  /\ \/ /\ Remaining >= n
        /\ pos' = pos + n
        /\ step' = next
        /\ UNCHANGED <<file, chunk>>
     \/ (Remaining < n \/ ~intact) /\ Invalid

ReadMagic   == Check("magic", MagicLen, "version")
ReadVersion == Check("version", 1, "pub")

MutExceedsSigned(n, left) ==
  (IF n >= WordLimit \div 2 THEN n - WordLimit ELSE n) > left

MutExceedsOffByOne(n, left) == n >= left

\* int64(n) > int64(r.Len())
Exceeds(n, left) == n > left

(***************************************************************************)
(* readChunk: a length, its check, and that many bytes.                    *)
(***************************************************************************)
ReadChunk(l, next) ==
  /\ step = l
  /\ \/ /\ Remaining >= WordLen
        /\ \E n \in WordsAt(pos) :
              \/ /\ ~Exceeds(n, Remaining - WordLen)
                 /\ pos' = pos + WordLen + n
                 /\ chunk' = [chunk EXCEPT ![l] = [at |-> pos + WordLen, len |-> n]]
                 /\ step' = next
                 /\ UNCHANGED file
              \/ Exceeds(n, Remaining - WordLen) /\ Invalid
     \/ Remaining < WordLen /\ Invalid

ReadPub  == ReadChunk("pub", "priv")
ReadPriv == ReadChunk("priv", "unmarshal")

\* tpm2.Unmarshal returns what was marshalled; of other bytes it makes what it
\* likes.
Unmarshal ==
  /\ step = "unmarshal"
  /\ step' = "ok" \/ (~intact /\ step' = "invalid")
  /\ UNCHANGED <<file, pos, chunk>>

Next == ReadMagic \/ ReadVersion \/ ReadPub \/ ReadPriv \/ Unmarshal

Spec == Init /\ [][Next]_vars

-----------------------------------------------------------------------------
(***************************************************************************)
(* Correctness                                                             *)
(***************************************************************************)

\* Every variable has its type.
TypeOK ==
  /\ pubLen \in PubLens
  /\ privLen \in PrivLens
  /\ size \in Nat
  /\ intact \in BOOLEAN
  /\ step \in {"magic", "version", "pub", "priv", "unmarshal", "ok", "invalid"}
  /\ pos \in Nat
  /\ chunk \in [{"pub", "priv"} -> Chunks]

\* "The length is bounded by the bytes actually remaining" (key_linux.go:496-498):
\* whatever lengths the file has, no buffer is made and nothing is read beyond
\* its end, and the chunks do not overlap.
ReadsStayInFile ==
  /\ pos <= size
  /\ \A l \in {"pub", "priv"} : chunk[l].at + chunk[l].len <= size
  /\ chunk["priv"] # NoChunk => chunk["pub"].at + chunk["pub"].len <= chunk["priv"].at

\* What readBlob decodes is what writeBlob wrote: a file that was not corrupted
\* is refused exactly if it was cut, at whatever byte, and otherwise gives back
\* both blobs, whatever follows them.
OnlyWholeBlobsDecode ==
  intact =>
    /\ step = "invalid" => size < WrittenSize
    /\ step = "ok" =>
         /\ size >= WrittenSize
         /\ chunk["pub"] = [at |-> PubOffset, len |-> pubLen]
         /\ chunk["priv"] = [at |-> PrivOffset, len |-> privLen]

=============================================================================
