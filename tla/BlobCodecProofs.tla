-------------------------- MODULE BlobCodecProofs --------------------------
(***************************************************************************)
(* Proofs about BlobCodec, for blobs, fields and files of every length.    *)
(***************************************************************************)
EXTENDS BlobCodec, TLAPS

(***************************************************************************)
(* The inductive invariant: readBlob is always where writeBlob put what it *)
(* reads next, or, in a corrupted file, where the lengths it has read lead *)
(* to; and it has given up on an intact file only if something is missing. *)
(***************************************************************************)
Progress ==
  /\ step = "magic"   => pos = 0
  /\ step = "version" => pos = MagicLen
  /\ step = "pub"     => pos = PubField
  /\ step \in {"priv", "unmarshal", "ok"} =>
        /\ chunk["pub"].at = PubOffset
        /\ intact => chunk["pub"].len = pubLen
  /\ step = "priv"    => pos = PubOffset + chunk["pub"].len
  /\ step \in {"unmarshal", "ok"} =>
        /\ chunk["priv"].at = PubOffset + chunk["pub"].len + WordLen
        /\ intact => chunk["priv"].len = privLen

NothingYet ==
  /\ step \in {"magic", "version", "pub"} => chunk["pub"] = NoChunk
  /\ step \in {"magic", "version", "pub", "priv"} => chunk["priv"] = NoChunk

RefusedIsCut == step = "invalid" /\ intact => size < WrittenSize

BehindReader == \A l \in {"pub", "priv"} : chunk[l].at + chunk[l].len <= pos

IInv ==
  TypeOK /\ Progress /\ NothingYet /\ RefusedIsCut /\ BehindReader /\ ReadsStayInFile

-----------------------------------------------------------------------------
\* The fields have their places, in order.
LEMMA Layout ==
  ASSUME TypeOK
  PROVE  /\ MagicLen \in Nat /\ WordLen \in Nat /\ WordLen > 0
         /\ pubLen \in Nat /\ privLen \in Nat
         /\ PubField = MagicLen + 1
         /\ PubOffset = PubField + WordLen
         /\ PrivField = PubOffset + pubLen
         /\ WrittenSize = PrivField + WordLen + privLen
<1>1. pubLen \in Nat /\ privLen \in Nat
  BY BlobCodecAssumption DEF TypeOK
<1> QED
  BY <1>1, BlobCodecAssumption
  DEF PubField, PubOffset, PrivField, PrivOffset, WrittenSize

LEMMA InitIInv == Init => IInv
<1> SUFFICES ASSUME Init PROVE IInv
  OBVIOUS
<1> USE BlobCodecAssumption DEF Init, NoChunk
<1>1. pubLen \in Nat /\ privLen \in Nat
  OBVIOUS
<1>2. WrittenSize + MaxExtra \in Nat
  BY <1>1 DEF WrittenSize, PrivOffset, PrivField, PubOffset, PubField
<1>3. TypeOK
  BY <1>2 DEF TypeOK, Chunks, Words
<1>4. Progress /\ NothingYet /\ RefusedIsCut
  BY DEF Progress, NothingYet, RefusedIsCut
<1>5. BehindReader /\ ReadsStayInFile
  BY <1>3 DEF TypeOK, BehindReader, ReadsStayInFile
<1> QED
  BY <1>3, <1>4, <1>5 DEF IInv

\* An intact file that is refused before its end has been cut.
LEMMA InvalidStep ==
  ASSUME IInv, Invalid, intact => size < WrittenSize
  PROVE  IInv'
<1> USE DEF IInv, Invalid, file
<1>1. TypeOK'
  BY DEF TypeOK
<1>2. Progress' /\ NothingYet'
  BY DEF Progress, NothingYet
<1>3. RefusedIsCut'
  BY DEF RefusedIsCut, WrittenSize, PrivOffset, PrivField, PubOffset, PubField
<1>4. BehindReader' /\ ReadsStayInFile'
  BY DEF BehindReader, ReadsStayInFile
<1> QED
  BY <1>1, <1>2, <1>3, <1>4

\* A step over bytes that are no chunk.
LEMMA CheckStep ==
  ASSUME IInv, NEW l, NEW n \in Nat, NEW next, Check(l, n, next),
         \/ l = "magic" /\ n = MagicLen /\ next = "version"
         \/ l = "version" /\ n = 1 /\ next = "pub"
  PROVE  IInv'
<1> USE DEF IInv, file
<1>1. CASE /\ step = l /\ Remaining >= n
           /\ pos' = pos + n /\ step' = next /\ UNCHANGED <<file, chunk>>
  <2> USE <1>1, Layout
  <2>1. TypeOK' /\ pos' <= size
    BY DEF TypeOK, Remaining
  <2>2. Progress'
    BY BlobCodecAssumption DEF Progress, PubField, TypeOK
  <2>3. NothingYet' /\ RefusedIsCut'
    BY DEF NothingYet, RefusedIsCut
  <2>4. chunk["pub"] = NoChunk /\ chunk["priv"] = NoChunk
    BY DEF NothingYet
  <2>5. BehindReader'
    BY <2>1, <2>4 DEF BehindReader, NoChunk, TypeOK
  <2>6. ReadsStayInFile'
    BY <2>1 DEF ReadsStayInFile
  <2> QED
    BY <2>1, <2>2, <2>3, <2>5, <2>6
<1>2. CASE step = l /\ (Remaining < n \/ ~intact) /\ Invalid
  <2>1. intact => size < WrittenSize
    BY <1>2, Layout DEF Remaining, Progress, TypeOK
  <2> QED
    BY <1>2, <2>1, InvalidStep
<1> QED
  BY <1>1, <1>2 DEF Check

\* A length that readChunk accepts: what follows lies in the file.
LEMMA Accepted ==
  ASSUME TypeOK, NEW n \in Words, Remaining >= WordLen,
         ~Exceeds(n, Remaining - WordLen)
  PROVE  n \in Nat /\ pos + WordLen + n \in Nat /\ pos + WordLen + n <= size
<1>1. n \in Nat
  BY BlobCodecAssumption DEF Words
<1> QED
  BY <1>1, BlobCodecAssumption DEF TypeOK, Remaining, Exceeds

LEMMA ReadPubStep == IInv /\ ReadPub => IInv'
<1> SUFFICES ASSUME IInv, ReadPub PROVE IInv'
  OBVIOUS
<1> USE Layout DEF IInv, file
<1>1. step = "pub" /\ pos = PubField /\ chunk["priv"] = NoChunk
  BY DEF ReadPub, ReadChunk, Progress, NothingYet
<1>2. ASSUME NEW n \in WordsAt(pos), Remaining >= WordLen,
             ~Exceeds(n, Remaining - WordLen),
             pos' = pos + WordLen + n,
             chunk' = [chunk EXCEPT !["pub"] = [at |-> pos + WordLen, len |-> n]],
             step' = "priv", UNCHANGED file
      PROVE  IInv'
  <2>1. n \in Words /\ (intact => n = pubLen)
    BY <1>1, <1>2 DEF WordsAt
  <2>2. n \in Nat /\ pos' \in Nat /\ pos' <= size
    BY <1>2, <2>1, Accepted
  <2>3. /\ chunk'["pub"] = [at |-> PubOffset, len |-> n]
        /\ chunk'["priv"] = NoChunk
    BY <1>1, <1>2 DEF TypeOK
  <2>4. TypeOK'
    BY <1>1, <1>2, <2>1, <2>2 DEF TypeOK, Chunks
  <2>5. Progress' /\ NothingYet' /\ RefusedIsCut'
    BY <1>1, <1>2, <2>1, <2>2, <2>3
    DEF Progress, NothingYet, RefusedIsCut, PubOffset, PubField
  <2>6. BehindReader' /\ ReadsStayInFile'
    BY <1>1, <1>2, <2>2, <2>3 DEF BehindReader, ReadsStayInFile, NoChunk
  <2> QED
    BY <2>4, <2>5, <2>6
<1>3. ASSUME Invalid,
             \/ Remaining < WordLen
             \/ \E n \in WordsAt(pos) : Exceeds(n, Remaining - WordLen)
      PROVE  IInv'
  <2>1. intact => size < WrittenSize
    BY <1>1, <1>3 DEF WordsAt, Exceeds, Remaining, TypeOK
  <2> QED
    BY <1>3, <2>1, InvalidStep
<1> QED
  BY <1>2, <1>3 DEF ReadPub, ReadChunk

LEMMA ReadPrivStep == IInv /\ ReadPriv => IInv'
<1> SUFFICES ASSUME IInv, ReadPriv PROVE IInv'
  OBVIOUS
<1> USE Layout DEF IInv, file
<1>1. /\ step = "priv"
      /\ chunk["pub"].at = PubOffset
      /\ pos = PubOffset + chunk["pub"].len
      /\ intact => chunk["pub"].len = pubLen
  BY DEF ReadPriv, ReadChunk, Progress
<1>2. chunk["pub"].len \in Nat
  BY BlobCodecAssumption DEF TypeOK, Chunks, Words
<1>3. intact => pos = PrivField
  BY <1>1 DEF PrivField
<1>4. ASSUME NEW n \in WordsAt(pos), Remaining >= WordLen,
             ~Exceeds(n, Remaining - WordLen),
             pos' = pos + WordLen + n,
             chunk' = [chunk EXCEPT !["priv"] = [at |-> pos + WordLen, len |-> n]],
             step' = "unmarshal", UNCHANGED file
      PROVE  IInv'
  <2>1. n \in Words /\ (intact => n = privLen)
    BY <1>3, <1>4 DEF WordsAt
  <2>2. n \in Nat /\ pos' \in Nat /\ pos' <= size
    BY <1>4, <2>1, Accepted
  <2>3. /\ chunk'["pub"] = chunk["pub"]
        /\ chunk'["priv"] = [at |-> pos + WordLen, len |-> n]
    BY <1>4 DEF TypeOK
  <2>4. TypeOK'
    BY <1>4, <2>1, <2>2 DEF TypeOK, Chunks
  <2>5. Progress' /\ NothingYet' /\ RefusedIsCut'
    BY <1>1, <1>4, <2>1, <2>3
    DEF Progress, NothingYet, RefusedIsCut, PubOffset, PubField
  <2>6. BehindReader' /\ ReadsStayInFile'
    BY <1>1, <1>2, <1>4, <2>2, <2>3 DEF BehindReader, ReadsStayInFile, TypeOK
  <2> QED
    BY <2>4, <2>5, <2>6
<1>5. ASSUME Invalid,
             \/ Remaining < WordLen
             \/ \E n \in WordsAt(pos) : Exceeds(n, Remaining - WordLen)
      PROVE  IInv'
  <2>1. intact => size < WrittenSize
    BY <1>3, <1>5 DEF WordsAt, Exceeds, Remaining, TypeOK
  <2> QED
    BY <1>5, <2>1, InvalidStep
<1> QED
  BY <1>4, <1>5 DEF ReadPriv, ReadChunk

LEMMA NextIInv == IInv /\ [Next]_vars => IInv'
<1> SUFFICES ASSUME IInv, [Next]_vars PROVE IInv'
  OBVIOUS
<1>1. CASE ReadMagic
  BY <1>1, BlobCodecAssumption, CheckStep DEF ReadMagic
<1>2. CASE ReadVersion
  BY <1>2, CheckStep DEF ReadVersion
<1>3. CASE Unmarshal
  <2> USE <1>3 DEF IInv, Unmarshal, file
  <2>1. TypeOK' /\ Progress' /\ NothingYet'
    BY DEF TypeOK, Progress, NothingYet, PubOffset, PubField
  <2>2. RefusedIsCut'
    BY DEF RefusedIsCut
  <2>3. BehindReader' /\ ReadsStayInFile'
    BY DEF BehindReader, ReadsStayInFile
  <2> QED
    BY <2>1, <2>2, <2>3
<1>4. CASE UNCHANGED vars
  BY <1>4
  DEF vars, file, IInv, TypeOK, Progress, NothingYet, RefusedIsCut, BehindReader,
      ReadsStayInFile, WrittenSize, PrivOffset, PrivField, PubOffset, PubField
<1> QED
  BY <1>1, <1>2, <1>3, <1>4, ReadPubStep, ReadPrivStep DEF Next

LEMMA Inductive == Spec => []IInv
<1>1. Init => IInv
  BY InitIInv
<1>2. IInv /\ [Next]_vars => IInv'
  BY NextIInv
<1> QED
  BY <1>1, <1>2, PTL DEF Spec

-----------------------------------------------------------------------------
(***************************************************************************)
(* Theorems                                                                *)
(***************************************************************************)

\* readBlob keeps every variable of the model in its type, whatever the file is.
THEOREM TypeCorrect == Spec => []TypeOK
<1>1. IInv => TypeOK
  BY DEF IInv
<1> QED
  BY <1>1, Inductive, PTL

\* Whatever the lengths in the file say, readChunk makes no buffer and reads
\* nothing beyond its end.
THEOREM NoReadBeyondTheFile == Spec => []ReadsStayInFile
<1>1. IInv => ReadsStayInFile
  BY DEF IInv
<1> QED
  BY <1>1, Inductive, PTL

\* readBlob gives back the blobs that writeBlob wrote, refuses a file that was
\* cut at any byte, and refuses no other intact one.
THEOREM WholeBlobsDecode == Spec => []OnlyWholeBlobsDecode
<1>1. IInv => OnlyWholeBlobsDecode
  <2> SUFFICES ASSUME IInv, intact PROVE OnlyWholeBlobsDecode
    BY DEF OnlyWholeBlobsDecode
  <2> USE Layout DEF IInv
  <2>1. step = "invalid" => size < WrittenSize
    BY DEF RefusedIsCut
  <2>2. ASSUME step = "ok"
        PROVE  /\ size >= WrittenSize
               /\ chunk["pub"] = [at |-> PubOffset, len |-> pubLen]
               /\ chunk["priv"] = [at |-> PrivOffset, len |-> privLen]
    <3>1. /\ chunk["pub"].at = PubOffset /\ chunk["pub"].len = pubLen
          /\ chunk["priv"].at = PrivOffset /\ chunk["priv"].len = privLen
      BY <2>2 DEF Progress, PrivOffset, PrivField
    <3>2. size >= WrittenSize
      BY <3>1 DEF ReadsStayInFile, WrittenSize, TypeOK
    <3> QED
      BY <3>1, <3>2 DEF TypeOK, Chunks
  <2> QED
    BY <2>1, <2>2 DEF OnlyWholeBlobsDecode
<1> QED
  BY <1>1, Inductive, PTL

=============================================================================
