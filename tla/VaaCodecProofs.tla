--------------------------- MODULE VaaCodecProofs ---------------------------
(***************************************************************************)
(* Proofs about the decoder of module VaaCodec, for every field width and  *)
(* every input bound allowed by VaaCodecAssumption.  The cursor discipline *)
(* of compute_secp256k1_recovery_from_vaa is captured by one inductive     *)
(* invariant: every field is read at its fixed wire offset, and a read     *)
(* past the end yields zeros.                                              *)
(***************************************************************************)
EXTENDS VaaCodec, SequenceTheorems, TLAPS

USE VaaCodecAssumption

\* The byte at wire position k (1-based), 0 past the end of the buffer:
\* what a read into a zeroed buffer leaves there.
Byte(k) == IF k \in 1..Len(bytes) THEN bytes[k] ELSE 0

\* The cursor's position after reading up to wire offset o.
Clamp(o) == IF o <= Len(bytes) THEN o ELSE Len(bytes)

\* The i-th signature record starts after this many bytes.
RecOff(i) == HeaderLen + (i - 1) * SigRecLen

\* The record a decoder reading at offset o produces.
RecAt(o) == [guardian_id |-> Byte(o + 1),
             signature   |-> [j \in 1..SigBytesLen |-> Byte(o + 1 + j)],
             recovery_id |-> Byte(o + SigRecLen)]

\* The entry the recovery loop pushes for a signature record.
KeyOf(s) == [guardian_id |-> s.guardian_id,
             key |-> <<payload, s.signature, s.recovery_id>>]

\* Where the cursor is at each statement.
PosAt ==
    CASE phase = "version" -> 0
      [] phase = "magic"   -> Clamp(1)
      [] phase = "siglen"  -> Clamp(1 + MagicLen)
      [] phase = "sigs"    -> Clamp(HeaderLen + Len(sigs) * SigRecLen)
      [] OTHER             -> Len(bytes)

EarlyPhases == {"version", "magic", "siglen"}
LatePhases == {"recover", "done", "panicked"}

\* The cursor is where the statement the function is at leaves it.
PosInv == pos = PosAt

\* The header fields read so far hold the bytes at their wire offsets.
FieldsInv ==
    /\ phase # "version" => version = Byte(1)
    /\ phase \notin {"version", "magic"} =>
          magic = [j \in 1..MagicLen |-> Byte(1 + j)]
    /\ phase \notin EarlyPhases => sig_len = Byte(HeaderLen)

\* The records read so far are the ones at the records' wire offsets, and
\* all sig_len of them are read once the loop is left.
SigsInv ==
    /\ phase \in EarlyPhases => sigs = <<>>
    /\ phase \notin EarlyPhases => Len(sigs) <= sig_len
    /\ phase \in LatePhases => Len(sigs) = sig_len
    /\ \A i \in 1..Len(sigs) : sigs[i] = RecAt(RecOff(i))

\* The payload is what follows the declared records.
PayloadInv ==
    phase \in LatePhases =>
        payload = SubSeq(bytes, Clamp(HeaderLen + sig_len * SigRecLen) + 1,
                         Len(bytes))

\* The keys pushed so far are those of the first records, in order.
KeysInv ==
    /\ phase \notin LatePhases => public_keys = <<>>
    /\ Len(public_keys) <= Len(sigs)
    /\ \A i \in 1..Len(public_keys) : public_keys[i] = KeyOf(sigs[i])
    /\ phase = "done" => Len(public_keys) = Len(sigs)

\* The inductive invariant.
WireInv == TypeOK /\ PosInv /\ FieldsInv /\ SigsInv /\ PayloadInv /\ KeysInv

-----------------------------------------------------------------------------
(* Lemmas on the cursor                                                    *)

\* A byte read from the buffer, or the zero left in place, is a byte value.
LEMMA ByteType ==
    ASSUME bytes \in Seq(ByteVals), NEW k \in Int
    PROVE  Byte(k) \in ByteVals
BY DEF Byte

LEMMA ClampType ==
    ASSUME bytes \in Seq(ByteVals), NEW o \in Nat
    PROVE  Clamp(o) \in 0..Len(bytes)
BY LenProperties DEF Clamp

\* A read of n bytes from a cursor that has consumed up to offset o
\* (clamped at the end) yields the wire bytes o+1..o+n, zero past the end.
LEMMA ReadAt ==
    ASSUME bytes \in Seq(ByteVals), NEW o \in Nat, NEW n \in Nat
    PROVE  ReadBuf(Clamp(o), n) = [i \in 1..n |-> Byte(o + i)]
<1>1. Len(bytes) \in Nat
  BY LenProperties
<1>. QED BY <1>1 DEF ReadBuf, Clamp, Byte

\* ... and leaves the cursor at offset o+n, clamped.
LEMMA AdvanceAt ==
    ASSUME bytes \in Seq(ByteVals), NEW o \in Nat, NEW n \in Nat
    PROVE  Advance(Clamp(o), n) = Clamp(o + n)
<1>1. Len(bytes) \in Nat
  BY LenProperties
<1>. QED BY <1>1 DEF Advance, Clamp

-----------------------------------------------------------------------------
(* The invariant                                                           *)

LEMMA WireInit == Init => WireInv
<1> SUFFICES ASSUME Init PROVE WireInv
  OBVIOUS
<1>1. bytes \in Seq(ByteVals)
  BY DEF Init
<1>2. Zeros(MagicLen) \in [1..MagicLen -> ByteVals]
  BY DEF Zeros
<1>3. TypeOK
  BY <1>1, <1>2, EmptySeq DEF Init, TypeOK, Phases
<1>4. Len(sigs) = 0 /\ Len(public_keys) = 0
  BY EmptySeq DEF Init
<1>. QED
  BY <1>3, <1>4 DEF Init, WireInv, PosInv, PosAt, FieldsInv, SigsInv,
                    PayloadInv, KeysInv, EarlyPhases, LatePhases

\* Before the record loop no record and no key exists; this frame covers
\* the parts of the invariant the header reads cannot disturb.
LEMMA HeaderFrame ==
    ASSUME sigs' = <<>>, public_keys' = <<>>, phase' \notin LatePhases,
           phase' \in EarlyPhases \/ sig_len' \in Nat
    PROVE  SigsInv' /\ PayloadInv' /\ KeysInv'
<1>1. Len(sigs') = 0 /\ Len(public_keys') = 0
  BY EmptySeq
<1>. QED BY <1>1 DEF SigsInv, PayloadInv, KeysInv, LatePhases, EarlyPhases

\* The three header reads put the version, the magic and the signature
\* count at their offsets 1, 2..1+MagicLen and HeaderLen.
LEMMA WireReadVersion ==
    ASSUME WireInv, ReadVersion PROVE WireInv'
<1>1. bytes \in Seq(ByteVals) /\ pos = 0 /\ sigs = <<>> /\ public_keys = <<>>
  BY DEF WireInv, TypeOK, PosInv, PosAt, ReadVersion, SigsInv, KeysInv,
         EarlyPhases, LatePhases
<1>2. Clamp(0) = 0
  BY <1>1, LenProperties DEF Clamp
<1>3. version' = Byte(1) /\ pos' = Clamp(1)
  BY <1>1, <1>2, ReadAt, AdvanceAt DEF ReadVersion
<1>4. version' \in ByteVals /\ pos' \in 0..Len(bytes)
  BY <1>1, <1>3, ByteType, ClampType
<1>5. TypeOK'
  BY <1>4 DEF ReadVersion, WireInv, TypeOK, Phases
<1>6. PosInv' /\ FieldsInv'
  <2>1. phase' = "magic" /\ bytes' = bytes
    BY DEF ReadVersion
  <2>2. PosInv'
    BY <1>3, <2>1 DEF PosInv, PosAt, Clamp
  <2>3. FieldsInv'
    BY <1>3, <2>1 DEF FieldsInv, Byte, EarlyPhases
  <2>. QED BY <2>2, <2>3
<1>7. SigsInv' /\ PayloadInv' /\ KeysInv'
  BY <1>1, HeaderFrame DEF ReadVersion, LatePhases, EarlyPhases
<1>. QED BY <1>5, <1>6, <1>7 DEF WireInv

LEMMA WireReadMagic ==
    ASSUME WireInv, ReadMagic PROVE WireInv'
<1>1. /\ bytes \in Seq(ByteVals) /\ pos = Clamp(1)
      /\ sigs = <<>> /\ public_keys = <<>> /\ version = Byte(1)
  BY DEF WireInv, TypeOK, PosInv, PosAt, ReadMagic, SigsInv, KeysInv,
         FieldsInv, EarlyPhases, LatePhases
<1>2. magic' = [j \in 1..MagicLen |-> Byte(1 + j)] /\ pos' = Clamp(1 + MagicLen)
  BY <1>1, ReadAt, AdvanceAt DEF ReadMagic
<1>3. magic' \in [1..MagicLen -> ByteVals] /\ pos' \in 0..Len(bytes)
  BY <1>1, <1>2, ByteType, ClampType
<1>5. TypeOK'
  BY <1>3 DEF ReadMagic, WireInv, TypeOK, Phases
<1>6. PosInv' /\ FieldsInv'
  <2>1. phase' = "siglen" /\ bytes' = bytes /\ version' = version
    BY DEF ReadMagic
  <2>2. PosInv'
    BY <1>2, <2>1 DEF PosInv, PosAt, Clamp
  <2>3. FieldsInv'
    BY <1>1, <1>2, <2>1 DEF FieldsInv, Byte, EarlyPhases
  <2>. QED BY <2>2, <2>3
<1>7. SigsInv' /\ PayloadInv' /\ KeysInv'
  BY <1>1, HeaderFrame DEF ReadMagic, LatePhases, EarlyPhases
<1>. QED BY <1>5, <1>6, <1>7 DEF WireInv

LEMMA WireReadSigLen ==
    ASSUME WireInv, ReadSigLen PROVE WireInv'
<1>1. /\ bytes \in Seq(ByteVals) /\ pos = Clamp(1 + MagicLen)
      /\ sigs = <<>> /\ public_keys = <<>>
      /\ version = Byte(1) /\ magic = [j \in 1..MagicLen |-> Byte(1 + j)]
  BY DEF WireInv, TypeOK, PosInv, PosAt, ReadSigLen, SigsInv, KeysInv,
         FieldsInv, EarlyPhases, LatePhases
<1>2. sig_len' = Byte(HeaderLen) /\ pos' = Clamp(HeaderLen)
  <2>1. 1 + MagicLen \in Nat
    OBVIOUS
  <2>2. ReadBuf(Clamp(1 + MagicLen), 1)[1] = Byte(1 + MagicLen + 1)
    BY <1>1, <2>1, ReadAt
  <2>3. Advance(Clamp(1 + MagicLen), 1) = Clamp(1 + MagicLen + 1)
    BY <1>1, <2>1, AdvanceAt
  <2>. QED BY <1>1, <2>2, <2>3 DEF ReadSigLen, HeaderLen
<1>3. sig_len' \in ByteVals /\ pos' \in 0..Len(bytes)
  BY <1>1, <1>2, ByteType, ClampType DEF HeaderLen
<1>4. sig_len' \in Nat
  BY <1>3
<1>5. TypeOK'
  BY <1>3 DEF ReadSigLen, WireInv, TypeOK, Phases
<1>6. Len(sigs') = 0
  BY <1>1, EmptySeq DEF ReadSigLen
<1>7. PosInv' /\ FieldsInv'
  <2>1. /\ phase' = "sigs" /\ bytes' = bytes /\ version' = version
        /\ magic' = magic
    BY DEF ReadSigLen
  <2>2. PosInv'
    <3>1. Len(sigs') * SigRecLen = 0
      BY <1>6 DEF SigRecLen
    <3>2. (Clamp(HeaderLen + Len(sigs) * SigRecLen))' = Clamp(HeaderLen)
      BY <2>1, <3>1 DEF Clamp, HeaderLen
    <3>. QED BY <1>2, <2>1, <3>2 DEF PosInv, PosAt
  <2>3. FieldsInv'
    BY <1>1, <1>2, <2>1 DEF FieldsInv, Byte, EarlyPhases
  <2>. QED BY <2>2, <2>3
<1>8. SigsInv' /\ PayloadInv' /\ KeysInv'
  BY <1>1, <1>4, HeaderFrame DEF ReadSigLen, LatePhases
<1>. QED BY <1>5, <1>7, <1>8 DEF WireInv


\* The buffer never changes, and with it neither do the bytes at the wire
\* offsets.
LEMMA BytesFrame ==
    ASSUME bytes' = bytes, NEW o
    PROVE  /\ RecAt(o)' = RecAt(o)
           /\ Clamp(o)' = Clamp(o)
           /\ Byte(o)' = Byte(o)
BY DEF RecAt, Clamp, Byte

\* One iteration of the record loop reads the next record at its offset
\* RecOff(Len(sigs) + 1) and moves the cursor one record width on.
LEMMA WireReadSignature ==
    ASSUME WireInv, ReadSignature PROVE WireInv'
<1>1. /\ bytes \in Seq(ByteVals)
      /\ sigs \in Seq(SigRec)
      /\ phase = "sigs"
      /\ pos = Clamp(HeaderLen + Len(sigs) * SigRecLen)
      /\ Len(sigs) < sig_len
      /\ public_keys = <<>>
      /\ \A i \in 1..Len(sigs) : sigs[i] = RecAt(RecOff(i))
  BY DEF WireInv, TypeOK, PosInv, PosAt, SigsInv, KeysInv, LatePhases,
         ReadSignature
<1>g. sig_len \in Nat
  BY DEF WireInv, TypeOK
<1>0. /\ bytes' = bytes /\ phase' = phase /\ sig_len' = sig_len
      /\ version' = version /\ magic' = magic /\ payload' = payload
      /\ public_keys' = public_keys
  BY DEF ReadSignature
<1>2. Len(sigs) \in Nat /\ HeaderLen + Len(sigs) * SigRecLen \in Nat
  BY <1>1, LenProperties DEF HeaderLen, SigRecLen
<1>a. PICK o \in Nat : o = HeaderLen + Len(sigs) * SigRecLen
  BY <1>2
<1>b. PICK p1 \in Nat : p1 = o + 1
  BY <1>a
<1>c. PICK p2 \in Nat : p2 = p1 + SigBytesLen
  BY <1>b
<1>d. PICK e \in Nat : e = p2 + 1
  BY <1>c
<1>e. e = o + SigRecLen
  BY <1>b, <1>c, <1>d DEF SigRecLen
<1>f. pos = Clamp(o) /\ bytes \in Seq(ByteVals) /\ Len(bytes) \in Nat
  BY <1>1, <1>a, LenProperties
<1>3. /\ Advance(pos, 1) = Clamp(p1)
      /\ Advance(Clamp(p1), SigBytesLen) = Clamp(p2)
      /\ Advance(Clamp(p2), 1) = Clamp(e)
  <2>0. 1 \in Nat /\ SigBytesLen \in Nat
    OBVIOUS
  <2>1. Advance(Clamp(o), 1) = Clamp(o + 1)
    BY <1>f, <2>0 DEF Advance, Clamp
  <2>2. Advance(Clamp(p1), SigBytesLen) = Clamp(p1 + SigBytesLen)
    BY <1>f, <2>0 DEF Advance, Clamp
  <2>3. Advance(Clamp(p2), 1) = Clamp(p2 + 1)
    BY <1>f, <2>0 DEF Advance, Clamp
  <2>. QED BY <1>f, <1>b, <1>c, <1>d, <2>1, <2>2, <2>3
<1>4. /\ ReadBuf(pos, 1)[1] = Byte(o + 1)
      /\ ReadBuf(Clamp(p1), SigBytesLen) = [j \in 1..SigBytesLen |-> Byte(p1 + j)]
      /\ ReadBuf(Clamp(p2), 1)[1] = Byte(e)
  <2>1. ReadBuf(Clamp(o), 1) = [i \in 1..1 |-> Byte(o + i)]
    BY <1>f DEF ReadBuf, Clamp, Byte
  <2>2. ReadBuf(Clamp(p1), SigBytesLen) = [j \in 1..SigBytesLen |-> Byte(p1 + j)]
    BY <1>f DEF ReadBuf, Clamp, Byte
  <2>3. ReadBuf(Clamp(p2), 1) = [i \in 1..1 |-> Byte(p2 + i)]
    BY <1>f DEF ReadBuf, Clamp, Byte
  <2>. QED BY <1>f, <1>d, <2>1, <2>2, <2>3
<1>5. /\ sigs' = Append(sigs,
                   [guardian_id |-> ReadBuf(pos, 1)[1],
                    signature   |-> ReadBuf(Advance(pos, 1), SigBytesLen),
                    recovery_id |-> ReadBuf(Advance(Advance(pos, 1), SigBytesLen), 1)[1]])
      /\ pos' = Advance(Advance(Advance(pos, 1), SigBytesLen), 1)
  BY Zenon DEF ReadSignature
<1>6. sigs' = Append(sigs, RecAt(o)) /\ pos' = Clamp(o + SigRecLen)
  <2>1. [j \in 1..SigBytesLen |-> Byte(p1 + j)] = [j \in 1..SigBytesLen |-> Byte(o + 1 + j)]
    BY <1>b
  <2>2. Advance(pos, 1) = Clamp(p1) /\ Advance(Advance(pos, 1), SigBytesLen) = Clamp(p2)
    BY <1>3
  <2>3. [guardian_id |-> ReadBuf(pos, 1)[1],
         signature   |-> ReadBuf(Advance(pos, 1), SigBytesLen),
         recovery_id |-> ReadBuf(Advance(Advance(pos, 1), SigBytesLen), 1)[1]]
        = RecAt(o)
    <3>1. ReadBuf(pos, 1)[1] = Byte(o + 1)
      BY <1>4
    <3>2. ReadBuf(Advance(pos, 1), SigBytesLen) = [j \in 1..SigBytesLen |-> Byte(o + 1 + j)]
      <4>1. ReadBuf(Advance(pos, 1), SigBytesLen) = ReadBuf(Clamp(p1), SigBytesLen)
        BY <2>2
      <4>. QED BY <4>1, <1>4, <2>1, Zenon
    <3>3. ReadBuf(Advance(Advance(pos, 1), SigBytesLen), 1)[1] = Byte(o + SigRecLen)
      BY <1>4, <1>e, <2>2
    <3>. QED BY <3>1, <3>2, <3>3 DEF RecAt
  <2>4. pos' = Clamp(o + SigRecLen)
    BY <1>3, <1>5, <1>e, <2>2
  <2>. QED BY <1>5, <2>3, <2>4
<1>7. RecAt(o) \in SigRec
  <2>1. \A k \in Int : Byte(k) \in ByteVals
    BY <1>1, ByteType
  <2>2. [j \in 1..SigBytesLen |-> Byte(o + 1 + j)] \in [1..SigBytesLen -> ByteVals]
    BY <2>1
  <2>3. [j \in 1..SigBytesLen |-> Byte(o + 1 + j)] \in Seq(ByteVals)
    <3>1. SigBytesLen \in Nat
      OBVIOUS
    <3>2. \A j \in 1..SigBytesLen : Byte(o + 1 + j) \in ByteVals
      BY <2>1
    <3>. QED BY <3>1, <3>2, IsASeq
  <2>4. Byte(o + 1) \in ByteVals /\ Byte(o + SigRecLen) \in ByteVals
    BY <2>1 DEF SigRecLen
  <2>. QED BY <2>3, <2>4 DEF RecAt, SigRec
<1>8. /\ sigs' \in Seq(SigRec)
      /\ Len(sigs') = Len(sigs) + 1
      /\ \A i \in 1..Len(sigs) : sigs'[i] = sigs[i]
      /\ sigs'[Len(sigs) + 1] = RecAt(o)
  BY <1>1, <1>6, <1>7, AppendProperties
<1>9. o = RecOff(Len(sigs) + 1)
  BY <1>2, <1>a DEF RecOff
<1>10. o + SigRecLen = HeaderLen + Len(sigs') * SigRecLen /\ o + SigRecLen \in Nat
  BY <1>2, <1>a, <1>8 DEF SigRecLen, HeaderLen
<1>11. TypeOK'
  <2>1. pos' \in 0..Len(bytes)
    BY <1>1, <1>6, <1>10, ClampType
  <2>. QED BY <1>0, <1>8, <2>1 DEF WireInv, TypeOK
<1>12. PosInv'
  <2>1. (Clamp(HeaderLen + Len(sigs) * SigRecLen))' = Clamp(o + SigRecLen)
    BY <1>0, <1>10, BytesFrame
  <2>. QED BY <1>0, <1>1, <1>6, <2>1 DEF PosInv, PosAt
<1>13. FieldsInv'
  <2>1. Byte(1)' = Byte(1) /\ Byte(HeaderLen)' = Byte(HeaderLen)
        /\ \A j \in 1..MagicLen : Byte(1 + j)' = Byte(1 + j)
    BY <1>0, BytesFrame
  <2>. QED BY <1>0, <2>1 DEF WireInv, FieldsInv
<1>14. SigsInv'
  <2>1. \A i \in 1..Len(sigs') : sigs'[i] = RecAt(RecOff(i))
    BY <1>1, <1>8, <1>9 DEF RecOff
  <2>2. \A i \in 1..Len(sigs') : RecAt(RecOff(i))' = RecAt(RecOff(i))
    BY <1>0, BytesFrame DEF RecOff
  <2>3. (\A i \in 1..Len(sigs) : sigs[i] = RecAt(RecOff(i)))'
    BY <2>1, <2>2
  <2>4. phase' \notin EarlyPhases /\ phase' \notin LatePhases
    BY <1>0, <1>1 DEF EarlyPhases, LatePhases
  <2>5. Len(sigs') <= sig_len'
    BY <1>0, <1>1, <1>g, <1>2, <1>8
  <2>. QED
    BY <2>3, <2>4, <2>5 DEF SigsInv
<1>15. PayloadInv' /\ KeysInv'
  BY <1>0, <1>1, <1>8, EmptySeq DEF PayloadInv, KeysInv, LatePhases
<1>. QED BY <1>11, <1>12, <1>13, <1>14, <1>15 DEF WireInv

\* read_to_end takes everything after the declared records (nothing when
\* the buffer ends before them).
LEMMA WireReadPayload ==
    ASSUME WireInv, ReadPayload PROVE WireInv'
<1>1. /\ bytes \in Seq(ByteVals)
      /\ phase = "sigs"
      /\ pos = Clamp(HeaderLen + Len(sigs) * SigRecLen)
      /\ pos \in 0..Len(bytes)
      /\ Len(sigs) = sig_len
      /\ public_keys = <<>>
      /\ sigs \in Seq(SigRec)
  BY DEF WireInv, TypeOK, PosInv, PosAt, KeysInv, LatePhases, ReadPayload
<1>0. /\ bytes' = bytes /\ version' = version /\ magic' = magic
      /\ sig_len' = sig_len /\ sigs' = sigs /\ public_keys' = public_keys
      /\ phase' = "recover" /\ pos' = Len(bytes)
      /\ payload' = SubSeq(bytes, pos + 1, Len(bytes))
  BY DEF ReadPayload
<1>2. Len(bytes) \in Nat
  BY <1>1, LenProperties
<1>3. TypeOK'
  <2>1. payload' \in Seq(ByteVals)
    <3>1. \A i \in pos + 1 .. Len(bytes) : bytes[i] \in ByteVals
      BY <1>1, <1>2, ElementOfSeq
    <3>. QED BY <1>0, <1>1, <1>2, <3>1, SubSeqProperties
  <2>. QED BY <1>0, <1>2, <2>1 DEF WireInv, TypeOK, Phases
<1>4. PosInv'
  BY <1>0 DEF PosInv, PosAt
<1>5. FieldsInv'
  <2>1. Byte(1)' = Byte(1) /\ Byte(HeaderLen)' = Byte(HeaderLen)
        /\ \A j \in 1..MagicLen : Byte(1 + j)' = Byte(1 + j)
    BY <1>0, BytesFrame
  <2>2. phase \notin {"version", "magic"} /\ phase \notin EarlyPhases
    BY <1>1 DEF EarlyPhases
  <2>. QED BY <1>0, <2>1, <2>2 DEF WireInv, FieldsInv, EarlyPhases
<1>6. SigsInv'
  <2>1. \A i \in 1..Len(sigs) : RecAt(RecOff(i))' = RecAt(RecOff(i))
    BY <1>0, BytesFrame
  <2>. QED BY <1>0, <1>1, <2>1 DEF WireInv, SigsInv, EarlyPhases, LatePhases
<1>7. PayloadInv'
  <2>1. (Clamp(HeaderLen + sig_len * SigRecLen))' = pos
    BY <1>0, <1>1, BytesFrame
  <2>. QED BY <1>0, <2>1, Zenon DEF PayloadInv
<1>8. KeysInv'
  <2>1. Len(public_keys') = 0
    BY <1>0, <1>1, EmptySeq
  <2>2. Len(sigs) \in Nat
    BY <1>1, LenProperties
  <2>. QED BY <1>0, <2>1, <2>2 DEF KeysInv
<1>. QED BY <1>3, <1>4, <1>5, <1>6, <1>7, <1>8 DEF WireInv

\* The recovery loop pushes the key of the next record, over the payload.
LEMMA WireRecoverSignature ==
    ASSUME WireInv, RecoverSignature PROVE WireInv'
<1> DEFINE s == sigs[Len(public_keys) + 1]
        PK == [guardian_id : ByteVals,
               key : Seq(ByteVals) \X Seq(ByteVals) \X ByteVals]
<1>1. /\ bytes \in Seq(ByteVals)
      /\ sigs \in Seq(SigRec)
      /\ public_keys \in Seq(PK)
      /\ payload \in Seq(ByteVals)
      /\ phase = "recover"
      /\ Len(public_keys) < Len(sigs)
      /\ \A i \in 1..Len(public_keys) : public_keys[i] = KeyOf(sigs[i])
  BY DEF WireInv, TypeOK, KeysInv, RecoverSignature
<1>0. /\ bytes' = bytes /\ pos' = pos /\ version' = version
      /\ magic' = magic /\ sig_len' = sig_len /\ sigs' = sigs
      /\ payload' = payload
      /\ \/ phase' = "panicked" /\ public_keys' = public_keys
         \/ phase' = phase /\ public_keys' = Append(public_keys, KeyOf(s))
  BY DEF RecoverSignature, RecoveredKey, KeyOf
<1>2. phase' \in LatePhases /\ phase' # "done"
  BY <1>0, <1>1 DEF LatePhases
<1>3. /\ PosInv' /\ FieldsInv' /\ SigsInv' /\ PayloadInv'
  <2>1. /\ Byte(1)' = Byte(1) /\ Byte(HeaderLen)' = Byte(HeaderLen)
        /\ \A j \in 1..MagicLen : Byte(1 + j)' = Byte(1 + j)
        /\ \A i \in 1..Len(sigs) : RecAt(RecOff(i))' = RecAt(RecOff(i))
        /\ (Clamp(HeaderLen + sig_len * SigRecLen))' =
              Clamp(HeaderLen + sig_len * SigRecLen)
    BY <1>0, BytesFrame
  <2>2. phase \notin EarlyPhases /\ phase' \notin EarlyPhases
        /\ phase' \notin {"version", "magic", "sigs"}
    BY <1>1, <1>2 DEF EarlyPhases, LatePhases
  <2>3. PosInv'
    BY <1>0, <1>1, <2>2 DEF WireInv, PosInv, PosAt
  <2>4. FieldsInv'
    BY <1>0, <1>1, <2>1, <2>2 DEF WireInv, FieldsInv
  <2>5. SigsInv'
    BY <1>0, <1>1, <1>2, <2>1, <2>2 DEF WireInv, SigsInv, LatePhases
  <2>6. PayloadInv'
    <3>1. payload = SubSeq(bytes, Clamp(HeaderLen + sig_len * SigRecLen) + 1,
                           Len(bytes))
      BY <1>1 DEF WireInv, PayloadInv, LatePhases
    <3>. QED BY <1>0, <2>1, <3>1, Zenon DEF PayloadInv
  <2>. QED BY <2>3, <2>4, <2>5, <2>6
<1>4. \A i \in 1..Len(sigs) : KeyOf(sigs[i])' = KeyOf(sigs[i])
  BY <1>0 DEF KeyOf
<1>5. Len(public_keys) \in Nat /\ Len(sigs) \in Nat
  BY <1>1, LenProperties
<1>6. CASE phase' = "panicked" /\ public_keys' = public_keys
  <2>1. TypeOK'
    BY <1>0, <1>6 DEF WireInv, TypeOK, Phases
  <2>2. KeysInv'
    BY <1>0, <1>1, <1>2, <1>4, <1>5, <1>6 DEF WireInv, KeysInv
  <2>. QED BY <1>3, <2>1, <2>2 DEF WireInv
<1>7. CASE phase' = phase /\ public_keys' = Append(public_keys, KeyOf(s))
  <2>1. s \in SigRec
    BY <1>1, <1>5, ElementOfSeq
  <2>2. KeyOf(s) \in PK
    BY <1>1, <2>1 DEF KeyOf, SigRec
  <2>3. /\ public_keys' \in Seq(PK)
        /\ Len(public_keys') = Len(public_keys) + 1
        /\ \A i \in 1..Len(public_keys) : public_keys'[i] = public_keys[i]
        /\ public_keys'[Len(public_keys) + 1] = KeyOf(s)
    BY <1>1, <1>7, <2>2, AppendProperties
  <2>4. TypeOK'
    BY <1>0, <1>7, <2>3 DEF WireInv, TypeOK
  <2>5. \A i \in 1..Len(public_keys') : public_keys'[i] = KeyOf(sigs[i])
    <3>1. SUFFICES ASSUME NEW i \in 1..Len(public_keys')
                   PROVE  public_keys'[i] = KeyOf(sigs[i])
      OBVIOUS
    <3>2. CASE i \in 1..Len(public_keys)
      BY <1>1, <2>3, <3>2
    <3>3. CASE i = Len(public_keys) + 1
      BY <2>3, <3>3
    <3>. QED BY <1>5, <2>3, <3>2, <3>3
  <2>6. KeysInv'
    BY <1>0, <1>1, <1>2, <1>4, <1>5, <2>3, <2>5 DEF KeysInv
  <2>. QED BY <1>3, <2>4, <2>6 DEF WireInv
<1>. QED BY <1>0, <1>6, <1>7

\* Ok(public_keys) once every record has its key.
LEMMA WireReturnKeys ==
    ASSUME WireInv, ReturnKeys PROVE WireInv'
<1>1. /\ phase = "recover" /\ phase' = "done"
      /\ Len(public_keys) = Len(sigs)
      /\ UNCHANGED <<bytes, pos, version, magic, sig_len, sigs, payload,
                     public_keys>>
  BY DEF ReturnKeys
<1>2. TypeOK' /\ PosInv'
  BY <1>1 DEF WireInv, TypeOK, Phases, PosInv, PosAt
<1>3. FieldsInv' /\ SigsInv' /\ PayloadInv'
  <2>1. /\ Byte(1)' = Byte(1) /\ Byte(HeaderLen)' = Byte(HeaderLen)
        /\ \A j \in 1..MagicLen : Byte(1 + j)' = Byte(1 + j)
        /\ \A i \in 1..Len(sigs) : RecAt(RecOff(i))' = RecAt(RecOff(i))
        /\ (Clamp(HeaderLen + sig_len * SigRecLen))' =
              Clamp(HeaderLen + sig_len * SigRecLen)
    BY <1>1, BytesFrame
  <2>2. /\ phase \notin EarlyPhases /\ phase' \notin EarlyPhases
        /\ phase \in LatePhases /\ phase' \in LatePhases
        /\ phase \notin {"version", "magic"} /\ phase' \notin {"version", "magic"}
    BY <1>1 DEF EarlyPhases, LatePhases
  <2>3. FieldsInv'
    BY <1>1, <2>1, <2>2 DEF WireInv, FieldsInv
  <2>4. SigsInv'
    BY <1>1, <2>1, <2>2 DEF WireInv, SigsInv
  <2>5. PayloadInv'
    BY <1>1, <2>1, <2>2, Zenon DEF WireInv, PayloadInv
  <2>. QED BY <2>3, <2>4, <2>5
<1>4. KeysInv'
  <2>1. \A i \in 1..Len(sigs) : KeyOf(sigs[i])' = KeyOf(sigs[i])
    BY <1>1 DEF KeyOf
  <2>. QED BY <1>1, <2>1 DEF WireInv, KeysInv, LatePhases
<1>. QED BY <1>2, <1>3, <1>4 DEF WireInv

\* A step in which nothing changes keeps the invariant.
LEMMA WireStutter ==
    ASSUME WireInv, UNCHANGED vars PROVE WireInv'
<1>1. UNCHANGED <<bytes, pos, phase, version, magic, sig_len, sigs, payload,
                  public_keys>>
  BY DEF vars
<1>2. TypeOK' /\ PosInv'
  BY <1>1 DEF WireInv, TypeOK, PosInv, PosAt
<1>3. /\ Byte(1)' = Byte(1) /\ Byte(HeaderLen)' = Byte(HeaderLen)
      /\ \A j \in 1..MagicLen : Byte(1 + j)' = Byte(1 + j)
      /\ \A i \in 1..Len(sigs) : RecAt(RecOff(i))' = RecAt(RecOff(i))
      /\ (Clamp(HeaderLen + sig_len * SigRecLen))' =
            Clamp(HeaderLen + sig_len * SigRecLen)
      /\ \A i \in 1..Len(sigs) : KeyOf(sigs[i])' = KeyOf(sigs[i])
  BY <1>1, BytesFrame DEF KeyOf
<1>4. FieldsInv'
  BY <1>1, <1>3 DEF WireInv, FieldsInv
<1>5. SigsInv'
  BY <1>1, <1>3 DEF WireInv, SigsInv
<1>6. PayloadInv'
  BY <1>1, <1>3, Zenon DEF WireInv, PayloadInv
<1>7. KeysInv'
  <2>1. Len(public_keys) <= Len(sigs)
    BY DEF WireInv, KeysInv
  <2>. QED BY <1>1, <1>3, <2>1 DEF WireInv, KeysInv
<1>. QED BY <1>2, <1>4, <1>5, <1>6, <1>7 DEF WireInv

\* Every statement of the decoder keeps the invariant.
LEMMA WireStep == WireInv /\ [Next]_vars => WireInv'
<1> SUFFICES ASSUME WireInv, [Next]_vars PROVE WireInv'
  OBVIOUS
<1>. QED
  BY WireReadVersion, WireReadMagic, WireReadSigLen, WireReadSignature,
     WireReadPayload, WireRecoverSignature, WireReturnKeys, WireStutter
     DEF Next

\* The decoder's state is always well typed: each buffer the cursor reads
\* of compute_secp256k1_recovery_from_vaa fills holds byte values, the
\* cursor stays inside the input, and the Vecs hold records and keys.
THEOREM TypeCorrect == Spec => []TypeOK
<1>1. WireInv => TypeOK
  BY DEF WireInv
<1>. QED BY WireInit, WireStep, <1>1, PTL DEF Spec

-----------------------------------------------------------------------------
(* The keys of a complete buffer                                           *)

\* The i-th record of n ends inside the n records.
LEMMA RecordInside ==
    ASSUME NEW n \in Nat, NEW i \in 1..n
    PROVE  /\ RecOff(i) \in Nat
           /\ RecOff(i) + SigRecLen <= HeaderLen + n * SigRecLen
<1>1. SigRecLen \in Nat
  BY DEF SigRecLen
<1>2. i * SigRecLen <= n * SigRecLen
  BY <1>1
<1>. QED BY <1>1, <1>2 DEF RecOff, HeaderLen

\* A buffer as long as its header declares holds the whole header.
LEMMA CompleteHeader ==
    ASSUME bytes \in Seq(ByteVals), Complete(bytes)
    PROVE  /\ Len(bytes) >= HeaderLen
           /\ bytes[HeaderLen] \in Nat
           /\ DeclaredLen(bytes) = HeaderLen + bytes[HeaderLen] * SigRecLen
           /\ DeclaredLen(bytes) <= Len(bytes)
<1>1. Len(bytes) \in Nat /\ HeaderLen \in Nat \ {0} /\ SigRecLen \in Nat
  BY LenProperties DEF HeaderLen, SigRecLen
<1>2. Len(bytes) >= HeaderLen
  <2>1. SUFFICES ASSUME ~(Len(bytes) >= HeaderLen) PROVE FALSE
    OBVIOUS
  <2>2. DeclaredLen(bytes) = HeaderLen + 0 * SigRecLen
    BY <2>1 DEF DeclaredLen
  <2>3. DeclaredLen(bytes) = HeaderLen
    BY <1>1, <2>2
  <2>. QED BY <1>1, <2>1, <2>3 DEF Complete
<1>3. bytes[HeaderLen] \in Nat
  <2>1. HeaderLen \in 1..Len(bytes)
    BY <1>1, <1>2
  <2>2. bytes[HeaderLen] \in ByteVals
    BY <2>1, ElementOfSeq
  <2>3. \A x \in ByteVals : x \in Nat
    OBVIOUS
  <2>. QED BY <2>2, <2>3, Zenon
<1>. QED BY <1>2, <1>3 DEF Complete, DeclaredLen

\* On a complete buffer, what the invariant says of the keys is the
\* reference decoding WireKeys: the records' offsets all lie inside the
\* buffer, so no read past the end (no zero fill) takes part.
LEMMA WireKeysCorrect ==
    ASSUME WireInv, phase = "done", Complete(bytes)
    PROVE  public_keys = WireKeys(bytes)
<1>1. /\ bytes \in Seq(ByteVals)
      /\ sigs \in Seq(SigRec)
      /\ public_keys \in Seq([guardian_id : ByteVals,
                             key : Seq(ByteVals) \X Seq(ByteVals) \X ByteVals])
      /\ sig_len = Byte(HeaderLen)
      /\ Len(sigs) = sig_len
      /\ Len(public_keys) = Len(sigs)
      /\ \A i \in 1..Len(public_keys) : public_keys[i] = KeyOf(sigs[i])
      /\ \A i \in 1..Len(sigs) : sigs[i] = RecAt(RecOff(i))
      /\ payload = SubSeq(bytes, Clamp(HeaderLen + sig_len * SigRecLen) + 1,
                          Len(bytes))
  BY DEF WireInv, TypeOK, FieldsInv, SigsInv, KeysInv, PayloadInv,
         EarlyPhases, LatePhases
<1>2. /\ Len(bytes) >= HeaderLen
      /\ bytes[HeaderLen] \in Nat
      /\ DeclaredLen(bytes) = HeaderLen + bytes[HeaderLen] * SigRecLen
      /\ DeclaredLen(bytes) <= Len(bytes)
  BY <1>1, CompleteHeader
<1>3. sig_len = bytes[HeaderLen]
  BY <1>1, <1>2 DEF Byte, HeaderLen
<1>4. PICK n \in Nat : n = sig_len
  BY <1>2, <1>3
<1>5. /\ Len(bytes) \in Nat
      /\ DeclaredLen(bytes) = HeaderLen + n * SigRecLen
      /\ payload = SubSeq(bytes, DeclaredLen(bytes) + 1, Len(bytes))
  <2>1. Len(bytes) \in Nat
    BY <1>1, LenProperties
  <2>2. Clamp(HeaderLen + sig_len * SigRecLen) = DeclaredLen(bytes)
    BY <1>2, <1>3 DEF Clamp
  <2>3. DeclaredLen(bytes) = HeaderLen + n * SigRecLen
    BY <1>2, <1>3, <1>4
  <2>4. payload = SubSeq(bytes, DeclaredLen(bytes) + 1, Len(bytes))
    BY <1>1, <2>2, Zenon
  <2>. QED BY <2>1, <2>3, <2>4
<1>6. ASSUME NEW i \in 1..n
      PROVE  public_keys[i] = WireKeys(bytes)[i]
  <2>1. PICK o \in Nat : o = RecOff(i)
    BY RecordInside
  <2>2. o + SigRecLen <= Len(bytes) /\ SigRecLen = 1 + SigBytesLen + 1
    <3>1. RecOff(i) + SigRecLen <= HeaderLen + n * SigRecLen
      BY RecordInside
    <3>2. HeaderLen + n * SigRecLen <= Len(bytes)
      BY <1>2, <1>5
    <3>3. o + SigRecLen <= Len(bytes)
      <4>1. SigRecLen \in Nat /\ HeaderLen \in Nat
        BY DEF SigRecLen, HeaderLen
      <4>2. RecOff(i) \in Nat
        BY RecordInside
      <4>3. Len(bytes) \in Nat
        BY LenProperties DEF WireInv, TypeOK
      <4>. QED BY <2>1, <3>1, <3>2, <4>1, <4>2, <4>3
    <3>. QED BY <3>3 DEF SigRecLen
  <2>3. Byte(o + 1) = bytes[o + 1] /\ Byte(o + SigRecLen) = bytes[o + SigRecLen]
    BY <1>5, <2>2 DEF Byte
  <2>4. [j \in 1..SigBytesLen |-> Byte(o + 1 + j)] =
            SubSeq(bytes, o + 2, o + 1 + SigBytesLen)
    BY <1>5, <2>2 DEF Byte
  <2>5. public_keys[i] =
            [guardian_id |-> bytes[o + 1],
             key |-> <<payload, SubSeq(bytes, o + 2, o + 1 + SigBytesLen),
                       bytes[o + SigRecLen]>>]
    <3>1. sigs[i] = RecAt(o) /\ public_keys[i] = KeyOf(sigs[i])
      BY <1>1, <1>4, <2>1
    <3>. QED BY <2>3, <2>4, <3>1 DEF KeyOf, RecAt
  <2>6. WireKeys(bytes)[i] =
            [guardian_id |-> bytes[o + 1],
             key |-> <<SubSeq(bytes, DeclaredLen(bytes) + 1, Len(bytes)),
                       SubSeq(bytes, o + 2, o + 1 + SigBytesLen),
                       bytes[o + SigRecLen]>>]
    <3>1. i \in 1..bytes[HeaderLen] /\ o = HeaderLen + (i - 1) * SigRecLen
      BY <1>3, <1>4, <2>1 DEF RecOff
    <3>2. o + 2 = o + 1 + 1
      OBVIOUS
    <3>. QED BY <3>1 DEF WireKeys
  <2>. QED BY <1>5, <2>5, <2>6
<1>7. /\ public_keys = [i \in 1..n |-> public_keys[i]]
      /\ WireKeys(bytes) = [i \in 1..n |-> WireKeys(bytes)[i]]
  <2>1. DOMAIN public_keys = 1..n
    BY <1>1, <1>4, LenProperties
  <2>2. public_keys = [i \in 1..n |-> public_keys[i]]
    BY <1>1, <2>1
  <2>3. WireKeys(bytes) = [i \in 1..n |-> WireKeys(bytes)[i]]
    BY <1>3, <1>4 DEF WireKeys
  <2>. QED BY <2>2, <2>3
<1>. QED BY <1>6, <1>7

\* For every field width and every input length: the keys
\* compute_secp256k1_recovery_from_vaa returns for a buffer as long as its
\* header declares are those of its signature records read at their wire
\* offsets, recovered over the payload alone, in wire order.
THEOREM KeysFromWireHolds == Spec => []KeysFromWire
<1>1. WireInv => KeysFromWire
  BY WireKeysCorrect DEF KeysFromWire
<1>. QED BY WireInit, WireStep, <1>1, PTL DEF Spec

-----------------------------------------------------------------------------
(* Round trip                                                              *)

\* Integer division of a natural number by a positive width.
LEMMA DivMod ==
    ASSUME NEW a \in Nat, NEW r \in Nat \ {0}
    PROVE  /\ a \div r \in Nat
           /\ a % r \in 0..r - 1
           /\ a = (a \div r) * r + (a % r)
OBVIOUS

\* An offset below n records lies in one of the n records.
LEMMA DivBound ==
    ASSUME NEW a \in Nat, NEW r \in Nat \ {0}, NEW n \in Nat, a < n * r
    PROVE  a \div r < n
<1>1. (a \div r) * r <= a /\ a \div r \in Nat
  BY DivMod
<1>2. SUFFICES ASSUME a \div r >= n PROVE FALSE
  OBVIOUS
<1>3. n * r <= (a \div r) * r
  BY <1>1, <1>2
<1>. QED BY <1>1, <1>3

\* Inside the buffer, Byte is the buffer's byte.
LEMMA ByteIn ==
    ASSUME bytes \in Seq(ByteVals), NEW k \in 1..Len(bytes)
    PROVE  Byte(k) = bytes[k]
BY DEF Byte

\* The record read at offset o serialises back to the SigRecLen bytes
\* after o.
LEMMA RecordBytes ==
    ASSUME bytes \in Seq(ByteVals), NEW o \in Nat
    PROVE  SigRecord(RecAt(o)) = [j \in 1..SigRecLen |-> Byte(o + j)]
<1> DEFINE g == <<Byte(o + 1)>>
           sg == [j \in 1..SigBytesLen |-> Byte(o + 1 + j)]
           rd == <<Byte(o + SigRecLen)>>
           want == [j \in 1..SigRecLen |-> Byte(o + j)]
<1>1. \A k \in Int : Byte(k) \in ByteVals
  BY ByteType
<1>2. SigRecLen \in Nat /\ SigRecLen = SigBytesLen + 2 /\ SigBytesLen \in Nat
  BY DEF SigRecLen
<1>3. g \in Seq(ByteVals) /\ Len(g) = 1 /\ rd \in Seq(ByteVals) /\ Len(rd) = 1
  BY <1>1, <1>2
<1>4. sg \in Seq(ByteVals) /\ Len(sg) = SigBytesLen
  <2>1. \A j \in 1..SigBytesLen : Byte(o + 1 + j) \in ByteVals
    BY <1>1
  <2>. QED BY <1>2, <2>1, IsASeq
<1>5. want \in Seq(ByteVals) /\ Len(want) = SigRecLen
  <2>1. \A j \in 1..SigRecLen : Byte(o + j) \in ByteVals
    BY <1>1
  <2>. QED BY <1>2, <2>1, IsASeq
<1>6. SigRecord(RecAt(o)) = (g \o sg) \o rd
  BY DEF SigRecord, RecAt
<1>7. /\ g \o sg \in Seq(ByteVals)
      /\ Len(g \o sg) = 1 + SigBytesLen
      /\ \A i \in 1..1 + SigBytesLen : (g \o sg)[i] = Byte(o + i)
  <2>1. \A i \in 1..1 + SigBytesLen :
           (g \o sg)[i] = IF i <= 1 THEN g[i] ELSE sg[i - 1]
    BY <1>3, <1>4, ConcatProperties
  <2>. QED BY <1>3, <1>4, <2>1, ConcatProperties
<1>8. /\ (g \o sg) \o rd \in Seq(ByteVals)
      /\ Len((g \o sg) \o rd) = SigRecLen
      /\ \A i \in 1..SigRecLen : ((g \o sg) \o rd)[i] = Byte(o + i)
  <2>1. \A i \in 1..(1 + SigBytesLen) + 1 :
           ((g \o sg) \o rd)[i] = IF i <= 1 + SigBytesLen THEN (g \o sg)[i]
                                  ELSE rd[i - (1 + SigBytesLen)]
    BY <1>3, <1>7, ConcatProperties
  <2>2. (g \o sg) \o rd \in Seq(ByteVals) /\ Len((g \o sg) \o rd) = SigRecLen
    BY <1>2, <1>3, <1>7, ConcatProperties
  <2>3. ASSUME NEW i \in 1..SigRecLen PROVE ((g \o sg) \o rd)[i] = Byte(o + i)
    <3>1. CASE i <= 1 + SigBytesLen
      BY <1>2, <1>7, <2>1, <3>1
    <3>2. CASE i > 1 + SigBytesLen
      <4>1. i = SigRecLen /\ i - (1 + SigBytesLen) = 1
        BY <1>2, <3>2
      <4>2. rd[1] = Byte(o + SigRecLen)
        OBVIOUS
      <4>3. i \in 1..(1 + SigBytesLen) + 1 /\ ~(i <= 1 + SigBytesLen)
        BY <1>2, <3>2
      <4>4. ((g \o sg) \o rd)[i] = rd[i - (1 + SigBytesLen)]
        BY <2>1, <4>3
      <4>5. Byte(o + i) = Byte(o + SigRecLen)
        BY <4>1
      <4>. QED BY <4>1, <4>2, <4>4, <4>5
    <3>. QED BY <1>2, <3>1, <3>2
  <2>. QED BY <2>2, <2>3
<1>. QED BY <1>5, <1>6, <1>8, SeqEqual

\* The records read at their offsets serialise back to the bytes that
\* follow the header.
LEMMA RecordsBytes ==
    ASSUME bytes \in Seq(ByteVals), NEW n \in Nat, Len(sigs) = n,
           \A i \in 1..n : sigs[i] = RecAt(RecOff(i))
    PROVE  SigRecords(sigs) = [k \in 1..n * SigRecLen |-> Byte(HeaderLen + k)]
<1>1. SigRecLen \in Nat \ {0} /\ HeaderLen \in Nat
  BY DEF SigRecLen, HeaderLen
<1>2. ASSUME NEW k \in 1..n * SigRecLen
      PROVE  SigRecord(sigs[((k - 1) \div SigRecLen) + 1])[((k - 1) % SigRecLen) + 1]
               = Byte(HeaderLen + k)
  <2>1. PICK a \in Nat : a = k - 1
    OBVIOUS
  <2>2. /\ a \div SigRecLen \in Nat
        /\ a % SigRecLen \in 0..SigRecLen - 1
        /\ a = (a \div SigRecLen) * SigRecLen + (a % SigRecLen)
    BY <1>1
  <2>3. a \div SigRecLen < n
    BY <1>1, <2>1, DivBound
  <2>4. PICK q \in Nat : q = a \div SigRecLen
    BY <2>2
  <2>5. PICK r \in 0..SigRecLen - 1 : r = a % SigRecLen
    BY <2>2
  <2>6. q + 1 \in 1..n /\ RecOff(q + 1) = HeaderLen + q * SigRecLen
        /\ HeaderLen + q * SigRecLen \in Nat
    BY <1>1, <2>3, <2>4 DEF RecOff
  <2>7. SigRecord(sigs[q + 1]) =
            [j \in 1..SigRecLen |-> Byte(HeaderLen + q * SigRecLen + j)]
    <3>1. PICK o \in Nat : o = HeaderLen + q * SigRecLen
      BY <2>6
    <3>2. sigs[q + 1] = RecAt(o)
      BY <2>6, <3>1
    <3>3. SigRecord(RecAt(o)) = [j \in 1..SigRecLen |-> Byte(o + j)]
      BY RecordBytes
    <3>. QED BY <3>1, <3>2, <3>3
  <2>8. HeaderLen + q * SigRecLen + (r + 1) = HeaderLen + k
    <3>1. PICK m \in Nat : m = q * SigRecLen
      BY <1>1
    <3>2. a = m + r
      BY <2>2, <2>4, <2>5, <3>1
    <3>. QED BY <1>1, <2>1, <3>1, <3>2
  <2>9. SigRecord(sigs[q + 1])[r + 1] = Byte(HeaderLen + k)
    BY <1>1, <2>5, <2>7, <2>8
  <2>10. ((k - 1) \div SigRecLen) + 1 = q + 1 /\ ((k - 1) % SigRecLen) + 1 = r + 1
    BY <2>1, <2>4, <2>5
  <2>. QED BY <2>9, <2>10, Zenon
<1>. QED BY <1>2 DEF SigRecords

\* A prefix of the buffer followed by the bytes after it is a longer prefix.
LEMMA PrefixExtend ==
    ASSUME bytes \in Seq(ByteVals), NEW k \in Nat, NEW n \in Nat,
           k <= n, n <= Len(bytes)
    PROVE  SubSeq(bytes, 1, k) \o SubSeq(bytes, k + 1, n) = SubSeq(bytes, 1, n)
BY ConcatAdjacentSubSeq

\* On a complete buffer, the fields the decoder read, written back in wire
\* order, are the buffer: the five fields are the five adjacent slices of it.
LEMMA WireRoundTrip ==
    ASSUME WireInv, phase \in {"recover", "done"}, Complete(bytes)
    PROVE  Serialize(version, magic, sigs, payload) = bytes
<1>1. /\ bytes \in Seq(ByteVals)
      /\ sigs \in Seq(SigRec)
      /\ version = Byte(1)
      /\ magic = [j \in 1..MagicLen |-> Byte(1 + j)]
      /\ sig_len = Byte(HeaderLen)
      /\ Len(sigs) = sig_len
      /\ \A i \in 1..Len(sigs) : sigs[i] = RecAt(RecOff(i))
      /\ payload = SubSeq(bytes, Clamp(HeaderLen + sig_len * SigRecLen) + 1,
                          Len(bytes))
  BY DEF WireInv, TypeOK, FieldsInv, SigsInv, PayloadInv,
         EarlyPhases, LatePhases
<1>2. /\ Len(bytes) >= HeaderLen
      /\ bytes[HeaderLen] \in Nat
      /\ DeclaredLen(bytes) = HeaderLen + bytes[HeaderLen] * SigRecLen
      /\ DeclaredLen(bytes) <= Len(bytes)
  BY <1>1, CompleteHeader
<1>3. /\ HeaderLen = MagicLen + 2 /\ MagicLen \in Nat
      /\ SigRecLen \in Nat \ {0} /\ Len(bytes) \in Nat
  BY <1>1, LenProperties DEF HeaderLen, SigRecLen
<1>4. sig_len = bytes[HeaderLen]
  BY <1>1, <1>2, <1>3 DEF Byte
<1>5. PICK n \in Nat : n = sig_len
  BY <1>2, <1>4
<1>6. PICK d \in Nat : d = HeaderLen + n * SigRecLen
  BY <1>3
<1>7. d <= Len(bytes) /\ HeaderLen <= d
  BY <1>2, <1>3, <1>4, <1>5, <1>6
<1>8. payload = SubSeq(bytes, d + 1, Len(bytes))
  <2>1. Clamp(HeaderLen + sig_len * SigRecLen) = d
    BY <1>5, <1>6, <1>7 DEF Clamp
  <2>. QED BY <1>1, <2>1, Zenon
<1>9. SigRecords(sigs) = SubSeq(bytes, HeaderLen + 1, d)
  <2>1. SigRecords(sigs) = [k \in 1..n * SigRecLen |-> Byte(HeaderLen + k)]
    BY <1>1, <1>5, RecordsBytes
  <2>. QED BY <2>1, <1>3, <1>6, <1>7 DEF Byte
<1>10. /\ <<version>> = SubSeq(bytes, 1, 1)
       /\ magic = SubSeq(bytes, 2, 1 + MagicLen)
       /\ <<Len(sigs)>> = SubSeq(bytes, HeaderLen, HeaderLen)
  BY <1>1, <1>2, <1>3, <1>4 DEF Byte
<1>11. PICK m \in Nat : m = 1 + MagicLen
  BY <1>3
<1>12. PICK h \in Nat : h = HeaderLen
  BY <1>3
<1>13. PICK l \in Nat : l = Len(bytes)
  BY <1>3
<1>14. 1 <= m /\ m <= h /\ h <= d /\ d <= l /\ h = m + 1
  BY <1>3, <1>7, <1>11, <1>12, <1>13
<1>15. SubSeq(bytes, 1, 1) \o SubSeq(bytes, 1 + 1, m) = SubSeq(bytes, 1, m)
  BY <1>1, <1>14, PrefixExtend
<1>16. SubSeq(bytes, 1, m) \o SubSeq(bytes, m + 1, h) = SubSeq(bytes, 1, h)
  BY <1>1, <1>14, PrefixExtend
<1>17. SubSeq(bytes, 1, h) \o SubSeq(bytes, h + 1, d) = SubSeq(bytes, 1, d)
  BY <1>1, <1>14, PrefixExtend
<1>18. SubSeq(bytes, 1, d) \o SubSeq(bytes, d + 1, l) = SubSeq(bytes, 1, l)
  <2>0. bytes \in Seq(ByteVals) /\ Len(bytes) \in Nat /\ d <= Len(bytes)
    BY <1>1, <1>3, <1>7
  <2>1. SubSeq(bytes, 1, d) \o SubSeq(bytes, d + 1, Len(bytes))
          = SubSeq(bytes, 1, Len(bytes))
    <3>1. 1 \in 1..Len(bytes) + 1 /\ d \in 1 - 1..Len(bytes)
          /\ Len(bytes) \in d..Len(bytes)
      BY <2>0
    <3>. QED BY <2>0, <3>1, ConcatAdjacentSubSeq, Zenon
  <2>. QED BY <1>13, <2>1, Zenon
<1>19. SubSeq(bytes, 1, l) = bytes
  BY <1>1, <1>13, SubSeqFull
<1>20. /\ <<version>> = SubSeq(bytes, 1, 1)
       /\ magic = SubSeq(bytes, 1 + 1, m)
       /\ <<Len(sigs)>> = SubSeq(bytes, m + 1, h)
       /\ SigRecords(sigs) = SubSeq(bytes, h + 1, d)
       /\ payload = SubSeq(bytes, d + 1, l)
  BY <1>8, <1>9, <1>10, <1>11, <1>12, <1>13, <1>14
<1>. QED BY <1>15, <1>16, <1>17, <1>18, <1>19, <1>20, Zenon DEF Serialize

\* For every field width and every input length: the version, magic,
\* records and payload compute_secp256k1_recovery_from_vaa reads from a
\* buffer as long as its header declares, laid back end to end in wire
\* order, are that buffer, so no byte is skipped, read twice or misplaced.
THEOREM RoundTripHolds == Spec => []RoundTrip
<1>1. WireInv => RoundTrip
  BY WireRoundTrip DEF RoundTrip
<1>. QED BY WireInit, WireStep, <1>1, PTL DEF Spec

=============================================================================
