------------------------------ MODULE VaaCodec ------------------------------
(***************************************************************************)
(* compute_secp256k1_recovery_from_vaa: decodes the VAA wire format        *)
(*   [version][magic][sig_len] {[guardian_id][signature][recovery_id]}*    *)
(*   [payload]                                                             *)
(* through a std::io::Cursor, then recovers one public key per guardian    *)
(* signature over keccak256(keccak256(payload)).  One step per cursor read *)
(* (one per loop iteration for the signature records) and one per          *)
(* recovery.  Field widths are constants so that TLC can enumerate every   *)
(* input buffer up to a length; the code's are 1, 4, 1, 1, 64, 1.          *)
(***************************************************************************)
EXTENDS Naturals, Sequences

CONSTANTS
    ByteVals,     \* byte values an input buffer may hold
    MagicLen,     \* width of the magic field (4 in the code)
    SigBytesLen,  \* width of a signature, r then s (64 in the code)
    MaxInput      \* bound: length of the input buffer

ASSUME VaaCodecAssumption ==
    /\ ByteVals \subseteq 0..255
    /\ 0 \in ByteVals
    /\ MagicLen \in Nat
    /\ SigBytesLen \in Nat \ {0}
    /\ SigBytesLen % 2 = 0
    /\ MaxInput \in Nat

VARIABLES
    bytes,        \* the input &Vec<u8>
    pos,          \* the cursor's position
    phase,        \* the statement the function is at
    version,      \* the version buffer's byte
    magic,        \* the magic buffer
    sig_len,      \* the signature count byte
    sigs,         \* Vec of (guardian_id, signature, recovery_id)
    payload,      \* the bytes read_to_end returned
    public_keys   \* Vec of (guardian_id, PublicKey)

vars == <<bytes, pos, phase, version, magic, sig_len, sigs, payload,
          public_keys>>

Phases == {"version", "magic", "siglen", "sigs", "recover", "done",
           "panicked"}

HeaderLen == 1 + MagicLen + 1
SigRecLen == 1 + SigBytesLen + 1
Zeros(n) == [i \in 1..n |-> 0]

SigRec == [guardian_id : ByteVals, signature : Seq(ByteVals),
           recovery_id : ByteVals]

-----------------------------------------------------------------------------
(* Helpers                                                                 *)

\* let _ = cursor.read(&mut buf) with buf = [0u8; n] read at position p:
\* the bytes that remain are copied, the rest of buf keeps its zeros, and
\* the short count is discarded.
ReadBuf(p, n) == [i \in 1..n |-> IF p + i <= Len(bytes) THEN bytes[p + i] ELSE 0]

\* Mutant: a cursor that does not stop at the end of the buffer.
Advance_Unclamped(p, n) == p + n

\* The cursor's position after that read.
Advance(p, n) == IF p + n <= Len(bytes) THEN p + n ELSE Len(bytes)

\* Mutant: the hash taken over the whole buffer, header included.
RecoveredKey_WholeVaa(p, s) == <<bytes, s.signature, s.recovery_id>>

\* recover(&message, &signature, &recovery_id) with message the double
\* keccak256 of the payload: the key is a function of the payload, the
\* signature and the recovery id (keccak256 taken as collision free).
RecoveredKey(p, s) == <<p, s.signature, s.recovery_id>>

\* The expects of the recovery loop: RecoveryId::parse rejects an id above
\* 3, and parse_standard and recover reject an r or s that is zero or
\* above the group order (only the all-0xFF value is above it among the
\* values a buffer of this width holds).
HalfR(s) == SubSeq(s.signature, 1, SigBytesLen \div 2)
HalfS(s) == SubSeq(s.signature, SigBytesLen \div 2 + 1, SigBytesLen)
OutOfRange(h) == h = Zeros(Len(h)) \/ \A i \in 1..Len(h) : h[i] = 255
SigRejected(s) ==
    \/ s.recovery_id > 3
    \/ OutOfRange(HalfR(s))
    \/ OutOfRange(HalfS(s))

-----------------------------------------------------------------------------

\* Any buffer the fetcher's base64 decode can hand over, up to MaxInput.
Init ==
    /\ bytes \in UNION {[1..n -> ByteVals] : n \in 0..MaxInput}
    /\ pos = 0
    /\ phase = "version"
    /\ version = 0
    /\ magic = Zeros(MagicLen)
    /\ sig_len = 0
    /\ sigs = <<>>
    /\ payload = <<>>
    /\ public_keys = <<>>

ReadVersion ==
    /\ phase = "version"
    /\ version' = ReadBuf(pos, 1)[1]
    /\ pos' = Advance(pos, 1)
    /\ phase' = "magic"
    /\ UNCHANGED <<bytes, magic, sig_len, sigs, payload, public_keys>>

ReadMagic ==
    /\ phase = "magic"
    /\ magic' = ReadBuf(pos, MagicLen)
    /\ pos' = Advance(pos, MagicLen)
    /\ phase' = "siglen"
    /\ UNCHANGED <<bytes, version, sig_len, sigs, payload, public_keys>>

\* let sig_len = u8::from_be(sig_len_bytes[0]);  (identity on one byte)
ReadSigLen ==
    /\ phase = "siglen"
    /\ sig_len' = ReadBuf(pos, 1)[1]
    /\ pos' = Advance(pos, 1)
    /\ phase' = "sigs"
    /\ UNCHANGED <<bytes, version, magic, sigs, payload, public_keys>>

\* Mutant: the recovery id read before the signature.
ReadSignature_RidFirst ==
    /\ phase = "sigs"
    /\ Len(sigs) < sig_len
    /\ LET p1 == Advance(pos, 1)
           p2 == Advance(p1, 1)
       IN /\ sigs' = Append(sigs,
                       [guardian_id |-> ReadBuf(pos, 1)[1],
                        signature   |-> ReadBuf(p2, SigBytesLen),
                        recovery_id |-> ReadBuf(p1, 1)[1]])
          /\ pos' = Advance(p2, SigBytesLen)
    /\ UNCHANGED <<bytes, phase, version, magic, sig_len, payload,
                   public_keys>>

\* One iteration of `for _i in 0..sig_len`: three reads, then a push.
ReadSignature ==
    /\ phase = "sigs"
    /\ Len(sigs) < sig_len
    /\ LET p1 == Advance(pos, 1)
           p2 == Advance(p1, SigBytesLen)
       IN /\ sigs' = Append(sigs,
                       [guardian_id |-> ReadBuf(pos, 1)[1],
                        signature   |-> ReadBuf(p1, SigBytesLen),
                        recovery_id |-> ReadBuf(p2, 1)[1]])
          /\ pos' = Advance(p2, 1)
    /\ UNCHANGED <<bytes, phase, version, magic, sig_len, payload,
                   public_keys>>

\* cursor.read_to_end(&mut payload), then the message hash.
ReadPayload ==
    /\ phase = "sigs"
    /\ Len(sigs) = sig_len
    /\ payload' = SubSeq(bytes, pos + 1, Len(bytes))
    /\ pos' = Len(bytes)
    /\ phase' = "recover"
    /\ UNCHANGED <<bytes, version, magic, sig_len, sigs, public_keys>>

\* One iteration of the recovery loop: a key is pushed, or an expect
\* panics and the calling thread unwinds.
RecoverSignature ==
    /\ phase = "recover"
    /\ Len(public_keys) < Len(sigs)
    /\ LET s == sigs[Len(public_keys) + 1]
       IN IF SigRejected(s)
          THEN /\ phase' = "panicked"
               /\ UNCHANGED public_keys
          ELSE /\ public_keys' = Append(public_keys,
                                   [guardian_id |-> s.guardian_id,
                                    key |-> RecoveredKey(payload, s)])
               /\ UNCHANGED phase
    /\ UNCHANGED <<bytes, pos, version, magic, sig_len, sigs, payload>>

\* Ok(public_keys)
ReturnKeys ==
    /\ phase = "recover"
    /\ Len(public_keys) = Len(sigs)
    /\ phase' = "done"
    /\ UNCHANGED <<bytes, pos, version, magic, sig_len, sigs, payload,
                   public_keys>>

Next ==
    \/ ReadVersion
    \/ ReadMagic
    \/ ReadSigLen
    \/ ReadSignature
    \/ ReadPayload
    \/ RecoverSignature
    \/ ReturnKeys

Spec == Init /\ [][Next]_vars

-----------------------------------------------------------------------------
(* The wire format of spec section 6, as a reference                       *)

\* The buffer a VAA serialises to.
SigRecord(r) == <<r.guardian_id>> \o r.signature \o <<r.recovery_id>>
\* The records laid end to end.  Every record is SigRecLen bytes long, so
\* byte k of the list is byte (k-1) % SigRecLen + 1 of record
\* (k-1) \div SigRecLen + 1.
SigRecords(ss) ==
    [k \in 1..Len(ss) * SigRecLen |->
        SigRecord(ss[((k - 1) \div SigRecLen) + 1])[((k - 1) % SigRecLen) + 1]]
Serialize(v, m, ss, p) ==
    <<v>> \o m \o <<Len(ss)>> \o SigRecords(ss) \o p

\* The length the header declares; a buffer shorter than it is truncated.
DeclaredLen(b) ==
    HeaderLen + (IF Len(b) >= HeaderLen THEN b[HeaderLen] ELSE 0) * SigRecLen
Complete(b) == Len(b) >= DeclaredLen(b)

\* The keys a decoder reading each field at its fixed offset would recover
\* from a complete buffer, in wire order.
WireKeys(b) ==
    LET n == b[HeaderLen]
        Off(i) == HeaderLen + (i - 1) * SigRecLen
        Rec(i) == [guardian_id |-> b[Off(i) + 1],
                   signature   |-> SubSeq(b, Off(i) + 2, Off(i) + 1 + SigBytesLen),
                   recovery_id |-> b[Off(i) + SigRecLen]]
        P == SubSeq(b, DeclaredLen(b) + 1, Len(b))
    IN [i \in 1..n |-> [guardian_id |-> Rec(i).guardian_id,
                        key |-> <<P, Rec(i).signature, Rec(i).recovery_id>>]]

-----------------------------------------------------------------------------
(* Properties                                                              *)

\* The decoder's buffers hold what the cursor reads can put there.
TypeOK ==
    /\ bytes \in Seq(ByteVals)
    /\ pos \in 0..Len(bytes)
    /\ phase \in Phases
    /\ version \in ByteVals
    /\ magic \in [1..MagicLen -> ByteVals]
    /\ sig_len \in ByteVals
    /\ sigs \in Seq(SigRec)
    /\ payload \in Seq(ByteVals)
    /\ public_keys \in Seq([guardian_id : ByteVals, key : Seq(ByteVals) \X Seq(ByteVals) \X ByteVals])

\* Round trip (spec section 8): once the cursor reads of
\* compute_secp256k1_recovery_from_vaa are done on a buffer as long as its
\* header declares, serialising the fields read gives the buffer back.
RoundTrip ==
    phase \in {"recover", "done"} /\ Complete(bytes)
        => Serialize(version, magic, sigs, payload) = bytes

\* The keys returned for a complete buffer are the ones recovered from each
\* signature record at its wire offset, over the payload only, in wire
\* order (the Vec the recovery loop pushes into).
KeysFromWire ==
    phase = "done" /\ Complete(bytes) => public_keys = WireKeys(bytes)

\* Truncation (spec sections 4.1 and 8): a buffer shorter than its header
\* declares is rejected as MalformedVaa, so decoding never gets past the
\* reads of such a buffer.
TruncatedRejected ==
    phase \in {"recover", "done"} => Complete(bytes)

\* InvalidSignature is fatal to one guardian's entry only (spec section
\* 4.1): the recovery loop never aborts the batch.
RecoveryNeverAborts ==
    phase # "panicked"

=============================================================================
