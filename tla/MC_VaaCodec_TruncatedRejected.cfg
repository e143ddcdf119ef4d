\* Decoding and recovery of every buffer up to 8 bytes: one signature
\* record with a payload of up to one byte, or a truncated second record.
CONSTANTS
    ByteVals <- MC_ByteVals
    MagicLen = 1
    SigBytesLen = 2
    MaxInput = 8
SPECIFICATION Spec
\* compute_secp256k1_recovery_from_vaa returns (or panics): its final
\* states have no successor.
CHECK_DEADLOCK FALSE
INVARIANTS
    TruncatedRejected
