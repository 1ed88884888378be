-------------------------------- MODULE Frames --------------------------------
(***************************************************************************)
(* The bytes of a packet (Marshal and Unmarshal, pkg/protocol/packet.go)   *)
(* and of a frame (pkg/transport/transport.go), as pure operators.  A byte *)
(* is a number below ByteBase and a length field is a big-endian number of *)
(* LengthWidth bytes.  The fields of fixed size that nothing here tells    *)
(* apart (type to nonce, and the signature) are one byte each.             *)
(***************************************************************************)
EXTENDS Integers, Sequences

CONSTANTS ByteBase,       \* 256 in the code
          LengthWidth,    \* 4 in the code
          SizeLimit,      \* 10 MB in the code, for a payload and for a frame
          CurrentVersion  \* CurrentProtocolVersion

\* ByteBase ^ k, in a form that can be reasoned about.
Power[k \in 0 .. LengthWidth] == IF k = 0 THEN 1 ELSE ByteBase * Power[k - 1]

ASSUME FramesAssumption ==
    /\ {ByteBase, LengthWidth, SizeLimit, CurrentVersion} \subseteq Nat \ {0}
    /\ CurrentVersion < ByteBase
    /\ 2 * SizeLimit < Power[LengthWidth]

Bytes == 0 .. ByteBase - 1

Packets == [version : 0 .. CurrentVersion, fields : Bytes, payload : Seq(Bytes), signature : Bytes]

Malformed == [error |-> TRUE]

\* binary.BigEndian.PutUint32 and Uint32.
PutUint(n) == [i \in 1 .. LengthWidth |-> (n \div Power[LengthWidth - i]) % ByteBase]

Uint(b) ==
    LET value[i \in 0 .. Len(b)] == IF i = 0 THEN 0 ELSE ByteBase * value[i - 1] + b[i]
    IN  value[Len(b)]

\* version, the other fixed fields, payload length, and the signature at the end.
MinHeaderSize == 3 + LengthWidth

LengthField(b) == SubSeq(b, 3, 2 + LengthWidth)

\* Marshal, of a payload within the limit.
Marshal(p) == <<p.version, p.fields>> \o PutUint(Len(p.payload)) \o p.payload \o <<p.signature>>

\* Unmarshal: too short, of a newer version, or of another length than the payload
\* length calls for.
Unmarshal(b) ==
    IF \/ Len(b) < MinHeaderSize
       \/ b[1] > CurrentVersion
       \/ Len(b) # MinHeaderSize + Uint(LengthField(b))
    THEN Malformed
    ELSE [version |-> b[1], fields |-> b[2],
          payload |-> SubSeq(b, 3 + LengthWidth, 2 + LengthWidth + Uint(LengthField(b))),
          signature |-> b[Len(b)]]
=============================================================================
