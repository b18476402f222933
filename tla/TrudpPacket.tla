----------------------------- MODULE TrudpPacket -----------------------------
(***************************************************************************)
(* The datagram of packet.c: a header of fixed length and a payload, of    *)
(* which only the length is kept.  The fields of the header keep the widths*)
(* they have in trudpHeader, in units of a nibble, a byte and a 32-bit word*)
(* (16, 256 and 2^32 in the code).                                         *)
(***************************************************************************)
EXTENDS Integers

CONSTANTS
    Nibble,         \* number of values of 4 bits
    Word,           \* number of values of a uint32_t
    HeaderLength    \* sizeof(trudpHeader)

Byte == Nibble * Nibble
PayloadMod == Nibble * Byte     \* payload_length has 12 bits

ASSUME PacketAssumption ==
    /\ Nibble \in Nat /\ Nibble > 5     \* holds the types and the version
    /\ Word \in Nat /\ Word > 0
    /\ HeaderLength \in Nat

TR_UDP_PROTOCOL_VERSION == 2

\* trudpPacketType
TRU_DATA == 0
TRU_ACK == 1
TRU_RESET == 2
TRU_ACK_RESET == 3
TRU_PING == 4
TRU_ACK_PING == 5

Header == [checksum : 0 .. Byte - 1, version : 0 .. Nibble - 1,
           message_type : 0 .. Nibble - 1, channel : 0 .. Nibble - 1,
           payload_length : 0 .. PayloadMod - 1,
           id : 0 .. Word - 1, timestamp : 0 .. Word - 1]

Packet == [length : Nat, header : Header]

-----------------------------------------------------------------------------
\* The sum of the bytes of a field.
ByteSum[n \in Nat] == IF n = 0 THEN 0 ELSE (n % Byte) + ByteSum[n \div Byte]

\* _trudpHeaderChecksumCalculate: the bytes after the first one, summed in a byte
Checksum(th) ==
    (th.version + Nibble * th.message_type
        + ByteSum[th.channel + Nibble * th.payload_length]
        + ByteSum[th.id] + ByteSum[th.timestamp]) % Byte

ChecksumSet(th) == [th EXCEPT !.checksum = Checksum(th)]
ChecksumCheck(th) == th.checksum = Checksum(th)

\* _trudpHeaderCreate
HeaderCreate(id, message_type, channel, payload_length, timestamp) ==
    ChecksumSet([checksum |-> 0, version |-> TR_UDP_PROTOCOL_VERSION,
                 message_type |-> message_type, channel |-> channel,
                 payload_length |-> payload_length % PayloadMod,
                 id |-> id, timestamp |-> timestamp])

GetDataLength(p) == p.header.payload_length
GetPacketLength(p) == HeaderLength + GetDataLength(p)

\* A packet with data: trudpPacketDATAcreateNew, trudpPacketPINGcreateNew
WithData(id, message_type, channel, data_length, ts) ==
    [length |-> HeaderLength + data_length,
     header |-> HeaderCreate(id, message_type, channel, data_length, ts)]

DATAcreateNew(id, channel, data_length, ts) ==
    WithData(id, TRU_DATA, channel, data_length, ts)
PINGcreateNew(id, channel, data_length, ts) ==
    WithData(id, TRU_PING, channel, data_length, ts)
RESETcreateNew(id, channel, ts) ==
    [length |-> HeaderLength,
     header |-> HeaderCreate(id, TRU_RESET, channel, 0, ts)]

\* The answers copy id, channel and timestamp of the packet they answer.
Answer(p, message_type, payload_length) ==
    [length |-> HeaderLength + payload_length,
     header |-> HeaderCreate(p.header.id, message_type, p.header.channel,
                             payload_length, p.header.timestamp)]

ACKcreateNew(p) == Answer(p, TRU_ACK, 0)
ACKtoRESETcreateNew(p) == Answer(p, TRU_ACK_RESET, 0)
ACKtoPINGcreateNew(p) == Answer(p, TRU_ACK_PING, GetDataLength(p))

\* mutants of UpdateTimestamp: the checksum is not calculated again, the time of
\* the first sending is kept
UpdateTimestampOnly(p, ts) == [p EXCEPT !.header.timestamp = ts]
KeepTimestamp(p, ts) == p

\* trudpPacketUpdateTimestamp
UpdateTimestamp(p, ts) ==
    [p EXCEPT !.header = ChecksumSet([@ EXCEPT !.timestamp = ts])]

\* trudpPacketCheck accepts the packet
Check(p) ==
    /\ p.length >= HeaderLength
    /\ p.length - HeaderLength = p.header.payload_length
    /\ ChecksumCheck(p.header)

-----------------------------------------------------------------------------
\* The header th with one of its bytes changed by d; of a word, the lowest byte.
OneByteChanged(th, d) ==
    LET Changed(b) == (b + d) % Byte
        first == Changed(th.version + Nibble * th.message_type)
        second == Changed(th.channel + Nibble * (th.payload_length % Nibble))
        low == th.payload_length % Nibble
        high == th.payload_length \div Nibble
        LowByte(w) == (w - (w % Byte)) + Changed(w % Byte)
    IN  {[th EXCEPT !.checksum = Changed(@)],
         [th EXCEPT !.version = first % Nibble, !.message_type = first \div Nibble],
         [th EXCEPT !.channel = second % Nibble,
                    !.payload_length = (Nibble * high) + (second \div Nibble)],
         [th EXCEPT !.payload_length = (Nibble * Changed(high)) + low],
         [th EXCEPT !.id = LowByte(@)],
         [th EXCEPT !.timestamp = LowByte(@)]}
=============================================================================
