------------------------------- MODULE Codec -------------------------------
(***************************************************************************)
(* The packet codec of AppPacket (AppPacket.cpp): the TX packet's          *)
(* setUniqueId(), setDataPointer() and encode(), and decode() on the RX    *)
(* packet of the peer, over a channel that may flip one bit of a frame.    *)
(* Frames are sequences of bytes: the header is unique_id (4 bytes),       *)
(* lifesign (2) and data_length (2), little-endian without padding, then   *)
(* the payload, then the CRC-32 of header and payload (4 bytes).           *)
(*                                                                         *)
(* decode() runs updateReceivedLifesign() between the length checks and    *)
(* the CRC check; LinkHealth models that update, and here it is the store *)
(* of the received lifesign.  m_crc32 is not kept: encode() and decode()  *)
(* store the footer's value in it and only getCrc32(), which no caller    *)
(* uses, reads it.  The RX payload view is the bytes of the datagram; its *)
(* lifetime beyond the receive buffer is not modelled.                     *)
(***************************************************************************)
EXTENDS Crc32, FiniteSets

CONSTANTS
  MaxDataSize,   \* APP_PACKET_MAX_DATA_SIZE
  LifesignWrap,  \* 2^16: the range of the uint16 lifesign
  Ids,           \* unique ids the sender sets
  Payloads,      \* payload views the sender sets (sequences of bytes)
  BufferSizes,   \* output regions encode() is given
  NoBuffer,      \* a null buffer pointer
  NoData,        \* a null data pointer
  FlipBytes,     \* the byte positions the network may corrupt (model bound)
  FlipBits       \* the bit positions it may flip in them (model bound)

ASSUME MaxDataSizeAssumption == MaxDataSize \in Nat
ASSUME LifesignWrapAssumption == LifesignWrap \in Nat \ {0}
ASSUME IdsAssumption == Ids \subseteq Nat
ASSUME PayloadsAssumption == Payloads \subseteq Seq(Bytes)
ASSUME BufferSizesAssumption == BufferSizes \subseteq Nat
ASSUME FlipBytesAssumption == FlipBytes \subseteq Nat \ {0}
ASSUME FlipBitsAssumption == FlipBits \subseteq 0 .. 7

HeaderSize == 8

FooterSize == 4

Errors == {"None", "InvalidDataPointer", "DataTooLarge", "BufferTooSmall",
           "InvalidPacket", "CrcMismatch"}

\* The n bytes of the little-endian representation of x.
LittleEndian(x, n) == [k \in 1 .. n |-> (x \div 2^(8 * (k - 1))) % 256]

\* The value of the little-endian bytes s.
FromLittleEndian(s) ==
  LET v[k \in 0 .. Len(s)] == IF k = 0 THEN 0 ELSE v[k - 1] + s[k] * 2^(8 * (k - 1))
  IN  v[Len(s)]

\* The four bytes of a CRC word, least significant first.
WordBytes(w) == <<w.lo % 256, w.lo \div 256, w.hi % 256, w.hi \div 256>>

\* The CRC word stored in four bytes, least significant first.
BytesWord(s) == WordOf(s[3] + 256 * s[4], s[1] + 256 * s[2])

\* Datagrams the network may deliver that this sender never builds: one
\* shorter than header and footer, and a well-formed frame of a sender
\* whose maximum payload is larger.
ForeignDatagrams ==
  { [k \in 1 .. HeaderSize |-> 0],
    LittleEndian(0, 4) \o LittleEndian(0, 2) \o LittleEndian(MaxDataSize + 1, 2)
      \o [k \in 1 .. MaxDataSize + 1 + FooterSize |-> 0] }

VARIABLES
  txId,        \* m_unique_id of the TX packet
  txLifesign,  \* m_lifesign
  txData,      \* the payload view m_data_ptr, m_data_length (<<>> when null)
  txError,     \* m_error
  wire,        \* the datagram in flight (<<>> when none)
  sent,        \* history: the fields the datagram was encoded from
  flipped,     \* history: the network flipped a bit of it
  rxId,        \* m_unique_id of the RX packet, as its four bytes
  rxData,      \* its m_data_ptr, m_data_length, as the bytes viewed
  rxLifesign,  \* its m_rx_lifesign
  rxError,     \* its m_error
  rxResult,    \* the value the last decode() returned
  rxSource     \* history: sent and flipped as the last decode() found them

txVars == <<txId, txLifesign, txData, txError>>
rxVars == <<rxId, rxData, rxLifesign, rxError, rxResult, rxSource>>
vars == <<txVars, wire, sent, flipped, rxVars>>

\* The history of a datagram this sender did not encode.
NotEncoded == [encoded |-> FALSE, id |-> 0, ls |-> 0, data |-> <<>>]

-----------------------------------------------------------------------------
(* The constructors of both packets; nothing is in flight.                 *)
Init ==
  /\ txId = 0
  /\ txLifesign = 0
  /\ txData = <<>>
  /\ txError = "None"
  /\ wire = <<>>
  /\ sent = NotEncoded
  /\ flipped = FALSE
  /\ rxId = <<0, 0, 0, 0>>
  /\ rxData = <<>>
  /\ rxLifesign = 0
  /\ rxError = "None"
  /\ rxResult = FALSE
  /\ rxSource = [sent |-> NotEncoded, flipped |-> FALSE]

\* setUniqueId(id)
SetUniqueId(id) ==
  /\ txId' = id
  /\ UNCHANGED <<txLifesign, txData, txError, wire, sent, flipped, rxVars>>

\* setDataPointer(data, length): a null pointer or a payload above the
\* maximum leaves a null view and an error; otherwise the view is set.
SetDataPointer(d) ==
  /\ \/ /\ d = NoData
        /\ txError' = "InvalidDataPointer"
        /\ txData' = <<>>
     \/ /\ d /= NoData
        /\ Len(d) > MaxDataSize
        /\ txError' = "DataTooLarge"
        /\ txData' = <<>>
     \/ /\ d /= NoData
        /\ Len(d) <= MaxDataSize
        /\ txError' = "None"
        /\ txData' = d
  /\ UNCHANGED <<txId, txLifesign, wire, sent, flipped, rxVars>>

\* The header bytes encode() writes with memmove() of AppPacketHeader.
Header(id, ls, len) ==
  LittleEndian(id, 4) \o LittleEndian(ls, 2) \o LittleEndian(len, 2)

\* A plausible bug: the footer holds the CRC of the header only.
FrameHeaderCrc(id, ls, data) ==
  Header(id, ls, Len(data)) \o data \o WordBytes(CalculateCrc32(Header(id, ls, Len(data))))

\* The frame: header, payload, and the CRC of both as footer.
Frame(id, ls, data) ==
  LET body == Header(id, ls, Len(data)) \o data
  IN  body \o WordBytes(CalculateCrc32(body))

\* A plausible bug: the lifesign held wider than 16 bits.
NextLifesignNoWrap(ls) == ls + 1

\* m_lifesign++ on a uint16_t.
NextLifesign(ls) == (ls + 1) % LifesignWrap

\* encode(buffer, buffer_size) that succeeds: the frame is written and
\* sent, m_crc32 keeps its CRC, and the lifesign advances.  A datagram
\* still in flight is overwritten: the socket send buffer is not modelled.
EncodeOk(size) ==
  /\ size /= NoBuffer
  /\ size >= HeaderSize + Len(txData) + FooterSize
  /\ wire' = Frame(txId, txLifesign, txData)
  /\ txError' = "None"
  /\ txLifesign' = NextLifesign(txLifesign)
  /\ sent' = [encoded |-> TRUE, id |-> txId, ls |-> txLifesign, data |-> txData]
  /\ flipped' = FALSE
  /\ UNCHANGED <<txId, txData, rxVars>>

\* encode() refused: a null buffer or one shorter than the frame.  It
\* returns 0 and nothing is sent.
EncodeFail(size) ==
  /\ \/ /\ size = NoBuffer
        /\ txError' = "InvalidDataPointer"
     \/ /\ size /= NoBuffer
        /\ size < HeaderSize + Len(txData) + FooterSize
        /\ txError' = "BufferTooSmall"
  /\ UNCHANGED <<txId, txLifesign, txData, wire, sent, flipped, rxVars>>

Encode(size) == EncodeOk(size) \/ EncodeFail(size)

\* The network delivers a datagram of another sender.
Inject(d) ==
  /\ wire' = d
  /\ sent' = NotEncoded
  /\ flipped' = FALSE
  /\ UNCHANGED <<txVars, rxVars>>

\* The network flips one bit of the datagram in flight.
Flip(j, b) ==
  /\ ~flipped
  /\ wire' = [wire EXCEPT ![j] = IF (@ \div 2^b) % 2 = 1 THEN @ - 2^b ELSE @ + 2^b]
  /\ flipped' = TRUE
  /\ UNCHANGED <<txVars, sent, rxVars>>

\* The RX thread receives the datagram and decode(buffer, buffer_size)
\* runs on it: the length checks, the stores of the header fields and of
\* the lifesign, the payload view, then the CRC check over header and
\* payload against the footer.
Decode ==
  LET size == Len(wire)
      len  == FromLittleEndian(SubSeq(wire, 7, 8))
  IN
  /\ wire /= <<>>
  /\ \/ /\ size < HeaderSize + FooterSize
        /\ rxError' = "InvalidPacket"
        /\ rxResult' = FALSE
        /\ UNCHANGED <<rxId, rxData, rxLifesign>>
     \/ /\ size >= HeaderSize + FooterSize
        /\ size < HeaderSize + len + FooterSize
        /\ rxError' = "InvalidPacket"
        /\ rxResult' = FALSE
        /\ UNCHANGED <<rxId, rxData, rxLifesign>>
     \/ /\ size >= HeaderSize + len + FooterSize
        /\ len > MaxDataSize
        /\ rxError' = "DataTooLarge"
        /\ rxResult' = FALSE
        /\ UNCHANGED <<rxId, rxData, rxLifesign>>
     \/ /\ size >= HeaderSize + len + FooterSize
        /\ len <= MaxDataSize
        /\ rxId' = SubSeq(wire, 1, 4)
        /\ rxLifesign' = FromLittleEndian(SubSeq(wire, 5, 6))
        /\ rxData' = SubSeq(wire, HeaderSize + 1, HeaderSize + len)
        /\ rxResult' = (CalculateCrc32(SubSeq(wire, 1, HeaderSize + len))
                          = BytesWord(SubSeq(wire, HeaderSize + len + 1,
                                                   HeaderSize + len + FooterSize)))
        /\ rxError' = IF rxResult' THEN "None" ELSE "CrcMismatch"
  /\ rxSource' = [sent |-> sent, flipped |-> flipped]
  /\ wire' = <<>>
  /\ sent' = NotEncoded
  /\ flipped' = FALSE
  /\ UNCHANGED txVars

Next ==
  \/ \E id \in Ids : SetUniqueId(id)
  \/ \E d \in Payloads \cup {NoData} : SetDataPointer(d)
  \/ \E size \in BufferSizes \cup {NoBuffer} : Encode(size)
  \/ \E d \in ForeignDatagrams : Inject(d)
  \/ \E j \in FlipBytes \cap 1 .. Len(wire), b \in FlipBits : Flip(j, b)
  \/ Decode

Spec == Init /\ [][Next]_vars

-----------------------------------------------------------------------------
TypeOK ==
  /\ txId \in Ids \cup {0}
  /\ txLifesign \in 0 .. LifesignWrap - 1
  /\ txData \in Payloads \cup {<<>>}
  /\ txError \in Errors
  /\ wire \in Seq(Bytes)
  /\ flipped \in BOOLEAN
  /\ rxId \in Seq(Bytes)
  /\ rxData \in Seq(Bytes)
  /\ rxLifesign \in 0 .. 2^16 - 1
  /\ rxError \in Errors
  /\ rxResult \in BOOLEAN

(* The specification's round trip and CRC sensitivity: decode() accepts a  *)
(* frame encode() built exactly when the network left it intact, and then *)
(* it returns the unique id, the lifesign and the payload the frame was    *)
(* encoded from; a frame with a bit of FlipBytes flipped is rejected, by  *)
(* the length checks or by the CRC over the first 8 + data_length bytes   *)
(* (MCCodec flips bit 0 of the data length and of one later byte).       *)
DecodeInvertsEncode ==
  rxSource.sent.encoded =>
    /\ rxResult = ~rxSource.flipped
    /\ rxResult => /\ rxId = LittleEndian(rxSource.sent.id, 4)
                   /\ rxLifesign = rxSource.sent.ls
                   /\ rxData = rxSource.sent.data

(* The footer encode() writes is the CRC-32 (IEEE 802.3) of the header   *)
(* and payload: the code's shift register in calculateCrc32() agrees with *)
(* the polynomial division that defines the checksum, on every frame in   *)
(* flight that the network left intact.                                   *)
CrcMatchesReference ==
  (sent.encoded /\ ~flipped) =>
    LET n == Len(wire) - FooterSize
    IN  BytesWord(SubSeq(wire, n + 1, Len(wire))) = ReferenceCrc32(SubSeq(wire, 1, n))
=============================================================================
