\* Payloads of at most one byte: frames of 12 and 13 bytes, bit 0 flipped in
\* byte 7 (the data length) or byte 9 (payload or footer) of each, the two
\* foreign datagrams, and a lifesign that wraps.
CONSTANTS MaxDataSize = 1
          LifesignWrap = 2
          Ids <- MCIds
          Payloads <- MCPayloads
          BufferSizes <- MCBufferSizes
          NoBuffer = NoBuffer
          NoData = NoData
          FlipBytes = {7, 9}
          FlipBits = {0}
SPECIFICATION Spec
INVARIANTS TypeOK DecodeInvertsEncode CrcMatchesReference
