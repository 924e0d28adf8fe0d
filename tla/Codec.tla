-------------------------------- MODULE Codec --------------------------------
(***************************************************************************)
(* The frame codec of nps_mux (src/lib/nps_mux/netpackager.go): how        *)
(* muxPackager.Pack writes a frame to the carrier and how UnPack reads one *)
(* back.  A frame is one flag byte and the stream id as a little-endian    *)
(* uint32; NEW_MSG, NEW_MSG_PART, PING and PING_RETURN go on with a        *)
(* little-endian uint16 length and that many content bytes.  The values of *)
(* the content bytes matter to no property, so every content byte is       *)
(* ContentByte.  A carrier is the sequence of the byte strings Pack wrote, *)
(* in order: the reader sees their concatenation, and UnPack must take     *)
(* exactly the bytes of one of them for the stream to stay in step.        *)
(* MSG_SEND_OK carries a uint64 window, beyond the integers of TLC, and   *)
(* is not encoded here; the ids used are small and positive, so int32 and  *)
(* uint32 agree on them.                                                   *)
(***************************************************************************)
EXTENDS Naturals, Sequences

\* The flag constants of mux.go, numbered by iota from muxPingFlag.
FlagCode ==
  [muxPingFlag |-> 0, muxNewConnOk |-> 1, muxNewConnFail |-> 2,
   muxNewMsg |-> 3, muxNewMsgPart |-> 4, muxMsgSendOk |-> 5,
   muxNewConn |-> 6, muxConnClose |-> 7, muxPingReturn |-> 8]

\* The flag of a code, as a table.
FlagOf == [c \in 0..8 |-> CHOOSE f \in DOMAIN FlagCode : FlagCode[f] = c]

\* The flags whose frames carry a length and content (Pack and UnPack).
ContentFlags == {"muxNewMsg", "muxNewMsgPart", "muxPingFlag", "muxPingReturn"}

ContentByte == 0

\* The k low bytes of n, most significant first (binary.BigEndian).
PutBE(n, k) == [i \in 1..k |-> (n \div 2^(8 * (k - i))) % 256]

\* binary.LittleEndian.PutUint16 / PutUint32: the k low bytes of n, least
\* significant first.
PutLE(n, k) == [i \in 1..k |-> (n \div 2^(8 * (i - 1))) % 256]

\* binary.LittleEndian.Uint16 / Uint32.
RECURSIVE GetLE(_)
GetLE(b) == IF b = <<>> THEN 0 ELSE Head(b) + 256 * GetLE(Tail(b))

(* basePackager.Set: content longer than maximumSegmentSize is logged and  *)
(* dropped, and the frame goes out with length 0 and no error.            *)
SetLength(n, mss) == IF n > mss THEN 0 ELSE n

\* muxPackager.Set then Pack: the bytes written to the carrier.
Pack(flag, id, n, mss) ==
  <<FlagCode[flag]>> \o PutLE(id, 4)
    \o IF flag \in ContentFlags
         THEN PutLE(SetLength(n, mss), 2)
                \o [i \in 1..SetLength(n, mss) |-> ContentByte]
         ELSE <<>>

(* basePackager.UnPack: a length above cap(content) (the pool's window    *)
(* buffer, at least maximumSegmentSize) or above maximumSegmentSize is an  *)
(* error.                                                                  *)
LengthOk(n, mss) == n <= mss

(* muxPackager.UnPack at the front of the byte stream s: the frame and the *)
(* bytes it takes.  complete: io.ReadFull has all it waits for (it blocks *)
(* otherwise); ok: basePackager.UnPack accepts the length (a length above *)
(* the content buffer or maximumSegmentSize is an error, and then the     *)
(* content is not read).  MSG_SEND_OK reads its 8 window bytes.           *)
UnPack(s, mss) ==
  LET flag    == FlagOf[s[1]]
      content == flag \in ContentFlags
      header  == CASE content                -> 7
                   [] flag = "muxMsgSendOk" -> 13
                   [] OTHER                 -> 5
      n       == IF content /\ Len(s) >= 7 THEN GetLE(SubSeq(s, 6, 7)) ELSE 0
      ok      == LengthOk(n, mss)
      size    == header + (IF ok THEN n ELSE 0)
  IN [flag     |-> flag,
      id       |-> IF Len(s) >= 5 THEN GetLE(SubSeq(s, 2, 5)) ELSE 0,
      length   |-> n,
      ok       |-> ok,
      complete |-> Len(s) >= size,
      size     |-> size]

==============================================================================
