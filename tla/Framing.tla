------------------------------- MODULE Framing -------------------------------
(***************************************************************************)
(* Frames over a socket, one direction: send_frame() and recv_frame()      *)
(* (include/cxl_fabric/control/net.hpp) with encode_frame() and            *)
(* decode_frame() (src/core/protocol.cpp) over a stream that knows         *)
(* nothing of frames, takes and gives any number of cells at a time, and   *)
(* ends anywhere when a peer dies.                                         *)
(*                                                                         *)
(* A cell is a number: a field of the header (magic and version, type,     *)
(* length, checksum) or a part of the payload.  A cell does not say which, *)
(* and a payload may contain what looks like a header.                     *)
(***************************************************************************)
EXTENDS Integers, Sequences

CONSTANTS
  Types,         \* the frame types of a peer
  Data,          \* the cells a payload is made of
  MaxPayload,    \* kMaxPayloadBytes, in cells
  Room,          \* cells the socket holds
  CrcRaces,      \* whether a first use of the table of crc32() may race with another
  MaxFrames      \* bound: frames sent

LastType == 23     \* FrameType::QUERY_STATE_RESULT

\* A peer only sends frames of the enumeration FrameType.
ASSUME FramingAssumption ==
  /\ Types \subseteq 1..LastType /\ Data \subseteq Nat
  /\ MaxPayload \in Nat /\ Room \in Nat \ {0} /\ CrcRaces \in BOOLEAN /\ MaxFrames \in Nat

VARIABLES
  sent,        \* history: the frames handed to send_frame()
  damaged,     \* history: those whose checksum came out wrong at either end
  out,         \* what send_all() has not handed to the system yet
  wire,        \* what the system holds
  writing,     \* the sending end is open
  buf,         \* what recv_frame() has read
  reading,     \* the receiving end goes on
  taken,       \* history: frames read to their end
  refused,     \* history: those of them that were not accepted
  delivered    \* the frames decode_frame() accepted

framing == <<sent, damaged, out, wire, writing, buf, reading, taken, refused, delivered>>

FramingInit ==
  /\ sent = <<>> /\ damaged = {} /\ out = <<>> /\ wire = <<>> /\ writing = TRUE
  /\ buf = <<>> /\ reading = TRUE /\ taken = 0 /\ refused = {} /\ delivered = <<>>

----------------------------------------------------------------------------
(* The codec *)

Magic == 7         \* kProtocolMagic and kProtocolVersion
HeaderSize == 4    \* kFrameHeaderSize
valid_type(t) == t \in 1..LastType

\* A perfect checksum: no two sequences of cells below Base have the same.
Base == 100
crc32(cells) ==
  LET sum[n \in 0..Len(cells)] == IF n = 0 THEN 0 ELSE Base * sum[n - 1] + cells[n] + 1
  IN  sum[Len(cells)] + Base

\* A payload that is too long is left out, and then the length and the checksum too.
encode_frame(f, sum) ==
  IF Len(f.payload) > MaxPayload THEN <<Magic, f.type, 0, 0>>
  ELSE <<Magic, f.type, Len(f.payload), sum>> \o f.payload

Body(f) == <<Magic, f.type, Len(f.payload)>> \o f.payload

\* (Mutant: the checksum does not cover the payload.)
decode_frame_header_only(cells, ok) ==
  IF Len(cells) < HeaderSize THEN "TRUNCATED"
  ELSE IF cells[1] # Magic THEN "BAD_MAGIC"
  ELSE IF ~valid_type(cells[2]) THEN "BAD_TYPE"
  ELSE IF cells[3] > MaxPayload THEN "OVERSIZED"
  ELSE IF HeaderSize + cells[3] > Len(cells) THEN "TRUNCATED"
  ELSE IF HeaderSize + cells[3] # Len(cells) THEN "TRAILING_GARBAGE"
  ELSE "OK"

\* The DecodeStatus; ok is whether crc32() computes what it should.
decode_frame(cells, ok) ==
  IF Len(cells) < HeaderSize THEN "TRUNCATED"
  ELSE IF cells[1] # Magic THEN "BAD_MAGIC"
  ELSE IF ~valid_type(cells[2]) THEN "BAD_TYPE"
  ELSE IF cells[3] > MaxPayload THEN "OVERSIZED"
  ELSE LET total == HeaderSize + cells[3]
       IN  IF total > Len(cells) THEN "TRUNCATED"
           ELSE IF ~ok \/ crc32(SubSeq(cells, 1, 3) \o SubSeq(cells, 5, total)) # cells[4]
           THEN "BAD_CHECKSUM"
           ELSE IF total # Len(cells) THEN "TRAILING_GARBAGE" ELSE "OK"

Decoded(cells) == [type |-> cells[2], payload |-> SubSeq(cells, HeaderSize + 1, Len(cells))]

\* The outcomes of crc32(): while one thread fills its table another may use it half
\* full, since nothing orders the two.
Computed == IF CrcRaces THEN {TRUE, FALSE} ELSE {TRUE}

----------------------------------------------------------------------------
(* Sending *)

send_frame(f, ok) ==
  /\ writing /\ out = <<>> /\ Len(sent) < MaxFrames
  /\ sent' = Append(sent, f)
  /\ damaged' = IF ok THEN damaged ELSE damaged \cup {Len(sent')}
  /\ out' = encode_frame(f, IF ok THEN crc32(Body(f)) ELSE 0)
  /\ UNCHANGED <<wire, writing, buf, reading, taken, refused, delivered>>

\* (Mutant: a partial send is taken for a complete one.)
send_all_once(n) ==
  /\ writing /\ n <= Len(out) /\ Len(wire) + n <= Room
  /\ wire' = wire \o SubSeq(out, 1, n)
  /\ out' = <<>>
  /\ UNCHANGED <<sent, damaged, writing, buf, reading, taken, refused, delivered>>

\* One send() of send_all(): the system takes what it has room for.
send_all(n) ==
  /\ writing /\ n <= Len(out) /\ Len(wire) + n <= Room
  /\ wire' = wire \o SubSeq(out, 1, n)
  /\ out' = SubSeq(out, n + 1, Len(out))
  /\ UNCHANGED <<sent, damaged, writing, buf, reading, taken, refused, delivered>>

\* send() fails once the receiver is gone: send_frame() gives up the rest of the frame.
SendFails ==
  /\ writing /\ ~reading /\ out # <<>>
  /\ out' = <<>>
  /\ UNCHANGED <<sent, damaged, wire, writing, buf, reading, taken, refused, delivered>>

\* The sender closes or is killed, and what it has not sent is lost with it; if it had
\* left something unread the system resets the connection and drops the rest too.
SenderGone(reset) ==
  /\ writing
  /\ writing' = FALSE /\ out' = <<>>
  /\ wire' = IF reset THEN <<>> ELSE wire
  /\ UNCHANGED <<sent, damaged, buf, reading, taken, refused, delivered>>

----------------------------------------------------------------------------
(* Receiving *)

\* What recv_exact() was asked for: the header, and then the payload it announces.
Wanted == IF Len(buf) < HeaderSize THEN HeaderSize ELSE HeaderSize + buf[3]

Oversized == Len(buf) = HeaderSize /\ buf[3] > MaxPayload

\* (Mutant: recv() is called once for the payload, and what it gives is taken for all.)
recv_exact_once(n) ==
  /\ reading /\ ~Oversized /\ n <= Len(wire) /\ Len(buf) + n <= Wanted
  /\ buf' = IF Len(buf) < HeaderSize THEN buf \o SubSeq(wire, 1, n)
            ELSE buf \o SubSeq(wire, 1, n) \o [i \in 1..(Wanted - Len(buf) - n) |-> 0]
  /\ wire' = SubSeq(wire, n + 1, Len(wire))
  /\ UNCHANGED <<sent, damaged, out, writing, reading, taken, refused, delivered>>

\* One recv() of recv_exact().
recv_exact(n) ==
  /\ reading /\ ~Oversized /\ n <= Len(wire) /\ Len(buf) + n <= Wanted
  /\ buf' = buf \o SubSeq(wire, 1, n)
  /\ wire' = SubSeq(wire, n + 1, Len(wire))
  /\ UNCHANGED <<sent, damaged, out, writing, reading, taken, refused, delivered>>

\* recv_frame() returns a frame, or a status that is not OK.  Most callers then end the
\* connection; worker_main.cpp, which ignores some answers, may go on with the next one.
recv_frame(ok, goon) ==
  /\ reading /\ Len(buf) >= HeaderSize /\ (Oversized \/ Len(buf) = Wanted)
  /\ taken' = taken + 1
  /\ IF ~Oversized /\ decode_frame(buf, ok) = "OK"
     THEN /\ delivered' = Append(delivered, Decoded(buf))
          /\ UNCHANGED <<refused, reading, damaged>>
     ELSE /\ refused' = refused \cup {taken'} /\ reading' = goon
          /\ damaged' = IF ok THEN damaged ELSE damaged \cup {taken'}
          /\ UNCHANGED delivered
  /\ buf' = <<>>
  /\ UNCHANGED <<sent, out, wire, writing>>

\* recv() reports the end of the stream (or a reset): TRUNCATED.
Truncated ==
  /\ reading /\ ~writing /\ wire = <<>>
  /\ reading' = FALSE
  /\ UNCHANGED <<sent, damaged, out, wire, writing, buf, taken, refused, delivered>>

\* The receiver closes or is killed.
ReceiverGone ==
  /\ reading
  /\ reading' = FALSE
  /\ UNCHANGED <<sent, damaged, out, wire, writing, buf, taken, refused, delivered>>

----------------------------------------------------------------------------
Payloads == UNION {[1..n -> Data] : n \in 0..(MaxPayload + 1)}
Frames == [type : Types, payload : Payloads]

Sending == \E n \in 1..Room : send_all(n)
Receiving ==
  \/ \E n \in 1..(HeaderSize + MaxPayload) : recv_exact(n)
  \/ \E ok \in Computed, goon \in BOOLEAN : recv_frame(ok, goon)
  \/ Truncated

FramingNext ==
  \/ \E f \in Frames, ok \in Computed : send_frame(f, ok)
  \/ Sending \/ SendFails
  \/ \E reset \in BOOLEAN : SenderGone(reset)
  \/ Receiving
  \/ ReceiverGone

\* Both ends keep calling send() and recv() while these make progress.
FramingSpec ==
  FramingInit /\ [][FramingNext]_framing /\ WF_framing(Sending) /\ WF_framing(Receiving)

----------------------------------------------------------------------------
(* Properties *)

Channel == INSTANCE FrameChannel WITH
  queue <- SubSeq(sent, taken + 1, Len(sent)), ended <- ~reading

\* However the stream is cut into sends and receives, wherever a peer dies, and whatever
\* crc32() computes, recv_frame() gives the frames that were sent, whole and in order; a
\* frame that is refused leaves the receiver at the beginning of the next one.
ImplementsChannel == Channel!ChannelSpec

\* A frame is refused only if its payload was too long for encode_frame(), or its checksum
\* was computed wrong at one end: no other loss of a worker's connection comes from the
\* codec.
RefusedForCause ==
  \A i \in refused : Len(sent[i].payload) > MaxPayload \/ i \in damaged

\* Every frame is taken in the end, unless one of the peers goes.
FramesArrive ==
  \A k \in 1..MaxFrames : Len(sent) >= k ~> (taken >= k \/ ~writing \/ ~reading)

=============================================================================
