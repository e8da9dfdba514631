------------------------------ MODULE Framing ------------------------------
(***************************************************************************)
(* PvaTcp::recv_frame and PvaCodec::decode_frame: the bytes of a stream of *)
(* messages arrive in reads of any size, while the server goes on sending, *)
(* and become frames; a message in segments becomes one frame.             *)
(***************************************************************************)
EXTENDS Integers, Sequences, Header

CONSTANTS
  Units,          \* messages of a stream: [header, magic, payload]
  MaxUnits,       \* bound: their number
  MaxPayload,     \* max_payload, 16 MB
  SegmentFactor   \* 4

\* What the server sends has a payload of the size its header says, a control
\* message none.  A message that is refused may have any.
ASSUME FramingAssumption ==
  /\ {MaxUnits, MaxPayload, SegmentFactor} \subseteq Nat
  /\ \A u \in Units :
       /\ u.header \in [version : 0..255, flags : 0..255, command : 0..255,
                        payload_size : I32]
       /\ u.magic \in 0..255 /\ u.payload \in Seq(0..255)
       /\ u.magic = PVA_MAGIC /\ is_control(u.header) => Len(u.payload) = 0
       /\ u.magic = PVA_MAGIC /\ ~is_control(u.header)
            /\ u.header.payload_size \in 0..MaxPayload =>
              Len(u.payload) = u.header.payload_size

VARIABLES
  stream,              \* the messages the server has sent
  wire,                \* their bytes
  arrived, consumed,   \* bytes read from the socket, bytes decoded
  codec,               \* PvaCodec: [state, segment_buf]
  frames,              \* what recv_frame has returned
  failed,              \* decode_frame returned an error
  meant                \* history: what the first messages amount to

framingVars == << stream, wire, arrived, consumed, codec, frames, failed, meant >>

Frame(h, payload) == [header |-> h, payload |-> payload]

\* A frame put together: the header of the first segment with the whole size.
Assembled(first, data) ==
  Frame(with_segmentation([first.header EXCEPT !.payload_size = Len(data)], "None"), data)

----------------------------------------------------------------------------
(* The server.                                                             *)

Bytes(u) ==
  << u.magic >> \o Tail(EncodeHeader(u.header)) \o u.payload

\* The reference: what a message makes of what came before it.  at: its end.
Delivery(fs, open, stop, at) == [frames |-> fs, open |-> open, failed |-> stop, at |-> at]

NothingYet == Delivery(<< >>, << >>, FALSE, 0)

Deliver(d, u) ==
  LET end == d.at + Len(Bytes(u))
      seg == segmentation(u.header)
      data == d.open[1].payload \o u.payload
      fits == d.open # << >> /\ Len(data) <= SegmentFactor * MaxPayload
      taken == u.header.payload_size \in 0..MaxPayload
      Add(f, open) == Delivery(Append(d.frames, f), open, FALSE, end)
      Hold(f) == Delivery(d.frames, << f >>, FALSE, end)
      Stop == Delivery(d.frames, d.open, TRUE, end) IN
  CASE d.failed \/ u.magic # PVA_MAGIC -> Stop
    [] ~d.failed /\ u.magic = PVA_MAGIC /\ is_control(u.header) ->
         Add(Frame(u.header, << >>), d.open)
    [] ~d.failed /\ u.magic = PVA_MAGIC /\ ~is_control(u.header) ->
         CASE taken /\ seg = "None" -> Add(Frame(u.header, u.payload), d.open)
           [] taken /\ seg = "First" -> Hold(Frame(u.header, u.payload))
           [] taken /\ seg = "Middle" /\ fits -> Hold(Frame(d.open[1].header, data))
           [] taken /\ seg = "Last" /\ fits -> Add(Assembled(d.open[1], data), << >>)
           [] OTHER -> Stop

ServerSends(u) ==
  /\ Len(stream) < MaxUnits
  /\ stream' = Append(stream, u) /\ wire' = wire \o Bytes(u)
  /\ meant' = Append(meant, Deliver(meant[Len(meant)], u))
  /\ UNCHANGED << arrived, consumed, codec, frames, failed >>

----------------------------------------------------------------------------
(* The client.                                                             *)

\* Bytes that were read and not decoded.
Buffered == arrived - consumed

InBuffer(from, to) == SubSeq(wire, consumed + from, consumed + to)

\* Mutant: the test of the buffer's length has <= for <.
NeededOneMore(h) == HEADER_SIZE + h.payload_size + 1

\* The header is still in the buffer when the payload is waited for.
Needed(h) == HEADER_SIZE + h.payload_size

AtHeader == ~failed /\ codec.state = << >> /\ Buffered >= HEADER_SIZE
AtPayload ==
  ~failed /\ codec.state # << >> /\ Buffered >= Needed(codec.state[1])

\* recv_frame reads from the socket when decode_frame wants more.
ReadSocket(n) ==
  /\ ~failed /\ ~AtHeader /\ ~AtPayload
  /\ arrived + n <= Len(wire)
  /\ arrived' = arrived + n
  /\ UNCHANGED << stream, wire, meant, consumed, codec, frames, failed >>

DecodeAtHeader ==
  /\ AtHeader
  /\ LET h == DecodeHeader(InBuffer(1, HEADER_SIZE))
         magic == InBuffer(1, HEADER_SIZE)[1] = PVA_MAGIC
         sized == h.payload_size \in 0..MaxPayload IN
     \/ /\ magic /\ is_control(h)
        /\ consumed' = consumed + HEADER_SIZE
        /\ frames' = Append(frames, Frame(h, << >>))
        /\ UNCHANGED << codec, failed >>
     \/ /\ ~(magic /\ (sized \/ is_control(h)))
        /\ failed' = TRUE
        /\ UNCHANGED << codec, consumed, frames >>
     \/ /\ magic /\ ~is_control(h) /\ sized
        /\ codec' = [codec EXCEPT !.state = << h >>]
        /\ UNCHANGED << consumed, frames, failed >>
  /\ UNCHANGED << stream, wire, meant, arrived >>

DecodeAtPayload ==
  /\ AtPayload
  /\ LET h == codec.state[1]
         payload == InBuffer(HEADER_SIZE + 1, HEADER_SIZE + h.payload_size)
         seg == segmentation(h)
         buffered == codec.segment_buf
         data == buffered[1].payload \o payload
         fits == buffered # << >> /\ Len(data) <= SegmentFactor * MaxPayload IN
     /\ consumed' = consumed + HEADER_SIZE + h.payload_size
     /\ \/ /\ seg = "None"
           /\ frames' = Append(frames, Frame(h, payload))
           /\ codec' = [codec EXCEPT !.state = << >>] /\ UNCHANGED failed
        \/ /\ seg = "First"
           /\ codec' = [state |-> << >>, segment_buf |-> << Frame(h, payload) >>]
           /\ UNCHANGED << frames, failed >>
        \/ /\ seg = "Middle" /\ fits
           /\ codec' = [state |-> << >>,
                        segment_buf |-> << Frame(buffered[1].header, data) >>]
           /\ UNCHANGED << frames, failed >>
        \/ /\ seg = "Last" /\ fits
           /\ codec' = [state |-> << >>, segment_buf |-> << >>]
           /\ frames' = Append(frames, Assembled(buffered[1], data))
           /\ UNCHANGED failed
        \/ /\ seg \in {"Middle", "Last"} /\ ~fits
           /\ codec' = [state |-> << >>,
                        segment_buf |-> IF seg = "Last" THEN << >> ELSE buffered]
           /\ failed' = TRUE /\ UNCHANGED frames
  /\ UNCHANGED << stream, wire, meant, arrived >>

----------------------------------------------------------------------------
FramingInit ==
  /\ stream = << >> /\ wire = << >> /\ meant = << NothingYet >>
  /\ arrived = 0 /\ consumed = 0 /\ frames = << >> /\ failed = FALSE
  /\ codec = [state |-> << >>, segment_buf |-> << >>]

FramingNext ==
  \/ \E u \in Units : ServerSends(u)
  \/ \E n \in 1..Len(wire) : ReadSocket(n)
  \/ DecodeAtHeader \/ DecodeAtPayload

FramingSpec == FramingInit /\ [][FramingNext]_framingVars

----------------------------------------------------------------------------
\* The machine stops at the first error.  The bulk phases of add_monitors_bulk
\* call recv_frame once more after one: a bad header is still in the buffer and
\* fails again; a segment that did not fit is gone, and the messages after it
\* are decoded as if it had not been.

\* However the bytes of a stream are cut into reads, and wherever control
\* messages stand between segments, the frames returned are those of its
\* messages, in order and whole; when all was read none is missing, and an
\* error is reported exactly where the stream first has one
\* (PvaCodec::decode_frame, PvaTcp::recv_frame).
FramesAreWhole ==
  LET d == meant[Len(meant)] IN
  /\ Len(frames) <= Len(d.frames) /\ frames = SubSeq(d.frames, 1, Len(frames))
  /\ failed => d.failed
  /\ failed \/ (arrived = Len(wire) /\ ~AtHeader /\ ~AtPayload)
       => frames = d.frames /\ failed = d.failed
=============================================================================
