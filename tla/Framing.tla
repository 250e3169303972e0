------------------------------ MODULE Framing ------------------------------
(***************************************************************************)
(* One direction of a BlueCross connection after the Noise handshake, down *)
(* to the bytes: protocol.rs encodes a message as a header and a payload,  *)
(* secure.rs cuts the bytes into chunks, seals each as a Noise message     *)
(* behind a two-byte length and hands it to a BufWriter; the reading side  *)
(* collects lengths and ciphertexts, opens them, and decodes messages out  *)
(* of the bytes opened so far.  The link may be lost and the writing       *)
(* process may die between any two bytes.                                  *)
(*                                                                         *)
(* Only the position of a byte is kept: byte i of message m is <<m, i>>.   *)
(* TCP, the BufReader and the BufWriter are modelled from their use.       *)
(***************************************************************************)
EXTENDS Integers, Sequences

CONSTANTS
  HeaderLen,   \* bytes of a message header (HEADER_LEN)
  MaxPayload,  \* longest payload decode accepts (MAX_PAYLOAD)
  MaxNoise,    \* longest Noise message, also the largest length two bytes
               \* can hold (MAX_NOISE_MSG = 65535 = u16::MAX)
  TagLen,      \* bytes the seal adds to a chunk (TAG_LEN)
  BufCap,      \* bytes the BufWriter holds back until it is flushed
  NetCap,      \* bytes the two socket buffers hold
  Sizes,       \* payload sizes, some above MaxPayload
  MaxSends     \* bound: messages written

ASSUME FramingAssumption ==
  /\ HeaderLen \in Nat \ {0} /\ MaxPayload \in Nat
  /\ TagLen \in Nat \ {0} /\ MaxNoise \in Nat /\ TagLen < MaxNoise
  /\ BufCap \in Nat /\ NetCap \in Nat \ {0}
  /\ Sizes \subseteq Nat
  /\ MaxSends \in Nat

MaxChunk == MaxNoise - TagLen
LengthBytes == 2

Messages == [id : 1..MaxSends, size : Sizes]
TooBig(m) == m.size > MaxPayload

VARIABLES
  wpc,     \* the task that writes: "idle", "writing" (in send), "flushing",
           \* "left" (its queue ended and it dropped the writer), "dead"
           \* (its process ended), "failed" (a write reported an error)
  rest,    \* plaintext bytes that write_all has not sealed yet
  sealed,  \* Noise messages sealed so far (the sending nonce)
  held,    \* sealed bytes that the BufWriter has not passed to the socket
  net,     \* bytes in the socket buffers and on the link
  link,    \* "open", "closed" once the writer is gone, "lost"
  rpc,     \* the task that reads: "receive", "drain" (receive_all_buffered),
           \* "length" and "ciphertext" (in read_chunk), "ended" (Ok(None)),
           \* "failed" (Err)
  drains,  \* the reader is the client's, which calls receive_all_buffered
  taken,   \* bytes the read_exact under way has collected
  want,    \* ciphertext bytes it waits for
  opened,  \* Noise messages opened so far (the receiving nonce)
  buffer,  \* ProtocolReader.buffer
  sent,    \* messages passed to send
  got      \* messages handed out

writer == <<wpc, rest, sealed, held, sent>>
reader == <<rpc, taken, want, opened, buffer, got>>
vars == <<writer, net, link, reader, drains>>

Chan == INSTANCE Channel WITH over <- rpc \in {"ended", "failed"}

ReaderGone == rpc \in {"ended", "failed"}

-----------------------------------------------------------------------------
(* The formats.                                                            *)

Front(s, n) == SubSeq(s, 1, IF n < Len(s) THEN n ELSE Len(s))
After(s, n) == SubSeq(s, n + 1, Len(s))

\* Message::encode: no size is refused.
Encode(m) == [i \in 1..(HeaderLen + m.size) |-> <<m, i>>]

NeedMore == "incomplete"
Refused == "error"

\* Mutant: a payload counts as complete one byte late.
DecodeLate(data) ==
  IF Len(data) < HeaderLen THEN NeedMore
  ELSE LET m == data[1][1] IN
    IF data[1][2] # 1 \/ TooBig(m) THEN Refused
    ELSE IF Len(data) <= HeaderLen + m.size THEN NeedMore
    ELSE "message"

\* Message::decode.  The header names the message; a header read at a wrong
\* place, or a payload of other bytes, is what serde and from_u8 refuse.
Decode(data) ==
  IF Len(data) < HeaderLen THEN NeedMore
  ELSE LET m == data[1][1] IN
    IF data[1][2] # 1 \/ TooBig(m) THEN Refused
    ELSE IF Len(data) < HeaderLen + m.size THEN NeedMore
    ELSE IF Front(data, HeaderLen + m.size) = Encode(m) THEN "message"
    ELSE Refused

\* One frame: the ciphertext's length, reduced to the width of its field, and
\* the sealed chunk.  A sealed byte names its nonce, its place and its chunk.
Frame(chunk, nonce) ==
  LET n == Len(chunk) + TagLen IN
    [i \in 1..LengthBytes |-> [len |-> n % (MaxNoise + 1)]]
      \o [i \in 1..n |-> [nonce |-> nonce, at |-> i, plain |-> chunk]]

LengthIn(bytes) ==
  IF \A i \in DOMAIN bytes : "len" \in DOMAIN bytes[i] THEN bytes[1].len ELSE 0

\* snow's read_message opens exactly the next Noise message of the peer.
Opens(bytes) == \E n \in 0..(Len(bytes) - TagLen) :
  /\ n + TagLen = Len(bytes)
  /\ \E chunk \in {bytes[1].plain} :
       /\ Len(chunk) = n
       /\ bytes = After(Frame(chunk, opened), LengthBytes)

-----------------------------------------------------------------------------
(* ProtocolWriter and SecureWriter, in a task that sends and then flushes  *)
(* each message of its queue.                                              *)

Send(m) ==
  /\ wpc = "idle"
  /\ m.id = Len(sent) + 1
  /\ sent' = Append(sent, m)
  /\ rest' = Encode(m)
  /\ wpc' = "writing"
  /\ UNCHANGED <<sealed, held, net, link, reader, drains>>

\* Mutant: the chunk leaves no room for the tag.
SealWholeNoise ==
  /\ wpc = "writing"
  /\ rest # << >>
  /\ Len(held) <= BufCap
  /\ held' = held \o Frame(Front(rest, MaxNoise), sealed)
  /\ rest' = After(rest, MaxNoise)
  /\ sealed' = sealed + 1
  /\ UNCHANGED <<wpc, sent, net, link, reader, drains>>

\* write_all seals the next chunk once the BufWriter took the one before.
SealChunk ==
  /\ wpc = "writing"
  /\ rest # << >>
  /\ Len(held) <= BufCap
  /\ held' = held \o Frame(Front(rest, MaxChunk), sealed)
  /\ rest' = After(rest, MaxChunk)
  /\ sealed' = sealed + 1
  /\ UNCHANGED <<wpc, sent, net, link, reader, drains>>

\* Mutant: the caller does not flush.
SendWithoutFlush ==
  /\ wpc = "writing"
  /\ rest = << >>
  /\ Len(held) <= BufCap
  /\ wpc' = "idle"
  /\ UNCHANGED <<rest, sealed, held, sent, net, link, reader, drains>>

SendReturns ==
  /\ wpc = "writing"
  /\ rest = << >>
  /\ Len(held) <= BufCap
  /\ wpc' = "flushing"
  /\ UNCHANGED <<rest, sealed, held, sent, net, link, reader, drains>>

\* A byte leaves the BufWriter: only while the task is inside write_all or
\* flush.  With nobody to read them the bytes vanish.
PassOn ==
  /\ wpc \in {"writing", "flushing"}
  /\ held # << >>
  /\ held' = Tail(held)
  /\ IF link = "open" /\ ~ReaderGone
       THEN Len(net) < NetCap /\ net' = Append(net, Head(held))
       ELSE UNCHANGED net
  /\ UNCHANGED <<wpc, rest, sealed, sent, link, reader, drains>>

FlushReturns ==
  /\ wpc = "flushing"
  /\ held = << >>
  /\ wpc' = "idle"
  /\ UNCHANGED <<rest, sealed, held, sent, net, link, reader, drains>>

\* The writer is dropped: what the BufWriter still holds is not sent, what the
\* socket has is.
Gone(pc) ==
  /\ wpc' = pc
  /\ rest' = << >>
  /\ held' = << >>
  /\ link' = IF link = "open" THEN "closed" ELSE link
  /\ UNCHANGED <<sealed, sent, net, reader, drains>>

WriteFails ==
  /\ wpc \in {"writing", "flushing"}
  /\ link = "lost" \/ ReaderGone
  /\ Gone("failed")

\* The queue of the task ended, or the client leaves its loop.
Leaves == wpc = "idle" /\ Gone("left")

Dies == wpc \in {"idle", "writing", "flushing"} /\ Gone("dead")

LinkLost ==
  /\ link = "open"
  /\ link' = "lost"
  /\ UNCHANGED <<writer, net, reader, drains>>

-----------------------------------------------------------------------------
(* ProtocolReader and SecureReader.                                        *)

DropMessage == After(buffer, HeaderLen + buffer[1][1].size)

\* Mutant: the message stays in the buffer.
ReceiveKeeps ==
  /\ rpc = "receive"
  /\ Decode(buffer) = "message"
  /\ got' = Append(got, buffer[1][1])
  /\ rpc' = IF drains THEN "drain" ELSE "receive"
  /\ UNCHANGED <<buffer, taken, want, opened, writer, net, link, drains>>

\* receive hands out the first message of the buffer; the client then goes
\* through the rest of the buffer, the server calls receive again.
Receive ==
  /\ rpc = "receive"
  /\ Decode(buffer) = "message"
  /\ got' = Append(got, buffer[1][1])
  /\ buffer' = DropMessage
  /\ rpc' = IF drains THEN "drain" ELSE "receive"
  /\ UNCHANGED <<taken, want, opened, writer, net, link, drains>>

\* One turn of the loop of receive_all_buffered; an error only ends the loop.
\* Every send starts a frame of its own, so this loop never finds a message.
DrainBuffered ==
  /\ rpc = "drain"
  /\ IF Decode(buffer) = "message"
       THEN /\ got' = Append(got, buffer[1][1])
            /\ buffer' = DropMessage
            /\ UNCHANGED rpc
       ELSE rpc' = "receive" /\ UNCHANGED <<got, buffer>>
  /\ UNCHANGED <<taken, want, opened, writer, net, link, drains>>

\* Mutant: receive, too, takes an error for "not yet".
RefuseWaits ==
  /\ rpc = "receive"
  /\ Decode(buffer) = Refused
  /\ rpc' = "length"
  /\ want' = LengthBytes
  /\ UNCHANGED <<taken, opened, buffer, got, writer, net, link, drains>>

Refuse ==
  /\ rpc = "receive"
  /\ Decode(buffer) = Refused
  /\ rpc' = "failed"
  /\ UNCHANGED <<taken, want, opened, buffer, got, writer, net, link, drains>>

ReadChunk ==
  /\ rpc = "receive"
  /\ Decode(buffer) = NeedMore
  /\ rpc' = "length"
  /\ taken' = << >>
  /\ want' = LengthBytes
  /\ UNCHANGED <<opened, buffer, got, writer, net, link, drains>>

\* read_exact collects a byte and is not done yet.
Collect ==
  /\ rpc \in {"length", "ciphertext"}
  /\ net # << >>
  /\ Len(taken) + 1 < want
  /\ taken' = Append(taken, Head(net))
  /\ net' = Tail(net)
  /\ UNCHANGED <<rpc, want, opened, buffer, got, writer, link, drains>>

\* The last byte of the length: an empty frame is an error.
ReadLength ==
  /\ rpc = "length"
  /\ net # << >>
  /\ Len(taken) + 1 = want
  /\ net' = Tail(net)
  /\ taken' = << >>
  /\ want' = LengthIn(Append(taken, Head(net)))
  /\ rpc' = IF want' = 0 THEN "failed" ELSE "ciphertext"
  /\ UNCHANGED <<opened, buffer, got, writer, link, drains>>

\* Mutant: the nonce counts bytes.
OpenChunkPerByte ==
  /\ rpc = "ciphertext"
  /\ net # << >>
  /\ Len(taken) + 1 = want
  /\ net' = Tail(net)
  /\ buffer' = buffer \o taken[1].plain
  /\ opened' = opened + want
  /\ rpc' = "receive"
  /\ taken' = << >>
  /\ want' = 0
  /\ UNCHANGED <<got, writer, link, drains>>

\* The last byte of the ciphertext: it is opened, or refused.
OpenChunk ==
  /\ rpc = "ciphertext"
  /\ net # << >>
  /\ Len(taken) + 1 = want
  /\ net' = Tail(net)
  /\ LET bytes == Append(taken, Head(net)) IN
       IF "plain" \in DOMAIN bytes[1] /\ Opens(bytes)
         THEN /\ buffer' = buffer \o bytes[1].plain
              /\ opened' = opened + 1
              /\ rpc' = "receive"
         ELSE rpc' = "failed" /\ UNCHANGED <<buffer, opened>>
  /\ taken' = << >>
  /\ want' = 0
  /\ UNCHANGED <<got, writer, link, drains>>

\* EOF in the length, even after its first byte, is Ok(None); inside the
\* ciphertext it is an error.
ReadsEnd ==
  /\ rpc \in {"length", "ciphertext"}
  /\ net = << >>
  /\ link = "closed"
  /\ rpc' = IF rpc = "length" THEN "ended" ELSE "failed"
  /\ UNCHANGED <<taken, want, opened, buffer, got, writer, net, link, drains>>

\* A lost link (or a reset, when the peer closed with bytes unread) is an
\* error at some point, also with bytes left to read.
ReadFails ==
  /\ rpc \in {"length", "ciphertext"}
  /\ link = "lost"
  /\ rpc' = "failed"
  /\ UNCHANGED <<taken, want, opened, buffer, got, writer, net, link, drains>>

-----------------------------------------------------------------------------
Init ==
  /\ wpc = "idle" /\ rest = << >> /\ sealed = 0 /\ held = << >> /\ sent = << >>
  /\ net = << >> /\ link = "open"
  /\ rpc = "receive" /\ taken = << >> /\ want = 0 /\ opened = 0
  /\ buffer = << >> /\ got = << >>
  /\ drains \in BOOLEAN

WriterStep == SealChunk \/ SendReturns \/ PassOn \/ FlushReturns \/ WriteFails

ReaderStep ==
  \/ Receive \/ DrainBuffered \/ Refuse \/ ReadChunk
  \/ Collect \/ ReadLength \/ OpenChunk \/ ReadsEnd \/ ReadFails

Next ==
  \/ \E m \in Messages : Send(m)
  \/ WriterStep \/ ReaderStep
  \/ Leaves \/ Dies \/ LinkLost

Spec == Init /\ [][Next]_vars

\* Both tasks run; nobody has to send, to leave, to die or to pull the cable.
FairSpec == Spec /\ WF_vars(WriterStep) /\ WF_vars(ReaderStep)

-----------------------------------------------------------------------------
(* Properties.                                                             *)

Bytes == Seq(Messages \X Nat)

FramingTypeOK ==
  /\ wpc \in {"idle", "writing", "flushing", "left", "dead", "failed"}
  /\ rpc \in {"receive", "drain", "length", "ciphertext", "ended", "failed"}
  /\ link \in {"open", "closed", "lost"}
  /\ sealed \in Nat /\ opened \in 0..sealed
  /\ Len(net) <= NetCap
  /\ drains \in BOOLEAN
  /\ want \in 0..MaxNoise /\ Len(taken) <= want
  /\ sent \in Seq(Messages) /\ got \in Seq(Messages)
  /\ buffer \in Bytes /\ rest \in Bytes

\* One of the first n messages sent is above MAX_PAYLOAD.
SentTooBig(n) == \E i \in DOMAIN sent : i <= n /\ TooBig(sent[i])

\* When the writer has flushed or left, nothing is under way and the reader
\* waits for the next frame or reported a clean end, every message was handed
\* out: none waits in the BufWriter, in ProtocolReader.buffer or in a frame
\* for later traffic to push it through.
QuietMeansDelivered ==
  (/\ wpc \in {"idle", "left"} /\ link # "lost"
   /\ net = << >> /\ taken = << >> /\ rpc \in {"length", "ended"})
    => got = sent

\* The reader fails only on a lost link, a writer that died in the middle of
\* a frame, or a message above MAX_PAYLOAD: the chunking, the two-byte lengths
\* and the nonces never make it refuse what this program wrote.
RefusesOnlyOversize ==
  rpc = "failed" =>
    \/ link = "lost" \/ wpc = "dead"
    \/ SentTooBig(MaxSends)

\* The two layers are one FIFO channel of whole messages, wherever the link
\* is cut.
ImplementsChannel == Chan!ChanSpec

\* A message sent and flushed is received without further traffic, unless
\* the link is lost or an oversize message went before it.
FlushedArrives ==
  \A i \in 1..MaxSends :
    (wpc = "idle" /\ Len(sent) >= i)
      ~> (Len(got) >= i \/ link = "lost" \/ SentTooBig(i))

\* send refuses no size, so the receiver of a message above MAX_PAYLOAD is the
\* one to end the connection, and it always does: it does not wait for the
\* payload, and the client's loop over its buffer does not hide the error.
OversizeEnds ==
  SentTooBig(MaxSends) ~> (ReaderGone \/ wpc = "dead" \/ link = "lost")
=============================================================================
