--------------------------- MODULE FramingProofs ---------------------------
(***************************************************************************)
(* Proofs about Framing, for any sizes of headers, chunks, tags, buffers   *)
(* and messages.                                                           *)
(***************************************************************************)
EXTENDS Framing, TLAPS

-----------------------------------------------------------------------------
(* Pieces of a message, and the bytes of its frames.                       *)

\* n bytes of message m from byte p on.
Piece(m, p, n) == [i \in 1..n |-> <<m, p + i - 1>>]

Cipher(chunk, nonce) ==
  [i \in 1..(Len(chunk) + TagLen) |-> [nonce |-> nonce, at |-> i, plain |-> chunk]]

LEMMA PieceIsBytes ==
  ASSUME NEW m \in Messages, NEW p \in Nat, NEW n \in Nat, p > 0
  PROVE  Piece(m, p, n) \in Bytes /\ Len(Piece(m, p, n)) = n
BY DEF Piece, Bytes

LEMMA EncodeIsPiece ==
  ASSUME NEW m \in Messages
  PROVE  Encode(m) = Piece(m, 1, HeaderLen + m.size)
BY FramingAssumption DEF Encode, Piece, Messages

LEMMA FrontOfPiece ==
  ASSUME NEW m, NEW p \in Nat, NEW n \in Nat, NEW k \in Nat
  PROVE  Front(Piece(m, p, n), k) = Piece(m, p, IF k < n THEN k ELSE n)
BY DEF Piece, Front

LEMMA AfterPiece ==
  ASSUME NEW m, NEW p \in Nat, NEW n \in Nat, NEW k \in Nat
  PROVE  After(Piece(m, p, n), k) =
           IF k < n THEN Piece(m, p + k, n - k) ELSE << >>
BY DEF Piece, After

LEMMA JoinPieces ==
  ASSUME NEW m, NEW n \in Nat, NEW q \in Nat, NEW k \in Nat, q = 1 + n
  PROVE  Piece(m, 1, n) \o Piece(m, q, k) = Piece(m, 1, n + k)
BY DEF Piece

LEMMA ModBelow ==
  ASSUME NEW n \in Nat, NEW b \in Nat, n < b
  PROVE  n % b = n
OBVIOUS

LEMMA FrameBytes ==
  ASSUME NEW S, NEW chunk \in Seq(S), NEW nonce \in Nat,
         Len(chunk) <= MaxChunk
  PROVE  /\ Len(Frame(chunk, nonce)) = 2 + Len(chunk) + TagLen
         /\ \A i \in 1..2 : Frame(chunk, nonce)[i] = [len |-> Len(chunk) + TagLen]
         /\ \A i \in 1..(Len(chunk) + TagLen) :
              Frame(chunk, nonce)[i + 2] =
                [nonce |-> nonce, at |-> i, plain |-> chunk]
         /\ After(Frame(chunk, nonce), LengthBytes) = Cipher(chunk, nonce)
<1> DEFINE n == Len(chunk) + TagLen
<1>1. n \in Nat /\ n % (MaxNoise + 1) = n
  BY ModBelow, FramingAssumption DEF MaxChunk
<1> QED
  BY <1>1, FramingAssumption DEF Frame, After, Cipher, LengthBytes
-----------------------------------------------------------------------------
(* The invariant.                                                          *)
(*                                                                         *)
(* h[k] says where chunk k begins: message h[k].msg of those sent, byte    *)
(* h[k].at of its encoding, and byte h[k].base of all that was ever handed *)
(* to the BufWriter.  h[sealed] is the next chunk to be sealed, h[opened]  *)
(* the next one to be opened.  What is on its way is then known byte for   *)
(* byte, without summing up lengths over all messages.                     *)

End(m) == HeaderLen + m.size

\* Of the messages s, the chunk that begins at c: its length, its bytes, and
\* the length of its frame.
ChunkLen(s, c) ==
  IF c.at + MaxChunk <= End(s[c.msg]) THEN MaxChunk ELSE End(s[c.msg]) - c.at + 1

ChunkAt(s, c) == Piece(s[c.msg], c.at, ChunkLen(s, c))

FrameLen(s, c) == LengthBytes + ChunkLen(s, c) + TagLen

\* c is inside a message.
Inside(s, c) == c.msg \in DOMAIN s /\ c.at \in 1..End(s[c.msg])

\* Where the chunk after c begins.
Following(s, c) ==
  [msg  |-> IF c.at + MaxChunk <= End(s[c.msg]) THEN c.msg ELSE c.msg + 1,
   at   |-> IF c.at + MaxChunk <= End(s[c.msg]) THEN c.at + MaxChunk ELSE 1,
   base |-> c.base + FrameLen(s, c)]

Starts == [msg : Nat, at : Nat, base : Nat]

\* h says where the first n chunks of the messages s begin, and the next one.
Chunks(h, s, n) ==
  /\ h \in [0..n -> Starts]
  /\ \A k \in 0..(n - 1) : Inside(s, h[k]) /\ h[k + 1] = Following(s, h[k])
  /\ \A j, k \in 0..n : j <= k => h[j].base <= h[k].base

\* f holds bytes of those frames: the ones that come after the first r.
Carries(h, s, n, r, f) ==
  /\ r + Len(f) <= h[n].base
  /\ \A i \in DOMAIN f, k \in 0..(n - 1) :
       LET o == r + i - h[k].base IN
         o \in 1..FrameLen(s, h[k]) => f[i] = Frame(ChunkAt(s, h[k]), k)[o]

\* The writer lost nothing: it works, or it left its loop.
Sound == wpc \in {"idle", "writing", "flushing", "left"}

\* What is left to seal is the rest of the last message, from c on.
WriterAt(c) ==
  Sound =>
    IF rest = << >> THEN c.msg = Len(sent) + 1 /\ c.at = 1
    ELSE /\ Inside(sent, c) /\ c.msg = Len(sent)
         /\ rest = Piece(sent[c.msg], c.at, End(sent[c.msg]) - c.at + 1)

\* ProtocolReader.buffer is the front of the first message not handed out, and
\* the chunk to be opened next continues it or, if it is whole, begins the next.
ReaderAt(c) ==
  /\ buffer # << >> =>
       /\ Len(got) < Len(sent)
       /\ Len(buffer) <= End(sent[Len(got) + 1])
       /\ buffer = Piece(sent[Len(got) + 1], 1, Len(buffer))
  /\ IF buffer # << >> /\ Len(buffer) = End(sent[Len(got) + 1])
       THEN c.msg = Len(got) + 2 /\ c.at = 1
       ELSE c.msg = Len(got) + 1 /\ c.at = Len(buffer) + 1

\* What read_exact has collected is the front of the length, or of the
\* ciphertext, of the frame of the chunk at c.
TakenAt(c) ==
  /\ rpc \in {"length", "ended"} /\ taken # << >> =>
       opened < sealed /\ taken[1] = [len |-> ChunkLen(sent, c) + TagLen]
  /\ rpc = "ciphertext" =>
       /\ opened < sealed
       /\ want = ChunkLen(sent, c) + TagLen
       /\ \A i \in DOMAIN taken :
            taken[i] = [nonce |-> opened, at |-> i, plain |-> ChunkAt(sent, c)]

\* The bytes on their way: while the link is up, also those of the BufWriter.
Flow == net \o (IF link = "open" THEN held ELSE << >>)

\* How many bytes the reader has taken of the frame it is in.
InFrame == Len(taken) + (IF rpc = "ciphertext" THEN LengthBytes ELSE 0)

\* All that is known of bytes, as long as the reader has not failed: each byte
\* on its way is the one its place in the stream says, and none is missing
\* unless the link is lost or the writer died.
Placed(h) ==
  /\ Chunks(h, sent, sealed)
  /\ WriterAt(h[sealed])
  /\ rpc # "failed" =>
       /\ ReaderAt(h[opened])
       /\ TakenAt(h[opened])
       /\ Carries(h, sent, sealed, h[opened].base + InFrame, Flow)
       /\ Sound /\ link # "lost" =>
            h[opened].base + InFrame + Len(Flow) = h[sealed].base

\* What holds at each stage of the two tasks.
Phases ==
  /\ wpc \in {"idle", "flushing"} => rest = << >>
  /\ wpc = "idle" => held = << >>
  /\ wpc \in {"left", "dead", "failed"} => rest = << >> /\ held = << >> /\ link # "open"
  /\ link = "closed" => wpc \in {"left", "dead", "failed"}
  /\ wpc = "failed" => link = "lost" \/ ReaderGone
  /\ rpc \in {"receive", "drain"} => taken = << >>
  /\ rpc = "drain" => buffer = << >>
  /\ rpc = "length" => want = LengthBytes
  /\ rpc \in {"length", "ended"} => Len(taken) < LengthBytes
  /\ rpc = "ciphertext" => Len(taken) < want
  /\ rpc = "ended" => link = "closed"
  /\ rpc \in {"length", "ciphertext", "ended"} => Decode(buffer) = NeedMore

\* Messages are handed out as they were sent.
HandedOut ==
  /\ Len(sent) <= MaxSends
  /\ Len(got) <= Len(sent)
  /\ \A i \in DOMAIN got : got[i] = sent[i]

WireBytes == [len : Nat] \cup [nonce : Nat, at : Nat, plain : Bytes]

WireOK ==
  held \in Seq(WireBytes) /\ net \in Seq(WireBytes) /\ taken \in Seq(WireBytes)

Base == FramingTypeOK /\ WireOK /\ Phases /\ HandedOut /\ RefusesOnlyOversize

FramingInv == Base /\ \E h : Placed(h)

-----------------------------------------------------------------------------
(* Chunks and the bytes of their frames.                                   *)

LEMMA EndOf ==
  ASSUME NEW m \in Messages
  PROVE  End(m) \in Nat /\ End(m) >= HeaderLen /\ m.size \in Nat
<1>1. m.size \in Nat
  BY FramingAssumption DEF Messages
<1> QED
  BY <1>1, FramingAssumption DEF End

LEMMA ChunkFacts ==
  ASSUME NEW s \in Seq(Messages), NEW c \in Starts, Inside(s, c)
  PROVE  /\ ChunkLen(s, c) \in 1..MaxChunk
         /\ ChunkAt(s, c) \in Bytes /\ Len(ChunkAt(s, c)) = ChunkLen(s, c)
         /\ FrameLen(s, c) \in Nat /\ FrameLen(s, c) > LengthBytes
         /\ Following(s, c) \in Starts
         /\ s[c.msg] \in Messages /\ End(s[c.msg]) \in Nat
<1>1. s[c.msg] \in Messages /\ End(s[c.msg]) \in Nat
  <2>1. s[c.msg] \in Messages
    BY DEF Inside
  <2> QED
    BY <2>1, EndOf
<1>2. ChunkLen(s, c) \in 1..MaxChunk
  BY <1>1, FramingAssumption DEF ChunkLen, Inside, Starts, MaxChunk
<1>3. ChunkAt(s, c) \in Bytes /\ Len(ChunkAt(s, c)) = ChunkLen(s, c)
  BY <1>1, <1>2, PieceIsBytes, FramingAssumption DEF ChunkAt, Inside, MaxChunk
<1>4. FrameLen(s, c) \in Nat /\ FrameLen(s, c) > LengthBytes
  BY <1>2, FramingAssumption DEF FrameLen, LengthBytes, MaxChunk
<1>5. Following(s, c) \in Starts
  BY <1>1, <1>4, FramingAssumption DEF Following, Starts, MaxChunk
<1> QED
  BY <1>1, <1>2, <1>3, <1>4, <1>5

\* The bytes of the frame of a chunk.
\* Concatenation is associative.
LEMMA JoinTwice ==
  ASSUME NEW S, NEW u \in Seq(S), NEW v \in Seq(S), NEW w \in Seq(S)
  PROVE  u \o (v \o w) = (u \o v) \o w
OBVIOUS

LEMMA FrameOfChunk ==
  ASSUME NEW s \in Seq(Messages), NEW c \in Starts, Inside(s, c), NEW k \in Nat
  PROVE  /\ Frame(ChunkAt(s, c), k) \in Seq(WireBytes)
         /\ Len(Frame(ChunkAt(s, c), k)) = FrameLen(s, c)
         /\ \A o \in 1..2 :
              Frame(ChunkAt(s, c), k)[o] = [len |-> ChunkLen(s, c) + TagLen]
         /\ \A o \in 1..(ChunkLen(s, c) + TagLen) :
              Frame(ChunkAt(s, c), k)[o + 2] =
                [nonce |-> k, at |-> o, plain |-> ChunkAt(s, c)]
<1> DEFINE x == ChunkAt(s, c)
<1> DEFINE f == Frame(x, k)
<1>1. /\ x \in Bytes /\ Len(x) = ChunkLen(s, c) /\ ChunkLen(s, c) \in 1..MaxChunk
      /\ MaxChunk \in Nat /\ TagLen \in Nat
  BY ChunkFacts, FramingAssumption DEF MaxChunk
<1>2. x \in Seq(Messages \X Nat) /\ Len(x) <= MaxChunk
  BY <1>1 DEF Bytes
<1> HIDE DEF x
<1>3. /\ Len(f) = 2 + Len(x) + TagLen
      /\ \A i \in 1..2 : f[i] = [len |-> Len(x) + TagLen]
      /\ \A i \in 1..(Len(x) + TagLen) :
           f[i + 2] = [nonce |-> k, at |-> i, plain |-> x]
  BY <1>2, FrameBytes
<1>4. f \in Seq(WireBytes)
  <2> DEFINE a == Len(x) + TagLen
             u == [i \in 1..2 |-> [len |-> a % (MaxNoise + 1)]]
             v == [i \in 1..a |-> [nonce |-> k, at |-> i, plain |-> x]]
  <2>1. f = u \o v
    BY DEF Frame, LengthBytes
  <2>2. a \in Nat
    BY <1>1
  <2>3. [len |-> a % (MaxNoise + 1)] \in WireBytes
    BY <2>2, FramingAssumption DEF WireBytes
  <2>4. \A i \in 1..a : [nonce |-> k, at |-> i, plain |-> x] \in WireBytes
    BY <1>1, <2>2 DEF WireBytes
  <2> HIDE DEF a, f
  <2>5. u \in Seq(WireBytes)
    BY <2>3
  <2>6. v \in Seq(WireBytes)
    BY <2>2, <2>4
  <2> HIDE DEF u, v
  <2> QED
    BY <2>1, <2>5, <2>6
<1> QED
  BY <1>1, <1>3, <1>4 DEF FrameLen, LengthBytes, x

\* A message more changes nothing about the chunks there are.
LEMMA SameChunk ==
  ASSUME NEW s \in Seq(Messages), NEW m \in Messages, NEW c, Inside(s, c)
  PROVE  LET t == Append(s, m) IN
           /\ Inside(t, c) /\ Following(t, c) = Following(s, c)
           /\ ChunkLen(t, c) = ChunkLen(s, c) /\ ChunkAt(t, c) = ChunkAt(s, c)
           /\ FrameLen(t, c) = FrameLen(s, c)
<1> DEFINE t == Append(s, m)
<1>1. c.msg \in DOMAIN t /\ t[c.msg] = s[c.msg]
  BY DEF Inside
<1> HIDE DEF t
<1>2. /\ Inside(t, c) /\ Following(t, c) = Following(s, c)
      /\ ChunkLen(t, c) = ChunkLen(s, c) /\ ChunkAt(t, c) = ChunkAt(s, c)
      /\ FrameLen(t, c) = FrameLen(s, c)
  BY <1>1 DEF Inside, Following, ChunkAt, FrameLen, ChunkLen
<1> QED
  BY <1>2 DEF t

LEMMA ChunksAppend ==
  ASSUME NEW s \in Seq(Messages), NEW m \in Messages, NEW n \in Nat,
         NEW h, Chunks(h, s, n)
  PROVE  /\ Chunks(h, Append(s, m), n)
         /\ \A r, f : Carries(h, s, n, r, f) => Carries(h, Append(s, m), n, r, f)
<1> DEFINE t == Append(s, m)
<1>1. \A c : Inside(s, c) =>
        /\ Inside(t, c) /\ Following(t, c) = Following(s, c)
        /\ ChunkAt(t, c) = ChunkAt(s, c) /\ FrameLen(t, c) = FrameLen(s, c)
  BY SameChunk
<1> HIDE DEF t
<1>2. Chunks(h, t, n)
  BY <1>1 DEF Chunks
<1>3. ASSUME NEW r, NEW f, Carries(h, s, n, r, f)
      PROVE  Carries(h, t, n, r, f)
  BY <1>1, <1>3 DEF Carries, Chunks
<1> QED
  BY <1>2, <1>3 DEF t

\* The reader takes a byte.
LEMMA CarriesTail ==
  ASSUME NEW s, NEW n \in Nat, NEW h, Chunks(h, s, n), NEW r \in Nat,
         NEW S, NEW f \in Seq(S), f # << >>, Carries(h, s, n, r, f)
  PROVE  Carries(h, s, n, r + 1, Tail(f)) /\ Len(Tail(f)) = Len(f) - 1
<1>1. Len(Tail(f)) = Len(f) - 1 /\ \A i \in DOMAIN Tail(f) : Tail(f)[i] = f[i + 1] /\ i + 1 \in DOMAIN f
  OBVIOUS
<1>2. \A k \in 0..n : h[k].base \in Nat
  BY DEF Chunks, Starts
<1>3. r + 1 + Len(Tail(f)) <= h[n].base
  BY <1>1, <1>2 DEF Carries
<1>4. ASSUME NEW i \in DOMAIN Tail(f), NEW k \in 0..(n - 1),
             r + 1 + i - h[k].base \in 1..FrameLen(s, h[k])
      PROVE  Tail(f)[i] = Frame(ChunkAt(s, h[k]), k)[r + 1 + i - h[k].base]
  <2>1. r + (i + 1) - h[k].base = r + 1 + i - h[k].base
    <3> DEFINE b == h[k].base
    <3>1. b \in Nat /\ i \in Int
      BY <1>2
    <3> HIDE DEF b
    <3>2. r + (i + 1) - b = r + 1 + i - b
      BY <3>1
    <3> QED
      BY <3>2 DEF b
  <2> QED
    BY <1>1, <1>4, <2>1 DEF Carries
<1> QED
  BY <1>1, <1>3, <1>4 DEF Carries

\* The end of the stream is cut off.
LEMMA CarriesFront ==
  ASSUME NEW s, NEW n \in Nat, NEW h, Chunks(h, s, n), NEW r \in Nat,
         NEW S, NEW f \in Seq(S), NEW g \in Seq(S), Carries(h, s, n, r, f \o g)
  PROVE  Carries(h, s, n, r, f)
<1>1. h[n].base \in Nat
  BY DEF Chunks, Starts
<1>2. \A i \in DOMAIN f : i \in DOMAIN (f \o g) /\ (f \o g)[i] = f[i]
  OBVIOUS
<1>3. Len(f) <= Len(f \o g) /\ Len(f \o g) \in Nat
  OBVIOUS
<1>4. Len(f) \in Nat /\ r + Len(f \o g) <= h[n].base
  BY DEF Carries
<1>5. r + Len(f) <= h[n].base
  BY <1>1, <1>3, <1>4
<1>6. ASSUME NEW i \in DOMAIN f, NEW k \in 0..(n - 1),
             r + i - h[k].base \in 1..FrameLen(s, h[k])
      PROVE  f[i] = Frame(ChunkAt(s, h[k]), k)[r + i - h[k].base]
  BY <1>2, <1>6 DEF Carries
<1> QED
  BY <1>5, <1>6 DEF Carries

\* h2 is h with the chunk that is sealed behind all there is.
LongerBy(h, h2, s, n, r) ==
  /\ \A k \in 0..n : h2[k] = h[k]
  /\ h2[n + 1] = Following(s, h[n])
  /\ Chunks(h2, s, n + 1)
  /\ \A f \in Seq(WireBytes) :
       Carries(h, s, n, r, f) =>
         LET g == f \o Frame(ChunkAt(s, h[n]), n) IN
           /\ Carries(h2, s, n + 1, r, f)
           /\ Len(g) = Len(f) + FrameLen(s, h[n])
           /\ r + Len(f) = h[n].base =>
                /\ Carries(h2, s, n + 1, r, g)
                /\ r + Len(g) = h2[n + 1].base

LEMMA CarriesMore ==
  ASSUME NEW s \in Seq(Messages), NEW n \in Nat, NEW h, Chunks(h, s, n),
         Inside(s, h[n]), NEW r \in Nat
  PROVE  \E h2 : LongerBy(h, h2, s, n, r)
<1> DEFINE c == h[n]
           h2 == [k \in 0..(n + 1) |-> IF k <= n THEN h[k] ELSE Following(s, c)]
<1>1. \A k \in 0..n : h[k] \in Starts
  BY DEF Chunks
<1>2. c \in Starts /\ Following(s, c) \in Starts /\ FrameLen(s, c) \in Nat
  BY <1>1, ChunkFacts
<1>3. /\ \A k \in 0..n : h2[k] = h[k]
      /\ h2[n + 1] = Following(s, c)
      /\ h2 \in [0..(n + 1) -> Starts]
  BY <1>1, <1>2
<1>4. h2[n + 1].base = c.base + FrameLen(s, c)
  BY <1>3 DEF Following
<1> HIDE DEF h2
<1>5. Chunks(h2, s, n + 1)
  <2>1. \A k \in 0..n : Inside(s, h2[k]) /\ h2[k + 1] = Following(s, h2[k])
    <3> SUFFICES ASSUME NEW k \in 0..n
                 PROVE  Inside(s, h2[k]) /\ h2[k + 1] = Following(s, h2[k])
      OBVIOUS
    <3>1. CASE k = n
      BY <3>1, <1>3
    <3>2. CASE k < n
      <4>1. k \in 0..(n - 1) /\ k + 1 \in 0..n
        BY <3>2
      <4> QED
        BY <4>1, <1>3 DEF Chunks
    <3> QED
      BY <3>1, <3>2
  <2>2. \A j, k \in 0..(n + 1) : j <= k => h2[j].base <= h2[k].base
    <3> SUFFICES ASSUME NEW j \in 0..(n + 1), NEW k \in 0..(n + 1), j <= k
                 PROVE  h2[j].base <= h2[k].base
      OBVIOUS
    <3>1. \A i \in 0..n : h[i].base \in Nat /\ h[i].base <= c.base
      BY <1>1 DEF Chunks, Starts
    <3>2. CASE k <= n
      BY <3>2, <1>3 DEF Chunks
    <3>3. CASE k = n + 1 /\ j <= n
      BY <3>1, <3>3, <1>2, <1>3, <1>4
    <3>4. CASE k = n + 1 /\ j = n + 1
      BY <3>1, <3>4, <1>2, <1>4
    <3> QED
      BY <3>2, <3>3, <3>4
  <2> QED
    BY <1>3, <2>1, <2>2 DEF Chunks
<1>6. ASSUME NEW f \in Seq(WireBytes), Carries(h, s, n, r, f)
      PROVE  LET g == f \o Frame(ChunkAt(s, h[n]), n) IN
               /\ Len(g) = Len(f) + FrameLen(s, h[n])
               /\ r + Len(f) = h[n].base =>
                    /\ Carries(h2, s, n + 1, r, g)
                    /\ r + Len(g) = h2[n + 1].base
  <2> DEFINE F == Frame(ChunkAt(s, c), n)
             g == f \o F
  <2>1. F \in Seq(WireBytes) /\ Len(F) = FrameLen(s, c)
    BY <1>2, FrameOfChunk
  <2> HIDE DEF F
  <2>2. /\ Len(g) = Len(f) + FrameLen(s, c)
        /\ \A i \in DOMAIN g :
             g[i] = IF i <= Len(f) THEN f[i] ELSE F[i - Len(f)]
    BY <2>1
  <2>3. ASSUME r + Len(f) = c.base
        PROVE  Carries(h2, s, n + 1, r, g) /\ r + Len(g) = h2[n + 1].base
    <3>0. c.base \in Nat /\ Len(f) \in Nat
      BY <1>2 DEF Starts
    <3>1. r + Len(g) = h2[n + 1].base
      BY <3>0, <2>2, <2>3, <1>2, <1>4
    <3>2. ASSUME NEW i \in DOMAIN g, NEW k \in 0..n,
                 r + i - h2[k].base \in 1..FrameLen(s, h2[k])
          PROVE  g[i] = Frame(ChunkAt(s, h2[k]), k)[r + i - h2[k].base]
      <4>1. /\ h2[k] = h[k] /\ h[k] \in Starts /\ h[k].base \in Nat
            /\ i \in 1..(Len(f) + FrameLen(s, c))
        <5>1. h2[k] = h[k] /\ h[k] \in Starts
          BY <1>1, <1>3
        <5>2. h[k].base \in Nat
          BY <5>1 DEF Starts
        <5>3. i \in 1..Len(g)
          BY <2>1
        <5> HIDE DEF g
        <5> QED
          BY <5>1, <5>2, <5>3, <2>2
      <4>2. CASE k = n
        <5>1. r + i - c.base = i - Len(f) /\ i > Len(f)
          BY <4>1, <4>2, <3>2, <2>3, <3>0, <1>2
        <5> QED
          BY <5>1, <4>1, <4>2, <2>2 DEF F
      <4>3. CASE k < n
        <5>1. k \in 0..(n - 1) /\ k + 1 \in 0..n /\ Inside(s, h[k])
          BY <4>3 DEF Chunks
        <5>2. h[k + 1].base = h[k].base + FrameLen(s, h[k])
          <6>1. h[k + 1] = Following(s, h[k])
            BY <5>1 DEF Chunks
          <6> QED
            BY <6>1 DEF Following
        <5>3. h[k + 1].base <= c.base /\ FrameLen(s, h[k]) \in Nat
          BY <5>1, <4>1, ChunkFacts DEF Chunks
        <5>4. i <= Len(f) /\ i \in DOMAIN f
          <6> DEFINE b == h[k].base
                     l == FrameLen(s, h[k])
                     d == c.base
                     e == Len(f)
          <6>1. r + i - b \in 1..l /\ b \in Nat /\ l \in Nat /\ i \in Nat /\ i > 0
            BY <4>1, <3>2, <5>3
          <6>2. b + l <= d /\ r + e = d /\ d \in Nat /\ e \in Nat
            BY <5>2, <5>3, <2>3, <3>0
          <6> HIDE DEF b, l, d, e
          <6>3. i <= e /\ i \in 1..e
            BY <6>1, <6>2
          <6> QED
            BY <6>3 DEF e
        <5>5. g[i] = f[i]
          BY <5>4, <2>2
        <5> QED
          BY <5>1, <5>4, <5>5, <4>1, <3>2, <1>6 DEF Carries
      <4> QED
        BY <4>2, <4>3
    <3>3. (n + 1) - 1 = n /\ r + Len(g) <= h2[n + 1].base
      BY <3>1, <2>2, <3>0, <1>2
    <3> HIDE DEF g
    <3> QED
      BY <3>1, <3>2, <3>3 DEF Carries
  <2> QED
    BY <2>2, <2>3 DEF F
<1>7. ASSUME NEW f \in Seq(WireBytes), Carries(h, s, n, r, f)
      PROVE  Carries(h2, s, n + 1, r, f)
  <2>0. c.base \in Nat /\ Len(f) \in Nat /\ r + Len(f) <= h2[n + 1].base
    BY <1>2, <1>4, <1>7 DEF Starts, Carries
  <2>1. ASSUME NEW i \in DOMAIN f, NEW k \in 0..n,
               r + i - h2[k].base \in 1..FrameLen(s, h2[k])
        PROVE  f[i] = Frame(ChunkAt(s, h2[k]), k)[r + i - h2[k].base]
    <3>1. CASE k = n
      <4>1. r + i <= c.base
        BY <2>0, <1>7 DEF Carries
      <4>2. h2[k] = c
        BY <3>1, <1>3
      <4>3. r + i - c.base \in 1..FrameLen(s, c)
        BY <4>2, <2>1, <3>1
      <4>4. i \in Nat
        OBVIOUS
      <4> QED
        BY <4>1, <4>3, <4>4, <2>0, <1>2
    <3>2. CASE k < n
      <4>1. k \in 0..(n - 1) /\ h2[k] = h[k]
        BY <3>2, <1>3
      <4> QED
        BY <4>1, <2>1, <1>7 DEF Carries
    <3> QED
      BY <3>1, <3>2
  <2>2. (n + 1) - 1 = n
    OBVIOUS
  <2> QED
    BY <2>0, <2>1, <2>2 DEF Carries
<1> QED
  BY <1>3, <1>5, <1>6, <1>7 DEF LongerBy

-----------------------------------------------------------------------------
(* What the invariant says of the buffer and of the next byte.             *)

NextOut == sent[Len(got) + 1]

LEMMA BufferFacts ==
  ASSUME FramingTypeOK, NEW c, ReaderAt(c)
  PROVE  /\ Decode(buffer) = NeedMore =>
              buffer = << >> \/ Len(buffer) < End(NextOut)
         /\ Decode(buffer) = "message" =>
              /\ buffer # << >> /\ Len(got) < Len(sent)
              /\ Len(buffer) = End(NextOut)
              /\ buffer[1][1] = NextOut /\ DropMessage = << >>
         /\ Decode(buffer) = Refused => Len(got) < Len(sent) /\ TooBig(NextOut)
<1> DEFINE m == NextOut
<1>1. CASE buffer = << >>
  BY <1>1, FramingAssumption DEF Decode, NeedMore, Refused
<1>2. CASE buffer # << >>
  <2>1. /\ Len(got) < Len(sent) /\ Len(buffer) <= End(m)
        /\ buffer = Piece(m, 1, Len(buffer))
        /\ Len(buffer) \in Nat /\ Len(buffer) > 0
    BY <1>2 DEF ReaderAt, NextOut, FramingTypeOK, Bytes
  <2>2. m \in Messages
    BY <2>1 DEF NextOut, FramingTypeOK
  <2>3. buffer[1] = <<m, 1>>
    BY <2>1 DEF Piece
  <2>4. buffer[1][1] = m /\ buffer[1][2] = 1
    BY <2>3
  <2>5. End(m) \in Nat /\ End(m) = HeaderLen + m.size
    BY <2>2, EndOf DEF End
  <2> HIDE DEF m
  <2>6. Len(buffer) < HeaderLen => Decode(buffer) = NeedMore
    BY DEF Decode
  <2>7. Len(buffer) >= HeaderLen =>
          Decode(buffer) =
            IF TooBig(m) THEN Refused
            ELSE IF Len(buffer) < End(m) THEN NeedMore
            ELSE IF Front(buffer, End(m)) = Encode(m) THEN "message"
            ELSE Refused
    BY <2>1, <2>4, <2>5, FramingAssumption DEF Decode
  <2>8. Len(buffer) = End(m) => Front(buffer, End(m)) = Encode(m)
    <3> SUFFICES ASSUME Len(buffer) = End(m) PROVE Front(buffer, End(m)) = Encode(m)
      OBVIOUS
    <3>1. Front(Piece(m, 1, Len(buffer)), End(m)) = Piece(m, 1, End(m))
      BY <2>5, FrontOfPiece
    <3>2. Encode(m) = Piece(m, 1, End(m))
      BY <2>2, <2>5, EncodeIsPiece
    <3> QED
      BY <3>1, <3>2, <2>1
  <2>9. Len(buffer) = End(m) => DropMessage = << >>
    <3> SUFFICES ASSUME Len(buffer) = End(m) PROVE DropMessage = << >>
      OBVIOUS
    <3>1. After(Piece(m, 1, Len(buffer)), End(m)) = << >>
      BY <2>5, AfterPiece
    <3> QED
      BY <3>1, <2>1, <2>4, <2>5 DEF DropMessage
  <2>10. Len(buffer) < HeaderLen => Len(buffer) < End(m)
    BY <2>2, <2>1, <2>5, EndOf, FramingAssumption
  <2> QED
    BY <1>2, <2>1, <2>4, <2>5, <2>6, <2>7, <2>8, <2>9, <2>10, FramingAssumption
      DEF m, NeedMore, Refused
<1> QED
  BY <1>1, <1>2

LEMMA NextByte ==
  ASSUME FramingTypeOK, WireOK, Phases, NEW h, Placed(h), rpc # "failed"
  PROVE  /\ h[opened] \in Starts /\ InFrame \in Nat
         /\ opened < sealed =>
              /\ Inside(sent, h[opened]) /\ InFrame + 1 \in 1..FrameLen(sent, h[opened])
              /\ h[opened].base + FrameLen(sent, h[opened]) <= h[sealed].base
              /\ h[opened + 1] = Following(sent, h[opened])
         /\ net # << >> =>
              /\ opened < sealed
              /\ Head(net) = Frame(ChunkAt(sent, h[opened]), opened)[InFrame + 1]
<1> DEFINE c == h[opened]
           r == c.base + InFrame
<1>1. /\ opened \in 0..sealed /\ opened \in Nat /\ sealed \in Nat
      /\ sent \in Seq(Messages) /\ Len(taken) \in Nat
  BY DEF FramingTypeOK, WireOK
<1>2. c \in Starts /\ c.base \in Nat /\ h[sealed].base \in Nat
  BY <1>1 DEF Placed, Chunks, Starts
<1>3. InFrame \in Nat
  BY <1>1 DEF InFrame, LengthBytes
<1>4. ASSUME opened < sealed
      PROVE  /\ Inside(sent, c) /\ InFrame + 1 \in 1..FrameLen(sent, c)
             /\ c.base + FrameLen(sent, c) <= h[sealed].base
             /\ h[opened + 1] = Following(sent, c)
             /\ FrameLen(sent, c) \in Nat
  <2>1. opened \in 0..(sealed - 1) /\ opened + 1 \in 0..sealed /\ sealed \in 0..sealed
    BY <1>1, <1>4
  <2>2. Inside(sent, c) /\ h[opened + 1] = Following(sent, c)
    BY <2>1 DEF Placed, Chunks
  <2>3. h[opened + 1].base <= h[sealed].base
    BY <2>1, <1>1 DEF Placed, Chunks
  <2>4. c.base + FrameLen(sent, c) <= h[sealed].base
    BY <2>2, <2>3 DEF Following
  <2>5. /\ ChunkLen(sent, c) \in 1..MaxChunk /\ FrameLen(sent, c) \in Nat
        /\ FrameLen(sent, c) > LengthBytes
    BY <1>1, <1>2, <2>2, ChunkFacts
  <2>6. InFrame < FrameLen(sent, c)
    <3>1. CASE rpc = "ciphertext"
      <4>1. Len(taken) < ChunkLen(sent, c) + TagLen
        BY <3>1 DEF Phases, Placed, TakenAt
      <4> QED
        BY <4>1, <2>5, <3>1, <1>1, FramingAssumption
          DEF InFrame, FrameLen, LengthBytes, MaxChunk
    <3>2. CASE rpc \in {"length", "ended"}
      BY <3>2, <2>5, <1>1 DEF Phases, InFrame, LengthBytes
    <3>3. CASE rpc \in {"receive", "drain"}
      BY <3>3, <2>5, <1>1 DEF Phases, InFrame, LengthBytes
    <3> QED
      BY <3>1, <3>2, <3>3 DEF FramingTypeOK
  <2> QED
    BY <1>3, <2>2, <2>4, <2>5, <2>6
<1>5. ASSUME net # << >>
      PROVE  /\ opened < sealed
             /\ Head(net) = Frame(ChunkAt(sent, c), opened)[InFrame + 1]
  <2>1. Flow \in Seq(WireBytes) /\ Len(Flow) > 0 /\ Flow[1] = Head(net)
        /\ 1 \in DOMAIN Flow
    BY <1>5 DEF WireOK, Flow
  <2>2. Carries(h, sent, sealed, r, Flow)
    BY DEF Placed
  <2>3. r < h[sealed].base
    BY <2>1, <2>2, <1>2, <1>3 DEF Carries
  <2>4. opened < sealed
    BY <2>3, <1>1, <1>2, <1>3
  <2>5. opened \in 0..(sealed - 1) /\ r + 1 - c.base = InFrame + 1
    BY <2>4, <1>1, <1>2, <1>3
  <2>6. r + 1 - h[opened].base \in 1..FrameLen(sent, h[opened])
    BY <1>4, <2>4, <2>5
  <2>7. Flow[1] = Frame(ChunkAt(sent, h[opened]), opened)[r + 1 - h[opened].base]
    BY <2>1, <2>2, <2>5, <2>6 DEF Carries
  <2> QED
    BY <2>1, <2>4, <2>5, <2>7
<1> QED
  BY <1>2, <1>3, <1>4, <1>5

-----------------------------------------------------------------------------
(* The writer's steps.                                                     *)

USE DEF writer, reader

LEMMA SendKeeps ==
  ASSUME Base, NEW h, Placed(h), NEW m \in Messages, Send(m)
  PROVE  Base' /\ Placed(h)'
<1> DEFINE c == h[opened]
<1>1. /\ sent \in Seq(Messages) /\ sent' = Append(sent, m) /\ sealed \in Nat
      /\ Len(sent) \in Nat /\ opened \in 0..sealed /\ opened \in Nat
  BY DEF Base, FramingTypeOK, Send
<1>2. /\ End(m) \in Nat /\ End(m) > 0 /\ rest' = Piece(m, 1, End(m))
      /\ Piece(m, 1, End(m)) \in Bytes /\ Len(Piece(m, 1, End(m))) = End(m)
  BY EndOf, EncodeIsPiece, PieceIsBytes, FramingAssumption DEF Send, End
<1>3. rest' # << >>
  BY <1>2
<1>4. FramingTypeOK' /\ WireOK'
  BY <1>1, <1>2 DEF Base, FramingTypeOK, WireOK, Send
<1>5. Phases' /\ RefusesOnlyOversize'
  <2>1. Phases'
    BY DEF Base, Phases, Send, ReaderGone
  <2>2. SentTooBig(MaxSends) => SentTooBig(MaxSends)'
    BY <1>1 DEF SentTooBig, TooBig
  <2> QED
    BY <2>1, <2>2 DEF Base, RefusesOnlyOversize, Send
<1>6. HandedOut'
  <2>1. m.id \in 1..MaxSends /\ m.id = Len(sent) + 1
    BY DEF Messages, Send
  <2>2. \A i \in DOMAIN sent : sent'[i] = sent[i]
    BY <1>1
  <2>3. Len(sent') = Len(sent) + 1 /\ Len(got) \in Nat /\ got' = got
    BY <1>1 DEF Base, FramingTypeOK, Send
  <2> QED
    BY <1>1, <2>1, <2>2, <2>3, FramingAssumption DEF Base, FramingTypeOK, HandedOut
<1>7. Chunks(h, sent', sealed)
  BY <1>1, ChunksAppend DEF Placed
<1>8. WriterAt(h[sealed])'
  <2>1. h[sealed].msg = Len(sent) + 1 /\ h[sealed].at = 1
    BY DEF Base, Phases, Placed, WriterAt, Sound, Send
  <2>2. sent'[Len(sent) + 1] = m /\ Len(sent') = Len(sent) + 1
    BY <1>1
  <2> QED
    BY <1>1, <1>2, <1>3, <2>1, <2>2 DEF WriterAt, Inside, Send
<1>9. ASSUME rpc # "failed"
      PROVE  /\ ReaderAt(c)' /\ TakenAt(c)'
             /\ Carries(h, sent', sealed, c.base + InFrame, Flow)
  <2>1. ReaderAt(c)'
    <3>1. ReaderAt(c)
      BY <1>9 DEF Placed
    <3>2. Len(got) < Len(sent) => sent'[Len(got) + 1] = sent[Len(got) + 1]
      BY <1>1 DEF Base, FramingTypeOK
    <3>3. Len(got) < Len(sent) => Len(got) < Len(sent')
      BY <1>1 DEF Base, FramingTypeOK
    <3> QED
      BY <3>1, <3>2, <3>3 DEF ReaderAt, Send
  <2>2. TakenAt(c)'
    <3>1. opened < sealed => Inside(sent, c)
      BY <1>9, NextByte DEF Base
    <3>2. opened < sealed =>
            ChunkLen(sent', c) = ChunkLen(sent, c) /\ ChunkAt(sent', c) = ChunkAt(sent, c)
      BY <1>1, <3>1, SameChunk
    <3> QED
      BY <1>9, <3>2 DEF Placed, TakenAt, Send
  <2>3. Carries(h, sent', sealed, c.base + InFrame, Flow)
    BY <1>1, <1>9, ChunksAppend DEF Placed
  <2> QED
    BY <2>1, <2>2, <2>3
<1>10. Placed(h)'
  <2>1. /\ InFrame' = InFrame /\ Flow' = Flow /\ sealed' = sealed /\ opened' = opened
        /\ rpc' = rpc /\ link' = link /\ Sound /\ h[opened'] = h[opened]
    BY DEF Send, InFrame, Flow, Sound
  <2> QED
    BY <1>7, <1>8, <1>9, <2>1 DEF Placed
<1> QED
  BY <1>4, <1>5, <1>6, <1>10 DEF Base

LEMMA SealKeeps ==
  ASSUME Base, NEW h, Placed(h), SealChunk
  PROVE  Base' /\ \E h2 : Placed(h2)'
<1> DEFINE c == h[sealed]
           m == sent[c.msg]
           n == End(m) - c.at + 1
<1>1. /\ sent \in Seq(Messages) /\ sealed \in Nat /\ opened \in 0..sealed /\ opened \in Nat
      /\ MaxChunk \in Nat /\ MaxChunk > 0 /\ held \in Seq(WireBytes)
      /\ net \in Seq(WireBytes) /\ Len(taken) \in Nat
  BY FramingAssumption DEF Base, FramingTypeOK, WireOK, MaxChunk
<1>2. c \in Starts /\ c.at \in Nat
  BY <1>1 DEF Placed, Chunks, Starts
<1>3. Inside(sent, c) /\ c.msg = Len(sent) /\ rest = Piece(m, c.at, n)
  BY DEF Placed, WriterAt, Sound, SealChunk
<1>4. m \in Messages /\ End(m) \in Nat /\ c.at \in 1..End(m) /\ n \in Nat /\ n > 0
  <2>1. m \in Messages /\ End(m) \in Nat
    BY <1>1, <1>2, <1>3, ChunkFacts
  <2>2. c.at \in 1..End(m)
    BY <1>3 DEF Inside
  <2> HIDE DEF m, c
  <2> QED
    BY <2>1, <2>2
<1> HIDE DEF n
<1>5. /\ Front(rest, MaxChunk) = ChunkAt(sent, c)
      /\ rest' = IF MaxChunk < n THEN Piece(m, c.at + MaxChunk, n - MaxChunk) ELSE << >>
  <2>1. Front(rest, MaxChunk) = Piece(m, c.at, IF MaxChunk < n THEN MaxChunk ELSE n)
    BY <1>1, <1>2, <1>3, <1>4, FrontOfPiece
  <2>2. ChunkLen(sent, c) = IF MaxChunk < n THEN MaxChunk ELSE n
    <3>1. ChunkLen(sent, c) = IF c.at + MaxChunk <= End(m) THEN MaxChunk ELSE n
      BY DEF ChunkLen, n
    <3>2. c.at + MaxChunk <= End(m) <=> MaxChunk < n
      <4> HIDE DEF m, c
      <4> QED
        BY <1>1, <1>4 DEF n
    <3> HIDE DEF m, c
    <3> QED
      BY <3>1, <3>2
  <2>3. After(rest, MaxChunk) = IF MaxChunk < n THEN Piece(m, c.at + MaxChunk, n - MaxChunk) ELSE << >>
    <3>1. rest = Piece(m, c.at, n)
      BY <1>3
    <3> HIDE DEF m, c
    <3> QED
      BY <3>1, <1>1, <1>2, <1>4, AfterPiece
  <2> QED
    BY <2>1, <2>2, <2>3 DEF ChunkAt, SealChunk
<1> DEFINE F == Frame(ChunkAt(sent, c), sealed)
<1>6. held' = held \o F /\ F \in Seq(WireBytes)
  BY <1>1, <1>2, <1>3, <1>5, FrameOfChunk DEF SealChunk
<1>7. rest' \in Bytes
  <2>1. CASE MaxChunk < n
    <3>1. n - MaxChunk \in Nat /\ c.at + MaxChunk \in Nat /\ c.at + MaxChunk > 0
      <4> HIDE DEF m, c
      <4> QED
        BY <1>1, <1>2, <1>4, <2>1
    <3> QED
      BY <3>1, <2>1, <1>4, <1>5, PieceIsBytes
  <2>2. CASE ~(MaxChunk < n)
    BY <2>2, <1>5 DEF Bytes
  <2> QED
    BY <2>1, <2>2
<1>8. Base'
  <2>1. FramingTypeOK' /\ WireOK'
    BY <1>1, <1>6, <1>7 DEF Base, FramingTypeOK, WireOK, SealChunk
  <2>2. Phases' /\ HandedOut' /\ RefusesOnlyOversize'
    BY DEF Base, Phases, HandedOut, RefusesOnlyOversize, SentTooBig, SealChunk, ReaderGone
  <2> QED
    BY <2>1, <2>2 DEF Base
<1> DEFINE r == h[opened].base + InFrame
<1>9. r \in Nat /\ InFrame \in Nat
  <2>1. InFrame \in Nat
    BY <1>1 DEF InFrame, LengthBytes
  <2>2. h[opened].base \in Nat
    BY <1>1 DEF Placed, Chunks, Starts
  <2> QED
    BY <2>1, <2>2
<1>10. PICK h2 : LongerBy(h, h2, sent, sealed, r)
  <2> HIDE DEF r
  <2>1. Chunks(h, sent, sealed)
    BY DEF Placed
  <2> QED
    BY <1>1, <1>3, <1>9, <2>1, CarriesMore
<1>11. /\ \A k \in 0..sealed : h2[k] = h[k]
       /\ h2[sealed + 1] = Following(sent, c)
       /\ Chunks(h2, sent, sealed + 1)
  BY <1>10 DEF LongerBy
<1>12. ASSUME NEW f \in Seq(WireBytes), Carries(h, sent, sealed, r, f)
       PROVE  /\ Carries(h2, sent, sealed + 1, r, f)
              /\ r + Len(f) = h[sealed].base =>
                   /\ Carries(h2, sent, sealed + 1, r, f \o F)
                   /\ r + Len(f \o F) = h2[sealed + 1].base
  <2> HIDE DEF r
  <2> QED
    BY <1>10, <1>12 DEF LongerBy
<1>13. WriterAt(h2[sealed])'
  <2>1. CASE MaxChunk < n
    <3>0. ASSUME NEW e \in Nat, NEW a \in 1..e, NEW x \in Nat, x > 0, x < e - a + 1
          PROVE  /\ a + x <= e /\ (e - a + 1) - x = e - (a + x) + 1
                 /\ a + x \in 1..e /\ (e - a + 1) - x \in Nat /\ (e - a + 1) - x > 0
      BY <3>0
    <3>1. Following(sent, c).msg = c.msg /\ Following(sent, c).at = c.at + MaxChunk
      BY <2>1, <3>0, <1>1, <1>4 DEF Following, n
    <3>2. /\ n - MaxChunk = End(m) - (c.at + MaxChunk) + 1
          /\ c.at + MaxChunk \in 1..End(m)
          /\ n - MaxChunk \in Nat /\ n - MaxChunk > 0
      <4> HIDE DEF m, c
      <4> QED
        BY <2>1, <3>0, <1>1, <1>4 DEF n
    <3>3. Len(Piece(m, c.at + MaxChunk, n - MaxChunk)) = n - MaxChunk
      <4>1. c.at + MaxChunk \in Nat /\ c.at + MaxChunk > 0
        BY <1>1, <1>2
      <4> QED
        BY <3>2, <4>1, <1>4, PieceIsBytes
    <3>4. rest' = Piece(m, c.at + MaxChunk, n - MaxChunk) /\ rest' # << >>
      BY <2>1, <1>5, <3>2, <3>3
    <3> QED
      BY <3>1, <3>2, <3>4, <1>3, <1>11 DEF WriterAt, Inside, SealChunk
  <2>2. CASE ~(MaxChunk < n)
    <3>1. Following(sent, c).msg = c.msg + 1 /\ Following(sent, c).at = 1
      BY <2>2, <1>1, <1>4 DEF Following, n
    <3> QED
      BY <2>2, <3>1, <1>3, <1>5, <1>11 DEF WriterAt, SealChunk
  <2> QED
    BY <2>1, <2>2
<1>14. ASSUME rpc # "failed"
       PROVE  /\ Carries(h2, sent, sealed + 1, r, Flow')
              /\ link # "lost" => r + Len(Flow') = h2[sealed + 1].base
  <2>1. Carries(h, sent, sealed, r, Flow) /\ Flow \in Seq(WireBytes)
    BY <1>14, <1>1 DEF Placed, Flow
  <2>2. CASE link = "open"
    <3>1. Flow' = Flow \o F
      <4>1. Flow = net \o held /\ Flow' = net \o held'
        BY <2>2 DEF Flow, SealChunk
      <4> HIDE DEF F
      <4>2. net \o (held \o F) = (net \o held) \o F
        BY <1>1, <1>6, JoinTwice
      <4> QED
        BY <4>1, <4>2, <1>6
    <3>2. r + Len(Flow) = h[sealed].base
      BY <2>2, <1>14 DEF Placed, Sound, SealChunk
    <3> QED
      BY <2>1, <3>1, <3>2, <1>12
  <2>3. CASE link # "open"
    <3>1. Flow' = Flow /\ link = "lost"
      BY <2>3 DEF Flow, SealChunk, Base, Phases, FramingTypeOK
    <3> QED
      BY <2>1, <3>1, <1>12
  <2> QED
    BY <2>2, <2>3
<1>15. Placed(h2)'
  <2>1. /\ InFrame' = InFrame /\ sealed' = sealed + 1 /\ opened' = opened /\ sent' = sent
        /\ rpc' = rpc /\ link' = link /\ h2[opened'] = h[opened]
    BY <1>1, <1>11 DEF SealChunk, InFrame
  <2>2. rpc # "failed" => ReaderAt(h2[opened])' /\ TakenAt(h2[opened])'
    <3>1. h2[opened] = h[opened]
      BY <1>1, <1>11
    <3> QED
      BY <3>1, <1>1 DEF Placed, ReaderAt, TakenAt, SealChunk
  <2> QED
    BY <1>11, <1>13, <1>14, <2>1, <2>2 DEF Placed
<1> QED
  BY <1>8, <1>15

LEMMA ReturnKeeps ==
  ASSUME Base, NEW h, Placed(h), SendReturns \/ FlushReturns
  PROVE  Base' /\ Placed(h)'
<1>1. /\ UNCHANGED <<rest, sealed, held, sent, net, link, reader, drains>>
      /\ wpc \in {"writing", "flushing"} /\ wpc' \in {"idle", "flushing"}
      /\ rest = << >>
      /\ wpc' = "idle" => held = << >>
  BY DEF SendReturns, FlushReturns, Base, Phases
<1>2. Base'
  <2>1. FramingTypeOK' /\ WireOK'
    BY <1>1 DEF Base, FramingTypeOK, WireOK
  <2>2. Phases' /\ HandedOut' /\ RefusesOnlyOversize'
    BY <1>1 DEF Base, Phases, HandedOut, RefusesOnlyOversize, SentTooBig, ReaderGone
  <2> QED
    BY <2>1, <2>2 DEF Base
<1>3. Sound /\ Sound'
  BY <1>1 DEF Sound
<1>4. InFrame' = InFrame /\ Flow' = Flow
  BY <1>1 DEF InFrame, Flow
<1>5. WriterAt(h[sealed])'
  BY <1>1, <1>3 DEF Placed, WriterAt
<1>6. rpc # "failed" => ReaderAt(h[opened])' /\ TakenAt(h[opened])'
  BY <1>1 DEF Placed, ReaderAt, TakenAt
<1>7. Placed(h)'
  BY <1>1, <1>3, <1>4, <1>5, <1>6 DEF Placed
<1> QED
  BY <1>2, <1>7

LEMMA PassOnKeeps ==
  ASSUME Base, NEW h, Placed(h), PassOn
  PROVE  Base' /\ Placed(h)'
<1>1. /\ wpc \in {"writing", "flushing"} /\ held # << >> /\ held' = Tail(held)
      /\ UNCHANGED <<wpc, rest, sealed, sent, link, reader, drains>>
      /\ held \in Seq(WireBytes) /\ net \in Seq(WireBytes)
  BY DEF PassOn, Base, WireOK
<1>2. Head(held) \in WireBytes /\ Tail(held) \in Seq(WireBytes)
  BY <1>1
<1>3. net' \in Seq(WireBytes) /\ Len(net') <= NetCap
  <2>1. CASE net' = net
    BY <2>1, <1>1 DEF Base, FramingTypeOK
  <2>2. CASE net' = Append(net, Head(held)) /\ Len(net) < NetCap
    <3>1. Len(net') = Len(net) + 1 /\ Len(net) \in Nat
      BY <2>2, <1>1, <1>2
    <3> QED
      BY <2>2, <3>1, <1>1, <1>2, FramingAssumption
  <2> QED
    BY <2>1, <2>2 DEF PassOn
<1>4. Base'
  <2>1. FramingTypeOK' /\ WireOK'
    BY <1>1, <1>2, <1>3 DEF Base, FramingTypeOK, WireOK
  <2>2. Phases' /\ HandedOut' /\ RefusesOnlyOversize'
    BY <1>1 DEF Base, Phases, HandedOut, RefusesOnlyOversize, SentTooBig, ReaderGone
  <2> QED
    BY <2>1, <2>2 DEF Base
<1>5. InFrame' = InFrame /\ (Sound' <=> Sound)
  BY <1>1 DEF InFrame, Sound
<1>6. ASSUME rpc # "failed" PROVE Flow' = Flow
  <2>1. link # "closed" /\ ~ReaderGone
    BY <1>1, <1>6 DEF Base, Phases, ReaderGone
  <2>2. CASE link = "open"
    <3>1. net' = Append(net, Head(held))
      BY <2>1, <2>2 DEF PassOn
    <3>2. Append(net, Head(held)) \o Tail(held) = net \o held
      BY <1>1
    <3> QED
      BY <1>1, <2>2, <3>1, <3>2 DEF Flow
  <2>3. CASE link # "open"
    BY <1>1, <2>3 DEF Flow, PassOn
  <2> QED
    BY <2>2, <2>3
<1>7. WriterAt(h[sealed])'
  BY <1>1, <1>5 DEF Placed, WriterAt
<1>8. rpc # "failed" => ReaderAt(h[opened])' /\ TakenAt(h[opened])'
  BY <1>1 DEF Placed, ReaderAt, TakenAt
<1>9. Placed(h)'
  BY <1>1, <1>5, <1>6, <1>7, <1>8 DEF Placed
<1> QED
  BY <1>4, <1>9

\* The writer is dropped: what it leaves on the way is a front of what there was,
\* and all of it if it had flushed.
LEMMA GoneKeeps ==
  ASSUME Base, NEW h, Placed(h), NEW pc \in {"failed", "left", "dead"}, Gone(pc),
         wpc \in {"idle", "writing", "flushing"},
         pc = "left" => wpc = "idle",
         pc = "failed" => link = "lost" \/ ReaderGone
  PROVE  Base' /\ Placed(h)'
<1>1. /\ wpc' = pc /\ rest' = << >> /\ held' = << >>
      /\ link' = IF link = "open" THEN "closed" ELSE link
      /\ UNCHANGED <<sealed, sent, net, reader, drains>>
      /\ held \in Seq(WireBytes) /\ net \in Seq(WireBytes)
  BY DEF Gone, Base, WireOK
<1>2. link \in {"open", "lost"} /\ link' \in {"closed", "lost"}
  BY <1>1 DEF Base, Phases, FramingTypeOK
<1>3. Base'
  <2>1. FramingTypeOK' /\ WireOK'
    <3>1. << >> \in Bytes
      BY DEF Bytes
    <3> QED
      BY <3>1, <1>1, <1>2 DEF Base, FramingTypeOK, WireOK
  <2>2. Phases' /\ HandedOut' /\ RefusesOnlyOversize'
    BY <1>1, <1>2 DEF Base, Phases, HandedOut, RefusesOnlyOversize, SentTooBig, ReaderGone
  <2> QED
    BY <2>1, <2>2 DEF Base
<1>4. InFrame' = InFrame /\ Flow' = net
  BY <1>1, <1>2 DEF InFrame, Flow
<1>5. Sound' => pc = "left" /\ held = << >> /\ rest = << >> /\ Sound
  BY <1>1 DEF Sound, Base, Phases
<1>6. WriterAt(h[sealed])'
  BY <1>1, <1>5 DEF Placed, WriterAt
<1>7. rpc # "failed" => ReaderAt(h[opened])' /\ TakenAt(h[opened])'
  BY <1>1 DEF Placed, ReaderAt, TakenAt
<1>8. ASSUME rpc # "failed"
      PROVE  /\ Carries(h, sent, sealed, h[opened].base + InFrame, net)
             /\ Sound' /\ link' # "lost" =>
                  h[opened].base + InFrame + Len(net) = h[sealed].base
  <2>1. /\ Chunks(h, sent, sealed) /\ sealed \in Nat
        /\ Carries(h, sent, sealed, h[opened].base + InFrame, Flow)
    BY <1>8 DEF Placed, Base, FramingTypeOK
  <2>2. h[opened].base + InFrame \in Nat
    BY <1>8, NextByte DEF Base, Starts
  <2>3. Carries(h, sent, sealed, h[opened].base + InFrame, net)
    <3>1. CASE link = "open"
      BY <3>1, <1>1, <2>1, <2>2, CarriesFront DEF Flow
    <3>2. CASE link # "open"
      BY <3>2, <1>1, <2>1 DEF Flow
    <3> QED
      BY <3>1, <3>2
  <2>4. Sound' => Flow = net
    BY <1>1, <1>5 DEF Flow
  <2>5. link' # "lost" => link # "lost"
    BY <1>1, <1>2
  <2> QED
    BY <1>5, <1>8, <2>3, <2>4, <2>5 DEF Placed
<1>9. Placed(h)'
  <2>1. /\ opened' = opened /\ sealed' = sealed /\ sent' = sent /\ rpc' = rpc
    BY <1>1
  <2> QED
    BY <1>4, <1>6, <1>7, <1>8, <2>1 DEF Placed
<1> QED
  BY <1>3, <1>9

LEMMA LinkLostKeeps ==
  ASSUME Base, NEW h, Placed(h), LinkLost
  PROVE  Base' /\ Placed(h)'
<1>1. /\ link = "open" /\ link' = "lost"
      /\ UNCHANGED <<writer, net, reader, drains>>
      /\ held \in Seq(WireBytes) /\ net \in Seq(WireBytes)
  BY DEF LinkLost, Base, WireOK
<1>2. Base'
  <2>1. FramingTypeOK' /\ WireOK'
    BY <1>1 DEF Base, FramingTypeOK, WireOK
  <2>2. Phases' /\ HandedOut' /\ RefusesOnlyOversize'
    BY <1>1 DEF Base, Phases, HandedOut, RefusesOnlyOversize, SentTooBig, ReaderGone
  <2> QED
    BY <2>1, <2>2 DEF Base
<1>3. InFrame' = InFrame /\ Flow' = net /\ Flow = net \o held
  BY <1>1 DEF InFrame, Flow
<1>4. WriterAt(h[sealed])'
  BY <1>1 DEF Placed, WriterAt, Sound
<1>5. rpc # "failed" => ReaderAt(h[opened])' /\ TakenAt(h[opened])'
  BY <1>1 DEF Placed, ReaderAt, TakenAt
<1>6. rpc # "failed" => Carries(h, sent, sealed, h[opened].base + InFrame, net)
  <2> SUFFICES ASSUME rpc # "failed"
               PROVE  Carries(h, sent, sealed, h[opened].base + InFrame, net)
    OBVIOUS
  <2>1. /\ Chunks(h, sent, sealed) /\ sealed \in Nat
        /\ Carries(h, sent, sealed, h[opened].base + InFrame, net \o held)
    BY <1>3 DEF Placed, Base, FramingTypeOK
  <2>2. h[opened].base + InFrame \in Nat
    BY NextByte DEF Base, Starts
  <2> QED
    BY <1>1, <2>1, <2>2, CarriesFront
<1>7. Placed(h)'
  <2>1. /\ opened' = opened /\ sealed' = sealed /\ sent' = sent /\ rpc' = rpc
    BY <1>1
  <2> QED
    BY <1>1, <1>3, <1>4, <1>5, <1>6, <2>1 DEF Placed
<1> QED
  BY <1>2, <1>7

-----------------------------------------------------------------------------
(* The reader's steps.                                                     *)

LEMMA ReceiveStepKeeps ==
  ASSUME Base, NEW h, Placed(h), Receive
  PROVE  Base' /\ Placed(h)'
<1>1. /\ rpc = "receive" /\ rpc' \in {"receive", "drain"} /\ taken = << >>
      /\ got' = Append(got, buffer[1][1]) /\ buffer' = DropMessage
      /\ UNCHANGED <<taken, want, opened, writer, net, link, drains>>
  BY DEF Receive, Base, Phases
<1>2. ReaderAt(h[opened])
  BY <1>1 DEF Placed
<1>3. /\ buffer # << >> /\ Len(got) < Len(sent) /\ Len(buffer) = End(NextOut)
      /\ got' = Append(got, NextOut) /\ buffer' = << >>
  BY <1>1, <1>2, BufferFacts DEF Receive, Base
<1>4. NextOut \in Messages /\ got \in Seq(Messages) /\ sent \in Seq(Messages)
  BY <1>3 DEF NextOut, Base, FramingTypeOK
<1>5. Base'
  <2>1. FramingTypeOK' /\ WireOK'
    <3>1. << >> \in Bytes
      BY DEF Bytes
    <3> QED
      BY <3>1, <1>1, <1>3, <1>4 DEF Base, FramingTypeOK, WireOK
  <2>2. Phases' /\ RefusesOnlyOversize'
    BY <1>1, <1>3 DEF Base, Phases, RefusesOnlyOversize, SentTooBig, ReaderGone
  <2>3. HandedOut'
    BY <1>1, <1>3, <1>4 DEF Base, HandedOut, NextOut
  <2> QED
    BY <2>1, <2>2, <2>3 DEF Base
<1>6. InFrame' = InFrame /\ Flow' = Flow /\ (Sound' <=> Sound)
  BY <1>1 DEF InFrame, Flow, Sound
<1>7. WriterAt(h[sealed])'
  BY <1>1 DEF Placed, WriterAt, Sound
<1>8. ReaderAt(h[opened])'
  <2>1. h[opened].msg = Len(got) + 2 /\ h[opened].at = 1
    BY <1>2, <1>3 DEF ReaderAt, NextOut
  <2>2. Len(got') + 1 = Len(got) + 2 /\ Len(buffer') + 1 = 1
    BY <1>3, <1>4
  <2> QED
    BY <1>1, <1>3, <2>1, <2>2 DEF ReaderAt
<1>9. TakenAt(h[opened])'
  BY <1>1 DEF TakenAt
<1>10. Placed(h)'
  <2>1. opened' = opened /\ sealed' = sealed /\ sent' = sent /\ link' = link
    BY <1>1
  <2> QED
    BY <1>1, <1>6, <1>7, <1>8, <1>9, <2>1 DEF Placed
<1> QED
  BY <1>5, <1>10

\* The loop of receive_all_buffered finds no message.
LEMMA DrainKeeps ==
  ASSUME Base, NEW h, Placed(h), DrainBuffered
  PROVE  Base' /\ Placed(h)'
<1>1. rpc = "drain" /\ taken = << >> /\ buffer = << >>
  BY DEF DrainBuffered, Base, Phases
<1>2. Decode(buffer) # "message"
  BY <1>1, FramingAssumption DEF Decode, NeedMore
<1>3. rpc' = "receive" /\ UNCHANGED <<got, buffer, taken, want, opened, writer, net, link, drains>>
  BY <1>2 DEF DrainBuffered
<1>4. Base'
  <2>1. FramingTypeOK' /\ WireOK'
    BY <1>3 DEF Base, FramingTypeOK, WireOK
  <2>2. Phases' /\ RefusesOnlyOversize' /\ HandedOut'
    BY <1>1, <1>3 DEF Base, Phases, RefusesOnlyOversize, SentTooBig, ReaderGone, HandedOut
  <2> QED
    BY <2>1, <2>2 DEF Base
<1>5. InFrame' = InFrame /\ Flow' = Flow /\ (Sound' <=> Sound)
  BY <1>1, <1>3 DEF InFrame, Flow, Sound
<1>6. WriterAt(h[sealed])' /\ ReaderAt(h[opened])' /\ TakenAt(h[opened])'
  BY <1>1, <1>3 DEF Placed, WriterAt, Sound, ReaderAt, TakenAt
<1>7. Placed(h)'
  BY <1>1, <1>3, <1>5, <1>6 DEF Placed
<1> QED
  BY <1>4, <1>7

\* Only a message above MAX_PAYLOAD is refused.
LEMMA RefuseKeeps ==
  ASSUME Base, NEW h, Placed(h), Refuse
  PROVE  Base' /\ Placed(h)'
<1>1. /\ rpc = "receive" /\ rpc' = "failed"
      /\ UNCHANGED <<taken, want, opened, buffer, got, writer, net, link, drains>>
  BY DEF Refuse
<1>2. Len(got) < Len(sent) /\ TooBig(NextOut)
  <2>1. ReaderAt(h[opened])
    BY <1>1 DEF Placed
  <2> QED
    BY <2>1, BufferFacts DEF Refuse, Base
<1>3. SentTooBig(MaxSends)
  BY <1>2, FramingAssumption DEF SentTooBig, NextOut, Base, FramingTypeOK, HandedOut
<1>4. Base'
  <2>1. FramingTypeOK' /\ WireOK'
    BY <1>1 DEF Base, FramingTypeOK, WireOK
  <2>2. Phases' /\ RefusesOnlyOversize' /\ HandedOut'
    BY <1>1, <1>3 DEF Base, Phases, RefusesOnlyOversize, SentTooBig, ReaderGone, HandedOut
  <2> QED
    BY <2>1, <2>2 DEF Base
<1>5. Placed(h)'
  BY <1>1 DEF Placed, WriterAt, Sound
<1> QED
  BY <1>4, <1>5

LEMMA ReadChunkKeeps ==
  ASSUME Base, NEW h, Placed(h), ReadChunk
  PROVE  Base' /\ Placed(h)'
<1>1. /\ rpc = "receive" /\ rpc' = "length" /\ taken = << >> /\ taken' = << >>
      /\ want' = LengthBytes /\ Decode(buffer) = NeedMore
      /\ UNCHANGED <<opened, buffer, got, writer, net, link, drains>>
  BY DEF ReadChunk, Base, Phases
<1>2. Base'
  <2>1. FramingTypeOK' /\ WireOK'
    BY <1>1, FramingAssumption DEF Base, FramingTypeOK, WireOK, LengthBytes
  <2>2. Phases' /\ RefusesOnlyOversize' /\ HandedOut'
    BY <1>1 DEF Base, Phases, RefusesOnlyOversize, SentTooBig, ReaderGone, HandedOut, LengthBytes
  <2> QED
    BY <2>1, <2>2 DEF Base
<1>3. InFrame' = InFrame /\ Flow' = Flow /\ (Sound' <=> Sound)
  BY <1>1 DEF InFrame, Flow, Sound
<1>4. WriterAt(h[sealed])' /\ ReaderAt(h[opened])' /\ TakenAt(h[opened])'
  BY <1>1 DEF Placed, WriterAt, Sound, ReaderAt, TakenAt
<1>5. Placed(h)'
  BY <1>1, <1>3, <1>4 DEF Placed
<1> QED
  BY <1>2, <1>5

\* The reader takes a byte: what is on its way begins with the next one.
LEMMA FlowTail ==
  ASSUME Base, NEW h, Placed(h), rpc # "failed", net # << >>,
         net' = Tail(net), UNCHANGED <<held, link>>
  PROVE  /\ Carries(h, sent, sealed, h[opened].base + InFrame + 1, Flow')
         /\ Sound /\ link # "lost" =>
              h[opened].base + InFrame + 1 + Len(Flow') = h[sealed].base
<1> DEFINE r == h[opened].base + InFrame
<1>1. net \in Seq(WireBytes) /\ held \in Seq(WireBytes) /\ sealed \in Nat
  BY DEF Base, WireOK, FramingTypeOK
<1>2. Flow \in Seq(WireBytes) /\ Flow # << >> /\ Flow' = Tail(Flow)
  BY <1>1 DEF Flow
<1>3. r \in Nat
  BY NextByte DEF Base, Starts
<1>4. Carries(h, sent, sealed, r, Flow) /\ Chunks(h, sent, sealed)
  BY DEF Placed
<1> HIDE DEF r
<1>5. Carries(h, sent, sealed, r + 1, Flow') /\ Len(Flow') = Len(Flow) - 1
  BY <1>1, <1>2, <1>3, <1>4, CarriesTail
<1>6. Sound /\ link # "lost" => r + Len(Flow) = h[sealed].base
  BY DEF Placed, r
<1>7. Sound /\ link # "lost" => r + 1 + Len(Flow') = h[sealed].base
  BY <1>2, <1>3, <1>5, <1>6
<1> QED
  BY <1>5, <1>7 DEF r

LEMMA CollectKeeps ==
  ASSUME Base, NEW h, Placed(h), Collect
  PROVE  Base' /\ Placed(h)'
<1> DEFINE c == h[opened]
<1>1. /\ rpc \in {"length", "ciphertext"} /\ net # << >> /\ Len(taken) + 1 < want
      /\ taken' = Append(taken, Head(net)) /\ net' = Tail(net)
      /\ UNCHANGED <<rpc, want, opened, buffer, got, writer, link, drains>>
      /\ net \in Seq(WireBytes) /\ taken \in Seq(WireBytes)
      /\ sent \in Seq(Messages) /\ opened \in Nat
  BY DEF Collect, Base, WireOK, FramingTypeOK
<1>2. /\ Head(net) \in WireBytes /\ Tail(net) \in Seq(WireBytes)
      /\ Len(Tail(net)) = Len(net) - 1
      /\ taken' \in Seq(WireBytes) /\ Len(taken') = Len(taken) + 1
      /\ \A i \in DOMAIN taken' :
           taken'[i] = IF i <= Len(taken) THEN taken[i] ELSE Head(net)
  BY <1>1
<1>3. Base'
  <2>1. Len(net') <= NetCap
    BY <1>1, <1>2, FramingAssumption DEF Base, FramingTypeOK
  <2>2. FramingTypeOK' /\ WireOK'
    BY <1>1, <1>2, <2>1 DEF Base, FramingTypeOK, WireOK
  <2>3. Phases' /\ RefusesOnlyOversize' /\ HandedOut'
    BY <1>1, <1>2 DEF Base, Phases, RefusesOnlyOversize, SentTooBig, ReaderGone, HandedOut
  <2> QED
    BY <2>2, <2>3 DEF Base
<1>4. /\ opened < sealed /\ c \in Starts /\ Inside(sent, c)
      /\ Head(net) = Frame(ChunkAt(sent, c), opened)[InFrame + 1]
      /\ InFrame \in Nat /\ InFrame + 1 \in 1..FrameLen(sent, c)
  BY <1>1, NextByte DEF Base
<1>5. TakenAt(c)'
  <2>1. CASE rpc = "length"
    <3>1. Len(taken) = 0 /\ InFrame = 0
      BY <2>1, <1>1 DEF Base, Phases, LengthBytes, InFrame
    <3>2. taken'[1] = [len |-> ChunkLen(sent, c) + TagLen]
      BY <3>1, <1>1, <1>2, <1>4, FrameOfChunk
    <3> QED
      BY <2>1, <1>1, <1>4, <3>2 DEF TakenAt
  <2>2. CASE rpc = "ciphertext"
    <3>1. /\ want = ChunkLen(sent, c) + TagLen /\ InFrame = Len(taken) + 2
          /\ \A i \in DOMAIN taken :
               taken[i] = [nonce |-> opened, at |-> i, plain |-> ChunkAt(sent, c)]
      BY <2>2 DEF Placed, TakenAt, InFrame, LengthBytes
    <3>2. Len(taken) + 1 \in 1..(ChunkLen(sent, c) + TagLen)
      <4>1. want \in Nat /\ Len(taken) \in Nat
        BY <1>1, FramingAssumption DEF Base, FramingTypeOK
      <4> QED
        BY <3>1, <4>1, <1>1
    <3>3. Head(net) = [nonce |-> opened, at |-> Len(taken) + 1, plain |-> ChunkAt(sent, c)]
      <4>1. Head(net) = Frame(ChunkAt(sent, c), opened)[(Len(taken) + 1) + 2]
        <5>1. InFrame + 1 = (Len(taken) + 1) + 2
          BY <3>1, <1>1
        <5> QED
          BY <5>1, <1>4
      <4> QED
        BY <4>1, <3>2, <1>1, <1>4, FrameOfChunk
    <3>4. \A i \in DOMAIN taken' :
            taken'[i] = [nonce |-> opened, at |-> i, plain |-> ChunkAt(sent, c)]
      <4> SUFFICES ASSUME NEW i \in DOMAIN taken'
                   PROVE  taken'[i] = [nonce |-> opened, at |-> i, plain |-> ChunkAt(sent, c)]
        OBVIOUS
      <4>1. i \in DOMAIN taken \/ i = Len(taken) + 1
        BY <1>1, <1>2
      <4>2. i \in DOMAIN taken => i <= Len(taken)
        BY <1>1
      <4>3. ~(Len(taken) + 1 <= Len(taken))
        BY <1>1
      <4> HIDE DEF c
      <4> QED
        BY <3>1, <3>3, <1>2, <4>1, <4>2, <4>3
    <3> QED
      BY <2>2, <1>1, <1>4, <3>1, <3>4 DEF TakenAt
  <2> QED
    BY <2>1, <2>2, <1>1
<1>6. WriterAt(h[sealed])' /\ ReaderAt(h[opened])' /\ (Sound' <=> Sound)
  BY <1>1 DEF Placed, WriterAt, Sound, ReaderAt
<1>7. InFrame' = InFrame + 1 /\ h[opened].base + InFrame' = h[opened].base + InFrame + 1
  <2>1. InFrame' = InFrame + 1
    BY <1>1, <1>2 DEF InFrame, LengthBytes
  <2> QED
    BY <2>1, <1>4 DEF Starts
<1>8. /\ Carries(h, sent, sealed, h[opened].base + InFrame + 1, Flow')
      /\ Sound /\ link # "lost" =>
           h[opened].base + InFrame + 1 + Len(Flow') = h[sealed].base
  BY <1>1, FlowTail
<1>9. Placed(h)'
  <2>1. opened' = opened /\ sealed' = sealed /\ sent' = sent /\ link' = link /\ rpc' # "failed"
    BY <1>1
  <2> QED
    BY <1>5, <1>6, <1>7, <1>8, <2>1 DEF Placed
<1> QED
  BY <1>3, <1>9

LEMMA ReadLengthKeeps ==
  ASSUME Base, NEW h, Placed(h), ReadLength
  PROVE  Base' /\ Placed(h)'
<1> DEFINE c == h[opened]
           bytes == Append(taken, Head(net))
           l == ChunkLen(sent, c) + TagLen
<1>1. /\ rpc = "length" /\ net # << >> /\ Len(taken) + 1 = want /\ want = 2
      /\ net' = Tail(net) /\ taken' = << >> /\ want' = LengthIn(bytes)
      /\ rpc' = IF want' = 0 THEN "failed" ELSE "ciphertext"
      /\ UNCHANGED <<opened, buffer, got, writer, link, drains>>
      /\ net \in Seq(WireBytes) /\ taken \in Seq(WireBytes)
      /\ sent \in Seq(Messages) /\ opened \in Nat
  BY DEF ReadLength, Base, WireOK, FramingTypeOK, Phases, LengthBytes
<1>2. Len(taken) = 1 /\ InFrame = 1
  <2>1. Len(taken) \in Nat /\ Len(taken) + 1 = 2
    BY <1>1
  <2>2. ASSUME NEW i \in Nat, i + 1 = 2 PROVE i = 1
    BY <2>2
  <2> HIDE DEF c, bytes, l
  <2>4. Len(taken) = 1
    BY <2>1, <2>2
  <2>3. InFrame = Len(taken) + 0
    BY <1>1 DEF InFrame
  <2> QED
    BY <2>3, <2>4
<1>3. /\ opened < sealed /\ c \in Starts /\ Inside(sent, c)
      /\ Head(net) = Frame(ChunkAt(sent, c), opened)[InFrame + 1]
  BY <1>1, NextByte DEF Base
<1>4. l \in 1..MaxNoise /\ MaxNoise \in Nat
  BY <1>1, <1>3, ChunkFacts, FramingAssumption DEF MaxChunk
<1>5. taken[1] = [len |-> l] /\ Head(net) = [len |-> l]
  <2>1. taken[1] = [len |-> l]
    <3>1. taken # << >>
      BY <1>2
    <3> QED
      BY <3>1, <1>1 DEF Placed, TakenAt
  <2>2. Head(net) = Frame(ChunkAt(sent, c), opened)[2]
    BY <1>2, <1>3
  <2>3. Frame(ChunkAt(sent, c), opened)[2] = [len |-> l]
    BY <1>1, <1>3, FrameOfChunk
  <2> QED
    BY <2>1, <2>2, <2>3
<1> HIDE DEF l
<1>6. want' = l
  <2>0. taken \in Seq(WireBytes)
    BY <1>1
  <2>1. ASSUME NEW i \in DOMAIN bytes PROVE bytes[i] = [len |-> l]
    <3>1. i \in 1..(Len(taken) + 1)
      BY <2>0
    <3>2. CASE i <= Len(taken)
      <4>1. bytes[i] = taken[i]
        BY <2>0, <3>1, <3>2
      <4>2. i = 1
        BY <3>1, <3>2, <1>2
      <4> QED
        BY <4>1, <4>2, <1>5
    <3>3. CASE i = Len(taken) + 1
      BY <2>0, <3>3, <1>5
    <3> QED
      BY <3>1, <3>2, <3>3, <1>2
  <2>2. 1 \in DOMAIN bytes
    BY <2>0
  <2> HIDE DEF bytes
  <2>3. LengthIn(bytes) = l
    BY <2>1, <2>2 DEF LengthIn
  <2> QED
    BY <1>1, <2>3
<1>7. rpc' = "ciphertext"
  BY <1>1, <1>4, <1>6
<1>8. Base'
  <2>1. Tail(net) \in Seq(WireBytes) /\ Len(Tail(net)) = Len(net) - 1 /\ Len(net) \in Nat
    BY <1>1
  <2>2. FramingTypeOK' /\ WireOK'
    BY <1>1, <1>4, <1>6, <1>7, <2>1, FramingAssumption DEF Base, FramingTypeOK, WireOK
  <2>3. Phases' /\ RefusesOnlyOversize' /\ HandedOut'
    BY <1>1, <1>4, <1>6, <1>7
      DEF Base, Phases, RefusesOnlyOversize, SentTooBig, ReaderGone, HandedOut
  <2> QED
    BY <2>2, <2>3 DEF Base
<1>9. InFrame' = InFrame + 1 /\ h[opened].base + InFrame' = h[opened].base + InFrame + 1
  <2>1. InFrame' = InFrame + 1
    BY <1>1, <1>2, <1>7 DEF InFrame, LengthBytes
  <2> QED
    BY <2>1, <1>2, <1>3 DEF Starts
<1>10. /\ Carries(h, sent, sealed, h[opened].base + InFrame + 1, Flow')
       /\ Sound /\ link # "lost" =>
            h[opened].base + InFrame + 1 + Len(Flow') = h[sealed].base
  BY <1>1, FlowTail
<1>11. WriterAt(h[sealed])' /\ ReaderAt(h[opened])' /\ TakenAt(h[opened])' /\ (Sound' <=> Sound)
  <2>1. TakenAt(h[opened])'
    BY <1>1, <1>3, <1>6, <1>7 DEF TakenAt, l
  <2> QED
    BY <1>1, <2>1 DEF Placed, WriterAt, Sound, ReaderAt
<1>12. Placed(h)'
  <2>1. opened' = opened /\ sealed' = sealed /\ sent' = sent /\ link' = link /\ rpc' # "failed"
    BY <1>1, <1>7
  <2> QED
    BY <1>9, <1>10, <1>11, <2>1, <1>1 DEF Placed
<1> QED
  BY <1>8, <1>12

LEMMA OpenKeeps ==
  ASSUME Base, NEW h, Placed(h), OpenChunk
  PROVE  Base' /\ Placed(h)'
<1> DEFINE c == h[opened]
           bytes == Append(taken, Head(net))
           x == ChunkAt(sent, c)
           n == ChunkLen(sent, c)
           m == NextOut
<1>1. /\ rpc = "ciphertext" /\ net # << >> /\ Len(taken) + 1 = want
      /\ net' = Tail(net) /\ taken' = << >> /\ want' = 0
      /\ UNCHANGED <<got, writer, link, drains>>
      /\ net \in Seq(WireBytes) /\ taken \in Seq(WireBytes) /\ Len(taken) \in Nat
      /\ sent \in Seq(Messages) /\ got \in Seq(Messages) /\ opened \in Nat
      /\ buffer \in Bytes /\ Len(buffer) \in Nat
  BY DEF OpenChunk, Base, WireOK, FramingTypeOK, Phases, Bytes
<1>2. /\ opened < sealed /\ c \in Starts /\ Inside(sent, c)
      /\ Head(net) = Frame(x, opened)[InFrame + 1]
      /\ h[opened + 1] = Following(sent, c)
  BY <1>1, NextByte DEF Base
<1>3. /\ n \in 1..MaxChunk /\ MaxChunk \in Nat /\ x \in Bytes /\ Len(x) = n
      /\ TagLen \in Nat /\ TagLen > 0 /\ n + TagLen \in Nat
  BY <1>1, <1>2, ChunkFacts, FramingAssumption DEF MaxChunk
<1>4. /\ Len(taken) + 1 = n + TagLen /\ InFrame = Len(taken) + 2
      /\ \A i \in DOMAIN taken : taken[i] = [nonce |-> opened, at |-> i, plain |-> x]
  BY <1>1 DEF Placed, TakenAt, InFrame, LengthBytes
<1>5. Head(net) = [nonce |-> opened, at |-> n + TagLen, plain |-> x]
  <2>1. InFrame + 1 = (n + TagLen) + 2
    BY <1>1, <1>3, <1>4
  <2>2. n + TagLen \in 1..(n + TagLen)
    BY <1>3
  <2>3. Frame(x, opened)[(n + TagLen) + 2] = [nonce |-> opened, at |-> n + TagLen, plain |-> x]
    BY <1>1, <1>2, <2>2, FrameOfChunk
  <2> QED
    BY <1>2, <2>1, <2>3
<1> HIDE DEF x, n
<1>6. /\ bytes = Cipher(x, opened) /\ bytes[1].plain = x /\ "plain" \in DOMAIN bytes[1]
      /\ Len(bytes) = n + TagLen
  <2>1. Len(bytes) = n + TagLen /\ bytes \in Seq(WireBytes)
    BY <1>1, <1>4
  <2>2. ASSUME NEW i \in 1..(n + TagLen)
        PROVE  bytes[i] = [nonce |-> opened, at |-> i, plain |-> x]
    <3>1. CASE i <= Len(taken)
      BY <3>1, <1>1, <1>4
    <3>2. CASE i = Len(taken) + 1
      <4>1. bytes[i] = Head(net)
        BY <3>2, <1>1
      <4> HIDE DEF bytes
      <4> QED
        BY <3>2, <4>1, <1>4, <1>5
    <3> QED
      BY <3>1, <3>2, <1>1, <1>3, <1>4
  <2> HIDE DEF bytes
  <2>3. bytes = [i \in 1..(n + TagLen) |-> bytes[i]]
    BY <2>1
  <2>4. bytes = Cipher(x, opened)
    BY <2>2, <2>3, <1>3 DEF Cipher
  <2>5. bytes[1] = [nonce |-> opened, at |-> 1, plain |-> x]
    BY <2>2, <1>3
  <2> QED
    BY <2>1, <2>4, <2>5
<1>7. Opens(bytes)
  <2>1. After(Frame(x, opened), LengthBytes) = Cipher(x, opened)
    <3>1. x \in Seq(Messages \X Nat) /\ Len(x) <= MaxChunk
      BY <1>3 DEF Bytes
    <3> QED
      BY <3>1, <1>1, FrameBytes
  <2>2. n \in 0..(Len(bytes) - TagLen) /\ n + TagLen = Len(bytes)
    BY <1>3, <1>6
  <2> HIDE DEF bytes
  <2>3. \E k \in 0..(Len(bytes) - TagLen) :
          /\ k + TagLen = Len(bytes)
          /\ \E chunk \in {bytes[1].plain} :
               Len(chunk) = k /\ bytes = After(Frame(chunk, opened), LengthBytes)
    BY <1>3, <1>6, <2>1, <2>2
  <2> QED
    BY <2>3 DEF Opens
<1>8. buffer' = buffer \o x /\ opened' = opened + 1 /\ rpc' = "receive"
  <2> HIDE DEF bytes
  <2>1. /\ buffer' = buffer \o bytes[1].plain /\ opened' = opened + 1 /\ rpc' = "receive"
    BY <1>6, <1>7 DEF OpenChunk, bytes
  <2> QED
    BY <2>1, <1>6
<1>9. /\ Len(got) < Len(sent) /\ m \in Messages /\ End(m) \in Nat
      /\ c.msg = Len(got) + 1 /\ c.at = Len(buffer) + 1
      /\ buffer # << >> => buffer = Piece(m, 1, Len(buffer))
      /\ x = Piece(m, c.at, n) /\ c.at \in 1..End(m)
      /\ n = IF c.at + MaxChunk <= End(m) THEN MaxChunk ELSE End(m) - c.at + 1
  <2>1. ReaderAt(c) /\ Decode(buffer) = NeedMore
    BY <1>1 DEF Placed, Base, Phases
  <2>2. c.msg = Len(got) + 1 /\ c.at = Len(buffer) + 1
    BY <2>1, <1>1, BufferFacts DEF ReaderAt, NextOut, Base
  <2>3. Len(got) < Len(sent) /\ m \in Messages
    BY <1>1, <1>2, <2>2 DEF Inside, NextOut
  <2> QED
    BY <2>1, <2>2, <2>3, <1>2, EndOf DEF ReaderAt, ChunkAt, ChunkLen, Inside, NextOut, x, n
<1>10. /\ buffer' = Piece(m, 1, Len(buffer) + n) /\ Len(buffer') = Len(buffer) + n
       /\ buffer' # << >> /\ buffer' \in Bytes
  <2>1. buffer = Piece(m, 1, Len(buffer))
    <3>1. CASE buffer = << >>
      <4>1. Piece(m, 1, 0) = << >>
        BY DEF Piece
      <4> QED
        BY <3>1, <4>1
    <3> QED
      BY <3>1, <1>9
  <2>2. c.at \in Nat /\ c.at = 1 + Len(buffer) /\ Len(buffer) \in Nat /\ n \in Nat
    BY <1>1, <1>3, <1>9
  <2>3. Piece(m, 1, Len(buffer)) \o Piece(m, c.at, n) = Piece(m, 1, Len(buffer) + n)
    BY <2>2, JoinPieces
  <2>4. buffer' = Piece(m, 1, Len(buffer) + n)
    <3> HIDE DEF m, c
    <3> QED
      BY <1>8, <1>9, <2>1, <2>2, <2>3
  <2>5. Len(buffer) + n \in Nat /\ Len(buffer) + n > 0
    BY <1>1, <1>3
  <2>6. Len(Piece(m, 1, Len(buffer) + n)) = Len(buffer) + n
        /\ Piece(m, 1, Len(buffer) + n) \in Bytes
    BY <2>5, <1>9, PieceIsBytes
  <2> QED
    BY <2>4, <2>5, <2>6
<1>11. Base'
  <2>1. Tail(net) \in Seq(WireBytes) /\ Len(Tail(net)) = Len(net) - 1 /\ Len(net) \in Nat
    BY <1>1
  <2>2. FramingTypeOK' /\ WireOK'
    BY <1>1, <1>2, <1>8, <1>10, <2>1, FramingAssumption DEF Base, FramingTypeOK, WireOK
  <2>3. Phases' /\ RefusesOnlyOversize' /\ HandedOut'
    BY <1>1, <1>8 DEF Base, Phases, RefusesOnlyOversize, SentTooBig, ReaderGone, HandedOut
  <2> QED
    BY <2>2, <2>3 DEF Base
<1>12. ReaderAt(h[opened])'
  <2>1. /\ Following(sent, c).msg = IF c.at + MaxChunk <= End(m) THEN c.msg ELSE c.msg + 1
        /\ Following(sent, c).at = IF c.at + MaxChunk <= End(m) THEN c.at + MaxChunk ELSE 1
    BY <1>9 DEF Following, NextOut
  <2>2. h[opened'] = Following(sent, c)
    BY <1>2, <1>8
  <2>3. sent'[Len(got') + 1] = m /\ Len(got') = Len(got) /\ Len(sent') = Len(sent)
        /\ Len(got) \in Nat
    BY <1>1 DEF NextOut
  <2>4. CASE c.at + MaxChunk <= End(m)
    <3>1. Len(buffer') < End(m) /\ Len(buffer') + 1 = c.at + MaxChunk
      <4>1. n = MaxChunk
        BY <2>4, <1>9
      <4>2. MaxChunk \in Nat /\ Len(buffer) \in Nat /\ End(m) \in Nat
            /\ c.at = Len(buffer) + 1 /\ Len(buffer') = Len(buffer) + n
        BY <1>1, <1>3, <1>9, <1>10
      <4> HIDE DEF m, c
      <4> QED
        BY <4>1, <4>2, <2>4
    <3>2. h[opened'].msg = Len(got) + 1 /\ h[opened'].at = Len(buffer') + 1
      BY <2>1, <2>2, <2>4, <3>1, <1>9
    <3>3. ~(Len(buffer') = End(m)) /\ Len(buffer') <= End(m)
      BY <3>1, <1>1, <1>3, <1>9, <1>10
    <3> HIDE DEF m, c
    <3> QED
      BY <3>2, <3>3, <2>3, <1>9, <1>10 DEF ReaderAt
  <2>5. CASE ~(c.at + MaxChunk <= End(m))
    <3>1. Len(buffer') = End(m)
      <4>1. n = End(m) - c.at + 1
        BY <2>5, <1>9
      <4>2. Len(buffer) \in Nat /\ End(m) \in Nat
            /\ c.at = Len(buffer) + 1 /\ Len(buffer') = Len(buffer) + n
        BY <1>1, <1>9, <1>10
      <4> HIDE DEF m, c
      <4> QED
        BY <4>1, <4>2
    <3>2. h[opened'].msg = Len(got) + 2 /\ h[opened'].at = 1
      BY <2>1, <2>2, <2>3, <2>5, <1>9
    <3> HIDE DEF m, c
    <3> QED
      BY <3>1, <3>2, <2>3, <1>9, <1>10 DEF ReaderAt
  <2> QED
    BY <2>4, <2>5
<1>13. h[opened + 1].base + InFrame' = h[opened].base + InFrame + 1
  <2>1. h[opened + 1].base = c.base + FrameLen(sent, c)
    BY <1>2 DEF Following
  <2>2. InFrame' = 0
    BY <1>1, <1>8 DEF InFrame
  <2>3. FrameLen(sent, c) = 2 + n + TagLen
    BY DEF FrameLen, LengthBytes, n
  <2>4. c.base \in Nat
    BY <1>2 DEF Starts
  <2>5. n \in Nat /\ TagLen \in Nat /\ Len(taken) \in Nat
    BY <1>1, <1>3
  <2>6. FrameLen(sent, c) = InFrame + 1 /\ InFrame \in Nat
    BY <2>3, <2>5, <1>4
  <2> QED
    BY <2>1, <2>2, <2>4, <2>6
<1>14. /\ Carries(h, sent, sealed, h[opened].base + InFrame + 1, Flow')
       /\ Sound /\ link # "lost" =>
            h[opened].base + InFrame + 1 + Len(Flow') = h[sealed].base
  BY <1>1, FlowTail
<1>15. WriterAt(h[sealed])' /\ TakenAt(h[opened])' /\ (Sound' <=> Sound)
  BY <1>1, <1>8 DEF Placed, WriterAt, Sound, TakenAt
<1>16. Placed(h)'
  <2>1. sealed' = sealed /\ sent' = sent /\ link' = link /\ h[opened'] = h[opened + 1]
    BY <1>1, <1>8
  <2> QED
    BY <1>12, <1>13, <1>14, <1>15, <2>1, <1>8 DEF Placed
<1> QED
  BY <1>11, <1>16

\* The writer has closed the connection, and all it wrote was read: in the middle
\* of a ciphertext that is only so if it died.
LEMMA ReadsEndKeeps ==
  ASSUME Base, NEW h, Placed(h), ReadsEnd
  PROVE  Base' /\ Placed(h)'
<1>1. /\ rpc \in {"length", "ciphertext"} /\ net = << >> /\ link = "closed"
      /\ rpc' = IF rpc = "length" THEN "ended" ELSE "failed"
      /\ UNCHANGED <<taken, want, opened, buffer, got, writer, net, link, drains>>
  BY DEF ReadsEnd
<1>2. rpc = "ciphertext" => wpc = "dead"
  <2> SUFFICES ASSUME rpc = "ciphertext", wpc # "dead" PROVE FALSE
    OBVIOUS
  <2>1. wpc = "left"
    BY <1>1 DEF Base, Phases, ReaderGone
  <2>2. h[opened].base + InFrame + Len(Flow) = h[sealed].base
    BY <1>1, <2>1 DEF Placed, Sound
  <2>3. Len(Flow) = 0
    BY <1>1 DEF Flow
  <2>4. /\ opened < sealed /\ sealed \in Nat /\ sent \in Seq(Messages)
    BY DEF Placed, TakenAt, Base, FramingTypeOK
  <2>5. /\ h[opened] \in Starts /\ InFrame \in Nat /\ Inside(sent, h[opened])
        /\ InFrame + 1 \in 1..FrameLen(sent, h[opened])
        /\ h[opened].base + FrameLen(sent, h[opened]) <= h[sealed].base
    BY <1>1, <2>4, NextByte DEF Base
  <2>6. FrameLen(sent, h[opened]) \in Nat /\ h[opened].base \in Nat
    BY <2>4, <2>5, ChunkFacts DEF Starts
  <2> QED
    BY <2>2, <2>3, <2>5, <2>6
<1>3. Base'
  <2>1. FramingTypeOK' /\ WireOK'
    BY <1>1 DEF Base, FramingTypeOK, WireOK
  <2>2. Phases' /\ RefusesOnlyOversize' /\ HandedOut'
    BY <1>1, <1>2 DEF Base, Phases, RefusesOnlyOversize, SentTooBig, ReaderGone, HandedOut
  <2> QED
    BY <2>1, <2>2 DEF Base
<1>4. WriterAt(h[sealed])' /\ (Sound' <=> Sound)
  BY <1>1 DEF Placed, WriterAt, Sound
<1>5. rpc' # "failed" =>
        /\ ReaderAt(h[opened])' /\ TakenAt(h[opened])'
        /\ InFrame' = InFrame /\ Flow' = Flow
  BY <1>1 DEF Placed, ReaderAt, TakenAt, InFrame, Flow
<1>6. Placed(h)'
  BY <1>1, <1>4, <1>5 DEF Placed
<1> QED
  BY <1>3, <1>6

LEMMA ReadFailsKeeps ==
  ASSUME Base, NEW h, Placed(h), ReadFails
  PROVE  Base' /\ Placed(h)'
<1>1. /\ rpc \in {"length", "ciphertext"} /\ link = "lost" /\ rpc' = "failed"
      /\ UNCHANGED <<taken, want, opened, buffer, got, writer, net, link, drains>>
  BY DEF ReadFails
<1>2. Base'
  <2>1. FramingTypeOK' /\ WireOK'
    BY <1>1 DEF Base, FramingTypeOK, WireOK
  <2>2. Phases' /\ RefusesOnlyOversize' /\ HandedOut'
    BY <1>1 DEF Base, Phases, RefusesOnlyOversize, SentTooBig, ReaderGone, HandedOut
  <2> QED
    BY <2>1, <2>2 DEF Base
<1>3. Placed(h)'
  BY <1>1 DEF Placed, WriterAt, Sound
<1> QED
  BY <1>2, <1>3

-----------------------------------------------------------------------------
(* The theorems.                                                           *)

LEMMA FramingInit == Init => FramingInv
<1> SUFFICES ASSUME Init PROVE FramingInv
  OBVIOUS
<1> DEFINE first == [msg |-> 1, at |-> 1, base |-> 0]
           h == [k \in {0} |-> first]
<1>1. 0..0 = {0} /\ 0..(0 - 1) = {}
  OBVIOUS
<1>2. first \in Starts /\ first.msg = 1 /\ first.at = 1 /\ first.base = 0
  BY DEF Starts
<1> HIDE DEF first
<1>3. h \in [0..0 -> Starts] /\ h[0] = first
  BY <1>1, <1>2
<1> HIDE DEF h
<1>4. Base
  <2>1. << >> \in Seq(Messages) /\ << >> \in Bytes /\ << >> \in Seq(WireBytes) /\ Len(<< >>) = 0
    BY DEF Bytes
  <2>2. FramingTypeOK /\ WireOK
    BY <2>1, FramingAssumption DEF Init, FramingTypeOK, WireOK
  <2>3. Phases /\ RefusesOnlyOversize
    BY DEF Init, Phases, RefusesOnlyOversize, ReaderGone
  <2>4. HandedOut
    BY <2>1, FramingAssumption DEF Init, HandedOut
  <2> QED
    BY <2>2, <2>3, <2>4 DEF Base
<1>5. Chunks(h, sent, sealed)
  <2>1. sealed = 0
    BY DEF Init
  <2>2. first.base <= first.base
    BY <1>2
  <2> QED
    BY <2>1, <2>2, <1>1, <1>3 DEF Chunks
<1>6. Len(<< >>) = 0 /\ 0 + 1 = 1
  OBVIOUS
<1>7. WriterAt(h[sealed]) /\ ReaderAt(h[opened]) /\ TakenAt(h[opened])
  BY <1>2, <1>3, <1>6 DEF Init, WriterAt, ReaderAt, TakenAt
<1>8. Flow = << >> /\ InFrame = 0 /\ h[opened].base = 0 /\ h[sealed].base = 0
  BY <1>2, <1>3, <1>6 DEF Init, Flow, InFrame
<1>9. Carries(h, sent, sealed, h[opened].base + InFrame, Flow)
  <2>1. DOMAIN << >> = {} /\ 0 + 0 + 0 <= 0
    OBVIOUS
  <2> QED
    BY <1>6, <1>8, <2>1 DEF Carries
<1>10. h[opened].base + InFrame + Len(Flow) = h[sealed].base
  BY <1>6, <1>8
<1>11. Placed(h)
  BY <1>5, <1>7, <1>9, <1>10 DEF Placed
<1> QED
  BY <1>4, <1>11 DEF FramingInv

LEMMA FramingStep == FramingInv /\ [Next]_vars => FramingInv'
<1> SUFFICES ASSUME Base, NEW h, Placed(h), [Next]_vars
             PROVE  Base' /\ \E h2 : Placed(h2)'
  BY DEF FramingInv
<1>1. ASSUME NEW m \in Messages, Send(m) PROVE Base' /\ Placed(h)'
  BY <1>1, SendKeeps
<1>2. CASE SealChunk
  BY <1>2, SealKeeps
<1>3. CASE SendReturns \/ FlushReturns
  BY <1>3, ReturnKeeps
<1>4. CASE PassOn
  BY <1>4, PassOnKeeps
<1>5. CASE WriteFails
  BY <1>5, GoneKeeps DEF WriteFails
<1>6. CASE Leaves
  BY <1>6, GoneKeeps DEF Leaves
<1>7. CASE Dies
  BY <1>7, GoneKeeps DEF Dies
<1>8. CASE LinkLost
  BY <1>8, LinkLostKeeps
<1>9. CASE Receive
  BY <1>9, ReceiveStepKeeps
<1>10. CASE DrainBuffered
  BY <1>10, DrainKeeps
<1>11. CASE Refuse
  BY <1>11, RefuseKeeps
<1>12. CASE ReadChunk
  BY <1>12, ReadChunkKeeps
<1>13. CASE Collect
  BY <1>13, CollectKeeps
<1>14. CASE ReadLength
  BY <1>14, ReadLengthKeeps
<1>15. CASE OpenChunk
  BY <1>15, OpenKeeps
<1>16. CASE ReadsEnd
  BY <1>16, ReadsEndKeeps
<1>17. CASE ReadFails
  BY <1>17, ReadFailsKeeps
<1>18. CASE UNCHANGED vars
  <2>1. FramingTypeOK' /\ WireOK'
    BY <1>18 DEF Base, FramingTypeOK, WireOK, vars
  <2>2. Phases' /\ RefusesOnlyOversize' /\ HandedOut'
    BY <1>18 DEF Base, Phases, RefusesOnlyOversize, SentTooBig, ReaderGone, HandedOut, vars
  <2>3. Placed(h)'
    BY <1>18 DEF Placed, WriterAt, Sound, ReaderAt, TakenAt, InFrame, Flow, vars
  <2> QED
    BY <2>1, <2>2, <2>3 DEF Base
<1> QED
  BY <1>1, <1>2, <1>3, <1>4, <1>5, <1>6, <1>7, <1>8, <1>9, <1>10, <1>11, <1>12,
     <1>13, <1>14, <1>15, <1>16, <1>17, <1>18 DEF Next, WriterStep, ReaderStep

LEMMA FramingInvariant == Spec => []FramingInv
BY FramingInit, FramingStep, PTL DEF Spec

\* Every variable of writer, link and reader keeps its type; no Noise message is
\* opened that was not sealed, and none is longer than MAX_NOISE_MSG.
THEOREM FramingTypes == Spec => []FramingTypeOK
<1>1. FramingInv => FramingTypeOK
  BY DEF FramingInv, Base
<1> QED
  BY <1>1, FramingInvariant, PTL

\* The chunks, lengths and nonces of this program are never refused: for any
\* sizes, the reader fails only on a lost link, a writer that died, or a message
\* above MAX_PAYLOAD.
THEOREM OwnFramesAreAccepted == Spec => []RefusesOnlyOversize
<1>1. FramingInv => RefusesOnlyOversize
  BY DEF FramingInv, Base
<1> QED
  BY <1>1, FramingInvariant, PTL

\* What was flushed and has arrived is handed out: nothing of it waits in the
\* BufWriter, in a frame or in ProtocolReader.buffer.
THEOREM FlushedIsDelivered == Spec => []QuietMeansDelivered
<1>1. FramingInv => QuietMeansDelivered
  <2> SUFFICES ASSUME Base, NEW h, Placed(h),
                      wpc \in {"idle", "left"}, link # "lost",
                      net = << >>, taken = << >>, rpc \in {"length", "ended"}
               PROVE  got = sent
    BY DEF FramingInv, QuietMeansDelivered
  <2>1. /\ opened \in 0..sealed /\ opened \in Nat /\ sealed \in Nat
        /\ sent \in Seq(Messages) /\ got \in Seq(Messages)
        /\ buffer \in Bytes /\ Len(buffer) \in Nat
    BY DEF Base, FramingTypeOK, Bytes
  <2>2. rest = << >> /\ held = << >> /\ Sound
    BY DEF Base, Phases, Sound
  <2>3. Flow = << >> /\ Len(Flow) = 0
    BY <2>2 DEF Flow
  <2>4. InFrame = 0
    BY DEF InFrame
  <2>5. h[opened].base + InFrame + Len(Flow) = h[sealed].base
    BY <2>2 DEF Placed
  <2>6. opened = sealed
    <3> SUFFICES ASSUME opened < sealed PROVE FALSE
      BY <2>1
    <3>1. /\ h[opened] \in Starts /\ Inside(sent, h[opened])
          /\ h[opened].base + FrameLen(sent, h[opened]) <= h[sealed].base
      BY NextByte DEF Base
    <3>2. /\ FrameLen(sent, h[opened]) \in Nat /\ FrameLen(sent, h[opened]) > 2
          /\ h[opened].base \in Nat
      BY <3>1, <2>1, ChunkFacts DEF LengthBytes, Starts
    <3> QED
      BY <3>1, <3>2, <2>3, <2>4, <2>5
  <2>7. h[opened].msg = Len(sent) + 1 /\ h[opened].at = 1
    BY <2>2, <2>6 DEF Placed, WriterAt
  <2>8. ReaderAt(h[opened]) /\ Decode(buffer) = NeedMore
    BY DEF Placed, Base, Phases
  <2>9. h[opened].msg = Len(got) + 1
    BY <2>8, BufferFacts DEF ReaderAt, NextOut, Base
  <2>10. Len(got) = Len(sent)
    BY <2>1, <2>7, <2>9
  <2> QED
    BY <2>1, <2>10 DEF Base, HandedOut
<1> QED
  BY <1>1, FramingInvariant, PTL

\* Bytes, chunks and frames implement the channel of whole messages that the
\* rest of the program is modelled on.
THEOREM FramingImplementsChannel == Spec => ImplementsChannel
<1>1. Init => Chan!ChanInit
  BY DEF Init, Chan!ChanInit
<1>2. FramingInv /\ [Next]_vars => [Chan!ChanNext]_Chan!chanVars
  <2> SUFFICES ASSUME Base, NEW h, Placed(h), [Next]_vars
               PROVE  [Chan!ChanNext]_Chan!chanVars
    BY DEF FramingInv
  <2> DEFINE over == rpc \in {"ended", "failed"}
  <2>0. ASSUME ~over, over', UNCHANGED <<sent, got>> PROVE Chan!End
    <3>1. over' = TRUE
      BY <2>0
    <3> QED
      BY <2>0, <3>1 DEF Chan!End
  <2>00. ASSUME over' <=> over, UNCHANGED <<sent, got>> PROVE UNCHANGED Chan!chanVars
    <3>1. over' = over
      BY <2>00
    <3> QED
      BY <2>00, <3>1 DEF Chan!chanVars
  <2>1. ASSUME NEW m \in Messages, Send(m) PROVE Chan!Put
    BY <2>1 DEF Send, Chan!Put
  <2>2. CASE Receive
    <3>1. ReaderAt(h[opened])
      BY <2>2 DEF Receive, Placed
    <3>2. Len(got) < Len(sent) /\ got' = Append(got, sent[Len(got) + 1])
      BY <2>2, <3>1, BufferFacts DEF Receive, Base, NextOut
    <3>3. ~over /\ ~over' /\ UNCHANGED sent
      BY <2>2 DEF Receive
    <3>4. over' = over
      BY <3>3
    <3>5. UNCHANGED <<sent, over>>
      BY <3>3, <3>4
    <3> QED
      BY <3>2, <3>3, <3>5 DEF Chan!Take, Chan!ChanNext
  <2>3. CASE DrainBuffered
    <3>1. buffer = << >> /\ rpc = "drain"
      BY <2>3 DEF DrainBuffered, Base, Phases
    <3>2. Decode(buffer) # "message"
      BY <3>1, FramingAssumption DEF Decode, NeedMore
    <3> QED
      BY <2>3, <3>1, <3>2 DEF DrainBuffered, Chan!chanVars
  <2>4. CASE ReadLength
    <3>1. ~over /\ UNCHANGED <<sent, got>>
      BY <2>4 DEF ReadLength
    <3> QED
      BY <3>1, <2>0, <2>00 DEF Chan!ChanNext
  <2>5. CASE OpenChunk
    <3>1. ~over /\ UNCHANGED <<sent, got>>
      BY <2>5 DEF OpenChunk
    <3> QED
      BY <3>1, <2>0, <2>00 DEF Chan!ChanNext
  <2>6. CASE Refuse \/ ReadsEnd \/ ReadFails
    <3>1. ~over /\ over' /\ UNCHANGED <<sent, got>>
      BY <2>6 DEF Refuse, ReadsEnd, ReadFails
    <3> QED
      BY <3>1, <2>0 DEF Chan!ChanNext
  <2>7. CASE ReadChunk \/ Collect
    BY <2>7 DEF ReadChunk, Collect, Chan!chanVars
  <2>8. CASE SealChunk \/ SendReturns \/ PassOn \/ FlushReturns
    BY <2>8 DEF SealChunk, SendReturns, PassOn, FlushReturns, Chan!chanVars
  <2>9. CASE WriteFails \/ Leaves \/ Dies \/ LinkLost
    BY <2>9 DEF WriteFails, Leaves, Dies, Gone, LinkLost, Chan!chanVars
  <2>10. CASE UNCHANGED vars
    BY <2>10 DEF vars, Chan!chanVars
  <2> QED
    BY <2>1, <2>2, <2>3, <2>4, <2>5, <2>6, <2>7, <2>8, <2>9, <2>10
      DEF Next, WriterStep, ReaderStep, Chan!ChanNext
<1> QED
  BY <1>1, <1>2, FramingInvariant, PTL DEF Spec, Chan!ChanSpec, ImplementsChannel
=============================================================================
