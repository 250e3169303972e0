--------------------------- MODULE ClipboardProofs ---------------------------
(***************************************************************************)
(* Proofs about Clipboard: every variable keeps its type; the monitor      *)
(* catches up with the clipboard however the stream is cut into contents,  *)
(* and whatever users and other machines do; and a line that is left to    *)
(* come to rest reaches every machine.                                     *)
(***************************************************************************)
EXTENDS Clipboard, SequenceTheorems, WellFoundedInduction, TLAPS

-----------------------------------------------------------------------------
(* Texts                                                                   *)

\* Every set of numbers that is not empty has a least one.
LEMMA Least ==
  ASSUME NEW T \in SUBSET Nat, T # {}
  PROVE  \E n \in T : \A k \in T : n <= k
<1> DEFINE Below == {p \in Nat \X Nat : p[1] < p[2]}
<1>0. IsWellFoundedOn(Below, Nat)
  BY NatLessThanWellFounded, Zenon DEF OpToRel
<1> HIDE DEF Below
<1>1. PICK n \in T : \A k \in T : <<k, n>> \notin Below
  BY <1>0, WFMin
<1>2. ASSUME NEW k \in T PROVE n <= k
  <2>1. <<k, n>> \notin Below /\ k \in Nat /\ n \in Nat
    BY <1>1
  <2>2. ~(k < n)
    BY <2>1 DEF Below
  <2>3. QED
    BY <2>1, <2>2
<1>3. QED
  BY <1>2

\* TrimmedLen is defined, and the only number that says where the text ends.
LEMMA TrimmedLenIs ==
  ASSUME NEW t \in Text
  PROVE  /\ TrimmedLen(t) \in 0 .. Len(t)
         /\ \A i \in TrimmedLen(t) + 1 .. Len(t) : t[i] = NL
         /\ TrimmedLen(t) # 0 => t[TrimmedLen(t)] # NL
<1> DEFINE T == {n \in 0 .. Len(t) : \A i \in n + 1 .. Len(t) : t[i] = NL}
<1>1. Len(t) \in Nat
  BY LenProperties DEF Text
<1>2. Len(t) \in T /\ T \in SUBSET Nat
  BY <1>1
<1>3. PICK n \in T : \A k \in T : n <= k
  BY <1>2, Least
<1>4. ASSUME n # 0, t[n] = NL PROVE FALSE
  <2>1. n \in 0 .. Len(t) /\ \A i \in n + 1 .. Len(t) : t[i] = NL
    BY <1>3
  <2>2. ASSUME NEW i \in n - 1 + 1 .. Len(t) PROVE t[i] = NL
    BY <1>1, <1>4, <2>1
  <2>3. n - 1 \in T
    BY <1>1, <1>4, <2>1, <2>2
  <2>4. n <= n - 1
    BY <1>3, <2>3
  <2>5. QED
    BY <1>1, <2>1, <2>4
<1>5. \E k \in 0 .. Len(t) : /\ \A i \in k + 1 .. Len(t) : t[i] = NL
                             /\ k # 0 => t[k] # NL
  BY <1>3, <1>4
<1>6. QED
  BY <1>5 DEF TrimmedLen

LEMMA TrimmedLenUnique ==
  ASSUME NEW t \in Text, NEW n \in 0 .. Len(t),
         \A i \in n + 1 .. Len(t) : t[i] = NL, n # 0 => t[n] # NL
  PROVE  TrimmedLen(t) = n
<1> DEFINE k == TrimmedLen(t)
<1>1. Len(t) \in Nat
  BY LenProperties DEF Text
<1>2. k \in 0 .. Len(t) /\ (\A i \in k + 1 .. Len(t) : t[i] = NL) /\ (k # 0 => t[k] # NL)
  BY TrimmedLenIs
<1> HIDE DEF k
<1>3. ~(k < n) /\ ~(n < k)
  BY <1>1, <1>2
<1>4. k = n
  BY <1>1, <1>2, <1>3
<1>5. QED
  BY <1>4 DEF k

\* What trimming leaves.
LEMMA TrimIs ==
  ASSUME NEW t \in Text
  PROVE  /\ Trim(t) \in Text /\ Len(Trim(t)) = TrimmedLen(t)
         /\ \A i \in 1 .. TrimmedLen(t) : Trim(t)[i] = t[i]
<1> DEFINE k == TrimmedLen(t)
<1>1. Len(t) \in Nat /\ (\A i \in 1 .. Len(t) : t[i] \in Fragments \cup {NL})
  BY LenProperties, ElementOfSeq DEF Text
<1>2. k \in 0 .. Len(t)
  BY TrimmedLenIs
<1> HIDE DEF k
<1>3. \A i \in 1 .. k : t[i] \in Fragments \cup {NL}
  BY <1>1, <1>2
<1>4. 1 \in Int /\ k \in Int /\ k - 1 + 1 = k
  BY <1>1, <1>2
<1>5. /\ SubSeq(t, 1, k) \in Seq(Fragments \cup {NL})
      /\ Len(SubSeq(t, 1, k)) = IF 1 <= k THEN k - 1 + 1 ELSE 0
      /\ \A i \in 1 .. k - 1 + 1 : SubSeq(t, 1, k)[i] = t[1 + i - 1]
  BY <1>3, <1>4, SubSeqProperties
<1>6. /\ Len(SubSeq(t, 1, k)) = k
      /\ \A i \in 1 .. k : SubSeq(t, 1, k)[i] = t[i]
  BY <1>1, <1>2, <1>4, <1>5
<1>7. QED
  BY <1>5, <1>6 DEF Trim, k, Text

\* What a text is, as a function.
LEMMA TextIs ==
  ASSUME NEW t \in Text
  PROVE  /\ Len(t) \in Nat /\ DOMAIN t = 1 .. Len(t)
         /\ t = Empty <=> Len(t) = 0
<1>1. Len(t) \in Nat /\ DOMAIN t = 1 .. Len(t)
  BY LenProperties DEF Text
<1>2. Len(Empty) = 0 /\ (t # Empty => Len(t) # 0)
  BY EmptySeq DEF Text, Empty
<1>3. QED
  BY <1>1, <1>2

\* A text ends with what was appended to it, and with itself.
LEMMA ConcatIs ==
  ASSUME NEW t \in Text, NEW u \in Text
  PROVE  /\ t \o u \in Text /\ Len(t \o u) = Len(t) + Len(u)
         /\ \A i \in 1 .. Len(t) : (t \o u)[i] = t[i]
         /\ \A i \in 1 .. Len(u) : (t \o u)[Len(t) + i] = u[i]
<1>1. /\ t \o u \in Text /\ Len(t \o u) = Len(t) + Len(u)
      /\ \A i \in 1 .. Len(t) + Len(u) :
           (t \o u)[i] = IF i <= Len(t) THEN t[i] ELSE u[i - Len(t)]
  BY ConcatProperties DEF Text
<1>2. Len(t) \in Nat /\ Len(u) \in Nat
  BY TextIs
<1>3. ASSUME NEW i \in 1 .. Len(t) PROVE (t \o u)[i] = t[i]
  BY <1>1, <1>2
<1>4. ASSUME NEW i \in 1 .. Len(u) PROVE (t \o u)[Len(t) + i] = u[i]
  BY <1>1, <1>2
<1>5. QED
  BY <1>1, <1>3, <1>4

LEMMA EndsWithItself ==
  ASSUME NEW t \in Text
  PROVE  EndsWith(t, t)
BY TextIs DEF EndsWith

LEMMA ConcatEnds ==
  ASSUME NEW t \in Text, NEW u \in Text
  PROVE  EndsWith(t \o u, u)
<1>1. Len(t) \in Nat /\ Len(u) \in Nat
  BY TextIs
<1>2. /\ Len(t \o u) = Len(t) + Len(u)
      /\ \A i \in 1 .. Len(u) : (t \o u)[Len(t) + i] = u[i]
  BY ConcatIs
<1>3. Len(u) <= Len(t \o u) /\ Len(t \o u) - Len(u) = Len(t)
  BY <1>1, <1>2
<1>4. QED
  BY <1>2, <1>3 DEF EndsWith

LEMMA ConcatInk ==
  ASSUME NEW t \in Text, NEW u \in Text
  PROVE  HasInk(t \o u) <=> HasInk(t) \/ HasInk(u)
<1>1. /\ Len(t) \in Nat /\ Len(u) \in Nat /\ DOMAIN t = 1 .. Len(t)
      /\ DOMAIN u = 1 .. Len(u) /\ DOMAIN (t \o u) = 1 .. Len(t) + Len(u)
  BY TextIs, ConcatIs
<1>2. HasInk(t) => HasInk(t \o u)
  BY <1>1, ConcatIs DEF HasInk
<1>3. ASSUME HasInk(u) PROVE HasInk(t \o u)
  <2>1. PICK i \in 1 .. Len(u) : u[i] # NL
    BY <1>1, <1>3 DEF HasInk
  <2>2. Len(t) + i \in DOMAIN (t \o u) /\ (t \o u)[Len(t) + i] = u[i]
    BY <1>1, ConcatIs
  <2>3. QED
    BY <2>1, <2>2 DEF HasInk
<1>4. ASSUME HasInk(t \o u) PROVE HasInk(t) \/ HasInk(u)
  <2>1. PICK i \in 1 .. Len(t) + Len(u) : (t \o u)[i] # NL
    BY <1>1, <1>4 DEF HasInk
  <2>2. CASE i <= Len(t)
    <3>1. i \in 1 .. Len(t)
      BY <1>1, <2>2
    <3>2. t[i] # NL
      BY <2>1, <3>1, ConcatIs
    <3>3. QED
      BY <1>1, <3>1, <3>2 DEF HasInk
  <2>3. CASE ~(i <= Len(t))
    <3>1. i - Len(t) \in 1 .. Len(u) /\ Len(t) + (i - Len(t)) = i
      BY <1>1, <2>3
    <3>2. u[i - Len(t)] # NL
      BY <2>1, <3>1, ConcatIs
    <3>3. QED
      BY <1>1, <3>1, <3>2 DEF HasInk
  <2>4. QED
    BY <2>2, <2>3
<1>5. QED
  BY <1>2, <1>3, <1>4

\* What is read off the front of what is left leaves its end.
LEMMA AlikeEnd ==
  ASSUME NEW x \in Text, NEW y \in Text, NEW b \in Text, Alike(x \o y, b)
  PROVE  Alike(y, b)
<1>1. Len(x) \in Nat /\ Len(y) \in Nat /\ Len(b) \in Nat
  BY TextIs
<1>2. /\ Len(x \o y) = Len(x) + Len(y)
      /\ \A i \in 1 .. Len(y) : (x \o y)[Len(x) + i] = y[i]
  BY ConcatIs
<1>3. CASE EndsWith(b, x \o y)
  <2>1. Len(x) + Len(y) <= Len(b)
    BY <1>2, <1>3 DEF EndsWith
  <2>2. ASSUME NEW i \in 1 .. Len(y) PROVE y[i] = b[Len(b) - Len(y) + i]
    <3>1. Len(x) + i \in 1 .. Len(x) + Len(y)
      BY <1>1
    <3>2. (x \o y)[Len(x) + i] = b[Len(b) - (Len(x) + Len(y)) + (Len(x) + i)]
      BY <1>2, <1>3, <3>1 DEF EndsWith
    <3>3. Len(b) - (Len(x) + Len(y)) + (Len(x) + i) = Len(b) - Len(y) + i
      BY <1>1
    <3>4. QED
      BY <1>2, <3>2, <3>3
  <2>3. QED
    BY <1>1, <2>1, <2>2 DEF EndsWith, Alike
<1>4. CASE EndsWith(x \o y, b)
  <2>1. Len(b) <= Len(x) + Len(y)
    BY <1>2, <1>4 DEF EndsWith
  <2>2. CASE Len(b) <= Len(y)
    <3>1. ASSUME NEW i \in 1 .. Len(b) PROVE b[i] = y[Len(y) - Len(b) + i]
      <4>1. b[i] = (x \o y)[Len(x) + Len(y) - Len(b) + i]
        BY <1>2, <1>4 DEF EndsWith
      <4>2. /\ Len(y) - Len(b) + i \in 1 .. Len(y)
            /\ Len(x) + Len(y) - Len(b) + i = Len(x) + (Len(y) - Len(b) + i)
        BY <1>1, <2>2
      <4>3. QED
        BY <1>2, <4>1, <4>2
    <3>2. QED
      BY <2>2, <3>1 DEF EndsWith, Alike
  <2>3. CASE ~(Len(b) <= Len(y))
    <3>1. ASSUME NEW i \in 1 .. Len(y) PROVE y[i] = b[Len(b) - Len(y) + i]
      <4>1. Len(b) - Len(y) + i \in 1 .. Len(b)
        BY <1>1, <2>3
      <4>2. b[Len(b) - Len(y) + i]
              = (x \o y)[Len(x) + Len(y) - Len(b) + (Len(b) - Len(y) + i)]
        BY <1>2, <1>4, <4>1 DEF EndsWith
      <4>3. Len(x) + Len(y) - Len(b) + (Len(b) - Len(y) + i) = Len(x) + i
        BY <1>1
      <4>4. QED
        BY <1>2, <4>2, <4>3
    <3>2. QED
      BY <1>1, <2>3, <3>1 DEF EndsWith, Alike
  <2>4. QED
    BY <2>2, <2>3
<1>5. QED
  BY <1>3, <1>4 DEF Alike

\* Trimming leaves something of a text that has more than newlines, ...
LEMMA TrimInk ==
  ASSUME NEW t \in Text
  PROVE  HasInk(t) <=> Trim(t) # Empty
<1>1. Len(t) \in Nat /\ DOMAIN t = 1 .. Len(t)
  BY TextIs
<1>2. /\ TrimmedLen(t) \in 0 .. Len(t)
      /\ \A i \in TrimmedLen(t) + 1 .. Len(t) : t[i] = NL
      /\ TrimmedLen(t) # 0 => t[TrimmedLen(t)] # NL
  BY TrimmedLenIs
<1>3. HasInk(t) <=> TrimmedLen(t) # 0
  BY <1>1, <1>2 DEF HasInk
<1>4. QED
  BY <1>3, TrimIs, TextIs

\* ... takes away what comes after that, ...
LEMMA TrimConcat ==
  ASSUME NEW t \in Text, NEW u \in Text, ~HasInk(u)
  PROVE  Trim(t \o u) = Trim(t)
<1> DEFINE k == TrimmedLen(t)
<1>1. /\ Len(t) \in Nat /\ Len(u) \in Nat /\ DOMAIN u = 1 .. Len(u)
      /\ t \o u \in Text /\ Len(t \o u) = Len(t) + Len(u)
  BY TextIs, ConcatIs
<1>2. k \in 0 .. Len(t) /\ (\A i \in k + 1 .. Len(t) : t[i] = NL) /\ (k # 0 => t[k] # NL)
  BY TrimmedLenIs
<1>3. Len(Trim(t)) = k /\ Trim(t) \in Text /\ (\A i \in 1 .. k : Trim(t)[i] = t[i])
  BY TrimIs
<1> HIDE DEF k
<1>4. ASSUME NEW i \in k + 1 .. Len(t \o u) PROVE (t \o u)[i] = NL
  <2>1. CASE i <= Len(t)
    BY <1>1, <1>2, <2>1, ConcatIs
  <2>2. CASE ~(i <= Len(t))
    <3>1. i - Len(t) \in 1 .. Len(u) /\ Len(t) + (i - Len(t)) = i
      BY <1>1, <1>2, <2>2
    <3>2. u[i - Len(t)] = NL
      BY <1>1, <3>1 DEF HasInk
    <3>3. QED
      BY <3>1, <3>2, ConcatIs
  <2>3. QED
    BY <2>1, <2>2
<1>5. k \in 0 .. Len(t \o u) /\ (k # 0 => (t \o u)[k] # NL)
  BY <1>1, <1>2, ConcatIs
<1>6. TrimmedLen(t \o u) = k
  BY <1>1, <1>4, <1>5, TrimmedLenUnique
<1>7. /\ Trim(t \o u) \in Text /\ Len(Trim(t \o u)) = k
      /\ \A i \in 1 .. k : Trim(t \o u)[i] = (t \o u)[i]
  BY <1>1, <1>6, TrimIs
<1>8. \A i \in 1 .. k : Trim(t \o u)[i] = Trim(t)[i]
  <2>1. ASSUME NEW i \in 1 .. k PROVE (t \o u)[i] = t[i]
    BY <1>1, <1>2, ConcatIs
  <2>2. QED
    BY <1>3, <1>7, <2>1
<1>9. QED
  BY <1>3, <1>7, <1>8, SeqEqual DEF Text

\* ... and does not change which text is the end of which.
LEMMA TrimEnds ==
  ASSUME NEW c \in Text, NEW b \in Text, EndsWith(c, b), HasInk(b)
  PROVE  EndsWith(Trim(c), Trim(b))
<1> DEFINE k == TrimmedLen(b)
           d == Len(c) - Len(b)
<1>1. /\ Len(c) \in Nat /\ Len(b) \in Nat /\ Len(b) <= Len(c)
      /\ \A i \in 1 .. Len(b) : b[i] = c[d + i]
  BY TextIs DEF EndsWith
<1>2. k \in 0 .. Len(b) /\ (\A i \in k + 1 .. Len(b) : b[i] = NL) /\ (k # 0 => b[k] # NL)
  BY TrimmedLenIs
<1>3. Trim(b) \in Text /\ Len(Trim(b)) = k /\ (\A i \in 1 .. k : Trim(b)[i] = b[i])
  BY TrimIs
<1>4. k # 0
  BY <1>3, TrimInk, TextIs
<1>5. d \in Nat
  BY <1>1
<1> HIDE DEF k, d
<1>6. d + k \in 0 .. Len(c) /\ c[d + k] # NL
  <2>1. Len(c) = d + Len(b)
    BY <1>1 DEF d
  <2>2. k \in 1 .. Len(b)
    BY <1>1, <1>2, <1>4
  <2>3. QED
    BY <1>1, <1>2, <1>4, <1>5, <2>1, <2>2
<1>7. ASSUME NEW i \in d + k + 1 .. Len(c) PROVE c[i] = NL
  <2>1. i - d \in k + 1 .. Len(b) /\ i - d \in 1 .. Len(b) /\ d + (i - d) = i
    BY <1>1, <1>2, <1>5 DEF d
  <2>2. QED
    BY <1>1, <1>2, <2>1
<1>8. TrimmedLen(c) = d + k
  BY <1>6, <1>7, TrimmedLenUnique
<1>9. Len(Trim(c)) = d + k /\ (\A i \in 1 .. d + k : Trim(c)[i] = c[i])
  BY <1>8, TrimIs
<1>10. ASSUME NEW i \in 1 .. k PROVE Trim(b)[i] = Trim(c)[Len(Trim(c)) - Len(Trim(b)) + i]
  <2>1. Len(Trim(c)) - Len(Trim(b)) + i = d + i /\ d + i \in 1 .. d + k
        /\ i \in 1 .. Len(b)
    BY <1>1, <1>2, <1>3, <1>5, <1>9
  <2>2. QED
    BY <1>1, <1>3, <1>9, <2>1
<1>11. QED
  BY <1>1, <1>2, <1>3, <1>5, <1>9, <1>10 DEF EndsWith

LEMMA AlikeTrim ==
  ASSUME NEW c \in Text, NEW b \in Text, Alike(c, b), HasInk(b), HasInk(c)
  PROVE  Alike(Trim(c), Trim(b))
BY TrimEnds DEF Alike

-----------------------------------------------------------------------------
(* The invariant                                                           *)

\* What the monitor of m was given and has not compared, in the order it came.
Rest(m) == reading[m] \o part[m] \o pipe[m]

Unbroken(t) == \A i \in DOMAIN t : t[i] # NL

\* What the monitor of m has not come to is empty, and what it has begun has no
\* newline, ...
Idle(m) ==
  /\ mon[m] \notin {"watch", "eof"} =>
       pipe[m] = Empty /\ part[m] = Empty /\ reading[m] = Empty
  /\ mon[m] \notin {"initial", "poll"} => snap[m] = NoText
  /\ Unbroken(part[m])

\* ... what it is about to compare it will be able to send, ...
Room(m) ==
  (reading[m] # Empty \/ (mon[m] = "poll" /\ snap[m] # NoText)) => CanSend(m)

\* ... and the clipboard is alike to what is left to compare or, when nothing but
\* newlines is left, to what is recorded.
Seen(m) ==
  has_copy[m] /\ mon[m] = "watch" /\ ~cut[m] =>
    /\ Rest(m) # Empty => Alike(Rest(m), board[m])
    /\ setting[m] = NoText /\ ~HasInk(Rest(m)) /\ HasInk(board[m]) =>
         last[m] # Empty /\ Alike(last[m], Trim(board[m]))

Local(m) == Idle(m) /\ Room(m) /\ Seen(m)

IInv == ClipboardTypeOK /\ \A m \in Machines : Local(m)

-----------------------------------------------------------------------------
(* What the helpers do                                                     *)

LEMMA EmptyIs == Empty \in Text /\ Unbroken(Empty) /\ ~HasInk(Empty)
<1>1. Empty \in Text /\ DOMAIN Empty = {}
  BY DEF Text, Empty
<1>2. QED
  BY <1>1 DEF Unbroken, HasInk

LEMMA ConcatEmpty ==
  ASSUME NEW t \in Text
  PROVE  t \o Empty = t /\ Empty \o t = t
BY ConcatEmptySeq DEF Text, Empty

LEMMA ConcatNothing ==
  ASSUME NEW t \in Text, NEW u \in Text
  PROVE  t \o u = Empty <=> t = Empty /\ u = Empty
BY ConcatEqualIffEmpty DEF Text, Empty

\* A text that is read from its front.
LEMMA FrontIs ==
  ASSUME NEW t \in Text, t # Empty
  PROVE  /\ Head(t) \in Fragments \cup {NL} /\ Tail(t) \in Text
         /\ <<Head(t)>> \in Text /\ t = <<Head(t)>> \o Tail(t)
<1>1. /\ t \in Seq(Fragments \cup {NL}) /\ t # << >>
  BY DEF Text, Empty
<1>2. /\ Head(t) \in Fragments \cup {NL} /\ Tail(t) \in Seq(Fragments \cup {NL})
      /\ Len(Tail(t)) = Len(t) - 1
      /\ \A i \in 1 .. Len(Tail(t)) : Tail(t)[i] = t[i + 1]
  BY <1>1, HeadTailProperties
<1>3. <<Head(t)>> \in Text /\ Len(<<Head(t)>>) = 1 /\ <<Head(t)>>[1] = Head(t)
  BY <1>2 DEF Text
<1>4. Tail(t) \in Text /\ Len(t) \in Nat /\ Len(t) # 0
  BY <1>2, TextIs DEF Text
<1>5. <<Head(t)>> \o Tail(t) \in Text /\ Len(<<Head(t)>> \o Tail(t)) = Len(t)
  BY <1>2, <1>3, <1>4, ConcatIs
<1>6. ASSUME NEW i \in 1 .. Len(t) PROVE t[i] = (<<Head(t)>> \o Tail(t))[i]
  <2>1. CASE i = 1
    BY <1>1, <1>3, <1>4, <2>1, ConcatIs
  <2>2. CASE i # 1
    <3>1. i - 1 \in 1 .. Len(Tail(t)) /\ 1 + (i - 1) = i /\ (i - 1) + 1 = i
      BY <1>2, <1>4, <2>2
    <3>2. (<<Head(t)>> \o Tail(t))[1 + (i - 1)] = Tail(t)[i - 1]
      BY <1>3, <1>4, <3>1, ConcatIs
    <3>3. Tail(t)[i - 1] = t[(i - 1) + 1]
      BY <1>2, <3>1
    <3>4. QED
      BY <3>1, <3>2, <3>3
  <2>3. QED
    BY <2>1, <2>2
<1>7. t = <<Head(t)>> \o Tail(t)
  BY <1>4, <1>5, <1>6, SeqEqual DEF Text
<1>8. QED
  BY <1>2, <1>3, <1>4, <1>7

LEMMA AppendIs ==
  ASSUME NEW t \in Text, NEW s \in Fragments \cup {NL}
  PROVE  /\ Append(t, s) \in Text /\ Append(t, s) # Empty
         /\ <<s>> \in Text /\ Append(t, s) = t \o <<s>>
         /\ Len(Append(t, s)) = Len(t) + 1
         /\ \A i \in 1 .. Len(t) : Append(t, s)[i] = t[i]
         /\ Append(t, s)[Len(t) + 1] = s
<1>1. <<s>> \in Text
  BY DEF Text
<1>2. QED
  BY <1>1, AppendProperties, AppendIsConcat DEF Text, Empty

LEMMA ConcatAssoc ==
  ASSUME NEW t \in Text, NEW u \in Text, NEW v \in Text
  PROVE  (t \o u) \o v = t \o (u \o v)
BY ConcatAssociative DEF Text

LEMMA UnbrokenAppend ==
  ASSUME NEW t \in Text, Unbroken(t), NEW s \in Fragments \cup {NL}, s # NL
  PROVE  Unbroken(Append(t, s))
<1>1. Append(t, s) \in Text /\ Len(t) \in Nat /\ DOMAIN t = 1 .. Len(t)
  BY AppendIs, TextIs
<1>2. DOMAIN Append(t, s) = 1 .. Len(t) + 1
  BY <1>1, AppendIs, TextIs
<1>3. ASSUME NEW i \in 1 .. Len(t) + 1 PROVE Append(t, s)[i] # NL
  <2>1. CASE i \in 1 .. Len(t)
    BY <1>1, <2>1, AppendIs DEF Unbroken
  <2>2. CASE i = Len(t) + 1
    BY <2>2, AppendIs
  <2>3. QED
    BY <1>1, <2>1, <2>2
<1>4. QED
  BY <1>2, <1>3 DEF Unbroken

\* The variables of a machine that are texts.
LEMMA Texts ==
  ASSUME ClipboardTypeOK, NEW m \in Machines
  PROVE  /\ board[m] \in Text /\ last[m] \in Text /\ pipe[m] \in Text
         /\ part[m] \in Text /\ reading[m] \in Text /\ out[m] \in Seq(Text)
         /\ reading[m] \o part[m] \in Text /\ Rest(m) \in Text
         /\ Rest(m) = reading[m] \o (part[m] \o pipe[m])
         /\ part[m] \o pipe[m] \in Text
<1>1. /\ board[m] \in Text /\ last[m] \in Text /\ pipe[m] \in Text
      /\ part[m] \in Text /\ reading[m] \in Text /\ out[m] \in Seq(Text)
  BY DEF ClipboardTypeOK
<1>2. reading[m] \o part[m] \in Text /\ part[m] \o pipe[m] \in Text
  BY <1>1, ConcatIs
<1>3. Rest(m) \in Text
  BY <1>1, <1>2, ConcatIs DEF Rest
<1>4. Rest(m) = reading[m] \o (part[m] \o pipe[m])
  BY <1>1, ConcatAssoc DEF Rest
<1>5. QED
  BY <1>1, <1>2, <1>3, <1>4

\* TakeIfChanged keeps the types and adds at most one text.
LEMMA TakeTypes ==
  ASSUME ClipboardTypeOK, NEW m \in Machines, NEW t \in Text,
         CanSend(m), TakeIfChanged(m, t)
  PROVE  /\ last' \in [Machines -> Text]
         /\ last'[m] = IF t = Empty THEN last[m] ELSE t
         /\ out' \in [Machines -> Seq(Text)]
         /\ \A n \in Machines : Len(out'[n]) <= OutCap + 1
         /\ \A n \in Machines \ {m} : last'[n] = last[n] /\ out'[n] = out[n]
<1>1. out[m] \in Seq(Text)
  BY DEF ClipboardTypeOK
<1>2. Append(out[m], t) \in Seq(Text) /\ Len(Append(out[m], t)) = Len(out[m]) + 1
  BY <1>1, AppendProperties
<1>3. Len(out[m]) \in Nat /\ OutCap \in Nat
  BY <1>1, LenProperties, ClipboardAssumption
<1>4. CASE t = Empty \/ t = last[m]
  BY <1>4 DEF TakeIfChanged, ClipboardTypeOK
<1>5. CASE ~(t = Empty \/ t = last[m])
  <2>1. last' = [last EXCEPT ![m] = t] /\ out' = [out EXCEPT ![m] = Append(@, t)]
    BY <1>5 DEF TakeIfChanged
  <2>2. last' \in [Machines -> Text] /\ out' \in [Machines -> Seq(Text)]
    BY <2>1, <1>2 DEF ClipboardTypeOK
  <2>3. ASSUME NEW n \in Machines PROVE Len(out'[n]) <= OutCap + 1
    BY <2>1, <1>2, <1>3 DEF ClipboardTypeOK, CanSend
  <2>4. QED
    BY <1>5, <2>1, <2>2, <2>3 DEF ClipboardTypeOK
<1>6. QED
  BY <1>4, <1>5

\* SendTo keeps every queue within its capacity.
LEMMA SendToTypes ==
  ASSUME ClipboardTypeOK, NEW targets, NEW t \in Text, SendTo(targets, t)
  PROVE  /\ down' \in [Clients -> Seq(Text)]
         /\ \A c \in Clients : Len(down'[c]) <= QueueCap
<1>1. ASSUME NEW c \in Clients
      PROVE  /\ down[c] \in Seq(Text) /\ Append(down[c], t) \in Seq(Text)
             /\ Len(down[c]) <= QueueCap
             /\ Len(down[c]) < QueueCap => Len(Append(down[c], t)) <= QueueCap
  <2>1. down[c] \in Seq(Text) /\ Len(down[c]) <= QueueCap
    BY DEF ClipboardTypeOK
  <2>2. Append(down[c], t) \in Seq(Text) /\ Len(Append(down[c], t)) = Len(down[c]) + 1
    BY <2>1, AppendProperties
  <2>3. Len(down[c]) \in Nat /\ QueueCap \in Nat
    BY <2>1, LenProperties, ClipboardAssumption
  <2>4. QED
    BY <2>1, <2>2, <2>3
<1>2. QED
  BY <1>1 DEF SendTo

LEMMA BecomesTypes ==
  ASSUME ClipboardTypeOK, NEW m \in Machines, NEW t \in Text, Becomes(m, t)
  PROVE  /\ board' \in [Machines -> Text] /\ pipe' \in [Machines -> Text]
         /\ cut' \in [Machines -> BOOLEAN]
<1>1. pipe[m] \o t \in Text
  BY ConcatIs DEF ClipboardTypeOK
<1>2. QED
  BY <1>1 DEF Becomes, ClipboardTypeOK

\* A machine whose monitor and clipboard stay as they are stays as it should be,
\* also when a call of set begins on it.
LEMMA LocalStays ==
  ASSUME ClipboardTypeOK, ClipboardTypeOK', NEW n \in Machines, Local(n),
         has_copy'[n] = has_copy[n], board'[n] = board[n], mon'[n] = mon[n],
         snap'[n] = snap[n], pipe'[n] = pipe[n], part'[n] = part[n],
         reading'[n] = reading[n], cut'[n] = cut[n],
         out'[n] = out[n] \/ (out[n] # << >> /\ out'[n] = Tail(out[n])),
         (last'[n] = last[n] /\ setting'[n] = setting[n])
           \/ setting'[n] # NoText \/ ~has_copy[n]
  PROVE  Local(n)'
<1>1. Idle(n)'
  BY DEF Local, Idle
<1>2. Room(n)'
  <2>1. out[n] \in Seq(Text) /\ out'[n] \in Seq(Text)
    BY DEF ClipboardTypeOK
  <2>2. Len(out[n]) \in Nat /\ Len(out'[n]) \in Nat /\ Len(out'[n]) <= Len(out[n])
    <3>1. Len(out[n]) \in Nat
      BY <2>1, LenProperties
    <3>2. out[n] # << >> => Len(Tail(out[n])) = Len(out[n]) - 1
      BY <2>1, HeadTailProperties
    <3>3. Len(out'[n]) \in Nat
      BY <2>1, LenProperties
    <3>4. CASE out'[n] = out[n]
      BY <3>1, <3>4
    <3>5. CASE out[n] # << >> /\ out'[n] = Tail(out[n])
      <4>1. Len(out'[n]) = Len(out[n]) - 1
        BY <3>2, <3>5
      <4>2. QED
        BY <3>1, <3>3, <4>1
    <3>6. QED
      BY <3>4, <3>5
  <2>3. CanSend(n) => CanSend(n)'
    BY <2>2, ClipboardAssumption DEF CanSend
  <2>4. QED
    BY <2>3 DEF Local, Room
<1>3. Seen(n)'
  BY DEF Local, Seen, Rest
<1>4. QED
  BY <1>1, <1>2, <1>3 DEF Local

\* A new text on the clipboard is printed if the monitor watches.
LEMMA LocalBecomes ==
  ASSUME ClipboardTypeOK, ClipboardTypeOK', NEW m \in Machines, NEW t \in Text,
         \A n \in Machines : Local(n), Becomes(m, t),
         UNCHANGED <<has_copy, mon, snap, part, reading, out, last>>,
         \A n \in Machines \ {m} : setting'[n] = setting[n]
  PROVE  \A n \in Machines : Local(n)'
<1>1. ASSUME NEW n \in Machines, n # m PROVE Local(n)'
  <2>1. board'[n] = board[n] /\ pipe'[n] = pipe[n] /\ cut'[n] = cut[n]
    BY <1>1 DEF Becomes, ClipboardTypeOK
  <2>2. /\ has_copy'[n] = has_copy[n] /\ mon'[n] = mon[n] /\ snap'[n] = snap[n]
        /\ part'[n] = part[n] /\ reading'[n] = reading[n] /\ out'[n] = out[n]
        /\ last'[n] = last[n] /\ setting'[n] = setting[n]
    BY <1>1
  <2>3. QED
    BY <2>1, <2>2, LocalStays
<1>2. Local(m)'
  <2>1. board'[m] = t
    BY DEF Becomes, ClipboardTypeOK
  <2>2. CASE mon[m] = "watch"
    <3>1. pipe'[m] = pipe[m] \o t
      BY <2>2 DEF Becomes, ClipboardTypeOK
    <3>2. pipe[m] \in Text /\ reading[m] \o part[m] \in Text /\ Rest(m) \in Text
      BY Texts
    <3>3. Rest(m)' = Rest(m) \o t
      <4>1. Rest(m)' = (reading[m] \o part[m]) \o (pipe[m] \o t)
        BY <3>1 DEF Rest
      <4>2. (reading[m] \o part[m]) \o (pipe[m] \o t)
              = ((reading[m] \o part[m]) \o pipe[m]) \o t
        BY <3>2, ConcatAssoc
      <4>3. QED
        BY <4>1, <4>2 DEF Rest
    <3>4. Alike(Rest(m)', t) /\ (HasInk(t) => HasInk(Rest(m)'))
      BY <3>2, <3>3, ConcatEnds, ConcatInk DEF Alike
    <3>5. Seen(m)'
      BY <2>1, <3>4 DEF Seen
    <3>6. QED
      BY <2>2, <3>5 DEF Local, Idle, Room, CanSend
  <2>3. CASE mon[m] # "watch"
    <3>1. pipe'[m] = pipe[m]
      BY <2>3 DEF Becomes
    <3>2. QED
      BY <2>3, <3>1 DEF Local, Idle, Room, Seen, CanSend
  <2>4. QED
    BY <2>2, <2>3
<1>3. QED
  BY <1>1, <1>2

-----------------------------------------------------------------------------
(* Init and every step                                                     *)

LEMMA CopyableTexts ==
  ASSUME NEW t \in Copyable
  PROVE  t \in Text /\ t # Empty
BY ClipboardAssumption DEF Copyable

LEMMA InitInv == Init => IInv
<1> SUFFICES ASSUME Init PROVE IInv
  OBVIOUS
<1>1. board \in [Machines -> Text]
  BY CopyableTexts, EmptyIs DEF Init
<1>2. ClipboardTypeOK
  <2>1. Empty \in Text /\ << >> \in Seq(Text) /\ Len(<< >>) = 0
    BY EmptyIs
  <2>2. OutCap + 1 >= 0 /\ QueueCap >= 0
    BY ClipboardAssumption
  <2>3. own \subseteq Machines
    BY DEF Init
  <2>4. QED
    BY <1>1, <2>1, <2>2, <2>3 DEF Init, ClipboardTypeOK, MonitorPhases, Machines
<1>3. \A m \in Machines : Local(m)
  BY EmptyIs DEF Init, Local, Idle, Room, Seen
<1>4. QED
  BY <1>2, <1>3 DEF IInv

LEMMA UserStep ==
  ASSUME IInv, NEW m \in Machines, NEW t \in Copyable, UserCopies(m, t)
  PROVE  IInv'
<1> USE DEF frozenVars
<1>1. t \in Text /\ Becomes(m, t)
  BY CopyableTexts DEF UserCopies
<1>2. /\ board' \in [Machines -> Text] /\ pipe' \in [Machines -> Text]
      /\ cut' \in [Machines -> BOOLEAN]
  BY <1>1, BecomesTypes DEF IInv
<1>3. copies' \in Nat /\ own' \subseteq Machines
  BY DEF UserCopies, ClipboardTypeOK, IInv
<1>4. shared' \in Text \cup {NoText} /\ missed' \in BOOLEAN
  BY <1>1, TrimIs DEF UserCopies
<1>5. ClipboardTypeOK'
  BY <1>2, <1>3, <1>4 DEF UserCopies, ClipboardTypeOK, IInv
<1>6. \A n \in Machines : Local(n)'
  <2>1. UNCHANGED <<has_copy, mon, snap, part, reading, out, last, setting>>
    BY DEF UserCopies
  <2>2. QED
    BY <1>1, <1>5, <2>1, LocalBecomes DEF IInv
<1>7. QED
  BY <1>5, <1>6 DEF IInv

\* A step of m's monitor leaves the other machines as they are.
LEMMA Elsewhere ==
  ASSUME IInv, ClipboardTypeOK', NEW m \in Machines, Local(m)',
         UNCHANGED <<has_copy, board, setting>>,
         \A n \in Machines \ {m} :
           /\ mon'[n] = mon[n] /\ snap'[n] = snap[n] /\ pipe'[n] = pipe[n]
           /\ part'[n] = part[n] /\ reading'[n] = reading[n] /\ out'[n] = out[n]
           /\ last'[n] = last[n] /\ cut'[n] = cut[n]
  PROVE  IInv'
<1>1. ASSUME NEW n \in Machines, n # m PROVE Local(n)'
  <2>1. /\ has_copy'[n] = has_copy[n] /\ board'[n] = board[n]
        /\ setting'[n] = setting[n]
    OBVIOUS
  <2>2. /\ mon'[n] = mon[n] /\ snap'[n] = snap[n] /\ pipe'[n] = pipe[n]
        /\ part'[n] = part[n] /\ reading'[n] = reading[n] /\ out'[n] = out[n]
        /\ last'[n] = last[n] /\ cut'[n] = cut[n]
    BY <1>1
  <2>3. QED
    BY <2>1, <2>2, LocalStays DEF IInv
<1>2. QED
  BY <1>1 DEF IInv

\* Reading on moves what is left from one place to the next.
LEMMA ReadRest ==
  ASSUME ClipboardTypeOK, NEW m \in Machines, ReadLine(m) \/ ReadUnended(m),
         Unbroken(part[m])
  PROVE  /\ Rest(m)' = Rest(m) /\ Unbroken(part'[m])
         /\ pipe' \in [Machines -> Text] /\ part' \in [Machines -> Text]
         /\ reading' \in [Machines -> Text]
<1> DEFINE s == Head(pipe[m])
<1>1. /\ pipe[m] \in Text /\ part[m] \in Text /\ reading[m] \in Text
      /\ part[m] \o pipe[m] \in Text
      /\ Rest(m) = reading[m] \o (part[m] \o pipe[m])
  BY Texts
<1>2. CASE ReadLine(m)
  <2>1. /\ pipe[m] # Empty /\ pipe' = [pipe EXCEPT ![m] = Tail(@)]
        /\ IF s = NL
             THEN /\ reading' = [reading EXCEPT ![m] = @ \o Append(part[m], NL)]
                  /\ part' = [part EXCEPT ![m] = Empty]
             ELSE /\ part' = [part EXCEPT ![m] = Append(@, s)]
                  /\ UNCHANGED reading
    BY <1>2 DEF ReadLine
  <2>2. /\ s \in Fragments \cup {NL} /\ Tail(pipe[m]) \in Text
        /\ <<s>> \in Text /\ pipe[m] = <<s>> \o Tail(pipe[m])
    BY <1>1, <2>1, FrontIs
  <2>3. Append(part[m], s) \in Text /\ Append(part[m], s) = part[m] \o <<s>>
    BY <1>1, <2>2, AppendIs
  <2> HIDE DEF s
  <2>4. (reading[m] \o Append(part[m], s)) \o Tail(pipe[m]) = Rest(m)
    <3>1. Append(part[m], s) \o Tail(pipe[m]) = part[m] \o (<<s>> \o Tail(pipe[m]))
      <4>1. (part[m] \o <<s>>) \o Tail(pipe[m]) = part[m] \o (<<s>> \o Tail(pipe[m]))
        BY <1>1, <2>2, ConcatAssoc
      <4>2. QED
        BY <2>3, <4>1
    <3>2. (reading[m] \o Append(part[m], s)) \o Tail(pipe[m])
            = reading[m] \o (Append(part[m], s) \o Tail(pipe[m]))
      <4>1. /\ reading[m] \in Text /\ Append(part[m], s) \in Text
            /\ Tail(pipe[m]) \in Text
        BY <1>1, <2>2, <2>3
      <4>2. QED
        BY <4>1, ConcatAssoc
    <3>3. <<s>> \o Tail(pipe[m]) = pipe[m]
      BY <2>2
    <3>4. QED
      BY <1>1, <3>1, <3>2, <3>3
  <2>5. pipe' \in [Machines -> Text] /\ pipe'[m] = Tail(pipe[m])
    BY <2>1, <2>2 DEF ClipboardTypeOK
  <2>6. CASE s = NL
    <3>1. reading[m] \o Append(part[m], s) \in Text
      BY <1>1, <2>3, ConcatIs
    <3>2. /\ reading' \in [Machines -> Text] /\ part' \in [Machines -> Text]
          /\ reading'[m] = reading[m] \o Append(part[m], s) /\ part'[m] = Empty
      BY <2>1, <2>6, <3>1, EmptyIs DEF ClipboardTypeOK
    <3>3. Rest(m)' = (reading[m] \o Append(part[m], s)) \o Tail(pipe[m])
      BY <2>5, <3>1, <3>2, ConcatEmpty DEF Rest
    <3>4. Rest(m)' = Rest(m)
      BY <2>4, <3>3
    <3>5. QED
      BY <2>5, <3>2, <3>4, EmptyIs
  <2>7. CASE s # NL
    <3>1. /\ reading' = reading /\ part' \in [Machines -> Text]
          /\ part'[m] = Append(part[m], s)
      BY <2>1, <2>3, <2>7 DEF ClipboardTypeOK
    <3>2. Rest(m)' = (reading[m] \o Append(part[m], s)) \o Tail(pipe[m])
      BY <2>5, <3>1 DEF Rest
    <3>3. Rest(m)' = Rest(m)
      BY <2>4, <3>2
    <3>4. Unbroken(part'[m])
      BY <1>1, <2>2, <2>7, <3>1, UnbrokenAppend
    <3>5. QED
      BY <2>5, <3>1, <3>3, <3>4 DEF ClipboardTypeOK
  <2>8. QED
    BY <2>6, <2>7
<1>3. CASE ReadUnended(m)
  <2>1. reading[m] \o part[m] \in Text
    BY <1>1, ConcatIs
  <2>2. /\ reading' \in [Machines -> Text] /\ part' \in [Machines -> Text]
        /\ reading'[m] = reading[m] \o part[m] /\ part'[m] = Empty /\ pipe' = pipe
    BY <1>3, <2>1, EmptyIs DEF ReadUnended, ClipboardTypeOK
  <2>3. Rest(m)' = Rest(m)
    BY <2>1, <2>2, ConcatEmpty DEF Rest
  <2>4. QED
    BY <2>2, <2>3, EmptyIs DEF ClipboardTypeOK
<1>4. QED
  BY <1>2, <1>3

LEMMA ReadStep ==
  ASSUME IInv, NEW m \in Machines, ReadLine(m) \/ ReadUnended(m)
  PROVE  IInv'
<1> USE DEF frozenVars, historyVars
<1>1. ClipboardTypeOK /\ Local(m) /\ Unbroken(part[m])
  BY DEF IInv, Local, Idle
<1>2. /\ Rest(m)' = Rest(m) /\ Unbroken(part'[m])
      /\ pipe' \in [Machines -> Text] /\ part' \in [Machines -> Text]
      /\ reading' \in [Machines -> Text]
  BY <1>1, ReadRest
<1>3. /\ mon[m] \in {"watch", "eof"} /\ CanSend(m)
      /\ UNCHANGED <<frozenVars, board, last, mon, snap, out, setting, origin, up,
                     down, paused, copies, historyVars>>
      /\ \A n \in Machines \ {m} : /\ pipe'[n] = pipe[n] /\ part'[n] = part[n]
                                   /\ reading'[n] = reading[n]
  BY <1>1 DEF ReadLine, ReadUnended, ClipboardTypeOK
<1>4. ClipboardTypeOK'
  BY <1>1, <1>2, <1>3 DEF ClipboardTypeOK
<1>5. Idle(m)' /\ Room(m)'
  BY <1>1, <1>2, <1>3 DEF Local, Idle, Room, CanSend
<1>6. Seen(m)'
  BY <1>1, <1>2, <1>3 DEF Local, Seen
<1>7. QED
  BY <1>1, <1>3, <1>4, <1>5, <1>6, Elsewhere DEF Local

\* What was left is alike to the clipboard, so what has been compared, or what is
\* still left, is too.
LEMMA CompleteStep ==
  ASSUME IInv, NEW m \in Machines, ContentComplete(m)
  PROVE  IInv'
<1> USE DEF frozenVars
<1> DEFINE r == reading[m]
<1>1. /\ ClipboardTypeOK /\ Local(m)
      /\ r \in Text /\ r # Empty /\ pipe[m] \in Text /\ board[m] \in Text
      /\ part[m] \in Text /\ last[m] \in Text /\ Trim(r) \in Text
  BY Texts, TrimIs DEF IInv, ContentComplete
<1>2. CanSend(m) /\ TakeIfChanged(m, Trim(r))
  BY <1>1 DEF ContentComplete, Local, Room
<1>3. /\ last' \in [Machines -> Text]
      /\ last'[m] = IF Trim(r) = Empty THEN last[m] ELSE Trim(r)
      /\ out' \in [Machines -> Seq(Text)]
      /\ \A n \in Machines : Len(out'[n]) <= OutCap + 1
      /\ \A n \in Machines \ {m} : last'[n] = last[n] /\ out'[n] = out[n]
  BY <1>1, <1>2, TakeTypes
<1>4. /\ reading' = [reading EXCEPT ![m] = Empty]
      /\ part' = [part EXCEPT ![m] = Empty]
      /\ cut' = [cut EXCEPT ![m] = @ \/ part[m] # Empty]
      /\ UNCHANGED <<frozenVars, board, mon, snap, pipe, setting, origin, up, down,
                     paused, copies, own, shared, missed>>
  BY DEF ContentComplete
<1>5. ClipboardTypeOK'
  <2>1. reading' \in [Machines -> Text] /\ part' \in [Machines -> Text]
    BY <1>1, <1>4, EmptyIs DEF ClipboardTypeOK
  <2>2. cut' \in [Machines -> BOOLEAN]
    BY <1>1, <1>4 DEF ClipboardTypeOK
  <2>3. QED
    BY <1>1, <1>3, <1>4, <2>1, <2>2 DEF ClipboardTypeOK
<1>6. /\ reading'[m] = Empty /\ part'[m] = Empty
      /\ ~cut'[m] => ~cut[m] /\ part[m] = Empty
      /\ \A n \in Machines \ {m} : /\ reading'[n] = reading[n] /\ part'[n] = part[n]
                                   /\ cut'[n] = cut[n]
  BY <1>1, <1>4 DEF ClipboardTypeOK
<1>7. mon[m] \in {"watch", "eof"}
  BY <1>1 DEF Local, Idle
<1>8. Idle(m)' /\ Room(m)'
  BY <1>1, <1>4, <1>6, <1>7, EmptyIs DEF Local, Idle, Room
<1> HIDE DEF r
<1>9. Seen(m)'
  <2> SUFFICES ASSUME has_copy[m], mon[m] = "watch", ~cut[m], part[m] = Empty
               PROVE  /\ pipe[m] # Empty => Alike(pipe[m], board[m])
                      /\ setting[m] = NoText /\ ~HasInk(pipe[m]) /\ HasInk(board[m]) =>
                           last'[m] # Empty /\ Alike(last'[m], Trim(board[m]))
    <3>1. Rest(m)' = pipe[m]
      <4>1. Empty \o Empty = Empty /\ Empty \o pipe[m] = pipe[m]
        BY <1>1, ConcatEmpty, EmptyIs
      <4>2. reading'[m] = Empty /\ part'[m] = Empty /\ pipe'[m] = pipe[m]
        BY <1>4, <1>6
      <4>3. QED
        BY <4>1, <4>2 DEF Rest
    <3>2. QED
      BY <1>4, <1>6, <3>1 DEF Seen
  <2>1. Rest(m) = r \o pipe[m] /\ Rest(m) \in Text
    BY <1>1, Texts, ConcatEmpty DEF Rest, r
  <2>2. Rest(m) # Empty
    BY <1>1, <2>1, ConcatNothing
  <2>3. Alike(r \o pipe[m], board[m])
    BY <1>1, <2>1, <2>2 DEF Local, Seen
  <2>4. Alike(pipe[m], board[m])
    BY <1>1, <2>3, AlikeEnd
  <2>5. ASSUME setting[m] = NoText, ~HasInk(pipe[m]), HasInk(board[m])
        PROVE  last'[m] # Empty /\ Alike(last'[m], Trim(board[m]))
    <3>1. CASE HasInk(r)
      <4>1. HasInk(r \o pipe[m]) /\ Trim(r \o pipe[m]) = Trim(r)
        BY <1>1, <2>5, <3>1, ConcatInk, TrimConcat
      <4>2. Alike(Trim(r), Trim(board[m]))
        BY <1>1, <2>1, <2>3, <2>5, <4>1, AlikeTrim
      <4>3. Trim(r) # Empty
        BY <1>1, <3>1, TrimInk
      <4>4. QED
        BY <1>3, <4>2, <4>3
    <3>2. CASE ~HasInk(r)
      <4>1. ~HasInk(Rest(m))
        BY <1>1, <2>1, <2>5, <3>2, ConcatInk
      <4>2. Trim(r) = Empty
        BY <1>1, <3>2, TrimInk
      <4>3. QED
        BY <1>1, <1>3, <2>5, <4>1, <4>2 DEF Local, Seen
    <3>3. QED
      BY <3>1, <3>2
  <2>6. QED
    BY <2>4, <2>5
<1>10. Local(m)'
  BY <1>8, <1>9 DEF Local
<1>11. QED
  BY <1>3, <1>4, <1>5, <1>6, <1>10, Elsewhere

LEMMA MonitorStep ==
  ASSUME IInv, NEW m \in Machines, Monitor(m) \/ WatcherDies(m)
  PROVE  IInv'
<1> USE DEF frozenVars, historyVars
<1>0. /\ board[m] \in Text /\ pipe[m] \in Text /\ part[m] \in Text
      /\ reading[m] \in Text /\ Empty \in Text /\ Local(m) /\ ClipboardTypeOK
  BY EmptyIs, Texts DEF IInv
<1>1. CASE GetClipboard(m)
  <2>1. snap' \in [Machines -> Text \cup {NoText}]
    BY <1>0, <1>1 DEF GetClipboard, ClipboardTypeOK
  <2>2. ClipboardTypeOK'
    BY <1>0, <1>1, <2>1 DEF GetClipboard, ClipboardTypeOK
  <2>3. Local(m)'
    BY <1>0, <1>1 DEF GetClipboard, Local, Idle, Room, Seen, Rest, CanSend
  <2>4. QED
    BY <1>0, <1>1, <2>2, <2>3, Elsewhere DEF GetClipboard, ClipboardTypeOK
<1>2. CASE StoreInitial(m)
  <2>1. mon'[m] = "spawn" /\ snap'[m] = NoText /\ mon[m] = "initial"
    BY <1>0, <1>2 DEF StoreInitial, ClipboardTypeOK
  <2>2. ClipboardTypeOK'
    BY <1>0, <1>2 DEF StoreInitial, ClipboardTypeOK, MonitorPhases
  <2>3. Local(m)'
    BY <1>0, <1>2, <2>1 DEF StoreInitial, Local, Idle, Room, Seen
  <2>4. QED
    BY <1>0, <1>2, <2>2, <2>3, Elsewhere DEF StoreInitial, ClipboardTypeOK
<1>3. CASE StartWatcher(m)
  <2>1. mon'[m] = "watch" /\ mon[m] = "spawn" /\ pipe'[m] = board[m]
    BY <1>0, <1>3 DEF StartWatcher, ClipboardTypeOK
  <2>2. ClipboardTypeOK'
    BY <1>0, <1>3 DEF StartWatcher, ClipboardTypeOK, MonitorPhases
  <2>3. /\ reading[m] = Empty /\ part[m] = Empty /\ board' = board
        /\ UNCHANGED <<reading, part, snap, out>>
    BY <1>0, <1>3, <2>1 DEF StartWatcher, Local, Idle
  <2>4. Rest(m)' = board[m]
    BY <1>0, <2>1, <2>3, ConcatEmpty DEF Rest
  <2>5. Alike(board[m], board[m])
    BY <1>0, EndsWithItself DEF Alike
  <2>6. Idle(m)' /\ Room(m)'
    BY <1>0, <2>1, <2>3 DEF Local, Idle, Room
  <2>7. Seen(m)'
    BY <2>3, <2>4, <2>5 DEF Seen
  <2>8. QED
    BY <1>0, <1>3, <2>2, <2>6, <2>7, Elsewhere DEF StartWatcher, ClipboardTypeOK, Local
<1>4. CASE FallBackToPolling(m)
  <2>1. mon'[m] = "poll" /\ mon[m] = "spawn" /\ snap' = snap
    BY <1>0, <1>4 DEF FallBackToPolling, ClipboardTypeOK
  <2>2. ClipboardTypeOK'
    BY <1>0, <1>4 DEF FallBackToPolling, ClipboardTypeOK, MonitorPhases
  <2>3. snap[m] = NoText /\ reading[m] = Empty /\ part[m] = Empty /\ pipe[m] = Empty
    BY <1>0, <2>1 DEF Local, Idle, Room
  <2>4. Local(m)'
    BY <1>0, <1>4, <2>1, <2>3 DEF FallBackToPolling, Local, Idle, Room, Seen
  <2>5. QED
    BY <1>0, <1>4, <2>2, <2>4, Elsewhere DEF FallBackToPolling, ClipboardTypeOK
<1>5. CASE MonitorEnds(m)
  <2>1. mon'[m] = "ended" /\ UNCHANGED <<reading, part, pipe>>
    BY <1>0, <1>5 DEF MonitorEnds, ClipboardTypeOK
  <2>2. ClipboardTypeOK'
    BY <1>0, <1>5 DEF MonitorEnds, ClipboardTypeOK, MonitorPhases
  <2>3. Local(m)'
    BY <1>0, <1>5, <2>1 DEF MonitorEnds, Local, Idle, Room, Seen
  <2>4. QED
    BY <1>0, <1>5, <2>2, <2>3, Elsewhere DEF MonitorEnds, ClipboardTypeOK
<1>6. CASE PollCompares(m)
  <2>1. PICK t \in Text : t = snap[m]
    BY <1>0, <1>6 DEF PollCompares, ClipboardTypeOK
  <2>2. CanSend(m) /\ TakeIfChanged(m, t)
    BY <1>0, <1>6, <2>1 DEF PollCompares, Local, Room
  <2>3. /\ last' \in [Machines -> Text] /\ out' \in [Machines -> Seq(Text)]
        /\ \A n \in Machines : Len(out'[n]) <= OutCap + 1
        /\ \A n \in Machines \ {m} : last'[n] = last[n] /\ out'[n] = out[n]
    BY <1>0, <2>2, TakeTypes
  <2>4. /\ snap'[m] = NoText /\ mon' = mon /\ mon[m] = "poll"
        /\ UNCHANGED <<reading, part, pipe>>
    BY <1>0, <1>6 DEF PollCompares, ClipboardTypeOK
  <2>5. ClipboardTypeOK'
    BY <1>0, <1>6, <2>3 DEF PollCompares, ClipboardTypeOK
  <2>6. Local(m)'
    BY <1>0, <2>4 DEF Local, Idle, Room, Seen
  <2>7. QED
    BY <1>0, <1>6, <2>3, <2>5, <2>6, Elsewhere DEF PollCompares, ClipboardTypeOK
<1>7. CASE WatcherDies(m)
  <2>1. /\ mon'[m] = "eof" /\ mon[m] = "watch"
        /\ UNCHANGED <<snap, out, reading, part>>
    BY <1>0, <1>7 DEF WatcherDies, ClipboardTypeOK
  <2>2. pipe' \in [Machines -> Text]
    <3>1. PICK n \in 0 .. Len(pipe[m]) : pipe' = [pipe EXCEPT ![m] = SubSeq(@, 1, n)]
      BY <1>7 DEF WatcherDies
    <3>2. Len(pipe[m]) \in Nat
      BY <1>0, TextIs
    <3>3. \A i \in 1 .. n : pipe[m][i] \in Fragments \cup {NL}
      BY <1>0, <3>2, ElementOfSeq DEF Text
    <3>4. SubSeq(pipe[m], 1, n) \in Text
      BY <3>2, <3>3, SubSeqProperties DEF Text
    <3>5. QED
      BY <1>0, <3>1, <3>4 DEF ClipboardTypeOK
  <2>3. ClipboardTypeOK'
    BY <1>0, <1>7, <2>2 DEF WatcherDies, ClipboardTypeOK, MonitorPhases
  <2>4. Local(m)'
    BY <1>0, <2>1 DEF Local, Idle, Room, Seen, CanSend
  <2>5. QED
    BY <1>0, <1>7, <2>3, <2>4, Elsewhere DEF WatcherDies, ClipboardTypeOK
<1>8. QED
  BY <1>1, <1>2, <1>3, <1>4, <1>5, <1>6, <1>7, ReadStep, CompleteStep DEF Monitor

\* Texts come out of the queues as they went in.
LEMMA QueueHead ==
  ASSUME NEW q \in Seq(Text), q # << >>
  PROVE  Head(q) \in Text /\ Tail(q) \in Seq(Text) /\ Len(Tail(q)) = Len(q) - 1
         /\ Len(q) \in Nat
BY HeadTailProperties, LenProperties

LEMMA SetBeginsStep ==
  ASSUME IInv, ClipboardTypeOK', NEW m \in Machines, NEW t \in Text, SetBegins(m, t),
         UNCHANGED <<has_copy, board, mon, snap, pipe, part, reading, out, cut>>
  PROVE  IInv'
<1>1. t # NoText
  BY ClipboardAssumption
<1>2. ASSUME NEW n \in Machines PROVE Local(n)'
  <2>1. (last'[n] = last[n] /\ setting'[n] = setting[n]) \/ setting'[n] # NoText
    BY <1>1 DEF SetBegins, IInv, ClipboardTypeOK
  <2>2. QED
    BY <2>1, LocalStays DEF IInv
<1>3. QED
  BY <1>2 DEF IInv

LEMMA SetEndsStep ==
  ASSUME IInv, ClipboardTypeOK', NEW m \in Machines, SetEnds(m),
         UNCHANGED <<has_copy, mon, snap, part, reading, out, last>>
  PROVE  IInv'
<1>1. setting[m] \in Text
  BY DEF SetEnds, IInv, ClipboardTypeOK
<1>2. \A n \in Machines \ {m} : setting'[n] = setting[n]
  BY DEF SetEnds, IInv, ClipboardTypeOK
<1>3. CASE has_copy[m]
  <2>1. Becomes(m, setting[m])
    BY <1>3 DEF SetEnds
  <2>2. QED
    BY <1>1, <1>2, <2>1, LocalBecomes DEF IInv
<1>4. CASE ~has_copy[m]
  <2>1. UNCHANGED <<board, pipe, cut>>
    BY <1>4 DEF SetEnds
  <2>2. ASSUME NEW n \in Machines PROVE Local(n)'
    <3>1. (last'[n] = last[n] /\ setting'[n] = setting[n]) \/ ~has_copy[n]
      BY <1>2, <1>4
    <3>2. QED
      BY <2>1, <3>1, LocalStays DEF IInv
  <2>3. QED
    BY <2>2 DEF IInv
<1>5. QED
  BY <1>3, <1>4

\* What SetEnds does to the types.
LEMMA SetEndsTypes ==
  ASSUME ClipboardTypeOK, NEW m \in Machines, SetEnds(m)
  PROVE  /\ setting[m] \in Text
         /\ board' \in [Machines -> Text] /\ pipe' \in [Machines -> Text]
         /\ setting' \in [Machines -> Text \cup {NoText}]
         /\ cut' \in [Machines -> BOOLEAN]
<1>1. setting[m] \in Text /\ setting' \in [Machines -> Text \cup {NoText}]
  BY DEF SetEnds, ClipboardTypeOK
<1>2. /\ board' \in [Machines -> Text] /\ pipe' \in [Machines -> Text]
      /\ cut' \in [Machines -> BOOLEAN]
  BY <1>1, BecomesTypes DEF SetEnds, ClipboardTypeOK
<1>3. QED
  BY <1>1, <1>2

\* A main loop that takes one text out of a monitor's channel.
LEMMA TakenStep ==
  ASSUME IInv, ClipboardTypeOK', NEW m \in Machines, out[m] # << >>,
         out' = [out EXCEPT ![m] = Tail(@)],
         UNCHANGED <<has_copy, board, mon, snap, pipe, part, reading, last, setting, cut>>
  PROVE  IInv'
<1>1. ASSUME NEW n \in Machines PROVE Local(n)'
  <2>1. out'[n] = out[n] \/ (out[n] # << >> /\ out'[n] = Tail(out[n]))
    BY DEF IInv, ClipboardTypeOK
  <2>2. QED
    BY <2>1, LocalStays DEF IInv
<1>2. QED
  BY <1>1 DEF IInv

LEMMA TakenTypes ==
  ASSUME ClipboardTypeOK, NEW m \in Machines, out[m] # << >>,
         out' = [out EXCEPT ![m] = Tail(@)]
  PROVE  /\ Head(out[m]) \in Text /\ out' \in [Machines -> Seq(Text)]
         /\ \A n \in Machines : Len(out'[n]) <= OutCap + 1
<1>1. out[m] \in Seq(Text) /\ Len(out[m]) <= OutCap + 1 /\ OutCap \in Nat
  BY ClipboardAssumption DEF ClipboardTypeOK
<1>2. /\ Head(out[m]) \in Text /\ Tail(out[m]) \in Seq(Text)
      /\ Len(Tail(out[m])) = Len(out[m]) - 1 /\ Len(out[m]) \in Nat
  BY <1>1, QueueHead
<1>3. Len(Tail(out[m])) <= OutCap + 1
  BY <1>1, <1>2
<1>4. QED
  BY <1>2, <1>3 DEF ClipboardTypeOK

LEMMA ServerStep ==
  ASSUME IInv, ServerLoop \/ SwitchControl
  PROVE  IInv'
<1> USE DEF frozenVars, historyVars, machineVars
<1>0. /\ ClipboardTypeOK /\ TheServer \in Machines /\ clients \subseteq Clients
      /\ \A c \in Clients : c \in Machines
  BY DEF IInv, Machines, ClipboardTypeOK
<1>1. CASE BroadcastClipboard
  <2>1. /\ Head(out[TheServer]) \in Text /\ out' \in [Machines -> Seq(Text)]
        /\ \A n \in Machines : Len(out'[n]) <= OutCap + 1
    BY <1>0, <1>1, TakenTypes DEF BroadcastClipboard
  <2>2. /\ down' \in [Clients -> Seq(Text)]
        /\ \A c \in Clients : Len(down'[c]) <= QueueCap
    BY <1>0, <1>1, <2>1, SendToTypes DEF BroadcastClipboard, ClipboardTypeOK
  <2>3. shared' \in Text \cup {NoText} /\ missed' \in BOOLEAN
    BY <1>0, <1>1, <2>1 DEF BroadcastClipboard, ClipboardTypeOK
  <2>4. ClipboardTypeOK'
    BY <1>0, <1>1, <2>1, <2>2, <2>3 DEF BroadcastClipboard, ClipboardTypeOK
  <2>5. QED
    BY <1>0, <1>1, <2>4, TakenStep DEF BroadcastClipboard
<1>2. ASSUME NEW c \in Clients, HandleClipboardData(c) PROVE IInv'
  <2>1. Head(up[c]) \in Text /\ Tail(up[c]) \in Seq(Text)
    BY <1>0, <1>2, QueueHead DEF HandleClipboardData, ClipboardTypeOK
  <2>2. SetBegins(TheServer, Head(up[c]))
    BY <1>2 DEF HandleClipboardData
  <2>3. last' \in [Machines -> Text] /\ setting' \in [Machines -> Text \cup {NoText}]
    BY <1>0, <2>1, <2>2 DEF SetBegins, ClipboardTypeOK
  <2>4. ClipboardTypeOK'
    BY <1>0, <1>2, <2>1, <2>3 DEF HandleClipboardData, ClipboardTypeOK
  <2>5. QED
    BY <1>0, <1>2, <2>1, <2>2, <2>4, SetBeginsStep DEF HandleClipboardData
<1>3. CASE RelayClipboardData
  <2>1. SetEnds(TheServer)
    BY <1>3 DEF RelayClipboardData
  <2>2. /\ setting[TheServer] \in Text
        /\ board' \in [Machines -> Text] /\ pipe' \in [Machines -> Text]
        /\ cut' \in [Machines -> BOOLEAN]
        /\ setting' \in [Machines -> Text \cup {NoText}]
    BY <1>0, <2>1, SetEndsTypes
  <2>3. /\ down' \in [Clients -> Seq(Text)]
        /\ \A c \in Clients : Len(down'[c]) <= QueueCap
    BY <1>0, <1>3, <2>2, SendToTypes DEF RelayClipboardData
  <2>4. ClipboardTypeOK'
    BY <1>0, <1>3, <2>2, <2>3 DEF RelayClipboardData, ClipboardTypeOK
  <2>5. QED
    BY <1>0, <1>3, <2>1, <2>4, SetEndsStep DEF RelayClipboardData
<1>4. CASE SwitchControl
  <2>1. ClipboardTypeOK'
    BY <1>0, <1>4 DEF SwitchControl, ClipboardTypeOK
  <2>2. ASSUME NEW n \in Machines PROVE Local(n)'
    BY <1>4, <2>1, LocalStays DEF SwitchControl, IInv
  <2>3. QED
    BY <2>1, <2>2 DEF IInv
<1>5. QED
  BY <1>0, <1>1, <1>2, <1>3, <1>4 DEF ServerLoop

LEMMA ClientStep ==
  ASSUME IInv, NEW c \in Clients, ClientLoop(c)
  PROVE  IInv'
<1> USE DEF frozenVars, historyVars
<1>0. ClipboardTypeOK /\ c \in Machines /\ up[c] \in Seq(Text) /\ down[c] \in Seq(Text)
  BY DEF IInv, Machines, ClipboardTypeOK
<1>1. CASE SendCopy(c)
  <2>1. /\ Head(out[c]) \in Text /\ out' \in [Machines -> Seq(Text)]
        /\ \A n \in Machines : Len(out'[n]) <= OutCap + 1
    BY <1>0, <1>1, TakenTypes DEF SendCopy
  <2>2. Append(up[c], Head(out[c])) \in Seq(Text)
    BY <1>0, <2>1, AppendProperties
  <2>3. ClipboardTypeOK'
    BY <1>0, <1>1, <2>1, <2>2 DEF SendCopy, ClipboardTypeOK
  <2>4. QED
    BY <1>0, <1>1, <2>3, TakenStep DEF SendCopy
<1>2. CASE ApplyClipboard(c)
  <2>1. /\ Head(down[c]) \in Text /\ Tail(down[c]) \in Seq(Text)
        /\ Len(Tail(down[c])) = Len(down[c]) - 1 /\ Len(down[c]) \in Nat
    BY <1>0, <1>2, QueueHead DEF ApplyClipboard
  <2>2. SetBegins(c, Head(down[c])) /\ down' = [down EXCEPT ![c] = Tail(@)]
    BY <1>2 DEF ApplyClipboard
  <2>3. last' \in [Machines -> Text] /\ setting' \in [Machines -> Text \cup {NoText}]
    BY <1>0, <2>1, <2>2 DEF SetBegins, ClipboardTypeOK
  <2>4. down' \in [Clients -> Seq(Text)] /\ \A d \in Clients : Len(down'[d]) <= QueueCap
    <3>1. Len(down[c]) <= QueueCap /\ QueueCap \in Nat
      BY <1>0, ClipboardAssumption DEF ClipboardTypeOK
    <3>2. Len(Tail(down[c])) <= QueueCap
      BY <2>1, <3>1
    <3>3. QED
      BY <1>0, <2>1, <2>2, <3>2 DEF ClipboardTypeOK
  <2>5. ClipboardTypeOK'
    BY <1>0, <1>2, <2>3, <2>4 DEF ApplyClipboard, ClipboardTypeOK
  <2>6. QED
    BY <1>0, <1>2, <2>1, <2>2, <2>5, SetBeginsStep DEF ApplyClipboard
<1>3. CASE ClipboardApplied(c)
  <2>1. SetEnds(c)
    BY <1>3 DEF ClipboardApplied
  <2>2. /\ board' \in [Machines -> Text] /\ pipe' \in [Machines -> Text]
        /\ cut' \in [Machines -> BOOLEAN]
        /\ setting' \in [Machines -> Text \cup {NoText}]
    BY <1>0, <2>1, SetEndsTypes
  <2>3. ClipboardTypeOK'
    BY <1>0, <1>3, <2>2 DEF ClipboardApplied, ClipboardTypeOK
  <2>4. QED
    BY <1>0, <1>3, <2>1, <2>3, SetEndsStep DEF ClipboardApplied
<1>4. QED
  BY <1>1, <1>2, <1>3 DEF ClientLoop

LEMMA StutterStep == IInv /\ UNCHANGED vars => IInv'
<1> SUFFICES ASSUME IInv, UNCHANGED vars PROVE IInv'
  OBVIOUS
<1> USE DEF vars, frozenVars, machineVars, historyVars
<1>1. ClipboardTypeOK'
  BY DEF IInv, ClipboardTypeOK
<1>2. ASSUME NEW n \in Machines PROVE Local(n)'
  BY <1>1, LocalStays DEF IInv
<1>3. QED
  BY <1>1, <1>2 DEF IInv

LEMMA AttachedMachines ==
  ASSUME IInv
  PROVE  Attached \subseteq Machines /\ clients \subseteq Clients
         /\ clients \subseteq Attached /\ TheServer \in Attached
         /\ TheServer \notin clients
BY ClipboardAssumption DEF IInv, ClipboardTypeOK, Attached, Machines

LEMMA NextInv == IInv /\ [Next]_vars => IInv'
<1> SUFFICES ASSUME IInv, [Next]_vars PROVE IInv'
  OBVIOUS
<1>1. CASE Next
  <2>1. ASSUME NEW m \in Attached,
               Monitor(m) \/ WatcherDies(m) \/ \E t \in Copyable : UserCopies(m, t)
        PROVE  IInv'
    <3>1. m \in Machines
      BY AttachedMachines
    <3>2. QED
      BY <2>1, <3>1, UserStep, MonitorStep
  <2>2. ASSUME NEW c \in clients, ClientLoop(c) PROVE IInv'
    <3>1. c \in Clients
      BY AttachedMachines
    <3>2. QED
      BY <2>2, <3>1, ClientStep
  <2>3. QED
    BY <1>1, <2>1, <2>2, ServerStep DEF Next
<1>2. CASE UNCHANGED vars
  BY <1>2, StutterStep
<1>3. QED
  BY <1>1, <1>2

-----------------------------------------------------------------------------
(* The theorems                                                            *)

\* Every variable keeps its type; no client's queue holds more than QueueCap
\* texts, and no monitor has more than one text waiting to be sent.
THEOREM TypesKept == Spec => []ClipboardTypeOK
<1>1. IInv => ClipboardTypeOK
  BY DEF IInv
<1>2. QED
  BY InitInv, NextInv, <1>1, PTL DEF Spec

\* For any number of machines, any texts, any way of cutting the stream into
\* contents, and any helpers that fail: once the monitor has read what was printed
\* and nothing was dropped in the middle of a line, the clipboard is what
\* last_content records or the line that is begun, up to where it was cut
\* (take_if_changed, set and the loops of monitor_wayland).
THEOREM MonitorCatchesUp == Spec => []CaughtUp
<1>1. IInv => CaughtUp
  <2> SUFFICES ASSUME IInv, NEW m \in Attached,
                      has_copy[m], mon[m] = "watch", ~cut[m],
                      pipe[m] = Empty, reading[m] = Empty, setting[m] = NoText
               PROVE  /\ part[m] # Empty => Alike(part[m], board[m])
                      /\ part[m] = Empty /\ HasInk(board[m]) =>
                           last[m] # Empty /\ Alike(last[m], Trim(board[m]))
    BY DEF CaughtUp
  <2>1. m \in Machines /\ ClipboardTypeOK /\ Local(m)
    BY AttachedMachines DEF IInv
  <2>2. Rest(m) = part[m]
    <3>1. part[m] \in Text
      BY <2>1, Texts
    <3>2. Empty \o part[m] = part[m] /\ part[m] \o Empty = part[m]
      BY <3>1, ConcatEmpty
    <3>3. QED
      BY <3>2 DEF Rest
  <2>3. QED
    BY <2>1, <2>2, EmptyIs DEF Local, Seen
<1>2. QED
  BY InitInv, NextInv, <1>1, PTL DEF Spec

-----------------------------------------------------------------------------
(* One copy at a time.                                                     *)
(*                                                                         *)
(* When users wait, a line that was copied goes through stages: its        *)
(* machine notices it, hands it to the main loop, a client uploads it, the *)
(* server writes it, and it spreads.  A machine that wrote it for somebody *)
(* else begins a line that has no end, and has nothing to send.            *)

\* Nothing is going on at m, except that the watcher may have printed, and the
\* monitor begun, what ends no line, ...
Watches(m) ==
  mon[m] = "watch" /\ Unbroken(pipe[m]) /\ reading[m] = Empty

Waits(m) == Watches(m) /\ out[m] = << >> /\ setting[m] = NoText

\* ... and m has what was copied.
Holds(m) == Waits(m) /\ Trim(board[m]) = shared

\* A user has copied it on m, with its newline, and the monitor has not compared
\* it, ...
Fresh(m) ==
  /\ mon[m] = "watch" /\ out[m] = << >> /\ setting[m] = NoText
  /\ Trim(board[m]) = shared /\ last[m] # shared
  /\ \/ reading[m] = Empty /\ part[m] \o pipe[m] = Append(shared, NL)
     \/ reading[m] = Append(shared, NL) /\ part[m] = Empty /\ pipe[m] = Empty

\* ... or has, and the main loop has not taken it.
Sends(m) ==
  /\ Watches(m) /\ out[m] = <<shared>> /\ setting[m] = NoText
  /\ Trim(board[m]) = shared

\* m is about to write it for another machine.
Sets(m) == Watches(m) /\ out[m] = << >> /\ setting[m] = shared

NothingUp == \A c \in clients : up[c] = << >>
NothingDown == \A c \in clients : down[c] = << >>

\* The stages of the exchange.
Copying(m) ==
  /\ Fresh(m) \/ Sends(m)
  /\ NothingUp /\ NothingDown
  /\ \A n \in Attached \ {m} : Waits(n)

Uploading(c) ==
  /\ Holds(c) /\ up[c] = <<shared>> /\ NothingDown
  /\ \A d \in clients \ {c} : up[d] = << >>
  /\ \A n \in Attached \ {c} : Waits(n)

Relaying(c) ==
  /\ Holds(c) /\ NothingUp /\ NothingDown
  /\ origin = c /\ Sets(TheServer)
  /\ \A d \in clients \ {c} : Waits(d)

\* It has arrived at c, is written there, or is on its way to it.
Spreads(c) ==
  \/ down[c] = << >> /\ (Holds(c) \/ Sets(c))
  \/ down[c] = <<shared>> /\ Waits(c)

Spreading ==
  NothingUp /\ Holds(TheServer) /\ \A c \in clients : Spreads(c)

\* The server has copied it, and a client was active.
Dropped ==
  /\ missed /\ Holds(TheServer) /\ NothingUp /\ NothingDown
  /\ \A c \in clients : Waits(c)

Stages ==
  \/ \E m \in Attached : Copying(m)
  \/ \E c \in clients : Uploading(c) \/ Relaying(c)
  \/ Spreading \/ Dropped

CalmInv ==
  calm =>
    /\ \A m \in Machines : has_copy[m] /\ mon[m] \in {"initial", "spawn", "watch"}
    /\ shared # NoText =>
         /\ shared \in Text /\ shared # Empty /\ Unbroken(shared)
         /\ \A m \in Attached : mon[m] = "watch"
         /\ Stages

\* What a step of the monitor of m, or no step, keeps.
Keeps(m) ==
  /\ Waits(m) => Waits(m)'
  /\ Holds(m) => Holds(m)'
  /\ Sets(m) => Sets(m)'
  /\ Fresh(m) \/ Sends(m) => Fresh(m)' \/ Sends(m)'

Sound == IInv /\ CalmInv /\ calm /\ shared # NoText

-----------------------------------------------------------------------------
(* Lines                                                                   *)

LEMMA UnbrokenConcat ==
  ASSUME NEW t \in Text, NEW u \in Text, Unbroken(t), Unbroken(u)
  PROVE  Unbroken(t \o u)
<1>1. /\ Len(t) \in Nat /\ Len(u) \in Nat /\ DOMAIN t = 1 .. Len(t)
      /\ DOMAIN u = 1 .. Len(u) /\ DOMAIN (t \o u) = 1 .. Len(t) + Len(u)
  BY TextIs, ConcatIs
<1>2. ASSUME NEW i \in 1 .. Len(t) + Len(u) PROVE (t \o u)[i] # NL
  <2>1. CASE i \in 1 .. Len(t)
    BY <1>1, <2>1, ConcatIs DEF Unbroken
  <2>2. CASE i \notin 1 .. Len(t)
    <3>1. i - Len(t) \in 1 .. Len(u) /\ Len(t) + (i - Len(t)) = i
      BY <1>1, <2>2
    <3>2. (t \o u)[Len(t) + (i - Len(t))] = u[i - Len(t)]
      BY <3>1, ConcatIs
    <3>3. QED
      BY <1>1, <3>1, <3>2 DEF Unbroken
  <2>3. QED
    BY <2>1, <2>2
<1>3. QED
  BY <1>1, <1>2 DEF Unbroken

LEMMA UnbrokenFront ==
  ASSUME NEW t \in Text, t # Empty, Unbroken(t)
  PROVE  Head(t) # NL /\ Unbroken(Tail(t))
<1>1. /\ t \in Seq(Fragments \cup {NL}) /\ t # << >>
  BY DEF Text, Empty
<1>2. /\ Tail(t) \in Text /\ Len(Tail(t)) = Len(t) - 1
      /\ \A i \in 1 .. Len(Tail(t)) : Tail(t)[i] = t[i + 1]
  BY <1>1, HeadTailProperties DEF Text
<1>3. /\ Len(t) \in Nat /\ Len(t) # 0 /\ DOMAIN t = 1 .. Len(t)
      /\ DOMAIN Tail(t) = 1 .. Len(Tail(t))
  BY <1>2, TextIs
<1>4. Head(t) = t[1]
  BY <1>1
<1>5. ASSUME NEW i \in 1 .. Len(Tail(t)) PROVE Tail(t)[i] # NL
  BY <1>2, <1>3 DEF Unbroken
<1>6. QED
  BY <1>3, <1>4, <1>5 DEF Unbroken

LEMMA UnbrokenTrim ==
  ASSUME NEW t \in Text, Unbroken(t)
  PROVE  Trim(t) = t
<1>1. Len(t) \in Nat /\ DOMAIN t = 1 .. Len(t)
  BY TextIs
<1>2. TrimmedLen(t) = Len(t)
  <2>1. \A i \in Len(t) + 1 .. Len(t) : t[i] = NL
    BY <1>1
  <2>2. Len(t) # 0 => t[Len(t)] # NL
    BY <1>1 DEF Unbroken
  <2>3. QED
    BY <1>1, <2>1, <2>2, TrimmedLenUnique
<1>3. /\ Trim(t) \in Text /\ Len(Trim(t)) = Len(t)
      /\ \A i \in 1 .. Len(t) : Trim(t)[i] = t[i]
  BY <1>2, TrimIs
<1>4. QED
  BY <1>3, SeqEqual DEF Text

\* A line is what trimming leaves of it, and a newline.
LEMMA LineIs ==
  ASSUME NEW t \in Text, IsLine(t)
  PROVE  /\ Trim(t) \in Text /\ Trim(t) # Empty /\ Unbroken(Trim(t))
         /\ t = Append(Trim(t), NL)
<1> DEFINE n == Len(t) - 1
<1>1. Len(t) \in Nat /\ DOMAIN t = 1 .. Len(t) /\ t[Len(t)] = NL
  BY TextIs DEF IsLine
<1>2. Trim(t) # Empty
  BY TrimInk DEF IsLine
<1>3. Len(t) # 0
  BY <1>1 DEF IsLine, HasInk
<1>4. \A i \in 1 .. n : t[i] # NL
  BY DEF IsLine, OneLine
<1>5. TrimmedLen(t) = n
  <2>1. n \in 0 .. Len(t) /\ (n # 0 => t[n] # NL)
    BY <1>1, <1>3, <1>4
  <2>2. \A i \in n + 1 .. Len(t) : t[i] = NL
    BY <1>1, <1>3
  <2>3. QED
    BY <2>1, <2>2, TrimmedLenUnique
<1>6. /\ Trim(t) \in Text /\ Len(Trim(t)) = n
      /\ \A i \in 1 .. n : Trim(t)[i] = t[i]
  BY <1>5, TrimIs
<1>7. Unbroken(Trim(t))
  <2>1. DOMAIN Trim(t) = 1 .. n
    BY <1>6, TextIs
  <2>2. QED
    BY <1>4, <1>6, <2>1 DEF Unbroken
<1>8. /\ Append(Trim(t), NL) \in Text /\ Len(Append(Trim(t), NL)) = n + 1
      /\ \A i \in 1 .. n : Append(Trim(t), NL)[i] = Trim(t)[i]
      /\ Append(Trim(t), NL)[n + 1] = NL
  <2>1. NL \in Fragments \cup {NL} /\ Trim(t) \in Text /\ Len(Trim(t)) = n
    BY <1>6
  <2> HIDE DEF n
  <2>2. QED
    BY <2>1, AppendIs
<1>9. ASSUME NEW i \in 1 .. Len(t) PROVE t[i] = Append(Trim(t), NL)[i]
  BY <1>1, <1>3, <1>6, <1>8
<1>10. Len(t) = n + 1
  BY <1>1
<1>11. t = Append(Trim(t), NL)
  BY <1>8, <1>9, <1>10, SeqEqual DEF Text
<1>12. QED
  BY <1>2, <1>6, <1>7, <1>11

\* Trimming a line takes its newline.
LEMMA TrimLine ==
  ASSUME NEW x \in Text, Unbroken(x)
  PROVE  Append(x, NL) \in Text /\ Trim(Append(x, NL)) = x
<1>1. /\ Append(x, NL) \in Text /\ <<NL>> \in Text
      /\ Append(x, NL) = x \o <<NL>>
  BY AppendIs
<1>2. ~HasInk(<<NL>>)
  <2>1. DOMAIN <<NL>> = 1 .. 1 /\ <<NL>>[1] = NL
    OBVIOUS
  <2>2. QED
    BY <2>1 DEF HasInk
<1>3. QED
  BY <1>1, <1>2, TrimConcat, UnbrokenTrim

\* The only newline of a line is its last symbol.
LEMMA LineEnds ==
  ASSUME NEW x \in Text, Unbroken(x), NEW t \in Text, Unbroken(t), NEW u \in Text,
         t \o u = Append(x, NL)
  PROVE  u # Empty /\ (Head(u) = NL => Tail(u) = Empty)
<1>0. Len(t) \in Nat /\ Len(u) \in Nat /\ Len(x) \in Nat
  BY TextIs
<1>1. DOMAIN x = 1 .. Len(x) /\ DOMAIN t = 1 .. Len(t)
  BY TextIs
<1>2. /\ Len(t) + Len(u) = Len(x) + 1
      /\ \A i \in 1 .. Len(t) : Append(x, NL)[i] = t[i]
      /\ \A i \in 1 .. Len(u) : Append(x, NL)[Len(t) + i] = u[i]
  <2>1. Len(t \o u) = Len(t) + Len(u)
        /\ (\A i \in 1 .. Len(t) : (t \o u)[i] = t[i])
        /\ (\A i \in 1 .. Len(u) : (t \o u)[Len(t) + i] = u[i])
    BY ConcatIs
  <2>2. Len(Append(x, NL)) = Len(x) + 1
    BY AppendIs
  <2>3. QED
    BY <2>1, <2>2
<1>3. /\ \A i \in 1 .. Len(x) : Append(x, NL)[i] = x[i]
      /\ Append(x, NL)[Len(x) + 1] = NL
  BY AppendIs
<1>4. ASSUME Len(u) = 0 PROVE FALSE
  <2>2. Len(x) + 1 \in 1 .. Len(t)
    <3>1. Len(t) + Len(u) = Len(x) + 1
      BY <1>2
    <3>2. Len(t) = Len(x) + 1
      BY <1>0, <1>4, <3>1
    <3>3. QED
      BY <1>0, <3>2
  <2>3. t[Len(x) + 1] = NL
    BY <1>2, <1>3, <2>2
  <2>4. QED
    BY <1>0, <1>1, <2>2, <2>3 DEF Unbroken
<1>5. ASSUME Head(u) = NL PROVE Tail(u) = Empty
  <2>1. u \in Seq(Fragments \cup {NL}) /\ u # << >>
    BY <1>4, TextIs DEF Text, Empty
  <2>2. Tail(u) \in Text /\ Len(Tail(u)) = Len(u) - 1
    BY <2>1, HeadTailProperties DEF Text
  <2>3. 1 \in 1 .. Len(u) /\ u[1] = NL
    BY <1>0, <1>4, <1>5, <2>1
  <2>4. Append(x, NL)[Len(t) + 1] = NL
    BY <1>2, <2>3
  <2>5. Len(t) + 1 \notin 1 .. Len(x)
    BY <1>0, <1>1, <1>3, <2>4 DEF Unbroken
  <2>6. Len(Tail(u)) = 0
    <3>1. Len(t) + Len(u) = Len(x) + 1
      BY <1>2
    <3>2. Len(u) # 0
      BY <1>4
    <3>3. ~(Len(t) + 1 <= Len(x))
      BY <1>0, <2>5
    <3>4. \A i, j, k \in Nat :
            i + j = k + 1 /\ j # 0 /\ ~(i + 1 <= k) => j = 1
      OBVIOUS
    <3>5. Len(u) = 1
      BY <1>0, <3>1, <3>2, <3>3, <3>4
    <3>6. QED
      BY <1>0, <2>2, <3>5
  <2>7. QED
    BY <2>2, <2>6, TextIs
<1>6. QED
  BY <1>4, <1>5, TextIs

-----------------------------------------------------------------------------
(* The stages                                                              *)

LEMMA SoundIs ==
  ASSUME Sound
  PROVE  /\ ClipboardTypeOK /\ shared \in Text /\ shared # Empty /\ Unbroken(shared)
         /\ Stages /\ Attached \subseteq Machines /\ clients \subseteq Clients
         /\ clients \subseteq Attached /\ TheServer \in Attached
         /\ TheServer \notin clients
         /\ Trim(shared) = shared
         /\ \A m \in Machines : has_copy[m] /\ Local(m)
         /\ \A m \in Attached : mon[m] = "watch" /\ Unbroken(part[m])
<1>1. shared \in Text /\ Unbroken(shared)
  BY DEF Sound, CalmInv
<1>2. Trim(shared) = shared
  BY <1>1, UnbrokenTrim
<1>3. \A m \in Machines : Unbroken(part[m])
  BY DEF Sound, IInv, Local, Idle
<1>4. QED
  BY <1>1, <1>2, <1>3, AttachedMachines DEF Sound, CalmInv, IInv

\* A machine on which nothing moves keeps its stage.
LEMMA Unmoved ==
  ASSUME NEW m, shared' = shared, mon'[m] = mon[m], board'[m] = board[m],
         last'[m] = last[m], pipe'[m] = pipe[m], part'[m] = part[m],
         reading'[m] = reading[m], out'[m] = out[m], setting'[m] = setting[m]
  PROVE  Keeps(m)
BY DEF Keeps, Waits, Holds, Sets, Fresh, Sends, Watches

\* The monitor reads on: what has no newline never becomes a content, and a line
\* becomes one when its newline is read.
LEMMA ReadKeeps ==
  ASSUME Sound, NEW m \in Attached, ReadLine(m)
  PROVE  Keeps(m)
<1> DEFINE x == shared
<1>1. /\ ClipboardTypeOK /\ m \in Machines /\ Unbroken(part[m])
      /\ x \in Text /\ Unbroken(x)
  BY SoundIs
<1>2. /\ pipe[m] \in Text /\ part[m] \in Text /\ reading[m] \in Text
      /\ part[m] \o pipe[m] \in Text
      /\ Rest(m) = reading[m] \o (part[m] \o pipe[m])
  BY <1>1, Texts
<1>3. /\ Rest(m)' = Rest(m)
      /\ pipe'[m] \in Text /\ part'[m] \in Text /\ reading'[m] \in Text
  BY <1>1, ReadRest
<1>4. /\ UNCHANGED <<board, last, mon, out, setting, shared>>
      /\ pipe[m] # Empty /\ pipe'[m] = Tail(pipe[m])
      /\ Head(pipe[m]) = NL => part'[m] = Empty
      /\ Head(pipe[m]) # NL => reading'[m] = reading[m]
  BY <1>1 DEF ReadLine, ClipboardTypeOK, historyVars
<1>5. Watches(m) => Watches(m)'
  BY <1>2, <1>4, UnbrokenFront DEF Watches
<1>6. ASSUME Fresh(m) PROVE Fresh(m)'
  <2>1. reading[m] = Empty /\ part[m] \o pipe[m] = Append(x, NL)
    BY <1>4, <1>6 DEF Fresh
  <2>2. Rest(m) = Append(x, NL)
    BY <1>2, <2>1, ConcatEmpty
  <2>3. CASE Head(pipe[m]) = NL
    <3>1. pipe'[m] = Empty /\ part'[m] = Empty
      BY <1>1, <1>2, <1>4, <2>1, <2>3, LineEnds
    <3>2. Rest(m)' = reading'[m]
      BY <1>3, <3>1, ConcatEmpty DEF Rest
    <3>3. QED
      BY <1>3, <1>4, <1>6, <2>2, <3>1, <3>2 DEF Fresh
  <2>4. CASE Head(pipe[m]) # NL
    <3>1. reading'[m] = Empty
      BY <1>4, <2>1, <2>4
    <3>2. Rest(m)' = part'[m] \o pipe'[m]
      BY <1>3, <3>1, ConcatEmpty DEF Rest
    <3>3. QED
      BY <1>3, <1>4, <1>6, <2>2, <3>1, <3>2 DEF Fresh
  <2>5. QED
    BY <2>3, <2>4
<1>7. QED
  BY <1>4, <1>5, <1>6 DEF Keeps, Waits, Holds, Sets, Sends

\* What is compared is the line that was copied, which has not been recorded.
LEMMA CompleteKeeps ==
  ASSUME Sound, NEW m \in Attached, ContentComplete(m)
  PROVE  Keeps(m)
<1>1. /\ ClipboardTypeOK /\ m \in Machines /\ shared \in Text /\ shared # Empty
      /\ Unbroken(shared)
  BY SoundIs
<1>2. /\ reading[m] # Empty /\ TakeIfChanged(m, Trim(reading[m]))
      /\ UNCHANGED <<mon, board, pipe, setting, shared>>
      /\ reading'[m] = Empty
  BY <1>1 DEF ContentComplete, ClipboardTypeOK
<1>3. ~Watches(m)
  BY <1>2 DEF Watches
<1>4. ASSUME Fresh(m) PROVE Sends(m)'
  <2>1. /\ reading[m] = Append(shared, NL) /\ pipe[m] = Empty
        /\ last[m] # shared /\ out[m] = << >>
    BY <1>2, <1>4 DEF Fresh
  <2>2. Trim(reading[m]) = shared
    BY <1>1, <2>1, TrimLine
  <2>3. out' = [out EXCEPT ![m] = Append(@, shared)]
    BY <1>1, <1>2, <2>1, <2>2 DEF TakeIfChanged
  <2>4. out'[m] = <<shared>>
    BY <1>1, <2>1, <2>3 DEF ClipboardTypeOK
  <2>5. QED
    BY <1>2, <1>4, <2>1, <2>4, EmptyIs DEF Fresh, Sends, Watches
<1>5. QED
  BY <1>3, <1>4 DEF Keeps, Waits, Holds, Sets, Sends

\* If every machine keeps its stage, and nothing moves between them, so does the
\* exchange.
LEMMA StagesKept ==
  ASSUME Stages, \A n \in Attached : Keeps(n), clients \subseteq Attached,
         TheServer \in Attached,
         UNCHANGED <<clients, up, down, origin, shared, missed>>
  PROVE  Stages'
<1>0. Attached' = Attached /\ (NothingUp => NothingUp') /\ (NothingDown => NothingDown')
  BY DEF Attached, NothingUp, NothingDown
<1>1. ASSUME NEW m \in Attached, Copying(m) PROVE Stages'
  <2>1. Copying(m)'
    BY <1>0, <1>1 DEF Copying, Keeps
  <2>2. QED
    BY <1>0, <2>1 DEF Stages
<1>2. ASSUME NEW c \in clients, Uploading(c) PROVE Stages'
  <2>1. Uploading(c)'
    BY <1>0, <1>2 DEF Uploading, Keeps
  <2>2. QED
    BY <2>1 DEF Stages
<1>3. ASSUME NEW c \in clients, Relaying(c) PROVE Stages'
  <2>1. Relaying(c)'
    BY <1>0, <1>3 DEF Relaying, Keeps
  <2>2. QED
    BY <2>1 DEF Stages
<1>4. ASSUME Spreading PROVE Stages'
  <2>1. \A c \in clients : Spreads(c) => Spreads(c)'
    BY DEF Spreads, Keeps
  <2>2. Spreading'
    BY <1>0, <1>4, <2>1 DEF Spreading, Keeps
  <2>3. QED
    BY <2>2 DEF Stages
<1>5. ASSUME Dropped PROVE Stages'
  <2>1. Dropped'
    BY <1>0, <1>5 DEF Dropped, Keeps
  <2>2. QED
    BY <2>1 DEF Stages
<1>6. QED
  BY <1>1, <1>2, <1>3, <1>4, <1>5 DEF Stages

\* In calm, the monitors start, and then read.
LEMMA CalmMonitor ==
  ASSUME IInv, CalmInv, calm, NEW m \in Machines, Monitor(m) \/ WatcherDies(m)
  PROVE  /\ \A n \in Machines : mon'[n] \in {"initial", "spawn", "watch"}
         /\ \A n \in Machines : mon[n] = "watch" => mon'[n] = "watch"
         /\ mon[m] = "watch" => ReadLine(m) \/ ContentComplete(m)
<1>1. /\ mon \in [Machines -> MonitorPhases]
      /\ \A n \in Machines : mon[n] \in {"initial", "spawn", "watch"}
  BY DEF IInv, ClipboardTypeOK, CalmInv
<1>2. ~WatcherDies(m) /\ ~FallBackToPolling(m) /\ ~MonitorEnds(m)
      /\ ~ReadUnended(m) /\ ~PollCompares(m)
  BY <1>1 DEF WatcherDies, FallBackToPolling, MonitorEnds, ReadUnended, PollCompares
<1>3. CASE GetClipboard(m)
  BY <1>1, <1>3 DEF GetClipboard
<1>4. CASE StoreInitial(m)
  BY <1>1, <1>4 DEF StoreInitial
<1>5. CASE StartWatcher(m)
  BY <1>1, <1>5 DEF StartWatcher
<1>6. CASE ReadLine(m)
  BY <1>1, <1>6 DEF ReadLine
<1>7. CASE ContentComplete(m)
  BY <1>1, <1>7 DEF ContentComplete
<1>8. QED
  BY <1>2, <1>3, <1>4, <1>5, <1>6, <1>7 DEF Monitor

LEMMA StageMonitor ==
  ASSUME Sound, NEW m \in Attached, Monitor(m) \/ WatcherDies(m)
  PROVE  Stages'
<1>1. /\ m \in Machines /\ mon[m] = "watch" /\ ClipboardTypeOK /\ Stages
      /\ Attached \subseteq Machines /\ clients \subseteq Attached
      /\ TheServer \in Attached
  BY SoundIs
<1>2. ReadLine(m) \/ ContentComplete(m)
  BY <1>1, CalmMonitor DEF Sound
<1>3. Keeps(m)
  BY <1>2, ReadKeeps, CompleteKeeps
<1>4. UNCHANGED <<clients, up, down, origin, shared, missed>>
  BY <1>2 DEF ReadLine, ContentComplete, frozenVars, historyVars
<1>5. ASSUME NEW n \in Attached, n # m PROVE Keeps(n)
  <2>1. /\ mon'[n] = mon[n] /\ board'[n] = board[n] /\ last'[n] = last[n]
        /\ pipe'[n] = pipe[n] /\ part'[n] = part[n] /\ reading'[n] = reading[n]
        /\ out'[n] = out[n] /\ setting'[n] = setting[n]
    BY <1>1, <1>2, <1>5 DEF ReadLine, ContentComplete, TakeIfChanged, ClipboardTypeOK
  <2>2. QED
    BY <1>4, <2>1, Unmoved
<1>6. QED
  BY <1>1, <1>3, <1>4, <1>5, StagesKept

LEMMA SendToRoom ==
  ASSUME Sound, NEW targets \in SUBSET clients, SendTo(targets, shared), NothingDown
  PROVE  \A c \in clients : down'[c] = IF c \in targets THEN <<shared>> ELSE << >>
<1>1. clients \subseteq Clients /\ QueueCap \in Nat \ {0} /\ shared \in Text
  BY SoundIs, ClipboardAssumption
<1>2. ASSUME NEW c \in clients
      PROVE  /\ down[c] = << >> /\ Len(down[c]) < QueueCap
             /\ Append(down[c], shared) = <<shared>>
  <2>1. down[c] = << >>
    BY DEF NothingDown
  <2>2. Len(<< >>) < QueueCap /\ Append(<< >>, shared) = <<shared>>
    BY <1>1
  <2>3. QED
    BY <2>1, <2>2
<1>3. QED
  BY <1>1, <1>2 DEF SendTo

\* set has ended on a machine that wrote what was copied: it holds it.
LEMMA SetHolds ==
  ASSUME Sound, NEW m \in Attached, Sets(m), SetEnds(m),
         UNCHANGED <<mon, reading, out, shared>>
  PROVE  /\ Holds(m)'
         /\ \A n \in Machines \ {m} : board'[n] = board[n] /\ pipe'[n] = pipe[n]
                                      /\ setting'[n] = setting[n]
<1>1. /\ m \in Machines /\ ClipboardTypeOK /\ shared \in Text /\ Unbroken(shared)
      /\ has_copy[m] /\ Trim(shared) = shared /\ mon[m] = "watch"
      /\ pipe[m] \in Text
  BY SoundIs, Texts
<1>2. Becomes(m, shared) /\ setting' = [setting EXCEPT ![m] = NoText]
  BY <1>1 DEF SetEnds, Sets
<1>3. /\ board' = [board EXCEPT ![m] = shared]
      /\ pipe' = [pipe EXCEPT ![m] = @ \o shared]
  BY <1>1, <1>2 DEF Becomes
<1>4. board'[m] = shared /\ pipe'[m] = pipe[m] \o shared /\ setting'[m] = NoText
  BY <1>1, <1>2, <1>3 DEF ClipboardTypeOK
<1>5. Unbroken(pipe'[m])
  BY <1>1, <1>4, UnbrokenConcat DEF Sets, Watches
<1>6. Holds(m)'
  BY <1>1, <1>4, <1>5 DEF Sets, Holds, Waits, Watches
<1>7. QED
  BY <1>1, <1>2, <1>3, <1>6 DEF ClipboardTypeOK

LEMMA StageBroadcast ==
  ASSUME Sound, BroadcastClipboard
  PROVE  Stages'
<1> USE DEF frozenVars
<1>1. /\ ClipboardTypeOK /\ Stages /\ Attached \subseteq Machines
      /\ clients \subseteq Clients /\ clients \subseteq Attached
      /\ TheServer \in Attached /\ TheServer \notin clients /\ shared \in Text
  BY SoundIs
<1>2. /\ setting[TheServer] = NoText /\ out[TheServer] # << >>
      /\ out' = [out EXCEPT ![TheServer] = Tail(@)]
      /\ UNCHANGED <<clients, board, last, mon, snap, pipe, part, reading, setting,
                     origin, up, shared>>
  BY DEF BroadcastClipboard
<1>3. ~Waits(TheServer) /\ ~Holds(TheServer) /\ ~Sets(TheServer) /\ ~Fresh(TheServer)
  BY <1>2 DEF Waits, Holds, Sets, Fresh
<1>4. ~Spreading /\ ~Dropped
  BY <1>3 DEF Spreading, Dropped
<1>5. \A c \in clients : ~Uploading(c) /\ ~Relaying(c)
  BY <1>1, <1>3 DEF Uploading, Relaying
<1>6. Copying(TheServer) /\ Sends(TheServer)
  BY <1>1, <1>3, <1>4, <1>5 DEF Stages, Copying
<1>7. out[TheServer] = <<shared>> /\ out'[TheServer] = << >>
      /\ \A n \in Machines \ {TheServer} : out'[n] = out[n]
  BY <1>1, <1>2, <1>6 DEF Sends, ClipboardTypeOK
<1>8. Holds(TheServer)'
  BY <1>2, <1>6, <1>7 DEF Sends, Holds, Waits, Watches
<1>9. \A c \in clients : Waits(c)'
  BY <1>1, <1>2, <1>6, <1>7 DEF Copying, Waits, Watches
<1>10. NothingUp' /\ NothingDown
  BY <1>2, <1>6 DEF Copying, NothingUp
<1>11. CASE paused
  <2>1. missed' /\ down' = down
    BY <1>11 DEF BroadcastClipboard
  <2>2. Dropped'
    BY <1>2, <1>8, <1>9, <1>10, <2>1 DEF Dropped, NothingDown
  <2>3. QED
    BY <2>2 DEF Stages
<1>12. CASE ~paused
  <2>1. SendTo(clients, shared)
    BY <1>7, <1>12 DEF BroadcastClipboard
  <2>2. \A c \in clients : down'[c] = <<shared>>
    BY <1>10, <2>1, SendToRoom
  <2>3. Spreading'
    BY <1>2, <1>8, <1>9, <1>10, <2>2 DEF Spreading, Spreads
  <2>4. QED
    BY <2>3 DEF Stages
<1>13. QED
  BY <1>11, <1>12

LEMMA StageHandle ==
  ASSUME Sound, NEW c \in clients, HandleClipboardData(c)
  PROVE  Stages'
<1> USE DEF frozenVars, historyVars
<1>1. /\ ClipboardTypeOK /\ Stages /\ Attached \subseteq Machines
      /\ clients \subseteq Clients /\ clients \subseteq Attached
      /\ TheServer \in Attached /\ TheServer \notin clients /\ shared \in Text
  BY SoundIs
<1>2. /\ up[c] # << >> /\ SetBegins(TheServer, Head(up[c]))
      /\ up' = [up EXCEPT ![c] = Tail(@)] /\ origin' = c
      /\ UNCHANGED <<clients, board, mon, pipe, part, reading, out, down, shared>>
  BY DEF HandleClipboardData
<1>3. ~NothingUp
  BY <1>2 DEF NothingUp
<1>4. Uploading(c)
  BY <1>1, <1>2, <1>3 DEF Stages, Copying, Relaying, Spreading, Dropped, Uploading
<1>5. up[c] = <<shared>> /\ Head(up[c]) = shared /\ Tail(up[c]) = << >>
  BY <1>4 DEF Uploading
<1>6. NothingUp' /\ NothingDown'
  BY <1>1, <1>2, <1>4, <1>5 DEF Uploading, NothingUp, NothingDown, ClipboardTypeOK
<1>7. /\ setting'[TheServer] = shared
      /\ \A n \in Machines \ {TheServer} : setting'[n] = setting[n]
  BY <1>1, <1>2, <1>5 DEF SetBegins, ClipboardTypeOK
<1>8. \A d \in clients : (Holds(d) => Holds(d)') /\ (Waits(d) => Waits(d)')
  BY <1>1, <1>2, <1>7 DEF Holds, Waits, Watches
<1>9. Sets(TheServer)'
  BY <1>1, <1>2, <1>4, <1>7 DEF Uploading, Sets, Waits, Watches
<1>10. Relaying(c)'
  BY <1>1, <1>2, <1>4, <1>6, <1>8, <1>9 DEF Uploading, Relaying
<1>11. QED
  BY <1>2, <1>10 DEF Stages

LEMMA StageRelay ==
  ASSUME Sound, RelayClipboardData
  PROVE  Stages'
<1> USE DEF frozenVars
<1>1. /\ ClipboardTypeOK /\ Stages /\ Attached \subseteq Machines
      /\ clients \subseteq Clients /\ clients \subseteq Attached
      /\ TheServer \in Attached /\ TheServer \notin clients /\ shared \in Text
  BY SoundIs
<1>2. /\ SetEnds(TheServer) /\ SendTo(clients \ {origin}, setting[TheServer])
      /\ UNCHANGED <<clients, last, mon, part, reading, out, up, shared>>
  BY DEF RelayClipboardData
<1>3. ~Waits(TheServer) /\ ~Holds(TheServer) /\ ~Sends(TheServer) /\ ~Fresh(TheServer)
  BY <1>2 DEF SetEnds, Waits, Holds, Sends, Fresh
<1>4. ~Spreading /\ ~Dropped /\ \A m \in Attached : ~Copying(m)
  BY <1>1, <1>3 DEF Spreading, Dropped, Copying
<1>5. \A c \in clients : ~Uploading(c)
  BY <1>1, <1>3 DEF Uploading
<1>6. PICK c \in clients : Relaying(c)
  BY <1>1, <1>4, <1>5 DEF Stages
<1>7. setting[TheServer] = shared /\ origin = c /\ NothingDown /\ NothingUp
  BY <1>6 DEF Relaying, Sets
<1>8. /\ Holds(TheServer)'
      /\ \A n \in Machines \ {TheServer} : board'[n] = board[n] /\ pipe'[n] = pipe[n]
                                           /\ setting'[n] = setting[n]
  BY <1>1, <1>2, <1>6, SetHolds DEF Relaying
<1>9. \A d \in clients : (Holds(d) => Holds(d)') /\ (Waits(d) => Waits(d)')
  BY <1>1, <1>2, <1>8 DEF Holds, Waits, Watches
<1>10. \A d \in clients : down'[d] = IF d # c THEN <<shared>> ELSE << >>
  BY <1>2, <1>7, SendToRoom
<1>11. \A d \in clients : Spreads(d)'
  BY <1>2, <1>6, <1>9, <1>10 DEF Relaying, Spreads
<1>12. Spreading'
  BY <1>2, <1>7, <1>8, <1>11 DEF Spreading, NothingUp
<1>13. QED
  BY <1>12 DEF Stages

LEMMA StageSwitch ==
  ASSUME Sound, SwitchControl \/ UNCHANGED vars
  PROVE  Stages'
<1>1. /\ Stages /\ clients \subseteq Attached /\ TheServer \in Attached
  BY SoundIs
<1>2. UNCHANGED <<clients, board, last, mon, pipe, part, reading, out, setting, origin,
                  up, down, shared, missed>>
  BY DEF SwitchControl, vars, frozenVars, machineVars, historyVars
<1>3. \A n \in Attached : Keeps(n)
  BY <1>2, Unmoved
<1>4. QED
  BY <1>1, <1>2, <1>3, StagesKept

LEMMA StageClient ==
  ASSUME Sound, NEW c \in clients, ClientLoop(c)
  PROVE  Stages'
<1> USE DEF frozenVars, historyVars
<1>1. /\ ClipboardTypeOK /\ Stages /\ Attached \subseteq Machines /\ c \in Clients
      /\ clients \subseteq Clients /\ clients \subseteq Attached /\ c \in Machines
      /\ TheServer \in Attached /\ TheServer \notin clients /\ shared \in Text
      /\ shared # << >>
  BY SoundIs DEF Empty
<1>2. CASE SendCopy(c)
  <2>1. /\ setting[c] = NoText /\ out[c] # << >>
        /\ up' = [up EXCEPT ![c] = Append(@, Head(out[c]))]
        /\ out' = [out EXCEPT ![c] = Tail(@)]
        /\ UNCHANGED <<clients, board, last, mon, pipe, part, reading, setting, origin,
                       down, shared>>
    BY <1>2 DEF SendCopy
  <2>2. ~Waits(c) /\ ~Holds(c) /\ ~Sets(c) /\ ~Fresh(c)
    BY <2>1 DEF Waits, Holds, Sets, Fresh
  <2>3. Copying(c) /\ Sends(c)
    BY <1>1, <2>2 DEF Stages, Copying, Uploading, Relaying, Spreading, Spreads, Dropped
  <2>4. out[c] = <<shared>> /\ up[c] = << >>
    BY <2>3 DEF Sends, Copying, NothingUp
  <2>5. /\ out'[c] = << >> /\ \A n \in Machines \ {c} : out'[n] = out[n]
        /\ up'[c] = <<shared>> /\ \A d \in Clients \ {c} : up'[d] = up[d]
    BY <1>1, <2>1, <2>4 DEF ClipboardTypeOK
  <2>6. Holds(c)'
    BY <2>1, <2>3, <2>5 DEF Sends, Holds, Waits, Watches
  <2>7. \A n \in Attached \ {c} : Waits(n)'
    BY <1>1, <2>1, <2>3, <2>5 DEF Copying, Waits, Watches
  <2>8. Uploading(c)'
    BY <1>1, <2>1, <2>3, <2>5, <2>6, <2>7
       DEF Uploading, Copying, NothingUp, NothingDown, Attached
  <2>9. QED
    BY <2>1, <2>8 DEF Stages
<1>3. CASE ApplyClipboard(c)
  <2>1. /\ down[c] # << >> /\ SetBegins(c, Head(down[c]))
        /\ down' = [down EXCEPT ![c] = Tail(@)]
        /\ UNCHANGED <<clients, board, mon, pipe, part, reading, out, up, shared>>
    BY <1>3 DEF ApplyClipboard
  <2>2. ~NothingDown
    BY <2>1 DEF NothingDown
  <2>3. Spreading
    BY <1>1, <2>2 DEF Stages, Copying, Uploading, Relaying, Dropped
  <2>4. down[c] = <<shared>> /\ Waits(c)
    BY <2>1, <2>3 DEF Spreading, Spreads
  <2>5. /\ down'[c] = << >> /\ \A d \in Clients \ {c} : down'[d] = down[d]
        /\ setting'[c] = shared /\ \A n \in Machines \ {c} : setting'[n] = setting[n]
    BY <1>1, <2>1, <2>4 DEF SetBegins, ClipboardTypeOK
  <2>6. Sets(c)'
    BY <2>1, <2>4, <2>5 DEF Sets, Waits, Watches
  <2>7. ASSUME NEW n \in Attached \ {c}
        PROVE (Holds(n) => Holds(n)') /\ (Waits(n) => Waits(n)') /\ (Sets(n) => Sets(n)')
    BY <1>1, <2>1, <2>5 DEF Holds, Waits, Sets, Watches
  <2>8. ASSUME NEW d \in clients PROVE Spreads(d)'
    <3>1. CASE d = c
      BY <2>5, <2>6, <3>1 DEF Spreads
    <3>2. CASE d # c
      <4>1. down'[d] = down[d] /\ d \in Attached \ {c}
        BY <1>1, <2>5, <3>2
      <4>2. Spreads(d) /\ shared' = shared
        BY <2>1, <2>3 DEF Spreading
      <4>3. QED
        BY <2>7, <4>1, <4>2 DEF Spreads
    <3>3. QED
      BY <3>1, <3>2
  <2>9. Spreading'
    BY <1>1, <2>1, <2>3, <2>7, <2>8 DEF Spreading, NothingUp
  <2>10. QED
    BY <2>9 DEF Stages
<1>4. CASE ClipboardApplied(c)
  <2>1. /\ SetEnds(c) /\ UNCHANGED <<clients, last, mon, part, reading, out, up, down,
                                     shared>>
    BY <1>4 DEF ClipboardApplied
  <2>2. ~Waits(c) /\ ~Holds(c) /\ ~Sends(c) /\ ~Fresh(c)
    BY <2>1 DEF SetEnds, Waits, Holds, Sends, Fresh
  <2>3. Spreading
    BY <1>1, <2>2 DEF Stages, Copying, Uploading, Relaying, Dropped
  <2>4. down[c] = << >> /\ Sets(c)
    BY <2>2, <2>3 DEF Spreading, Spreads
  <2>5. /\ Holds(c)'
        /\ \A n \in Machines \ {c} : board'[n] = board[n] /\ pipe'[n] = pipe[n]
                                     /\ setting'[n] = setting[n]
    BY <1>1, <2>1, <2>4, SetHolds
  <2>6. ASSUME NEW n \in Attached \ {c}
        PROVE (Holds(n) => Holds(n)') /\ (Waits(n) => Waits(n)') /\ (Sets(n) => Sets(n)')
    BY <1>1, <2>1, <2>5 DEF Holds, Waits, Sets, Watches
  <2>7. \A d \in clients : Spreads(d)'
    BY <1>1, <2>1, <2>3, <2>4, <2>5, <2>6 DEF Spreading, Spreads
  <2>8. Spreading'
    BY <1>1, <2>1, <2>3, <2>6, <2>7 DEF Spreading, NothingUp
  <2>9. QED
    BY <2>8 DEF Stages
<1>5. QED
  BY <1>2, <1>3, <1>4 DEF ClientLoop

\* The user of m copies when nothing is on its way.
LEMMA StageUser ==
  ASSUME IInv, CalmInv, calm, NEW m \in Attached, NEW t \in Copyable,
         UserCopies(m, t), shared' # NoText
  PROVE  /\ shared' \in Text /\ shared' # Empty /\ Unbroken(shared')
         /\ \A n \in Attached : mon[n] = "watch"
         /\ Stages'
<1> USE DEF frozenVars
<1>1. /\ ClipboardTypeOK /\ Attached \subseteq Machines /\ m \in Machines
      /\ clients \subseteq Attached
      /\ t \in Text /\ \A n \in Machines : Unbroken(part[n])
  BY AttachedMachines, CopyableTexts DEF IInv, Local, Idle
<1>2. /\ Quiet /\ Becomes(m, t) /\ IsLine(t) /\ part[m] = Empty /\ last[m] # Trim(t)
      /\ shared' = Trim(t)
      /\ UNCHANGED <<calm, clients, last, mon, part, reading, out, setting, up, down>>
  BY DEF UserCopies
<1>3. /\ shared' \in Text /\ shared' # Empty /\ Unbroken(shared')
      /\ t = Append(shared', NL)
  BY <1>1, <1>2, LineIs
<1>4. \A n \in Attached : /\ mon[n] = "watch" /\ pipe[n] = Empty /\ reading[n] = Empty
                          /\ out[n] = << >> /\ setting[n] = NoText
  BY <1>2 DEF Quiet
<1>5. /\ board'[m] = t /\ pipe'[m] = Empty \o t
      /\ \A n \in Machines \ {m} : pipe'[n] = pipe[n]
  <2>1. /\ board' = [board EXCEPT ![m] = t]
        /\ pipe' = [pipe EXCEPT ![m] = Empty \o t]
    BY <1>2, <1>4 DEF Becomes
  <2>2. board \in [Machines -> Text] /\ pipe \in [Machines -> Text]
    BY <1>1 DEF ClipboardTypeOK
  <2>3. QED
    BY <1>1, <2>1, <2>2
<1>6. part'[m] = Empty /\ Empty \o t = t
  BY <1>1, <1>2, ConcatEmpty
<1>7. Fresh(m)'
  <2>1. part'[m] \o pipe'[m] = Append(shared', NL)
    BY <1>3, <1>5, <1>6
  <2>2. Trim(board'[m]) = shared' /\ last'[m] # shared'
    BY <1>2, <1>5
  <2>3. /\ mon'[m] = "watch" /\ out'[m] = << >> /\ setting'[m] = NoText
        /\ reading'[m] = Empty
    BY <1>2, <1>4
  <2>4. QED
    BY <2>1, <2>2, <2>3 DEF Fresh
<1>8. \A n \in Attached \ {m} : Waits(n)'
  BY <1>1, <1>2, <1>4, <1>5, EmptyIs DEF Waits, Watches
<1>9. NothingUp' /\ NothingDown' /\ Attached' = Attached
  BY <1>2 DEF Quiet, NothingUp, NothingDown, Attached
<1>10. Copying(m)'
  BY <1>7, <1>8, <1>9 DEF Copying
<1>11. QED
  BY <1>3, <1>4, <1>9, <1>10 DEF Stages

\* Only users change what should come to be everywhere.
LEMMA SharedByUsers ==
  ASSUME [Next]_vars
  PROVE  (\E m \in Attached, t \in Copyable : UserCopies(m, t)) \/ shared' = shared
<1>1. SwitchControl \/ UNCHANGED vars => shared' = shared
  BY DEF SwitchControl, vars, historyVars
<1>2. ServerLoop => shared' = shared
  BY DEF ServerLoop, BroadcastClipboard, RelayClipboardData, HandleClipboardData,
         historyVars
<1>3. (\E c \in clients : ClientLoop(c)) => shared' = shared
  BY DEF ClientLoop, SendCopy, ApplyClipboard, ClipboardApplied, historyVars
<1>4. (\E m \in Attached : Monitor(m) \/ WatcherDies(m)) => shared' = shared
  BY DEF Monitor, WatcherDies, GetClipboard, StoreInitial, StartWatcher,
         FallBackToPolling, ReadLine, ReadUnended, ContentComplete, MonitorEnds,
         PollCompares, historyVars
<1>5. QED
  BY <1>1, <1>2, <1>3, <1>4 DEF Next

\* What is chosen once stays.
LEMMA Frozen ==
  ASSUME [Next]_vars
  PROVE  UNCHANGED frozenVars
<1>1. SwitchControl \/ UNCHANGED vars => UNCHANGED frozenVars
  BY DEF SwitchControl, vars
<1>2. ServerLoop => UNCHANGED frozenVars
  BY DEF ServerLoop, BroadcastClipboard, RelayClipboardData, HandleClipboardData
<1>3. (\E c \in clients : ClientLoop(c)) => UNCHANGED frozenVars
  BY DEF ClientLoop, SendCopy, ApplyClipboard, ClipboardApplied
<1>4. (\E m \in Attached : Monitor(m) \/ WatcherDies(m)) => UNCHANGED frozenVars
  BY DEF Monitor, WatcherDies, GetClipboard, StoreInitial, StartWatcher,
         FallBackToPolling, ReadLine, ReadUnended, ContentComplete, MonitorEnds,
         PollCompares
<1>5. (\E m \in Attached, t \in Copyable : UserCopies(m, t)) => UNCHANGED frozenVars
  BY DEF UserCopies
<1>6. QED
  BY <1>1, <1>2, <1>3, <1>4, <1>5 DEF Next

LEMMA StagesNext ==
  ASSUME Sound, [Next]_vars, shared' # NoText
  PROVE  /\ shared' \in Text /\ shared' # Empty /\ Unbroken(shared')
         /\ Stages'
<1>1. CASE shared' = shared /\ ~(\E m \in Attached, t \in Copyable : UserCopies(m, t))
  <2>1. Stages'
    BY <1>1, StageMonitor, StageBroadcast, StageHandle, StageRelay, StageSwitch,
       StageClient DEF Next, ServerLoop
  <2>2. QED
    BY <1>1, <2>1, SoundIs
<1>2. CASE \E m \in Attached, t \in Copyable : UserCopies(m, t)
  BY <1>2, StageUser DEF Sound
<1>3. (\E m \in Attached, t \in Copyable : UserCopies(m, t)) \/ shared' = shared
  BY SharedByUsers
<1>4. QED
  BY <1>1, <1>2, <1>3

\* What never changes, and the monitors.
LEMMA CalmStep ==
  ASSUME IInv, CalmInv, calm, [Next]_vars
  PROVE  /\ calm' = calm /\ has_copy' = has_copy /\ Attached' = Attached
         /\ \A n \in Machines : mon'[n] \in {"initial", "spawn", "watch"}
         /\ \A n \in Machines : mon[n] = "watch" => mon'[n] = "watch"
<1>1. UNCHANGED frozenVars
  BY Frozen
<1>2. \/ \E m \in Attached : Monitor(m) \/ WatcherDies(m)
      \/ mon' = mon
  <2>1. SwitchControl \/ UNCHANGED vars => mon' = mon
    BY DEF SwitchControl, vars, machineVars
  <2>2. ServerLoop => mon' = mon
    BY DEF ServerLoop, BroadcastClipboard, RelayClipboardData, HandleClipboardData
  <2>3. (\E c \in clients : ClientLoop(c)) => mon' = mon
    BY DEF ClientLoop, SendCopy, ApplyClipboard, ClipboardApplied
  <2>4. (\E m \in Attached, t \in Copyable : UserCopies(m, t)) => mon' = mon
    BY DEF UserCopies
  <2>5. QED
    BY <2>1, <2>2, <2>3, <2>4 DEF Next
<1>3. \A n \in Machines : mon[n] \in {"initial", "spawn", "watch"}
  BY DEF CalmInv
<1>4. Attached \subseteq Machines
  BY AttachedMachines
<1>5. QED
  BY <1>1, <1>2, <1>3, <1>4, CalmMonitor DEF frozenVars, Attached

LEMMA CalmNext == IInv /\ CalmInv /\ [Next]_vars => CalmInv'
<1> SUFFICES ASSUME IInv, CalmInv, [Next]_vars, calm PROVE CalmInv'
  <2>1. ASSUME ~calm, [Next]_vars PROVE ~calm'
    BY <2>1, Frozen DEF frozenVars
  <2>2. QED
    BY <2>1 DEF CalmInv
<1>1. /\ calm' = calm /\ has_copy' = has_copy /\ Attached' = Attached
      /\ \A n \in Machines : mon'[n] \in {"initial", "spawn", "watch"}
      /\ \A n \in Machines : mon[n] = "watch" => mon'[n] = "watch"
  BY CalmStep
<1>2. Attached \subseteq Machines /\ \A m \in Machines : has_copy[m]
  BY AttachedMachines DEF CalmInv
<1>3. ASSUME shared' # NoText
      PROVE  /\ shared' \in Text /\ shared' # Empty /\ Unbroken(shared')
             /\ \A m \in Attached : mon[m] = "watch"
             /\ Stages'
  <2>1. CASE shared # NoText
    BY <1>3, <2>1, StagesNext DEF Sound, CalmInv
  <2>2. CASE shared = NoText
    <3>1. \E m \in Attached, t \in Copyable : UserCopies(m, t)
      BY <1>3, <2>2, SharedByUsers
    <3>2. QED
      BY <1>3, <3>1, StageUser
  <2>3. QED
    BY <2>1, <2>2
<1>4. QED
  BY <1>1, <1>2, <1>3 DEF CalmInv

\* When users wait for one copy to arrive before they make the next, a line that
\* was copied where the reader had nothing left over ends on the clipboard of
\* every machine, for any number of machines and any texts that users copied
\* before, any way of cutting the stream into contents, and any point where a
\* client becomes active (the server then drops its own copy, clipboard_paused).
THEOREM CopiesReachEveryone == Spec => []QuietMeansAgreed
<1>1. Init => CalmInv
  BY DEF Init, CalmInv
<1>2. IInv /\ CalmInv => QuietMeansAgreed
  <2> SUFFICES ASSUME IInv, CalmInv, calm, Quiet, shared # NoText, NEW m \in Attached
               PROVE  Trim(board[m]) = shared \/ (missed /\ m # TheServer)
    BY DEF QuietMeansAgreed
  <2>1. Sound
    BY DEF Sound
  <2>2. /\ Stages /\ m \in Machines /\ shared \in Text /\ Unbroken(shared)
        /\ Attached = clients \cup {TheServer} /\ clients \subseteq Attached
        /\ TheServer \in Attached /\ TheServer \notin clients
        /\ \A n \in Attached : n \in Machines /\ Unbroken(part[n])
    BY <2>1, SoundIs DEF Attached
  <2>3. \A n \in Attached : /\ pipe[n] = Empty /\ reading[n] = Empty
                            /\ out[n] = << >> /\ setting[n] = NoText
    BY DEF Quiet
  <2>4. \A n \in Attached : ~Fresh(n)
    <3>1. SUFFICES ASSUME NEW n \in Attached, Fresh(n) PROVE FALSE
      OBVIOUS
    <3>2. part[n] \in Text /\ Empty \in Text /\ Append(shared, NL) # Empty
      BY <2>2, Texts, EmptyIs, AppendIs DEF IInv
    <3>3. part[n] \o Empty = Append(shared, NL)
      BY <2>3, <3>1, <3>2 DEF Fresh
    <3>4. QED
      BY <2>2, <3>2, <3>3, LineEnds
  <2>5. \A n \in Attached : ~Sends(n) /\ ~Sets(n)
    BY <2>3 DEF Sends, Sets
  <2>6. /\ \A n \in Attached : ~Copying(n)
        /\ \A c \in clients : ~Uploading(c) /\ ~Relaying(c)
    BY <2>2, <2>4, <2>5 DEF Copying, Uploading, Relaying, Quiet
  <2>7. Spreading \/ Dropped
    BY <2>2, <2>6 DEF Stages
  <2>8. QED
    BY <2>2, <2>5, <2>7 DEF Spreading, Spreads, Dropped, Holds, Quiet
<1>3. QED
  BY InitInv, NextInv, CalmNext, <1>1, <1>2, PTL DEF Spec
=============================================================================
