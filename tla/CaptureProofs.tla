---------------------------- MODULE CaptureProofs ----------------------------
(***************************************************************************)
(* Proofs about Capture: every variable keeps its type, a grabbed device   *)
(* is read, an event handled under the control it was reported under       *)
(* reaches exactly one side, and the events of a device are handled in the *)
(* order it reported them and without a gap.                               *)
(***************************************************************************)
EXTENDS Capture, SequenceTheorems, TLAPS

\* What is grabbed, and what is not though control is with a client.
Holds ==
  /\ grab \subseteq reader \cap plugged
  /\ grab # {} => running
  /\ grabbed = active
  /\ active \/ grab = {}
  /\ ~active \/ reader \cap plugged \subseteq grab \cup failed

\* The desktop has had e exactly if no client is to have it, unless control moved
\* since e was reported, or the grab of its device failed.
Fits(e) ==
  /\ e.epoch <= switches
  /\ (e.epoch = switches /\ e.dev \notin failed) => e.desk # active

AllFit(s) == \A i \in 1 .. Len(s) : Fits(s[i])

Piped ==
  /\ \A d \in Devices : AllFit(kbuf[d])
  /\ \A d \in Devices : hand[d] # NoEvent => Fits(hand[d])
  /\ AllFit(chan) /\ AllFit(events)

IInv == CaptureTypeOK /\ Holds /\ Piped

-----------------------------------------------------------------------------
(* Queues of fitting events.                                               *)

LEMMA AppendFits ==
  ASSUME NEW s \in Seq(Event), NEW e \in Event, AllFit(s), Fits(e)
  PROVE  /\ Append(s, e) \in Seq(Event) /\ AllFit(Append(s, e))
         /\ Len(Append(s, e)) = Len(s) + 1
<1>1. /\ Append(s, e) \in Seq(Event) /\ Len(Append(s, e)) = Len(s) + 1
      /\ \A i \in 1 .. Len(s) : Append(s, e)[i] = s[i]
      /\ Append(s, e)[Len(s) + 1] = e
  BY AppendProperties
<1>2. Len(s) \in Nat
  BY LenProperties
<1>3. ASSUME NEW i \in 1 .. Len(s) + 1 PROVE Fits(Append(s, e)[i])
  <2>1. CASE i = Len(s) + 1
    BY <1>1, <2>1
  <2>2. CASE i # Len(s) + 1
    <3>1. i \in 1 .. Len(s)
      BY <1>2, <2>2
    <3>2. Append(s, e)[i] = s[i] /\ Fits(s[i])
      BY <3>1, <1>1 DEF AllFit
    <3>3. QED
      BY <3>2
  <2>3. QED
    BY <2>1, <2>2
<1>4. QED
  BY <1>1, <1>3 DEF AllFit

LEMMA TailFits ==
  ASSUME NEW s \in Seq(Event), s # << >>, AllFit(s)
  PROVE  /\ Head(s) \in Event /\ Fits(Head(s))
         /\ Tail(s) \in Seq(Event) /\ AllFit(Tail(s)) /\ Len(Tail(s)) <= Len(s)
<1>1. /\ Head(s) \in Event /\ Head(s) = s[1]
      /\ Tail(s) \in Seq(Event) /\ Len(Tail(s)) = Len(s) - 1
      /\ \A i \in 1 .. Len(Tail(s)) : Tail(s)[i] = s[i + 1]
  BY HeadTailProperties
<1>2. Len(s) \in Nat \ {0}
  BY LenProperties, EmptySeq
<1>3. ASSUME NEW i \in 1 .. Len(s) - 1 PROVE Fits(Tail(s)[i])
  <2>1. i + 1 \in 1 .. Len(s) /\ Tail(s)[i] = s[i + 1]
    BY <1>1, <1>2
  <2>2. Fits(s[i + 1])
    BY <2>1 DEF AllFit
  <2>3. QED
    BY <2>1, <2>2
<1>4. Fits(s[1])
  BY <1>2 DEF AllFit
<1>5. QED
  BY <1>1, <1>2, <1>3, <1>4 DEF AllFit

LEMMA EmptyFits == << >> \in Seq(Event) /\ AllFit(<< >>) /\ Len(<< >>) = 0
<1>1. << >> \in Seq(Event) /\ Len(<< >>) = 0
  BY EmptySeq
<1>2. QED
  BY <1>1 DEF AllFit

-----------------------------------------------------------------------------
LEMMA InitHolds ==
  ASSUME Init
  PROVE  IInv
<1> USE DEF Init
<1>1. CaptureTypeOK
  <2>1. Len(<< >>) <= CaptureCap /\ Len(<< >>) <= EventCap
    BY EmptyFits, CaptureAssumption
  <2>2. 0 \in 0 .. MaxEvents /\ 0 \in 0 .. MaxSwitches
    BY CaptureAssumption
  <2>3. QED
    BY <2>1, <2>2, EmptyFits DEF CaptureTypeOK
<1>2. Holds
  BY DEF Holds
<1>3. Piped
  BY EmptyFits DEF Piped
<1>4. QED
  BY <1>1, <1>2, <1>3 DEF IInv

-----------------------------------------------------------------------------
(* The invariant is kept, one lemma per action.                            *)

LEMMA ReportKeeps ==
  ASSUME IInv, NEW d \in Devices, DeviceReports(d)
  PROVE  IInv'
<1> USE DEF DeviceReports, controlVars, deviceVars
<1> DEFINE e == [dev |-> d, n |-> reported[d] + 1, desk |-> d \notin grab,
                 epoch |-> switches]
<1>1. e \in Event /\ reported[d] + 1 \in 0 .. MaxEvents
  BY CaptureAssumption DEF IInv, CaptureTypeOK, Event
<1>2. d \in reader => Fits(e)
  BY CaptureAssumption DEF IInv, Holds, Fits, CaptureTypeOK
<1>3. kbuf[d] \in Seq(Event) /\ AllFit(kbuf[d])
  BY DEF IInv, CaptureTypeOK, Piped
<1>4. d \in reader =>
        /\ Append(kbuf[d], e) \in Seq(Event) /\ AllFit(Append(kbuf[d], e))
        /\ kbuf' = [kbuf EXCEPT ![d] = Append(@, e)]
  BY <1>1, <1>2, <1>3, AppendFits
<1>5. CaptureTypeOK'
  BY <1>1, <1>4 DEF IInv, CaptureTypeOK
<1>6. Holds'
  BY DEF IInv, Holds
<1>7. Piped'
  <2>1. ASSUME NEW c \in Devices PROVE AllFit(kbuf'[c])
    BY <1>4 DEF IInv, Piped, CaptureTypeOK
  <2>2. QED
    BY <2>1 DEF IInv, Piped, AllFit, Fits
<1>8. QED
  BY <1>5, <1>6, <1>7 DEF IInv

LEMMA EmptiedKeeps ==
  ASSUME IInv, NEW d \in Devices, Unplug(d) \/ ReaderFails(d)
  PROVE  IInv'
<1> USE DEF Unplug, ReaderFails, controlVars
<1>1. CaptureTypeOK'
  BY EmptyFits DEF IInv, CaptureTypeOK
<1>2. Holds'
  BY DEF IInv, Holds, CaptureTypeOK
<1>3. Piped'
  <2>1. ASSUME NEW c \in Devices PROVE AllFit(kbuf'[c])
    BY EmptyFits DEF IInv, Piped, CaptureTypeOK
  <2>2. QED
    BY <2>1 DEF IInv, Piped, AllFit, Fits
<1>4. QED
  BY <1>1, <1>2, <1>3 DEF IInv

LEMMA ElsewhereKeeps ==
  ASSUME IInv, NEW d \in Devices, GrabbedElsewhere(d) \/ ReleasedElsewhere(d)
  PROVE  IInv'
<1> USE DEF GrabbedElsewhere, ReleasedElsewhere, pipeVars, controlVars
<1>1. CaptureTypeOK'
  BY DEF IInv, CaptureTypeOK
<1>2. Holds'
  BY DEF IInv, Holds
<1>3. Piped'
  BY DEF IInv, Piped, AllFit, Fits
<1>4. QED
  BY <1>1, <1>2, <1>3 DEF IInv

LEMMA ReaderKeeps ==
  ASSUME IInv, NEW d \in Devices, Reader(d)
  PROVE  IInv'
<1> USE DEF Reader, Read, SendCaptured, deviceVars, controlVars
<1>1. kbuf[d] \in Seq(Event) /\ AllFit(kbuf[d]) /\ chan \in Seq(Event) /\ AllFit(chan)
  BY DEF IInv, CaptureTypeOK, Piped
<1>2. CASE Read(d)
  <2>1. /\ Head(kbuf[d]) \in Event /\ Fits(Head(kbuf[d]))
        /\ Tail(kbuf[d]) \in Seq(Event) /\ AllFit(Tail(kbuf[d]))
    BY <1>1, <1>2, TailFits
  <2>2. CaptureTypeOK'
    BY <1>2, <2>1 DEF IInv, CaptureTypeOK
  <2>3. Holds'
    BY <1>2 DEF IInv, Holds
  <2>4. ASSUME NEW c \in Devices
        PROVE  AllFit(kbuf'[c]) /\ (hand'[c] # NoEvent => Fits(hand'[c]))
    BY <1>2, <2>1 DEF IInv, Piped, CaptureTypeOK
  <2>5. Piped'
    BY <1>2, <2>4 DEF IInv, Piped, AllFit, Fits
  <2>6. QED
    BY <2>2, <2>3, <2>5 DEF IInv
<1>3. CASE SendCaptured(d)
  <2>1. hand[d] \in Event /\ Fits(hand[d])
    BY <1>3 DEF IInv, CaptureTypeOK, Piped
  <2>2. /\ chan' \in Seq(Event) /\ AllFit(chan') /\ Len(chan') = Len(chan) + 1
    BY <1>1, <1>3, <2>1, AppendFits
  <2>3. Len(chan') <= CaptureCap
    BY <1>1, <1>3, <2>2, LenProperties, CaptureAssumption
  <2>4. CaptureTypeOK'
    BY <1>3, <2>2, <2>3 DEF IInv, CaptureTypeOK
  <2>5. Holds'
    BY <1>3 DEF IInv, Holds
  <2>6. ASSUME NEW c \in Devices
        PROVE  hand'[c] # NoEvent => Fits(hand'[c])
    BY <1>3 DEF IInv, Piped, CaptureTypeOK
  <2>7. Piped'
    BY <1>3, <2>2, <2>6 DEF IInv, Piped, AllFit, Fits
  <2>8. QED
    BY <2>4, <2>5, <2>7 DEF IInv
<1>4. QED
  BY <1>2, <1>3

LEMMA ForwardKeeps ==
  ASSUME IInv, Forward
  PROVE  IInv'
<1> USE DEF Forward, deviceVars, controlVars
<1>1. chan \in Seq(Event) /\ AllFit(chan) /\ events \in Seq(Event) /\ AllFit(events)
  BY DEF IInv, CaptureTypeOK, Piped
<1>2. /\ Head(chan) \in Event /\ Fits(Head(chan))
      /\ chan' \in Seq(Event) /\ AllFit(chan') /\ Len(chan') <= Len(chan)
  BY <1>1, TailFits
<1>3. events' \in Seq(Event) /\ AllFit(events') /\ Len(events') = Len(events) + 1
  BY <1>1, <1>2, AppendFits
<1>4. Len(chan') <= CaptureCap /\ Len(events') <= EventCap
  <2>1. Len(chan') \in Nat /\ Len(chan) \in Nat /\ Len(events) \in Nat
    BY <1>1, <1>2, LenProperties
  <2>2. QED
    BY <1>2, <1>3, <2>1, CaptureAssumption DEF IInv, CaptureTypeOK
<1>5. CaptureTypeOK'
  BY <1>2, <1>3, <1>4 DEF IInv, CaptureTypeOK
<1>6. Holds'
  BY DEF IInv, Holds
<1>7. Piped'
  BY <1>2, <1>3 DEF IInv, Piped, AllFit, Fits
<1>8. QED
  BY <1>5, <1>6, <1>7 DEF IInv

\* The first event of the event channel is taken.
LEMMA TakenKeeps ==
  ASSUME IInv, HandleInput \/ HandleEdge
  PROVE  /\ events \in Seq(Event) /\ events # << >> /\ AllFit(events)
         /\ Head(events) \in Event /\ Fits(Head(events))
         /\ events' \in Seq(Event) /\ AllFit(events') /\ Len(events') <= EventCap
         /\ handled' = [handled EXCEPT ![Head(events).dev] = Head(events).n]
         /\ handled' \in [Devices -> 0 .. MaxEvents]
<1>1. events \in Seq(Event) /\ AllFit(events) /\ events # << >> /\ events' = Tail(events)
      /\ Len(events) <= EventCap
      /\ handled' = [handled EXCEPT ![Head(events).dev] = Head(events).n]
  BY DEF IInv, CaptureTypeOK, Piped, HandleInput, HandleEdge
<1>2. /\ Head(events) \in Event /\ Fits(Head(events))
      /\ events' \in Seq(Event) /\ AllFit(events') /\ Len(events') <= Len(events)
  BY <1>1, TailFits
<1>3. Len(events') <= EventCap
  BY <1>1, <1>2, LenProperties, CaptureAssumption
<1>4. Head(events).dev \in Devices /\ Head(events).n \in 0 .. MaxEvents
  BY <1>2, CaptureAssumption DEF Event
<1>5. handled' \in [Devices -> 0 .. MaxEvents]
  BY <1>1, <1>4 DEF IInv, CaptureTypeOK
<1>6. QED
  BY <1>1, <1>2, <1>3, <1>5

LEMMA HandleInputKeeps ==
  ASSUME IInv, HandleInput
  PROVE  IInv'
<1> USE DEF HandleInput, deviceVars, controlVars
<1>1. events' \in Seq(Event) /\ AllFit(events') /\ Len(events') <= EventCap
      /\ handled' \in [Devices -> 0 .. MaxEvents]
  BY TakenKeeps
<1>2. CaptureTypeOK'
  BY <1>1 DEF IInv, CaptureTypeOK
<1>3. Holds'
  BY DEF IInv, Holds
<1>4. Piped'
  BY <1>1 DEF IInv, Piped, AllFit, Fits
<1>5. QED
  BY <1>2, <1>3, <1>4 DEF IInv

\* Control moves.
LEMMA PipedAfterSwitch ==
  ASSUME IInv, switches' = switches + 1, UNCHANGED <<kbuf, hand, chan>>,
         events' \in Seq(Event), AllFit(events')
  PROVE  Piped'
<1>1. switches \in Nat
  BY CaptureAssumption DEF IInv, CaptureTypeOK
<1>2. ASSUME NEW s \in Seq(Event), AllFit(s), NEW i \in 1 .. Len(s)
      PROVE  s[i].epoch \in Int /\ s[i].epoch < switches'
  <2>1. s[i] \in Event
    BY ElementOfSeq
  <2>2. s[i].epoch \in Int /\ s[i].epoch <= switches
    BY <1>2, <2>1, CaptureAssumption DEF AllFit, Fits, Event
  <2>3. QED
    BY <1>1, <2>2
<1>3. ASSUME NEW d \in Devices PROVE AllFit(kbuf[d])'
  <2>1. kbuf[d] \in Seq(Event) /\ AllFit(kbuf[d]) /\ kbuf'[d] = kbuf[d]
    BY DEF IInv, CaptureTypeOK, Piped
  <2>2. \A i \in 1 .. Len(kbuf[d]) :
          kbuf[d][i].epoch \in Int /\ kbuf[d][i].epoch < switches'
    BY <1>2, <2>1
  <2>3. QED
    BY <1>1, <2>1, <2>2 DEF AllFit, Fits
<1>4. ASSUME NEW d \in Devices, hand[d] # NoEvent PROVE Fits(hand[d])'
  <2>1. hand[d].epoch \in Int /\ hand[d].epoch <= switches
    BY <1>4, CaptureAssumption DEF IInv, CaptureTypeOK, Piped, Fits, Event
  <2>2. QED
    BY <1>1, <2>1 DEF Fits
<1>5. AllFit(chan)'
  <2>1. chan \in Seq(Event) /\ AllFit(chan)
    BY DEF IInv, CaptureTypeOK, Piped
  <2>2. \A i \in 1 .. Len(chan) :
          chan[i].epoch \in Int /\ chan[i].epoch < switches'
    BY <1>2, <2>1
  <2>3. QED
    BY <1>1, <2>2 DEF AllFit, Fits
<1>6. AllFit(events)'
  BY <1>1, <1>2 DEF AllFit, Fits
<1>7. QED
  BY <1>3, <1>4, <1>5, <1>6 DEF Piped

LEMMA HandleEdgeKeeps ==
  ASSUME IInv, HandleEdge
  PROVE  IInv'
<1> USE DEF HandleEdge, GrabDevices
<1>1. events' \in Seq(Event) /\ AllFit(events') /\ Len(events') <= EventCap
      /\ handled' \in [Devices -> 0 .. MaxEvents]
  BY TakenKeeps
<1>2. ~grabbed
  BY DEF IInv, Holds
<1>3. CaptureTypeOK'
  BY <1>1, <1>2, CaptureAssumption DEF IInv, CaptureTypeOK
<1>4. Holds'
  BY <1>2 DEF IInv, Holds, CaptureTypeOK
<1>5. Piped'
  BY <1>1, PipedAfterSwitch
<1>6. QED
  BY <1>3, <1>4, <1>5 DEF IInv

LEMMA DeactivateKeeps ==
  ASSUME IInv, Deactivate
  PROVE  IInv'
<1> USE DEF Deactivate, UngrabDevices, pipeVars
<1>1. grabbed /\ events \in Seq(Event) /\ AllFit(events)
  BY DEF IInv, Holds, CaptureTypeOK, Piped
<1>2. CaptureTypeOK'
  <2>1. switches + 1 \in 0 .. MaxSwitches
    BY CaptureAssumption DEF IInv, CaptureTypeOK
  <2>2. grab' = {} /\ failed' = {} /\ grabbed' = FALSE /\ switches' = switches + 1
    BY <1>1
  <2>3. QED
    BY <2>1, <2>2 DEF IInv, CaptureTypeOK
<1>3. Holds'
  BY <1>1 DEF IInv, Holds
<1>4. Piped'
  BY <1>1, PipedAfterSwitch
<1>5. QED
  BY <1>2, <1>3, <1>4 DEF IInv

LEMMA ProcessEndsKeeps ==
  ASSUME IInv, ProcessEnds
  PROVE  IInv'
<1> USE DEF ProcessEnds
<1>1. CaptureTypeOK'
  BY EmptyFits DEF IInv, CaptureTypeOK
<1>2. Holds'
  BY DEF IInv, Holds
<1>3. Piped'
  BY EmptyFits DEF IInv, Piped, AllFit, Fits
<1>4. QED
  BY <1>1, <1>2, <1>3 DEF IInv

-----------------------------------------------------------------------------
LEMMA NextKeeps ==
  ASSUME IInv, [Next]_vars
  PROVE  IInv'
<1>1. CASE Next
  BY <1>1, ReportKeeps, EmptiedKeeps, ElsewhereKeeps, ReaderKeeps, ForwardKeeps,
     HandleInputKeeps, HandleEdgeKeeps, DeactivateKeeps, ProcessEndsKeeps
     DEF Next, Outside
<1>2. CASE UNCHANGED vars
  <2> USE <1>2 DEF vars, deviceVars, pipeVars, controlVars
  <2>1. CaptureTypeOK'
    BY DEF IInv, CaptureTypeOK
  <2>2. Holds' /\ Piped'
    BY DEF IInv, Holds, Piped, AllFit, Fits
  <2>3. QED
    BY <2>1, <2>2 DEF IInv
<1>3. QED
  BY <1>1, <1>2

\* Every variable keeps its type, and neither channel exceeds its capacity.
THEOREM CaptureTypes == Spec => []CaptureTypeOK
<1>1. IInv => CaptureTypeOK
  BY DEF IInv
<1>2. QED
  BY InitHolds, NextKeeps, <1>1, PTL DEF Spec

\* A device the server has grabbed has a reader, whichever devices are unplugged,
\* grabbed by other programs, or abandoned by their readers, at any time.
THEOREM GrabbedIsRead == Spec => []ReadIfGrabbed
<1>1. IInv => ReadIfGrabbed
  BY DEF IInv, Holds, ReadIfGrabbed
<1>2. QED
  BY InitHolds, NextKeeps, <1>1, PTL DEF Spec

\* However many events wait between the device and the main loop while control
\* moves, one that is handled under the control it was reported under is the
\* desktop's or a client's, and never both's.
THEOREM OneSideGetsIt == Spec => ReachesOneSide
<1>1. ASSUME IInv, [Next]_vars
      PROVE  [handled' # handled =>
               LET e == Head(events) IN
               e.epoch = switches /\ e.dev \notin failed => e.desk # active]_vars
  <2>1. CASE HandleInput \/ HandleEdge
    BY <1>1, <2>1, TakenKeeps DEF Fits
  <2>2. CASE ~(HandleInput \/ HandleEdge)
    <3>1. handled' = handled
      BY <1>1, <2>2 DEF Next, Outside, DeviceReports, Unplug, GrabbedElsewhere,
         ReleasedElsewhere, Reader, Read, SendCaptured, ReaderFails, Forward,
         Deactivate, ProcessEnds, vars
    <3>2. QED
      BY <3>1
  <2>3. QED
    BY <2>1, <2>2
<1>2. QED
  BY InitHolds, NextKeeps, <1>1, PTL DEF Spec, ReachesOneSide

-----------------------------------------------------------------------------
(* The order of events: at any time the event channel, the capture         *)
(* channel, the reader's hand and the kernel's buffer hold, one after the  *)
(* other, successive intervals of the numbers of a device's events.        *)

\* The numbers of the events of d in s.
Of(s, d) == {i \in 1 .. Len(s) : s[i].dev = d}
Nums(s, d) == {s[i].n : i \in Of(s, d)}

Rising(s) ==
  \A i, j \in 1 .. Len(s) : i < j /\ s[i].dev = s[j].dev => s[i].n < s[j].n

\* Events of d up to b are handled or in the event channel, those up to c have
\* reached the capture channel, those up to h the reader.
Chain(d, b, c, h) ==
  /\ handled[d] <= b /\ b <= c
  /\ Nums(events, d) = handled[d] + 1 .. b
  /\ Nums(chan, d) = b + 1 .. c
  /\ h = IF hand[d] = NoEvent THEN c ELSE c + 1
  /\ hand[d] # NoEvent => hand[d].dev = d /\ hand[d].n = h
  /\ \A i \in 1 .. Len(kbuf[d]) : kbuf[d][i].dev = d /\ kbuf[d][i].n = h + i
  /\ d \in reader \cap plugged => reported[d] = h + Len(kbuf[d])

Chained(d) == \E b, c, h \in Nat : Chain(d, b, c, h)

Ordered ==
  /\ Rising(chan) /\ Rising(events)
  /\ \A d \in Devices : Chained(d)

-----------------------------------------------------------------------------
(* Numbers of a queue.                                                     *)

LEMMA NumsOfNone ==
  /\ Rising(<< >>) /\ Len(<< >>) = 0
  /\ \A d : Nums(<< >>, d) = {}
<1>1. Len(<< >>) = 0
  BY EmptySeq
<1>2. QED
  BY <1>1 DEF Rising, Nums, Of

LEMMA NumsOfAppend ==
  ASSUME NEW s \in Seq(Event), NEW e \in Event, Rising(s),
         \A k \in Nums(s, e.dev) : k < e.n
  PROVE  /\ Rising(Append(s, e))
         /\ \A d : Nums(Append(s, e), d) =
                     IF d = e.dev THEN Nums(s, d) \cup {e.n} ELSE Nums(s, d)
<1> DEFINE t == Append(s, e)
<1>1. /\ Len(t) = Len(s) + 1 /\ Len(s) \in Nat
      /\ \A i \in 1 .. Len(s) : t[i] = s[i]
      /\ t[Len(s) + 1] = e
  BY AppendProperties, LenProperties
<1> HIDE DEF t
<1>2. Rising(t)
  <2>1. ASSUME NEW i \in 1 .. Len(t), NEW j \in 1 .. Len(t),
               i < j, t[i].dev = t[j].dev
        PROVE  t[i].n < t[j].n
    <3>1. i \in 1 .. Len(s) /\ t[i] = s[i]
      BY <1>1, <2>1
    <3>2. CASE j = Len(s) + 1
      <4>1. t[j] = e /\ s[i].n \in Nums(s, e.dev)
        BY <1>1, <2>1, <3>1, <3>2 DEF Nums, Of
      <4>2. QED
        BY <3>1, <4>1
    <3>3. CASE j # Len(s) + 1
      <4>1. j \in 1 .. Len(s) /\ t[j] = s[j]
        BY <1>1, <3>3
      <4>2. QED
        BY <2>1, <3>1, <4>1 DEF Rising
    <3>4. QED
      BY <3>2, <3>3
  <2>2. QED
    BY <2>1 DEF Rising
<1>3. ASSUME NEW d, d = e.dev PROVE Nums(t, d) = Nums(s, d) \cup {e.n}
  <2>1. Of(t, d) = Of(s, d) \cup {Len(s) + 1}
    BY <1>1, <1>3 DEF Of
  <2>2. QED
    BY <1>1, <2>1 DEF Nums, Of
<1>4. ASSUME NEW d, d # e.dev PROVE Nums(t, d) = Nums(s, d)
  <2>1. Of(t, d) = Of(s, d)
    BY <1>1, <1>4 DEF Of
  <2>2. QED
    BY <1>1, <2>1 DEF Nums, Of
<1>5. QED
  BY <1>2, <1>3, <1>4 DEF t

LEMMA NumsOfTail ==
  ASSUME NEW s \in Seq(Event), s # << >>, Rising(s)
  PROVE  /\ Rising(Tail(s)) /\ Head(s) \in Event
         /\ Head(s).n \in Nums(s, Head(s).dev)
         /\ \A k \in Nums(s, Head(s).dev) : Head(s).n <= k
         /\ \A d : Nums(Tail(s), d) =
                     IF d = Head(s).dev THEN Nums(s, d) \ {Head(s).n} ELSE Nums(s, d)
<1> DEFINE t == Tail(s)
<1>1. /\ Head(s) \in Event /\ Head(s) = s[1]
      /\ Len(s) \in Nat \ {0} /\ Len(t) = Len(s) - 1
      /\ \A i \in 1 .. Len(t) : t[i] = s[i + 1]
  BY HeadTailProperties, LenProperties, EmptySeq
<1> HIDE DEF t
<1>2. Rising(t)
  <2>1. ASSUME NEW i \in 1 .. Len(t), NEW j \in 1 .. Len(t),
               i < j, t[i].dev = t[j].dev
        PROVE  t[i].n < t[j].n
    <3>1. /\ i + 1 \in 1 .. Len(s) /\ j + 1 \in 1 .. Len(s) /\ i + 1 < j + 1
          /\ t[i] = s[i + 1] /\ t[j] = s[j + 1]
      BY <1>1, <2>1
    <3>2. QED
      BY <2>1, <3>1 DEF Rising
  <2>2. QED
    BY <2>1 DEF Rising
<1>3. 1 \in 1 .. Len(s)
  BY <1>1
<1>4. s[1].n \in Nums(s, s[1].dev)
  BY <1>3 DEF Nums, Of
<1>5. ASSUME NEW k \in Nums(s, s[1].dev) PROVE s[1].n <= k /\ k \in Int
  <2>1. PICK i \in 1 .. Len(s) : s[i].dev = s[1].dev /\ k = s[i].n
    BY DEF Nums, Of
  <2>2. s[i] \in Event /\ s[1] \in Event
    BY <1>1, <2>1, ElementOfSeq
  <2>3. s[i].n \in Int /\ s[1].n \in Int
    BY <2>2, CaptureAssumption DEF Event
  <2>4. i = 1 \/ s[1].n < s[i].n
    BY <1>1, <1>3, <2>1 DEF Rising
  <2>5. QED
    BY <2>1, <2>3, <2>4
<1>6. ASSUME NEW d, d = s[1].dev PROVE Nums(t, d) = Nums(s, d) \ {s[1].n}
  <2>1. ASSUME NEW k \in Nums(t, d) PROVE k \in Nums(s, d) \ {s[1].n}
    <3>1. PICK i \in 1 .. Len(t) : t[i].dev = d /\ k = t[i].n
      BY DEF Nums, Of
    <3>2. i + 1 \in 1 .. Len(s) /\ t[i] = s[i + 1] /\ 1 < i + 1
      BY <1>1, <3>1
    <3>3. s[1].n < s[i + 1].n
      BY <1>3, <1>6, <3>1, <3>2 DEF Rising
    <3>4. k \in Nums(s, d)
      BY <3>1, <3>2 DEF Nums, Of
    <3>5. s[1].n \in Int
      BY <1>1, CaptureAssumption DEF Event
    <3>6. QED
      BY <1>5, <1>6, <3>1, <3>2, <3>3, <3>4, <3>5
  <2>2. ASSUME NEW k \in Nums(s, d), k # s[1].n PROVE k \in Nums(t, d)
    <3>1. PICK i \in 1 .. Len(s) : s[i].dev = d /\ k = s[i].n
      BY DEF Nums, Of
    <3>2. i - 1 \in 1 .. Len(t) /\ t[i - 1] = s[i]
      BY <1>1, <2>2, <3>1
    <3>3. QED
      BY <3>1, <3>2 DEF Nums, Of
  <2>3. QED
    BY <2>1, <2>2
<1>7. ASSUME NEW d, d # s[1].dev PROVE Nums(t, d) = Nums(s, d)
  <2>1. ASSUME NEW k \in Nums(t, d) PROVE k \in Nums(s, d)
    <3>1. PICK i \in 1 .. Len(t) : t[i].dev = d /\ k = t[i].n
      BY DEF Nums, Of
    <3>2. i + 1 \in 1 .. Len(s) /\ t[i] = s[i + 1]
      BY <1>1, <3>1
    <3>3. QED
      BY <3>1, <3>2 DEF Nums, Of
  <2>2. ASSUME NEW k \in Nums(s, d) PROVE k \in Nums(t, d)
    <3>1. PICK i \in 1 .. Len(s) : s[i].dev = d /\ k = s[i].n
      BY DEF Nums, Of
    <3>2. i - 1 \in 1 .. Len(t) /\ t[i - 1] = s[i]
      BY <1>1, <1>7, <3>1
    <3>3. QED
      BY <3>1, <3>2 DEF Nums, Of
  <2>3. QED
    BY <2>1, <2>2
<1>8. QED
  BY <1>1, <1>2, <1>4, <1>5, <1>6, <1>7 DEF t

\* The first event of an interval has its first number, and leaves the rest.
LEMMA FirstOfInterval ==
  ASSUME NEW s \in Seq(Event), s # << >>, Rising(s), NEW lo \in Nat, NEW hi \in Nat,
         Nums(s, Head(s).dev) = lo + 1 .. hi
  PROVE  /\ Head(s).n = lo + 1 /\ lo + 1 <= hi
         /\ Nums(Tail(s), Head(s).dev) = lo + 2 .. hi
<1>1. /\ Head(s).n \in lo + 1 .. hi
      /\ \A k \in lo + 1 .. hi : Head(s).n <= k
      /\ Nums(Tail(s), Head(s).dev) = (lo + 1 .. hi) \ {Head(s).n}
  BY NumsOfTail
<1>2. Head(s).n = lo + 1 /\ lo + 1 <= hi
  BY <1>1
<1>3. (lo + 1 .. hi) \ {lo + 1} = lo + 2 .. hi
  OBVIOUS
<1>4. QED
  BY <1>1, <1>2, <1>3

-----------------------------------------------------------------------------
(* The order is kept, one lemma per action that moves events.              *)

\* What no queue, no reader and no count of d is touched by leaves d as it was.
LEMMA ChainStays ==
  ASSUME NEW d \in Devices, Chained(d),
         Nums(events, d)' = Nums(events, d), Nums(chan, d)' = Nums(chan, d),
         hand'[d] = hand[d], kbuf'[d] = kbuf[d],
         handled'[d] = handled[d], reported'[d] = reported[d],
         reader' \cap plugged' \subseteq reader \cap plugged
  PROVE  Chained(d)'
<1>1. PICK b \in Nat, c \in Nat, h \in Nat : Chain(d, b, c, h)
  BY DEF Chained
<1>2. Chain(d, b, c, h)'
  BY <1>1 DEF Chain
<1>3. QED
  BY <1>2 DEF Chained

LEMMA InitOrdered ==
  ASSUME Init
  PROVE  Ordered
<1>1. Rising(chan) /\ Rising(events)
  BY NumsOfNone DEF Init
<1>2. ASSUME NEW d \in Devices PROVE Chain(d, 0, 0, 0)
  BY NumsOfNone DEF Init, Chain
<1>3. QED
  BY <1>1, <1>2 DEF Ordered, Chained

LEMMA ReportOrdered ==
  ASSUME CaptureTypeOK, Ordered, NEW d \in Devices, DeviceReports(d)
  PROVE  Ordered'
<1> USE DEF DeviceReports, deviceVars, controlVars
<1>1. Rising(chan)' /\ Rising(events)'
  BY DEF Ordered
<1>2. ASSUME NEW x \in Devices PROVE Chained(x)'
  <2>1. CASE x # d \/ x \notin reader
    <3>1. Chained(x) /\ kbuf'[x] = kbuf[x]
      BY <2>1 DEF Ordered, CaptureTypeOK
    <3>2. CASE x # d
      <4>1. reported'[x] = reported[x]
        BY <3>2 DEF CaptureTypeOK
      <4>2. QED
        BY <3>1, <4>1, ChainStays
    <3>3. CASE x \notin reader
      <4>1. PICK b \in Nat, c \in Nat, h \in Nat : Chain(x, b, c, h)
        BY <3>1 DEF Chained
      <4>2. Chain(x, b, c, h)'
        BY <3>1, <3>3, <4>1 DEF Chain
      <4>3. QED
        BY <4>2 DEF Chained
    <3>4. QED
      BY <2>1, <3>2, <3>3
  <2>2. CASE x = d /\ x \in reader
    <3> DEFINE e == [dev |-> d, n |-> reported[d] + 1, desk |-> d \notin grab,
                     epoch |-> switches]
    <3>1. PICK b \in Nat, c \in Nat, h \in Nat : Chain(d, b, c, h)
      BY DEF Ordered, Chained
    <3>2. /\ e \in Event /\ kbuf[d] \in Seq(Event) /\ Len(kbuf[d]) \in Nat
          /\ kbuf'[d] = Append(kbuf[d], e) /\ reported'[d] = reported[d] + 1
      <4>1. /\ reported[d] \in 0 .. MaxEvents /\ reported[d] < MaxEvents
            /\ switches \in 0 .. MaxSwitches
        BY DEF CaptureTypeOK
      <4>2. reported[d] + 1 \in 1 .. MaxEvents
        BY <4>1, CaptureAssumption
      <4>3. e \in Event
        BY <4>1, <4>2 DEF Event
      <4>4. kbuf[d] \in Seq(Event) /\ kbuf'[d] = Append(kbuf[d], e)
            /\ reported'[d] = reported[d] + 1
        BY <2>2 DEF CaptureTypeOK
      <4>5. QED
        BY <4>3, <4>4, LenProperties
    <3>3. /\ Len(kbuf'[d]) = Len(kbuf[d]) + 1
          /\ \A i \in 1 .. Len(kbuf[d]) : kbuf'[d][i] = kbuf[d][i]
          /\ kbuf'[d][Len(kbuf[d]) + 1] = e
      BY <3>2, AppendProperties
    <3>4. reported[d] = h + Len(kbuf[d]) /\ e.dev = d /\ e.n = reported[d] + 1
      BY <2>2, <3>1 DEF Chain
    <3> HIDE DEF e
    <3>5. ASSUME NEW i \in 1 .. Len(kbuf'[d])
          PROVE  kbuf'[d][i].dev = d /\ kbuf'[d][i].n = h + i
      <4>1. CASE i = Len(kbuf[d]) + 1
        BY <3>2, <3>3, <3>4, <4>1
      <4>2. CASE i # Len(kbuf[d]) + 1
        <5>1. i \in 1 .. Len(kbuf[d])
          BY <3>2, <3>3, <4>2
        <5>2. QED
          BY <3>1, <3>3, <5>1 DEF Chain
      <4>3. QED
        BY <4>1, <4>2
    <3>6. reported'[d] = h + Len(kbuf'[d])
      BY <3>2, <3>3, <3>4
    <3>7. Chain(d, b, c, h)'
      BY <3>1, <3>5, <3>6 DEF Chain
    <3>8. QED
      BY <2>2, <3>7 DEF Chained
  <2>3. QED
    BY <2>1, <2>2
<1>3. QED
  BY <1>1, <1>2 DEF Ordered

\* Unplugging a device or losing its reader drops what the kernel holds, and no
\* event of the device is captured any more.
LEMMA EmptiedOrdered ==
  ASSUME CaptureTypeOK, Ordered,
         \/ \E d \in Devices : Unplug(d) \/ ReaderFails(d)
         \/ ProcessEnds
  PROVE  Ordered'
<1>1. /\ UNCHANGED <<chan, events, hand, handled, reported>>
      /\ \A x \in Devices :
           \/ /\ kbuf'[x] = kbuf[x]
              /\ x \in reader' \cap plugged' => x \in reader \cap plugged
           \/ kbuf'[x] = << >> /\ x \notin reader' \cap plugged'
  BY DEF Unplug, ReaderFails, ProcessEnds, controlVars, CaptureTypeOK
<1>2. Rising(chan)' /\ Rising(events)'
  BY <1>1 DEF Ordered
<1>3. ASSUME NEW x \in Devices PROVE Chained(x)'
  <2>1. PICK b \in Nat, c \in Nat, h \in Nat : Chain(x, b, c, h)
    BY DEF Ordered, Chained
  <2>2. ASSUME kbuf'[x] = kbuf[x],
               x \in reader' \cap plugged' => x \in reader \cap plugged
        PROVE  Chain(x, b, c, h)'
    BY <1>1, <2>1, <2>2 DEF Chain
  <2>3. ASSUME kbuf'[x] = << >>, x \notin reader' \cap plugged'
        PROVE  Chain(x, b, c, h)'
    <3>1. Len(kbuf'[x]) = 0
      BY <2>3, NumsOfNone
    <3>2. \A i \in 1 .. Len(kbuf'[x]) : kbuf'[x][i].dev = x /\ kbuf'[x][i].n = h + i
      BY <3>1
    <3>3. QED
      BY <1>1, <2>1, <2>3, <3>2 DEF Chain
  <2>4. Chain(x, b, c, h)'
    BY <1>1, <2>2, <2>3
  <2>5. QED
    BY <2>4 DEF Chained
<1>4. QED
  BY <1>2, <1>3 DEF Ordered

LEMMA ReadOrdered ==
  ASSUME CaptureTypeOK, Ordered, NEW d \in Devices, Read(d)
  PROVE  Ordered'
<1> USE DEF Read, deviceVars, controlVars
<1>1. Rising(chan)' /\ Rising(events)'
  BY DEF Ordered
<1>2. ASSUME NEW x \in Devices, x # d PROVE Chained(x)'
  <2>1. Chained(x) /\ hand'[x] = hand[x] /\ kbuf'[x] = kbuf[x]
    BY <1>2 DEF Ordered, CaptureTypeOK
  <2>2. QED
    BY <2>1, ChainStays
<1>3. Chained(d)'
  <2>1. PICK b \in Nat, c \in Nat, h \in Nat : Chain(d, b, c, h)
    BY DEF Ordered, Chained
  <2>2. kbuf[d] \in Seq(Event) /\ kbuf[d] # << >> /\ kbuf'[d] = Tail(kbuf[d])
        /\ hand'[d] = Head(kbuf[d])
    BY DEF CaptureTypeOK
  <2>3. /\ Head(kbuf[d]) = kbuf[d][1] /\ Head(kbuf[d]) \in Event
        /\ Len(kbuf[d]) \in Nat \ {0} /\ Len(kbuf'[d]) = Len(kbuf[d]) - 1
        /\ \A i \in 1 .. Len(kbuf'[d]) : kbuf'[d][i] = kbuf[d][i + 1]
    <3>1. /\ Head(kbuf[d]) = kbuf[d][1] /\ Head(kbuf[d]) \in Event
          /\ Len(Tail(kbuf[d])) = Len(kbuf[d]) - 1
          /\ \A i \in 1 .. Len(Tail(kbuf[d])) : Tail(kbuf[d])[i] = kbuf[d][i + 1]
      BY <2>2, HeadTailProperties
    <3>2. Len(kbuf[d]) \in Nat /\ Len(kbuf[d]) # 0
      BY <2>2, LenProperties, EmptySeq
    <3>3. QED
      BY <2>2, <3>1, <3>2
  <2>4. hand'[d] # NoEvent /\ hand'[d].dev = d /\ hand'[d].n = h + 1 /\ h = c
    <3>1. 1 \in 1 .. Len(kbuf[d])
      BY <2>3
    <3>2. QED
      BY <2>1, <2>2, <2>3, <3>1, CaptureAssumption DEF Chain
  <2>5. ASSUME NEW i \in 1 .. Len(kbuf'[d])
        PROVE  kbuf'[d][i].dev = d /\ kbuf'[d][i].n = (h + 1) + i
    <3>1. i + 1 \in 1 .. Len(kbuf[d])
      BY <2>3
    <3>2. kbuf[d][i + 1].dev = d /\ kbuf[d][i + 1].n = h + (i + 1)
      BY <2>1, <3>1 DEF Chain
    <3>3. QED
      BY <2>3, <3>2
  <2>6. d \in reader' \cap plugged' => reported'[d] = (h + 1) + Len(kbuf'[d])
    <3>1. d \in reader' \cap plugged' => reported'[d] = h + Len(kbuf[d])
      BY <2>1 DEF Chain
    <3>2. \A m \in Nat : h + m = (h + 1) + (m - 1)
      OBVIOUS
    <3>3. QED
      BY <2>3, <3>1, <3>2
  <2>7. Chain(d, b, c, h + 1)'
    BY <2>1, <2>4, <2>5, <2>6 DEF Chain
  <2>8. QED
    BY <2>7 DEF Chained
<1>4. QED
  BY <1>1, <1>2, <1>3 DEF Ordered

LEMMA SendOrdered ==
  ASSUME CaptureTypeOK, Ordered, NEW d \in Devices, SendCaptured(d)
  PROVE  Ordered'
<1> USE DEF SendCaptured, deviceVars, controlVars
<1>1. PICK b \in Nat, c \in Nat, h \in Nat : Chain(d, b, c, h)
  BY DEF Ordered, Chained
<1>2. /\ hand[d] \in Event /\ chan \in Seq(Event) /\ Rising(chan)
      /\ chan' = Append(chan, hand[d]) /\ hand'[d] = NoEvent
      /\ hand[d].dev = d /\ hand[d].n = c + 1 /\ h = c + 1
  BY <1>1 DEF CaptureTypeOK, Ordered, Chain
<1>3. \A k \in Nums(chan, d) : k < hand[d].n
  BY <1>1, <1>2 DEF Chain
<1>4. /\ Rising(chan')
      /\ \A x : Nums(chan', x) =
                  IF x = d THEN Nums(chan, x) \cup {c + 1} ELSE Nums(chan, x)
  <2>1. \A k \in Nums(chan, hand[d].dev) : k < hand[d].n
    BY <1>2, <1>3
  <2>2. /\ Rising(Append(chan, hand[d]))
        /\ \A x : Nums(Append(chan, hand[d]), x) =
                    IF x = hand[d].dev THEN Nums(chan, x) \cup {hand[d].n} ELSE Nums(chan, x)
    BY <1>2, <2>1, NumsOfAppend
  <2>3. QED
    BY <1>2, <2>2
<1>5. Nums(chan', d) = b + 1 .. c + 1
  <2>1. Nums(chan', d) = (b + 1 .. c) \cup {c + 1} /\ b <= c
    BY <1>1, <1>4 DEF Chain
  <2>2. b <= c => (b + 1 .. c) \cup {c + 1} = b + 1 .. c + 1
    OBVIOUS
  <2>3. QED
    BY <2>1, <2>2
<1>6. ASSUME NEW x \in Devices, x # d PROVE Chained(x)'
  <2>1. Chained(x) /\ hand'[x] = hand[x] /\ Nums(chan', x) = Nums(chan, x)
    BY <1>4, <1>6 DEF Ordered, CaptureTypeOK
  <2>2. QED
    BY <2>1, ChainStays
<1>7. Chain(d, b, c + 1, h)'
  <2>1. UNCHANGED <<handled, events, kbuf, reported, reader, plugged>>
    OBVIOUS
  <2>2. b <= c + 1 /\ h = c + 1
    BY <1>1, <1>2 DEF Chain
  <2>3. QED
    BY <1>1, <1>2, <1>5, <2>1, <2>2 DEF Chain
<1>8. Chained(d)'
  BY <1>7 DEF Chained
<1>9. QED
  BY <1>4, <1>6, <1>8 DEF Ordered

LEMMA ForwardOrdered ==
  ASSUME CaptureTypeOK, Ordered, Forward
  PROVE  Ordered'
<1> USE DEF Forward, deviceVars, controlVars
<1>1. /\ chan \in Seq(Event) /\ chan # << >> /\ Rising(chan) /\ chan' = Tail(chan)
      /\ events \in Seq(Event) /\ Rising(events) /\ events' = Append(events, Head(chan))
  BY DEF CaptureTypeOK, Ordered
<1>2. PICK d \in Devices :
        /\ d = Head(chan).dev /\ Rising(chan') /\ Head(chan) \in Event
        /\ \A x : x # d => Nums(chan', x) = Nums(chan, x)
  <2>1. /\ Rising(Tail(chan)) /\ Head(chan) \in Event
        /\ \A x : x # Head(chan).dev => Nums(Tail(chan), x) = Nums(chan, x)
    BY <1>1, NumsOfTail
  <2>2. Head(chan).dev \in Devices
    BY <2>1 DEF Event
  <2>3. QED
    BY <1>1, <2>1, <2>2
<1>3. PICK b \in Nat, c \in Nat, h \in Nat : Chain(d, b, c, h)
  BY <1>2 DEF Ordered, Chained
<1>4. Head(chan).n = b + 1 /\ b + 1 <= c /\ Nums(chan', d) = b + 2 .. c
  BY <1>1, <1>2, <1>3, FirstOfInterval DEF Chain
<1>5. handled[d] \in Nat /\ Nums(events, d) = handled[d] + 1 .. b /\ handled[d] <= b
  BY <1>2, <1>3, CaptureAssumption DEF Chain, CaptureTypeOK
<1>6. /\ Rising(events')
      /\ \A x : Nums(events', x) =
                  IF x = d THEN Nums(events, x) \cup {b + 1} ELSE Nums(events, x)
  <2>1. \A k \in Nums(events, d) : k < Head(chan).n
    BY <1>4, <1>5
  <2>2. QED
    BY <1>1, <1>2, <1>4, <2>1, NumsOfAppend
<1>7. Nums(events', d) = handled[d] + 1 .. b + 1
  <2>1. Nums(events', d) = (handled[d] + 1 .. b) \cup {b + 1}
    BY <1>5, <1>6
  <2>2. \A a \in Nat : a <= b => (a + 1 .. b) \cup {b + 1} = a + 1 .. b + 1
    OBVIOUS
  <2>3. QED
    BY <1>5, <2>1, <2>2
<1>8. ASSUME NEW x \in Devices, x # d PROVE Chained(x)'
  <2>1. Chained(x) /\ Nums(chan', x) = Nums(chan, x) /\ Nums(events', x) = Nums(events, x)
    BY <1>2, <1>6, <1>8 DEF Ordered
  <2>2. QED
    BY <2>1, ChainStays
<1>9. Chain(d, b + 1, c, h)'
  <2>1. Nums(chan', d) = (b + 1) + 1 .. c
    BY <1>4
  <2>2. UNCHANGED <<handled, hand, kbuf, reported, reader, plugged>>
    OBVIOUS
  <2>3. handled[d] <= b + 1
    BY <1>5
  <2>4. QED
    BY <1>3, <1>4, <1>7, <2>1, <2>2, <2>3 DEF Chain
<1>10. Chained(d)'
  BY <1>9 DEF Chained
<1>11. \A x \in Devices : Chained(x)'
  BY <1>8, <1>10
<1>12. QED
  BY <1>2, <1>6, <1>11 DEF Ordered

LEMMA HandleOrdered ==
  ASSUME CaptureTypeOK, Ordered, HandleInput \/ HandleEdge
  PROVE  /\ Ordered'
         /\ \A x \in Devices : handled'[x] # handled[x] => handled'[x] = handled[x] + 1
<1> USE DEF HandleInput, HandleEdge, deviceVars, controlVars
<1>1. /\ events \in Seq(Event) /\ events # << >> /\ Rising(events)
      /\ events' = Tail(events)
      /\ handled' = [handled EXCEPT ![Head(events).dev] = Head(events).n]
      /\ UNCHANGED <<reader, plugged, kbuf, hand, chan, reported>>
  BY DEF CaptureTypeOK, Ordered
<1>2. PICK d \in Devices :
        /\ d = Head(events).dev /\ Rising(events') /\ Head(events) \in Event
        /\ \A x : x # d => Nums(events', x) = Nums(events, x)
  <2>1. /\ Rising(Tail(events)) /\ Head(events) \in Event
        /\ \A x : x # Head(events).dev => Nums(Tail(events), x) = Nums(events, x)
    BY <1>1, NumsOfTail
  <2>2. Head(events).dev \in Devices
    BY <2>1 DEF Event
  <2>3. QED
    BY <1>1, <2>1, <2>2
<1>3. PICK b \in Nat, c \in Nat, h \in Nat : Chain(d, b, c, h)
  BY <1>2 DEF Ordered, Chained
<1>4. handled[d] \in Nat
  BY <1>2, CaptureAssumption DEF CaptureTypeOK
<1>5. /\ Head(events).n = handled[d] + 1 /\ handled[d] + 1 <= b
      /\ Nums(events', d) = handled[d] + 2 .. b
  BY <1>1, <1>2, <1>3, <1>4, FirstOfInterval DEF Chain
<1>6. /\ handled'[d] = handled[d] + 1
      /\ \A x \in Devices \ {d} : handled'[x] = handled[x]
  BY <1>1, <1>2, <1>5 DEF CaptureTypeOK
<1>7. ASSUME NEW x \in Devices, x # d PROVE Chained(x)'
  <2>1. Chained(x) /\ Nums(events', x) = Nums(events, x) /\ handled'[x] = handled[x]
    BY <1>2, <1>6, <1>7 DEF Ordered
  <2>2. QED
    BY <1>1, <2>1, ChainStays
<1>8. Chain(d, b, c, h)'
  <2>1. Nums(events', d) = (handled[d] + 1) + 1 .. b
    BY <1>4, <1>5
  <2>2. handled'[d] = handled[d] + 1 /\ handled[d] + 1 <= b
    BY <1>5, <1>6
  <2>3. UNCHANGED <<hand, chan, kbuf, reported, reader, plugged>>
    BY <1>1
  <2>4. QED
    BY <1>3, <2>1, <2>2, <2>3 DEF Chain
<1>9. Chained(d)'
  BY <1>8 DEF Chained
<1>10. Rising(chan)'
  BY <1>1 DEF Ordered
<1>11. \A x \in Devices : Chained(x)'
  BY <1>7, <1>9
<1>12. QED
  BY <1>2, <1>6, <1>10, <1>11 DEF Ordered

LEMMA ControlOrdered ==
  ASSUME Ordered, UNCHANGED <<plugged, reader, pipeVars, reported, handled>>
  PROVE  Ordered'
<1> USE DEF pipeVars
<1>1. Rising(chan)' /\ Rising(events)'
  BY DEF Ordered
<1>2. ASSUME NEW x \in Devices PROVE Chained(x)'
  BY ChainStays DEF Ordered
<1>3. QED
  BY <1>1, <1>2 DEF Ordered

-----------------------------------------------------------------------------
LEMMA NextOrdered ==
  ASSUME CaptureTypeOK, Ordered, [Next]_vars
  PROVE  /\ Ordered'
         /\ \A x \in Devices : handled'[x] # handled[x] => handled'[x] = handled[x] + 1
<1>1. CASE HandleInput \/ HandleEdge
  BY <1>1, HandleOrdered
<1>2. CASE ~(HandleInput \/ HandleEdge)
  <2>1. handled' = handled
    BY <1>2 DEF Next, Outside, DeviceReports, Unplug, GrabbedElsewhere,
       ReleasedElsewhere, Reader, Read, SendCaptured, ReaderFails, Forward,
       Deactivate, ProcessEnds, vars
  <2>2. CASE UNCHANGED <<plugged, reader, pipeVars, reported, handled>>
    BY <2>2, ControlOrdered
  <2>3. CASE ~ UNCHANGED <<plugged, reader, pipeVars, reported, handled>>
    <3>1. \/ \E d \in Devices : DeviceReports(d) \/ Read(d) \/ SendCaptured(d)
          \/ \E d \in Devices : Unplug(d) \/ ReaderFails(d)
          \/ ProcessEnds \/ Forward
      BY <1>2, <2>3 DEF Next, Outside, Reader, GrabbedElsewhere, ReleasedElsewhere,
         Deactivate, vars, deviceVars
    <3>2. Ordered'
      BY <3>1, ReportOrdered, ReadOrdered, SendOrdered, EmptiedOrdered, ForwardOrdered
    <3>3. QED
      BY <2>1, <3>2
  <2>4. QED
    BY <2>1, <2>2, <2>3
<1>3. QED
  BY <1>1, <1>2

\* The events of a device pass a task and two bounded channels, and reach the main
\* loop in the order the device reported them with none left out, whatever the
\* other devices do and whichever of them are lost on the way.
THEOREM EventsStayInOrder == Spec => InOrder
<1>1. ASSUME IInv, Ordered, [Next]_vars
      PROVE  /\ IInv' /\ Ordered'
             /\ [\A d \in Devices :
                   handled'[d] # handled[d] => handled'[d] = handled[d] + 1]_vars
  BY <1>1, NextKeeps, NextOrdered DEF IInv
<1>2. Init => IInv /\ Ordered
  BY InitHolds, InitOrdered
<1>3. QED
  BY <1>1, <1>2, PTL DEF Spec, InOrder
=============================================================================
