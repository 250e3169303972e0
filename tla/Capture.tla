------------------------------- MODULE Capture -------------------------------
(***************************************************************************)
(* Input capture, input_capture.rs and its use in server.rs: what the      *)
(* kernel does with the events of a device (external), the reader task of  *)
(* each device, the forwarder, and the server's main loop as far as it     *)
(* decides which side an event belongs to and grabs the devices.           *)
(*                                                                         *)
(* A device is one that discover_devices found and that has a stream; one  *)
(* that is plugged in later is never opened.  A descriptor in device_fds   *)
(* is that of the stream: once the reader has ended it is closed, or       *)
(* belongs to a socket, and an EVIOCGRAB on it has no effect.              *)
(***************************************************************************)
EXTENDS Integers, Sequences

CONSTANTS
  Devices,
  CaptureCap,   \* capacity of the capture channel, 2048 in the code
  EventCap,     \* capacity of the event channel, 4096 in the code
  KernelCap,    \* bound of the model: events a device has waiting in the kernel
  MaxEvents,    \* bound of the model: events a device reports
  MaxSwitches,  \* bound of the model: how often control goes or returns
  NoEvent

Event == [dev : Devices, n : 1 .. MaxEvents, desk : BOOLEAN, epoch : 0 .. MaxSwitches]

ASSUME CaptureAssumption ==
  /\ CaptureCap \in Nat \ {0} /\ EventCap \in Nat \ {0} /\ KernelCap \in Nat \ {0}
  /\ MaxEvents \in Nat /\ MaxSwitches \in Nat
  /\ NoEvent \notin Event

VARIABLES
  plugged,    \* devices that have not been unplugged
  elsewhere,  \* devices that another program has grabbed
  grab,       \* devices the server has grabbed
  reader,     \* devices whose reader task runs, and owns the descriptor
  kbuf,       \* what waits in the kernel for the reader of each device
  hand,       \* the event each reader has and has not sent, or NoEvent
  chan,       \* the capture channel
  events,     \* the Input events of the event channel
  running,    \* the server's process
  active,     \* active_client is not None
  grabbed,    \* the flag of struct Server
  reported,   \* history: how many events each device has reported
  handled,    \* history: the last of them that the main loop has handled
  switches,   \* history: how often control went or returned
  failed      \* history: devices whose grab failed when control went

deviceVars == <<plugged, elsewhere, grab>>
pipeVars == <<kbuf, hand, chan, events>>
controlVars == <<running, active, grabbed, switches, failed>>
vars == <<deviceVars, reader, pipeVars, controlVars, reported, handled>>

CaptureTypeOK ==
  /\ plugged \subseteq Devices /\ elsewhere \subseteq Devices
  /\ grab \subseteq Devices /\ reader \subseteq Devices /\ failed \subseteq Devices
  /\ kbuf \in [Devices -> Seq(Event)]
  /\ hand \in [Devices -> Event \cup {NoEvent}]
  /\ chan \in Seq(Event) /\ Len(chan) <= CaptureCap
  /\ events \in Seq(Event) /\ Len(events) <= EventCap
  /\ running \in BOOLEAN /\ active \in BOOLEAN /\ grabbed \in BOOLEAN
  /\ reported \in [Devices -> 0 .. MaxEvents]
  /\ handled \in [Devices -> 0 .. MaxEvents]
  /\ switches \in 0 .. MaxSwitches

Init ==
  /\ plugged = Devices /\ elsewhere \in SUBSET Devices
  /\ grab = {} /\ reader = Devices
  /\ kbuf = [d \in Devices |-> << >>]
  /\ hand = [d \in Devices |-> NoEvent]
  /\ chan = << >> /\ events = << >>
  /\ running = TRUE /\ active = FALSE /\ grabbed = FALSE
  /\ reported = [d \in Devices |-> 0]
  /\ handled = [d \in Devices |-> 0]
  /\ switches = 0 /\ failed = {}

-----------------------------------------------------------------------------
(* The kernel, the user and other programs.                                *)

\* A key, a button, a wheel or a motion.  Whoever has grabbed the device gets it
\* alone; otherwise the desktop gets it, and so does the server.
DeviceReports(d) ==
  /\ d \in plugged /\ d \notin elsewhere
  /\ reported[d] < MaxEvents /\ Len(kbuf[d]) < KernelCap
  /\ reported' = [reported EXCEPT ![d] = @ + 1]
  /\ kbuf' = IF d \in reader
               THEN [kbuf EXCEPT ![d] = Append(@,
                      [dev |-> d, n |-> reported[d] + 1, desk |-> d \notin grab,
                       epoch |-> switches])]
               ELSE kbuf
  /\ UNCHANGED <<deviceVars, reader, hand, chan, events, controlVars, handled>>

\* What waits in the kernel is lost with the device.
Unplug(d) ==
  /\ d \in plugged
  /\ plugged' = plugged \ {d}
  /\ grab' = grab \ {d} /\ elsewhere' = elsewhere \ {d}
  /\ kbuf' = [kbuf EXCEPT ![d] = << >>]
  /\ UNCHANGED <<reader, hand, chan, events, controlVars, reported, handled>>

GrabbedElsewhere(d) ==
  /\ d \in plugged \ (grab \cup elsewhere)
  /\ elsewhere' = elsewhere \cup {d}
  /\ UNCHANGED <<plugged, grab, reader, pipeVars, controlVars, reported, handled>>

ReleasedElsewhere(d) ==
  /\ d \in elsewhere
  /\ elsewhere' = elsewhere \ {d}
  /\ UNCHANGED <<plugged, grab, reader, pipeVars, controlVars, reported, handled>>

-----------------------------------------------------------------------------
(* Reader tasks and forwarder.                                             *)

Read(d) ==
  /\ d \in reader /\ hand[d] = NoEvent /\ kbuf[d] # << >>
  /\ hand' = [hand EXCEPT ![d] = Head(kbuf[d])]
  /\ kbuf' = [kbuf EXCEPT ![d] = Tail(@)]
  /\ UNCHANGED <<deviceVars, reader, chan, events, controlVars, reported, handled>>

\* Mutants: the channel has no bound, or drops what it has no room for.
SendUnbounded(d) ==
  /\ d \in reader /\ hand[d] # NoEvent
  /\ chan' = Append(chan, hand[d])
  /\ hand' = [hand EXCEPT ![d] = NoEvent]
  /\ UNCHANGED <<deviceVars, reader, kbuf, events, controlVars, reported, handled>>

SendOrDrop(d) ==
  /\ d \in reader /\ hand[d] # NoEvent
  /\ chan' = IF Len(chan) < CaptureCap THEN Append(chan, hand[d]) ELSE chan
  /\ hand' = [hand EXCEPT ![d] = NoEvent]
  /\ UNCHANGED <<deviceVars, reader, kbuf, events, controlVars, reported, handled>>

SendCaptured(d) ==
  /\ d \in reader /\ hand[d] # NoEvent /\ Len(chan) < CaptureCap
  /\ chan' = Append(chan, hand[d])
  /\ hand' = [hand EXCEPT ![d] = NoEvent]
  /\ UNCHANGED <<deviceVars, reader, kbuf, events, controlVars, reported, handled>>

\* Mutant: the stream outlives its reader.
ReaderLeaves(d) ==
  /\ d \in reader /\ hand[d] = NoEvent
  /\ reader' = reader \ {d}
  /\ UNCHANGED <<deviceVars, pipeVars, controlVars, reported, handled>>

\* next_event returns an error: because the device is gone, or for any reason.
\* The stream is dropped, its descriptor closed and the grab with it.
ReaderFails(d) ==
  /\ d \in reader /\ hand[d] = NoEvent
  /\ reader' = reader \ {d}
  /\ grab' = grab \ {d}
  /\ kbuf' = [kbuf EXCEPT ![d] = << >>]
  /\ UNCHANGED <<plugged, elsewhere, hand, chan, events, controlVars, reported, handled>>

\* Mutant: an event for which there is no room is dropped.
ForwardOrDrop ==
  /\ running /\ chan # << >>
  /\ chan' = Tail(chan)
  /\ events' = IF Len(events) < EventCap THEN Append(events, Head(chan)) ELSE events
  /\ UNCHANGED <<deviceVars, reader, kbuf, hand, controlVars, reported, handled>>

Forward ==
  /\ running /\ chan # << >> /\ Len(events) < EventCap
  /\ events' = Append(events, Head(chan))
  /\ chan' = Tail(chan)
  /\ UNCHANGED <<deviceVars, reader, kbuf, hand, controlVars, reported, handled>>

-----------------------------------------------------------------------------
(* The server's main loop.                                                 *)

\* The ioctl fails for a device that is gone or that another program has grabbed;
\* nobody looks.
GrabDevices ==
  IF grabbed
    THEN UNCHANGED <<grab, grabbed, failed>>
    ELSE /\ grab' = grab \cup ((reader \cap plugged) \ elsewhere)
         /\ grabbed' = TRUE
         /\ failed' = elsewhere

\* Mutant: one of the ways back that forgets the devices.
UngrabNothing == UNCHANGED <<grab, grabbed, failed>>

UngrabDevices ==
  IF grabbed
    THEN grab' = {} /\ grabbed' = FALSE /\ failed' = {}
    ELSE UNCHANGED <<grab, grabbed, failed>>

\* Forwarded to the client, or left to the desktop.
HandleInput ==
  /\ running /\ events # << >>
  /\ events' = Tail(events)
  /\ handled' = [handled EXCEPT ![Head(events).dev] = Head(events).n]
  /\ UNCHANGED <<deviceVars, reader, kbuf, hand, chan, controlVars, reported>>

\* A motion that takes the cursor to the edge of a client.
HandleEdge ==
  /\ running /\ events # << >> /\ ~active /\ switches < MaxSwitches
  /\ events' = Tail(events)
  /\ handled' = [handled EXCEPT ![Head(events).dev] = Head(events).n]
  /\ active' = TRUE
  /\ switches' = switches + 1
  /\ GrabDevices
  /\ UNCHANGED <<plugged, elsewhere, reader, kbuf, hand, chan, running, reported>>

\* SwitchToServer, a disconnect, or a send that fails.
Deactivate ==
  /\ running /\ active /\ switches < MaxSwitches
  /\ active' = FALSE
  /\ switches' = switches + 1
  /\ UngrabDevices
  /\ UNCHANGED <<plugged, elsewhere, reader, pipeVars, running, reported, handled>>

\* A signal, after which the devices are released, or a crash; the kernel closes
\* the descriptors.
ProcessEnds ==
  /\ running
  /\ running' = FALSE
  /\ grab' = {} /\ reader' = {}
  /\ kbuf' = [d \in Devices |-> << >>]
  /\ UNCHANGED <<plugged, elsewhere, hand, chan, events, active, grabbed, switches,
                 failed, reported, handled>>

-----------------------------------------------------------------------------
Reader(d) == Read(d) \/ SendCaptured(d)
Outside(d) == DeviceReports(d) \/ Unplug(d) \/ GrabbedElsewhere(d) \/ ReleasedElsewhere(d)

Next ==
  \/ \E d \in Devices : Outside(d) \/ Reader(d) \/ ReaderFails(d)
  \/ Forward \/ HandleInput \/ HandleEdge \/ Deactivate \/ ProcessEnds

Spec == Init /\ [][Next]_vars

\* Tasks run when they can.  Nothing is assumed of devices and clients.
FairSpec ==
  /\ Spec
  /\ \A d \in Devices : WF_vars(Reader(d))
  /\ WF_vars(Forward)
  /\ WF_vars(HandleInput \/ HandleEdge)
-----------------------------------------------------------------------------
(* Properties                                                              *)

\* A device the server has grabbed, which the desktop no longer hears, has a
\* reader: input never disappears (the comment on start_capture: the stream "owns
\* the fd for as long as its reader task runs").
ReadIfGrabbed == \A d \in grab : running /\ d \in reader /\ d \in plugged

\* An event that is handled under the same control as it was reported under is
\* for exactly one side: the desktop has had it, or a client gets it.
ReachesOneSide ==
  [][handled' # handled =>
       LET e == Head(events) IN
       e.epoch = switches /\ e.dev \notin failed => e.desk # active]_vars

\* The events of one device are handled in the order it reported them, and none is
\* left out, though they pass a task and two channels under back-pressure.
InOrder ==
  [][\A d \in Devices : handled'[d] # handled[d] => handled'[d] = handled[d] + 1]_vars

\* What a reader has read is handled in the end.
CapturedIsHandled ==
  \A d \in Devices, n \in 1 .. MaxEvents :
    hand[d] # NoEvent /\ hand[d].n = n ~> handled[d] >= n \/ ~running
=============================================================================
