----------------------------- MODULE TokenProofs ----------------------------
(***************************************************************************)
(* Proofs that control of the keyboard is one token: between the server's  *)
(* switch, the client's own "I am active" and the client's return there is *)
(* never more than one of them, and a client that has it, and whose        *)
(* connection has not ended, is the one the server has devices grabbed     *)
(* for.  Every step moves a token to the next queue, drops it, or - only   *)
(* a switch while the desktop is in control - makes one.                   *)
(***************************************************************************)
EXTENDS SessionProofs, FiniteSetTheorems

-----------------------------------------------------------------------------
(* Counting in sequences.                                                  *)

Among(s, P) == Cardinality({i \in DOMAIN s : s[i] \in P})
OneIf(b) == IF b THEN 1 ELSE 0

\* The indices that satisfy a condition, and how many there are when a place is
\* added at the end, or the first one removed.
LEMMA IndexSet ==
  ASSUME NEW n \in Nat, NEW I \in SUBSET (1 .. n)
  PROVE  IsFiniteSet(I) /\ Cardinality(I) \in Nat
<1>1. IsFiniteSet(1 .. n)
  BY FS_Interval
<1>2. IsFiniteSet(I)
  BY <1>1, FS_Subset
<1> QED
  BY <1>2, FS_CardinalityType

LEMMA IndexAppend ==
  ASSUME NEW n \in Nat, NEW I \in SUBSET (1 .. n), NEW J,
         J = I \/ J = I \cup {n + 1}
  PROVE  Cardinality(J) = Cardinality(I) + OneIf(n + 1 \in J)
<1>1. IsFiniteSet(I) /\ Cardinality(I) \in Nat
  BY IndexSet
<1>2. n + 1 \notin I
  OBVIOUS
<1>3. Cardinality(I \cup {n + 1}) = Cardinality(I) + 1
  BY <1>1, <1>2, FS_AddElement
<1> QED
  BY <1>1, <1>2, <1>3 DEF OneIf

LEMMA IndexShift ==
  ASSUME NEW n \in Nat, NEW I \in SUBSET (1 .. n + 1)
  PROVE  Cardinality(I) = Cardinality({i \in 1 .. n : i + 1 \in I}) + OneIf(1 \in I)
<1> DEFINE J == {i \in 1 .. n : i + 1 \in I}
           f == [i \in J |-> i + 1]
<1>1. IsFiniteSet(I) /\ Cardinality(I) \in Nat
  BY IndexSet
<1>2. IsFiniteSet(J) /\ Cardinality(J) \in Nat
  BY IndexSet
<1>3. f \in Bijection(J, I \ {1})
  <2>1. f \in [J -> I \ {1}]
    OBVIOUS
  <2>2. \A a, b \in J : f[a] = f[b] => a = b
    OBVIOUS
  <2>3. ASSUME NEW t \in I \ {1} PROVE \E i \in J : f[i] = t
    <3>1. t - 1 \in J /\ f[t - 1] = t
      OBVIOUS
    <3> QED
      BY <3>1
  <2> QED
    BY <2>1, <2>2, <2>3 DEF Bijection, Injection, Surjection, IsInjective
<1>4. Cardinality(I \ {1}) = Cardinality(J)
  BY <1>2, <1>3, FS_Bijection DEF ExistsBijection
<1>5. Cardinality(I \ {1}) = IF 1 \in I THEN Cardinality(I) - 1 ELSE Cardinality(I)
  BY <1>1, FS_RemoveElement
<1> QED
  BY <1>1, <1>2, <1>4, <1>5 DEF OneIf

LEMMA AmongNat ==
  ASSUME NEW S, NEW s \in Seq(S), NEW P
  PROVE  Among(s, P) \in Nat
<1>1. {i \in DOMAIN s : s[i] \in P} \in SUBSET (1 .. Len(s)) /\ Len(s) \in Nat
  OBVIOUS
<1> QED
  BY <1>1, IndexSet DEF Among

LEMMA AmongEmpty == \A P : Among(<< >>, P) = 0
BY FS_EmptySet DEF Among

LEMMA AmongAppend ==
  ASSUME NEW S, NEW s \in Seq(S), NEW m \in S, NEW P
  PROVE  Among(Append(s, m), P) = Among(s, P) + OneIf(m \in P)
<1> DEFINE I == {i \in DOMAIN s : s[i] \in P}
           t == Append(s, m)
           J == {i \in DOMAIN t : t[i] \in P}
<1>1. I \in SUBSET (1 .. Len(s)) /\ Len(s) \in Nat
  OBVIOUS
<1>2. /\ DOMAIN t = 1 .. Len(s) + 1
      /\ \A i \in 1 .. Len(s) : t[i] = s[i]
      /\ t[Len(s) + 1] = m
  OBVIOUS
<1>3. J = (IF m \in P THEN I \cup {Len(s) + 1} ELSE I)
  BY <1>2
<1>4. Len(s) + 1 \in J <=> m \in P
  BY <1>2
<1> HIDE DEF I, J
<1>5. Cardinality(J) = Cardinality(I) + OneIf(Len(s) + 1 \in J)
  BY <1>1, <1>3, IndexAppend
<1> QED
  BY <1>4, <1>5 DEF Among, I, J, OneIf

LEMMA AmongTail ==
  ASSUME NEW S, NEW s \in Seq(S), s # << >>, NEW P
  PROVE  Among(s, P) = Among(Tail(s), P) + OneIf(Head(s) \in P)
<1> DEFINE I == {i \in DOMAIN s : s[i] \in P}
           t == Tail(s)
           n == Len(s) - 1
<1>1. n \in Nat /\ Len(s) = n + 1 /\ I \in SUBSET (1 .. n + 1)
  OBVIOUS
<1>2. DOMAIN t = 1 .. n /\ \A i \in 1 .. n : t[i] = s[i + 1]
  OBVIOUS
<1>3. {i \in DOMAIN t : t[i] \in P} = {i \in 1 .. n : i + 1 \in I}
  BY <1>1, <1>2
<1>4. 1 \in I <=> Head(s) \in P
  OBVIOUS
<1> HIDE DEF I, n
<1>5. Cardinality(I) = Cardinality({i \in 1 .. n : i + 1 \in I}) + OneIf(1 \in I)
  BY <1>1, IndexShift
<1> QED
  BY <1>3, <1>4, <1>5 DEF Among, I, OneIf

\* The same of Count, which counts the messages of one type.
LEMMA CountIsAmong ==
  ASSUME NEW S, NEW s \in Seq(S), NEW type
  PROVE  Count(s, type) = Among(s, {m \in S : m.type = type})
<1>1. {i \in DOMAIN s : s[i].type = type} = {i \in DOMAIN s : s[i] \in {m \in S : m.type = type}}
  OBVIOUS
<1> QED
  BY <1>1 DEF Count, Among

LEMMA Counting ==
  ASSUME NEW S, NEW s \in Seq(S), NEW type
  PROVE  /\ Count(s, type) \in Nat
         /\ \A m \in S : Count(Append(s, m), type) = Count(s, type) + OneIf(m.type = type)
         /\ s # << >> => Count(s, type) = Count(Tail(s), type) + OneIf(Head(s).type = type)
         /\ Count(<< >>, type) = 0
<1> DEFINE P == {m \in S : m.type = type}
<1>1. \A t \in Seq(S) : Count(t, type) = Among(t, P)
  BY CountIsAmong
<1>2. \A m \in S : m \in P <=> m.type = type
  OBVIOUS
<1> HIDE DEF P
<1>3. Count(s, type) \in Nat
  BY <1>1, AmongNat
<1>4. ASSUME NEW m \in S
      PROVE  Count(Append(s, m), type) = Count(s, type) + OneIf(m.type = type)
  <2>1. Append(s, m) \in Seq(S)
    OBVIOUS
  <2>2. Among(Append(s, m), P) = Among(s, P) + OneIf(m \in P)
    BY AmongAppend
  <2> QED
    BY <1>1, <1>2, <2>1, <2>2 DEF OneIf
<1>5. ASSUME s # << >>
      PROVE  Count(s, type) = Count(Tail(s), type) + OneIf(Head(s).type = type)
  <2>1. Tail(s) \in Seq(S) /\ Head(s) \in S
    BY <1>5
  <2>2. Among(s, P) = Among(Tail(s), P) + OneIf(Head(s) \in P)
    BY <1>5, AmongTail
  <2> QED
    BY <1>1, <1>2, <2>1, <2>2 DEF OneIf
<1>6. Count(<< >>, type) = 0
  <2>1. << >> \in Seq(S)
    OBVIOUS
  <2> QED
    BY <1>1, <2>1, AmongEmpty
<1> QED
  BY <1>3, <1>4, <1>5, <1>6

-----------------------------------------------------------------------------
(* The places where control can be.                                        *)

\* Every name is given by one connection: nobody connects again, or twice.
OneConnectionPerName == \A j, k \in Conns : Owner[j] = Owner[k] => j = k

Return(k) == ClientMessage(Owner[k], SwitchToServerMsg)

InQueue(k)  == Count(queue[k], "SwitchToClient")
OnTheDown(k) == Count(down[k], "SwitchToClient")
InInbox(k)  == Count(inbox[k], "SwitchToClient")
InControl(k) == OneIf(active[k])
OnTheUp(k)  == Count(up[k], "SwitchToServer")
InEvents(k) == Among(events, {Return(k)})

LEMMA PlacesAreNat ==
  ASSUME SessionTypeOK, NEW k \in Conns
  PROVE  /\ InQueue(k) \in Nat /\ OnTheDown(k) \in Nat /\ InInbox(k) \in Nat
         /\ InControl(k) \in {0, 1} /\ OnTheUp(k) \in Nat /\ InEvents(k) \in Nat
<1>1. /\ queue[k] \in Seq(Forwarded) /\ down[k] \in Seq(ToClient)
      /\ inbox[k] \in Seq(ToClient) /\ up[k] \in Seq(ToServer)
      /\ events \in Seq(ServerEvent)
  BY DEF SessionTypeOK, ServerTypeOK, WireTypeOK, ClientTypeOK
<1>2. InQueue(k) \in Nat
  BY <1>1, Counting DEF InQueue
<1>3. OnTheDown(k) \in Nat /\ InInbox(k) \in Nat
  BY <1>1, Counting DEF OnTheDown, InInbox
<1>4. OnTheUp(k) \in Nat
  BY <1>1, Counting DEF OnTheUp
<1>5. InEvents(k) \in Nat
  BY <1>1, AmongNat DEF InEvents
<1> QED
  BY <1>2, <1>3, <1>4, <1>5 DEF InControl, OneIf

LEMMA TokensAreInPlaces ==
  \A k :
    /\ Tokens(k) = (InQueue(k) + OnTheDown(k) + InInbox(k)) + InControl(k)
                     + (OnTheUp(k) + InEvents(k))
    /\ Tokens(k)' = (InQueue(k)' + OnTheDown(k)' + InInbox(k)') + InControl(k)'
                      + (OnTheUp(k)' + InEvents(k)')
<1>1. \A k :
        /\ InEvents(k) = Cardinality({i \in DOMAIN events :
                            events[i] = ClientMessage(Owner[k], SwitchToServerMsg)})
        /\ InEvents(k)' = Cardinality({i \in DOMAIN events' :
                             events'[i] = ClientMessage(Owner[k], SwitchToServerMsg)})
  BY DEF InEvents, Among, Return
<1> QED
  BY <1>1 DEF Tokens, HandedOver, HandedBack, InQueue, OnTheDown, InInbox,
     InControl, OnTheUp, OneIf

-----------------------------------------------------------------------------
(* What reading, writing, posting and taking do to the places of k.        *)

LEMMA ReadUp ==
  ASSUME SessionTypeOK, NEW k \in Conns, NEW j \in Conns, NEW m, ServerReads(j, m)
  PROVE  /\ m \in ToServer
         /\ OnTheUp(k) = OnTheUp(k)' + IF j = k THEN OneIf(m.type = "SwitchToServer") ELSE 0
         /\ OnTheUp(k)' \in Nat
<1>1. up \in [Conns -> Seq(ToServer)]
  BY DEF SessionTypeOK, ServerTypeOK, WireTypeOK
<1>2. /\ up[j] \in Seq(ToServer) /\ up[j] # << >> /\ m = Head(up[j])
      /\ up'[j] = Tail(up[j]) /\ (j # k => up'[k] = up[k])
  BY <1>1 DEF ServerReads
<1>3. m \in ToServer
  BY <1>2
<1>4. Count(up[j], "SwitchToServer")
        = Count(up'[j], "SwitchToServer") + OneIf(m.type = "SwitchToServer")
  BY <1>2, Counting
<1>5. Count(up[k], "SwitchToServer") \in Nat /\ Count(up'[j], "SwitchToServer") \in Nat
  <2>1. up[k] \in Seq(ToServer) /\ up'[j] \in Seq(ToServer)
    BY <1>1, <1>2
  <2> QED
    BY <2>1, Counting
<1> QED
  BY <1>2, <1>3, <1>4, <1>5 DEF OnTheUp

LEMMA WriteUp ==
  ASSUME SessionTypeOK, NEW k \in Conns, NEW m \in ToServer, ClientWrites(k, m)
  PROVE  OnTheUp(k)' \in {OnTheUp(k), OnTheUp(k) + OneIf(m.type = "SwitchToServer")}
<1>1. up \in [Conns -> Seq(ToServer)]
  BY DEF SessionTypeOK, ServerTypeOK, WireTypeOK
<1>2. up'[k] = up[k] \/ up'[k] = Append(up[k], m)
  BY <1>1 DEF ClientWrites, PeerWrites
<1>3. Count(Append(up[k], m), "SwitchToServer")
        = Count(up[k], "SwitchToServer") + OneIf(m.type = "SwitchToServer")
  BY <1>1, Counting
<1> QED
  BY <1>2, <1>3 DEF OnTheUp

LEMMA WriteDown ==
  ASSUME SessionTypeOK, NEW k \in Conns, NEW j \in Conns, NEW m \in ToClient,
         ServerWrites(j, m)
  PROVE  /\ j # k => OnTheDown(k)' = OnTheDown(k)
         /\ OnTheDown(k)' \in {OnTheDown(k), OnTheDown(k) + OneIf(m.type = "SwitchToClient")}
<1>1. down \in [Conns -> Seq(ToClient)]
  BY DEF SessionTypeOK, ServerTypeOK, WireTypeOK
<1>2. /\ down'[k] = down[k] \/ down'[k] = Append(down[k], m)
      /\ j # k => down'[k] = down[k]
  BY <1>1 DEF ServerWrites
<1>3. Count(Append(down[k], m), "SwitchToClient")
        = Count(down[k], "SwitchToClient") + OneIf(m.type = "SwitchToClient")
  BY <1>1, Counting
<1> QED
  BY <1>2, <1>3 DEF OnTheDown

LEMMA ReadDown ==
  ASSUME SessionTypeOK, NEW k \in Conns, down[k] # << >>,
         down' = [down EXCEPT ![k] = Tail(@)]
  PROVE  /\ Head(down[k]) \in ToClient
         /\ OnTheDown(k) = OnTheDown(k)' + OneIf(Head(down[k]).type = "SwitchToClient")
         /\ OnTheDown(k)' \in Nat
<1>1. down[k] \in Seq(ToClient) /\ down'[k] = Tail(down[k])
  BY DEF SessionTypeOK, ServerTypeOK, WireTypeOK
<1>2. Tail(down[k]) \in Seq(ToClient) /\ Head(down[k]) \in ToClient
  BY <1>1
<1>3. Count(Tail(down[k]), "SwitchToClient") \in Nat
  BY <1>2, Counting
<1>4. Count(down[k], "SwitchToClient")
        = Count(Tail(down[k]), "SwitchToClient") + OneIf(Head(down[k]).type = "SwitchToClient")
  BY <1>1, Counting
<1> QED
  BY <1>1, <1>2, <1>3, <1>4 DEF OnTheDown

\* The writer takes a message from its queue.
LEMMA FromQueue ==
  ASSUME SessionTypeOK, NEW k \in Conns, NEW j \in Conns, queue[j] # << >>,
         queue' = [queue EXCEPT ![j] = Tail(@)]
  PROVE  /\ Head(queue[j]) \in Forwarded
         /\ j # k => InQueue(k)' = InQueue(k)
         /\ j = k => InQueue(k) = InQueue(k)' + OneIf(Head(queue[j]).type = "SwitchToClient")
         /\ InQueue(k)' \in Nat
<1>1. queue \in [Conns -> Seq(Forwarded)]
  BY DEF SessionTypeOK, ServerTypeOK
<1>2. queue[j] \in Seq(Forwarded) /\ queue[k] \in Seq(Forwarded)
      /\ queue'[j] = Tail(queue[j]) /\ (j # k => queue'[k] = queue[k])
  BY <1>1
<1>3. Tail(queue[j]) \in Seq(Forwarded) /\ Head(queue[j]) \in Forwarded
  BY <1>2
<1>4. Count(Tail(queue[j]), "SwitchToClient") \in Nat
        /\ Count(queue[k], "SwitchToClient") \in Nat
  BY <1>2, <1>3, Counting
<1>5. Count(queue[j], "SwitchToClient")
        = Count(Tail(queue[j]), "SwitchToClient") + OneIf(Head(queue[j]).type = "SwitchToClient")
  BY <1>2, Counting
<1> QED
  BY <1>2, <1>3, <1>4, <1>5 DEF InQueue

LEMMA ToQueue ==
  ASSUME SessionTypeOK, NEW k \in Conns, NEW targets, NEW m \in Forwarded,
         SendTo(targets, m)
  PROVE  InQueue(k)' \in {InQueue(k), InQueue(k) + OneIf(m.type = "SwitchToClient")}
<1>1. queue[k] \in Seq(Forwarded)
  BY DEF SessionTypeOK, ServerTypeOK
<1>2. queue'[k] = queue[k] \/ queue'[k] = Append(queue[k], m)
  BY DEF SendTo
<1>3. Count(Append(queue[k], m), "SwitchToClient")
        = Count(queue[k], "SwitchToClient") + OneIf(m.type = "SwitchToClient")
  BY <1>1, Counting
<1> QED
  BY <1>2, <1>3 DEF InQueue

LEMMA ToEvents ==
  ASSUME SessionTypeOK, NEW k \in Conns, NEW e \in ServerEvent, Post(e)
  PROVE  InEvents(k)' = InEvents(k) + OneIf(e = Return(k))
<1>1. events \in Seq(ServerEvent) /\ events' = Append(events, e)
  BY DEF SessionTypeOK, ServerTypeOK, Post
<1>2. Among(Append(events, e), {Return(k)})
        = Among(events, {Return(k)}) + OneIf(e \in {Return(k)})
  BY <1>1, AmongAppend
<1>3. Return(k)' = Return(k)
  BY DEF Return
<1> QED
  BY <1>1, <1>2, <1>3 DEF InEvents, OneIf

LEMMA FromEvents ==
  ASSUME SessionTypeOK, NEW k \in Conns, NEW e, Take(e)
  PROVE  InEvents(k) = InEvents(k)' + OneIf(e = Return(k)) /\ InEvents(k)' \in Nat
<1>1. /\ events \in Seq(ServerEvent) /\ events # << >>
      /\ e = Head(events) /\ events' = Tail(events)
  BY DEF SessionTypeOK, ServerTypeOK, Take
<1>2. Among(events, {Return(k)})
        = Among(Tail(events), {Return(k)}) + OneIf(Head(events) \in {Return(k)})
  BY <1>1, AmongTail
<1>3. Return(k)' = Return(k)
  BY DEF Return
<1>4. Among(Tail(events), {Return(k)}) \in Nat
  <2>1. Tail(events) \in Seq(ServerEvent)
    BY <1>1
  <2> QED
    BY <2>1, AmongNat
<1> QED
  BY <1>1, <1>2, <1>3, <1>4 DEF InEvents, OneIf

-----------------------------------------------------------------------------
(* What a step does to the tokens of k: the server's own steps.            *)

\* The server has places between it and the client on either way; a step that
\* leaves the client alone makes no token if it makes none on either.
LEMMA BothWays ==
  ASSUME SessionTypeOK, NEW k \in Conns, UNCHANGED clientVars,
         InQueue(k)' + OnTheDown(k)' <= InQueue(k) + OnTheDown(k),
         OnTheUp(k)' + InEvents(k)' <= OnTheUp(k) + InEvents(k),
         InQueue(k)' + OnTheDown(k)' \in Int, OnTheUp(k)' + InEvents(k)' \in Int
  PROVE  Tokens(k)' <= Tokens(k)
<1>1. InInbox(k)' = InInbox(k) /\ InControl(k)' = InControl(k)
  BY DEF InInbox, InControl, clientVars
<1> DEFINE way == InQueue(k) + OnTheDown(k)
           back == OnTheUp(k) + InEvents(k)
<1>2. /\ way \in Int /\ back \in Int /\ way' \in Int /\ back' \in Int
      /\ way' <= way /\ back' <= back
      /\ InInbox(k) \in Int /\ InControl(k) \in Int
  BY PlacesAreNat DEF InControl
<1>3. Tokens(k) = (way + InInbox(k)) + InControl(k) + back
  BY TokensAreInPlaces
<1>4. Tokens(k)' = (way' + InInbox(k)') + InControl(k)' + back'
  BY TokensAreInPlaces
<1> HIDE DEF way, back
<1> QED
  BY <1>1, <1>2, <1>3, <1>4

LEMMA QueueAndDown ==
  ASSUME SessionTypeOK, NEW k \in Conns
  PROVE  /\ UNCHANGED queue => InQueue(k)' = InQueue(k)
         /\ UNCHANGED down => OnTheDown(k)' = OnTheDown(k)
         /\ UNCHANGED up => OnTheUp(k)' = OnTheUp(k)
         /\ UNCHANGED events => InEvents(k)' = InEvents(k)
BY DEF InQueue, OnTheDown, OnTheUp, InEvents, Return

\* The tasks of a connection move tokens along or drop them.
LEMMA TaskTokens ==
  ASSUME WireAssumption, OneConnectionPerName, SessionTypeOK, UNCHANGED clientVars,
         NEW k \in Conns, NEW j \in Conns, ConnectionTask(j)
  PROVE  Tokens(k)' <= Tokens(k)
<1>1. /\ InQueue(k) \in Nat /\ OnTheDown(k) \in Nat
      /\ OnTheUp(k) \in Nat /\ InEvents(k) \in Nat
  BY PlacesAreNat
<1>2. CASE Accept(j) \/ HandshakeFails(j) \/ WriterStops(j)
  <2>1. UNCHANGED <<queue, down, up, events>>
    BY <1>2 DEF Accept, HandshakeFails, WriterStops, wireVars
  <2> QED
    BY <1>1, <2>1, QueueAndDown, BothWays
<1>3. ASSUME NEW m, NEW r \in {NoiseReplyMsg, HandshakeAckMsg},
             ServerReads(j, m), ServerWrites(j, r), UNCHANGED <<queue, events>>
      PROVE  Tokens(k)' <= Tokens(k)
  <2>1. r \in ToClient /\ r.type # "SwitchToClient"
    BY DEF ToClient, NoiseReplyMsg, HandshakeAckMsg
  <2>2. OnTheDown(k)' = OnTheDown(k)
    BY <1>1, <1>3, <2>1, WriteDown DEF OneIf
  <2>3. OnTheUp(k)' \in Nat /\ OnTheUp(k)' <= OnTheUp(k)
    BY <1>1, <1>3, ReadUp DEF OneIf
  <2> QED
    BY <1>1, <1>3, <2>2, <2>3, QueueAndDown, BothWays
<1>4. ASSUME NEW e \in ServerEvent, Post(e), e # Return(k), UNCHANGED <<down, up>>,
             InQueue(k)' <= InQueue(k), InQueue(k)' \in Nat
      PROVE  Tokens(k)' <= Tokens(k)
  <2>1. InEvents(k)' = InEvents(k)
    BY <1>1, <1>4, ToEvents DEF OneIf
  <2> QED
    BY <1>1, <1>4, <2>1, QueueAndDown, BothWays
<1>5. CASE Register(j) \/ ReaderReports(j)
  <2>1. PICK e \in {NewClient(j), ClientDisconnected(Owner[j])} : Post(e)
    BY <1>5 DEF Register, ReaderReports
  <2>2. e \in ServerEvent /\ e # Return(k)
    BY DEF ServerEvent, NewClient, ClientDisconnected, Return, ClientMessage, WireAssumption
  <2>3. UNCHANGED <<queue, down, up>>
    BY <1>5 DEF Register, ReaderReports, wireVars
  <2> QED
    BY <1>1, <1>4, <2>1, <2>2, <2>3, QueueAndDown
<1>6. CASE WriterReports(j)
  <2>1. Post(ClientDisconnected(Owner[j])) /\ UNCHANGED <<down, up>>
    BY <1>6 DEF WriterReports
  <2>2. ClientDisconnected(Owner[j]) \in ServerEvent /\ ClientDisconnected(Owner[j]) # Return(k)
    BY DEF ServerEvent, ClientDisconnected, Return, ClientMessage, WireAssumption
  <2>3. queue'[k] = queue[k] \/ queue'[k] = << >>
    BY <1>6 DEF WriterReports, SessionTypeOK, ServerTypeOK
  <2>4. Count(<< >>, "SwitchToClient") = 0
    BY Counting, << >> \in Seq(Forwarded)
  <2>5. InQueue(k)' <= InQueue(k) /\ InQueue(k)' \in Nat
    BY <1>1, <2>3, <2>4 DEF InQueue
  <2> QED
    BY <1>4, <2>1, <2>2, <2>5
<1>7. CASE WriterSend(j)
  <2>1. /\ queue[j] # << >> /\ queue' = [queue EXCEPT ![j] = Tail(@)]
        /\ ServerWrites(j, Head(queue[j])) /\ UNCHANGED <<up, events>>
    BY <1>7 DEF WriterSend
  <2>2. Head(queue[j]) \in Forwarded /\ Head(queue[j]) \in ToClient
    BY <2>1, FromQueue DEF ToClient
  <2>3. InQueue(k)' \in Nat
    BY <2>1, FromQueue
  <2>4. CASE j = k
    <3> DEFINE one == OneIf(Head(queue[k]).type = "SwitchToClient")
    <3>1. InQueue(k) = InQueue(k)' + one
      BY <2>1, <2>4, FromQueue
    <3>2. OnTheDown(k)' \in {OnTheDown(k), OnTheDown(k) + one}
      BY <2>1, <2>2, <2>4, WriteDown
    <3>3. one \in {0, 1}
      BY DEF OneIf
    <3> HIDE DEF one
    <3> QED
      BY <1>1, <2>1, <2>3, <3>1, <3>2, <3>3, QueueAndDown, BothWays
  <2>5. CASE j # k
    <3>1. InQueue(k)' = InQueue(k) /\ OnTheDown(k)' = OnTheDown(k)
      BY <2>1, <2>2, <2>5, FromQueue, WriteDown
    <3> QED
      BY <1>1, <2>1, <3>1, QueueAndDown, BothWays
  <2> QED
    BY <2>4, <2>5
<1>8. CASE WriterFails(j)
  <2>1. /\ queue[j] # << >> /\ queue' = [queue EXCEPT ![j] = Tail(@)]
        /\ UNCHANGED <<down, up, events>>
    BY <1>8 DEF WriterFails, wireVars
  <2>2. InQueue(k)' \in Nat /\ InQueue(k)' <= InQueue(k)
    <3> DEFINE one == OneIf(Head(queue[j]).type = "SwitchToClient")
    <3>1. InQueue(k)' = InQueue(k) \/ InQueue(k) = InQueue(k)' + one
      BY <2>1, FromQueue
    <3>2. InQueue(k)' \in Nat
      BY <2>1, FromQueue
    <3>3. one \in {0, 1}
      BY DEF OneIf
    <3> HIDE DEF one
    <3> QED
      BY <1>1, <3>1, <3>2, <3>3
  <2> QED
    BY <1>1, <2>1, <2>2, QueueAndDown, BothWays
<1>9. CASE ReaderForwards(j)
  <2>1. PICK m \in ToServer : ServerReads(j, m) /\ Post(ClientMessage(Owner[j], m))
    BY <1>9 DEF ReaderForwards
  <2>2. ClientMessage(Owner[j], m) \in ServerEvent
    BY DEF ServerEvent, ClientMessage, WireAssumption
  <2>3. ClientMessage(Owner[j], m) = Return(k) => j = k /\ m.type = "SwitchToServer"
    BY DEF ClientMessage, Return, OneConnectionPerName, SwitchToServerMsg
  <2>4. InEvents(k)' = InEvents(k) + OneIf(ClientMessage(Owner[j], m) = Return(k))
    BY <2>1, <2>2, ToEvents
  <2>5. OnTheUp(k) = OnTheUp(k)' + IF j = k THEN OneIf(m.type = "SwitchToServer") ELSE 0
    BY <2>1, ReadUp
  <2>6. OnTheUp(k)' \in Int
    BY <2>1, ReadUp
  <2>7. OnTheUp(k)' + InEvents(k)' <= OnTheUp(k) + InEvents(k)
    BY <1>1, <2>3, <2>4, <2>5, <2>6 DEF OneIf
  <2>8. UNCHANGED <<queue, down>>
    BY <1>9 DEF ReaderForwards
  <2> QED
    BY <1>1, <2>4, <2>6, <2>7, <2>8, QueueAndDown, BothWays DEF OneIf
<1> QED
  BY <1>2, <1>3, <1>5, <1>6, <1>7, <1>8, <1>9
     DEF ConnectionTask, NoiseHandshake, AppHandshake

\* A handler of events makes none, and handling the client's return takes one.
LEMMA EventTokens ==
  ASSUME WireAssumption, SessionTypeOK, UNCHANGED clientVars,
         NEW k \in Conns, HandleEvent
  PROVE  /\ Tokens(k)' <= Tokens(k)
         /\ HandleSwitchToServer(Owner[k]) => Tokens(k)' < Tokens(k)
<1>1. /\ InQueue(k) \in Nat /\ OnTheDown(k) \in Nat
      /\ OnTheUp(k) \in Nat /\ InEvents(k) \in Nat
  BY PlacesAreNat
<1>2. /\ UNCHANGED <<down, up>>
      /\ \E e : Take(e)
      /\ UNCHANGED queue \/ \E targets : \E c \in Contents : SendTo(targets, ClipboardMsg(c))
  BY DEF HandleEvent, HandleNewClient, HandleSwitchToServer, HandleClipboardData,
     HandleOtherMessage, HandleDisconnect, BroadcastClipboard, wireVars
<1>3. InQueue(k)' = InQueue(k)
  <2>1. ASSUME NEW targets, NEW c \in Contents, SendTo(targets, ClipboardMsg(c))
        PROVE  InQueue(k)' = InQueue(k)
    <3>1. ClipboardMsg(c) \in Forwarded /\ ClipboardMsg(c).type # "SwitchToClient"
      BY DEF ClipboardMsg, Forwarded
    <3> QED
      BY <1>1, <2>1, <3>1, ToQueue DEF OneIf
  <2> QED
    BY <1>2, <2>1, QueueAndDown
<1>4. InEvents(k)' \in Nat /\ InEvents(k)' <= InEvents(k)
  BY <1>1, <1>2, FromEvents DEF OneIf
<1>5. Tokens(k)' <= Tokens(k)
  BY <1>1, <1>2, <1>3, <1>4, QueueAndDown, BothWays
<1>6. ASSUME HandleSwitchToServer(Owner[k]) PROVE Tokens(k)' < Tokens(k)
  <2>1. Take(Return(k)) /\ UNCHANGED queue
    BY <1>6 DEF HandleSwitchToServer, Return
  <2>2. InEvents(k) = InEvents(k)' + 1
    BY <1>4, <2>1, FromEvents DEF OneIf
  <2>3. /\ OnTheDown(k)' = OnTheDown(k) /\ OnTheUp(k)' = OnTheUp(k)
        /\ InInbox(k)' = InInbox(k) /\ InControl(k)' = InControl(k)
        /\ InInbox(k) \in Nat /\ InControl(k) \in Nat
    BY <1>2, QueueAndDown, PlacesAreNat DEF InInbox, InControl, clientVars
  <2>4. /\ Tokens(k) = (InQueue(k) + OnTheDown(k) + InInbox(k)) + InControl(k)
                          + (OnTheUp(k) + InEvents(k))
        /\ Tokens(k)' = (InQueue(k)' + OnTheDown(k)' + InInbox(k)') + InControl(k)'
                           + (OnTheUp(k)' + InEvents(k)')
    BY TokensAreInPlaces
  <2> QED
    BY <1>1, <1>3, <1>4, <2>2, <2>3, <2>4
<1> QED
  BY <1>5, <1>6

\* The switch: the only step that makes a token.
Gives(k, n) ==
  /\ running /\ active_client = NoName
  /\ clients[n] = k /\ writer[k] # "done"
  /\ active_client' = n
  /\ UNCHANGED <<running, clients, stage, writer, events>>

\* Sending to one client with nothing else but a queue changed.
LEMMA SendingTokens ==
  ASSUME SessionTypeOK, UNCHANGED <<clientVars, down, up, events>>,
         NEW k \in Conns, NEW targets, NEW m \in Forwarded, SendTo(targets, m)
  PROVE  /\ Tokens(k)' \in {Tokens(k), Tokens(k) + 1}
         /\ m.type # "SwitchToClient" \/ queue'[k] = queue[k] => Tokens(k)' = Tokens(k)
<1>1. /\ InQueue(k) \in Nat /\ OnTheDown(k) \in Nat
      /\ OnTheUp(k) \in Nat /\ InEvents(k) \in Nat
      /\ InInbox(k) \in Nat /\ InControl(k) \in Nat
  BY PlacesAreNat
<1>2. /\ OnTheDown(k)' = OnTheDown(k) /\ OnTheUp(k)' = OnTheUp(k)
      /\ InInbox(k)' = InInbox(k) /\ InControl(k)' = InControl(k)
      /\ InEvents(k)' = InEvents(k)
  BY QueueAndDown DEF InInbox, InControl, clientVars
<1>3. /\ Tokens(k) = (InQueue(k) + OnTheDown(k) + InInbox(k)) + InControl(k)
                        + (OnTheUp(k) + InEvents(k))
      /\ Tokens(k)' = (InQueue(k)' + OnTheDown(k)' + InInbox(k)') + InControl(k)'
                         + (OnTheUp(k)' + InEvents(k)')
  BY TokensAreInPlaces
<1>4. InQueue(k)' \in {InQueue(k), InQueue(k) + OneIf(m.type = "SwitchToClient")}
  BY ToQueue
<1>5. queue'[k] = queue[k] => InQueue(k)' = InQueue(k)
  BY DEF InQueue
<1> QED
  BY <1>1, <1>2, <1>3, <1>4, <1>5 DEF OneIf

\* The message held back behind flushed motion is not a switch.
RestIsInput == rest # NoMsg => rest \in Inputs

LEMMA InputTokens ==
  ASSUME WireAssumption, ServerAssumption, SessionTypeOK, NamesMatch, RestIsInput,
         UNCHANGED clientVars, NEW k \in Conns,
         MoveInput \/ ForwardRest \/ \E m \in Inputs : OtherInput(m)
  PROVE  \/ Tokens(k)' <= Tokens(k)
         \/ Gives(k, Owner[k]) /\ Tokens(k)' = Tokens(k) + 1
<1> USE DEF wireVars, cursorVars
<1>1. UNCHANGED <<down, up, events>>
  BY DEF MoveInput, MoveLocal, SwitchTo, MoveAccumulates, MoveFlushes, OtherInput,
     FlushMotionFirst, ForwardNow, ForwardRest, QueueInput
<1>2. Tokens(k) \in Nat
  <2>1. /\ InQueue(k) \in Nat /\ OnTheDown(k) \in Nat
        /\ OnTheUp(k) \in Nat /\ InEvents(k) \in Nat
        /\ InInbox(k) \in Nat /\ InControl(k) \in Nat
    BY PlacesAreNat
  <2>2. Tokens(k) = (InQueue(k) + OnTheDown(k) + InInbox(k)) + InControl(k)
                      + (OnTheUp(k) + InEvents(k))
    BY TokensAreInPlaces
  <2> QED
    BY <2>1, <2>2
<1>3. ASSUME NEW targets, NEW m \in Forwarded, m.type # "SwitchToClient", SendTo(targets, m)
      PROVE  Tokens(k)' <= Tokens(k)
  BY <1>1, <1>2, <1>3, SendingTokens
<1>4. CASE UNCHANGED queue
  <2>1. Tokens(k)' = Tokens(k)
    BY <1>1, <1>4 DEF Tokens, HandedOver, HandedBack, clientVars
  <2> QED
    BY <1>2, <2>1
<1>5. ASSUME NEW dx \in Int, NEW dy \in Int
      PROVE  MouseMoveMsg(dx, dy) \in Forwarded
               /\ MouseMoveMsg(dx, dy).type # "SwitchToClient"
  BY DEF MouseMoveMsg, Forwarded
<1>6. /\ pending_dx \in Int /\ pending_dy \in Int
      /\ \A d \in Deltas : d[1] \in Int /\ d[2] \in Int
  BY DEF SessionTypeOK, ServerTypeOK, ServerAssumption
<1>7. ASSUME NEW n \in Names, NEW d \in Deltas, SwitchTo(n, d[1], d[2])
      PROVE  \/ Tokens(k)' <= Tokens(k)
             \/ Gives(k, Owner[k]) /\ Tokens(k)' = Tokens(k) + 1
  <2> DEFINE m == EntryMsg(n, MovedX(d[1]), MovedY(d[2]))
  <2>1. n \in Configured /\ MovedX(d[1]) \in Int /\ MovedY(d[2]) \in Int
    BY <1>6, <1>7, MovedType DEF SwitchTo, EdgeClients, ServerAssumption, SessionTypeOK
  <2>2. m \in Forwarded /\ SendTo({n}, m)
    BY <1>7, <2>1, EntryType DEF SwitchTo
  <2> HIDE DEF m
  <2>3. CASE queue'[k] = queue[k]
    BY <1>1, <1>2, <2>2, <2>3, SendingTokens
  <2>4. CASE queue'[k] # queue[k]
    <3>1. Reachable(n) /\ clients[n] = k
      BY <2>2, <2>4 DEF SendTo
    <3>2. Owner[k] = n
      BY <3>1 DEF NamesMatch
    <3>3. Gives(k, Owner[k])
      BY <1>7, <3>1, <3>2 DEF Gives, SwitchTo, Reachable, taskVars
    <3> QED
      BY <1>1, <1>2, <2>2, <3>3, SendingTokens
  <2> QED
    BY <2>3, <2>4
<1>8. CASE MoveInput
  <2>1. ASSUME NEW d \in Deltas, MoveFlushes(d[1], d[2]) PROVE Tokens(k)' <= Tokens(k)
    <3> DEFINE m == MouseMoveMsg(pending_dx + d[1], pending_dy + d[2])
    <3>1. m \in Forwarded /\ m.type # "SwitchToClient"
      BY <1>5, <1>6
    <3>2. SendTo({active_client}, m)
      BY <2>1 DEF MoveFlushes
    <3> QED
      BY <1>3, <3>1, <3>2
  <2> QED
    BY <1>4, <1>7, <1>8, <2>1 DEF MoveInput, MoveLocal, MoveAccumulates
<1>9. \A m \in Inputs : m \in Forwarded /\ m.type # "SwitchToClient"
  BY DEF ServerAssumption
<1>10. ASSUME NEW m \in Inputs, OtherInput(m) PROVE Tokens(k)' <= Tokens(k)
  BY <1>3, <1>5, <1>6, <1>9, <1>10 DEF OtherInput, FlushMotionFirst, ForwardNow, QueueInput
<1>11. CASE ForwardRest
  <2>1. rest \in Forwarded /\ rest.type # "SwitchToClient"
    BY <1>9, <1>11 DEF ForwardRest, RestIsInput
  <2> QED
    BY <1>3, <1>11, <2>1 DEF ForwardRest, QueueInput
<1> QED
  BY <1>8, <1>10, <1>11

LEMMA QuietTokens ==
  ASSUME SessionTypeOK, UNCHANGED clientVars, NEW k \in Conns, MonitorTask \/ Shutdown
  PROVE  Tokens(k)' <= Tokens(k)
<1>1. UNCHANGED <<queue, down, up>>
        /\ (UNCHANGED events \/ \E c : c = copied /\ c \in Contents /\ Post(ClipboardChanged(c)))
  BY DEF MonitorTask, LocalCopy, RelayCopy, Shutdown, wireVars, SessionTypeOK, ServerTypeOK
<1>2. /\ InQueue(k) \in Nat /\ OnTheDown(k) \in Nat
      /\ OnTheUp(k) \in Nat /\ InEvents(k) \in Nat
  BY PlacesAreNat
<1>3. InEvents(k)' = InEvents(k)
  <2>1. ASSUME NEW c \in Contents, Post(ClipboardChanged(c))
        PROVE  InEvents(k)' = InEvents(k)
    <3>1. ClipboardChanged(c) \in ServerEvent /\ ClipboardChanged(c) # Return(k)
      BY DEF ServerEvent, ClipboardChanged, Return, ClientMessage
    <3> QED
      BY <1>2, <2>1, <3>1, ToEvents DEF OneIf
  <2> QED
    BY <1>1, <2>1, QueueAndDown
<1> QED
  BY <1>1, <1>2, <1>3, QueueAndDown, BothWays

-----------------------------------------------------------------------------
(* What a step does to the tokens of k: the clients' steps.                *)

LEMMA PlacesStayNat ==
  ASSUME SessionTypeOK', NEW k \in Conns
  PROVE  /\ OnTheDown(k)' \in Nat /\ InInbox(k)' \in Nat
         /\ InControl(k)' \in {0, 1} /\ OnTheUp(k)' \in Nat
<1>1. down'[k] \in Seq(ToClient) /\ inbox'[k] \in Seq(ToClient) /\ up'[k] \in Seq(ToServer)
  BY DEF SessionTypeOK, ServerTypeOK, WireTypeOK, ClientTypeOK
<1>2. Count(down'[k], "SwitchToClient") \in Nat /\ Count(inbox'[k], "SwitchToClient") \in Nat
  BY <1>1, Counting
<1>3. Count(up'[k], "SwitchToServer") \in Nat
  BY <1>1, Counting
<1> QED
  BY <1>2, <1>3 DEF OnTheDown, InInbox, InControl, OnTheUp, OneIf

\* The places at the client's end: what is read from the socket goes to the
\* inbox, what is taken from there can make the client active, and it no longer
\* is when it hands control back.
LEMMA NearTokens ==
  ASSUME SessionTypeOK, SessionTypeOK', NEW k \in Conns, UNCHANGED <<queue, events>>,
         OnTheDown(k)' + InInbox(k)' + InControl(k)' + OnTheUp(k)'
           <= OnTheDown(k) + InInbox(k) + InControl(k) + OnTheUp(k)
  PROVE  Tokens(k)' <= Tokens(k)
<1>1. InQueue(k)' = InQueue(k) /\ InEvents(k)' = InEvents(k)
  BY QueueAndDown
<1>2. /\ InQueue(k) \in Nat /\ OnTheDown(k) \in Nat /\ InInbox(k) \in Nat
      /\ InControl(k) \in Nat /\ OnTheUp(k) \in Nat /\ InEvents(k) \in Nat
  BY PlacesAreNat
<1>3. /\ OnTheDown(k)' \in Nat /\ InInbox(k)' \in Nat
      /\ InControl(k)' \in Nat /\ OnTheUp(k)' \in Nat
  BY PlacesStayNat
<1>4. /\ Tokens(k) = (InQueue(k) + OnTheDown(k) + InInbox(k)) + InControl(k)
                        + (OnTheUp(k) + InEvents(k))
      /\ Tokens(k)' = (InQueue(k)' + OnTheDown(k)' + InInbox(k)') + InControl(k)'
                         + (OnTheUp(k)' + InEvents(k)')
  BY TokensAreInPlaces
<1> QED
  BY <1>1, <1>2, <1>3, <1>4

\* The head of the inbox is applied.
LEMMA FromInbox ==
  ASSUME SessionTypeOK, NEW k \in Conns, NEW m, TakeMessage(k, m)
  PROVE  InInbox(k) = InInbox(k)' + OneIf(m.type = "SwitchToClient")
<1>1. /\ inbox[k] \in Seq(ToClient) /\ inbox[k] # << >> /\ m = Head(inbox[k])
      /\ inbox'[k] = Tail(inbox[k])
  BY DEF SessionTypeOK, ClientTypeOK, TakeMessage
<1>2. Count(inbox[k], "SwitchToClient")
        = Count(Tail(inbox[k]), "SwitchToClient") + OneIf(Head(inbox[k]).type = "SwitchToClient")
  BY <1>1, Counting
<1> QED
  BY <1>1, <1>2 DEF InInbox

LEMMA ClientTokens ==
  ASSUME SessionTypeOK, SessionTypeOK', UNCHANGED <<queue, events>>,
         NEW k \in Conns, ClientInv(k), ClientStep(k)
  PROVE  Tokens(k)' <= Tokens(k)
<1>1. /\ OnTheDown(k) \in Nat /\ InInbox(k) \in Nat
      /\ InControl(k) \in {0, 1} /\ OnTheUp(k) \in Nat
      /\ OnTheDown(k)' \in Nat /\ InInbox(k)' \in Nat
      /\ InControl(k)' \in {0, 1} /\ OnTheUp(k)' \in Nat
  BY PlacesAreNat, PlacesStayNat
<1>2. /\ UNCHANGED down => OnTheDown(k)' = OnTheDown(k)
      /\ UNCHANGED up => OnTheUp(k)' = OnTheUp(k)
      /\ UNCHANGED inbox => InInbox(k)' = InInbox(k)
      /\ UNCHANGED active => InControl(k)' = InControl(k)
  BY DEF OnTheDown, OnTheUp, InInbox, InControl
<1>3. CASE UNCHANGED <<down, up, inbox, active>>
  BY <1>1, <1>2, <1>3, NearTokens
<1>4. ASSUME NEW m \in ToServer, ClientWrites(k, m), m.type # "SwitchToServer",
             UNCHANGED <<down, inbox, active>>
      PROVE  Tokens(k)' <= Tokens(k)
  <2>1. OnTheUp(k)' = OnTheUp(k)
    BY <1>1, <1>4, WriteUp DEF OneIf
  <2> QED
    BY <1>1, <1>2, <1>4, <2>1, NearTokens
<1>5. ASSUME down[k] # << >>, down' = [down EXCEPT ![k] = Tail(@)],
             UNCHANGED <<up, inbox, active>>
      PROVE  Tokens(k)' <= Tokens(k)
  <2>1. /\ OnTheDown(k) = OnTheDown(k)' + OneIf(Head(down[k]).type = "SwitchToClient")
        /\ OneIf(Head(down[k]).type = "SwitchToClient") \in {0, 1}
    BY <1>5, ReadDown DEF OneIf
  <2> QED
    BY <1>1, <1>2, <1>5, <2>1, NearTokens
<1>6. ASSUME Exit(k) PROVE Tokens(k)' <= Tokens(k)
  <2>1. /\ inbox'[k] = << >> /\ active'[k] = FALSE /\ UNCHANGED up
        /\ down'[k] = down[k] \/ down'[k] = << >>
    <3>1. inbox'[k] = << >> /\ active'[k] = FALSE
      BY <1>6 DEF Exit, SessionTypeOK, ClientTypeOK
    <3>2. UNCHANGED up /\ (down'[k] = down[k] \/ down'[k] = << >>)
      BY <1>6 DEF Exit, PeerCloses, wireVars, SessionTypeOK, ServerTypeOK, WireTypeOK
    <3> QED
      BY <3>1, <3>2
  <2>2. Count(<< >>, "SwitchToClient") = 0
    BY Counting, << >> \in Seq(ToClient)
  <2>3. /\ InInbox(k)' = 0 /\ InControl(k)' = 0
        /\ OnTheDown(k)' = OnTheDown(k) \/ OnTheDown(k)' = 0
    BY <2>1, <2>2 DEF InInbox, InControl, OnTheDown, OneIf
  <2> QED
    BY <1>1, <1>2, <2>1, <2>3, NearTokens
<1>7. CASE ReceiverForwards(k)
  <2> DEFINE m == Head(down[k])
  <2>1. /\ down[k] # << >> /\ down' = [down EXCEPT ![k] = Tail(@)]
        /\ inbox'[k] = Append(inbox[k], m) /\ UNCHANGED <<up, active>>
    BY <1>7 DEF ReceiverForwards, SessionTypeOK, ClientTypeOK
  <2>2. m \in ToClient /\ OnTheDown(k) = OnTheDown(k)' + OneIf(m.type = "SwitchToClient")
    BY <2>1, ReadDown
  <2>3. inbox[k] \in Seq(ToClient)
    BY DEF SessionTypeOK, ClientTypeOK
  <2> HIDE DEF m
  <2>4. Count(Append(inbox[k], m), "SwitchToClient")
          = Count(inbox[k], "SwitchToClient") + OneIf(m.type = "SwitchToClient")
    BY <2>2, <2>3, Counting
  <2>5. InInbox(k)' = InInbox(k) + OneIf(m.type = "SwitchToClient")
    BY <2>1, <2>4 DEF InInbox
  <2>6. OneIf(m.type = "SwitchToClient") \in {0, 1}
    BY DEF OneIf
  <2> QED
    BY <1>1, <1>2, <2>1, <2>2, <2>5, <2>6, NearTokens
<1>8. CASE ClientApplies(k)
  <2> DEFINE m == Head(inbox[k])
  <2>1. TakeMessage(k, m) /\ (UNCHANGED active \/ m.type = "SwitchToClient")
    BY <1>8 DEF ClientApplies, ApplySwitch, ApplyClipboard, ApplyKeyOrButton,
       ApplyMove, ApplyOther
  <2> HIDE DEF m
  <2>2. InInbox(k) = InInbox(k)' + OneIf(m.type = "SwitchToClient")
    BY <2>1, FromInbox
  <2>3. UNCHANGED <<down, up>>
    BY <2>1 DEF TakeMessage, wireVars
  <2> QED
    BY <1>1, <1>2, <2>1, <2>2, <2>3, NearTokens DEF OneIf
<1>9. CASE ControlHandedBack(k)
  <2>1. active[k] /\ ~active'[k] /\ ClientWrites(k, SwitchToServerMsg)
          /\ UNCHANGED <<down, inbox>>
    BY <1>9 DEF ControlHandedBack, ClientInv, SessionTypeOK, ClientTypeOK
  <2>2. InControl(k) = 1 /\ InControl(k)' = 0
    BY <2>1 DEF InControl, OneIf
  <2>3. OnTheUp(k)' <= OnTheUp(k) + 1
    BY <1>1, <2>1, WriteUp DEF ToServer, OneIf
  <2> QED
    BY <1>1, <1>2, <2>1, <2>2, <2>3, NearTokens
<1>10. CASE ClientSaysHello(k) \/ ClientSaysName(k) \/ Heartbeat(k)
  <2>1. /\ \/ ClientWrites(k, NoiseHelloMsg(TRUE)) \/ ClientWrites(k, HandshakeMsg)
           \/ ClientWrites(k, HeartbeatMsg)
        /\ UNCHANGED <<down, inbox, active>>
    BY <1>10 DEF ClientSaysHello, ClientSaysName, ClientSends, Heartbeat, clientVars
  <2>2. NoiseHelloMsg(TRUE) \in ToServer /\ NoiseHelloMsg(TRUE).type # "SwitchToServer"
    BY DEF ToServer, NoiseHelloMsg
  <2>3. HandshakeMsg \in ToServer /\ HandshakeMsg.type # "SwitchToServer"
    BY DEF ToServer, HandshakeMsg
  <2>4. HeartbeatMsg \in ToServer /\ HeartbeatMsg.type # "SwitchToServer"
    BY DEF ToServer, HeartbeatMsg
  <2> QED
    BY <1>4, <2>1, <2>2, <2>3, <2>4
<1>11. CASE SendCopy(k)
  <2>1. noticed[k] \in Contents
    BY <1>11 DEF SendCopy, SessionTypeOK, ClientTypeOK
  <2>2. ClipboardMsg(noticed[k]) \in ToServer /\ ClipboardMsg(noticed[k]).type # "SwitchToServer"
    BY <2>1 DEF ToServer, ClipboardMsg
  <2> QED
    BY <1>4, <1>11, <2>2 DEF SendCopy
<1>12. CASE ClientGetsReply(k) \/ ClientStarts(k)
  BY <1>5, <1>12 DEF ClientGetsReply, ClientStarts, ClientReads
<1>13. CASE \/ Starts(k) \/ (LinkLost(k) /\ UNCHANGED clientVars)
            \/ ReceiverEnds(k) \/ MotionInjected(k) \/ GraceEnds(k) \/ PushRipens(k)
            \/ \E c \in Contents : ClientCopy(k, c)
  BY <1>3, <1>13 DEF Starts, ClientConnects, Connect, LinkLost, ReceiverEnds,
     MotionInjected, GraceEnds, PushRipens, ClientCopy, wireVars, clientVars
<1>14. CASE ClientGivesUp(k) \/ ConnectionLost(k) \/ ClientStops(k)
  BY <1>6, <1>14 DEF ClientGivesUp, ConnectionLost, ClientStops
<1>15. CASE Starts(k) \/ ClientStops(k) \/ (LinkLost(k) /\ UNCHANGED clientVars)
  BY <1>13, <1>14, <1>15
<1>16. CASE ClientTask(k)
  BY <1>7, <1>8, <1>9, <1>10, <1>11, <1>12, <1>13, <1>14, <1>16 DEF ClientTask
<1> QED
  BY <1>15, <1>16 DEF ClientStep

\* Another client's step does nothing to k.
LEMMA OtherTokens ==
  ASSUME SessionTypeOK, UNCHANGED <<queue, events>>,
         NEW j \in Conns, ClientStep(j), NEW k \in Conns, k # j
  PROVE  Tokens(k)' = Tokens(k)
<1>1. UNCHANGED <<up[k], down[k], inbox[k], active[k]>>
  BY OthersStay DEF clientAt
<1> QED
  BY <1>1 DEF Tokens, HandedOver, HandedBack

-----------------------------------------------------------------------------
(* Who is served.                                                          *)

\* The main loop can send to the client of connection k.
Serves(k) == running /\ clients[Owner[k]] = k /\ writer[k] # "done"

\* Only the main loop registers, and only a connection that is announced.
LEMMA TableChanges ==
  ASSUME [Next]_vars
  PROVE  \/ UNCHANGED clients
         \/ \E j \in Conns : HandleNewClient(j)
         \/ \E n \in Names : HandleDisconnect(n)
<1> USE DEF vars, serverVars
<1>1. ASSUME NEW j \in Conns, ConnectionTask(j) PROVE UNCHANGED clients
  BY <1>1 DEF ConnectionTask, Accept, NoiseHandshake, AppHandshake, HandshakeFails,
     Register, WriterSend, WriterFails, WriterStops, WriterReports,
     ReaderForwards, ReaderReports
<1>2. ASSUME NEW j \in Conns, PeerStep(j) PROVE UNCHANGED clients
  BY <1>2 DEF PeerStep
<1>3. MoveInput \/ ForwardRest \/ Shutdown \/ MonitorTask \/ (\E m \in Inputs : OtherInput(m))
        => UNCHANGED clients
  BY DEF MoveInput, MoveLocal, SwitchTo, MoveAccumulates, MoveFlushes, OtherInput,
     FlushMotionFirst, ForwardNow, ForwardRest, QueueInput, Shutdown, MonitorTask,
     LocalCopy, RelayCopy
<1>4. CASE HandleEvent
  BY <1>4 DEF HandleEvent, HandleSwitchToServer, HandleClipboardData,
     HandleOtherMessage, BroadcastClipboard
<1> QED
  BY <1>1, <1>2, <1>3, <1>4 DEF Next, ServerStep

\* Once up, a connection stays up, and its writer does not start again; and a
\* server that stopped does not either.
LEMMA TasksOnlyEnd ==
  ASSUME SessionTypeOK, [Next]_vars, NEW k \in Conns, stage[k] = "up"
  PROVE  /\ stage'[k] = "up"
         /\ writer'[k] # "done" => writer[k] # "done"
         /\ running' => running
         /\ Announced(k)' => Announced(k)
<1> USE DEF vars, serverVars, taskVars, SessionTypeOK
<1>1. ASSUME NEW e \in {ClientDisconnected(Owner[j]) : j \in Conns}, Post(e)
      PROVE  Announced(k)' => Announced(k)
  BY <1>1, Posted, EventsDiffer DEF Announced
<1>2. UNCHANGED events => (Announced(k)' => Announced(k))
  BY DEF Announced
<1>3. ASSUME NEW j \in Conns, ConnectionTask(j)
      PROVE  /\ stage'[k] = "up"
             /\ writer'[k] # "done" => writer[k] # "done"
             /\ running' => running
             /\ Announced(k)' => Announced(k)
  <2>1. CASE Accept(j) \/ NoiseHandshake(j) \/ AppHandshake(j) \/ HandshakeFails(j)
    BY <1>2, <2>1 DEF Accept, NoiseHandshake, AppHandshake, HandshakeFails, ServerTypeOK
  <2>2. CASE Register(j)
    <3>1. j # k /\ Post(NewClient(j)) /\ NewClient(j) # NewClient(k)
      BY <2>2, EventsDiffer DEF Register
    <3>2. Announced(k)' => Announced(k)
      BY <3>1, Posted DEF Announced
    <3> QED
      BY <2>2, <3>1, <3>2 DEF Register, ServerTypeOK
  <2>3. CASE WriterSend(j) \/ WriterFails(j) \/ WriterStops(j)
    BY <1>2, <2>3 DEF WriterSend, WriterFails, WriterStops, ServerTypeOK
  <2>4. CASE WriterReports(j) \/ ReaderReports(j)
    BY <1>1, <2>4 DEF WriterReports, ReaderReports, ServerTypeOK
  <2>5. CASE ReaderForwards(j)
    <3>1. PICK m : Post(ClientMessage(Owner[j], m))
      BY <2>5 DEF ReaderForwards
    <3>2. Announced(k)' => Announced(k)
      BY <3>1, Posted, EventsDiffer DEF Announced
    <3> QED
      BY <2>5, <3>2 DEF ReaderForwards
  <2> QED
    BY <1>3, <2>1, <2>2, <2>3, <2>4, <2>5 DEF ConnectionTask
<1>4. CASE HandleEvent
  <2>1. PICK e : Take(e)
    BY <1>4 DEF HandleEvent, HandleNewClient, HandleSwitchToServer, HandleClipboardData,
       HandleOtherMessage, HandleDisconnect, BroadcastClipboard
  <2>2. Announced(k)' => Announced(k)
    BY <2>1, Taken DEF Announced
  <2>3. UNCHANGED <<running, stage, writer>>
    BY <1>4 DEF HandleEvent, HandleNewClient, HandleSwitchToServer,
       HandleClipboardData, HandleOtherMessage, HandleDisconnect, BroadcastClipboard
  <2> QED
    BY <2>2, <2>3
<1>5. CASE MoveInput \/ ForwardRest \/ Shutdown \/ (\E c \in Contents : LocalCopy(c))
             \/ (\E m \in Inputs : OtherInput(m))
  BY <1>2, <1>5 DEF MoveInput, MoveLocal, SwitchTo, MoveAccumulates, MoveFlushes, OtherInput,
     FlushMotionFirst, ForwardNow, ForwardRest, QueueInput, Shutdown, LocalCopy
<1>6. CASE RelayCopy
  <2>1. Announced(k)' => Announced(k)
    BY <1>6, Posted, EventsDiffer DEF RelayCopy, Announced
  <2> QED
    BY <1>6, <2>1 DEF RelayCopy
<1>7. CASE (\E j \in Conns : PeerStep(j)) \/ UNCHANGED vars
  BY <1>2, <1>7 DEF PeerStep
<1> QED
  BY <1>3, <1>4, <1>5, <1>6, <1>7 DEF Next, ServerStep, MonitorTask

LEMMA ServedBefore ==
  ASSUME WireAssumption, SessionTypeOK, [Next]_vars, NEW k \in Conns,
         stage[k] = "up", ~Announced(k), Serves(k)'
  PROVE  Serves(k)
<1>1. running /\ writer[k] # "done" /\ clients'[Owner[k]] = k
  BY TasksOnlyEnd DEF Serves
<1>2. clients \in [Names -> Conns \cup {NoConn}] /\ NoConn \notin Conns
        /\ Owner[k] \in Names
  BY ServerAssumption DEF SessionTypeOK, ServerTypeOK, ServerAssumption, WireAssumption
<1>3. ASSUME NEW j \in Conns, HandleNewClient(j) PROVE clients[Owner[k]] = k
  <2>1. j # k
    BY <1>3, Taken DEF HandleNewClient, Announced, SessionTypeOK
  <2> QED
    BY <1>1, <1>2, <1>3, <2>1 DEF HandleNewClient
<1>4. ASSUME NEW n \in Names, HandleDisconnect(n) PROVE clients[Owner[k]] = k
  BY <1>1, <1>2, <1>4 DEF HandleDisconnect
<1> QED
  BY <1>1, <1>3, <1>4, TableChanges DEF Serves

\* A client that is served stays the active one until its return is handled.
LEMMA ActiveWhileServed ==
  ASSUME WireAssumption, ServerAssumption, SessionTypeOK, [Next]_vars,
         NEW k \in Conns, Serves(k), Serves(k)', active_client = Owner[k]
  PROVE  active_client' = Owner[k] \/ (HandleEvent /\ HandleSwitchToServer(Owner[k]))
<1> USE DEF vars, serverVars, controlVars, cursorVars
<1>1. /\ Owner[k] \in Names /\ Owner[k] # NoName /\ k # NoConn
      /\ clients \in [Names -> Conns \cup {NoConn}]
  BY DEF SessionTypeOK, ServerTypeOK, ServerAssumption, WireAssumption
<1>2. Reachable(active_client)
  BY <1>1 DEF Serves, Reachable, Registered
<1>3. ASSUME NEW j \in Conns, ConnectionTask(j) \/ PeerStep(j) PROVE UNCHANGED active_client
  BY <1>3, TaskEffect DEF Quiet
<1>4. MonitorTask \/ Shutdown => UNCHANGED active_client
  BY DEF MonitorTask, LocalCopy, RelayCopy, Shutdown
<1>5. MoveInput \/ ForwardRest \/ (\E m \in Inputs : OtherInput(m)) => UNCHANGED active_client
  BY <1>1, <1>2 DEF MoveInput, MoveLocal, SwitchTo, MoveAccumulates, MoveFlushes,
     OtherInput, FlushMotionFirst, ForwardNow, ForwardRest, QueueInput
<1>6. CASE HandleEvent
  <2>1. ASSUME NEW n \in Names, HandleDisconnect(n) PROVE UNCHANGED active_client
    <3>1. clients'[Owner[k]] = k /\ clients' = [clients EXCEPT ![n] = NoConn]
      BY <2>1 DEF Serves, HandleDisconnect
    <3>2. n # Owner[k]
      BY <1>1, <3>1
    <3> QED
      BY <2>1, <3>2 DEF HandleDisconnect, Deactivate
  <2>2. ASSUME NEW n \in Names, HandleSwitchToServer(n), n # Owner[k]
        PROVE  UNCHANGED active_client
    BY <2>2 DEF HandleSwitchToServer, Deactivate
  <2> QED
    BY <1>6, <2>1, <2>2 DEF HandleEvent, HandleNewClient, HandleClipboardData,
       HandleOtherMessage, BroadcastClipboard
<1> QED
  BY <1>3, <1>4, <1>5, <1>6 DEF Next, ServerStep

-----------------------------------------------------------------------------
(* The invariant.                                                          *)

\* The inductive invariant.  That there is one token needs the rest: the server
\* makes one only while nobody is active, and a client it can reach and that has
\* a token is the active one.  A connection that is still to be registered has
\* none, so that it does not bring one when it is.
TokenAt(k) ==
  /\ Tokens(k) <= 1
  /\ Tokens(k) > 0 => stage[k] = "up" /\ ~Announced(k)
  /\ Tokens(k) > 0 /\ Serves(k) => active_client = Owner[k]

TokenInv == RestIsInput /\ \A k \in Conns : TokenAt(k)

LEMMA TokensNat ==
  ASSUME SessionTypeOK, NEW k \in Conns
  PROVE  Tokens(k) \in Nat
<1>1. /\ InQueue(k) \in Nat /\ OnTheDown(k) \in Nat /\ InInbox(k) \in Nat
      /\ InControl(k) \in Nat /\ OnTheUp(k) \in Nat /\ InEvents(k) \in Nat
  BY PlacesAreNat
<1>2. Tokens(k) = (InQueue(k) + OnTheDown(k) + InInbox(k)) + InControl(k)
                    + (OnTheUp(k) + InEvents(k))
  BY TokensAreInPlaces
<1> QED
  BY <1>1, <1>2

LEMMA TokensStayNat ==
  ASSUME SessionTypeOK', NEW k \in Conns
  PROVE  Tokens(k)' \in Nat
<1>1. /\ queue'[k] \in Seq(Forwarded) /\ down'[k] \in Seq(ToClient)
      /\ inbox'[k] \in Seq(ToClient) /\ up'[k] \in Seq(ToServer)
      /\ events' \in Seq(ServerEvent)
  BY DEF SessionTypeOK, ServerTypeOK, WireTypeOK, ClientTypeOK
<1>2. InQueue(k)' \in Nat
  BY <1>1, Counting DEF InQueue
<1>3. InEvents(k)' \in Nat
  <2>1. Among(events', {Return(k)}) \in Nat
    BY <1>1, AmongNat
  <2>2. Return(k)' = Return(k)
    BY DEF Return
  <2> QED
    BY <2>1, <2>2 DEF InEvents
<1>4. Tokens(k)' = (InQueue(k)' + OnTheDown(k)' + InInbox(k)') + InControl(k)'
                     + (OnTheUp(k)' + InEvents(k)')
  BY TokensAreInPlaces
<1>5. /\ OnTheDown(k)' \in Nat /\ InInbox(k)' \in Nat
      /\ InControl(k)' \in Nat /\ OnTheUp(k)' \in Nat
  BY PlacesStayNat
<1> QED
  BY <1>2, <1>3, <1>4, <1>5

\* Every step makes no token for k, or gives it control; and it takes one when
\* its return is handled.
LEMMA TokenFlow ==
  ASSUME WireAssumption, ServerAssumption, OneConnectionPerName, SessionInv,
         SessionTypeOK', NamesMatch, RestIsInput, [SessionNext]_sessionVars,
         NEW k \in Conns
  PROVE  /\ \/ Tokens(k)' <= Tokens(k)
            \/ Gives(k, Owner[k]) /\ Tokens(k)' = Tokens(k) + 1
         /\ HandleEvent /\ HandleSwitchToServer(Owner[k]) => Tokens(k)' < Tokens(k)
<1>1. SessionTypeOK /\ Tokens(k) \in Nat
  BY TokensNat DEF SessionInv
<1>2. CASE HandleEvent /\ UNCHANGED clientVars
  BY <1>1, <1>2, EventTokens
<1>3. ~HandleEvent \/ UNCHANGED clientVars
  <2>1. HandleEvent => events' # events
    <3>1. HandleEvent => \E e : Take(e)
      BY DEF HandleEvent, HandleNewClient, HandleSwitchToServer, HandleClipboardData,
         HandleOtherMessage, HandleDisconnect, BroadcastClipboard
    <3> QED
      BY <1>1, <3>1, Taken DEF SessionTypeOK
  <2> QED
    BY <2>1 DEF SessionNext, sessionVars, serverVars
<1>4. ASSUME ~HandleEvent
      PROVE  \/ Tokens(k)' <= Tokens(k)
             \/ Gives(k, Owner[k]) /\ Tokens(k)' = Tokens(k) + 1
  <2>1. CASE ServerMoves /\ UNCHANGED clientVars
    BY <1>1, <1>4, <2>1, InputTokens, QuietTokens, TaskTokens DEF ServerMoves
  <2>2. ASSUME NEW m \in Inputs, OtherInput(m), UNCHANGED clientVars
        PROVE  \/ Tokens(k)' <= Tokens(k)
               \/ Gives(k, Owner[k]) /\ Tokens(k)' = Tokens(k) + 1
    BY <1>1, <2>2, InputTokens
  <2>3. CASE UNCHANGED <<wireVars, serverVars, clientVars>>
    <3>1. Tokens(k)' = Tokens(k)
      BY <2>3 DEF wireVars, serverVars, clientVars, Tokens, HandedOver, HandedBack
    <3> QED
      BY <1>1, <3>1
  <2>4. ASSUME NEW j \in Conns, ClientStep(j), UNCHANGED serverVars
        PROVE  Tokens(k)' <= Tokens(k)
    <3>1. UNCHANGED <<queue, events>>
      BY <2>4 DEF serverVars
    <3>2. CASE j = k
      BY <1>1, <2>4, <3>1, <3>2, ClientTokens DEF SessionInv
    <3>3. CASE j # k
      <4>1. Tokens(k)' = Tokens(k)
        BY <1>1, <2>4, <3>1, <3>3, OtherTokens
      <4> QED
        BY <1>1, <4>1
    <3> QED
      BY <3>2, <3>3
  <2> QED
    BY <2>1, <2>2, <2>3, <2>4 DEF SessionNext, UserPresses, UserScrolls, ClientStep,
       sessionVars
<1> QED
  BY <1>2, <1>3, <1>4

LEMMA RestStaysInput ==
  ASSUME SessionTypeOK, RestIsInput, [Next]_vars
  PROVE  RestIsInput'
<1> USE DEF RestIsInput
<1>1. CASE UNCHANGED rest
  BY <1>1
<1>2. CASE (\E k \in Conns : ConnectionTask(k) \/ PeerStep(k)) \/ MonitorTask \/ UNCHANGED vars
  BY <1>1, <1>2, TaskEffect DEF Quiet
<1>3. CASE HandleEvent
  BY <1>1, <1>3 DEF HandleEvent, HandleNewClient, HandleSwitchToServer,
     HandleClipboardData, HandleOtherMessage, HandleDisconnect, BroadcastClipboard
<1>4. CASE MoveInput \/ Shutdown
  BY <1>1, <1>4 DEF MoveInput, MoveLocal, SwitchTo, MoveAccumulates, MoveFlushes, Shutdown
<1>5. CASE ForwardRest
  BY <1>5 DEF ForwardRest
<1>6. ASSUME NEW m \in Inputs, OtherInput(m) PROVE RestIsInput'
  BY <1>6 DEF OtherInput, FlushMotionFirst, ForwardNow
<1> QED
  BY <1>2, <1>3, <1>4, <1>5, <1>6 DEF Next, ServerStep

LEMMA TokenStart ==
  ASSUME WireAssumption, ServerAssumption, SessionInit
  PROVE  TokenInv
<1>1. ASSUME NEW k \in Conns PROVE Tokens(k) = 0
  <2>1. /\ queue[k] = << >> /\ down[k] = << >> /\ inbox[k] = << >> /\ up[k] = << >>
        /\ events = << >> /\ active[k] = FALSE
    BY DEF SessionInit, WireInit, ServerInit, ClientInit
  <2>2. \A type : Count(<< >>, type) = 0
    BY Counting, << >> \in Seq(Forwarded)
  <2>3. InEvents(k) = 0
    BY <2>1, AmongEmpty DEF InEvents
  <2>4. /\ InQueue(k) = 0 /\ OnTheDown(k) = 0 /\ InInbox(k) = 0 /\ InControl(k) = 0
        /\ OnTheUp(k) = 0
    BY <2>1, <2>2 DEF InQueue, OnTheDown, InInbox, InControl, OnTheUp, OneIf
  <2>5. Tokens(k) = (InQueue(k) + OnTheDown(k) + InInbox(k)) + InControl(k)
                      + (OnTheUp(k) + InEvents(k))
    BY TokensAreInPlaces
  <2> QED
    BY <2>3, <2>4, <2>5
<1>2. RestIsInput
  BY DEF SessionInit, ServerInit, RestIsInput
<1> QED
  BY <1>1, <1>2 DEF TokenInv, TokenAt

LEMMA TokenStep ==
  ASSUME WireAssumption, ServerAssumption, SessionAssumption, OneConnectionPerName,
         SessionInv, SessionInv', ReportInv, TokenInv, [SessionNext]_sessionVars
  PROVE  TokenInv'
<1>1. [Next]_vars /\ SessionTypeOK /\ SessionTypeOK'
  BY SessionMaps DEF SessionInv
<1>2. RestIsInput'
  BY <1>1, RestStaysInput DEF TokenInv
<1>3. ASSUME NEW k \in Conns PROVE TokenAt(k)'
  <2>1. /\ TokenAt(k) /\ Tokens(k) \in Nat /\ Tokens(k)' \in Nat
    BY <1>1, TokensNat, TokensStayNat DEF TokenInv
  <2>2. /\ \/ Tokens(k)' <= Tokens(k)
           \/ Gives(k, Owner[k]) /\ Tokens(k)' = Tokens(k) + 1
        /\ HandleEvent /\ HandleSwitchToServer(Owner[k]) => Tokens(k)' < Tokens(k)
    BY <1>1, TokenFlow DEF TokenInv, ReportInv
  <2>3. CASE Gives(k, Owner[k]) /\ Tokens(k)' = Tokens(k) + 1
    <3>1. stage[k] = "up" /\ ~Announced(k)
      BY <2>3 DEF Gives, ReportInv, NotYetUp, Once
    <3>2. stage'[k] = "up" /\ ~Announced(k)' /\ active_client' = Owner[k]
      BY <2>3, <3>1 DEF Gives, Announced
    <3>3. Owner[k] # NoName
      BY DEF WireAssumption, ServerAssumption
    <3>4. Tokens(k) = 0
      BY <2>1, <2>3, <3>3 DEF TokenAt, Serves, Gives
    <3>5. Tokens(k)' <= 1
      BY <2>3, <3>4
    <3> QED
      BY <3>2, <3>5 DEF TokenAt
  <2>4. CASE Tokens(k)' <= Tokens(k)
    <3>1. Tokens(k)' <= 1
      BY <2>1, <2>4 DEF TokenAt
    <3>2. ASSUME Tokens(k)' > 0
          PROVE  /\ stage'[k] = "up" /\ ~Announced(k)'
                 /\ Serves(k)' => active_client' = Owner[k]
      <4>1. Tokens(k) = 1 /\ Tokens(k)' = 1
        BY <2>1, <2>4, <3>1, <3>2 DEF TokenAt
      <4>2. stage[k] = "up" /\ ~Announced(k)
        BY <2>1, <4>1 DEF TokenAt
      <4>3. stage'[k] = "up" /\ ~Announced(k)'
        BY <1>1, <4>2, TasksOnlyEnd
      <4>4. ASSUME Serves(k)' PROVE active_client' = Owner[k]
        <5>1. Serves(k)
          BY <1>1, <4>2, <4>4, ServedBefore
        <5>2. active_client = Owner[k]
          BY <2>1, <4>1, <5>1 DEF TokenAt
        <5>3. ~(HandleEvent /\ HandleSwitchToServer(Owner[k]))
          BY <2>2, <4>1
        <5> QED
          BY <1>1, <4>4, <5>1, <5>2, <5>3, ActiveWhileServed
      <4> QED
        BY <4>3, <4>4
    <3> QED
      BY <3>1, <3>2 DEF TokenAt
  <2> QED
    BY <2>2, <2>3, <2>4
<1> QED
  BY <1>2, <1>3 DEF TokenInv

LEMMA TokenInvariant == OneConnectionPerName => (SessionSpec => []TokenInv)
<1> SUFFICES ASSUME OneConnectionPerName PROVE SessionSpec => []TokenInv
  OBVIOUS
<1>1. SessionInit => TokenInv
  BY TokenStart, WireAssumption, ServerAssumption
<1>2. SessionInv /\ SessionInv' /\ ReportInv /\ TokenInv /\ [SessionNext]_sessionVars
        => TokenInv'
  BY TokenStep, WireAssumption, ServerAssumption, SessionAssumption
<1>3. SessionSpec => []ReportInv
  BY SessionImplementsServer, ReportInvariant, PTL DEF ImplementsServer
<1> QED
  BY <1>1, <1>2, <1>3, SessionInvariant, PTL DEF SessionSpec

-----------------------------------------------------------------------------
(* The theorems.                                                           *)

\* Control is never duplicated, however switches, returns, lost connections and
\* refused messages follow each other: for any number of clients and any sizes of
\* the queues there is at most one token per client.
THEOREM ControlIsNeverDuplicated ==
  OneConnectionPerName => (SessionSpec => []ControlIsOneToken)
<1>1. TokenInv => ControlIsOneToken
  BY DEF TokenInv, TokenAt, ControlIsOneToken
<1> QED
  BY <1>1, TokenInvariant, PTL

\* A registered client that believes to be in control is the one the devices are
\* grabbed for, also while its predecessor's messages are still on their way.
THEOREM BelievesWhatIs ==
  OneConnectionPerName => (SessionSpec => []ActiveMeansActive)
<1> SUFFICES ASSUME OneConnectionPerName PROVE SessionSpec => []ActiveMeansActive
  OBVIOUS
<1>1. SessionInv /\ TokenInv /\ ControlInv => ActiveMeansActive
  <2> SUFFICES ASSUME SessionInv, TokenInv, ControlInv,
                      NEW k \in Conns, active[k], Serves(k)
               PROVE  active_client = Owner[k] /\ grabbed
    BY DEF ActiveMeansActive, Serves
  <2>1. /\ InQueue(k) \in Nat /\ OnTheDown(k) \in Nat /\ InInbox(k) \in Nat
        /\ InControl(k) = 1 /\ OnTheUp(k) \in Nat /\ InEvents(k) \in Nat
    BY PlacesAreNat DEF SessionInv, InControl, OneIf
  <2>2. Tokens(k) = (InQueue(k) + OnTheDown(k) + InInbox(k)) + InControl(k)
                      + (OnTheUp(k) + InEvents(k))
    BY TokensAreInPlaces
  <2>3. Tokens(k) > 0
    BY <2>1, <2>2
  <2>4. active_client = Owner[k]
    BY <2>3 DEF TokenInv, TokenAt
  <2>5. Owner[k] # NoName
    BY WireAssumption, ServerAssumption DEF WireAssumption, ServerAssumption
  <2> QED
    BY <2>4, <2>5 DEF Serves, ControlInv, ControlConsistent
<1>2. SessionSpec => []ControlInv
  BY SessionImplementsServer, ControlInvariant, PTL DEF ImplementsServer
<1> QED
  BY <1>1, <1>2, SessionInvariant, TokenInvariant, PTL

-----------------------------------------------------------------------------
(* Without faults.                                                         *)

\* What holds of a connection while nothing fails and nobody is stopped: only a
\* handshake that fails ends it, and once it is up it is registered, or on its
\* way to be, with a writer that runs.
Healthy(k) ==
  /\ stage[k] # "failed" => ~shut[k] /\ ~eof[k] /\ link[k] \in {"none", "open"}
  /\ stage[k] # "idle" => link[k] # "none"
  /\ stage[k] = "up" => writer[k] = "run" /\ (clients[Owner[k]] = k \/ Announced(k))
  /\ \A i \in DOMAIN up[k] : up[k][i] # MalformedMsg

NoReports == \A n \in Names : \A i \in DOMAIN events : events[i] # ClientDisconnected(n)

Calm == running /\ NoReports /\ \A k \in Conns : Healthy(k)

\* A connection that is up works, and its tasks do not end.
LEMMA TasksGoOn ==
  ASSUME SessionInv, ReportInv, Calm, NEW k \in Conns
  PROVE  /\ ~WriterFails(k) /\ ~WriterStops(k) /\ ~WriterReports(k) /\ ~ReaderReports(k)
<1>1. /\ Healthy(k) /\ NotYetUp(k)
      /\ stage[k] = "failed" => stage[k] # "up"
  BY DEF Calm, ReportInv
<1>2. ~WriterReports(k)
  BY <1>1 DEF WriterReports, NotYetUp, Healthy
<1>3. ~WriterStops(k)
  BY <1>1 DEF WriterStops, TxAlive, Announced, NotYetUp, Healthy
<1>4. ~WriterFails(k)
  BY <1>1 DEF WriterFails, WriteMayFail, NotYetUp, Healthy
<1>5. ~ReaderReports(k)
  <2>1. up[k] # << >> => Head(up[k]) # MalformedMsg
    <3>1. up[k] \in Seq(ToServer)
      BY DEF SessionInv, SessionTypeOK, ServerTypeOK, WireTypeOK
    <3>2. up[k] # << >> => 1 \in DOMAIN up[k] /\ Head(up[k]) = up[k][1]
      BY <3>1
    <3> QED
      BY <1>1, <3>2 DEF Healthy
  <2> QED
    BY <1>1, <2>1 DEF ReaderReports, ReadFails, NotYetUp, Healthy
<1> QED
  BY <1>2, <1>3, <1>4, <1>5

\* What the writing and reading of a socket does to what is in it.
LEMMA NothingMalformed ==
  ASSUME SessionTypeOK, NEW k \in Conns, \A i \in DOMAIN up[k] : up[k][i] # MalformedMsg
  PROVE  /\ \A m : ServerReads(k, m) => \A i \in DOMAIN up'[k] : up'[k][i] # MalformedMsg
         /\ \A m \in ToServer \ {MalformedMsg} :
              ClientWrites(k, m) => \A i \in DOMAIN up'[k] : up'[k][i] # MalformedMsg
<1>1. up \in [Conns -> Seq(ToServer)] /\ up[k] \in Seq(ToServer)
  BY DEF SessionTypeOK, ServerTypeOK, WireTypeOK
<1>2. ASSUME NEW m, ServerReads(k, m), NEW i \in DOMAIN up'[k]
      PROVE  up'[k][i] # MalformedMsg
  <2>1. up[k] # << >> /\ up'[k] = Tail(up[k])
    BY <1>1, <1>2 DEF ServerReads
  <2>2. i + 1 \in DOMAIN up[k] /\ up'[k][i] = up[k][i + 1]
    BY <1>1, <1>2, <2>1
  <2> QED
    BY <2>2
<1>3. ASSUME NEW m \in ToServer \ {MalformedMsg}, ClientWrites(k, m),
             NEW i \in DOMAIN up'[k]
      PROVE  up'[k][i] # MalformedMsg
  <2>1. up'[k] = up[k] \/ up'[k] = Append(up[k], m)
    BY <1>1, <1>3 DEF ClientWrites, PeerWrites
  <2> QED
    BY <1>1, <1>3, <2>1
<1> QED
  BY <1>2, <1>3

LEMMA CalmTasks ==
  ASSUME WireAssumption, SessionInv, ReportInv, Calm, UNCHANGED clientVars,
         NEW j \in Conns, ConnectionTask(j)
  PROVE  Calm'
<1> USE DEF wireVars
<1>1. SessionTypeOK /\ running
  BY DEF SessionInv, Calm
<1>2. /\ stage \in [Conns -> Stages] /\ shut \in [Conns -> BOOLEAN]
      /\ writer \in [Conns -> {"none", "run", "ending", "done"}]
  BY <1>1 DEF SessionTypeOK, ServerTypeOK, WireTypeOK
<1>3. UNCHANGED <<running, clients, link, eof>>
  BY DEF ConnectionTask, Accept, NoiseHandshake, AppHandshake, HandshakeFails,
     Register, WriterSend, WriterFails, WriterStops, WriterReports,
     ReaderForwards, ReaderReports, clientVars
<1>4. \/ UNCHANGED events
      \/ Post(NewClient(j))
      \/ \E m : Post(ClientMessage(Owner[j], m))
  BY TasksGoOn DEF ConnectionTask, Accept, NoiseHandshake, AppHandshake, HandshakeFails,
     Register, WriterSend, ReaderForwards
<1>5. NoReports'
  BY <1>1, <1>4, Posted, EventsDiffer DEF Calm, NoReports, SessionTypeOK
<1>6. ASSUME NEW k \in Conns PROVE Healthy(k)'
  <2>1. Healthy(k) /\ NotYetUp(k)
    BY DEF Calm, ReportInv
  <2>2. Announced(k) => Announced(k)'
    BY <1>1, <1>4, Posted DEF Announced, SessionTypeOK
  <2>3. \/ up'[k] = up[k]
        \/ j = k /\ \E m : ServerReads(k, m)
    BY <1>1 DEF ConnectionTask, Accept, NoiseHandshake, AppHandshake, HandshakeFails,
       Register, WriterSend, WriterFails, WriterStops, WriterReports,
       ReaderForwards, ReaderReports, ServerReads, SessionTypeOK, ServerTypeOK, WireTypeOK
  <2>4. \A i \in DOMAIN up'[k] : up'[k][i] # MalformedMsg
    BY <1>1, <2>1, <2>3, NothingMalformed DEF Healthy
  <2>5. ASSUME UNCHANGED <<stage[k], shut[k], writer[k]>> PROVE Healthy(k)'
    BY <1>3, <2>1, <2>2, <2>4, <2>5 DEF Healthy
  <2>6. CASE j # k
    <3>1. UNCHANGED <<stage[k], shut[k], writer[k]>>
      BY <1>2, <2>6, TasksGoOn DEF ConnectionTask, Accept, NoiseHandshake, AppHandshake,
         HandshakeFails, Register, WriterSend, ReaderForwards, taskVars
    <3> QED
      BY <2>5, <3>1
  <2>7. CASE Accept(k)
    BY <1>2, <1>3, <2>1, <2>4, <2>7 DEF Accept, Healthy
  <2>8. CASE NoiseHandshake(k) \/ AppHandshake(k)
    BY <1>2, <1>3, <2>1, <2>4, <2>8 DEF NoiseHandshake, AppHandshake, Healthy
  <2>9. CASE HandshakeFails(k)
    BY <1>2, <1>3, <2>1, <2>4, <2>9 DEF HandshakeFails, Healthy
  <2>10. CASE Register(k)
    <3>1. Announced(k)'
      BY <1>1, <2>10, Posted DEF Register, Announced, SessionTypeOK
    <3> QED
      BY <1>2, <1>3, <2>1, <2>4, <2>10, <3>1 DEF Register, NotYetUp, Healthy
  <2>11. CASE WriterSend(k) \/ ReaderForwards(k)
    BY <2>5, <2>11 DEF WriterSend, ReaderForwards, taskVars
  <2> QED
    BY <2>6, <2>7, <2>8, <2>9, <2>10, <2>11, TasksGoOn DEF ConnectionTask
<1> QED
  BY <1>1, <1>3, <1>5, <1>6 DEF Calm

\* An event that is taken is no report; a NewClient registers its connection, and
\* replaces no other one of its name.
LEMMA CalmEvents ==
  ASSUME WireAssumption, ServerAssumption, OneConnectionPerName,
         SessionInv, Calm, UNCHANGED clientVars, HandleEvent
  PROVE  Calm'
<1> USE DEF wireVars
<1>1. ServerTypeOK /\ running
  BY DEF SessionInv, SessionTypeOK, Calm
<1>2. UNCHANGED <<running, stage, shut, link, writer, up, eof>>
  BY DEF HandleEvent, HandleNewClient, HandleSwitchToServer, HandleClipboardData,
     HandleOtherMessage, HandleDisconnect, BroadcastClipboard, taskVars, clientVars
<1>3. PICK e : Take(e) /\ ((UNCHANGED clients /\ \A k : e # NewClient(k))
                            \/ \E j \in Conns : HandleNewClient(j) /\ e = NewClient(j))
  <2>1. \A n \in Names : ~Take(ClientDisconnected(n))
    BY <1>1, Taken DEF Calm, NoReports
  <2>2. ASSUME NEW j \in Conns, HandleNewClient(j)
        PROVE  Take(NewClient(j)) /\ HandleNewClient(j)
    BY <2>2 DEF HandleNewClient
  <2>3. ASSUME NEW n, NEW m, Take(ClientMessage(n, m)), UNCHANGED clients
        PROVE  Take(ClientMessage(n, m)) /\ \A k : ClientMessage(n, m) # NewClient(k)
    BY <2>3, EventsDiffer
  <2>4. ASSUME NEW c, Take(ClipboardChanged(c)), UNCHANGED clients
        PROVE  Take(ClipboardChanged(c)) /\ \A k : ClipboardChanged(c) # NewClient(k)
    BY <2>4, EventsDiffer
  <2>5. \/ \E j \in Conns : HandleNewClient(j)
        \/ \E n, m : Take(ClientMessage(n, m)) /\ UNCHANGED clients
        \/ \E c : Take(ClipboardChanged(c)) /\ UNCHANGED clients
    BY <2>1 DEF HandleEvent, HandleSwitchToServer,
       HandleClipboardData, HandleOtherMessage, HandleDisconnect, BroadcastClipboard
  <2> QED
    BY <2>2, <2>3, <2>4, <2>5
<1>4. NoReports'
  BY <1>1, <1>3, Taken DEF Calm, NoReports
<1>5. ASSUME NEW k \in Conns PROVE Healthy(k)'
  <2>1. Healthy(k)
    BY DEF Calm
  <2>2. Announced(k) => Announced(k)' \/ e = NewClient(k)
    <3> SUFFICES ASSUME NEW i \in DOMAIN events, events[i] = NewClient(k), e # NewClient(k)
                 PROVE  Announced(k)'
      BY DEF Announced
    <3>1. i - 1 \in DOMAIN events' /\ i = (i - 1) + 1
      BY <1>1, <1>3, Taken
    <3>2. events'[i - 1] = NewClient(k)
      BY <1>1, <1>3, <3>1, Taken
    <3> QED
      BY <3>1, <3>2 DEF Announced
  <2>3. clients \in [Names -> Conns \cup {NoConn}] /\ Owner[k] \in Names
    BY <1>1 DEF ServerTypeOK, WireAssumption
  <2>4. CASE UNCHANGED clients /\ e # NewClient(k)
    BY <1>2, <2>1, <2>2, <2>4 DEF Healthy
  <2>5. ASSUME NEW j \in Conns, HandleNewClient(j), e = NewClient(j)
        PROVE  Healthy(k)'
    <3>1. clients' = [clients EXCEPT ![Owner[j]] = j]
      BY <2>5 DEF HandleNewClient
    <3>2. CASE j = k
      BY <1>2, <2>1, <2>3, <3>1, <3>2 DEF Healthy
    <3>3. CASE j # k
      <4>1. Owner[j] # Owner[k] /\ e # NewClient(k)
        BY <2>5, <3>3, EventsDiffer DEF OneConnectionPerName
      <4>2. clients'[Owner[k]] = clients[Owner[k]]
        BY <2>3, <3>1, <4>1
      <4> QED
        BY <1>2, <2>1, <2>2, <4>1, <4>2 DEF Healthy
    <3> QED
      BY <3>2, <3>3
  <2> QED
    BY <1>3, <2>4, <2>5
<1> QED
  BY <1>1, <1>2, <1>4, <1>5 DEF Calm

\* Input and the clipboard monitor touch none of it.
LEMMA CalmInput ==
  ASSUME SessionInv, Calm, UNCHANGED clientVars,
         MoveInput \/ ForwardRest \/ MonitorTask \/ \E m \in Inputs : OtherInput(m)
  PROVE  Calm'
<1>1. UNCHANGED <<running, clients, link, up, shut, stage, writer>>
  BY DEF MoveInput, MoveLocal, SwitchTo, MoveAccumulates, MoveFlushes, OtherInput,
     FlushMotionFirst, ForwardNow, ForwardRest, QueueInput, MonitorTask,
     LocalCopy, RelayCopy, wireVars, taskVars
<1>2. UNCHANGED eof
  BY DEF clientVars
<1>3. UNCHANGED events \/ \E c : Post(ClipboardChanged(c))
  BY DEF MoveInput, MoveLocal, SwitchTo, MoveAccumulates, MoveFlushes, OtherInput,
     FlushMotionFirst, ForwardNow, ForwardRest, QueueInput, MonitorTask,
     LocalCopy, RelayCopy
<1>4. NoReports'
  BY <1>3, Posted, EventsDiffer DEF Calm, NoReports, SessionInv, SessionTypeOK
<1>5. ASSUME NEW k \in Conns PROVE Healthy(k)'
  <2>1. Announced(k) => Announced(k)'
    BY <1>3, Posted DEF Announced, SessionInv, SessionTypeOK
  <2> QED
    BY <1>1, <1>2, <2>1 DEF Calm, Healthy
<1> QED
  BY <1>1, <1>4, <1>5 DEF Calm

\* A client neither gives up nor exits, and writes nothing malformed, unless its
\* handshake failed.
LEMMA CalmClients ==
  ASSUME WireAssumption, SessionInv, ReportInv, Calm, UNCHANGED serverVars,
         NEW j \in Conns, Starts(j) \/ ClientTask(j)
  PROVE  Calm'
<1> USE DEF wireVars
<1>1. SessionTypeOK /\ ClientStep(j) /\ ClientInv(j) /\ Healthy(j)
  BY DEF SessionInv, ClientStep, Calm
<1>2. UNCHANGED <<running, clients, events, stage, writer>>
  BY DEF serverVars, taskVars
<1>3. UNCHANGED shut
  BY DEF Starts, ClientConnects, Connect, ClientTask, ClientSaysHello, ClientSaysName,
     ClientSends, ClientGetsReply, ClientStarts, ClientGivesUp, ConnectionLost, Exit,
     PeerCloses, ReceiverForwards, ReceiverEnds, ClientApplies, ApplySwitch,
     ApplyClipboard, ApplyKeyOrButton, ApplyMove, ApplyOther, TakeMessage,
     MotionInjected, ControlHandedBack, GraceEnds, PushRipens, Heartbeat,
     ClientCopy, SendCopy
<1>4. ASSUME NEW k \in Conns PROVE Announced(k)' <=> Announced(k)
  BY <1>2 DEF Announced
<1>5. ASSUME NEW k \in Conns, k # j PROVE Healthy(k)'
  <2>1. UNCHANGED <<link[k], up[k], eof[k]>>
    BY <1>1, <1>5, OthersStay DEF clientAt
  <2> QED
    BY <1>2, <1>3, <1>4, <2>1 DEF Calm, Healthy
\* Of j itself: what happens to its socket, and to the end of its stream.
<1>6. link \in [Conns -> {"none", "open", "closed", "lost"}] /\ eof \in [Conns -> BOOLEAN]
        /\ up \in [Conns -> Seq(ToServer)]
  BY <1>1 DEF SessionTypeOK, ServerTypeOK, WireTypeOK, ClientTypeOK
<1>7. ASSUME link'[j] = link[j] \/ link'[j] = "open", eof'[j] = eof[j],
             \A i \in DOMAIN up'[j] : up'[j][i] # MalformedMsg
      PROVE  Healthy(j)'
  BY <1>1, <1>2, <1>3, <1>4, <1>7 DEF Healthy
<1>8. ASSUME UNCHANGED <<up, eof>>, UNCHANGED link PROVE Healthy(j)'
  BY <1>1, <1>7, <1>8 DEF Healthy
<1>9. ASSUME NEW m \in ToServer \ {MalformedMsg}, ClientWrites(j, m), UNCHANGED <<link, eof>>
      PROVE  Healthy(j)'
  <2>1. \A i \in DOMAIN up'[j] : up'[j][i] # MalformedMsg
    BY <1>1, <1>9, NothingMalformed DEF Healthy
  <2> QED
    BY <1>7, <1>9, <2>1
<1>10. ASSUME ClientGivesUp(j) \/ ReceiverEnds(j) \/ ConnectionLost(j)
       PROVE  Healthy(j)'
  <2>1. EndOfStream(j) \/ eof[j]
    BY <1>10 DEF ClientGivesUp, ReceiverEnds, ConnectionLost
  <2>2. stage[j] = "failed" \/ link[j] = "lost"
    BY <1>1, <2>1 DEF EndOfStream, Healthy
  <2>3. stage[j] = "failed"
    BY <1>1, <2>2 DEF Healthy
  <2>4. UNCHANGED up /\ link'[j] # "none"
    <3>1. phase[j] # "off"
      BY <1>10 DEF ClientGivesUp, ReceiverEnds, ConnectionLost
    <3>2. link[j] # "none"
      BY <1>1, <3>1 DEF ClientInv, SocketFollowsPhase
    <3> QED
      BY <1>6, <1>10, <3>2 DEF ClientGivesUp, ReceiverEnds, ConnectionLost, Exit, PeerCloses
  <2> QED
    BY <1>1, <1>2, <2>3, <2>4 DEF Healthy
<1>11. ASSUME Starts(j)
       PROVE  Healthy(j)'
  <2>1. link'[j] = "open" /\ UNCHANGED <<up, eof>>
    BY <1>6, <1>11 DEF Starts, ClientConnects, Connect
  <2> QED
    BY <1>1, <1>7, <2>1 DEF Healthy
<1>12. ASSUME \/ ClientSaysHello(j) \/ ClientSaysName(j) \/ Heartbeat(j)
              \/ ControlHandedBack(j)
       PROVE  Healthy(j)'
  <2>1. /\ \/ ClientWrites(j, NoiseHelloMsg(TRUE)) \/ ClientWrites(j, HandshakeMsg)
           \/ ClientWrites(j, HeartbeatMsg) \/ ClientWrites(j, SwitchToServerMsg)
        /\ UNCHANGED <<link, eof>>
    BY <1>12 DEF ClientSaysHello, ClientSaysName, ClientSends, Heartbeat,
       ControlHandedBack, clientVars
  <2>2. /\ NoiseHelloMsg(TRUE) \in ToServer /\ HandshakeMsg \in ToServer
        /\ HeartbeatMsg \in ToServer /\ SwitchToServerMsg \in ToServer
    BY DEF ToServer, NoiseHelloMsg
  <2>3. /\ NoiseHelloMsg(TRUE) # MalformedMsg /\ HandshakeMsg # MalformedMsg
        /\ HeartbeatMsg # MalformedMsg /\ SwitchToServerMsg # MalformedMsg
    BY DEF NoiseHelloMsg, HandshakeMsg, HeartbeatMsg, SwitchToServerMsg, MalformedMsg
  <2> QED
    BY <1>9, <2>1, <2>2, <2>3
<1>13. ASSUME SendCopy(j)
       PROVE  Healthy(j)'
  <2>1. noticed[j] \in Contents
    BY <1>1, <1>13 DEF SendCopy, SessionTypeOK, ClientTypeOK
  <2>2. ClipboardMsg(noticed[j]) \in ToServer \ {MalformedMsg}
    BY <2>1 DEF ToServer, ClipboardMsg, MalformedMsg
  <2> QED
    BY <1>9, <1>13, <2>2 DEF SendCopy
<1>14. ASSUME \/ ClientGetsReply(j) \/ ClientStarts(j) \/ ReceiverForwards(j)
              \/ MotionInjected(j) \/ GraceEnds(j) \/ PushRipens(j)
              \/ \E c \in Contents : ClientCopy(j, c)
       PROVE  Healthy(j)'
  <2>1. UNCHANGED <<up, link, eof>>
    BY <1>14 DEF ClientGetsReply, ClientStarts, ClientReads, ReceiverForwards,
       MotionInjected, GraceEnds, PushRipens, ClientCopy
  <2> QED
    BY <1>8, <2>1
<1>15. ASSUME ClientApplies(j)
       PROVE  Healthy(j)'
  <2>1. UNCHANGED <<up, link, eof>>
    BY <1>15 DEF ClientApplies, ApplySwitch, ApplyClipboard, ApplyKeyOrButton,
       ApplyMove, ApplyOther, TakeMessage
  <2> QED
    BY <1>8, <2>1
<1>16. Healthy(j)'
  BY <1>10, <1>11, <1>12, <1>13, <1>14, <1>15 DEF ClientTask
<1>17. NoReports'
  BY <1>2 DEF Calm, NoReports
<1> QED
  BY <1>2, <1>5, <1>16, <1>17 DEF Calm

LEMMA CalmStart ==
  ASSUME ServerAssumption, WireAssumption, SessionInit
  PROVE  Calm
<1>1. /\ running = TRUE /\ events = << >>
      /\ \A k \in Conns : /\ stage[k] = "idle" /\ link[k] = "none" /\ up[k] = << >>
                          /\ shut[k] = FALSE /\ eof[k] = FALSE
  BY DEF SessionInit, WireInit, ServerInit, ClientInit
<1> QED
  BY <1>1 DEF Calm, NoReports, Healthy

LEMMA CalmStep ==
  ASSUME WireAssumption, ServerAssumption, OneConnectionPerName, Faults = {},
         SessionInv, ReportInv, Calm, [SessionNext]_sessionVars
  PROVE  Calm'
<1>1. CASE ServerMoves /\ UNCHANGED clientVars
  BY <1>1, CalmTasks, CalmEvents, CalmInput DEF ServerMoves
<1>2. ASSUME NEW m \in Inputs, OtherInput(m), UNCHANGED clientVars PROVE Calm'
  BY <1>2, CalmInput
<1>3. ASSUME NEW k \in Conns, Starts(k) \/ ClientTask(k), UNCHANGED serverVars PROVE Calm'
  BY <1>3, CalmClients
<1>4. CASE UNCHANGED <<wireVars, serverVars, clientVars>>
  BY <1>4 DEF wireVars, serverVars, taskVars, clientVars, Calm, NoReports, Healthy, Announced
<1> QED
  BY <1>1, <1>2, <1>3, <1>4 DEF SessionNext, UserPresses, UserScrolls, sessionVars

LEMMA CalmInvariant ==
  OneConnectionPerName /\ Faults = {} => (SessionSpec => []Calm)
<1> SUFFICES ASSUME OneConnectionPerName, Faults = {} PROVE SessionSpec => []Calm
  OBVIOUS
<1>1. SessionInit => Calm
  BY CalmStart, WireAssumption, ServerAssumption
<1>2. SessionInv /\ ReportInv /\ Calm /\ [SessionNext]_sessionVars => Calm'
  BY CalmStep, WireAssumption, ServerAssumption
<1>3. SessionSpec => []ReportInv
  BY SessionImplementsServer, ReportInvariant, PTL DEF ImplementsServer
<1> QED
  BY <1>1, <1>2, <1>3, SessionInvariant, PTL DEF SessionSpec

\* While no link is lost and nobody is stopped, at most one client has control or
\* is about to have it: a switch to another one is not made before the return of
\* the last one was handled.
THEOREM NoTwoInControl ==
  OneConnectionPerName /\ Faults = {} => (SessionSpec => []OneClientInControl)
<1> SUFFICES ASSUME OneConnectionPerName, Faults = {}
             PROVE  SessionSpec => []OneClientInControl
  OBVIOUS
<1>1. TokenInv /\ Calm => OneClientInControl
  <2> SUFFICES ASSUME TokenInv, Calm, NEW j \in Conns, NEW k \in Conns,
                      Tokens(j) > 0, Tokens(k) > 0
               PROVE  j = k
    BY DEF OneClientInControl
  <2>1. ASSUME NEW i \in {j, k} PROVE active_client = Owner[i]
    <3>1. stage[i] = "up" /\ ~Announced(i)
      BY DEF TokenInv, TokenAt
    <3>2. Serves(i)
      BY <3>1 DEF Calm, Healthy, Serves
    <3> QED
      BY <3>2 DEF TokenInv, TokenAt
  <2> QED
    BY <2>1 DEF OneConnectionPerName
<1> QED
  BY <1>1, TokenInvariant, CalmInvariant, PTL
=============================================================================
