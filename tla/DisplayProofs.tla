--------------------------- MODULE DisplayProofs ---------------------------
(***************************************************************************)
(* Proofs about Display, for any aircraft, connections, viewers, polls and *)
(* faults: the types, and that the browser always has a source of          *)
(* pictures.  That the right one is shown in the end is liveness, and is   *)
(* left to TLC.                                                            *)
(***************************************************************************)
EXTENDS Display, SequenceTheorems, TLAPS

-----------------------------------------------------------------------------
(* The inductive invariant, connection by connection.                      *)

\* The broadcaster serves whoever is accepted and not over, and nobody else.
Served(s) ==
    /\ handler[s] \in Registered /\ s \notin gone => s \in clients
    /\ s \in clients => handler[s] \in Registered

\* Nothing was sent to a connection that is not accepted yet, and no frame that
\* is under way is meant for it.
UntouchedBefore(s) ==
    handler[s] = "asked" => s \notin to /\ (s \notin gone => wire[s] = <<>>)

\* The browser will hear that its connection is over, and while it relies on it
\* the connection was accepted.
WillHear(s) ==
    s = current =>
        /\ s \in gone => Closed \in ToSet(wire[s])
        /\ s \notin gone => handler[s] = "asked" \/ handler[s] \in Registered
        /\ ~ polling => handler[s] # "asked" \/ s \in gone

ConnectionInv(s) == Served(s) /\ UntouchedBefore(s) /\ WillHear(s)

PollsUntilConnected == current = NoSocket => polling

DisplayInv == TypeOK /\ PollsUntilConnected /\ \A s \in Connection : ConnectionInv(s)

-----------------------------------------------------------------------------
(* Messages and frames.                                                    *)

\* Connections, the page's own socket and the broadcaster are told apart by their names.
LEMMA Names ==
    /\ NoSocket \notin Connection /\ Socket \subseteq Connection /\ Guest \subseteq Connection
    /\ "broadcaster" \in Reader /\ Connection \subseteq Reader /\ "broadcaster" \notin Connection
BY DisplayAssumption DEF DisplayAssumption, Connection, Reader

\* What travels on a socket is a message.
LEMMA MessageType ==
    /\ Nothing \in StreamFrame /\ Opened \in Message /\ Closed \in Message
    /\ \A s, f : f \in StreamFrame => Data(s, f) \in Message
<1>1. Nothing \in StreamFrame
  BY DEF Nothing, StreamFrame
<1> QED
  BY <1>1 DEF Opened, Closed, Data, Message

\* What a connection carries stays what it carries, and a message more.
LEMMA AppendMessage ==
    ASSUME NEW w \in Seq(Message), NEW m \in Message
    PROVE  /\ Append(w, m) \in Seq(Message)
           /\ ToSet(w) \subseteq ToSet(Append(w, m))
           /\ m \in ToSet(Append(w, m))
<1>1. /\ Append(w, m) \in Seq(Message) /\ Len(w) \in Nat
      /\ DOMAIN w = 1..Len(w) /\ DOMAIN Append(w, m) = 1..(Len(w) + 1)
      /\ Append(w, m)[Len(w) + 1] = m
      /\ \A i \in DOMAIN w : Append(w, m)[i] = w[i]
  OBVIOUS
<1>2. ToSet(w) \subseteq ToSet(Append(w, m))
  <2> SUFFICES ASSUME NEW i \in DOMAIN w PROVE w[i] \in ToSet(Append(w, m))
    BY DEF ToSet
  <2>1. i \in DOMAIN Append(w, m) /\ Append(w, m)[i] = w[i]
    BY <1>1
  <2> QED
    BY <2>1 DEF ToSet
<1>3. Len(w) + 1 \in DOMAIN Append(w, m)
  BY <1>1
<1> QED
  BY <1>1, <1>2, <1>3 DEF ToSet

\* A socket that has been sent one message holds that one.
LEMMA OneMessage ==
    ASSUME NEW m \in Message
    PROVE  <<m>> \in Seq(Message) /\ m \in ToSet(<<m>>)
BY DEF ToSet

\* The viewer takes the first message.
LEMMA TailMessage ==
    ASSUME NEW w \in Seq(Message), w # <<>>
    PROVE  /\ Tail(w) \in Seq(Message) /\ Head(w) \in Message
           /\ \A m \in ToSet(w) : m # Head(w) => m \in ToSet(Tail(w))
<1>1. /\ Len(w) \in Nat /\ Len(w) > 0 /\ DOMAIN w = 1..Len(w)
      /\ Head(w) = w[1] /\ 1 \in DOMAIN w
  OBVIOUS
<1>2. /\ Tail(w) \in Seq(Message) /\ DOMAIN Tail(w) = 1..(Len(w) - 1)
      /\ \A i \in DOMAIN Tail(w) : Tail(w)[i] = w[i + 1]
  BY <1>1
<1>3. \A j \in DOMAIN w : j # 1 => j - 1 \in DOMAIN Tail(w) /\ Tail(w)[j - 1] = w[j]
  BY <1>1, <1>2
<1> QED
  <2> SUFFICES ASSUME NEW j \in DOMAIN w, w[j] # Head(w) PROVE w[j] \in ToSet(Tail(w))
    BY <1>1, <1>2 DEF ToSet
  <2>1. j - 1 \in DOMAIN Tail(w) /\ Tail(w)[j - 1] = w[j]
    BY <1>1, <1>3
  <2> QED
    BY <2>1 DEF ToSet

\* A send that is waited for leaves every connection as it was, but for a message
\* more on the one it goes to, unless that is over.
LEMMA SentFits ==
    ASSUME TypeOK, NEW s \in Connection, NEW m \in Message
    PROVE  /\ Sent(s, m) \in [Connection -> Seq(Message)]
           /\ \A q \in Connection : q # s => Sent(s, m)[q] = wire[q]
           /\ ToSet(wire[s]) \subseteq ToSet(Sent(s, m)[s])
           /\ s \in gone => Sent(s, m) = wire
<1>1. wire \in [Connection -> Seq(Message)] /\ wire[s] \in Seq(Message)
  BY DEF TypeOK
<1>2. Append(wire[s], m) \in Seq(Message) /\ ToSet(wire[s]) \subseteq ToSet(Append(wire[s], m))
  BY <1>1, AppendMessage
<1> QED
  BY <1>1, <1>2 DEF Sent

-----------------------------------------------------------------------------
(* The handler of a connection.                                            *)

\* The invariant holds before anybody has connected.
LEMMA InitInv == Init => DisplayInv
<1> SUFFICES ASSUME Init PROVE DisplayInv
  OBVIOUS
<1> USE Names, MessageType
<1>1. TypeOK
  <2>1. /\ handler \in [Connection -> HandlerStage] /\ clients \subseteq Connection
        /\ frame \in [Reader -> StreamFrame] /\ wire \in [Connection -> Seq(Message)]
    BY DEF Init, HandlerStage
  <2>2. poll \in [PollSlot -> [tracks : Request, alerts : Request, alerts_shown : BOOLEAN]]
    BY DEF Init, NoPoll, Idle, Request, Status
  <2>3. 0 \in 0..MaxChanges /\ 0 \in 0..MaxFaults
    BY DisplayAssumption DEF DisplayAssumption
  <2> QED
    BY <2>1, <2>2, <2>3 DEF Init, TypeOK, BroadcasterStage
<1>2. PollsUntilConnected
  BY DEF Init, PollsUntilConnected
<1>3. ASSUME NEW s \in Connection PROVE ConnectionInv(s)
  <2>1. handler[s] = (IF s \in Guest THEN "receiving" ELSE "none") /\ clients = Guest
    BY DEF Init
  <2> QED
    BY <2>1 DEF Init, ConnectionInv, Served, UntouchedBefore, WillHear, Registered
<1> QED
  BY <1>1, <1>2, <1>3 DEF DisplayInv

\* A connection that is refused was never registered.
LEMMA RefuseStep ==
    ASSUME DisplayInv, NEW s \in Connection, Refuse(s)
    PROVE  DisplayInv'
<1> USE Names, MessageType
<1>1. /\ handler[s] = "asked" /\ handler' = [handler EXCEPT ![s] = "over"]
      /\ gone' = gone \cup {s} /\ wire' = Sent(s, Closed)
      /\ UNCHANGED <<storeVars, clients, frame, stage, to, browserVars, bounds>>
      /\ handler \in [Connection -> HandlerStage] /\ wire \in [Connection -> Seq(Message)]
  BY DEF Refuse, DisplayInv, TypeOK
<1>2. TypeOK'
  <2>1. handler' \in [Connection -> HandlerStage] /\ wire' \in [Connection -> Seq(Message)]
    BY <1>1, SentFits DEF HandlerStage, DisplayInv
  <2> QED
    BY <1>1, <2>1 DEF DisplayInv, TypeOK, storeVars, browserVars, bounds
<1>3. PollsUntilConnected'
  BY <1>1 DEF DisplayInv, PollsUntilConnected, browserVars
<1>4. ASSUME NEW q \in Connection PROVE ConnectionInv(q)'
  <2>1. Served(q) /\ UntouchedBefore(q) /\ WillHear(q)
    BY DEF DisplayInv, ConnectionInv
  <2>2. CASE q # s
    <3>1. handler'[q] = handler[q] /\ wire'[q] = wire[q] /\ (q \in gone' <=> q \in gone)
      BY <1>1, <2>2, SentFits DEF DisplayInv
    <3> QED
      BY <1>1, <2>1, <3>1 DEF ConnectionInv, Served, UntouchedBefore, WillHear, browserVars
  <2>3. CASE q = s
    <3>1. handler'[q] = "over" /\ q \in gone' /\ q \notin clients
      BY <1>1, <2>1, <2>3 DEF Served, Registered
    <3>2. CASE q \in gone
      <4>1. wire' = wire
        BY <1>1, <2>3, <3>2 DEF Sent
      <4> QED
        BY <1>1, <2>1, <3>1, <3>2, <4>1
           DEF ConnectionInv, Served, UntouchedBefore, WillHear, Registered, browserVars
    <3>3. CASE q \notin gone
      <4>1. wire'[q] = Append(wire[q], Closed) /\ wire[q] \in Seq(Message)
        BY <1>1, <2>3, <3>3 DEF Sent
      <4>2. Closed \in ToSet(wire'[q])
        BY <4>1, AppendMessage
      <4> QED
        BY <1>1, <3>1, <4>2
           DEF ConnectionInv, Served, UntouchedBefore, WillHear, Registered, browserVars
    <3> QED
      BY <3>2, <3>3
  <2> QED
    BY <2>2, <2>3
<1> QED
  BY <1>2, <1>3, <1>4 DEF DisplayInv

\* A connection that is accepted joins those the broadcaster writes to.
LEMMA RegisterStep ==
    ASSUME DisplayInv, NEW s \in Connection, Register(s)
    PROVE  DisplayInv'
<1> USE Names, MessageType
<1>1. /\ handler[s] = "asked" /\ handler' = [handler EXCEPT ![s] = "tracks"] /\ s \notin gone
      /\ clients' = clients \cup {s} /\ wire' = [wire EXCEPT ![s] = Append(@, Opened)]
      /\ UNCHANGED <<storeVars, gone, frame, stage, to, browserVars, bounds>>
      /\ handler \in [Connection -> HandlerStage] /\ wire \in [Connection -> Seq(Message)]
  BY DEF Register, DisplayInv, TypeOK
<1>2. TypeOK'
  <2>1. handler' \in [Connection -> HandlerStage] /\ wire' \in [Connection -> Seq(Message)]
    BY <1>1, AppendMessage DEF HandlerStage
  <2> QED
    BY <1>1, <2>1 DEF DisplayInv, TypeOK, storeVars, browserVars, bounds
<1>3. PollsUntilConnected'
  BY <1>1 DEF DisplayInv, PollsUntilConnected, browserVars
<1>4. ASSUME NEW q \in Connection PROVE ConnectionInv(q)'
  <2>1. Served(q) /\ UntouchedBefore(q) /\ WillHear(q)
    BY DEF DisplayInv, ConnectionInv
  <2>2. CASE q # s
    <3>1. handler'[q] = handler[q] /\ wire'[q] = wire[q] /\ (q \in clients' <=> q \in clients)
      BY <1>1, <2>2
    <3> QED
      BY <1>1, <2>1, <3>1 DEF ConnectionInv, Served, UntouchedBefore, WillHear, browserVars
  <2>3. CASE q = s
    <3>1. handler'[q] = "tracks" /\ q \notin gone' /\ q \in clients'
      BY <1>1, <2>3
    <3> QED
      BY <1>1, <3>1
         DEF ConnectionInv, Served, UntouchedBefore, WillHear, Registered, browserVars
  <2> QED
    BY <2>2, <2>3
<1> QED
  BY <1>2, <1>3, <1>4 DEF DisplayInv

\* A handler that goes on with an accepted connection.
LEMMA HandlerGoesOn ==
    ASSUME DisplayInv, NEW s \in Connection, NEW next \in Registered,
           handler[s] \in Registered, handler' = [handler EXCEPT ![s] = next],
           wire' \in [Connection -> Seq(Message)],
           \A q \in Connection : q # s => wire'[q] = wire[q],
           ToSet(wire[s]) \subseteq ToSet(wire'[s]),
           UNCHANGED <<clients, gone, to, current, polling>>
    PROVE  PollsUntilConnected' /\ \A q \in Connection : ConnectionInv(q)'
<1>1. PollsUntilConnected'
  BY DEF DisplayInv, PollsUntilConnected
<1>2. ASSUME NEW q \in Connection PROVE ConnectionInv(q)'
  <2>1. Served(q) /\ UntouchedBefore(q) /\ WillHear(q) /\ handler \in [Connection -> HandlerStage]
    BY DEF DisplayInv, ConnectionInv, TypeOK
  <2>2. CASE q # s
    <3>1. handler'[q] = handler[q] /\ wire'[q] = wire[q]
      BY <2>1, <2>2
    <3> QED
      BY <2>1, <3>1 DEF ConnectionInv, Served, UntouchedBefore, WillHear
  <2>3. CASE q = s
    <3>1. handler'[q] \in Registered /\ handler'[q] # "asked" /\ handler[q] \in Registered
      BY <2>1, <2>3 DEF Registered
    <3> QED
      BY <2>1, <2>3, <3>1 DEF ConnectionInv, Served, UntouchedBefore, WillHear
  <2> QED
    BY <2>2, <2>3
<1> QED
  BY <1>1, <1>2

\* A new connection reads tracks and alerts one await at a time and is then sent them.
LEMMA SnapshotStep ==
    ASSUME DisplayInv, NEW s \in Connection,
           SnapshotTracks(s) \/ SnapshotAlerts(s) \/ SendSnapshot(s) \/ SnapshotFails(s)
    PROVE  DisplayInv'
<1> USE Names, MessageType
<1>0. /\ tracks \subseteq Track /\ alerts \subseteq Track /\ frame \in [Reader -> StreamFrame]
      /\ wire \in [Connection -> Seq(Message)] /\ handler \in [Connection -> HandlerStage]
  BY DEF DisplayInv, TypeOK
<1>1. frame' \in [Reader -> StreamFrame] /\ faults' \in 0..MaxFaults
  <2>1. CASE SnapshotTracks(s)
    <3>1. [frame[s] EXCEPT !.tracks = tracks] \in StreamFrame
      BY <1>0 DEF StreamFrame
    <3> QED
      BY <1>0, <2>1, <3>1 DEF SnapshotTracks, DisplayInv, TypeOK, bounds
  <2>2. CASE SnapshotAlerts(s)
    <3>1. [frame[s] EXCEPT !.alerts = alerts] \in StreamFrame
      BY <1>0 DEF StreamFrame
    <3> QED
      BY <1>0, <2>2, <3>1 DEF SnapshotAlerts, DisplayInv, TypeOK, bounds
  <2>3. CASE SendSnapshot(s)
    BY <1>0, <2>3 DEF SendSnapshot, DisplayInv, TypeOK, bounds
  <2>4. CASE SnapshotFails(s)
    BY <1>0, <2>4, DisplayAssumption DEF SnapshotFails, DisplayInv, TypeOK, DisplayAssumption
  <2> QED
    BY <2>1, <2>2, <2>3, <2>4
<1>2. /\ wire' \in [Connection -> Seq(Message)]
      /\ \A q \in Connection : q # s => wire'[q] = wire[q]
      /\ ToSet(wire[s]) \subseteq ToSet(wire'[s])
  <2>1. CASE SendSnapshot(s)
    <3>1. Data(s, frame[s]) \in Message
      BY <1>0
    <3> QED
      BY <2>1, <3>1, SentFits DEF SendSnapshot, DisplayInv
  <2>2. CASE UNCHANGED wire
    BY <1>0, <2>2
  <2> QED
    BY <2>1, <2>2 DEF SnapshotTracks, SnapshotAlerts, SnapshotFails
<1>3. /\ handler[s] \in Registered
      /\ \E next \in Registered : handler' = [handler EXCEPT ![s] = next]
      /\ UNCHANGED <<tracks, alerts, clients, gone, stage, to, browserVars, changes>>
  BY DEF SnapshotTracks, SnapshotAlerts, SendSnapshot, SnapshotFails, Registered, storeVars, bounds
<1>4. TypeOK'
  <2>1. handler' \in [Connection -> HandlerStage]
    BY <1>0, <1>3 DEF HandlerStage, Registered
  <2> QED
    BY <1>1, <1>2, <1>3, <2>1 DEF DisplayInv, TypeOK, browserVars
<1> QED
  BY <1>2, <1>3, <1>4, HandlerGoesOn DEF DisplayInv, browserVars

\* A connection that goes is written to no more.
LEMMA DisconnectStep ==
    ASSUME DisplayInv, NEW s \in Connection, Disconnect(s)
    PROVE  DisplayInv'
<1> USE Names
<1>1. /\ handler[s] = "receiving" /\ s \in gone
      /\ handler' = [handler EXCEPT ![s] = "over"] /\ clients' = clients \ {s}
      /\ UNCHANGED <<storeVars, gone, frame, stage, to, wire, browserVars, bounds>>
      /\ handler \in [Connection -> HandlerStage]
  BY DEF Disconnect, DisplayInv, TypeOK
<1>2. TypeOK'
  <2>1. handler' \in [Connection -> HandlerStage]
    BY <1>1 DEF HandlerStage
  <2> QED
    BY <1>1, <2>1 DEF DisplayInv, TypeOK, storeVars, browserVars, bounds
<1>3. PollsUntilConnected'
  BY <1>1 DEF DisplayInv, PollsUntilConnected, browserVars
<1>4. ASSUME NEW q \in Connection PROVE ConnectionInv(q)'
  <2>1. Served(q) /\ UntouchedBefore(q) /\ WillHear(q)
    BY DEF DisplayInv, ConnectionInv
  <2>2. CASE q # s
    <3>1. handler'[q] = handler[q] /\ (q \in clients' <=> q \in clients)
      BY <1>1, <2>2
    <3> QED
      BY <1>1, <2>1, <3>1 DEF ConnectionInv, Served, UntouchedBefore, WillHear, browserVars
  <2>3. CASE q = s
    <3>1. handler'[q] = "over" /\ q \in gone /\ q \notin clients'
      BY <1>1, <2>3
    <3> QED
      BY <1>1, <2>1, <3>1
         DEF ConnectionInv, Served, UntouchedBefore, WillHear, Registered, browserVars
  <2> QED
    BY <2>2, <2>3
<1> QED
  BY <1>2, <1>3, <1>4 DEF DisplayInv

-----------------------------------------------------------------------------
(* The broadcaster.                                                        *)

\* What concerns no connection.
LEMMA NoConnectionConcerned ==
    ASSUME DisplayInv, UNCHANGED <<handler, clients, gone, to, wire, current, polling>>
    PROVE  PollsUntilConnected' /\ \A s \in Connection : ConnectionInv(s)'
BY DEF DisplayInv, PollsUntilConnected, ConnectionInv, Served, UntouchedBefore, WillHear

\* The broadcaster between two frames: it reads, fails to read, or sleeps.
LEMMA FrameStep ==
    ASSUME DisplayInv, ReadTracks \/ ReadFails \/ Sleep
    PROVE  DisplayInv'
<1> USE Names, MessageType
<1>1. /\ UNCHANGED <<storeVars, handler, clients, gone, to, wire, browserVars, changes>>
      /\ stage' \in BroadcasterStage
  BY DEF ReadTracks, ReadFails, Sleep, bounds, BroadcasterStage
<1>2. frame' \in [Reader -> StreamFrame]
  <2>1. frame \in [Reader -> StreamFrame] /\ tracks \subseteq Track
    BY DEF DisplayInv, TypeOK
  <2>2. [frame["broadcaster"] EXCEPT !.tracks = tracks] \in StreamFrame
    BY <2>1 DEF StreamFrame
  <2> QED
    BY <2>1, <2>2 DEF ReadTracks, ReadFails, Sleep
<1>3. faults' \in 0..MaxFaults
  BY DisplayAssumption
     DEF DisplayAssumption, ReadTracks, ReadFails, Sleep, bounds, DisplayInv, TypeOK
<1>4. TypeOK'
  BY <1>1, <1>2, <1>3 DEF DisplayInv, TypeOK, storeVars, browserVars
<1> QED
  BY <1>1, <1>4, NoConnectionConcerned DEF DisplayInv, browserVars

\* The frame is meant for the clients of the moment, who are all accepted.
LEMMA ReadAlertsStep ==
    ASSUME DisplayInv, ReadAlerts
    PROVE  DisplayInv'
<1> USE Names
<1>1. /\ UNCHANGED <<storeVars, handler, clients, gone, wire, browserVars, bounds>>
      /\ stage' = "sending" /\ to' = clients
  BY DEF ReadAlerts
<1>2. frame' \in [Reader -> StreamFrame]
  <2>1. frame \in [Reader -> StreamFrame] /\ alerts \subseteq Track
    BY DEF DisplayInv, TypeOK
  <2>2. [frame["broadcaster"] EXCEPT !.alerts = alerts] \in StreamFrame
    BY <2>1 DEF StreamFrame
  <2> QED
    BY <2>1, <2>2 DEF ReadAlerts
<1>3. TypeOK'
  BY <1>1, <1>2 DEF DisplayInv, TypeOK, BroadcasterStage, storeVars, browserVars, bounds
<1>4. PollsUntilConnected'
  BY <1>1 DEF DisplayInv, PollsUntilConnected, browserVars
<1>5. ASSUME NEW q \in Connection PROVE ConnectionInv(q)'
  <2>1. Served(q) /\ UntouchedBefore(q) /\ WillHear(q)
    BY DEF DisplayInv, ConnectionInv
  <2>2. handler[q] = "asked" => q \notin clients
    BY <2>1 DEF Served, Registered
  <2> QED
    BY <1>1, <2>1, <2>2 DEF ConnectionInv, Served, UntouchedBefore, WillHear, browserVars
<1> QED
  BY <1>3, <1>4, <1>5 DEF DisplayInv

\* Only a connection that is over stops being a client by a send.
LEMMA SendStep ==
    ASSUME DisplayInv, NEW s \in Connection, Send(s)
    PROVE  DisplayInv'
<1> USE Names, MessageType
<1>1. /\ s \in to /\ to' = to \ {s} /\ wire' = Sent(s, Data(s, frame["broadcaster"]))
      /\ clients' = IF s \in gone THEN clients \ {s} ELSE clients
      /\ UNCHANGED <<storeVars, handler, gone, frame, stage, browserVars, bounds>>
  BY DEF Send
<1>2. /\ wire' \in [Connection -> Seq(Message)]
      /\ \A q \in Connection : q # s => wire'[q] = wire[q]
      /\ ToSet(wire[s]) \subseteq ToSet(wire'[s])
      /\ s \in gone => wire' = wire
  <2>1. Data(s, frame["broadcaster"]) \in Message
    BY DEF DisplayInv, TypeOK
  <2> QED
    BY <1>1, <2>1, SentFits DEF DisplayInv
<1>3. TypeOK'
  BY <1>1, <1>2 DEF DisplayInv, TypeOK, storeVars, browserVars, bounds
<1>4. PollsUntilConnected'
  BY <1>1 DEF DisplayInv, PollsUntilConnected, browserVars
<1>5. ASSUME NEW q \in Connection PROVE ConnectionInv(q)'
  <2>1. Served(q) /\ UntouchedBefore(q) /\ WillHear(q)
    BY DEF DisplayInv, ConnectionInv
  <2>2. UNCHANGED <<handler, gone, current, polling>>
    BY <1>1 DEF browserVars
  <2>3. Served(q)'
    BY <1>1, <2>1, <2>2 DEF Served
  <2>4. UntouchedBefore(q)'
    BY <1>1, <1>2, <2>1, <2>2 DEF UntouchedBefore
  <2>5. WillHear(q)'
    BY <1>2, <2>1, <2>2 DEF WillHear
  <2> QED
    BY <2>3, <2>4, <2>5 DEF ConnectionInv
<1> QED
  BY <1>3, <1>4, <1>5 DEF DisplayInv

\* Who does not take a frame in time is over, and is told so.
LEMMA TimeOutStep ==
    ASSUME DisplayInv, NEW s \in Connection, TimeOut(s)
    PROVE  DisplayInv'
<1> USE Names, MessageType
<1>1. /\ s \in to /\ to' = to \ {s} /\ clients' = clients \ {s} /\ gone' = gone \cup {s}
      /\ wire' = [wire EXCEPT ![s] = Append(@, Closed)]
      /\ UNCHANGED <<storeVars, handler, frame, stage, browserVars, bounds>>
  BY DEF TimeOut, Drop
<1>2. wire \in [Connection -> Seq(Message)]
  BY DEF DisplayInv, TypeOK
<1>3. /\ wire' \in [Connection -> Seq(Message)] /\ Closed \in ToSet(wire'[s])
      /\ \A q \in Connection : q # s => wire'[q] = wire[q]
  BY <1>1, <1>2, AppendMessage
<1>4. TypeOK'
  BY <1>1, <1>3 DEF DisplayInv, TypeOK, storeVars, browserVars, bounds
<1>5. PollsUntilConnected'
  BY <1>1 DEF DisplayInv, PollsUntilConnected, browserVars
<1>6. ASSUME NEW q \in Connection PROVE ConnectionInv(q)'
  <2>1. Served(q) /\ UntouchedBefore(q) /\ WillHear(q)
    BY DEF DisplayInv, ConnectionInv
  <2>2. UNCHANGED <<handler, current, polling>>
    BY <1>1 DEF browserVars
  <2>3. Served(q)'
    BY <1>1, <2>1, <2>2 DEF Served
  <2>4. UntouchedBefore(q)'
    BY <1>1, <1>3, <2>1, <2>2 DEF UntouchedBefore
  <2>5. WillHear(q)'
    BY <1>1, <1>3, <2>1, <2>2 DEF WillHear
  <2> QED
    BY <2>3, <2>4, <2>5 DEF ConnectionInv
<1> QED
  BY <1>4, <1>5, <1>6 DEF DisplayInv

-----------------------------------------------------------------------------
(* The browser.                                                            *)

\* A connection is used again only when nothing of its last use is left.
LEMMA ConnectStep ==
    ASSUME DisplayInv, Connect
    PROVE  DisplayInv'
<1> USE Names
<1> PICK s \in Unused :
       current' = s /\ handler' = [handler EXCEPT ![s] = "asked"] /\ gone' = gone \ {s}
  BY DEF Connect
<1>1. /\ s \in Socket /\ s \notin clients /\ s \notin to /\ wire[s] = <<>>
      /\ current = NoSocket /\ polling
      /\ UNCHANGED <<storeVars, clients, frame, stage, to, wire, origin, polling, poll, shown, bounds>>
      /\ handler \in [Connection -> HandlerStage]
  BY DEF Connect, Unused, DisplayInv, PollsUntilConnected, TypeOK
<1>2. TypeOK'
  <2>1. handler' \in [Connection -> HandlerStage]
    BY <1>1 DEF HandlerStage
  <2> QED
    BY <1>1, <2>1 DEF DisplayInv, TypeOK, storeVars, bounds
<1>3. PollsUntilConnected'
  BY <1>1 DEF PollsUntilConnected
<1>4. ASSUME NEW q \in Connection PROVE ConnectionInv(q)'
  <2>1. Served(q) /\ UntouchedBefore(q) /\ WillHear(q)
    BY DEF DisplayInv, ConnectionInv
  <2>2. CASE q # s
    <3>1. handler'[q] = handler[q] /\ (q \in gone' <=> q \in gone) /\ q # current'
      BY <1>1, <2>2
    <3> QED
      BY <1>1, <2>1, <3>1 DEF ConnectionInv, Served, UntouchedBefore, WillHear
  <2>3. CASE q = s
    <3>1. handler'[q] = "asked" /\ q \notin gone' /\ q \notin clients'
      BY <1>1, <2>3
    <3> QED
      BY <1>1, <2>3, <3>1 DEF ConnectionInv, Served, UntouchedBefore, WillHear, Registered
  <2> QED
    BY <2>2, <2>3
<1> QED
  BY <1>2, <1>3, <1>4 DEF DisplayInv

\* The browser takes a message other than a close: the close it may be sent stays.
LEMMA TakenInv ==
    ASSUME DisplayInv, NEW event \in {"open", "message"}, Event(event),
           UNCHANGED <<handler, clients, gone, to, current>>
    PROVE  /\ wire' \in [Connection -> Seq(Message)]
           /\ \A s \in Connection : ConnectionInv(s)'
<1> USE Names, MessageType
<1>1. /\ current \in Connection /\ wire[current] # <<>> /\ wire[current] \in Seq(Message)
      /\ Head(wire[current]).event = event
      /\ wire' = [wire EXCEPT ![current] = Tail(@)]
      /\ wire \in [Connection -> Seq(Message)]
  BY DEF Event, DisplayInv, TypeOK
<1>2. Head(wire[current]) # Closed
  BY <1>1 DEF Closed
<1>3. /\ wire' \in [Connection -> Seq(Message)]
      /\ Closed \in ToSet(wire[current]) => Closed \in ToSet(wire'[current])
      /\ \A q \in Connection : q # current => wire'[q] = wire[q]
  BY <1>1, <1>2, TailMessage
<1>4. ASSUME NEW q \in Connection PROVE ConnectionInv(q)'
  <2>1. Served(q) /\ UntouchedBefore(q) /\ WillHear(q)
    BY DEF DisplayInv, ConnectionInv
  <2>2. handler[current] = "asked" => current \in gone
    BY <1>1 DEF DisplayInv, ConnectionInv, UntouchedBefore
  <2>3. Served(q)'
    BY <2>1 DEF Served
  <2>4. UntouchedBefore(q)'
    BY <1>3, <2>1, <2>2 DEF UntouchedBefore
  <2>5. WillHear(q)'
    BY <1>3, <2>1, <2>2 DEF WillHear
  <2> QED
    BY <2>3, <2>4, <2>5 DEF ConnectionInv
<1> QED
  BY <1>3, <1>4

\* The page's socket opens: polling stops.
LEMMA OnOpenStep ==
    ASSUME DisplayInv, OnOpen
    PROVE  DisplayInv'
<1>1. /\ Event("open") /\ polling' = FALSE /\ current # NoSocket
      /\ UNCHANGED <<storeVars, serverVars, origin, current, poll, shown, bounds>>
  BY DEF OnOpen, Event
<1>2. wire' \in [Connection -> Seq(Message)] /\ \A s \in Connection : ConnectionInv(s)'
  BY <1>1, TakenInv DEF serverVars
<1>3. TypeOK'
  BY <1>1, <1>2 DEF DisplayInv, TypeOK, storeVars, serverVars, bounds
<1> QED
  BY <1>1, <1>2, <1>3 DEF DisplayInv, PollsUntilConnected

\* The page takes a frame for its picture.
LEMMA OnMessageStep ==
    ASSUME DisplayInv, OnMessage
    PROVE  DisplayInv'
<1>1. /\ Event("message") /\ shown' = Head(wire[current]).data
      /\ UNCHANGED <<storeVars, serverVars, origin, current, polling, poll, bounds>>
  BY DEF OnMessage
<1>2. wire' \in [Connection -> Seq(Message)] /\ \A s \in Connection : ConnectionInv(s)'
  BY <1>1, TakenInv DEF serverVars
<1>3. shown' \in StreamFrame
  <2>1. current \in Connection /\ wire[current] # <<>> /\ wire[current] \in Seq(Message)
    BY <1>1, Names DEF Event, DisplayInv, TypeOK
  <2>2. Head(wire[current]) \in Message
    BY <2>1, TailMessage
  <2> QED
    BY <1>1, <2>2 DEF Message
<1>4. TypeOK'
  BY <1>1, <1>2, <1>3 DEF DisplayInv, TypeOK, storeVars, serverVars, bounds
<1> QED
  BY <1>1, <1>2, <1>4 DEF DisplayInv, PollsUntilConnected

PollRecord == [tracks : Request, alerts : Request, alerts_shown : BOOLEAN]

\* The stages of a poll are poll records.
LEMMA PollType ==
    /\ NoPoll \in PollRecord /\ Waiting \in PollRecord
    /\ \A body \in SUBSET Track : Ok(body) \in Request
BY DEF PollRecord, NoPoll, Waiting, Idle, Asked, Ok, Request, Status

\* A closed connection is nobody's: the browser polls from then on.
LEMMA OnCloseStep ==
    ASSUME DisplayInv, OnClose
    PROVE  DisplayInv'
<1> USE Names
<1>1. /\ current \in Connection /\ wire[current] # <<>> /\ wire[current] \in Seq(Message)
      /\ wire' = [wire EXCEPT ![current] = Tail(@)]
      /\ wire \in [Connection -> Seq(Message)]
      /\ current' = NoSocket /\ polling' = TRUE
      /\ UNCHANGED <<storeVars, serverVars, origin, shown, bounds>>
  BY DEF OnClose, Event, StartPolling, DisplayInv, TypeOK
<1>2. wire' \in [Connection -> Seq(Message)]
  BY <1>1, TailMessage
<1>3. poll' \in [PollSlot -> PollRecord]
  BY PollType DEF OnClose, StartPolling, DisplayInv, TypeOK, PollRecord
<1>4. TypeOK'
  BY <1>1, <1>2, <1>3 DEF DisplayInv, TypeOK, PollRecord, storeVars, serverVars, bounds
<1>5. handler[current] = "asked" => current \in gone
  BY <1>1 DEF DisplayInv, ConnectionInv, UntouchedBefore
<1>6. ASSUME NEW q \in Connection PROVE ConnectionInv(q)'
  <2>1. Served(q) /\ UntouchedBefore(q)
    BY DEF DisplayInv, ConnectionInv
  <2>2. q # current => wire'[q] = wire[q]
    BY <1>1
  <2> QED
    BY <1>1, <1>5, <2>1, <2>2 DEF ConnectionInv, Served, UntouchedBefore, WillHear, serverVars
<1> QED
  BY <1>1, <1>4, <1>6 DEF DisplayInv, PollsUntilConnected

\* Polls, and changes of the stores, touch no connection.
LEMMA PollStepInv ==
    ASSUME DisplayInv, NEW p \in PollSlot, Poll(p) \/ PollStep(p) \/ RequestFails(p)
    PROVE  DisplayInv'
<1>0. /\ poll \in [PollSlot -> PollRecord] /\ poll[p] \in PollRecord
      /\ tracks \in SUBSET Track /\ alerts \in SUBSET Track /\ shown \in StreamFrame
  BY DEF DisplayInv, TypeOK, PollRecord
<1>1. UNCHANGED <<storeVars, serverVars, wire, origin, current, polling, changes>>
  BY DEF Poll, PollStep, RequestFails, AnswerTracks, AnswerAlerts, PollThrows, ShowAlerts, ShowTracks,
         bounds
<1>2. poll' \in [PollSlot -> PollRecord] /\ shown' \in StreamFrame /\ faults' \in 0..MaxFaults
  <2>0. faults \in 0..MaxFaults
    BY DEF DisplayInv, TypeOK
  <2>1. CASE Poll(p) \/ PollThrows(p)
    BY <1>0, <2>0, <2>1, PollType DEF Poll, PollThrows, bounds
  <2>2. CASE AnswerTracks(p)
    <3>1. [poll[p] EXCEPT !.tracks = Ok(tracks)] \in PollRecord
      BY <1>0, PollType DEF PollRecord
    <3> QED
      BY <1>0, <2>0, <2>2, <3>1 DEF AnswerTracks, bounds
  <2>3. CASE AnswerAlerts(p)
    <3>1. [poll[p] EXCEPT !.alerts = Ok(alerts)] \in PollRecord
      BY <1>0, PollType DEF PollRecord
    <3> QED
      BY <1>0, <2>0, <2>3, <3>1 DEF AnswerAlerts, bounds
  <2>4. CASE ShowAlerts(p)
    <3>1. [poll[p] EXCEPT !.alerts_shown = TRUE] \in PollRecord
      BY <1>0 DEF PollRecord
    <3>2. poll[p].alerts.body \in SUBSET Track
      BY <1>0 DEF PollRecord, Request
    <3>3. shown' \in StreamFrame
      BY <1>0, <2>4, <3>2 DEF ShowAlerts, StreamFrame
    <3> QED
      BY <1>0, <2>0, <2>4, <3>1, <3>3 DEF ShowAlerts, bounds
  <2>5. CASE ShowTracks(p)
    <3>1. poll[p].tracks.body \in SUBSET Track
      BY <1>0 DEF PollRecord, Request
    <3>2. shown' \in StreamFrame
      BY <1>0, <2>5, <3>1 DEF ShowTracks, StreamFrame
    <3> QED
      BY <1>0, <2>0, <2>5, <3>2, PollType DEF ShowTracks, bounds
  <2>6. CASE RequestFails(p)
    <3>1. faults' \in 0..MaxFaults /\ shown' = shown
      BY <2>0, <2>6, DisplayAssumption DEF RequestFails, DisplayAssumption
    <3>2. PICK how \in {"error", "lost"} :
             \/ poll' = [poll EXCEPT ![p].tracks.status = how]
             \/ poll' = [poll EXCEPT ![p].alerts.status = how]
      BY <2>6 DEF RequestFails
    <3>3. /\ [poll[p] EXCEPT !.tracks.status = how] \in PollRecord
          /\ [poll[p] EXCEPT !.alerts.status = how] \in PollRecord
      BY <1>0 DEF PollRecord, Request, Status
    <3>4. poll' \in [PollSlot -> PollRecord]
      BY <1>0, <3>2, <3>3
    <3> QED
      BY <1>0, <3>1, <3>4
  <2> QED
    BY <2>1, <2>2, <2>3, <2>4, <2>5, <2>6 DEF PollStep
<1>3. TypeOK'
  BY <1>1, <1>2 DEF DisplayInv, TypeOK, PollRecord, storeVars, serverVars
<1> QED
  BY <1>1, <1>3, NoConnectionConcerned DEF DisplayInv, serverVars

\* The stores change under whoever reads them.
LEMMA ChangeStep ==
    ASSUME DisplayInv, ChangeTracks \/ ChangeAlerts
    PROVE  DisplayInv'
<1>1. UNCHANGED <<serverVars, wire, browserVars, faults>>
  BY DEF ChangeTracks, ChangeAlerts
<1>2. tracks' \subseteq Track /\ alerts' \subseteq Track
  BY DEF ChangeTracks, ChangeAlerts, DisplayInv, TypeOK
<1>3. changes' \in 0..MaxChanges
  BY DisplayAssumption DEF DisplayAssumption, ChangeTracks, ChangeAlerts, DisplayInv, TypeOK
<1>4. TypeOK'
  BY <1>1, <1>2, <1>3 DEF DisplayInv, TypeOK, serverVars, browserVars
<1> QED
  BY <1>1, <1>4, NoConnectionConcerned DEF DisplayInv, serverVars, browserVars

\* Of a connection that breaks the viewer hears nothing but that.
LEMMA LoseStep ==
    ASSUME DisplayInv, NEW s \in Connection, Lose(s)
    PROVE  DisplayInv'
<1> USE Names, MessageType
<1>1. /\ gone' = gone \cup {s} /\ wire' = [wire EXCEPT ![s] = <<Closed>>]
      /\ UNCHANGED <<storeVars, handler, clients, frame, stage, to, browserVars, changes>>
      /\ wire \in [Connection -> Seq(Message)]
  BY DEF Lose, DisplayInv, TypeOK
<1>2. /\ wire' \in [Connection -> Seq(Message)] /\ Closed \in ToSet(wire'[s])
      /\ \A q \in Connection : q # s => wire'[q] = wire[q]
  BY <1>1, OneMessage
<1>3. faults' \in 0..MaxFaults
  BY DisplayAssumption DEF DisplayAssumption, Lose, DisplayInv, TypeOK
<1>4. TypeOK'
  BY <1>1, <1>2, <1>3 DEF DisplayInv, TypeOK, storeVars, browserVars
<1>5. PollsUntilConnected'
  BY <1>1 DEF DisplayInv, PollsUntilConnected, browserVars
<1>6. ASSUME NEW q \in Connection PROVE ConnectionInv(q)'
  <2>1. Served(q) /\ UntouchedBefore(q) /\ WillHear(q)
    BY DEF DisplayInv, ConnectionInv
  <2>2. UNCHANGED <<handler, clients, to, current, polling>>
    BY <1>1 DEF browserVars
  <2>3. Served(q)'
    BY <1>1, <2>1, <2>2 DEF Served
  <2>4. UntouchedBefore(q)'
    BY <1>1, <1>2, <2>1, <2>2 DEF UntouchedBefore
  <2>5. WillHear(q)'
    BY <1>1, <1>2, <2>1, <2>2 DEF WillHear
  <2> QED
    BY <2>3, <2>4, <2>5 DEF ConnectionInv
<1> QED
  BY <1>4, <1>5, <1>6 DEF DisplayInv

\* What a guest reads is nothing to the browser.
LEMMA GuestReadsStep ==
    ASSUME DisplayInv, NEW s \in Guest, GuestReads(s)
    PROVE  DisplayInv'
<1> USE Names
<1>1. /\ wire[s] # <<>> /\ wire' = [wire EXCEPT ![s] = Tail(@)]
      /\ UNCHANGED <<storeVars, serverVars, browserVars, bounds>>
      /\ wire \in [Connection -> Seq(Message)] /\ s # current
  BY DisplayAssumption DEF DisplayAssumption, GuestReads, DisplayInv, TypeOK
<1>2. /\ wire' \in [Connection -> Seq(Message)]
      /\ \A q \in Connection : q # s => wire'[q] = wire[q]
  BY <1>1, TailMessage
<1>3. TypeOK'
  BY <1>1, <1>2 DEF DisplayInv, TypeOK, storeVars, serverVars, browserVars, bounds
<1>4. PollsUntilConnected'
  BY <1>1 DEF DisplayInv, PollsUntilConnected, browserVars
<1>5. ASSUME NEW q \in Connection PROVE ConnectionInv(q)'
  <2>1. Served(q) /\ UntouchedBefore(q) /\ WillHear(q)
    BY DEF DisplayInv, ConnectionInv
  <2>2. UNCHANGED <<handler, clients, gone, to, current, polling>>
    BY <1>1 DEF serverVars, browserVars
  <2>3. Served(q)'
    BY <2>1, <2>2 DEF Served
  <2>4. UntouchedBefore(q)'
    BY <1>1, <1>2, <2>1, <2>2 DEF UntouchedBefore
  <2>5. WillHear(q)'
    BY <1>1, <1>2, <2>1, <2>2 DEF WillHear
  <2> QED
    BY <2>3, <2>4, <2>5 DEF ConnectionInv
<1> QED
  BY <1>3, <1>4, <1>5 DEF DisplayInv

-----------------------------------------------------------------------------

\* The inductive invariant holds, in whatever order handlers, broadcaster,
\* browser, network and viewers take their steps.
THEOREM DisplayCorrect == Spec => []DisplayInv
<1>1. Init => DisplayInv
  BY InitInv
<1>2. DisplayInv /\ [Next]_vars => DisplayInv'
  <2> SUFFICES ASSUME DisplayInv, [Next]_vars PROVE DisplayInv'
    OBVIOUS
  <2>1. CASE \E s \in Connection : Handle(s)
    BY <2>1, RefuseStep, RegisterStep, SnapshotStep, DisconnectStep DEF Handle
  <2>2. CASE Broadcast
    BY <2>2, FrameStep, ReadAlertsStep, SendStep, TimeOutStep DEF Broadcast
  <2>3. CASE Connect
    BY <2>3, ConnectStep
  <2>4. CASE Browse
    BY <2>4, OnOpenStep, OnMessageStep, OnCloseStep DEF Browse
  <2>5. CASE \E p \in PollSlot : Poll(p) \/ PollStep(p)
    BY <2>5, PollStepInv
  <2>6. CASE ChangeTracks \/ ChangeAlerts
    BY <2>6, ChangeStep
  <2>7. CASE \E s \in Guest : GuestReads(s)
    BY <2>7, GuestReadsStep
  <2>8. CASE Fault
    BY <2>8, FrameStep, SnapshotStep, LoseStep, PollStepInv DEF Fault
  <2>9. CASE UNCHANGED vars
    <3>1. UNCHANGED <<storeVars, serverVars, wire, browserVars, bounds>>
      BY <2>9 DEF vars
    <3>2. TypeOK'
      BY <3>1 DEF DisplayInv, TypeOK, storeVars, serverVars, browserVars, bounds
    <3> QED
      BY <3>1, <3>2, NoConnectionConcerned DEF DisplayInv, serverVars, browserVars
  <2> QED
    BY <2>1, <2>2, <2>3, <2>4, <2>5, <2>6, <2>7, <2>8, <2>9 DEF Next
<1> QED
  BY <1>1, <1>2, PTL DEF Spec

\* Messages, frames, polls and the screen keep their types.
THEOREM TypeCorrect == Spec => []TypeOK
<1>1. DisplayInv => TypeOK
  BY DEF DisplayInv
<1> QED
  BY <1>1, DisplayCorrect, PTL

\* The browser polls, or the broadcaster counts it among its clients, or it will
\* hear that its connection is over; and the clients are the accepted viewers.
THEOREM FedCorrect == Spec => []AlwaysFed
<1>1. DisplayInv => AlwaysFed
  <2> SUFFICES ASSUME DisplayInv PROVE AlwaysFed
    OBVIOUS
  <2>1. ClientsAreViewers
    BY DEF DisplayInv, ConnectionInv, Served, ClientsAreViewers
  <2>2. ASSUME ~ polling
        PROVE  current # NoSocket /\ (current \in clients \/ Closed \in ToSet(wire[current]))
    <3>1. current # NoSocket /\ current \in Connection
      BY <2>2, Names DEF DisplayInv, PollsUntilConnected, TypeOK
    <3>2. Served(current) /\ WillHear(current)
      BY <3>1 DEF DisplayInv, ConnectionInv
    <3> QED
      BY <2>2, <3>1, <3>2 DEF Served, WillHear
  <2> QED
    BY <2>1, <2>2 DEF AlwaysFed
<1> QED
  BY <1>1, DisplayCorrect, PTL

=============================================================================
