------------------------------ MODULE Display ------------------------------
(***************************************************************************)
(* The API and its display: the stream handler of services/api/app.py, the *)
(* broadcaster of stream.py, and the browser (static/app.js), which shows  *)
(* the frames of its WebSocket and polls while it has none.                *)
(*                                                                         *)
(* A picture is the set of the aircraft in the live window and the set of  *)
(* those named by an alert; LivePicture has the store they are read from.  *)
(* One browser is modelled.  Other viewers are guests: connections that    *)
(* read what they are sent when they please, or never.                     *)
(***************************************************************************)
EXTENDS Naturals, Sequences, FiniteSets, SequencesExt

CONSTANTS
    Track,
    Socket,           \* connections of the browser, which it uses again and again
    Guest,            \* connections of other viewers
    NoSocket,
    PollSlot,         \* polls that may be under way at once
    Buffer,           \* what a connection holds before a send must wait
    Origins,          \* where the browser may have the page from
    NoOrigin, Host, Permitted,
    MaxChanges, MaxFaults   \* bounds

ASSUME DisplayAssumption ==
    /\ NoSocket \notin Socket \cup Guest /\ Socket \cap Guest = {}
    /\ PollSlot \cap (Socket \cup Guest) = {}
    /\ "broadcaster" \notin Socket \cup Guest \cup PollSlot
    /\ Buffer \in Nat \ {0}
    /\ MaxChanges \in Nat /\ MaxFaults \in Nat

Connection == Socket \cup Guest
Reader == Connection \cup {"broadcaster"}
StreamFrame == [tracks : SUBSET Track, alerts : SUBSET Track]

\* What a connection carries to its viewer.
Message == [event : {"open", "message", "close"}, data : StreamFrame]
Nothing == [tracks |-> {}, alerts |-> {}]
Opened == [event |-> "open", data |-> Nothing]
Closed == [event |-> "close", data |-> Nothing]
\* A frame of tracks only.
DataWithoutAlerts(s, f) == [event |-> "message", data |-> [tracks |-> f.tracks]]
\* What a guest is sent is left out.
Data(s, f) == [event |-> "message", data |-> IF s \in Guest THEN Nothing ELSE f]

VARIABLES
    tracks, alerts,   \* what the stores hold
    handler,          \* connection -> where the server's handler of it is
    clients,          \* the broadcaster's clients
    gone,             \* connections that are over, as the server may yet notice
    frame,            \* reader -> the frame it is putting together
    stage,            \* where the broadcaster is
    to,               \* the clients this frame has still to be sent to
    wire,             \* connection -> what is on its way to the viewer
    origin,
    current,          \* the browser's socket
    polling,          \* its poll timer is set
    poll,             \* poll -> its two requests
    shown,            \* what is on the screen
    changes, faults

storeVars == <<tracks, alerts>>
serverVars == <<handler, clients, gone, frame, stage, to>>
browserVars == <<origin, current, polling, poll, shown>>
bounds == <<changes, faults>>
vars == <<storeVars, serverVars, wire, browserVars, bounds>>

-----------------------------------------------------------------------------
(* The handler of a connection. *)

\* No origin, the page's own host, or one that is configured.
OriginIsAllowed(from) == from = NoOrigin \/ from = Host \/ from \in Permitted

Allowed(s) == s \in Guest \/ OriginIsAllowed(origin)

HandlerStage == {"none", "asked", "tracks", "alerts", "sending", "receiving", "over"}
Registered == {"tracks", "alerts", "sending", "receiving"}

\* A send waits for room, and raises on a connection that is over.
Sent(s, message) == IF s \in gone THEN wire ELSE [wire EXCEPT ![s] = Append(@, message)]
CanSend(s) == s \in gone \/ Len(wire[s]) < Buffer

\* Refused before it is accepted, or already given up by the viewer.
Refuse(s) ==
    /\ handler[s] = "asked"
    /\ s \in gone \/ ~ Allowed(s)
    /\ handler' = [handler EXCEPT ![s] = "over"]
    /\ gone' = gone \cup {s}
    /\ wire' = Sent(s, Closed)
    /\ UNCHANGED <<storeVars, clients, frame, stage, to, browserVars, bounds>>

\* register: the connection is a client before it has its first frame.
Register(s) ==
    /\ handler[s] = "asked" /\ s \notin gone /\ Allowed(s)
    /\ handler' = [handler EXCEPT ![s] = "tracks"]
    /\ clients' = clients \cup {s}
    /\ wire' = [wire EXCEPT ![s] = Append(@, Opened)]
    /\ UNCHANGED <<storeVars, gone, frame, stage, to, browserVars, bounds>>

SnapshotTracks(s) ==
    /\ handler[s] = "tracks"
    /\ frame' = [frame EXCEPT ![s].tracks = tracks]
    /\ handler' = [handler EXCEPT ![s] = "alerts"]
    /\ UNCHANGED <<storeVars, clients, gone, stage, to, wire, browserVars, bounds>>

SnapshotAlerts(s) ==
    /\ handler[s] = "alerts"
    /\ frame' = [frame EXCEPT ![s].alerts = alerts]
    /\ handler' = [handler EXCEPT ![s] = "sending"]
    /\ UNCHANGED <<storeVars, clients, gone, stage, to, wire, browserVars, bounds>>

\* Whatever the first frame meets, the connection stays a client.
SendSnapshot(s) ==
    /\ handler[s] = "sending" /\ CanSend(s)
    /\ wire' = Sent(s, Data(s, frame[s]))
    /\ frame' = [frame EXCEPT ![s] = Nothing]
    /\ handler' = [handler EXCEPT ![s] = "receiving"]
    /\ UNCHANGED <<storeVars, clients, gone, stage, to, browserVars, bounds>>

SnapshotFails(s) ==
    /\ handler[s] \in {"tracks", "alerts"} /\ faults < MaxFaults
    /\ handler' = [handler EXCEPT ![s] = "receiving"]
    /\ frame' = [frame EXCEPT ![s] = Nothing]
    /\ faults' = faults + 1
    /\ UNCHANGED <<storeVars, clients, gone, stage, to, wire, browserVars, changes>>

Disconnect(s) ==
    /\ handler[s] = "receiving" /\ s \in gone
    /\ handler' = [handler EXCEPT ![s] = "over"]
    /\ clients' = clients \ {s}
    /\ UNCHANGED <<storeVars, gone, frame, stage, to, wire, browserVars, bounds>>

-----------------------------------------------------------------------------
(* The broadcaster. *)

BroadcasterStage == {"asleep", "alerts", "sending"}

\* Nothing is read while nobody watches.
ReadTracks ==
    /\ stage = "asleep" /\ clients # {}
    /\ frame' = [frame EXCEPT !["broadcaster"].tracks = tracks]
    /\ stage' = "alerts"
    /\ UNCHANGED <<storeVars, handler, clients, gone, to, wire, browserVars, bounds>>

\* The frame goes to a copy of the set of clients.
ReadAlerts ==
    /\ stage = "alerts"
    /\ frame' = [frame EXCEPT !["broadcaster"].alerts = alerts]
    /\ stage' = "sending"
    /\ to' = clients
    /\ UNCHANGED <<storeVars, handler, clients, gone, wire, browserVars, bounds>>

\* One bad tick does not end the loop.
ReadFails ==
    /\ stage = "alerts" /\ faults < MaxFaults
    /\ stage' = "asleep"
    /\ frame' = [frame EXCEPT !["broadcaster"] = Nothing]
    /\ faults' = faults + 1
    /\ UNCHANGED <<storeVars, handler, clients, gone, to, wire, browserVars, changes>>

Send(s) ==
    /\ stage = "sending" /\ s \in to /\ CanSend(s)
    /\ wire' = Sent(s, Data(s, frame["broadcaster"]))
    /\ clients' = IF s \in gone THEN clients \ {s} ELSE clients
    /\ to' = to \ {s}
    /\ UNCHANGED <<storeVars, handler, gone, frame, stage, browserVars, bounds>>

\* A client that does not take a frame in time is dropped and told so.
DropWithoutClosing(s) ==
    /\ clients' = clients \ {s}
    /\ UNCHANGED <<gone, wire>>
Drop(s) ==
    /\ clients' = clients \ {s}
    /\ gone' = gone \cup {s}
    /\ wire' = [wire EXCEPT ![s] = Append(@, Closed)]

\* Without a deadline on a send.
TimeOutNever(s) == FALSE
TimeOut(s) ==
    /\ stage = "sending" /\ s \in to /\ ~ CanSend(s)
    /\ Drop(s)
    /\ to' = to \ {s}
    /\ UNCHANGED <<storeVars, handler, frame, stage, browserVars, bounds>>

Sleep ==
    /\ stage = "sending" /\ to = {}
    /\ stage' = "asleep"
    /\ frame' = [frame EXCEPT !["broadcaster"] = Nothing]
    /\ UNCHANGED <<storeVars, handler, clients, gone, to, wire, browserVars, bounds>>

-----------------------------------------------------------------------------
(* The browser. *)

\* Nothing is left of the connection on either side.
Unused ==
    {s \in Socket : /\ handler[s] \in {"none", "over"} /\ s \notin clients \cup to
                    /\ wire[s] = <<>>}

Connect ==
    /\ current = NoSocket
    /\ \E s \in Unused :
          /\ current' = s
          /\ handler' = [handler EXCEPT ![s] = "asked"]
          /\ gone' = gone \ {s}
    /\ UNCHANGED <<storeVars, clients, frame, stage, to, wire, origin, polling, poll, shown,
                   bounds>>

Event(event) ==
    /\ current # NoSocket
    /\ wire[current] # <<>> /\ Head(wire[current]).event = event
    /\ wire' = [wire EXCEPT ![current] = Tail(@)]

OnOpen ==
    /\ Event("open")
    /\ polling' = FALSE
    /\ UNCHANGED <<storeVars, serverVars, origin, current, poll, shown, bounds>>

\* updateAlerts and ingest: the frame takes the place of all that was shown.
OnMessage ==
    /\ Event("message")
    /\ shown' = Head(wire[current]).data
    /\ UNCHANGED <<storeVars, serverVars, origin, current, polling, poll, bounds>>

\* A poll is a request for tracks and one for alerts, answered in any order.
Status == {"idle", "asked", "ok", "error", "lost"}
Request == [status : Status, body : SUBSET Track]
Idle == [status |-> "idle", body |-> {}]
Asked == [status |-> "asked", body |-> {}]
Ok(body) == [status |-> "ok", body |-> body]
NoPoll == [tracks |-> Idle, alerts |-> Idle, alerts_shown |-> FALSE]
Waiting == [tracks |-> Asked, alerts |-> Asked, alerts_shown |-> FALSE]

Poll(p) ==
    /\ polling /\ poll[p] = NoPoll
    /\ poll' = [poll EXCEPT ![p] = Waiting]
    /\ UNCHANGED <<storeVars, serverVars, wire, origin, current, polling, shown, bounds>>

\* The timer's first poll is at once, unless it is set already.
StartPolling ==
    /\ polling' = TRUE
    /\ IF polling \/ \A p \in PollSlot : poll[p] # NoPoll THEN UNCHANGED poll
       ELSE \E p \in PollSlot : poll[p] = NoPoll /\ poll' = [poll EXCEPT ![p] = Waiting]

OnClose ==
    /\ Event("close")
    /\ current' = NoSocket
    /\ StartPolling
    /\ UNCHANGED <<storeVars, serverVars, origin, shown, bounds>>

AnswerTracks(p) ==
    /\ poll[p].tracks = Asked
    /\ poll' = [poll EXCEPT ![p].tracks = Ok(tracks)]
    /\ UNCHANGED <<storeVars, serverVars, wire, origin, current, polling, shown, bounds>>

AnswerAlerts(p) ==
    /\ poll[p].alerts = Asked
    /\ poll' = [poll EXCEPT ![p].alerts = Ok(alerts)]
    /\ UNCHANGED <<storeVars, serverVars, wire, origin, current, polling, shown, bounds>>

\* A request meets an error of the server, or none is answered at all.
RequestFails(p) ==
    /\ faults < MaxFaults
    /\ faults' = faults + 1
    /\ \E how \in {"error", "lost"} :
          \/ poll[p].tracks = Asked /\ poll' = [poll EXCEPT ![p].tracks.status = how]
          \/ poll[p].alerts = Asked /\ poll' = [poll EXCEPT ![p].alerts.status = how]
    /\ UNCHANGED <<storeVars, serverVars, wire, origin, current, polling, shown, changes>>

Answered(p) ==
    {poll[p].tracks.status, poll[p].alerts.status} \subseteq {"ok", "error"}

PollThrows(p) ==
    /\ \/ "lost" \in {poll[p].tracks.status, poll[p].alerts.status}
       \/ Answered(p) /\ poll[p].tracks.status = "error"
    /\ poll' = [poll EXCEPT ![p] = NoPoll]
    /\ UNCHANGED <<storeVars, serverVars, wire, origin, current, polling, shown, bounds>>

\* Alerts that did not come leave the alerts as they are.
ShowAlerts(p) ==
    /\ Answered(p) /\ poll[p].tracks.status = "ok" /\ ~ poll[p].alerts_shown
    /\ shown' = [shown EXCEPT !.alerts = IF poll[p].alerts.status = "ok" THEN poll[p].alerts.body ELSE @]
    /\ poll' = [poll EXCEPT ![p].alerts_shown = TRUE]
    /\ UNCHANGED <<storeVars, serverVars, wire, origin, current, polling, bounds>>

\* It is shown even if the socket has brought a later picture meanwhile.
ShowTracks(p) ==
    /\ poll[p].alerts_shown
    /\ shown' = [shown EXCEPT !.tracks = poll[p].tracks.body]
    /\ poll' = [poll EXCEPT ![p] = NoPoll]
    /\ UNCHANGED <<storeVars, serverVars, wire, origin, current, polling, bounds>>

-----------------------------------------------------------------------------
(* The stores, the network and the other viewers. *)

ChangeTracks ==
    /\ changes < MaxChanges
    /\ changes' = changes + 1
    /\ tracks' \in SUBSET Track \ {tracks}
    /\ UNCHANGED <<alerts, serverVars, wire, browserVars, faults>>

ChangeAlerts ==
    /\ changes < MaxChanges
    /\ changes' = changes + 1
    /\ alerts' \in SUBSET Track \ {alerts}
    /\ UNCHANGED <<tracks, serverVars, wire, browserVars, faults>>

\* A connection breaks: its viewer finds it closed, the server in time as well.
Lose(s) ==
    /\ faults < MaxFaults
    /\ handler[s] \in Registered \cup {"asked"} /\ s \notin gone
    /\ faults' = faults + 1
    /\ gone' = gone \cup {s}
    /\ wire' = [wire EXCEPT ![s] = <<Closed>>]
    /\ UNCHANGED <<storeVars, handler, clients, frame, stage, to, browserVars, changes>>

GuestReads(s) ==
    /\ wire[s] # <<>>
    /\ wire' = [wire EXCEPT ![s] = Tail(@)]
    /\ UNCHANGED <<storeVars, serverVars, browserVars, bounds>>

-----------------------------------------------------------------------------
Init ==
    /\ tracks = {} /\ alerts = {}
    /\ handler = [s \in Connection |-> IF s \in Guest THEN "receiving" ELSE "none"]
    /\ clients = Guest /\ gone = {}
    /\ frame = [r \in Reader |-> Nothing]
    /\ stage = "asleep" /\ to = {}
    /\ wire = [s \in Connection |-> <<>>]
    /\ origin \in Origins
    /\ current = NoSocket
    /\ polling = TRUE
    /\ poll = [p \in PollSlot |-> NoPoll]
    /\ shown = Nothing
    /\ changes = 0 /\ faults = 0

Handle(s) ==
    \/ Refuse(s) \/ Register(s) \/ SnapshotTracks(s) \/ SnapshotAlerts(s)
    \/ SendSnapshot(s) \/ Disconnect(s)
Broadcast ==
    \/ ReadTracks \/ ReadAlerts \/ Sleep
    \/ \E s \in Connection : Send(s) \/ TimeOut(s)
Browse == OnOpen \/ OnMessage \/ OnClose
PollStep(p) ==
    \/ AnswerTracks(p) \/ AnswerAlerts(p) \/ PollThrows(p) \/ ShowAlerts(p) \/ ShowTracks(p)
Fault ==
    \/ ReadFails
    \/ \E s \in Connection : SnapshotFails(s) \/ Lose(s)
    \/ \E p \in PollSlot : RequestFails(p)

Next ==
    \/ \E s \in Connection : Handle(s)
    \/ Broadcast
    \/ Connect \/ Browse
    \/ \E p \in PollSlot : Poll(p) \/ PollStep(p)
    \/ ChangeTracks \/ ChangeAlerts
    \/ \E s \in Guest : GuestReads(s)
    \/ Fault

Spec == Init /\ [][Next]_vars

\* The server's tasks and the browser's go on; requests are answered in the
\* end; nothing is expected of the stores, of faults, or of other viewers.
Fairness ==
    /\ \A s \in Connection : WF_vars(Handle(s))
    /\ WF_vars(Broadcast)
    /\ WF_vars(Connect) /\ WF_vars(Browse)
    /\ \A p \in PollSlot : WF_vars(Poll(p)) /\ WF_vars(PollStep(p))
FairSpec == Spec /\ Fairness

-----------------------------------------------------------------------------
(* Properties. *)

\* Everything has its type.
TypeOK ==
    /\ tracks \subseteq Track /\ alerts \subseteq Track
    /\ handler \in [Connection -> HandlerStage]
    /\ clients \subseteq Connection /\ gone \subseteq Connection /\ to \subseteq Connection
    /\ frame \in [Reader -> StreamFrame]
    /\ stage \in BroadcasterStage
    /\ wire \in [Connection -> Seq(Message)]
    /\ origin \in Origins
    /\ current \in Socket \cup {NoSocket}
    /\ polling \in BOOLEAN
    /\ poll \in [PollSlot -> [tracks : Request, alerts : Request, alerts_shown : BOOLEAN]]
    /\ shown \in StreamFrame
    /\ changes \in 0..MaxChanges /\ faults \in 0..MaxFaults

\* The broadcaster's clients are the connections it has to serve: an accepted
\* connection that is not over is among them, and none stays after its handler.
ClientsAreViewers ==
    \A s \in Connection :
        /\ handler[s] \in Registered /\ s \notin gone => s \in clients
        /\ s \in clients => handler[s] \in Registered

\* The display is never left without a source: while it does not poll, the
\* server counts its connection as a client, or a close is on its way to it; and
\* its clients are its viewers.
AlwaysFed ==
    /\ ClientsAreViewers
    /\ polling \/ /\ current # NoSocket
                  /\ \/ current \in clients
                     \/ Closed \in ToSet(wire[current])

\* When the stores have come to rest the display comes to show what they hold
\* and stays so, through lost connections, failed reads, polls that are answered
\* late, a first frame older than the second, a refused origin, and viewers who
\* stop reading.
PictureSettles == <>[](shown = [tracks |-> tracks, alerts |-> alerts])

=============================================================================
