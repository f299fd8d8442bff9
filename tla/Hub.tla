---------------------------------- MODULE Hub ----------------------------------
(***************************************************************************)
(* The realtime hub of one game: connections that register while events    *)
(* are broadcast, clients that cannot keep up, connections closed from     *)
(* four sides at once and the shutdown of the server.                      *)
(*                                                                         *)
(* Of each client the goroutine of its handler (run, readPump) and its     *)
(* writer (writePump) are actors; so is each handler that broadcasts, and  *)
(* so is the shutdown.  A critical section of Hub.mu, a select and a       *)
(* sync.Once are one action each.                                          *)
(***************************************************************************)
EXTENDS Naturals, Sequences

CONSTANTS
  Clients,       \* connections after their handshake
  Broadcasters,  \* handlers and schedulers that broadcast at a time
  Capacity,      \* of Client.send, 32
  MaxEvents,     \* events broadcast (bound)
  NoClient       \* nobody is being closed

ASSUME ClientsAssumption == NoClient \notin Clients
ASSUME NumbersAssumption == Capacity \in Nat \ {0} /\ MaxEvents \in Nat

Events == 1 .. MaxEvents
None == 0

VARIABLES
  closed,     \* Hub.closed
  registered, \* Hub.games[gameID]
  handler,    \* where run is
  writer,     \* where writePump is
  writes,     \* the event writePump is writing
  once,       \* Client.close: "fresh", "closing" (done is closed) or "over"
  send,       \* Client.send
  cast,       \* each broadcast: its event, the clients left and the one it closes
  shutdown,   \* Hub.Close: the clients left and the one it closes
  sent,       \* events broadcast so far
  owed        \* broadcast while a client was registered and not received

hub == <<closed, registered>>
pump == <<writer, writes>>
events == <<sent, owed>>
vars == <<hub, handler, pump, once, send, cast, shutdown, events>>

Rest == [event |-> None, left |-> {}, closes |-> NoClient]

(* Every actor is somewhere in its code and buffers keep their capacity.   *)
TypeOK ==
  /\ closed \in BOOLEAN /\ registered \subseteq Clients
  /\ handler \in [Clients -> {"new", "refused", "reading", "leaving", "gone"}]
  /\ writer \in [Clients -> {"none", "waiting", "writing", "leaving", "gone"}]
  /\ writes \in [Clients -> Events \cup {None}]
  /\ once \in [Clients -> {"fresh", "closing", "over"}]
  /\ send \in [Clients -> Seq(Events)]
  /\ \A c \in Clients : Len(send[c]) <= Capacity
  /\ cast \in [Broadcasters ->
       [event : Events \cup {None}, left : SUBSET Clients, closes : Clients \cup {NoClient}]]
  /\ shutdown \in [left : SUBSET Clients, closes : Clients \cup {NoClient}]
  /\ sent \in 0 .. MaxEvents
  /\ owed \in [Clients -> SUBSET Events]

-------------------------------------------------------------------------------
(* Client.close.  Whoever comes first closes done and then the connection; *)
(* the others wait until it has.                                           *)

Done(c) == once[c] # "fresh"

\* once after c.close() was called.
Closing(c) == [once EXCEPT ![c] = IF @ = "fresh" THEN "closing" ELSE @]

\* WriteControl, written or timed out, and conn.Close.
ConnectionCloses(c) ==
  /\ once[c] = "closing"
  /\ once' = [once EXCEPT ![c] = "over"]
  /\ UNCHANGED <<hub, handler, pump, send, cast, shutdown, events>>

-------------------------------------------------------------------------------
(* The handler of a connection.                                            *)

Register(c) ==
  /\ handler[c] = "new"
  /\ \/ /\ ~closed
        /\ registered' = registered \cup {c}
        /\ handler' = [handler EXCEPT ![c] = "reading"]
        /\ writer' = [writer EXCEPT ![c] = "waiting"]
        /\ UNCHANGED once
     \/ /\ closed
        /\ handler' = [handler EXCEPT ![c] = "refused"]
        /\ once' = Closing(c)
        /\ UNCHANGED <<registered, writer>>
  /\ UNCHANGED <<closed, writes, send, cast, shutdown, events>>

\* The browser left, its pongs stopped, or the connection was closed here.
ReadFails(c) ==
  /\ handler[c] = "reading"
  /\ handler' = [handler EXCEPT ![c] = "leaving"]
  /\ once' = Closing(c)
  /\ UNCHANGED <<hub, pump, send, cast, shutdown, events>>

\* The mutant without the deferred Unregister.
ReturnsRegistered(c) ==
  /\ once[c] = "over"
  /\ handler[c] = "refused" \/ (handler[c] = "leaving" /\ writer[c] = "gone")
  /\ handler' = [handler EXCEPT ![c] = "gone"]
  /\ UNCHANGED <<hub, pump, once, send, cast, shutdown, events>>

\* writerDone was closed; Unregister, except after a refusal.
Returns(c) ==
  /\ once[c] = "over"
  /\ handler[c] = "refused" \/ (handler[c] = "leaving" /\ writer[c] = "gone")
  /\ handler' = [handler EXCEPT ![c] = "gone"]
  /\ registered' = registered \ {c}
  /\ UNCHANGED <<closed, pump, once, send, cast, shutdown, events>>

-------------------------------------------------------------------------------
(* The writer of a connection.                                             *)

\* A ping that is written changes nothing; one that fails is in WriterLeaves.
WriterTakes(c) ==
  /\ writer[c] = "waiting" /\ send[c] # <<>>
  /\ writes' = [writes EXCEPT ![c] = Head(send[c])]
  /\ send' = [send EXCEPT ![c] = Tail(@)]
  /\ writer' = [writer EXCEPT ![c] = "writing"]
  /\ UNCHANGED <<hub, handler, once, cast, shutdown, events>>

WriteSucceeds(c) ==
  /\ writer[c] = "writing" /\ once[c] # "over"
  /\ writer' = [writer EXCEPT ![c] = "waiting"]
  /\ writes' = [writes EXCEPT ![c] = None]
  /\ owed' = [owed EXCEPT ![c] = @ \ {writes[c]}]
  /\ UNCHANGED <<hub, handler, once, send, cast, shutdown, sent>>

\* The mutant that gives up an event and keeps the connection.
WriterGoesOn(c) ==
  /\ \/ writer[c] = "waiting" /\ Done(c)
     \/ writer[c] = "writing"
  /\ writer' = [writer EXCEPT ![c] = IF Done(c) THEN "leaving" ELSE "waiting"]
  /\ writes' = [writes EXCEPT ![c] = None]
  /\ UNCHANGED <<hub, handler, once, send, cast, shutdown, events>>

\* done is closed, or a write or a ping met its deadline or a broken connection.
WriterLeaves(c) ==
  /\ writer[c] \in {"waiting", "writing"}
  /\ writer' = [writer EXCEPT ![c] = "leaving"]
  /\ writes' = [writes EXCEPT ![c] = None]
  /\ once' = Closing(c)
  /\ UNCHANGED <<hub, handler, send, cast, shutdown, events>>

WriterReturns(c) ==
  /\ writer[c] = "leaving" /\ once[c] = "over"
  /\ writer' = [writer EXCEPT ![c] = "gone"]
  /\ UNCHANGED <<hub, handler, writes, once, send, cast, shutdown, events>>

-------------------------------------------------------------------------------
(* Broadcast.                                                              *)

BroadcastBegins(b) ==
  /\ cast[b].left = {} /\ cast[b].closes = NoClient
  /\ sent < MaxEvents
  /\ sent' = sent + 1
  /\ cast' = [cast EXCEPT ![b] = [Rest EXCEPT !.event = sent + 1, !.left = registered]]
  /\ owed' = [c \in Clients |->
                IF c \in registered THEN owed[c] \cup {sent + 1} ELSE owed[c]]
  /\ UNCHANGED <<hub, handler, pump, once, send, shutdown>>

\* The mutant that waits for room.
WaitsWhenFull(b, c) ==
  /\ cast[b].closes = NoClient /\ c \in cast[b].left
  /\ cast' = [cast EXCEPT ![b].left = @ \ {c}]
  /\ Len(send[c]) < Capacity
  /\ send' = [send EXCEPT ![c] = Append(@, cast[b].event)]
  /\ UNCHANGED <<hub, handler, pump, once, shutdown, events>>

\* enqueue: a select over done, send and default.
Enqueue(b, c) ==
  /\ cast[b].closes = NoClient /\ c \in cast[b].left
  /\ \/ /\ Done(c)
        /\ cast' = [cast EXCEPT ![b].left = @ \ {c}]
        /\ UNCHANGED <<once, send>>
     \/ /\ Len(send[c]) < Capacity
        /\ cast' = [cast EXCEPT ![b].left = @ \ {c}]
        /\ send' = [send EXCEPT ![c] = Append(@, cast[b].event)]
        /\ UNCHANGED once
     \/ /\ ~Done(c) /\ Len(send[c]) = Capacity
        /\ cast' = [cast EXCEPT ![b].left = @ \ {c}, ![b].closes = c]
        /\ once' = Closing(c)
        /\ UNCHANGED send
  /\ UNCHANGED <<hub, handler, pump, shutdown, events>>

CloseReturns(b) ==
  /\ cast[b].closes # NoClient /\ once[cast[b].closes] = "over"
  /\ cast' = [cast EXCEPT ![b].closes = NoClient]
  /\ UNCHANGED <<hub, handler, pump, once, send, shutdown, events>>

-------------------------------------------------------------------------------
(* Hub.Close.                                                              *)

HubCloses ==
  /\ ~closed /\ closed' = TRUE
  /\ shutdown' = [shutdown EXCEPT !.left = registered]
  /\ registered' = {}
  /\ UNCHANGED <<handler, pump, once, send, cast, events>>

\* The mutant that empties the map and closes nobody.
ShutdownForgets ==
  /\ shutdown.left # {}
  /\ shutdown' = [shutdown EXCEPT !.left = {}]
  /\ UNCHANGED <<hub, handler, pump, once, send, cast, events>>

ShutdownProceeds ==
  /\ \/ /\ shutdown.closes = NoClient
        /\ \E c \in shutdown.left :
             /\ shutdown' = [left |-> shutdown.left \ {c}, closes |-> c]
             /\ once' = Closing(c)
     \/ /\ shutdown.closes # NoClient /\ once[shutdown.closes] = "over"
        /\ shutdown' = [shutdown EXCEPT !.closes = NoClient]
        /\ UNCHANGED once
  /\ UNCHANGED <<hub, handler, pump, send, cast, events>>

Init ==
  /\ closed = FALSE /\ registered = {}
  /\ handler = [c \in Clients |-> "new"] /\ writer = [c \in Clients |-> "none"]
  /\ writes = [c \in Clients |-> None] /\ once = [c \in Clients |-> "fresh"]
  /\ send = [c \in Clients |-> <<>>]
  /\ cast = [b \in Broadcasters |-> Rest]
  /\ shutdown = [left |-> {}, closes |-> NoClient]
  /\ sent = 0
  /\ owed = [c \in Clients |-> {}]

Handles(c) == Register(c) \/ Returns(c) \/ (Done(c) /\ ReadFails(c))
Writes(c) ==
  \/ WriterTakes(c) \/ WriteSucceeds(c) \/ WriterReturns(c)
  \/ (writer[c] = "writing" \/ Done(c)) /\ WriterLeaves(c)
Broadcasts(b) == CloseReturns(b) \/ \E c \in Clients : Enqueue(b, c)

Next ==
  \/ \E c \in Clients :
       ConnectionCloses(c) \/ Handles(c) \/ ReadFails(c) \/ Writes(c) \/ WriterLeaves(c)
  \/ \E b \in Broadcasters : BroadcastBegins(b) \/ Broadcasts(b)
  \/ HubCloses \/ ShutdownProceeds

Spec == Init /\ [][Next]_vars

(* Goroutines are scheduled, deadlines end each write and each close, and  *)
(* a select does not pass over the closed done for ever.  Nothing makes a  *)
(* read or a ping fail while the connection is open.                       *)
Fairness ==
  /\ \A c \in Clients :
       /\ WF_vars(ConnectionCloses(c)) /\ WF_vars(Handles(c)) /\ WF_vars(Writes(c))
       /\ SF_vars(Done(c) /\ WriterLeaves(c))
  /\ \A b \in Broadcasters : WF_vars(Broadcasts(b))
  /\ WF_vars(ShutdownProceeds)

FairSpec == Spec /\ Fairness

-------------------------------------------------------------------------------
(* Properties.                                                             *)

(* Nothing is skipped: an event broadcast while a client was registered is *)
(* on its way to it, or the client is being closed and its browser will    *)
(* open another connection and read everything again.                      *)
NothingSkipped ==
  \A c \in Clients : \A e \in owed[c] :
    \/ Done(c)
    \/ \E i \in 1 .. Len(send[c]) : send[c][i] = e
    \/ writer[c] = "writing" /\ writes[c] = e
    \/ \E b \in Broadcasters : cast[b].event = e /\ c \in cast[b].left

(* The registry is exactly the connections whose handler is running, and   *)
(* empty once the hub is closed: none leaks, none is orphaned.             *)
RegistryIsExact ==
  registered = IF closed THEN {}
               ELSE {c \in Clients : handler[c] \in {"reading", "leaving"}}

(* A broadcast ends although no browser reads and no other event follows.  *)
BroadcastEnds ==
  \A b \in Broadcasters :
    cast[b].left # {} ~> cast[b].left = {} /\ cast[b].closes = NoClient

(* After the hub was closed no handler keeps a connection open.            *)
ShutdownLetsGo == closed ~> \A c \in Clients : handler[c] \in {"new", "gone"}

===============================================================================
