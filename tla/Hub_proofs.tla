------------------------------- MODULE Hub_proofs -------------------------------
(***************************************************************************)
(* What TLAPS proves about Hub, for every number of connections and        *)
(* broadcasters and every capacity of their buffers.                       *)
(*                                                                         *)
(* NothingSkipped needs to know what a buffer holds: that whatever is left *)
(* to enqueue is an event (HasEvent), that a buffer is a sequence of       *)
(* events, that a writer begins with the registration (NewHasNoWriter) and *)
(* that a connection once closed is never opened again.                    *)
(***************************************************************************)
EXTENDS Hub, TLAPS

\* A broadcast that has clients left to serve has an event for them.
HasEvent == \A b \in Broadcasters : cast[b].left # {} => cast[b].event \in Events

\* A connection has no writer before it is registered.
NewHasNoWriter == \A c \in Clients : handler[c] = "new" => writer[c] = "none"

IInv == TypeOK /\ HasEvent /\ NewHasNoWriter

CastRecord ==
  [event : Events \cup {None}, left : SUBSET Clients, closes : Clients \cup {NoClient}]

-------------------------------------------------------------------------------
(* Lemmas about buffers and connections.                                   *)

LEMMA AppendKeeps ==
  ASSUME NEW s \in Seq(Events), NEW e \in Events
  PROVE  /\ Append(s, e) \in Seq(Events)
         /\ Len(Append(s, e)) = Len(s) + 1
         /\ \A i \in 1 .. Len(s) : Append(s, e)[i] = s[i]
         /\ Append(s, e)[Len(s) + 1] = e
OBVIOUS

LEMMA TailKeeps ==
  ASSUME NEW s \in Seq(Events), s # <<>>
  PROVE  /\ Tail(s) \in Seq(Events) /\ Head(s) \in Events
         /\ Len(Tail(s)) = Len(s) - 1 /\ Len(s) \in Nat \ {0}
         /\ \A i \in 1 .. Len(s) :
              s[i] = Head(s) \/ \E j \in 1 .. Len(Tail(s)) : Tail(s)[j] = s[i]
<1>1. /\ Tail(s) \in Seq(Events) /\ Head(s) \in Events
      /\ Len(Tail(s)) = Len(s) - 1 /\ Len(s) \in Nat \ {0}
  OBVIOUS
<1>2. ASSUME NEW i \in 1 .. Len(s), i # 1
      PROVE  \E j \in 1 .. Len(Tail(s)) : Tail(s)[j] = s[i]
  <2>1. i - 1 \in 1 .. Len(Tail(s))
    BY <1>1, <1>2
  <2>2. Tail(s)[i - 1] = s[i]
    BY <1>1, <1>2, <2>1
  <2> QED
    BY <2>1, <2>2
<1>3. s[1] = Head(s)
  OBVIOUS
<1> QED
  BY <1>1, <1>2, <1>3

(* What a broadcast is after it served a client or closed one.             *)
LEMMA CastKeeps ==
  ASSUME NEW r \in CastRecord, NEW d \in Clients \cup {NoClient}, NEW c
  PROVE  /\ [r EXCEPT !.closes = d] \in CastRecord
         /\ [r EXCEPT !.left = @ \ {c}, !.closes = d] \in CastRecord
         /\ [r EXCEPT !.left = @ \ {c}, !.closes = d].left = r.left \ {c}
         /\ [r EXCEPT !.left = @ \ {c}, !.closes = d].event = r.event
BY DEF CastRecord

(* A connection that was closed stays closed, whoever closes it next.      *)
LEMMA ClosingKeeps ==
  ASSUME TypeOK, NEW c \in Clients, once' = Closing(c)
  PROVE  /\ once' \in [Clients -> {"fresh", "closing", "over"}]
         /\ Done(c)'
         /\ \A d \in Clients : Done(d) => Done(d)'
BY DEF Closing, Done, TypeOK

-------------------------------------------------------------------------------
(* The invariant.                                                          *)

LEMMA InitIInv == Init => IInv
<1> SUFFICES ASSUME Init PROVE IInv
  OBVIOUS
<1>1. /\ send \in [Clients -> Seq(Events)]
      /\ \A c \in Clients : Len(send[c]) <= Capacity
  <2>1. <<>> \in Seq(Events) /\ Len(<<>>) = 0 /\ 0 <= Capacity
    BY NumbersAssumption
  <2> QED
    BY <2>1 DEF Init
<1>2. cast \in [Broadcasters -> CastRecord]
  BY DEF Init, Rest, CastRecord
<1>3. registered \subseteq Clients /\ sent \in 0 .. MaxEvents
  BY NumbersAssumption DEF Init
<1>4. closed \in BOOLEAN
  BY DEF Init
<1>5. /\ handler \in [Clients -> {"new", "refused", "reading", "leaving", "gone"}]
      /\ writer \in [Clients -> {"none", "waiting", "writing", "leaving", "gone"}]
      /\ once \in [Clients -> {"fresh", "closing", "over"}]
      /\ NewHasNoWriter
  BY DEF Init, NewHasNoWriter
<1>6. /\ writes \in [Clients -> Events \cup {None}]
      /\ shutdown \in [left : SUBSET Clients, closes : Clients \cup {NoClient}]
      /\ owed \in [Clients -> SUBSET Events]
  BY DEF Init
<1>7. HasEvent
  BY DEF Init, HasEvent, Rest
<1> QED
  BY <1>1, <1>2, <1>3, <1>4, <1>5, <1>6, <1>7 DEF IInv, TypeOK, CastRecord

LEMMA NextIInv == IInv /\ [Next]_vars => IInv'
<1> SUFFICES ASSUME IInv, [Next]_vars PROVE IInv'
  OBVIOUS
<1> USE NumbersAssumption
<1> TypeOK /\ HasEvent /\ NewHasNoWriter
  BY DEF IInv
<1>1. ASSUME NEW c \in Clients, ConnectionCloses(c) PROVE IInv'
  BY <1>1 DEF ConnectionCloses, hub, pump, events, IInv, TypeOK, HasEvent, NewHasNoWriter
<1>2. ASSUME NEW c \in Clients, Register(c) PROVE IInv'
  <2>1. once' \in [Clients -> {"fresh", "closing", "over"}]
    BY <1>2, ClosingKeeps DEF Register, TypeOK
  <2>2. /\ handler' \in [Clients -> {"new", "refused", "reading", "leaving", "gone"}]
        /\ writer' \in [Clients -> {"none", "waiting", "writing", "leaving", "gone"}]
        /\ registered' \subseteq Clients
        /\ NewHasNoWriter'
    <3>1. CASE /\ registered' = registered \cup {c}
               /\ handler' = [handler EXCEPT ![c] = "reading"]
               /\ writer' = [writer EXCEPT ![c] = "waiting"]
      BY <3>1 DEF TypeOK, NewHasNoWriter
    <3>2. CASE /\ handler' = [handler EXCEPT ![c] = "refused"]
               /\ UNCHANGED <<registered, writer>>
      BY <3>2 DEF TypeOK, NewHasNoWriter
    <3> QED
      BY <1>2, <3>1, <3>2 DEF Register
  <2>3. UNCHANGED <<closed, writes, send, cast, shutdown, events>>
    BY <1>2 DEF Register
  <2> QED
    BY <2>1, <2>2, <2>3 DEF events, IInv, TypeOK, HasEvent, NewHasNoWriter
<1>3. ASSUME NEW c \in Clients, Returns(c) PROVE IInv'
  BY <1>3 DEF Returns, hub, pump, events, IInv, TypeOK, HasEvent, NewHasNoWriter
<1>4. ASSUME NEW c \in Clients, ReadFails(c) PROVE IInv'
  <2>1. once' \in [Clients -> {"fresh", "closing", "over"}]
    BY <1>4, ClosingKeeps DEF ReadFails
  <2> QED
    BY <1>4, <2>1 DEF ReadFails, hub, pump, events, IInv, TypeOK, HasEvent, NewHasNoWriter
<1>5. ASSUME NEW c \in Clients, WriterTakes(c) PROVE IInv'
  <2>1. send[c] \in Seq(Events) /\ send[c] # <<>> /\ Len(send[c]) <= Capacity
    BY <1>5 DEF WriterTakes, TypeOK
  <2>2. /\ Tail(send[c]) \in Seq(Events) /\ Head(send[c]) \in Events
        /\ Len(Tail(send[c])) <= Capacity
    BY <2>1, TailKeeps
  <2>3. /\ send' = [send EXCEPT ![c] = Tail(send[c])]
        /\ writes' = [writes EXCEPT ![c] = Head(send[c])]
    BY <1>5 DEF WriterTakes
  <2>4. /\ send' \in [Clients -> Seq(Events)]
        /\ \A d \in Clients : Len(send'[d]) <= Capacity
        /\ writes' \in [Clients -> Events \cup {None}]
    BY <2>2, <2>3 DEF TypeOK
  <2> QED
    BY <1>5, <2>4 DEF WriterTakes, hub, pump, events, IInv, TypeOK, HasEvent, NewHasNoWriter
<1>6. ASSUME NEW c \in Clients, WriteSucceeds(c) PROVE IInv'
  BY <1>6 DEF WriteSucceeds, hub, pump, events, IInv, TypeOK, HasEvent, NewHasNoWriter
<1>7. ASSUME NEW c \in Clients, WriterReturns(c) PROVE IInv'
  BY <1>7 DEF WriterReturns, hub, pump, events, IInv, TypeOK, HasEvent, NewHasNoWriter
<1>8. ASSUME NEW c \in Clients, WriterLeaves(c) PROVE IInv'
  <2>1. once' \in [Clients -> {"fresh", "closing", "over"}]
    BY <1>8, ClosingKeeps DEF WriterLeaves
  <2> QED
    BY <1>8, <2>1 DEF WriterLeaves, hub, pump, events, IInv, TypeOK, HasEvent, NewHasNoWriter
<1>9. ASSUME NEW b \in Broadcasters, BroadcastBegins(b) PROVE IInv'
  <2>1. sent + 1 \in Events /\ sent + 1 \in 0 .. MaxEvents
    BY <1>9 DEF BroadcastBegins, TypeOK, Events
  <2>2. /\ cast' = [cast EXCEPT ![b] =
                      [Rest EXCEPT !.event = sent + 1, !.left = registered]]
        /\ [Rest EXCEPT !.event = sent + 1, !.left = registered] \in CastRecord
    BY <1>9, <2>1 DEF BroadcastBegins, Rest, CastRecord, TypeOK
  <2>3. cast' \in [Broadcasters -> CastRecord]
    BY <2>2 DEF TypeOK, CastRecord
  <2>4. HasEvent'
    BY <2>1, <2>2 DEF HasEvent, TypeOK, Rest, Events
  <2>5. owed' \in [Clients -> SUBSET Events]
    BY <1>9, <2>1 DEF BroadcastBegins, TypeOK
  <2> QED
    BY <1>9, <2>1, <2>3, <2>4, <2>5
       DEF BroadcastBegins, hub, pump, IInv, TypeOK, CastRecord, NewHasNoWriter
<1>10. ASSUME NEW b \in Broadcasters, CloseReturns(b) PROVE IInv'
  <2>0. cast[b] \in CastRecord
    BY DEF TypeOK, CastRecord
  <2>1. [cast[b] EXCEPT !.closes = NoClient] \in CastRecord
    BY <2>0, CastKeeps
  <2>2. cast' = [cast EXCEPT ![b] = [cast[b] EXCEPT !.closes = NoClient]]
    BY <1>10 DEF CloseReturns
  <2>3. cast' \in [Broadcasters -> CastRecord] /\ HasEvent'
    BY <2>1, <2>2 DEF TypeOK, CastRecord, HasEvent, Events
  <2> QED
    BY <1>10, <2>3 DEF CloseReturns, hub, pump, events, IInv, TypeOK, CastRecord,
           NewHasNoWriter
<1>11. ASSUME NEW b \in Broadcasters, NEW c \in Clients, Enqueue(b, c) PROVE IInv'
  <2>1. cast[b].event \in Events /\ c \in cast[b].left
    BY <1>11 DEF Enqueue, HasEvent
  <2>2. /\ cast' \in [Broadcasters -> CastRecord]
        /\ \A a \in Broadcasters :
             cast'[a].event = cast[a].event /\ cast'[a].left \subseteq cast[a].left
    <3>1. PICK d \in Clients \cup {NoClient} :
            cast' = [cast EXCEPT ![b] = [cast[b] EXCEPT !.left = @ \ {c}, !.closes = d]]
      <4>1. cast[b] = [cast[b] EXCEPT !.closes = NoClient] /\ cast[b] \in CastRecord
        BY <1>11 DEF Enqueue, TypeOK, CastRecord
      <4>2. CASE cast' = [cast EXCEPT ![b].left = @ \ {c}]
        <5>1. cast' = [cast EXCEPT ![b] =
                         [cast[b] EXCEPT !.left = @ \ {c}, !.closes = NoClient]]
          BY <4>1, <4>2 DEF CastRecord
        <5> QED
          BY <5>1
      <4>3. CASE cast' = [cast EXCEPT ![b].left = @ \ {c}, ![b].closes = c]
        <5>1. cast' = [cast EXCEPT ![b] =
                         [cast[b] EXCEPT !.left = @ \ {c}, !.closes = c]]
          BY <4>3 DEF TypeOK
        <5> QED
          BY <5>1
      <4> QED
        BY <1>11, <4>2, <4>3 DEF Enqueue
    <3>2. [cast[b] EXCEPT !.left = @ \ {c}, !.closes = d] \in CastRecord
      <4>1. cast[b] \in CastRecord
        BY DEF TypeOK, CastRecord
      <4> QED
        BY <4>1, CastKeeps
    <3> QED
      BY <3>1, <3>2 DEF TypeOK, CastRecord
  <2>3. HasEvent'
    BY <2>2 DEF HasEvent, Events
  <2>4. once' \in [Clients -> {"fresh", "closing", "over"}]
    BY <1>11, ClosingKeeps DEF Enqueue, TypeOK
  <2>5. /\ send' \in [Clients -> Seq(Events)]
        /\ \A d \in Clients : Len(send'[d]) <= Capacity
    <3>1. CASE send' = send
      BY <3>1 DEF TypeOK
    <3>2. CASE /\ Len(send[c]) < Capacity
               /\ send' = [send EXCEPT ![c] = Append(@, cast[b].event)]
      <4>1. send[c] \in Seq(Events)
        BY DEF TypeOK
      <4>2. /\ Append(send[c], cast[b].event) \in Seq(Events)
            /\ Len(Append(send[c], cast[b].event)) <= Capacity
        BY <2>1, <3>2, <4>1, AppendKeeps
      <4> QED
        BY <3>2, <4>2 DEF TypeOK
    <3> QED
      BY <1>11, <3>1, <3>2 DEF Enqueue
  <2> QED
    BY <1>11, <2>2, <2>3, <2>4, <2>5
       DEF Enqueue, hub, pump, events, IInv, TypeOK, CastRecord,
           NewHasNoWriter
<1>12. CASE HubCloses
  BY <1>12 DEF HubCloses, hub, pump, events, IInv, TypeOK, HasEvent, NewHasNoWriter
<1>13. CASE ShutdownProceeds
  <2>1. once' \in [Clients -> {"fresh", "closing", "over"}]
    BY <1>13, ClosingKeeps DEF ShutdownProceeds, TypeOK
  <2>2. shutdown' \in [left : SUBSET Clients, closes : Clients \cup {NoClient}]
    <3> DEFINE ShutdownRecord == [left : SUBSET Clients, closes : Clients \cup {NoClient}]
    <3>1. shutdown \in ShutdownRecord
      BY DEF TypeOK
    <3>2. ASSUME NEW c \in shutdown.left, shutdown' = [left |-> shutdown.left \ {c}, closes |-> c]
          PROVE  shutdown' \in ShutdownRecord
      BY <3>1, <3>2
    <3>3. CASE shutdown' = [shutdown EXCEPT !.closes = NoClient]
      BY <3>1, <3>3
    <3> QED
      BY <1>13, <3>2, <3>3 DEF ShutdownProceeds
  <2>3. UNCHANGED <<hub, handler, pump, send, cast, events>>
    BY <1>13 DEF ShutdownProceeds
  <2> QED
    BY <2>1, <2>2, <2>3 DEF hub, pump, events, IInv, TypeOK, HasEvent, NewHasNoWriter
<1>14. CASE UNCHANGED vars
  BY <1>14 DEF vars, hub, pump, events, IInv, TypeOK, HasEvent, NewHasNoWriter
<1> QED
  BY <1>1, <1>2, <1>3, <1>4, <1>5, <1>6, <1>7, <1>8, <1>9, <1>10, <1>11, <1>12,
     <1>13, <1>14
     DEF Next, Handles, Writes, Broadcasts

LEMMA Invariance == Spec => []IInv
BY InitIInv, NextIInv, PTL DEF Spec

(* Buffers never hold more than Capacity events, and every actor is        *)
(* somewhere in its code.                                                  *)
THEOREM TypeCorrect == Spec => []TypeOK
<1>1. IInv => TypeOK
  BY DEF IInv
<1> QED
  BY <1>1, Invariance, PTL

-------------------------------------------------------------------------------
(* The registry.                                                           *)

(* No connection leaks in the registry and none is left out of it, however *)
(* registrations, departures and the shutdown interleave.                  *)
THEOREM RegistryExact == Spec => []RegistryIsExact
<1>1. Init => RegistryIsExact
  BY DEF Init, RegistryIsExact
<1>2. TypeOK /\ RegistryIsExact /\ [Next]_vars => RegistryIsExact'
  <2> SUFFICES ASSUME TypeOK, RegistryIsExact, [Next]_vars PROVE RegistryIsExact'
    OBVIOUS
  <2>1. ASSUME NEW c \in Clients, Register(c) PROVE RegistryIsExact'
    BY <2>1 DEF Register, RegistryIsExact, TypeOK
  <2>2. ASSUME NEW c \in Clients, Returns(c) PROVE RegistryIsExact'
    BY <2>2 DEF Returns, RegistryIsExact, TypeOK
  <2>3. ASSUME NEW c \in Clients, ReadFails(c) PROVE RegistryIsExact'
    BY <2>3 DEF ReadFails, hub, RegistryIsExact, TypeOK
  <2>4. CASE HubCloses
    BY <2>4 DEF HubCloses, RegistryIsExact
  <2>5. CASE UNCHANGED <<hub, handler>>
    BY <2>5 DEF hub, RegistryIsExact
  <2>6. \/ \E c \in Clients : Register(c) \/ Returns(c) \/ ReadFails(c)
        \/ HubCloses \/ UNCHANGED <<hub, handler>>
    BY DEF Next, Handles, Writes, Broadcasts, ConnectionCloses, WriterTakes,
           WriteSucceeds, WriterLeaves, WriterReturns, BroadcastBegins, CloseReturns,
           Enqueue, ShutdownProceeds, vars
  <2> QED
    BY <2>1, <2>2, <2>3, <2>4, <2>5, <2>6
<1> QED
  BY <1>1, <1>2, TypeCorrect, PTL DEF Spec

-------------------------------------------------------------------------------
(* Events on their way.                                                    *)

\* Where event e is on its way to client c, unless the connection is closed.
Buffered(c, e) == \E i \in 1 .. Len(send[c]) : send[c][i] = e
BeingWritten(c, e) == writer[c] = "writing" /\ writes[c] = e
ToEnqueue(c, e) == \E b \in Broadcasters : cast[b].event = e /\ c \in cast[b].left

OnItsWay(c, e) == Done(c) \/ Buffered(c, e) \/ BeingWritten(c, e) \/ ToEnqueue(c, e)

LEMMA NothingSkippedMeans ==
  NothingSkipped <=> \A c \in Clients : \A e \in owed[c] : OnItsWay(c, e)
BY DEF NothingSkipped, OnItsWay, Buffered, BeingWritten, ToEnqueue

(* A connection once closed stays so.                                      *)
LEMMA DoneIsForever ==
  ASSUME TypeOK, [Next]_vars, NEW c \in Clients, Done(c)
  PROVE  Done(c)'
<1>1. CASE \E d \in Clients : once' = Closing(d)
  BY <1>1, ClosingKeeps
<1>2. CASE \E d \in Clients : ConnectionCloses(d)
  BY <1>2 DEF ConnectionCloses, Done, TypeOK
<1>3. CASE once' = once
  BY <1>3 DEF Done
<1>4. \/ \E d \in Clients : once' = Closing(d)
      \/ \E d \in Clients : ConnectionCloses(d)
      \/ once' = once
  <2>1. TypeOK => shutdown.left \subseteq Clients
    BY DEF TypeOK
  <2> QED
    BY <2>1
     DEF Next, Handles, Writes, Broadcasts, Register, Returns, ReadFails, WriterTakes,
         WriteSucceeds, WriterLeaves, WriterReturns, BroadcastBegins, CloseReturns,
         Enqueue, HubCloses, ShutdownProceeds, vars
<1> QED
  BY <1>1, <1>2, <1>3, <1>4

(* The writer takes the first event of a buffer and keeps the others.      *)
LEMMA TakingKeeps ==
  ASSUME TypeOK, NEW d \in Clients, WriterTakes(d), NEW c \in Clients, NEW e,
         OnItsWay(c, e)
  PROVE  OnItsWay(c, e)'
<1>1. /\ writer[d] = "waiting" /\ send[d] # <<>> /\ send[d] \in Seq(Events)
      /\ writes' = [writes EXCEPT ![d] = Head(send[d])]
      /\ send' = [send EXCEPT ![d] = Tail(@)]
      /\ writer' = [writer EXCEPT ![d] = "writing"]
      /\ once' = once /\ cast' = cast
  BY DEF WriterTakes, TypeOK
<1>2. CASE Done(c)
  BY <1>1, <1>2 DEF OnItsWay, Done
<1>3. CASE ToEnqueue(c, e)
  BY <1>1, <1>3 DEF OnItsWay, ToEnqueue
<1>4. CASE c # d /\ (Buffered(c, e) \/ BeingWritten(c, e))
  BY <1>1, <1>4 DEF OnItsWay, Buffered, BeingWritten, TypeOK
<1>5. CASE c = d /\ Buffered(c, e)
  <2>1. PICK i \in 1 .. Len(send[c]) : send[c][i] = e
    BY <1>5 DEF Buffered
  <2>2. e = Head(send[c]) \/ \E j \in 1 .. Len(Tail(send[c])) : Tail(send[c])[j] = e
    BY <1>1, <1>5, <2>1, TailKeeps
  <2>3. /\ send'[c] = Tail(send[c]) /\ writes'[c] = Head(send[c])
        /\ writer'[c] = "writing"
    BY <1>1, <1>5 DEF TypeOK
  <2> QED
    BY <2>2, <2>3 DEF OnItsWay, Buffered, BeingWritten
<1>6. CASE c = d /\ BeingWritten(c, e)
  BY <1>1, <1>6 DEF BeingWritten
<1> QED
  BY <1>2, <1>3, <1>4, <1>5, <1>6 DEF OnItsWay

(* Enqueue moves its event into the buffer of its client, or finds that    *)
(* client closed, or closes it.                                            *)
LEMMA EnqueueKeeps ==
  ASSUME IInv, NEW b \in Broadcasters, NEW d \in Clients, Enqueue(b, d),
         NEW c \in Clients, NEW e, OnItsWay(c, e), Done(c) => Done(c)'
  PROVE  OnItsWay(c, e)'
<1> TypeOK /\ HasEvent /\ NewHasNoWriter
  BY DEF IInv
<1>1. /\ writer' = writer /\ writes' = writes
      /\ d \in cast[b].left /\ cast[b].event \in Events
  BY DEF Enqueue, pump, HasEvent
<1>2. CASE Done(c)
  BY <1>2 DEF OnItsWay
<1>3. CASE BeingWritten(c, e)
  BY <1>1, <1>3 DEF OnItsWay, BeingWritten
<1>4. CASE Buffered(c, e)
  <2>1. PICK i \in 1 .. Len(send[c]) : send[c][i] = e
    BY <1>4 DEF Buffered
  <2>2. send[c] \in Seq(Events)
    BY DEF TypeOK
  <2>3. /\ Len(send[c]) \in Nat
        /\ \/ send'[c] = send[c]
           \/ send'[c] = Append(send[c], cast[b].event)
    BY <2>2 DEF Enqueue, TypeOK
  <2>4. i \in 1 .. Len(send'[c]) /\ send'[c][i] = e
    BY <1>1, <2>1, <2>2, <2>3, AppendKeeps
  <2> QED
    BY <2>4 DEF OnItsWay, Buffered
<1>5. CASE ToEnqueue(c, e)
  <2>1. PICK a \in Broadcasters : cast[a].event = e /\ c \in cast[a].left
    BY <1>5 DEF ToEnqueue
  <2>2. CASE ~(a = b /\ c = d)
    <3>1. cast'[a].event = cast[a].event /\ c \in cast'[a].left
      BY <2>1, <2>2 DEF Enqueue, TypeOK
    <3> QED
      BY <2>1, <3>1 DEF OnItsWay, ToEnqueue
  <2>3. CASE a = b /\ c = d
    <3>1. CASE Done(d)
      BY <2>3, <3>1 DEF OnItsWay
    <3>2. CASE send' = [send EXCEPT ![d] = Append(@, cast[b].event)]
      <4>1. send[c] \in Seq(Events) /\ send'[c] = Append(send[c], e)
        BY <2>1, <2>3, <3>2 DEF TypeOK
      <4>2. send'[c][Len(send[c]) + 1] = e /\ Len(send[c]) + 1 \in 1 .. Len(send'[c])
        BY <1>1, <2>1, <2>3, <4>1, AppendKeeps
      <4> QED
        BY <4>2 DEF OnItsWay, Buffered
    <3>3. CASE once' = Closing(d)
      BY <2>3, <3>3, ClosingKeeps DEF OnItsWay
    <3> QED
      BY <3>1, <3>2, <3>3 DEF Enqueue
  <2> QED
    BY <2>2, <2>3
<1> QED
  BY <1>2, <1>3, <1>4, <1>5 DEF OnItsWay

(* An event broadcast while a client was registered is delivered, or on    *)
(* its way, or the client is being closed: no interleaving of broadcasts,  *)
(* writers and departures drops it silently.                               *)
THEOREM NoEventSkipped == Spec => []NothingSkipped
<1>1. Init => NothingSkipped
  BY DEF Init, NothingSkipped
<1>2. IInv /\ NothingSkipped /\ [Next]_vars => NothingSkipped'
  <2> SUFFICES ASSUME IInv, NothingSkipped, [Next]_vars,
                      NEW c \in Clients, NEW e \in owed'[c]
               PROVE  OnItsWay(c, e)'
    BY DEF NothingSkipped, OnItsWay, Buffered, BeingWritten, ToEnqueue
  <2> TypeOK /\ HasEvent /\ NewHasNoWriter
    BY DEF IInv
  <2>0. /\ Done(c) => Done(c)'
        /\ \A f \in owed[c] : OnItsWay(c, f)
    BY DoneIsForever, NothingSkippedMeans
  <2>1. ASSUME NEW b \in Broadcasters, BroadcastBegins(b) PROVE OnItsWay(c, e)'
    <3>1. /\ UNCHANGED <<pump, once, send>>
          /\ cast[b].left = {}
          /\ cast' = [cast EXCEPT ![b] =
                        [Rest EXCEPT !.event = sent + 1, !.left = registered]]
      BY <2>1 DEF BroadcastBegins
    <3>2. CASE e \in owed[c]
      <4>1. ToEnqueue(c, e) => ToEnqueue(c, e)'
        BY <3>1 DEF ToEnqueue, TypeOK
      <4> QED
        BY <2>0, <3>1, <3>2, <4>1
           DEF OnItsWay, Done, Buffered, BeingWritten, pump
    <3>3. CASE e \notin owed[c]
      <4>1. e = sent + 1 /\ c \in registered
        BY <2>1, <3>3 DEF BroadcastBegins
      <4>2. cast'[b].event = e /\ c \in cast'[b].left
        BY <3>1, <4>1 DEF TypeOK, Rest
      <4> QED
        BY <4>2 DEF OnItsWay, ToEnqueue
    <3> QED
      BY <3>2, <3>3
  <2>2. ASSUME NEW b \in Broadcasters, NEW d \in Clients, Enqueue(b, d)
        PROVE  OnItsWay(c, e)'
    <3>1. e \in owed[c]
      BY <2>2 DEF Enqueue, events
    <3> QED
      BY <2>0, <2>2, <3>1, EnqueueKeeps
  <2>3. ASSUME NEW d \in Clients, WriterTakes(d) PROVE OnItsWay(c, e)'
    <3>1. e \in owed[c]
      BY <2>3 DEF WriterTakes, events
    <3> QED
      BY <2>0, <2>3, <3>1, TakingKeeps
  <2>4. ASSUME NEW d \in Clients, WriteSucceeds(d) PROVE OnItsWay(c, e)'
    <3>1. /\ e \in owed[c] /\ (c = d => e # writes[d])
          /\ \A f \in Clients \ {d} : writer'[f] = writer[f] /\ writes'[f] = writes[f]
          /\ UNCHANGED <<once, send, cast>>
      BY <2>4 DEF WriteSucceeds, TypeOK
    <3> QED
      BY <2>0, <3>1 DEF OnItsWay, Done, Buffered, BeingWritten, ToEnqueue
  <2>5. ASSUME NEW d \in Clients, WriterLeaves(d) PROVE OnItsWay(c, e)'
    <3>1. /\ e \in owed[c] /\ UNCHANGED <<send, cast>>
          /\ \A f \in Clients \ {d} : writer'[f] = writer[f] /\ writes'[f] = writes[f]
          /\ once' = Closing(d)
      BY <2>5 DEF WriterLeaves, events, TypeOK
    <3>2. CASE c = d
      BY <3>1, <3>2, ClosingKeeps DEF OnItsWay
    <3>3. CASE c # d
      BY <2>0, <3>1, <3>3 DEF OnItsWay, Buffered, BeingWritten, ToEnqueue
    <3> QED
      BY <3>2, <3>3
  <2>6. ASSUME NEW d \in Clients, Register(d) \/ WriterReturns(d) PROVE OnItsWay(c, e)'
    <3>1. /\ e \in owed[c] /\ UNCHANGED <<send, cast, writes>>
          /\ \A f \in Clients : writer'[f] # writer[f] => writer[f] # "writing"
      BY <2>6 DEF Register, WriterReturns, events, TypeOK, NewHasNoWriter
    <3>2. CASE writer[c] = "writing"
      BY <2>0, <3>1, <3>2 DEF OnItsWay, Buffered, BeingWritten, ToEnqueue
    <3>3. CASE writer[c] # "writing"
      BY <2>0, <3>1, <3>3 DEF OnItsWay, Buffered, BeingWritten, ToEnqueue
    <3> QED
      BY <3>2, <3>3
  <2>7. ASSUME UNCHANGED <<send, cast, writer, writes, owed>> PROVE OnItsWay(c, e)'
    BY <2>0, <2>7 DEF OnItsWay, Buffered, BeingWritten, ToEnqueue
  <2>8. ASSUME NEW b \in Broadcasters, CloseReturns(b) PROVE OnItsWay(c, e)'
    <3>1. /\ e \in owed[c] /\ UNCHANGED <<send, writer, writes>>
          /\ \A a \in Broadcasters :
               cast'[a].event = cast[a].event /\ cast'[a].left = cast[a].left
      BY <2>8 DEF CloseReturns, pump, events, TypeOK
    <3> QED
      BY <2>0, <3>1 DEF OnItsWay, Buffered, BeingWritten, ToEnqueue
  <2>9. \/ \E b \in Broadcasters : \/ BroadcastBegins(b) \/ CloseReturns(b)
                                  \/ \E d \in Clients : Enqueue(b, d)
        \/ \E d \in Clients : \/ WriterTakes(d) \/ WriteSucceeds(d) \/ WriterLeaves(d)
                             \/ Register(d) \/ WriterReturns(d)
        \/ UNCHANGED <<send, cast, writer, writes, owed>>
    BY DEF Next, Handles, Writes, Broadcasts, ConnectionCloses, Returns, ReadFails,
           HubCloses, ShutdownProceeds, vars, pump, events
  <2> QED
    BY <2>1, <2>2, <2>3, <2>4, <2>5, <2>6, <2>7, <2>8, <2>9
<1> QED
  BY <1>1, <1>2, Invariance, PTL DEF Spec

===============================================================================
