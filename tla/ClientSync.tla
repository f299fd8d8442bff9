------------------------------- MODULE ClientSync -------------------------------
(***************************************************************************)
(* How the page of one player follows the game: the handlers that notify   *)
(* after they commit, the schedulers that notify after a whole tick, the   *)
(* server that restarts, the WebSocket that breaks and is opened again,    *)
(* the notifications that only ask for a refresh, the refreshes that never *)
(* overlap, the actions of the player and the poll that falls back.        *)
(*                                                                         *)
(* The state of the server is the history of its commits, each with the    *)
(* status of the game after it: whether the page polls behind an open      *)
(* socket depends on the status it shows.  A refresh is several GET        *)
(* requests: it shows what the server was at the first one or later, and   *)
(* the model keeps the first.                                              *)
(***************************************************************************)
EXTENDS Naturals, Sequences

CONSTANTS
  MaxVersion,  \* the longest history considered (bound)
  Setups       \* the pages considered, by the game they are opened in, by whether the
               \* server has reaction games (REACTION_ENABLED) and by what may go
               \* wrong besides a broken connection

ASSUME MaxVersionAssumption == MaxVersion \in Nat \ {0}
ASSUME SetupsAssumption ==
  Setups \subseteq
    [opened : {"lobby", "playing"},
     reaction : BOOLEAN,
     faults : SUBSET {"late registration", "failed tick", "silent end", "failed fetch"}]

VARIABLES
  setup,    \* which of Setups this page is
  history,  \* the status of the game after each commit, the first one before any
  unsent,   \* how many commits are yet to be broadcast
  tick,     \* how many a tick at work has made: it broadcasts when it is done
  link,     \* the connection on the server, "dead" until the browser notices
  inbox,    \* is a notification on its way to the page?
  socket,   \* GameRealtime: "ticket", "opening", "open" or "retry"
  view,     \* what the page shows
  fetch,    \* inFlight: none, on its way, or what its first request read
  timer,    \* realtimeRefreshTimer
  pending,  \* realtimeRefreshPending
  act,      \* the player's action: "none", "waiting", "working" or "refreshing"
  own       \* the last commit of the player's own actions, until the page shows it

server == <<setup, history, unsent, tick>>
realtime == <<link, inbox, socket>>
page == <<view, fetch, timer, pending, act, own>>
vars == <<server, realtime, page>>

None == 0
Unread == MaxVersion + 1

version == Len(history)
status == history[version]

(* Every variable has the values its comment names.                        *)
TypeOK ==
  /\ setup \in Setups
  /\ history \in Seq({"lobby", "playing", "over"}) /\ version \in 1 .. MaxVersion
  /\ unsent \in 0 .. version - 1 /\ tick \in 0 .. version - 1
  /\ link \in {"none", "upgraded", "registered", "dead"}
  /\ inbox \in BOOLEAN
  /\ socket \in {"ticket", "opening", "open", "retry"}
  /\ view \in 1 .. version \cup {None} /\ own \in 1 .. version \cup {None}
  /\ fetch \in 1 .. version \cup {None, Unread}
  /\ timer \in BOOLEAN /\ pending \in BOOLEAN
  /\ act \in {"none", "waiting", "working", "refreshing"}

busy == act # "none"

\* game.status of the page, which has no game until a refresh succeeds.
shown == IF view = None THEN "nothing" ELSE history[view]

\* game.status is "playing" and reactionState.enabled.
playsWithTheBox == shown = "playing" /\ setup.reaction

-------------------------------------------------------------------------------
(* The server.                                                             *)

\* Games are played once, and one that is over stays as it is.
Becomes ==
  [lobby |-> {"lobby", "playing", "over"}, playing |-> {"playing", "over"}, over |-> {}]

Commits ==
  /\ version < MaxVersion
  /\ \E s \in Becomes[status] : history' = Append(history, s)

\* Another player or the host: the handler broadcasts when the service returns.
Commit ==
  /\ Commits
  /\ unsent' = unsent + 1
  /\ UNCHANGED <<setup, tick, realtime, page>>

\* Hub.Broadcast reaches the clients registered by then.
Broadcast ==
  /\ unsent > 0 /\ unsent' = unsent - 1
  /\ inbox' = (inbox \/ link = "registered")
  /\ UNCHANGED <<setup, history, tick, link, socket, page>>

\* A tick commits game by game, those that are played, and returns what it
\* changed at the end.
TickCommits ==
  /\ status = "playing" /\ Commits
  /\ tick' = tick + 1
  /\ UNCHANGED <<setup, unsent, realtime, page>>

TickReturns ==
  /\ tick > 0
  /\ unsent' = unsent + tick /\ tick' = 0
  /\ UNCHANGED <<setup, history, realtime, page>>

\* The tick of a later game fails: runGameScheduler drops the changes before it.
TickFails ==
  /\ "failed tick" \in setup.faults
  /\ tick > 0 /\ tick' = 0
  /\ UNCHANGED <<setup, history, unsent, realtime, page>>

\* A service ends the game after the middleware found it was not due yet.
SilentEnd ==
  /\ "silent end" \in setup.faults
  /\ status = "playing" /\ Commits /\ status' = "over"
  /\ UNCHANGED <<setup, unsent, tick, realtime, page>>

Upgrade ==
  /\ socket = "opening" /\ link = "none"
  /\ link' = "upgraded"
  /\ UNCHANGED <<server, inbox, socket, page>>

Register ==
  /\ link = "upgraded"
  /\ link' = "registered"
  /\ UNCHANGED <<server, inbox, socket, page>>

-------------------------------------------------------------------------------
(* GameRealtime.                                                           *)

\* queueRealtimeRefresh.
Queue == timer' = TRUE /\ pending' = TRUE

TicketAnswered ==
  /\ socket = "ticket"
  /\ socket' \in {"opening", "retry"}
  /\ link' = "none" /\ inbox' = FALSE
  /\ UNCHANGED <<server, page>>

\* The ticket expired, or the server that issued it is gone.
TicketRefused ==
  /\ socket = "opening" /\ link = "none"
  /\ link' = "dead"
  /\ UNCHANGED <<server, inbox, socket, page>>

Opens ==
  /\ socket = "opening"
  /\ \/ link = "registered"
     \/ link = "upgraded" /\ "late registration" \in setup.faults
  /\ socket' = "open"
  /\ Queue
  /\ UNCHANGED <<server, link, inbox, view, fetch, act, own>>

OnMessage ==
  /\ socket = "open" /\ inbox
  /\ inbox' = FALSE
  /\ Queue
  /\ UNCHANGED <<server, link, socket, view, fetch, act, own>>

\* A network failure, or a client that could not keep up.
LinkDies ==
  /\ link \in {"upgraded", "registered"}
  /\ link' = "dead" /\ inbox' = FALSE
  /\ UNCHANGED <<server, socket, page>>

OnClose ==
  /\ socket \in {"opening", "open"} /\ link = "dead"
  /\ socket' = "retry"
  /\ UNCHANGED <<server, link, inbox, page>>

RetryFires ==
  /\ socket = "retry"
  /\ socket' = "ticket"
  /\ UNCHANGED <<server, link, inbox, page>>

-------------------------------------------------------------------------------
(* The page.                                                               *)

\* The mutant that forgets what came while the page was busy.
TimerDropsPending ==
  /\ timer /\ timer' = FALSE /\ pending' = FALSE
  /\ fetch' = IF busy \/ fetch # None THEN fetch ELSE Unread
  /\ UNCHANGED <<server, realtime, view, act, own>>

TimerFires ==
  /\ timer /\ timer' = FALSE
  /\ IF busy \/ fetch # None THEN UNCHANGED <<pending, fetch>>
     ELSE pending' = FALSE /\ fetch' = Unread
  /\ UNCHANGED <<server, realtime, view, act, own>>

FetchReads ==
  /\ fetch = Unread
  /\ fetch' = version
  /\ UNCHANGED <<server, realtime, view, timer, pending, act, own>>

\* The end of refresh and, when it was that of an action, of the action.
Settles ==
  /\ fetch' = None
  /\ act' = IF act = "refreshing" THEN "none" ELSE act
  /\ timer' = (timer \/ (pending /\ act \in {"none", "refreshing"}))
  /\ UNCHANGED pending

FetchDone ==
  /\ fetch \in 1 .. version
  /\ view' = fetch
  /\ own' = IF fetch >= own THEN None ELSE own
  /\ Settles
  /\ UNCHANGED <<server, realtime>>

FetchFails ==
  /\ "failed fetch" \in setup.faults
  /\ fetch # None
  /\ Settles
  /\ UNCHANGED <<server, realtime, view, own>>

\* Tickets, connections and notifications are in memory; a refresh on its way fails.
ServerRestarts ==
  /\ unsent' = 0 /\ tick' = 0
  /\ inbox' = FALSE
  /\ link' = IF link \in {"upgraded", "registered"} THEN "dead" ELSE link
  /\ IF fetch = None THEN UNCHANGED page ELSE Settles /\ UNCHANGED <<view, own>>
  /\ UNCHANGED <<setup, history, socket>>

\* The mutant that polls only while there is no connection.
PollOnlyAlone ==
  /\ ~busy /\ socket # "open" /\ fetch = None
  /\ fetch' = Unread
  /\ UNCHANGED <<server, realtime, view, timer, pending, act, own>>

\* The interval, while the tab is visible: for want of a connection, or because
\* the page shows a game that is played with the box.
Poll ==
  /\ ~busy /\ (socket # "open" \/ playsWithTheBox) /\ fetch = None
  /\ fetch' = Unread
  /\ UNCHANGED <<server, realtime, view, timer, pending, act, own>>

\* visibilitychange: reconnectNow and sync.
BecomesVisible ==
  /\ IF socket = "open" THEN UNCHANGED realtime
     ELSE socket' = "ticket" /\ link' = "none" /\ inbox' = FALSE
  /\ fetch' = IF ~busy /\ fetch = None THEN Unread ELSE fetch
  /\ UNCHANGED <<server, view, timer, pending, act, own>>

ActionBegins ==
  /\ ~busy
  /\ act' = "waiting"
  /\ UNCHANGED <<server, realtime, view, fetch, timer, pending, own>>

\* The mutant that does not wait for the refresh on its way.
ActionHurries ==
  /\ act = "waiting" /\ act' = "working"
  /\ UNCHANGED <<server, realtime, view, fetch, timer, pending, own>>

ActionWaits ==
  /\ act = "waiting" /\ fetch = None
  /\ act' = "working"
  /\ UNCHANGED <<server, realtime, view, fetch, timer, pending, own>>

\* The request commits, finds nothing to do, or is refused.
ActionWorks ==
  /\ act = "working"
  /\ \/ /\ act' = "none" /\ timer' = (timer \/ pending)
        /\ UNCHANGED <<server, own, fetch>>
     \/ /\ act' = "refreshing" /\ fetch' = (IF fetch = None THEN Unread ELSE fetch)
        /\ UNCHANGED <<history, unsent, own, timer>>
     \/ /\ act' = "refreshing" /\ fetch' = (IF fetch = None THEN Unread ELSE fetch)
        /\ Commits /\ own' = version + 1
        /\ unsent' = unsent + 1
        /\ UNCHANGED timer
  /\ UNCHANGED <<setup, tick, realtime, view, pending>>

\* The page has tried its first refresh.
Init ==
  /\ setup \in Setups
  /\ history = <<setup.opened>> /\ unsent = 0 /\ tick = 0
  /\ link = "none" /\ inbox = FALSE /\ socket = "ticket"
  /\ \/ view = 1
     \/ "failed fetch" \in setup.faults /\ view = None
  /\ fetch = None
  /\ timer = FALSE /\ pending = FALSE /\ act = "none" /\ own = None

ServerSteps == Broadcast \/ TickReturns \/ Upgrade \/ Register
SocketSteps == TicketAnswered \/ Opens \/ OnMessage \/ OnClose \/ RetryFires
PageSteps == TimerFires \/ FetchReads \/ FetchDone \/ ActionWaits \/ ActionWorks \/ Poll

Next ==
  \/ ServerSteps \/ SocketSteps \/ PageSteps
  \/ Commit \/ TickCommits \/ TickFails \/ SilentEnd \/ ServerRestarts
  \/ TicketRefused \/ LinkDies \/ FetchFails
  \/ BecomesVisible \/ ActionBegins

Spec == Init /\ [][Next]_vars

(* Timers fire, requests are answered, what is tried again and again works *)
(* in the end, and the player is not busy each time the timer fires.       *)
Fairness ==
  /\ WF_vars(Broadcast) /\ WF_vars(TickReturns)
  /\ SF_vars(Upgrade) /\ WF_vars(Register)
  /\ WF_vars(TicketAnswered) /\ SF_vars(TicketAnswered /\ socket' = "opening")
  /\ SF_vars(Opens) /\ WF_vars(OnMessage) /\ WF_vars(OnClose) /\ WF_vars(RetryFires)
  /\ WF_vars(TimerFires) /\ SF_vars(TimerFires /\ fetch' = Unread)
  /\ SF_vars(FetchReads) /\ SF_vars(FetchDone)
  /\ WF_vars(ActionWaits) /\ WF_vars(ActionWorks) /\ SF_vars(Poll)

FairSpec == Spec /\ Fairness

-------------------------------------------------------------------------------
(* Properties.                                                             *)

(* The page loses notifications only with its connection, or its poll      *)
(* makes up for those it loses.                                            *)
Followed == setup.faults = {} \/ playsWithTheBox

(* The page catches up: however notifications, restarts, broken            *)
(* connections, refreshes and actions interleave, it comes to show the     *)
(* state of the server again and again, so for good once the game is       *)
(* quiet.  Where ticks drop what they changed, ends are silent, refreshes  *)
(* fail and connections are registered late, this is promised from when    *)
(* the page shows the game being played with the box, the end of the game  *)
(* included; a page that still shows the lobby, or nothing, waits for the  *)
(* next notification instead.                                              *)
CatchesUp == Followed ~> view = version

(* When an action of the player is over and its refresh succeeded, the     *)
(* page shows what it did, not a state read before; and no refresh takes   *)
(* the page back to a state before the one it shows.                       *)
ReadsItsWrites ==
  [][FetchDone => /\ view' >= view
                  /\ act = "refreshing" => view' >= own]_vars

===============================================================================
