# PartyBox: TLA+ models and proofs

PartyBox is a party game: a Go server with PostgreSQL, a web page (Svelte) on
the phone of each player, and a physical box (ESP32) with two buttons. Players
join a lobby by a QR code, get secret missions, score points, ask their peers
or a photo validator to confirm what they did, meet the events of a chaos
engine and, with a box, reaction challenges on its buttons.

The difficulty is not in any single operation. It is that host, players, peers,
a scheduler ticking every second, a box that loses its network, a paid provider
that answers late and a browser that reconnects all act on the same game. The
modules here model those steps from the code; TLC explores every order of them
on small instances, and TLAPS proves nearly all that is safety for every
instance.

Paths below are relative to the root of the repository; `S/` abbreviates
`src/backend/internal/services/`, `R/` `src/backend/internal/repositories/`.
`PROJECT.json` maps every definition to the lines it models.

## 1. The system

| component | state | operations | interacts with |
|---|---|---|---|
| game lifecycle (`S/lifecycle.go`, `S/game.go`, `R/transaction.go`) | `games`, `players`, `player_missions`, `game_events` | create, join, start, complete, end | all others, under `SELECT ... FOR UPDATE` of the row of the game |
| timer (`S/timer.go`, `cmd/api/main.go`) | `games.ends_at`, recorded phases | `FinishDueGame` before each operation, `TickGames` every second | lifecycle, realtime |
| chaos engine (`chaos/`) | `chaos_states` | `ApplyCompletion`, `MaybeTriggerEvent` | called by each completion |
| peer validation, skip (`S/validations.go`, `S/skip.go`) | `mission_validations` | request, approve, reject, cancel; skip a hunt | lifecycle, chaos, proofs |
| photo proofs (`S/proofs.go`) | `mission_proofs`, `proof_attempts` | upload: check, reserve, call, store, complete | an external provider, lifecycle |
| AI missions (`S/ai.go`) | counters in memory, events in the database, the catalogue | generate, status; admission of start and end | an external provider, lifecycle, timer |
| mission assignment (`R/postgres.go`) | `player_missions.assigned_at` | assign, random or ranked | lifecycle, skip, shuffle |
| reaction challenges (`S/reaction.go`, `R/reaction.go`) | `reaction_game_states`, `reaction_challenges` | schedule, assign, expire, cancel, resolve | scheduler, host, box |
| device commands (`S/device.go`, `R/device.go`) | `device_commands`, `devices.last_seen_at` | heartbeat, poll, acknowledge, report | firmware, reaction challenges |
| firmware (`src/firmware`) | the reaction game, the report to retry, Wi-Fi, leds | loop: poll, acknowledge, play, report, retry | device API over HTTP |
| realtime (`realtime/`) | hub registry, one client and one buffer per connection, tickets | register, broadcast, write, close, shut down | handlers, scheduler, pages |
| page (`src/frontend`) | what it shows, the refresh in flight, timers, the socket | refresh, action, poll, reconnect | HTTP API, realtime |
| mission ranking (`ml/`, `src/ml`) | none (static model) | rank candidates | assignment |
| feedback, authentication, provisioning, QR code | single rows | single statements | - |

What makes it hard, and what must be true nevertheless:

* **Concurrency.** A request is authenticated, may end the game that is due and
  only then locks the game; another operation may come in between each time.
  Scores must balance with missions, each player of a running game has one
  current mission, and nothing moves after the final ranking.
* **A paid call outside any transaction.** Photo validation and mission
  generation cannot hold a lock while the provider works. Limits must count
  calls in flight, and the game must not change under a generation.
* **Crashes and lost messages.** The server may die between two transactions,
  the box between a press and its report; requests and answers are lost. What
  was paid must be paid once, what the box confirms must have been counted.
* **Stale reads.** Reaction challenges read the clock and lists before they
  wait for locks; the page may show a refresh that began before an action.
* **Progress.** Timed games end without any player, challenges nobody takes
  close and make way, broadcasts and shutdown do not hang on a slow browser,
  and pages catch up.

`PROJECT.json` lists these as hazards, each at the line where it bites.

## 2. The modules

A transaction that locks its game first is one action. Where the code works
between two transactions (reads a clock, a list, a counter, calls a provider)
the steps are separate actions. Rows, messages and goroutines are functions
over small sets; texts, identifiers and images are left out or are numbers.
Modules named `MC...` give instances to TLC. Operators whose comment begins with
*The mutant* are plausible bugs: a property is only kept if replacing a
definition by such a mutant makes TLC violate it.

**GameFlow** - one game in the database. `status`, `members`, `endsAt`,
`mission`, `given`, `validation`, `awarded`, `proven`, `score`, `chaos`,
`logged` are the columns of the same purpose; `mission[p][s]` is the status of
the s-th row inserted for player p. `settings` is what the host chose at the
creation: mode, validation, photo proofs, duration; the initial state may be a
game of any of `Settings`. `Join`, `Start`, `End`, `Complete`,
`RequestValidation`, `Approve`, `Reject` and `SkipTreasureMission` are the
service functions, `FinishDueGame` and `TickPhases` the timer. `Pay` is what
completions and approvals share: `ApplyCompletion`, the multiplier of the
final minute, `CompleteAssignment`, the next mission and `MaybeTriggerEvent`.
`Complete` reads the clock three times as the code does. `StoreValidProof` is
the one write that does not lock the game, so it happens at any time.

**MissionAssign** - which mission a player is given. `history` is the player's
`player_missions`, each row with the instant its transaction *began*, which is
what `now()` is in PostgreSQL; `tx` are the transactions that have begun and
wait for the game. `RandomChoice` and `Open`, `Sooner`, `RankedChoice` are the
two queries of `assign`; `CommitOwn` is a completion or a skip of the player, with
the shuffle it may draw, `CommitOther` somebody else's shuffle.

**Reaction** - the challenges of one game with everyone involved. A tick of the
scheduler is `TickBegins` (clock and list read), `TickExpires` one by one,
`TickLooksForDue`, `TickSchedules`, and may stop anywhere (`TickStops`). The host
assigns with a clock read up to `LockWait` before the lock. The box is a record
(`idle`, playing, `reporting`), its messages are in `net`, may be lost, answered
after the box gave up, or their answer lost; `Reboot` forgets everything.

**ReactionPromise** - what players are promised: one open challenge at a time,
settled at most once with its prize added in the same step, nothing after the
end. `Reaction!KeepsPromise` states that Reaction implements it, by mapping
the statuses of a challenge to `new`, `open`, `settled`, `dropped`.

**LockOrder** - the same transactions statement by statement, as PostgreSQL locks
their rows. `Plan` is the order of an operation's locks, `Matches` whether its
statement finds a row to lock, `Goes` whether it goes on, `Written` what its commit
makes visible. A foreign key takes the shared lock that inserting an event needs.
`Victim` is the transaction PostgreSQL aborts in a circle. Reaction may take a
transaction as one step because of what this module shows.

**Firmware** - the loop of the box, turn by turn: `Top` is what `loop` does before
the network (debouncing, `ReactionGame::update`), then `Report`, `Heartbeat`, `Poll`,
each of which may block the loop (`CallBlocks`) while time passes and fingers
move. `time` is `esp_timer_get_time`, `Wrap(time)` is `millis`. `since`, `due` and
`armed` are history. What the server answers is any answer; Reaction has
the server.

**ProofFlow** - the photo proofs of one player: overlapping uploads, each
checking, reserving an attempt (the transaction is two actions, because verdicts
are stored without the lock of the game), calling, storing, completing; `Fails`
is an error, a lost answer or the death of the server at any of these places. A
`patient` player sends one upload at a time and retries; the other may overlap them.

**AIGeneration** - generations and the transitions they exclude. `usage` is the
entry of `aiUsage`, lost by `Restart`; `successes` are the events it is recounted
from. Every critical section of the mutex and every transaction is an action.
`FinishDueGame` goes around the exclusion, as in the code.

**ClientSync** - a page that follows its game. The server is the history of its
commits, each with the status of the game after it. `Commit` and `Broadcast` are
apart, as in the handlers; a tick commits game by game and announces at its end
(`TickReturns`) or, when it fails, never (`TickFails`); `ServerRestarts` loses
connections, tickets and what was still to announce. `link` is the connection as
the server sees it, `socket` as the page does; `fetch`, `timer`, `pending`, `act`
are the variables of `BoxExperience.svelte`, `shown` the status of the game it
shows. Behind an open socket the page polls only while it shows the game being
played and the server has reaction games (`playsWithTheBox`); a page in the
lobby, or one whose first refresh failed, does not. `setup` chooses the page: the
game it is opened in, whether the server has reaction games, and whether
announcements may be missing, fetches fail and registrations come late.

**Hub** - the hub of one game: the handler and the writer of each connection,
each broadcast and the shutdown are actors. `once` is the `sync.Once` of
`Client.close`: whoever comes first closes `done`, the others wait for it to
finish with the connection. `owed` (history) remembers which events a registered
client has yet to receive.

**GameFlow_proofs**, **Reaction_proofs**, **ProofFlow_proofs**,
**AIGeneration_proofs**, **MissionAssign_proofs**, **LockOrder_proofs**,
**Hub_proofs** - the theorems of section 5, about the module each is named after.
**Sums** - what the ledgers of GameFlow and Reaction need to know of a sum.

The modules are composed through what they agree on rather than by EXTENDS: the
database of GameFlow is the environment of the others (`EndGame`,
`FinishDueGame`, `CompleteByHand`), ProofFlow refines the single action
`StoreValidProof` of GameFlow, AIGeneration the catalogue its missions come
from, MissionAssign the row that GameFlow inserts, LockOrder the transactions of
Reaction and Firmware its box, and ClientSync uses of Hub that a broadcast
reaches whoever is registered or closes that connection (`NothingSkipped`).

## 3. The runs

Every bound is a CONSTANT. `Instants` restricts when the clock is read, not how
operations interleave.

| run | instance | shows |
|---|---|---|
| `gf_games` | 15 minutes of chaos with trust and 3 players; of chaos and of a hunt with 2 peers; a hunt with photos and no deadline with 2 peers; 3 missions each | one current mission each, scores equal awards, each lifecycle event once, paid exactly when approved, pending requests live, missions settle once, events run their course, the ranking frozen after the end, a timed game ends (liveness) |
| `ma_order` | catalogues of 1, 2 and 4, 2 transactions, 7 rows, both queries, 2 scorers | the whole catalogue before any return, the distance of returns, a repeat only by an overlap |
| `ma_repeat` | 5 missions, the limits of the code | **violated**: see section 4 |
| `re_once` | 1 challenge, 2 event identifiers, reboots, all prizes | paid once, *confirmed* means counted, Reaction implements ReactionPromise |
| `re_deadline` | 2 challenges, a deadline | they follow one another, commands follow their challenge, challenges close, the box comes back (liveness) |
| `re_margin` | 1 challenge, waiting for locks | **violated**: see section 4 |
| `lo_rows` | the scheduler, the host, 2 requests of the box | circles only of an acknowledgement and a holder of the game, commits agree, everybody returns (liveness) |
| `fw_loop` | a solo and a duel, `millis` of 16 values that wraps | the first stable press decides, reports are retried when due |
| `pf_race` | 2 uploads, 2 missions, 2 attempts | at most the allowed calls, paid once for a valid photo, a lost answer costs no second call, an accepted photo pays (liveness) |
| `ai_interlock` | 2 generations, 2 transitions, 3 calls over restarts | mutual exclusion, the limit, the catalogue, no lock left behind (liveness) |
| `cs_sync` | 2 commits after the page is opened; a page in a game that is played, without reaction games or faults, and one in the lobby with both | the page catches up (liveness; with faults, once it shows the game being played) and shows what its player did |
| `hub` | 2 connections, 1 broadcaster, 2 events, a buffer of 1 | nothing skipped, registry exact, broadcasts and shutdown end (liveness) |

Why the bounds are enough for the cases meant:

* *GameFlow.* Three players give a bounty that may or may not be on the player
  who completes, and a late join; two give a peer who validates (`guests` is the bound on who may
  join). `QuarterInstants` {0, 10, 14}
  meets the thresholds 3, 2 and 1 of the chaos engine and the final minute, and
  `From` adds the deadline itself. Three missions each let a completion draw a
  shuffle and another be made of the mission after it.
* *MissionAssign.* A catalogue of one has nothing else to give, one of two always
  returns at the second draw, one of four is larger than the candidates the
  ranked query is cut to. Seven rows go around it, and two transactions are
  what one overtaking takes.
* *Reaction.* The reports of a box before and after its reboot need two event
  identifiers; two challenges are needed only for what relates them. `MaxClock`
  reaches past every timeout of the instance, so late answers happen.
* *LockOrder.* An actor per source of transactions, and a second request of the
  box, which gives up an answer and asks again while the first is still served.
  One challenge: each transaction locks the rows of one.
* *Firmware.* Each period keeps its place among the others (a debounce shorter than a
  response, a retry that doubles up to its cap), time runs from before `millis`
  wraps to after it, and three moves press, release and press again, or press
  both, or take the transport away and bring it back.
* *ProofFlow.* Two uploads with two attempts: both reserve the last one, or the
  second is the retry of the first.
* *AIGeneration.* `MaxCalls` exceeds `MaxAttempts`, so that the limit bites and
  a restart renews it.
* *ClientSync.* The second commit comes while the first is announced, fetched or
  forgotten; the state of the page keeps only which one it last saw. A lobby and
  two commits are a game that is started and ended, either of them unnoticed. The
  status means nothing to a page without reaction games, whose poll does not
  depend on it, so that page is opened where ticks commit too.
* *Hub.* A buffer of one event overflows with the second; with two connections
  a broadcast goes on after closing the first, while the shutdown closes both.

Deadlock is checked in `ai_interlock`, `cs_sync`, `lo_rows` and the runs of
Reaction. The other systems really stop: a game that is over and whose clock has
reached its bound, uploads that are over, connections that are gone, and the
explorations of MissionAssign and Firmware at the end of their span.

`gf_games` checks the type invariant of its module as a property of the run; the
`TypeOK` of the other modules says what their variables hold and is there to be
checked along with any change.

**Fairness.** `gf_games`: `runGameScheduler` ticks every second for as long as
the server runs, and time passes; players owe nothing. `Reaction`: the same
scheduler, a tick that may be interrupted but not for ever, and the retry of the
firmware, of which one is answered in the end; nobody has to press, assign or
acknowledge. `LockOrder`: PostgreSQL gives a row to its waiters in turn (strong
fairness of a transaction's moves, whose lock comes and goes) and breaks each
circle (`Victim`); nobody has to begin anything. `ProofFlow`: a request that is
served goes on; the player of an accepted photo retries and some attempt gets
through. `AIGeneration`: an admitted generation goes on (calls have a timeout,
and cleanup runs with a context of its own). `ClientSync`: timers fire, requests,
upgrades and reconnections that are repeated work in the end, a tick returns or
fails, and the player is not busy each time the timer fires; nothing stops the
server from restarting again and again, but what is tried infinitely often must
then work once. `Hub`: goroutines run, write and close deadlines expire, and
`select` does not pass over a ready case for ever; nothing makes an idle
connection fail. The properties of Firmware and MissionAssign need none.

## 4. Disagreements met

Two are shown by runs:

* **`re_margin`** - the README documents `REACTION_RESULT_TIMEOUT_SECONDS` as the
  margin left to the result after the local delay. `AssignReaction` reads the
  clock before it waits for the lock of the game and `TickReactions` uses the list
  and the clock of the beginning of its tick: an assigned challenge may expire
  before the margin it was given is over.
* **`ma_repeat`** - the comment of `assign` (`R/postgres.go:158`) says that no
  mission is repeated immediately when the catalogue has another choice. The
  shuffle that a completion draws inserts a second row in the same transaction:
  both carry the same `assigned_at`, their random identifiers decide which
  counts as the last one, and the next draw may give the current mission again.
  `RepeatNeedsOverlap` is what holds.

Others are seen in the models without a run of their own:

* `src/firmware/test/test_reaction/test_main.cpp` tests that a button held when
  the game is armed is ignored until it is released. It is, when the box knew of
  it: but `arm` is given the buttons as they were read at the top of the loop,
  before the poll and the acknowledgement blocked it. A button pressed during
  those calls and still held counts as a press of the game. `FirstPressDecides`
  states the promise with exactly this exception (`armed.early`). In the other
  direction, a button whose release fell into the calls is still taken for
  held, and pressing it again before the release was stable is ignored.
* Debouncing (`src/firmware/src/button.cpp`) compares two readings: when a call blocked
  the loop in between, a button that bounced at both is taken for stable.
* A retry that is due when `millis` is exactly 0 is sent at once, since 0 means
  none; a transport that is away for more than 2^31 ms (25 days) makes due times look as
  if they were to come. `RetriesOnTime` excludes both. The attempts are counted
  up to 5, so that the cap of 30 s is never reached: delays stop at 16 s.
* The comment of `complete` (`S/lifecycle.go:140`) has every mutation lock the game
  first. An acknowledgement (`R/device.go:85`) locks the command and the
  challenge and then needs the game: `OnlyAcksCrossTheOrder` shows that this is
  the only crossing, and that PostgreSQL breaks it; the box repeats its poll.
* `README.md:252` doubles what is completed in the final minute. `complete`
  reads the clock again for the multiplier (`S/lifecycle.go:196`) after the
  check of the deadline, so a completion admitted in the final minute can find
  it over and be paid once; `ResolveValidation` reads the clock once.
* `README.md:301`: the refresh at the opening of the socket covers the events of
  a cut. The client is registered after the handshake is answered
  (`realtime/server.go:79`), so that refresh may read, and a commit be notified
  to nobody, before the registration. ClientSync has this as the fault "late
  registration", and the ticks that fail (`cmd/api/main.go:129`) and the ends
  nobody announces (`S/timer.go:14`) as faults of the same kind.
* What makes up for these faults is the poll of `BoxExperience.svelte:238`, and it
  depends on what the page shows: behind an open socket it runs only while
  `game.status` is `playing` and `reactionState.enabled`. With these faults
  `CatchesUp` is therefore stated from when the page shows the game being played
  (`Followed`). A page that still shows the lobby and loses `game_started`, by a
  late registration or because the refresh it asks for fails, stays in the lobby
  while its socket is open, until the next notification, the next visit to the
  tab or the refresh button; TLC finds that behaviour when `<>[](view = version)`
  is asked of the faulty page of `cs_sync`. A page waits likewise for what it lost
  in any state of the game where `REACTION_ENABLED` is false.
* `README.md:365` blocks a hunt whose attempts are used up; `S/skip.go:40` lets
  it be skipped.
* The comment at `realtime/hub.go:11` says that a broadcast never blocks. It
  never waits for the buffer, but closing a client that cannot keep up waits up
  to ten seconds for the write lock of its connection. `BroadcastEnds` is what
  holds.
* `README.md:53` gives 25 s as the fallback poll; the code has 15 s.

## 5. What is proved

The theorems hold for every value of the constants that meets the named
assumptions of the modules: the constants have their types, the sets the code
keeps finite (players of a reaction game, uploads, catalogues) are finite, the
host is a player. TLC evaluates each assumption in the runs, and checked each
invariant below on their instances before it was proved.

| module | theorem | of |
|---|---|---|
| GameFlow | `TypeCorrect`, `MissionSafety`, `RankingIsFinal` | `TypeOK`, `OneCurrentMission`, `FinalRankingFrozen` |
| | `ScoresAreEarned`, `SettlementIsFinal` | `LedgerBalances`, `MissionsSettleOnce` |
| | `PendingRequestsAreLive`, `PaymentNeedsApproval` | `RequestsAreLive`, `PaidIffApproved` |
| | `ChaosRowCoherent`, `EventsRunTheirCourse`, `LifecycleIsLoggedOnce` | `ChaosCoherent`, `BlockingEventsRunTheirCourse`, `LifecycleLoggedOnce` |
| Reaction | `OneAfterTheOther`, `CommandsFollow` | `ChallengesFollowOneAnother`, `CommandFollowsChallenge` |
| | `EachPrizeIsPaidOnce`, `ConfirmedIsCounted` | `PrizesBalance`, `ConfirmedMeansCounted` |
| | `PromiseIsKept` | `KeepsPromise`: the refinement of ReactionPromise |
| ProofFlow | `CallsAreLimited`, `PaymentIsEarned`, `LostAnswersAreFree` | `CallsWithinLimit`, `PaidOnceForAProof`, `LostAnswerCostsNoCall` |
| AIGeneration | `MutualExclusion`, `LimitHolds`, `CatalogueIsFixed` | `OneAtATime`, `LimitSurvivesRestart`, `CatalogueFixedAtStart` |
| MissionAssign | `NothingReturnsEarly`, `RepeatsComeFromOverlaps`, `OthersAreGivenFirst` | `AllSeenBeforeReturn`, `RepeatNeedsOverlap`, `OthersComeFirst` |
| LockOrder | `ChallengeAndCommandAgree`, `OnlyAcknowledgementsCross` | `CommandAgrees`, `OnlyAcksCrossTheOrder` |
| Hub | `RegistryExact`, `NoEventSkipped` | `RegistryIsExact`, `NothingSkipped` |

Every module but MissionAssign also has its `TypeCorrect`. Almost none of these
properties is inductive; each proof module defines the `IInv` that is, shows that
`Init` implies it and each action keeps it, and draws the properties from it.

*GameFlow.* After a completion the player is given mission `given[p] + 1`, and
`OneCurrentMission` does not say that this row is unused, or that no older row is
still assigned. `IInv` adds that rows up to `given[p]` exist and no others
(`Tidy`), that only the last one may be assigned, that while the game is played
every member is on that one (`Busy`), and that nobody has missions in the lobby.
`ReplacedTidy`, `ShuffledTidy` and `JoinedTidy` show that the three ways to give
missions keep it, `PayKeeps` carries it through a completion with its chaos
event. `RequestInv` and `LifecycleInv` extend it for requests (what each mode
allows a request to be) and for the log (which events each status stands for).
`RankingIsFinal` needs no invariant: every action but the clock and the storage
of a verdict is guarded by a status. For the ledger, `OnlyDoneMissionsArePaid`
shows that every step that touches a score replaces an award of zero by the very
amount the score grows by.

*Sums.* `LedgerBalances` and `PrizesBalance` are about folds, recursive functions
on finite sets. The induction schemes of the library take the induction
hypothesis as an operator, so Sums has its own on sets: `Least` (a non-empty set
of numbers has a least element, from the well-founded order of finite subsets),
`Induction` and `SubsetInduction`. They show that the recursion of the fold
defines a function (`SumsExist`), and `SumOfOneChange`: a changed entry changes
the sum by as much.

*Reaction.* A prize is paid once because a challenge without a result is never
`resolved` (`ResultsAreFinal`) and one that is resolved is not resolved again:
its command is completed by then (`CommandFollowsChallenge`). A confirmed result
was counted because an event identifier stands for one outcome of one challenge
wherever it is found, in the memory of the box, in each report on its way, in
the database, and none of them has a number yet to be drawn (`EventsAreUnique`).
`Planned` says which challenge or instant keeps the scheduler from falling
silent. For the refinement, `Seen` is the mapping of a challenge; one lemma per
step that players notice (`PromiseOpens`, `PromiseDrops`, `PromiseSettles`,
`PromiseFinishes`), and `PromiseRests` for all others.

*ProofFlow.* A call is made by an upload that reserved its attempt long before:
`CallsReserved` counts the calls made together with those still to be made
against the attempts reserved, and `ReservingLocks` knows that whoever found an
attempt left holds the row until the attempt is taken.

*AIGeneration.* What excludes a generation and a start from each other are the
counters of `aiUsage`, so `Counted` equates them with the requests under way;
`Reserved` and `Remembered` bound what a count of events, read before another
generation succeeded, may have missed.

*MissionAssign.* The three properties relate two rows that may be far apart. The
invariant is about one: each row was `Warranted` by the rows before it, which is
what the two queries give (`RandomIsWarranted`, `RankedIsWarranted`) and what
later rows cannot change. The distance of returns is then a count: whoever is not
given in between was played sooner, and the limit of the query bounds how many
candidates come before the one that is drawn.

*LockOrder.* `Knows` says, for each transaction at each statement, what the guard
behind the row it holds read; `Exclusive` that no other holds it. So what
`Commit` writes is still warranted. The theorem about circles uses that a
transaction other than an acknowledgement waits for rows behind those it holds
(`InOrder`), for any number of actors.

*Hub.* `HasEvent` (a broadcast with clients left has an event), `NewHasNoWriter`
and the type of the buffers are what `NothingSkipped` lacks.

Only model-checked: what must eventually happen (`TimedGameEnds`,
`ChallengesClose`, `BoxComesBack`, `AcceptedPhotoPays`, `GenerationLetsGo`,
`CatchesUp`, `BroadcastEnds`, `ShutdownLetsGo`, `EverybodyReturns`), for liveness
and ENABLED are out of the prover's reach; and, not attempted, `ReadsItsWrites`
of ClientSync, `FirstPressDecides` and `RetriesOnTime` of Firmware.

## 6. Not modelled

* The ranking model (floating-point arithmetic on static features): MissionAssign
  takes any scores, and a scorer that fails. Mission feedback: an upsert
  and a read, one statement each.
* Several games at once, and that the games behind one whose tick fails wait.
* The rows of players in LockOrder: only a holder of the game writes them.
* The map of tickets (issue, consume, expire are critical sections of one mutex)
  and the generations of sockets in the page: ClientSync has one socket at a
  time, and an old one says nothing.
* The provisioning portal, leds, diagnostics of the box; its Wi-Fi is a transport that
  comes and goes.
* Parsing, authentication, images, QR codes, deployment.
* The providers, PostgreSQL and gorilla/websocket: outcomes are nondeterministic
  choices.

## 7. Plan

Modelled, in order of importance: GameFlow and its first theorems, Reaction with
ReactionPromise, ProofFlow, AIGeneration, ClientSync, Hub, MissionAssign,
LockOrder, Firmware.

Proved: the safety properties of all of them but ClientSync and Firmware
(section 5).

Proofs that could follow: `ReadsItsWrites`, whose invariant relates what is
fetched to what was committed; `FirstPressDecides`, over a clock that wraps; that
ProofFlow implements the single action `StoreValidProof` of GameFlow.

Models that could follow: the generations of sockets in `GameRealtime`, and a
scheduler over several games.

## 8. Running it

    tlc -workers 2 -config gf_games.cfg MCGameFlow
    tlapm GameFlow_proofs.tla

and the same for the other modules of proofs. The module of each run is in
`PROJECT.json`; every run takes under three minutes.
