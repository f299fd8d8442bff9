--------------------------- MODULE MissionAssign ---------------------------
(***************************************************************************)
(* How the next mission of ONE player is chosen: assign in postgres.go,    *)
(* called by every transaction that finishes, skips or shuffles a mission. *)
(* The choice is read off player_missions, whose assigned_at is now(): the *)
(* instant the inserting transaction BEGAN, before it waited for the lock  *)
(* of the game.  The order of those instants therefore need not be the     *)
(* order of the rows, and all the rows of one transaction share it.        *)
(*                                                                         *)
(* The transactions that reach assign hold the lock of the game until they *)
(* commit, so what they do is one step (Commit); Begin only takes the time.*)
(***************************************************************************)
EXTENDS Integers, Sequences, FiniteSets, FiniteSetsExt

CONSTANTS
    Catalogues,     \* the catalogues a game may play with: sets of mission ids
    CandidateCount, \* mlCandidateCount: candidates read by the ranked query
    TopCount,       \* mlTopCount: how many of the best the draw is among
    Scorings,       \* what the scorer may say: functions on the mission ids
    NoScore,        \* the value of a score that is NaN or infinite
    Tx,             \* the transactions that may be open at once
    MaxRows,        \* bound: rows of the player's history
    MaxClock        \* bound: transactions begun

ASSUME BoundsAssumption ==
    /\ CandidateCount \in Nat \ {0}
    /\ TopCount \in Nat \ {0}
    /\ MaxRows \in Nat /\ MaxClock \in Nat
ASSUME CataloguesAssumption == \A C \in Catalogues : IsFiniteSet(C)

VARIABLES
    catalogue,  \* the eligible missions: of the game if it has its own, else the seeds
    ranked,     \* is a scorer configured
    chaos,      \* is the game played in chaos mode, where missions get shuffled
    history,    \* the rows of player_missions of the player, as inserted: the last
                \* one is the current mission, the others are completed or cancelled
    clock,      \* number of transactions begun so far
    tx          \* the open transactions: what they do and when they began

vars == <<catalogue, ranked, chaos, history, clock, tx>>

Idle == [kind |-> "idle", at |-> 0, target |-> 0]

(***************************************************************************)
(* Reading the history                                                     *)
(***************************************************************************)
Seen(h, m) == \E i \in DOMAIN h : h[i].mission = m

\* max(pm.assigned_at) ... NULLS FIRST
LastPlayed(h, m) ==
    IF Seen(h, m) THEN Max({h[i].at : i \in {j \in DOMAIN h : h[j].mission = m}}) ELSE 0

\* The mutant that forgets DESC.
Oldest(h) == IF h = <<>> THEN {} ELSE {h[1].mission}

\* ORDER BY assigned_at DESC, id DESC LIMIT 1
Previous(h) ==
    {h[i].mission : i \in {j \in DOMAIN h : \A k \in DOMAIN h :
        \/ h[j].at > h[k].at
        \/ h[j].at = h[k].at /\ h[j].uuid >= h[k].uuid}}

\* assignRandom: any of the missions that waited longest.
RandomChoice(h) ==
    {m \in catalogue : \A n \in catalogue : LastPlayed(h, m) <= LastPlayed(h, n)}

\* The mutant without the preference for unseen missions.
OpenToSeen(h) ==
    {m \in catalogue : m \notin Previous(h) \/ Cardinality(catalogue) = 1}

\* The WHERE of assignRanked.
Open(h) ==
    LET unseen == {m \in catalogue : ~Seen(h, m)}
    IN  {m \in catalogue :
            /\ m \notin Previous(h) \/ Cardinality(catalogue) = 1
            /\ unseen = {} \/ m \in unseen}

\* The mutant that orders by the most recent.
Later(h, m, n) == LastPlayed(h, m) > LastPlayed(h, n)

\* ORDER BY max(assigned_at) NULLS FIRST, m.id
Sooner(h, m, n) ==
    \/ LastPlayed(h, m) < LastPlayed(h, n)
    \/ LastPlayed(h, m) = LastPlayed(h, n) /\ m < n

\* The first n members of S in the order Before.
FirstOf(n, S, Before(_, _)) ==
    {m \in S : Cardinality({k \in S : Before(k, m)}) < n}

\* assignRanked: its LIMIT, then chooseRankedCandidate, whose stable sort by score
\* one bad score calls off.
RankedChoice(h) ==
    LET open == Open(h)
        candidates == FirstOf(CandidateCount, open, LAMBDA m, n : Sooner(h, m, n))
        Better(score, m, n) ==
            \/ score[m] > score[n]
            \/ score[m] = score[n] /\ Sooner(h, m, n)
        Top(score) ==
            IF \E c \in candidates : score[c] = NoScore
            THEN FirstOf(TopCount, candidates, LAMBDA m, n : Sooner(h, m, n))
            ELSE FirstOf(TopCount, candidates, LAMBDA m, n : Better(score, m, n))
    IN  UNION {Top(score) : score \in Scorings}

\* assign
Choice(h) == IF ranked THEN RankedChoice(h) ELSE RandomChoice(h)

(***************************************************************************)
(* What a transaction begun at instant `at` makes of the history: the set  *)
(* of the histories it may leave.  Rows of one transaction share `at`, and *)
(* a random uuid orders them.                                              *)
(***************************************************************************)
Assign(h, at) ==
    {Append(h, [mission |-> m, at |-> at, uuid |-> u]) :
        m \in Choice(h),
        u \in IF \E i \in DOMAIN h : h[i].at = at THEN {0, 2} ELSE {1}}

(***************************************************************************)
(* Transactions                                                            *)
(***************************************************************************)
Init ==
    /\ catalogue \in Catalogues
    /\ ranked \in BOOLEAN
    /\ chaos \in BOOLEAN
    /\ history = <<>>
    /\ clock = 1
    /\ tx = [t \in Tx |-> Idle]

\* BEGIN: the transaction takes its time, and now waits for the lock of the game.
\* An "own" one names the mission the player or a validator saw as current; an
\* "other" one is another player's completion that draws a shuffle.
Begin(t, kind) ==
    /\ tx[t] = Idle
    /\ kind = "first" => history = <<>>
    /\ kind \in {"own", "other"} => history # <<>>
    /\ kind = "other" => chaos
    /\ clock <= MaxClock
    /\ tx' = [tx EXCEPT ![t] = [kind |-> kind, at |-> clock, target |-> Len(history)]]
    /\ clock' = clock + 1
    /\ UNCHANGED <<catalogue, ranked, chaos, history>>

Close(t) ==
    /\ Len(history') <= MaxRows
    /\ tx' = [tx EXCEPT ![t] = Idle]
    /\ UNCHANGED <<catalogue, ranked, chaos, clock>>

\* Start and Join give a player the first mission.
CommitFirst(t) ==
    /\ tx[t].kind = "first"
    /\ IF history = <<>> THEN history' \in Assign(<<>>, tx[t].at) ELSE UNCHANGED history
    /\ Close(t)

\* complete, SkipTreasureMission and ResolveValidation: nothing unless the mission
\* they name is still the current one.  In chaos mode a completion may draw a
\* shuffle, in the same transaction.
CommitOwn(t) ==
    /\ tx[t].kind = "own"
    /\ Len(history) = tx[t].target
    /\ \E h \in Assign(history, tx[t].at) :
            history' \in {h} \cup (IF chaos THEN Assign(h, tx[t].at) ELSE {})
    /\ Close(t)

\* The shuffle of another player's completion (shuffleMissions): the current mission
\* of every player of the game is cancelled and each gets another.
CommitOther(t) ==
    /\ tx[t].kind = "other"
    /\ history' \in Assign(history, tx[t].at)
    /\ Close(t)

\* AlreadyCompleted or ErrConflict: the mission named is no longer the current one.
\* (A transaction that fails leaves no row either, as if it had not begun.)
Refuse(t) ==
    /\ tx[t].kind = "own"
    /\ Len(history) # tx[t].target
    /\ UNCHANGED history
    /\ Close(t)

Next ==
    \E t \in Tx :
        \/ \E kind \in {"first", "own", "other"} : Begin(t, kind)
        \/ CommitFirst(t)
        \/ CommitOwn(t)
        \/ CommitOther(t)
        \/ Refuse(t)

Spec == Init /\ [][Next]_vars

(***************************************************************************)
(* Properties                                                              *)
(***************************************************************************)
\* Every row is of the catalogue of the game, and carries an instant already passed.
TypeOK ==
    /\ catalogue \in Catalogues
    /\ ranked \in BOOLEAN /\ chaos \in BOOLEAN
    /\ clock \in Nat
    /\ history \in Seq([mission : catalogue, at : 1..(clock - 1), uuid : 0..2])
    /\ tx \in [Tx -> [kind : {"idle", "first", "own", "other"}, at : Nat, target : Nat]]

\* The missions of the rows strictly between i and j.
Between(i, j) == {history[k].mission : k \in (i + 1)..(j - 1)}

\* Row j gives again the mission of row i, for the first time since.
Returns(i, j) ==
    /\ i < j
    /\ history[i].mission = history[j].mission
    /\ history[i].mission \notin Between(i, j)

\* "Prefer unseen missions": whatever the ranking, the concurrency and the
\* shuffles, no mission comes back to a player before the whole catalogue was
\* given (assignRandom's NULLS FIRST, assignRanked's second NOT EXISTS).
AllSeenBeforeReturn ==
    \A i, j \in DOMAIN history :
        Returns(i, j) => catalogue = {history[k].mission : k \in 1..(j - 1)}

\* The rows up to j carry increasing instants: none shares a transaction with its
\* neighbour and none waited for the lock while a later one passed.
InOrder(j) == \A k \in 1..(j - 1) : k + 1 <= j => history[k].at < history[k + 1].at

\* "Then the least recently played; never repeat immediately": between two
\* occurrences of a mission the player is given all the others when the choice is
\* random; ranked, at least those that the limit of candidates keeps out, and
\* always one (assignRanked's first condition and its LIMIT).  It needs instants
\* that grow with the rows.
OthersComeFirst ==
    \A i, j \in DOMAIN history :
        Returns(i, j) /\ InOrder(j - 1) =>
            LET size == Cardinality(catalogue)
                kept == IF ranked THEN Max({size - CandidateCount, 1}) ELSE size - 1
            IN  Cardinality(Between(i, j)) >= kept \/ size = 1

\* A repeat needs a row before it whose instant is not before the one repeated:
\* of the same transaction, or of one that overtook it.
RepeatNeedsOverlap ==
    \A j \in 2..Len(history) :
        history[j].mission = history[j - 1].mission /\ Cardinality(catalogue) > 1 =>
            \E i \in 1..(j - 2) : history[i].at >= history[j - 1].at

\* The comment of assign (postgres.go:158): "never repeat immediately when the
\* catalog contains another choice".
NeverRepeatsImmediately ==
    \A j \in 2..Len(history) :
        Cardinality(catalogue) > 1 => history[j].mission # history[j - 1].mission
=============================================================================
