------------------------- MODULE MissionAssign_proofs -------------------------
(***************************************************************************)
(* What holds of the missions a player is given, for every catalogue,      *)
(* every scorer, every limit of the ranked query and any number of         *)
(* transactions: each row was warranted by the rows before it.             *)
(***************************************************************************)
EXTENDS MissionAssign, Sums, SequenceTheorems, FiniteSetTheorems, TLAPS

Row == [mission : catalogue, at : 1 .. (clock - 1), uuid : 0 .. 2]

\* The rows before row j.
Prefix(h, j) == [k \in 1 .. (j - 1) |-> h[k]]

\* Mission m may follow the rows h in a game that plays with the missions in C, drawn
\* at random or (ranked) by the query with its limits.
Warranted(C, byRank, h, m) ==
  /\ m \in C
  /\ Seen(h, m) => \A n \in C : Seen(h, n)
  /\ byRank =>
       /\ m \notin Previous(h) \/ Cardinality(C) = 1
       /\ Seen(h, m) =>
            Cardinality({k \in C : /\ k \notin Previous(h) \/ Cardinality(C) = 1
                                   /\ Sooner(h, k, m)}) < CandidateCount
  /\ ~byRank => \A n \in C : LastPlayed(h, m) <= LastPlayed(h, n)

\* A history, as far as the choice looks at it.
Dated(h) ==
  \E n, last \in Nat : DOMAIN h = 1 .. n /\ \A k \in 1 .. n : h[k].at \in 1 .. last

IInv ==
  /\ TypeOK /\ clock > 0
  /\ \A t \in Tx : tx[t] # Idle => tx[t].at \in 1 .. (clock - 1)
  /\ \A j \in DOMAIN history :
       Warranted(catalogue, ranked, Prefix(history, j), history[j].mission)

-------------------------------------------------------------------------------
(* Reading the history.                                                    *)

\* A bounded set of natural numbers has a greatest element, and Max finds it.
LEMMA Greatest ==
  ASSUME NEW B \in SUBSET Nat, B # {}, NEW u \in Nat, \A b \in B : b <= u
  PROVE  Max(B) \in B /\ \A b \in B : b <= Max(B)
<1> DEFINE D == {u - b : b \in B}
<1>1. D \in SUBSET Nat /\ D # {}
  <2>1. \A b \in B : u - b \in Nat
    OBVIOUS
  <2> QED
    BY <2>1
<1>2. PICK d \in D : \A k \in D : d <= k
  BY <1>1, Least
<1>3. PICK g \in B : d = u - g
  BY <1>2
<1>4. ASSUME NEW b \in B
      PROVE  g >= b
  <2>1. u - g <= u - b /\ b \in Nat /\ g \in Nat
    BY <1>2, <1>3
  <2> QED
    BY <2>1
<1> QED
  BY <1>3, <1>4 DEF Max

\* The latest instant at which a mission was given.
LEMMA LastPlayedIs ==
  ASSUME NEW h, Dated(h), NEW m
  PROVE  /\ Seen(h, m) =>
              /\ \E i \in DOMAIN h : h[i].mission = m /\ h[i].at = LastPlayed(h, m)
              /\ \A i \in DOMAIN h : h[i].mission = m => h[i].at <= LastPlayed(h, m)
         /\ ~Seen(h, m) => LastPlayed(h, m) = 0
         /\ LastPlayed(h, m) \in Nat
         /\ Seen(h, m) <=> LastPlayed(h, m) > 0
<1>1. CASE ~Seen(h, m)
  BY <1>1 DEF LastPlayed
<1>2. CASE Seen(h, m)
  <2> DEFINE I == {j \in DOMAIN h : h[j].mission = m}
             B == {h[i].at : i \in I}
  <2>1. PICK n \in Nat, last \in Nat : DOMAIN h = 1 .. n /\ \A k \in 1 .. n : h[k].at \in 1 .. last
    BY DEF Dated
  <2>2. B \in SUBSET Nat /\ B # {}
    <3>1. \A i \in I : h[i].at \in Nat
      BY <2>1
    <3>2. I # {}
      BY <1>2 DEF Seen
    <3> QED
      BY <3>1, <3>2
  <2>3. \A b \in B : b <= last
    BY <2>1
  <2>4. Max(B) \in B /\ \A b \in B : b <= Max(B)
    BY <2>1, <2>2, <2>3, Greatest
  <2>5. LastPlayed(h, m) = Max(B)
    BY <1>2 DEF LastPlayed
  <2>6. LastPlayed(h, m) \in B /\ \A b \in B : b <= LastPlayed(h, m)
    BY <2>4, <2>5
  <2>7. \A b \in B : b \in Nat \ {0}
    BY <2>1
  <2> QED
    BY <1>2, <2>6, <2>7
<1> QED
  BY <1>1, <1>2

-------------------------------------------------------------------------------
(* What the queries choose.                                                *)

\* The random draw is among the missions that waited longest.
LEMMA RandomIsWarranted ==
  ASSUME NEW h, Dated(h), ~ranked, NEW m \in RandomChoice(h)
  PROVE  Warranted(catalogue, ranked, h, m)
<1>1. m \in catalogue /\ \A n \in catalogue : LastPlayed(h, m) <= LastPlayed(h, n)
  BY DEF RandomChoice
<1>2. ASSUME Seen(h, m), NEW n \in catalogue
      PROVE  Seen(h, n)
  <2>1. LastPlayed(h, m) > 0 /\ LastPlayed(h, m) \in Nat /\ LastPlayed(h, n) \in Nat
    BY <1>2, LastPlayedIs
  <2>2. LastPlayed(h, n) > 0
    BY <1>1, <2>1
  <2> QED
    BY <2>2, LastPlayedIs
<1> QED
  BY <1>1, <1>2 DEF Warranted

\* The ranked draw is among the first of the missions the query leaves open.
LEMMA RankedIsWarranted ==
  ASSUME NEW h, Dated(h), ranked, NEW m \in RankedChoice(h)
  PROVE  Warranted(catalogue, ranked, h, m)
<1>1. m \in Open(h) /\ Cardinality({k \in Open(h) : Sooner(h, k, m)}) < CandidateCount
  BY DEF RankedChoice, FirstOf
<1>2. m \in catalogue /\ (m \notin Previous(h) \/ Cardinality(catalogue) = 1)
  BY <1>1 DEF Open
<1>3. ASSUME Seen(h, m)
      PROVE  \A n \in catalogue : Seen(h, n)
  BY <1>1, <1>3 DEF Open
<1>4. ASSUME Seen(h, m)
      PROVE  {k \in Open(h) : Sooner(h, k, m)} =
             {k \in catalogue : /\ k \notin Previous(h) \/ Cardinality(catalogue) = 1
                                /\ Sooner(h, k, m)}
  <2>1. {n \in catalogue : ~Seen(h, n)} = {}
    BY <1>3, <1>4
  <2>2. \A k : k \in Open(h) <=>
                 k \in catalogue /\ (k \notin Previous(h) \/ Cardinality(catalogue) = 1)
    BY <2>1 DEF Open
  <2> QED
    BY <2>2
<1> QED
  BY <1>1, <1>2, <1>3, <1>4 DEF Warranted

-------------------------------------------------------------------------------
(* The invariant.                                                          *)

\* Each row of h was warranted by those before it.
GoodHistory(h) ==
  /\ h \in Seq(Row)
  /\ \A j \in DOMAIN h : Warranted(catalogue, ranked, Prefix(h, j), h[j].mission)

LEMMA GoodIsDated ==
  ASSUME clock \in Nat, NEW h \in Seq(Row)
  PROVE  /\ Dated(h) /\ Len(h) \in Nat /\ DOMAIN h = 1 .. Len(h)
         /\ \A k \in 1 .. Len(h) : h[k] \in Row
         /\ \A j \in 1 .. Len(h) : Dated(Prefix(h, j))
<1>1. Len(h) \in Nat /\ DOMAIN h = 1 .. Len(h) /\ h \in [1 .. Len(h) -> Row]
  BY LenProperties
<1>2. \A k \in 1 .. Len(h) : h[k] \in Row
  BY <1>1
<1> DEFINE last == IF clock = 0 THEN 0 ELSE clock - 1
<1>3. last \in Nat /\ \A k \in 1 .. Len(h) : h[k].at \in 1 .. last
  BY <1>2 DEF Row
<1>4. Dated(h)
  BY <1>1, <1>3 DEF Dated
<1>5. ASSUME NEW j \in 1 .. Len(h)
      PROVE  Dated(Prefix(h, j))
  <2>1. DOMAIN Prefix(h, j) = 1 .. (j - 1) /\ j - 1 \in Nat
    BY <1>1 DEF Prefix
  <2>2. \A k \in 1 .. (j - 1) : Prefix(h, j)[k] = h[k] /\ k \in 1 .. Len(h)
    BY <1>1 DEF Prefix
  <2>3. \A k \in 1 .. (j - 1) : Prefix(h, j)[k].at \in 1 .. last
    BY <1>3, <2>2
  <2> QED
    BY <1>3, <2>1, <2>3 DEF Dated
<1> QED
  BY <1>1, <1>2, <1>4, <1>5

\* The next row is warranted by the rows there are.
LEMMA AssignIsGood ==
  ASSUME clock \in Nat, NEW h, GoodHistory(h), NEW at \in 1 .. (clock - 1),
         NEW g \in Assign(h, at)
  PROVE  GoodHistory(g)
<1>1. PICK m \in Choice(h), u \in 0 .. 2 : g = Append(h, [mission |-> m, at |-> at, uuid |-> u])
  <2>1. PICK m \in Choice(h), u \in IF \E i \in DOMAIN h : h[i].at = at THEN {0, 2} ELSE {1} :
          g = Append(h, [mission |-> m, at |-> at, uuid |-> u])
    BY DEF Assign
  <2>2. u \in 0 .. 2
    BY <2>1
  <2> QED
    BY <2>1, <2>2
<1>2. h \in Seq(Row) /\ Dated(h) /\ Len(h) \in Nat /\ DOMAIN h = 1 .. Len(h)
  BY GoodIsDated DEF GoodHistory
<1>3. Warranted(catalogue, ranked, h, m)
  BY <1>1, <1>2, RandomIsWarranted, RankedIsWarranted DEF Choice
<1> DEFINE r == [mission |-> m, at |-> at, uuid |-> u]
<1>4. r \in Row
  BY <1>1, <1>3 DEF Row, Warranted
<1>5. /\ g \in Seq(Row) /\ Len(g) = Len(h) + 1 /\ DOMAIN g = 1 .. (Len(h) + 1)
      /\ \A k \in 1 .. Len(h) : g[k] = h[k]
      /\ g[Len(h) + 1] = r
  BY <1>1, <1>2, <1>4, AppendProperties, LenProperties
<1>6. ASSUME NEW j \in 1 .. Len(h)
      PROVE  Warranted(catalogue, ranked, Prefix(g, j), g[j].mission)
  <2>1. Prefix(g, j) = Prefix(h, j)
    BY <1>2, <1>5 DEF Prefix
  <2>2. g[j] = h[j]
    BY <1>5
  <2> QED
    BY <1>2, <2>1, <2>2 DEF GoodHistory
<1>7. Prefix(g, Len(h) + 1) = h
  <2>1. h = [k \in 1 .. Len(h) |-> h[k]]
    BY <1>2, LenProperties
  <2> QED
    BY <1>2, <1>5, <2>1 DEF Prefix
<1>8. Warranted(catalogue, ranked, Prefix(g, Len(h) + 1), g[Len(h) + 1].mission)
  BY <1>3, <1>5, <1>7
<1> QED
  BY <1>2, <1>5, <1>6, <1>8 DEF GoodHistory

LEMMA InitIInv ==
  ASSUME Init
  PROVE  IInv
  BY DEF Init, IInv, TypeOK, Idle

\* A transaction that leaves these rows.
LEMMA CommitKeeps ==
  ASSUME IInv, NEW t \in Tx, Close(t), GoodHistory(history')
  PROVE  IInv'
<1>1. UNCHANGED <<catalogue, ranked, chaos, clock>> /\ tx' = [tx EXCEPT ![t] = Idle]
  BY DEF Close
<1>2. history' \in Seq([mission : catalogue', at : 1 .. (clock' - 1), uuid : 0 .. 2])
  BY <1>1 DEF GoodHistory, Row
<1>3. TypeOK'
  BY <1>1, <1>2 DEF IInv, TypeOK, Idle
<1>4. \A s \in Tx : tx'[s] # Idle => tx'[s].at \in 1 .. (clock' - 1)
  BY <1>1 DEF IInv, TypeOK
<1>5. \A j \in DOMAIN history' :
        Warranted(catalogue', ranked', Prefix(history', j), history'[j].mission)
  BY <1>1 DEF GoodHistory
<1>6. clock' > 0
  BY <1>1 DEF IInv
<1> QED
  BY <1>3, <1>4, <1>5, <1>6 DEF IInv, Idle, Warranted, Prefix, Seen, Previous, LastPlayed,
     Sooner

LEMMA NextIInv ==
  ASSUME IInv, [Next]_vars
  PROVE  IInv'
<1>1. clock \in Nat /\ GoodHistory(history)
  BY DEF IInv, TypeOK, GoodHistory, Row
<1>2. ASSUME NEW t \in Tx, NEW kind \in {"first", "own", "other"}, Begin(t, kind)
      PROVE  IInv'
  <2>1. /\ UNCHANGED <<catalogue, ranked, chaos, history>> /\ clock' = clock + 1
        /\ tx' = [tx EXCEPT ![t] = [kind |-> kind, at |-> clock, target |-> Len(history)]]
    BY <1>2 DEF Begin
  <2> DEFINE NextRow == [mission : catalogue, at : 1 .. clock, uuid : 0 .. 2]
  <2>2. history \in Seq(NextRow)
    <3>1. Row \subseteq NextRow
      BY <1>1 DEF Row
    <3> QED
      BY <1>1, <3>1, SeqMonotonic DEF GoodHistory
  <2>3. history' \in Seq([mission : catalogue', at : 1 .. (clock' - 1), uuid : 0 .. 2])
    <3>1. clock' - 1 = clock
      BY <1>1, <2>1
    <3> QED
      BY <2>1, <2>2, <3>1
  <2>4. TypeOK'
    <3>1. Len(history) \in Nat
      BY <1>1, LenProperties DEF GoodHistory
    <3> QED
      BY <1>1, <2>1, <2>3, <3>1 DEF IInv, TypeOK
  <2>5. ASSUME NEW s \in Tx, tx'[s] # Idle
        PROVE  tx'[s].at \in 1 .. (clock' - 1)
    <3>1. CASE s = t
      <4>1. tx'[s].at = clock
        BY <2>1, <3>1 DEF IInv, TypeOK
      <4>2. clock \in Nat \ {0}
        BY <1>1 DEF IInv
      <4> QED
        BY <2>1, <4>1, <4>2
    <3>2. CASE s # t
      <4>1. tx'[s] = tx[s]
        BY <2>1, <3>2 DEF IInv, TypeOK
      <4> QED
        BY <1>1, <2>1, <2>5, <4>1 DEF IInv
    <3> QED
      BY <3>1, <3>2
  <2>6. \A j \in DOMAIN history' :
          Warranted(catalogue', ranked', Prefix(history', j), history'[j].mission)
    BY <2>1 DEF IInv
  <2>7. clock' > 0
    BY <1>1, <2>1
  <2> QED
    BY <2>4, <2>5, <2>6, <2>7 DEF IInv, Idle, Warranted, Prefix, Seen, Previous, LastPlayed,
       Sooner
<1>3. ASSUME NEW t \in Tx, CommitFirst(t) \/ CommitOther(t) \/ Refuse(t) \/ CommitOwn(t)
      PROVE  Close(t) /\ GoodHistory(history')
  <2>1. Close(t) /\ tx[t].at \in 1 .. (clock - 1)
    <3>1. Close(t) /\ tx[t].kind # "idle"
      BY <1>3 DEF CommitFirst, CommitOther, CommitOwn, Refuse
    <3> QED
      BY <3>1 DEF IInv, Idle
  <2>2. CASE UNCHANGED history
    BY <1>1, <2>1, <2>2
  <2>3. CASE history' \in Assign(history, tx[t].at)
    BY <1>1, <2>1, <2>3, AssignIsGood
  <2>4. CASE \E h \in Assign(history, tx[t].at) : history' \in Assign(h, tx[t].at)
    BY <1>1, <2>1, <2>4, AssignIsGood
  <2>5. UNCHANGED history \/ history' \in Assign(history, tx[t].at)
        \/ \E h \in Assign(history, tx[t].at) : history' \in Assign(h, tx[t].at)
    BY <1>3 DEF CommitFirst, CommitOther, CommitOwn, Refuse
  <2> QED
    BY <2>1, <2>2, <2>3, <2>4, <2>5
<1>4. CASE UNCHANGED vars
  BY <1>4 DEF IInv, TypeOK, vars, Warranted
<1> QED
  BY <1>2, <1>3, <1>4, CommitKeeps DEF Next

LEMMA Invariance == Spec => []IInv
<1> QED
  BY InitIInv, NextIInv, PTL DEF Spec

-------------------------------------------------------------------------------
(* What the invariant says of any two rows.                                *)

\* Row j of a good history, with what is known of the rows before it.
LEMMA RowIs ==
  ASSUME IInv, NEW j \in DOMAIN history
  PROVE  /\ j \in 1 .. Len(history) /\ Len(history) \in Nat /\ clock \in Nat
         /\ DOMAIN history = 1 .. Len(history)
         /\ history[j].mission \in catalogue /\ history[j].at \in 1 .. (clock - 1)
         /\ history[j].uuid \in 0 .. 2
         /\ Dated(Prefix(history, j))
         /\ DOMAIN Prefix(history, j) = 1 .. (j - 1)
         /\ \A k \in 1 .. (j - 1) : Prefix(history, j)[k] = history[k]
         /\ Warranted(catalogue, ranked, Prefix(history, j), history[j].mission)
         /\ IsFiniteSet(catalogue)
<1>1. clock \in Nat /\ history \in Seq(Row)
  BY DEF IInv, TypeOK, Row
<1>2. /\ Len(history) \in Nat /\ DOMAIN history = 1 .. Len(history)
      /\ \A k \in 1 .. Len(history) : history[k] \in Row
      /\ \A k \in 1 .. Len(history) : Dated(Prefix(history, k))
  BY <1>1, GoodIsDated
<1>3. /\ history[j].mission \in catalogue /\ history[j].at \in 1 .. (clock - 1)
      /\ history[j].uuid \in 0 .. 2
  BY <1>2 DEF Row
<1>4. Warranted(catalogue, ranked, Prefix(history, j), history[j].mission)
  BY DEF IInv
<1>5. IsFiniteSet(catalogue)
  BY CataloguesAssumption DEF IInv, TypeOK
<1> QED
  BY <1>1, <1>2, <1>3, <1>4, <1>5 DEF Prefix

\* What a prefix has seen.
LEMMA SeenBefore ==
  ASSUME IInv, NEW j \in DOMAIN history, NEW m
  PROVE  Seen(Prefix(history, j), m) <=> \E k \in 1 .. (j - 1) : history[k].mission = m
  BY RowIs DEF Seen

(* No mission comes back to a player before the whole catalogue was given. *)
THEOREM NothingReturnsEarly == Spec => []AllSeenBeforeReturn
<1>1. IInv => AllSeenBeforeReturn
  <2> SUFFICES ASSUME IInv, NEW i \in DOMAIN history, NEW j \in DOMAIN history, Returns(i, j)
               PROVE  catalogue = {history[k].mission : k \in 1 .. (j - 1)}
    BY DEF AllSeenBeforeReturn
  <2>1. i \in 1 .. (j - 1) /\ history[i].mission = history[j].mission
    BY RowIs DEF Returns
  <2>2. \A n \in catalogue : Seen(Prefix(history, j), n)
    <3>1. Seen(Prefix(history, j), history[j].mission)
      BY <2>1, SeenBefore
    <3> QED
      BY <3>1, RowIs DEF Warranted
  <2>3. \A n \in catalogue : \E k \in 1 .. (j - 1) : history[k].mission = n
    BY <2>2, SeenBefore
  <2>4. \A k \in 1 .. (j - 1) : history[k].mission \in catalogue
    <3>1. \A k \in 1 .. (j - 1) : k \in DOMAIN history
      BY RowIs
    <3> QED
      BY <3>1, RowIs
  <2> QED
    BY <2>3, <2>4
<1> QED
  BY <1>1, Invariance, PTL

(* Only a row whose transaction began no earlier than that of the mission  *)
(* it repeats, and that stands before it, makes the draw repeat it.        *)
THEOREM RepeatsComeFromOverlaps == Spec => []RepeatNeedsOverlap
<1>1. IInv => RepeatNeedsOverlap
  <2> SUFFICES ASSUME IInv, NEW j \in 2 .. Len(history), Cardinality(catalogue) > 1,
                      history[j].mission = history[j - 1].mission
               PROVE  \E i \in 1 .. (j - 2) : history[i].at >= history[j - 1].at
    BY DEF RepeatNeedsOverlap
  <2> DEFINE h == Prefix(history, j)
             m == history[j].mission
  <2>1. j \in DOMAIN history /\ j - 1 \in DOMAIN history /\ j \in Nat
    <3>1. history \in Seq(Row)
      BY DEF IInv, TypeOK, Row
    <3> QED
      BY <3>1, LenProperties
  <2>2. /\ Dated(h) /\ DOMAIN h = 1 .. (j - 1) /\ Warranted(catalogue, ranked, h, m)
        /\ \A k \in 1 .. (j - 1) : h[k] = history[k] /\ h[k].at \in Nat /\ h[k].uuid \in Nat
        /\ IsFiniteSet(catalogue) /\ m \in catalogue
    <3>1. ASSUME NEW k \in 1 .. (j - 1)
          PROVE  history[k].at \in Nat /\ history[k].uuid \in Nat
      <4>1. k \in DOMAIN history
        BY <2>1, RowIs
      <4>2. history[k].at \in 1 .. (clock - 1) /\ history[k].uuid \in 0 .. 2
        BY <4>1, RowIs
      <4> QED
        BY <4>2
    <3> QED
      BY <2>1, <3>1, RowIs
  <2> HIDE DEF h
  <2>3. j - 1 \in 1 .. (j - 1) /\ Seen(h, m)
    BY <2>1, <2>2 DEF Seen
  <2>4. CASE ranked
    <3>1. m \notin Previous(h)
      BY <2>2, <2>4 DEF Warranted
    <3>2. PICK k \in 1 .. (j - 1) : ~ (\/ h[j - 1].at > h[k].at
                                       \/ h[j - 1].at = h[k].at /\ h[j - 1].uuid >= h[k].uuid)
      BY <2>2, <2>3, <3>1 DEF Previous
    <3>3. h[k].at >= h[j - 1].at
      BY <2>2, <2>3, <3>2
    <3>4. k # j - 1
      BY <2>2, <2>3, <3>2
    <3> QED
      BY <2>1, <2>2, <2>3, <3>3, <3>4
  <2>5. CASE ~ranked
    <3>1. PICK n \in catalogue : n # m
      <4>1. catalogue # {m}
        <5>1. Cardinality({m}) = 1
          BY FS_Singleton
        <5>2. ASSUME catalogue = {m} PROVE Cardinality(catalogue) = Cardinality({m})
          BY <5>2, Zenon
        <5> QED
          BY <5>1, <5>2
      <4> QED
        BY <2>2, <4>1
    <3>2. LastPlayed(h, m) <= LastPlayed(h, n) /\ Seen(h, n)
      BY <2>2, <2>3, <2>5 DEF Warranted
    <3>3. PICK k \in 1 .. (j - 1) : h[k].mission = n /\ h[k].at = LastPlayed(h, n)
      BY <2>2, <3>2, LastPlayedIs
    <3>4. h[j - 1].at <= LastPlayed(h, m)
      BY <2>2, <2>3, LastPlayedIs
    <3>5. k # j - 1
      BY <2>2, <2>3, <3>1, <3>3
    <3>6. h[k].at >= h[j - 1].at
      <4>1. LastPlayed(h, m) \in Nat /\ LastPlayed(h, n) \in Nat
        BY <2>2, LastPlayedIs
      <4> QED
        BY <2>2, <2>3, <3>2, <3>3, <3>4, <4>1
    <3> QED
      BY <2>1, <2>2, <2>3, <3>5, <3>6
  <2> QED
    BY <2>4, <2>5
<1> QED
  BY <1>1, Invariance, PTL

\* Within rows whose instants grow, a later row carries a later instant.
LEMMA OrderIsTransitive ==
  ASSUME IInv, NEW j \in DOMAIN history, InOrder(j), NEW a \in 1 .. j, NEW b \in 1 .. j, a < b
  PROVE  history[a].at < history[b].at
<1>1. j \in Nat /\ \A k \in 1 .. j : history[k].at \in Nat
  <2>1. j \in 1 .. Len(history) /\ Len(history) \in Nat /\ DOMAIN history = 1 .. Len(history)
    BY RowIs
  <2>2. ASSUME NEW k \in 1 .. j
        PROVE  history[k].at \in Nat
    <3>1. k \in DOMAIN history
      BY <2>1
    <3>2. history[k].at \in 1 .. (clock - 1)
      BY <3>1, RowIs
    <3> QED
      BY <3>2
  <2> QED
    BY <2>1, <2>2
<1> DEFINE A == {n \in Nat : a + 1 + n <= j => history[a].at < history[a + 1 + n].at}
<1>2. 0 \in A
  BY <1>1 DEF InOrder
<1>3. ASSUME NEW n \in Nat, n \in A
      PROVE  n + 1 \in A
  <2> SUFFICES ASSUME a + 1 + (n + 1) <= j
               PROVE  history[a].at < history[a + 1 + (n + 1)].at
    OBVIOUS
  <2> DEFINE k == a + 1 + n
  <2>1. k \in 1 .. (j - 1) /\ k + 1 <= j /\ k + 1 = a + 1 + (n + 1) /\ k \in 1 .. j
        /\ k + 1 \in 1 .. j
    BY <1>1
  <2>2. history[a].at < history[k].at
    BY <1>3, <2>1
  <2> HIDE DEF k
  <2>3. history[k].at < history[k + 1].at
    BY <2>1 DEF InOrder
  <2>4. history[a].at \in Nat /\ history[k].at \in Nat /\ history[k + 1].at \in Nat
    BY <1>1, <2>1
  <2>5. history[a].at < history[k + 1].at
    BY <2>2, <2>3, <2>4
  <2> QED
    BY <2>1, <2>5
<1>4. b - a - 1 \in A
  <2>1. b - a - 1 \in Nat
    BY <1>1
  <2> HIDE DEF A
  <2> QED
    BY <1>2, <1>3, <2>1, Induction
<1>5. a + 1 + (b - a - 1) = b
  BY <1>1
<1> QED
  BY <1>1, <1>4, <1>5

\* What two occurrences of a mission with no third between them have in common.
LEMMA Apart ==
  ASSUME IInv, NEW i \in DOMAIN history, NEW j \in DOMAIN history, Returns(i, j),
         InOrder(j - 1)
  PROVE  LET h == Prefix(history, j)
             m == history[j].mission
         IN  /\ Seen(h, m) /\ m \notin Between(i, j)
             /\ Between(i, j) \subseteq catalogue
             /\ \A n \in catalogue \ {m} :
                  n \in Between(i, j) \/ LastPlayed(h, n) < LastPlayed(h, m)
             /\ Previous(h) = {history[j - 1].mission}
<1> DEFINE h == Prefix(history, j)
           m == history[j].mission
<1>1. /\ i \in 1 .. (j - 1) /\ j \in Nat /\ j - 1 \in DOMAIN history
      /\ history[i].mission = m /\ m \notin Between(i, j)
  BY RowIs DEF Returns
<1>2. /\ Dated(h) /\ DOMAIN h = 1 .. (j - 1) /\ \A k \in 1 .. (j - 1) : h[k] = history[k]
      /\ Warranted(catalogue, ranked, h, m) /\ m \in catalogue
  BY RowIs
<1>3. ASSUME NEW k \in 1 .. (j - 1)
      PROVE  /\ history[k].at \in Nat /\ history[k].uuid \in Nat
             /\ history[k].mission \in catalogue
  <2>1. k \in DOMAIN history
    BY <1>1, RowIs
  <2>2. history[k].at \in 1 .. (clock - 1) /\ history[k].uuid \in 0 .. 2
        /\ history[k].mission \in catalogue
    BY <2>1, RowIs
  <2> QED
    BY <2>2
<1>4. Seen(h, m)
  BY <1>1, <1>2 DEF Seen
<1>5. \A a, b \in 1 .. (j - 1) : a < b => history[a].at < history[b].at
  BY <1>1, OrderIsTransitive
<1>6. Between(i, j) \subseteq catalogue
  BY <1>1, <1>3 DEF Between
<1> HIDE DEF h, m
<1>7. ASSUME NEW n \in catalogue \ {m}, n \notin Between(i, j)
      PROVE  LastPlayed(h, n) < LastPlayed(h, m)
  <2>1. Seen(h, n)
    BY <1>2, <1>4 DEF Warranted
  <2>2. PICK k \in 1 .. (j - 1) : h[k].mission = n /\ h[k].at = LastPlayed(h, n)
    BY <1>2, <2>1, LastPlayedIs
  <2>3. k \notin (i + 1) .. (j - 1)
    BY <1>2, <1>7, <2>2 DEF Between
  <2>4. k # i
    BY <1>1, <1>2, <1>7, <2>2
  <2>5. k < i
    BY <1>1, <2>3, <2>4
  <2>6. history[k].at < history[i].at
    BY <1>1, <1>5, <2>5
  <2>7. h[i].at <= LastPlayed(h, m) /\ LastPlayed(h, m) \in Nat
    BY <1>1, <1>2, <1>4, LastPlayedIs
  <2>8. /\ history[k].at \in Nat /\ history[i].at \in Nat
        /\ h[i].at = history[i].at /\ h[k].at = history[k].at
    BY <1>1, <1>2, <1>3
  <2> QED
    BY <2>2, <2>6, <2>7, <2>8
<1>8. Previous(h) = {history[j - 1].mission}
  <2>1. j - 1 \in 1 .. (j - 1)
    BY <1>1
  <2>2. \A k \in 1 .. (j - 1) : \/ h[j - 1].at > h[k].at
                                \/ h[j - 1].at = h[k].at /\ h[j - 1].uuid >= h[k].uuid
    <3> SUFFICES ASSUME NEW k \in 1 .. (j - 1)
                 PROVE  \/ h[j - 1].at > h[k].at
                        \/ h[j - 1].at = h[k].at /\ h[j - 1].uuid >= h[k].uuid
      OBVIOUS
    <3>1. CASE k = j - 1
      BY <1>2, <1>3, <2>1, <3>1
    <3>2. CASE k # j - 1
      <4>1. k < j - 1
        BY <1>1, <3>2
      <4>2. history[k].at < history[j - 1].at
        BY <1>5, <2>1, <4>1
      <4> QED
        BY <1>2, <1>3, <2>1, <4>2
    <3> QED
      BY <3>1, <3>2
  <2>3. ASSUME NEW k \in 1 .. (j - 1), k # j - 1
        PROVE  ~ (\/ h[k].at > h[j - 1].at
                  \/ h[k].at = h[j - 1].at /\ h[k].uuid >= h[j - 1].uuid)
    <3>1. k < j - 1
      BY <1>1, <2>3
    <3>2. history[k].at < history[j - 1].at
      BY <1>5, <2>1, <3>1
    <3> QED
      BY <1>2, <1>3, <2>1, <3>2
  <2> DEFINE I == {k \in DOMAIN h : \A l \in DOMAIN h :
                     \/ h[k].at > h[l].at
                     \/ h[k].at = h[l].at /\ h[k].uuid >= h[l].uuid}
  <2>4. I = {j - 1}
    BY <1>2, <2>1, <2>2, <2>3
  <2>5. Previous(h) = {h[k].mission : k \in I}
    BY DEF Previous
  <2> HIDE DEF I
  <2>6. Previous(h) = {h[j - 1].mission}
    BY <2>4, <2>5
  <2> QED
    BY <1>2, <2>1, <2>6
<1> QED
  BY <1>1, <1>4, <1>6, <1>7, <1>8 DEF h, m

\* What is at least each of two numbers is at least the greater.
LEMMA MaxOfTwo ==
  ASSUME NEW a \in Int, NEW b \in Int
  PROVE  Max({a, b}) \in {a, b}
<1>1. \E x \in {a, b} : \A y \in {a, b} : x >= y
  <2>1. CASE a >= b
    BY <2>1
  <2>2. CASE b >= a
    BY <2>2
  <2> QED
    BY <2>1, <2>2
<1> QED
  BY <1>1 DEF Max

(* Between two occurrences of a mission the player gets all the others, or *)
(* those that the limit of the ranked query keeps out and at least one, as *)
(* long as the transactions that gave them commit in the order they began. *)
THEOREM OthersAreGivenFirst == Spec => []OthersComeFirst
<1>1. IInv => OthersComeFirst
  <2> SUFFICES ASSUME IInv, NEW i \in DOMAIN history, NEW j \in DOMAIN history, Returns(i, j),
                      InOrder(j - 1), Cardinality(catalogue) # 1
               PROVE  Cardinality(Between(i, j)) >=
                        IF ranked THEN Max({Cardinality(catalogue) - CandidateCount, 1})
                        ELSE Cardinality(catalogue) - 1
    BY DEF OthersComeFirst
  <2> DEFINE h == Prefix(history, j)
             m == history[j].mission
             size == Cardinality(catalogue)
             B == Between(i, j)
  <2>1. /\ Seen(h, m) /\ m \notin B /\ B \subseteq catalogue
        /\ \A n \in catalogue \ {m} : n \in B \/ LastPlayed(h, n) < LastPlayed(h, m)
        /\ Previous(h) = {history[j - 1].mission}
    BY Apart
  <2>2. /\ IsFiniteSet(catalogue) /\ m \in catalogue /\ Warranted(catalogue, ranked, h, m)
        /\ j \in Nat /\ i \in 1 .. (j - 1)
    BY RowIs DEF Returns
  <2>3. IsFiniteSet(B) /\ Cardinality(B) \in Nat /\ size \in Nat
    BY <2>1, <2>2, FS_Subset, FS_CardinalityType
  <2>4. Cardinality(catalogue \ {m}) = size - 1 /\ IsFiniteSet(catalogue \ {m})
    BY <2>2, FS_RemoveElement
  <2>5. CASE ~ranked
    <3>1. catalogue \ {m} \subseteq B
      <4> SUFFICES ASSUME NEW n \in catalogue \ {m}
                   PROVE  ~ (LastPlayed(h, n) < LastPlayed(h, m))
        BY <2>1
      <4>1. LastPlayed(h, m) <= LastPlayed(h, n)
        BY <2>2, <2>5 DEF Warranted
      <4>2. LastPlayed(h, m) \in Nat /\ LastPlayed(h, n) \in Nat
        BY LastPlayedIs, RowIs
      <4> QED
        BY <4>1, <4>2
    <3>2. Cardinality(catalogue \ {m}) <= Cardinality(B)
      BY <2>3, <3>1, FS_Subset
    <3> QED
      BY <2>3, <2>4, <2>5, <3>2
  <2>6. CASE ranked
    <3> DEFINE S == {k \in catalogue : /\ k \notin Previous(h) \/ size = 1
                                       /\ Sooner(h, k, m)}
    <3>1. m \notin Previous(h) /\ Cardinality(S) < CandidateCount
      BY <2>1, <2>2, <2>6 DEF Warranted
    <3>2. history[j - 1].mission \in B
      <4>1. i # j - 1
        BY <2>1, <3>1 DEF Returns
      <4>2. j - 1 \in (i + 1) .. (j - 1)
        BY <2>2, <4>1
      <4> QED
        BY <4>2 DEF Between
    <3>3. Cardinality(B) >= 1
      BY <2>3, <3>2, FS_EmptySet
    <3>4. catalogue \ {m} \subseteq B \cup S
      <4> SUFFICES ASSUME NEW n \in catalogue \ {m}, n \notin B
                   PROVE  n \in S
        OBVIOUS
      <4>1. Sooner(h, n, m)
        BY <2>1 DEF Sooner
      <4>2. n \notin Previous(h)
        BY <2>1, <3>2
      <4> QED
        BY <4>1, <4>2
    <3>5. IsFiniteSet(S) /\ Cardinality(S) \in Nat
      BY <2>2, FS_Subset, FS_CardinalityType
    <3> HIDE DEF S, B
    <3>6. Cardinality(B \cup S) <= Cardinality(B) + Cardinality(S) /\ IsFiniteSet(B \cup S)
      <4>1. /\ IsFiniteSet(B \cup S)
            /\ Cardinality(B \cup S) = Cardinality(B) + Cardinality(S) - Cardinality(B \cap S)
        BY <2>3, <3>5, FS_Union
      <4>2. Cardinality(B \cap S) \in Nat
        BY <2>3, FS_Intersection, FS_CardinalityType
      <4> QED
        BY <2>3, <3>5, <4>1, <4>2
    <3>7. Cardinality(catalogue \ {m}) <= Cardinality(B \cup S)
      BY <3>4, <3>6, FS_Subset
    <3>8. Cardinality(B) >= size - CandidateCount
      <4>1. CandidateCount \in Nat
        BY BoundsAssumption
      <4>2. Cardinality(B \cup S) \in Nat
        BY <3>6, FS_CardinalityType
      <4> QED
        BY <2>3, <2>4, <3>1, <3>5, <3>6, <3>7, <4>1, <4>2
    <3>9. Max({size - CandidateCount, 1}) \in {size - CandidateCount, 1}
      BY <2>3, MaxOfTwo, BoundsAssumption
    <3> QED
      BY <2>6, <3>3, <3>8, <3>9 DEF B
  <2> QED
    BY <2>5, <2>6
<1> QED
  BY <1>1, Invariance, PTL

===============================================================================
